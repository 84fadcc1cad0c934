------------------------- MODULE MCSchedulerLifecycle -------------------------
(***************************************************************************)
(* Instances of SchedulerLifecycle for TLC.                                *)
(***************************************************************************)
EXTENDS SchedulerLifecycle

CONSTANTS j1, j2, c1, c2

\* j1 runs on the default executor, j2 on another if that one is there.
OneEach == [j \in Jobs |-> IF j = j1 THEN "default" ELSE "extra"]

\* c1 operates the scheduler, c2 exchanges its executors.
Operator == [c \in Callers |-> IF c = c1 THEN LifecycleOps ELSE ComponentOps]
=============================================================================
