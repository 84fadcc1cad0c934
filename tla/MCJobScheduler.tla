--------------------------- MODULE MCJobScheduler ---------------------------
(***************************************************************************)
(* Instances of JobScheduler for TLC.  Each configuration takes its values *)
(* from these definitions.                                                 *)
(***************************************************************************)
EXTENDS JobScheduler

CONSTANTS j1, j2

One   == [j \in Jobs |-> 1]
Two   == [j \in Jobs |-> 2]
TwoOne == [j \in Jobs |-> IF j = j1 THEN 2 ELSE 1]

NoGrace  == [j \in Jobs |-> None]
Grace1   == [j \in Jobs |-> 1]
GraceMix == [j \in Jobs |-> IF j = j1 THEN 1 ELSE None]

\* j1 fires at every unit from 1 on, j2 once.
EveryUnit   == Interval(1, 1, None)
OnceAt1     == Date(1)
EverySecond == Interval(0, 2, None)

AllEveryUnit == [j \in Jobs |-> EveryUnit]
UnitAndOnce  == [j \in Jobs |-> IF j = j1 THEN EveryUnit ELSE OnceAt1]
AllOnce      == [j \in Jobs |-> OnceAt1]

\* One kind of store for all jobs, or a table for j1 beside Redis for j2.
AllMemory     == [j \in Jobs |-> "memory"]
AllTable      == [j \in Jobs |-> "table"]
AllRedis      == [j \in Jobs |-> "redis"]
TableAndRedis == [j \in Jobs |-> IF j = j1 THEN "table" ELSE "redis"]

NoTriggers   == {}
OneTrigger   == {EverySecond}

NoOps        == {}
NoFaults     == {}
StoreOps     == {"add", "replace", "remove", "reschedule", "pause", "resume"}

\* Bound on the number of runs that EveryRunLogged looks at.
MaxRuns == 8

(***************************************************************************)
(* Every scheduled run that reached the executor ends with its log stored, *)
(* although the callback has to win _lock from the loop and the API calls. *)
(***************************************************************************)
EveryRunLogged ==
    \A i \in 1..MaxRuns :
        (i \in DOMAIN runs /\ runs[i].kind = "due")
            ~> (i \in DOMAIN runs /\ runs[i].phase = "logged")
=============================================================================
