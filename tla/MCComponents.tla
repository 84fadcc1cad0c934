----------------------------- MODULE MCComponents -----------------------------
(***************************************************************************)
(* Instances of Components for TLC.                                        *)
(***************************************************************************)
EXTENDS Components, TLC

CONSTANTS j1, j2, c1, c2

\* j1 names the default executor, j2 the other one.
OneEach == [j \in Jobs |-> IF j = j1 THEN "default" ELSE "extra"]

\* Both threads serve every request.
AllOps == [c \in Requests |-> JobOps \cup StoreOps \cup ExecutorOps]

Threads == Permutations(Requests)
=============================================================================
