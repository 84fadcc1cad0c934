--------------------------- MODULE MCWorkflowRun ----------------------------
(***************************************************************************)
(* Instances of WorkflowRun for TLC.                                       *)
(***************************************************************************)
EXTENDS WorkflowRun

CONSTANTS a, b, c

\* a may be tried twice, the others once.
RetryA == [n \in Nodes |-> IF n = a THEN 2 ELSE 1]

\* Every edge, those to itself included, with and without a condition.
Edges == [source : Nodes, target : Nodes, condition : BOOLEAN]

PlainEdges == {e \in Edges : ~e.condition}

NoCallbacks == {}
=============================================================================
