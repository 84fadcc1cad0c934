------------------------------ MODULE Dataflow ------------------------------
(***************************************************************************)
(* What a workflow run promises, whatever the engine: tasks start as their *)
(* predecessors succeed, in any order the dependencies allow.  There are   *)
(* no generations, no pool and no futures here.                            *)
(***************************************************************************)
CONSTANT Nodes

VARIABLES
    deps,       \* the dependencies: <<source, target>>
    phase,      \* "define", "run", "done" (the run returned), "raised"
    status      \* the TaskRecord status of each node

vars == <<deps, phase, status>>

Settled == {"succeeded", "failed", "skipped"}

Sources(n) == {m \in Nodes : <<m, n>> \in deps}

\* Whatever nodes one takes, one of them depends on none of the others.
Acyclic(R) ==
    \A S \in SUBSET Nodes :
        S # {} => \E n \in S : \A m \in S : <<m, n>> \notin R

Init ==
    /\ deps = {}
    /\ phase = "define"
    /\ status = [n \in Nodes |-> "pending"]

AddEdge(m, n) ==
    /\ phase = "define"
    /\ Acyclic(deps \cup {<<m, n>>})
    /\ deps' = deps \cup {<<m, n>>}
    /\ UNCHANGED <<phase, status>>

Begin ==
    /\ phase = "define"
    /\ phase' = "run"
    /\ UNCHANGED <<deps, status>>

Start(n) ==
    /\ phase = "run"
    /\ status[n] = "pending"
    /\ \A m \in Sources(n) : status[m] = "succeeded"
    /\ status' = [status EXCEPT ![n] = "running"]
    /\ UNCHANGED <<deps, phase>>

\* A predecessor did not succeed, or the condition of an edge was not met.
Skip(n) ==
    /\ phase = "run"
    /\ status[n] = "pending"
    /\ Sources(n) # {}
    /\ \A m \in Sources(n) : status[m] \in Settled
    /\ status' = [status EXCEPT ![n] = "skipped"]
    /\ UNCHANGED <<deps, phase>>

Settle(n) ==
    /\ phase = "run"
    /\ status[n] = "running"
    /\ \E s \in {"succeeded", "failed"} : status' = [status EXCEPT ![n] = s]
    /\ UNCHANGED <<deps, phase>>

Finish ==
    /\ phase = "run"
    /\ \A n \in Nodes : status[n] \in Settled
    /\ phase' = "done"
    /\ UNCHANGED <<deps, status>>

\* A condition or a callback of the workflow raised.
Abort ==
    /\ phase = "run"
    /\ phase' = "raised"
    /\ UNCHANGED <<deps, status>>

Next ==
    \/ \E m, n \in Nodes : AddEdge(m, n)
    \/ \E n \in Nodes : Start(n) \/ Skip(n) \/ Settle(n)
    \/ Begin
    \/ Finish
    \/ Abort

Spec == Init /\ [][Next]_vars

-----------------------------------------------------------------------------
TypeOK ==
    /\ deps \subseteq Nodes \X Nodes
    /\ phase \in {"define", "run", "done", "raised"}
    /\ status \in [Nodes -> {"pending", "running"} \cup Settled]

(***************************************************************************)
(* A task runs only on the success of everything it depends on, and that   *)
(* stays so: dag-workflow.md, "every predecessor must be succeeded".       *)
(***************************************************************************)
StartedOnSuccess ==
    \A n \in Nodes : status[n] \in {"running", "succeeded", "failed"} =>
        \A m \in Sources(n) : status[m] = "succeeded"

(***************************************************************************)
(* A task that is skipped had something to wait for, and all of it settled *)
(* before: a failure upstream is never overtaken.                          *)
(***************************************************************************)
SkippedAfterSources ==
    \A n \in Nodes : status[n] = "skipped" =>
        Sources(n) # {} /\ \A m \in Sources(n) : status[m] \in Settled
=============================================================================
