---------------------------- MODULE WorkflowRun -----------------------------
(***************************************************************************)
(* Workflow: how a DAG is built and run, and what the scheduler records of *)
(* the run.                                                                *)
(*                                                                         *)
(* One thread builds the workflow and runs it, a generation of nodes at a  *)
(* time, on a pool of its own.  It looks at the nodes of a generation and  *)
(* submits those whose preconditions hold, while the first of them already *)
(* run; then it takes the results as they come.  Conditions and callbacks  *)
(* are user code and may raise; the exception leaves Workflow.run through  *)
(* the pool's exit, which waits for everything that was submitted.         *)
(***************************************************************************)
EXTENDS Integers, Sequences, FiniteSets

CONSTANTS
    Nodes,          \* node ids, all of them added
    EdgeChoices,    \* edges that may be added: source, target, conditional
    MaxEdges,       \* bound on the number of edges
    MaxWorkers,     \* max_workers of the pool
    Retries,        \* retries of each node, the first attempt included
    Callbacks,      \* the nodes whose on_success or on_failure may raise
    Serializable    \* Workflow.to_dict works: its functions have references

ASSUME NodesAssumption   == IsFiniteSet(Nodes)
ASSUME EdgesAssumption ==
           EdgeChoices \subseteq [source : Nodes, target : Nodes, condition : BOOLEAN]
ASSUME WorkersAssumption == {MaxEdges, MaxWorkers} \subseteq Nat \ {0}
ASSUME RetriesAssumption == Retries \in [Nodes -> Nat \ {0}]
ASSUME CallbacksAssumption == Callbacks \subseteq Nodes
ASSUME SerializableAssumption == Serializable \in BOOLEAN

VARIABLES
    edges,      \* Workflow._edges, in the order they were added
    phase,      \* "define", "run", "leave" (raising), "raised", "done"
    indegree,   \* the indegrees _generations has counted down to
    zero,       \* the next generation
    left,       \* the nodes of the current generation still to look at
    status,     \* the status of each TaskRecord
    work,       \* the future of each node, and where its task is
    attempts,   \* the attempts its task made
    given,      \* the predecessors whose results it was given
    stored      \* the statuses in the log the scheduler stored, if any

defVars == <<edges, phase>>
runVars == <<indegree, zero, left>>
nodeVars == <<status, work, attempts, given>>
vars == <<edges, phase, indegree, zero, left, status, work, attempts, given, stored>>

Unlogged == <<>>
-----------------------------------------------------------------------------
(* The graph.                                                              *)

\* _to_graph merges parallel edges and drops the conditions.
Deps == {<<edges[i].source, edges[i].target>> : i \in DOMAIN edges}

Incoming(n) == {i \in DOMAIN edges : edges[i].target = n}

Sources(n) == {edges[i].source : i \in Incoming(n)}

\* nx.is_directed_acyclic_graph: whatever nodes one takes, one of them depends
\* on none of the others.
Acyclic(R) ==
    \A S \in SUBSET Nodes :
        S # {} => \E n \in S : \A m \in S : <<m, n>> \notin R

-----------------------------------------------------------------------------
(***************************************************************************)
(* The rounds of the loop of _generations.  The code does all of them      *)
(* before it executes the first generation; here a round is done when its  *)
(* generation is needed, which is the same: the graph no longer changes.   *)
(***************************************************************************)

Indegree == [n \in Nodes |-> Cardinality(Sources(n))]

\* The indegrees once every node of zero was taken out of the graph.
Lowered == [n \in Nodes |-> indegree[n] - Cardinality(Sources(n) \cap zero)]

\* Mutant: a node enters a generation with its first predecessor.
FirstParent == {n \in Nodes : indegree[n] # 0 /\ Lowered[n] < indegree[n]}

\* new_zero: the nodes whose indegree just reached 0.
Freed == {n \in Nodes : indegree[n] # 0 /\ Lowered[n] = 0}

-----------------------------------------------------------------------------
Init ==
    /\ edges = <<>>
    /\ phase = "define"
    /\ indegree = [n \in Nodes |-> 0]
    /\ zero = {}
    /\ left = {}
    /\ status = [n \in Nodes |-> "pending"]
    /\ work = [n \in Nodes |-> "none"]
    /\ attempts = [n \in Nodes |-> 0]
    /\ given = [n \in Nodes |-> {}]
    /\ stored = Unlogged

\* Mutant: the graph is checked before the edge is in it.
AllowedBefore(edge) == Acyclic(Deps)

\* The graph with the new edge still has no cycle.
Allowed(edge) == Acyclic(Deps \cup {<<edge.source, edge.target>>})

\* add_edge; it raises CycleError otherwise and adds nothing.
AddEdge(edge) ==
    /\ phase = "define"
    /\ Len(edges) < MaxEdges
    /\ Allowed(edge)
    /\ edges' = Append(edges, edge)
    /\ UNCHANGED <<phase, runVars, nodeVars, stored>>

Run ==
    /\ phase = "define"
    /\ phase' = "run"
    /\ indegree' = Indegree
    /\ zero' = {n \in Nodes : Indegree[n] = 0}
    /\ UNCHANGED <<edges, left, nodeVars, stored>>

\* Mutant: futures that were taken already are waited for again.
NeverTaken == {n \in Nodes : work[n] # "none"}

\* A future of this generation that as_completed has not yielded yet.
Outstanding == {n \in Nodes : work[n] \in {"queued", "running", "ok", "failed"}}

NextGeneration ==
    /\ phase = "run"
    /\ left = {}
    /\ Outstanding = {}
    /\ zero # {}
    /\ left' = zero
    /\ indegree' = Lowered
    /\ zero' = Freed
    /\ UNCHANGED <<defVars, nodeVars, stored>>

-----------------------------------------------------------------------------
(* _check_preconditions goes through the incoming edges in the order they  *)
(* were added and stops at the first that is not met.                      *)

SourceSucceeded(i) == status[edges[i].source] = "succeeded"

AllSucceeded(n) == \A i \in Incoming(n) : SourceSucceeded(i)

\* Edge i decides: the edges before it were met.
Reached(n, i) == \A h \in Incoming(n) : h < i => SourceSucceeded(h)

\* Mutant: the source of a conditional edge is left out.
GivenUnconditionally(n) ==
    {edges[i].source : i \in {k \in Incoming(n) :
                                   SourceSucceeded(k) /\ ~edges[k].condition}}

\* _build_kwargs: the results of the predecessors that succeeded.
Given(n) == {m \in Sources(n) : status[m] = "succeeded"}

Submit(n) ==
    /\ phase = "run"
    /\ n \in left
    /\ AllSucceeded(n)
    /\ left' = left \ {n}
    /\ status' = [status EXCEPT ![n] = "running"]
    /\ work' = [work EXCEPT ![n] = "queued"]
    /\ given' = [given EXCEPT ![n] = Given(n)]
    /\ UNCHANGED <<defVars, indegree, zero, attempts, stored>>

MarkSkipped(n) ==
    /\ phase = "run"
    /\ n \in left
    /\ \E i \in Incoming(n) :
           /\ Reached(n, i)
           /\ ~SourceSucceeded(i) \/ edges[i].condition
    /\ left' = left \ {n}
    /\ status' = [status EXCEPT ![n] = "skipped"]
    /\ UNCHANGED <<defVars, indegree, zero, work, attempts, given, stored>>

ConditionRaises(n) ==
    /\ phase = "run"
    /\ n \in left
    /\ \E i \in Incoming(n) :
           Reached(n, i) /\ SourceSucceeded(i) /\ edges[i].condition
    /\ phase' = "leave"
    /\ left' = {}
    /\ UNCHANGED <<edges, indegree, zero, nodeVars, stored>>

-----------------------------------------------------------------------------
(* The pool's threads: _execute_node.                                      *)

TakeTask(n) ==
    /\ work[n] = "queued"
    /\ Cardinality({m \in Nodes : work[m] = "running"}) < MaxWorkers
    /\ work' = [work EXCEPT ![n] = "running"]
    /\ attempts' = [attempts EXCEPT ![n] = 1]
    /\ UNCHANGED <<defVars, runVars, status, given, stored>>

\* Mutant: the loop ends one attempt early.
LastButOne(n) == attempts[n] + 1 >= Retries[n]

LastAttempt(n) == attempts[n] = Retries[n]

AttemptSucceeds(n) ==
    /\ work[n] = "running"
    /\ work' = [work EXCEPT ![n] = "ok"]
    /\ UNCHANGED <<defVars, runVars, status, attempts, given, stored>>

\* The runner answered with an error, a timeout included.
AttemptFails(n) ==
    /\ work[n] = "running"
    /\ IF LastAttempt(n)
       THEN work' = [work EXCEPT ![n] = "failed"] /\ UNCHANGED attempts
       ELSE attempts' = [attempts EXCEPT ![n] = @ + 1] /\ UNCHANGED work
    /\ UNCHANGED <<defVars, runVars, status, given, stored>>

Task(n) == TakeTask(n) \/ AttemptSucceeds(n) \/ AttemptFails(n)

-----------------------------------------------------------------------------
(* The running thread takes the results, in the order tasks complete.      *)

\* Mutant: the future's own word is recorded.
RawOutcome(n) == work[n]

Outcome(n) == IF work[n] = "ok" THEN "succeeded" ELSE "failed"

\* _apply_result up to the callback.
Apply(n) ==
    /\ phase = "run"
    /\ left = {}
    /\ work[n] \in {"ok", "failed"}
    /\ work' = [work EXCEPT ![n] = "applied"]
    /\ status' = [status EXCEPT ![n] = Outcome(n)]
    /\ UNCHANGED <<edges, runVars, attempts, given, stored>>

ApplyResult(n) == Apply(n) /\ UNCHANGED phase

CallbackRaises(n) == n \in Callbacks /\ Apply(n) /\ phase' = "leave"

\* Mutant: shutdown(wait=False).
NotAwaited == TRUE

\* The exit of "with", shutdown(wait=True): what was queued runs too, but nobody
\* takes the results.
PoolIdle == \A n \in Nodes : work[n] \notin {"queued", "running"}

Raise ==
    /\ phase = "leave"
    /\ PoolIdle
    /\ phase' = "raised"
    /\ UNCHANGED <<edges, runVars, nodeVars, stored>>

Return ==
    /\ phase = "run"
    /\ left = {}
    /\ Outstanding = {}
    /\ zero = {}
    /\ phase' = "done"
    /\ UNCHANGED <<edges, runVars, nodeVars, stored>>

(***************************************************************************)
(* Scheduler._on_job_finished stores the log the run returned; of a run    *)
(* that raised it makes a log of its own, with every node failed, unless   *)
(* the workflow cannot be serialized: then it raises itself.               *)
(***************************************************************************)
StoreLog ==
    /\ phase = "done" \/ (phase = "raised" /\ Serializable)
    /\ stored = Unlogged
    /\ stored' = [n \in Nodes |-> IF phase = "done" THEN status[n] ELSE "failed"]
    /\ UNCHANGED <<defVars, runVars, nodeVars>>

\* The thread that runs the workflow, and the executor's thread after it.
Engine ==
    \/ Run
    \/ NextGeneration
    \/ \E n \in Nodes : Submit(n) \/ MarkSkipped(n) \/ ApplyResult(n)
    \/ Raise
    \/ Return
    \/ StoreLog

UserCodeRaises == \E n \in Nodes : ConditionRaises(n) \/ CallbackRaises(n)

Next ==
    \/ \E edge \in EdgeChoices : AddEdge(edge)
    \/ Engine
    \/ UserCodeRaises
    \/ \E n \in Nodes : Task(n)

Spec == Init /\ [][Next]_vars

(***************************************************************************)
(* Some thread goes on while one can: tasks end, after at most their       *)
(* retries, and the threads that wait for them are woken.  Nothing obliges *)
(* user code to raise.                                                     *)
(***************************************************************************)
Fairness == WF_vars(Engine \/ \E n \in Nodes : Task(n))

FairSpec == Spec /\ Fairness
-----------------------------------------------------------------------------
(* Properties.                                                             *)

Statuses == {"pending", "running", "succeeded", "failed", "skipped"}

\* The variables have their types.
TypeOK ==
    /\ edges \in Seq(EdgeChoices)
    /\ phase \in {"define", "run", "leave", "raised", "done"}
    /\ indegree \in [Nodes -> Int]
    /\ zero \subseteq Nodes
    /\ left \subseteq Nodes
    /\ status \in [Nodes -> Statuses]
    /\ work \in [Nodes -> {"none", "queued", "running", "ok", "failed", "applied"}]
    /\ attempts \in [Nodes -> Nat]
    /\ given \in [Nodes -> SUBSET Nodes]
    /\ stored \in [Nodes -> Statuses] \cup {Unlogged}

Settled == {"succeeded", "failed", "skipped"}

\* The nodes that no generation has taken yet.
Waiting == {n \in Nodes : status[n] = "pending" /\ n \notin left}

\* A future and its record tell the same story.
FutureInv ==
    \A n \in Nodes :
        /\ work[n] = "none" => status[n] \in {"pending", "skipped"}
        /\ work[n] = "applied" => status[n] \in {"succeeded", "failed"}
        /\ work[n] \notin {"none", "applied"} => status[n] = "running"
        /\ work[n] # "none" => given[n] = Sources(n)
        /\ work[n] = "running" => attempts[n] \in 1..Retries[n]
        /\ work[n] = "failed" \/ status[n] = "failed" => attempts[n] = Retries[n]

\* Where the rounds of _generations are, in terms of the records.
RoundInv ==
    /\ Acyclic(Deps)
    /\ phase = "define" =>
           left = {} /\ status = [n \in Nodes |-> "pending"]
    /\ left # {} => phase = "run"
    /\ \A n \in left : status[n] = "pending"
    /\ phase = "run" =>
           /\ zero = {n \in Waiting : indegree[n] = 0}
           /\ \A n \in Nodes :
                  indegree[n] = Cardinality(Sources(n) \cap Waiting)
    /\ \A n \in Nodes \ Waiting : \A m \in Sources(n) : status[m] \in Settled
    /\ \A n \in Nodes : status[n] \in {"running", "succeeded", "failed"} =>
           \A m \in Sources(n) : status[m] = "succeeded"
    /\ \A n \in Nodes : status[n] = "skipped" => Sources(n) # {}
    /\ phase = "done" => \A n \in Nodes : status[n] \in Settled
    /\ phase \in {"done", "raised"} =>
           \A n \in Nodes : work[n] \notin {"queued", "running"}

(***************************************************************************)
(* Why the engine is right; it is inductive.  A node is in a generation    *)
(* once every node it depends on has left the waiting ones, and the        *)
(* indegrees that _generations counts down count exactly those that have   *)
(* not; a generation is looked at only when the ones before it settled.    *)
(***************************************************************************)
EngineInv == FutureInv /\ RoundInv

(***************************************************************************)
(* A run that returns has settled every node: neither the indegree count   *)
(* of _generations nor the collection of results leaves one behind.        *)
(***************************************************************************)
AllSettled ==
    phase = "done" =>
        \A n \in Nodes : status[n] \in {"succeeded", "failed", "skipped"}

(***************************************************************************)
(* When Workflow.run is over, returned or raised, no task of it is waiting *)
(* or running in its pool: the next run of the job cannot overlap with one *)
(* that the scheduler has already counted as finished.                     *)
(***************************************************************************)
NoTaskOutlivesRun ==
    phase \in {"done", "raised"} =>
        \A n \in Nodes : work[n] \notin {"queued", "running"}

(***************************************************************************)
(* A task gets the results of all its predecessors (_pre_results), not     *)
(* only of those that were done when it was submitted.                     *)
(***************************************************************************)
ResultsComplete == \A n \in Nodes : work[n] # "none" => given[n] = Sources(n)

(***************************************************************************)
(* advanced-usage.md: a node is marked failed only after all its retries.  *)
(***************************************************************************)
FailedAfterRetries ==
    \A n \in Nodes : status[n] = "failed" => attempts[n] = Retries[n]

(***************************************************************************)
(* advanced-usage.md: "callback failures do not affect the task result".   *)
(* The log the scheduler stores says of a task what became of it.          *)
(***************************************************************************)
CallbacksHarmless ==
    stored # Unlogged =>
        \A n \in Nodes : status[n] = "succeeded" => stored[n] = "succeeded"

(***************************************************************************)
(* A run ends, and its log is stored, whatever fails.                      *)
(***************************************************************************)
RunEnds == phase = "run" ~> stored # Unlogged

(***************************************************************************)
(* The engine with its generations, its pool and its two passes over a     *)
(* generation implements the plain data flow of the dependencies.          *)
(***************************************************************************)
Promise == INSTANCE Dataflow WITH
    deps   <- Deps,
    phase  <- IF phase = "leave" THEN "run" ELSE phase,
    status <- status

ImplementsDataflow == Promise!Spec

(***************************************************************************)
(* A task runs only on the success of everything it depends on, and that   *)
(* stays so.                                                               *)
(***************************************************************************)
StartedOnSuccess == Promise!StartedOnSuccess

(***************************************************************************)
(* A task is skipped only after everything it depends on has settled.      *)
(***************************************************************************)
SkippedAfterSources == Promise!SkippedAfterSources
=============================================================================
