------------------------- MODULE WorkflowRunProofs --------------------------
(***************************************************************************)
(* What holds of every run of every workflow: for all sets of nodes, all   *)
(* edges and conditions, all pools and all retries.                        *)
(***************************************************************************)
EXTENDS WorkflowRun, FiniteSetTheorems, SequenceTheorems, TLAPS

-----------------------------------------------------------------------------
(* The graph.                                                              *)

\* Edges run between nodes, and Sources reads them off the graph.
LEMMA DepsFacts ==
    ASSUME TypeOK
    PROVE  /\ Deps \subseteq Nodes \X Nodes
           /\ \A n : /\ Sources(n) \subseteq Nodes
                     /\ IsFiniteSet(Sources(n))
                     /\ \A m : m \in Sources(n) <=> <<m, n>> \in Deps
<1>1. \A i \in DOMAIN edges : edges[i].source \in Nodes /\ edges[i].target \in Nodes
    BY EdgesAssumption, ElementOfSeq DEF TypeOK
<1>2. Deps \subseteq Nodes \X Nodes
    BY <1>1 DEF Deps
<1>3. ASSUME NEW n PROVE Sources(n) \subseteq Nodes
    BY <1>1 DEF Sources, Incoming
<1>4. ASSUME NEW n PROVE IsFiniteSet(Sources(n))
    BY <1>3, NodesAssumption, FS_Subset
<1>5. ASSUME NEW n, NEW m PROVE m \in Sources(n) <=> <<m, n>> \in Deps
    BY DEF Sources, Incoming, Deps
<1>6. QED BY <1>2, <1>3, <1>4, <1>5

\* The graph stays when the edges do.
LEMMA SameGraph ==
    ASSUME UNCHANGED edges
    PROVE  Deps' = Deps /\ \A n : Sources(n)' = Sources(n)
BY DEF Deps, Sources, Incoming

\* add_edge adds its edge to the graph and nothing else.
LEMMA AddEdgeDeps ==
    ASSUME TypeOK, NEW edge \in EdgeChoices, AddEdge(edge)
    PROVE  Deps' = Deps \cup {<<edge.source, edge.target>>}
<1>1. /\ Len(edges) \in Nat /\ DOMAIN edges = 1..Len(edges)
      /\ edges' = Append(edges, edge)
    BY LenProperties DEF TypeOK, AddEdge
<1>2. /\ edges' \in Seq(EdgeChoices) /\ Len(edges') = Len(edges) + 1
      /\ \A i \in 1..Len(edges) : edges'[i] = edges[i]
      /\ edges'[Len(edges) + 1] = edge
    BY <1>1, AppendProperties DEF TypeOK
<1>3. DOMAIN edges' = DOMAIN edges \cup {Len(edges) + 1}
    BY <1>1, <1>2, LenProperties
<1>4. QED BY <1>1, <1>2, <1>3 DEF Deps
-----------------------------------------------------------------------------
(* Types.                                                                  *)

\* The indegrees are numbers.
LEMMA IndegreeType ==
    ASSUME TypeOK
    PROVE  Indegree \in [Nodes -> Int] /\ Lowered \in [Nodes -> Int]
<1>1. \A n : Cardinality(Sources(n)) \in Nat
    BY DepsFacts, FS_CardinalityType
<1>2. \A n : Cardinality(Sources(n) \cap zero) \in Nat
    BY DepsFacts, FS_Intersection, FS_CardinalityType
<1>3. Indegree \in [Nodes -> Int]
    BY <1>1 DEF Indegree
<1>4. \A n \in Nodes : indegree[n] - Cardinality(Sources(n) \cap zero) \in Int
    <2>1. \A n \in Nodes : indegree[n] \in Int
        BY DEF TypeOK
    <2>2. QED BY <1>2, <2>1
<1>5. Lowered \in [Nodes -> Int]
    BY <1>4 DEF Lowered
<1>6. QED BY <1>3, <1>5

LEMMA TypeInit == Init => TypeOK
<1> SUFFICES ASSUME Init PROVE TypeOK
    OBVIOUS
<1>1. edges \in Seq(EdgeChoices)
    BY EmptySeq DEF Init
<1>2. QED BY <1>1 DEF Init, TypeOK, Statuses, Unlogged

LEMMA TypeStep == TypeOK /\ [Next]_vars => TypeOK'
<1> SUFFICES ASSUME TypeOK, [Next]_vars PROVE TypeOK'
    OBVIOUS
<1> USE DEF TypeOK, Statuses
<1>1. ASSUME NEW edge \in EdgeChoices, AddEdge(edge) PROVE TypeOK'
    <2>1. edges' \in Seq(EdgeChoices)
        BY <1>1, AppendProperties DEF AddEdge
    <2>2. QED BY <1>1, <2>1 DEF AddEdge, runVars, nodeVars
<1>2. CASE Run
    BY <1>2, IndegreeType DEF Run, nodeVars
<1>3. CASE NextGeneration
    <2>1. Freed \subseteq Nodes
        BY DEF Freed
    <2>2. QED BY <1>3, <2>1, IndegreeType DEF NextGeneration, defVars, nodeVars
<1>4. ASSUME NEW n \in Nodes, Submit(n) PROVE TypeOK'
    <2>1. Given(n) \in SUBSET Nodes
        BY DepsFacts DEF Given
    <2>2. QED BY <1>4, <2>1 DEF Submit, defVars
<1>5. ASSUME NEW n \in Nodes, MarkSkipped(n) PROVE TypeOK'
    BY <1>5 DEF MarkSkipped, defVars
<1>6. ASSUME NEW n \in Nodes, ApplyResult(n) \/ CallbackRaises(n) PROVE TypeOK'
    BY <1>6 DEF ApplyResult, CallbackRaises, Apply, Outcome, runVars
<1>7. ASSUME NEW n \in Nodes, ConditionRaises(n) PROVE TypeOK'
    BY <1>7 DEF ConditionRaises, nodeVars
<1>8. ASSUME NEW n \in Nodes, Task(n) PROVE TypeOK'
    <2>1. CASE TakeTask(n)
        BY <2>1 DEF TakeTask, defVars, runVars
    <2>2. CASE AttemptSucceeds(n)
        BY <2>2 DEF AttemptSucceeds, defVars, runVars
    <2>3. CASE AttemptFails(n)
        <3>1. CASE LastAttempt(n)
            BY <2>3, <3>1 DEF AttemptFails, defVars, runVars
        <3>2. CASE ~LastAttempt(n)
            <4>1. attempts' = [attempts EXCEPT ![n] = attempts[n] + 1]
                BY <2>3, <3>2 DEF AttemptFails
            <4>2. attempts[n] + 1 \in Nat
                OBVIOUS
            <4>3. attempts' \in [Nodes -> Nat]
                BY <4>1, <4>2
            <4>4. QED BY <2>3, <3>2, <4>3 DEF AttemptFails, defVars, runVars
        <3>3. QED BY <3>1, <3>2
    <2>4. QED BY <1>8, <2>1, <2>2, <2>3 DEF Task
<1>9. CASE Raise \/ Return
    BY <1>9 DEF Raise, Return, runVars, nodeVars
<1>10. CASE StoreLog
    BY <1>10 DEF StoreLog, defVars, runVars, nodeVars
<1>11. CASE UNCHANGED vars
    BY <1>11 DEF vars
<1>12. QED
    BY <1>1, <1>2, <1>3, <1>4, <1>5, <1>6, <1>7, <1>8, <1>9, <1>10, <1>11
       DEF Next, Engine, UserCodeRaises

(***************************************************************************)
(* The variables of a workflow run have their types.                       *)
(***************************************************************************)
THEOREM TypeCorrect == Spec => []TypeOK
BY TypeInit, TypeStep, PTL DEF Spec
-----------------------------------------------------------------------------
(* The futures.                                                            *)

LEMMA FutureStep == TypeOK /\ EngineInv /\ [Next]_vars => FutureInv'
<1> SUFFICES ASSUME TypeOK, FutureInv, RoundInv, [Next]_vars PROVE FutureInv'
    BY DEF EngineInv
<1> USE DEF TypeOK
<1>1. ASSUME NEW edge \in EdgeChoices, AddEdge(edge) PROVE FutureInv'
    <2>1. \A n \in Nodes : work[n] = "none" /\ status[n] = "pending"
        BY <1>1 DEF AddEdge, RoundInv, FutureInv
    <2>2. QED BY <1>1, <2>1 DEF AddEdge, nodeVars, FutureInv
<1>2. ASSUME UNCHANGED <<edges, nodeVars>> PROVE FutureInv'
    BY <1>2, SameGraph DEF nodeVars, FutureInv
<1>3. ASSUME NEW n \in Nodes, Submit(n) PROVE FutureInv'
    <2>1. \A m \in Sources(n) : status[m] = "succeeded"
        BY <1>3 DEF Submit, AllSucceeded, SourceSucceeded, Sources
    <2>2. Given(n) = Sources(n)
        BY <2>1, DepsFacts DEF Given
    <2>3. status[n] = "pending"
        BY <1>3 DEF Submit, RoundInv
    <2>4. UNCHANGED edges
        BY <1>3 DEF Submit, defVars
    <2>5. QED BY <1>3, <2>2, <2>3, <2>4, SameGraph DEF Submit, FutureInv
<1>4. ASSUME NEW n \in Nodes, MarkSkipped(n) PROVE FutureInv'
    <2>1. UNCHANGED edges
        BY <1>4 DEF MarkSkipped, defVars
    <2>2. status[n] = "pending"
        BY <1>4 DEF MarkSkipped, RoundInv
    <2>3. QED BY <1>4, <2>1, <2>2, SameGraph DEF MarkSkipped, FutureInv
<1>5. ASSUME NEW n \in Nodes, Apply(n) PROVE FutureInv'
    <2>1. UNCHANGED edges
        BY <1>5 DEF Apply
    <2>2. QED BY <1>5, <2>1, SameGraph DEF Apply, Outcome, FutureInv
<1>6. ASSUME NEW n \in Nodes, Task(n) PROVE FutureInv'
    <2>1. CASE TakeTask(n)
        <3>1. UNCHANGED edges
            BY <2>1 DEF TakeTask, defVars
        <3>2. 1 \in 1..Retries[n]
            BY RetriesAssumption
        <3>3. QED BY <2>1, <3>1, <3>2, SameGraph DEF TakeTask, FutureInv
    <2>2. CASE AttemptSucceeds(n)
        <3>1. UNCHANGED edges
            BY <2>2 DEF AttemptSucceeds, defVars
        <3>2. QED BY <2>2, <3>1, SameGraph DEF AttemptSucceeds, FutureInv
    <2>3. CASE AttemptFails(n) /\ LastAttempt(n)
        <3>1. /\ UNCHANGED <<edges, attempts, status, given>>
              /\ work' = [work EXCEPT ![n] = "failed"]
              /\ work[n] = "running" /\ attempts[n] = Retries[n]
            BY <2>3 DEF AttemptFails, LastAttempt, defVars
        <3>2. status[n] = "running" /\ given[n] = Sources(n)
            BY <3>1 DEF FutureInv
        <3>3. \A k \in Nodes : Sources(k)' = Sources(k)
            BY <3>1, SameGraph
        <3>4. SUFFICES ASSUME NEW k \in Nodes
                       PROVE  /\ work'[k] = "none" => status'[k] \in {"pending", "skipped"}
                              /\ work'[k] = "applied" =>
                                     status'[k] \in {"succeeded", "failed"}
                              /\ work'[k] \notin {"none", "applied"} =>
                                     status'[k] = "running"
                              /\ work'[k] # "none" => given'[k] = Sources(k)'
                              /\ work'[k] = "running" => attempts'[k] \in 1..Retries[k]
                              /\ work'[k] = "failed" \/ status'[k] = "failed" =>
                                     attempts'[k] = Retries[k]
            BY DEF FutureInv
        <3>5. CASE k = n
            BY <3>1, <3>2, <3>3, <3>5
        <3>6. CASE k # n
            BY <3>1, <3>3, <3>6 DEF FutureInv
        <3>7. QED BY <3>5, <3>6
    <2>4. CASE AttemptFails(n) /\ ~LastAttempt(n)
        <3>1. UNCHANGED <<edges, work, status, given>>
            BY <2>4 DEF AttemptFails, defVars
        <3>2. /\ attempts' = [attempts EXCEPT ![n] = attempts[n] + 1]
              /\ work[n] = "running" /\ attempts[n] # Retries[n]
            BY <2>4 DEF AttemptFails, LastAttempt
        <3>3. attempts[n] + 1 \in 1..Retries[n]
            <4>1. attempts[n] \in 1..Retries[n]
                BY <3>2 DEF FutureInv
            <4>2. Retries[n] \in Nat
                BY RetriesAssumption
            <4>3. QED BY <3>2, <4>1, <4>2
        <3>4. status[n] = "running"
            BY <3>2 DEF FutureInv
        <3>5. QED BY <3>1, <3>2, <3>3, <3>4, SameGraph DEF FutureInv
    <2>5. QED BY <1>6, <2>1, <2>2, <2>3, <2>4 DEF Task
<1>7. CASE Run \/ NextGeneration \/ Raise \/ Return \/ StoreLog
    BY <1>2, <1>7 DEF Run, NextGeneration, Raise, Return, StoreLog, defVars
<1>8. ASSUME NEW n \in Nodes, ConditionRaises(n) PROVE FutureInv'
    BY <1>2, <1>8 DEF ConditionRaises
<1>9. CASE UNCHANGED vars
    BY <1>2, <1>9 DEF vars, nodeVars
<1>10. QED
    BY <1>1, <1>3, <1>4, <1>5, <1>6, <1>7, <1>8, <1>9
       DEF Next, Engine, UserCodeRaises, ApplyResult, CallbackRaises
-----------------------------------------------------------------------------
(* The rounds of _generations.                                             *)

\* A step of the pool, or of nobody.
LEMMA RoundStutter ==
    ASSUME RoundInv, UNCHANGED <<edges, phase, indegree, zero, left, status>>,
           phase \in {"done", "raised"} =>
               \A n \in Nodes : work'[n] \notin {"queued", "running"}
    PROVE  RoundInv'
<1>1. Waiting' = Waiting
    BY DEF Waiting
<1>2. QED BY <1>1, SameGraph DEF RoundInv

\* One node leaves the nodes to look at, or one result is taken.
LEMMA RoundRecord ==
    ASSUME TypeOK, RoundInv, NEW n \in Nodes, NEW s \in Statuses,
           phase = "run", phase' \in {"run", "leave"},
           status[n] = "pending" => n \in left,
           status[n] \in {"pending", "running"},
           s # "pending",
           status' = [status EXCEPT ![n] = s],
           left' = left \ {n},
           left' # {} => phase' = "run",
           UNCHANGED <<edges, indegree, zero>>,
           s \in {"running", "succeeded", "failed"} =>
               \A m \in Sources(n) : status[m] = "succeeded",
           s = "skipped" => Sources(n) # {}
    PROVE  RoundInv'
<1>1. Waiting' = Waiting
    BY DEF Waiting, TypeOK
<1>2. Deps' = Deps /\ \A m : Sources(m)' = Sources(m)
    BY SameGraph
<1>3. \A m \in Nodes : status[m] \in Settled => status'[m] = status[m]
    BY DEF TypeOK, Settled
<1>4. \A k \in Nodes \ Waiting : \A m \in Sources(k) : status'[m] \in Settled
    BY <1>3, DepsFacts DEF RoundInv
<1>5. \A k \in Nodes : status'[k] \in {"running", "succeeded", "failed"} =>
          \A m \in Sources(k) : status'[m] = "succeeded"
    BY <1>3, DepsFacts DEF RoundInv, TypeOK, Settled
<1>6. \A k \in Nodes : status'[k] = "skipped" => Sources(k) # {}
    BY DEF RoundInv, TypeOK
<1>7. \A k \in left' : status'[k] = "pending"
    BY DEF RoundInv, TypeOK
<1>8. QED BY <1>1, <1>2, <1>4, <1>5, <1>6, <1>7 DEF RoundInv

\* A round takes the waiting nodes that nothing waits for.
LEMMA RoundNext ==
    ASSUME TypeOK, FutureInv, RoundInv, NextGeneration
    PROVE  RoundInv'
<1>1. /\ phase = "run" /\ left = {} /\ Outstanding = {}
      /\ left' = zero /\ indegree' = Lowered /\ zero' = Freed
      /\ UNCHANGED <<edges, phase, status, work>>
    BY DEF NextGeneration, defVars, nodeVars
<1>2. /\ zero = {n \in Waiting : indegree[n] = 0}
      /\ \A n \in Nodes : indegree[n] = Cardinality(Sources(n) \cap Waiting)
    BY <1>1 DEF RoundInv
<1>3. Waiting' = Waiting \ zero
    BY <1>1, <1>2 DEF Waiting
<1>4. Deps' = Deps /\ \A n : Sources(n)' = Sources(n)
    BY <1>1, SameGraph
<1>5. ASSUME NEW n \in Nodes
      PROVE  indegree'[n] = Cardinality(Sources(n) \cap Waiting')
    <2> DEFINE S == Sources(n) \cap Waiting
    <2>1. IsFiniteSet(S)
        BY DepsFacts, FS_Intersection
    <2>2. Cardinality(S \ zero) = Cardinality(S) - Cardinality(S \cap zero)
        BY <2>1, FS_Difference
    <2>3. S \cap zero = Sources(n) \cap zero /\ S \ zero = Sources(n) \cap Waiting'
        BY <1>2, <1>3
    <2>4. Lowered[n] = indegree[n] - Cardinality(Sources(n) \cap zero)
        BY DEF Lowered
    <2>5. QED BY <1>1, <1>2, <2>2, <2>3, <2>4
<1>6. \A n \in Nodes \ Waiting : indegree[n] = 0
    <2> SUFFICES ASSUME NEW n \in Nodes, n \notin Waiting PROVE indegree[n] = 0
        OBVIOUS
    <2>1. \A m \in Sources(n) : status[m] \in Settled
        BY DEF RoundInv
    <2>2. Sources(n) \cap Waiting = {}
        BY <2>1 DEF Waiting, Settled
    <2>3. QED BY <1>2, <2>2, FS_EmptySet
<1>7. zero' = {n \in Waiting' : indegree'[n] = 0}
    BY <1>1, <1>2, <1>3, <1>6 DEF Freed, Waiting
<1>8. ASSUME NEW n \in zero, NEW m \in Sources(n) PROVE status[m] \in Settled
    <2>1. n \in Nodes /\ m \in Nodes /\ m \notin Waiting
        <3>1. n \in Nodes /\ Cardinality(Sources(n) \cap Waiting) = 0
            BY <1>2 DEF Waiting
        <3>2. Sources(n) \cap Waiting = {}
            BY <3>1, DepsFacts, FS_Intersection, FS_EmptySet
        <3>3. QED BY <3>1, <3>2, DepsFacts
    <2>2. status[m] # "pending" /\ work[m] \in {"none", "applied"}
        BY <1>1, <2>1 DEF Waiting, Outstanding, TypeOK
    <2>3. QED BY <2>1, <2>2 DEF FutureInv, Settled
<1>9. \A n \in Nodes \ Waiting' : \A m \in Sources(n) : status[m] \in Settled
    BY <1>3, <1>8 DEF RoundInv
<1>10. \A n \in left' : status[n] = "pending"
    BY <1>1, <1>2 DEF Waiting
<1>11. \A n \in Nodes : indegree'[n] = Cardinality(Sources(n)' \cap Waiting')
    BY <1>4, <1>5
<1>12. \A n \in Nodes : status'[n] = status[n]
    BY <1>1
<1>13. QED
    BY <1>1, <1>4, <1>7, <1>9, <1>10, <1>11, <1>12 DEF RoundInv

\* When no generation is left, no node waits: the waiting ones would be a cycle.
LEMMA NoneWaiting ==
    ASSUME TypeOK, RoundInv, phase = "run", zero = {}
    PROVE  Waiting = {}
<1> SUFFICES ASSUME Waiting # {} PROVE FALSE
    OBVIOUS
<1>1. Waiting \in SUBSET Nodes
    BY DEF Waiting
<1>2. PICK n \in Waiting : \A m \in Waiting : <<m, n>> \notin Deps
    BY <1>1 DEF RoundInv, Acyclic
<1>3. n \in Nodes /\ Sources(n) \cap Waiting = {}
    BY <1>1, <1>2, DepsFacts
<1>4. indegree[n] = 0
    BY <1>3, FS_EmptySet DEF RoundInv
<1>5. QED BY <1>2, <1>4 DEF RoundInv

LEMMA RoundStep == TypeOK /\ EngineInv /\ [Next]_vars => RoundInv'
<1> SUFFICES ASSUME TypeOK, FutureInv, RoundInv, [Next]_vars PROVE RoundInv'
    BY DEF EngineInv
<1>1. ASSUME NEW edge \in EdgeChoices, AddEdge(edge) PROVE RoundInv'
    <2>1. /\ phase = "define" /\ phase' = "define" /\ left' = {}
          /\ status' = [n \in Nodes |-> "pending"]
        BY <1>1 DEF AddEdge, RoundInv, runVars, nodeVars
    <2>2. Acyclic(Deps)'
        BY <1>1, AddEdgeDeps DEF AddEdge, Allowed, Acyclic
    <2>3. Waiting' = Nodes
        BY <2>1 DEF Waiting
    <2>4. QED BY <2>1, <2>2, <2>3 DEF RoundInv
<1>2. CASE Run
    <2>1. /\ phase' = "run" /\ left = {} /\ left' = {} /\ indegree' = Indegree
          /\ zero' = {n \in Nodes : Indegree[n] = 0}
          /\ status' = [n \in Nodes |-> "pending"]
          /\ UNCHANGED edges
        BY <1>2 DEF Run, RoundInv, nodeVars
    <2>2. Waiting' = Nodes
        BY <2>1 DEF Waiting
    <2>3. Deps' = Deps /\ \A n : Sources(n)' = Sources(n)
        BY <2>1, SameGraph
    <2>4. \A n \in Nodes : indegree'[n] = Cardinality(Sources(n)' \cap Waiting')
        <3>1. \A n \in Nodes : Sources(n) \cap Nodes = Sources(n)
            BY DepsFacts
        <3>2. QED BY <2>1, <2>2, <2>3, <3>1 DEF Indegree
    <2>5. Acyclic(Deps)
        BY DEF RoundInv
    <2>6. QED BY <2>1, <2>2, <2>3, <2>4, <2>5 DEF RoundInv
<1>3. CASE NextGeneration
    BY <1>3, RoundNext
<1>4. ASSUME NEW n \in Nodes, Submit(n) PROVE RoundInv'
    <2>1. \A m \in Sources(n) : status[m] = "succeeded"
        BY <1>4 DEF Submit, AllSucceeded, SourceSucceeded, Sources
    <2>2. status[n] = "pending"
        BY <1>4 DEF Submit, RoundInv
    <2>3. /\ phase = "run" /\ n \in left /\ left' = left \ {n}
          /\ status' = [status EXCEPT ![n] = "running"]
          /\ UNCHANGED <<edges, phase, indegree, zero>>
        BY <1>4 DEF Submit, defVars
    <2>4. "running" \in Statuses
        BY DEF Statuses
    <2>5. QED BY <2>1, <2>2, <2>3, <2>4, RoundRecord
<1>5. ASSUME NEW n \in Nodes, MarkSkipped(n) PROVE RoundInv'
    <2>1. Sources(n) # {}
        BY <1>5 DEF MarkSkipped, Sources
    <2>2. status[n] = "pending"
        BY <1>5 DEF MarkSkipped, RoundInv
    <2>3. /\ phase = "run" /\ n \in left /\ left' = left \ {n}
          /\ status' = [status EXCEPT ![n] = "skipped"]
          /\ UNCHANGED <<edges, phase, indegree, zero>>
        BY <1>5 DEF MarkSkipped, defVars
    <2>4. "skipped" \in Statuses
        BY DEF Statuses
    <2>5. QED BY <2>1, <2>2, <2>3, <2>4, RoundRecord
<1>6. ASSUME NEW n \in Nodes, ApplyResult(n) \/ CallbackRaises(n) PROVE RoundInv'
    <2>1. /\ phase = "run" /\ phase' \in {"run", "leave"} /\ left = {} /\ left' = {}
          /\ status' = [status EXCEPT ![n] = Outcome(n)]
          /\ UNCHANGED <<edges, indegree, zero>>
          /\ work[n] \in {"ok", "failed"}
        BY <1>6 DEF ApplyResult, CallbackRaises, Apply, runVars
    <2>2. status[n] = "running"
        BY <2>1 DEF FutureInv
    <2>3. Outcome(n) \in Statuses /\ Outcome(n) \in {"succeeded", "failed"}
        BY DEF Outcome, Statuses
    <2>4. \A m \in Sources(n) : status[m] = "succeeded"
        BY <2>2 DEF RoundInv
    <2>5. left' = left \ {n}
        BY <2>1
    <2>6. QED BY <2>1, <2>2, <2>3, <2>4, <2>5, RoundRecord
<1>7. ASSUME NEW n \in Nodes, ConditionRaises(n) PROVE RoundInv'
    <2>1. /\ phase' = "leave" /\ left' = {}
          /\ UNCHANGED <<edges, status>>
        BY <1>7 DEF ConditionRaises, nodeVars
    <2>2. Waiting \subseteq Waiting'
        BY <2>1 DEF Waiting
    <2>3. QED BY <2>1, <2>2, SameGraph DEF RoundInv
<1>8. ASSUME NEW n \in Nodes, Task(n) PROVE RoundInv'
    <2>1. UNCHANGED <<edges, phase, indegree, zero, left, status>>
        BY <1>8 DEF Task, TakeTask, AttemptSucceeds, AttemptFails, defVars, runVars
    <2>2. phase \notin {"done", "raised"}
        BY <1>8 DEF Task, TakeTask, AttemptSucceeds, AttemptFails, RoundInv
    <2>3. QED BY <2>1, <2>2, RoundStutter
<1>9. CASE Raise
    <2>1. /\ phase' = "raised" /\ PoolIdle /\ phase = "leave"
          /\ UNCHANGED <<edges, status, left, work>>
        BY <1>9 DEF Raise, runVars, nodeVars
    <2>2. Waiting' = Waiting
        BY <2>1 DEF Waiting
    <2>3. QED BY <2>1, <2>2, SameGraph DEF RoundInv, PoolIdle
<1>10. CASE Return
    <2>1. /\ phase = "run" /\ phase' = "done" /\ left = {} /\ Outstanding = {}
          /\ zero = {} /\ UNCHANGED <<edges, status, left, work>>
        BY <1>10 DEF Return, runVars, nodeVars
    <2>2. Waiting = {} /\ Waiting' = Waiting
        BY <2>1, NoneWaiting DEF Waiting
    <2>3. \A n \in Nodes : work[n] \in {"none", "applied"} /\ status[n] # "pending"
        BY <2>1, <2>2 DEF Waiting, Outstanding, TypeOK
    <2>4. \A n \in Nodes : status[n] \in Settled
        BY <2>3 DEF FutureInv, Settled
    <2>5. QED BY <2>1, <2>2, <2>3, <2>4, SameGraph DEF RoundInv
<1>11. CASE StoreLog \/ UNCHANGED vars
    <2>1. UNCHANGED <<edges, phase, indegree, zero, left, status, work>>
        BY <1>11 DEF StoreLog, vars, defVars, runVars, nodeVars
    <2>2. QED BY <2>1, RoundStutter DEF RoundInv
<1>12. QED
    BY <1>1, <1>2, <1>3, <1>4, <1>5, <1>6, <1>7, <1>8, <1>9, <1>10, <1>11
       DEF Next, Engine, UserCodeRaises

LEMMA EngineInit == Init => EngineInv
<1> SUFFICES ASSUME Init PROVE EngineInv
    OBVIOUS
<1>1. Deps = {} /\ \A n : Sources(n) = {}
    BY DEF Init, Deps, Sources, Incoming
<1>2. FutureInv
    BY <1>1 DEF Init, FutureInv
<1>3. RoundInv
    BY <1>1 DEF Init, RoundInv, Acyclic, Waiting
<1>4. QED BY <1>2, <1>3 DEF EngineInv

(***************************************************************************)
(* The invariant of the engine, with its count of waiting predecessors,    *)
(* holds for every graph.                                                  *)
(***************************************************************************)
THEOREM EngineInvariant == Spec => []EngineInv
<1>1. TypeOK /\ EngineInv /\ [Next]_vars => EngineInv'
    BY FutureStep, RoundStep DEF EngineInv
<1>2. QED BY <1>1, EngineInit, TypeCorrect, PTL DEF Spec

(***************************************************************************)
(* A run that returns has settled every node.                              *)
(***************************************************************************)
THEOREM AllSettledHolds == Spec => []AllSettled
<1>1. EngineInv => AllSettled
    BY DEF EngineInv, RoundInv, AllSettled, Settled
<1>2. QED BY <1>1, EngineInvariant, PTL

(***************************************************************************)
(* No task of a run is left in its pool when the run is over.              *)
(***************************************************************************)
THEOREM NoTaskOutlivesRunHolds == Spec => []NoTaskOutlivesRun
<1>1. EngineInv => NoTaskOutlivesRun
    BY DEF EngineInv, RoundInv, NoTaskOutlivesRun
<1>2. QED BY <1>1, EngineInvariant, PTL

(***************************************************************************)
(* A task is given the results of all its predecessors.                    *)
(***************************************************************************)
THEOREM ResultsCompleteHolds == Spec => []ResultsComplete
<1>1. EngineInv => ResultsComplete
    BY DEF EngineInv, FutureInv, ResultsComplete
<1>2. QED BY <1>1, EngineInvariant, PTL

(***************************************************************************)
(* A node is marked failed only after all its retries.                     *)
(***************************************************************************)
THEOREM FailedAfterRetriesHolds == Spec => []FailedAfterRetries
<1>1. EngineInv => FailedAfterRetries
    BY DEF EngineInv, FutureInv, FailedAfterRetries
<1>2. QED BY <1>1, EngineInvariant, PTL
-----------------------------------------------------------------------------
(* The engine implements the data flow of the dependencies.                *)

\* The promise sees the same graph and the same predecessors.
LEMMA PromiseSources ==
    ASSUME TypeOK
    PROVE  \A n \in Nodes : Promise!Sources(n) = Sources(n)
BY DepsFacts DEF Promise!Sources

(***************************************************************************)
(* A task runs only on the success of everything it depends on.            *)
(***************************************************************************)
THEOREM StartedOnSuccessHolds == Spec => []StartedOnSuccess
<1>1. TypeOK /\ EngineInv => StartedOnSuccess
    BY PromiseSources
       DEF EngineInv, RoundInv, StartedOnSuccess, Promise!StartedOnSuccess
<1>2. QED BY <1>1, EngineInvariant, TypeCorrect, PTL

(***************************************************************************)
(* A task is skipped only after everything it depends on has settled.      *)
(***************************************************************************)
THEOREM SkippedAfterSourcesHolds == Spec => []SkippedAfterSources
<1>1. TypeOK /\ EngineInv => SkippedAfterSources
    BY PromiseSources
       DEF EngineInv, RoundInv, Waiting, Settled, SkippedAfterSources,
           Promise!SkippedAfterSources, Promise!Settled
<1>2. QED BY <1>1, EngineInvariant, TypeCorrect, PTL

\* Every step of the engine is a step of the promise, or none.
LEMMA PromiseStep ==
    ASSUME TypeOK, EngineInv, [Next]_vars
    PROVE  [Promise!Next]_(Promise!vars)
<1> USE DEF Promise!vars
<1>1. ASSUME UNCHANGED <<edges, phase, status>> PROVE UNCHANGED Promise!vars
    BY <1>1, SameGraph
<1>2. ASSUME NEW edge \in EdgeChoices, AddEdge(edge) PROVE Promise!Next
    <2>1. edge.source \in Nodes /\ edge.target \in Nodes
        BY EdgesAssumption
    <2>2. Promise!AddEdge(edge.source, edge.target)
        BY <1>2, AddEdgeDeps
           DEF AddEdge, Allowed, nodeVars, Acyclic, Promise!AddEdge, Promise!Acyclic
    <2>3. QED BY <2>1, <2>2 DEF Promise!Next
<1>3. CASE Run
    BY <1>3, SameGraph DEF Run, nodeVars, Promise!Next, Promise!Begin
<1>4. ASSUME NEW n \in Nodes, Submit(n) PROVE Promise!Next
    <2>1. \A m \in Sources(n) : status[m] = "succeeded"
        BY <1>4 DEF Submit, AllSucceeded, SourceSucceeded, Sources
    <2>2. status[n] = "pending"
        BY <1>4 DEF Submit, EngineInv, RoundInv
    <2>3. Promise!Start(n)
        BY <1>4, <2>1, <2>2, PromiseSources, SameGraph
           DEF Submit, defVars, Promise!Start
    <2>4. QED BY <2>3 DEF Promise!Next
<1>5. ASSUME NEW n \in Nodes, MarkSkipped(n) PROVE Promise!Next
    <2>1. Sources(n) # {}
        BY <1>5 DEF MarkSkipped, Sources
    <2>2. status[n] = "pending" /\ n \notin Waiting
        BY <1>5 DEF MarkSkipped, EngineInv, RoundInv, Waiting
    <2>3. \A m \in Sources(n) : status[m] \in Settled
        BY <2>2 DEF EngineInv, RoundInv
    <2>4. Promise!Skip(n)
        BY <1>5, <2>1, <2>2, <2>3, PromiseSources, SameGraph
           DEF MarkSkipped, defVars, Settled, Promise!Skip, Promise!Settled
    <2>5. QED BY <2>4 DEF Promise!Next
<1>6. ASSUME NEW n \in Nodes, ApplyResult(n) \/ CallbackRaises(n)
      PROVE  Promise!Next
    <2>1. /\ phase = "run" /\ phase' \in {"run", "leave"}
          /\ status' = [status EXCEPT ![n] = Outcome(n)]
          /\ UNCHANGED edges /\ work[n] \in {"ok", "failed"}
        BY <1>6 DEF ApplyResult, CallbackRaises, Apply
    <2>2. status[n] = "running"
        BY <2>1 DEF EngineInv, FutureInv
    <2>3. Promise!Settle(n)
        BY <2>1, <2>2, SameGraph DEF Outcome, Promise!Settle
    <2>4. QED BY <2>3 DEF Promise!Next
<1>7. ASSUME NEW n \in Nodes, ConditionRaises(n) PROVE UNCHANGED Promise!vars
    BY <1>7, SameGraph DEF ConditionRaises, nodeVars
<1>8. CASE Raise
    BY <1>8, SameGraph DEF Raise, nodeVars, Promise!Next, Promise!Abort
<1>9. CASE Return
    <2>1. \A n \in Nodes : status[n] \in Settled
        BY <1>9, RoundStep DEF Return, nodeVars, RoundInv
    <2>2. Promise!Finish
        BY <1>9, <2>1, SameGraph
           DEF Return, nodeVars, Settled, Promise!Finish, Promise!Settled
    <2>3. QED BY <2>2 DEF Promise!Next
<1>10. ASSUME NEW n \in Nodes, Task(n) PROVE UNCHANGED Promise!vars
    BY <1>1, <1>10 DEF Task, TakeTask, AttemptSucceeds, AttemptFails, defVars
<1>11. CASE NextGeneration \/ StoreLog \/ UNCHANGED vars
    BY <1>1, <1>11 DEF NextGeneration, StoreLog, vars, defVars, nodeVars
<1>12. QED
    BY <1>2, <1>3, <1>4, <1>5, <1>6, <1>7, <1>8, <1>9, <1>10, <1>11
       DEF Next, Engine, UserCodeRaises

(***************************************************************************)
(* The engine, with generations, a pool and results taken as they come,    *)
(* implements the plain data flow of the dependencies, for every workflow. *)
(***************************************************************************)
THEOREM EngineImplementsDataflow == Spec => ImplementsDataflow
<1>1. Init => Promise!Init
    BY DEF Init, Deps, Promise!Init
<1>2. TypeOK /\ EngineInv /\ [Next]_vars => [Promise!Next]_(Promise!vars)
    BY PromiseStep
<1>3. QED
    BY <1>1, <1>2, TypeCorrect, EngineInvariant, PTL
       DEF Spec, ImplementsDataflow, Promise!Spec
=============================================================================
