---------------------------- MODULE TaskRunsProofs ----------------------------
(***************************************************************************)
(* Theorems about TaskRuns: a workflow survives being saved, attempts at a *)
(* function do not overlap, and a task calls the function it was given.    *)
(***************************************************************************)
EXTENDS TaskRuns, SequenceTheorems, TLAPS

-----------------------------------------------------------------------------
(* Specs and their documents.                                              *)

\* A callable is not a reference: their records have different fields.
LEMMA CallablesAreNoReferences == Callables \cap References = {}
  <1> SUFFICES ASSUME NEW c \in Callables, c \in References
               PROVE  FALSE
    OBVIOUS
  <1>1. c \in [kind : Kinds, module : STRING]
    BY CallablesAssumption
  <1>2. c \in [module : STRING, name : Names]
    BY ReferencesAssumption
  <1>3. DOMAIN c = {"kind", "module"}
    BY <1>1
  <1>4. DOMAIN c = {"module", "name"}
    BY <1>2
  <1> QED
    BY <1>3, <1>4

LEMMA NoneIsNothing ==
    /\ None \notin Callables /\ None \notin References
    /\ None \notin {"iso", "reason", "unresolved"}
    /\ None \notin CallableSpecs /\ None \notin CallableDicts
  BY NoneAssumption

\* What add_task or a document calls TaskSpec with makes a sound spec.
LEMMA SpecMade ==
    ASSUME NEW a, Accepted(a), a.func \in OptionalCallables,
           a.text \in Texts, a.timeout \in Timeouts
    PROVE  TaskSpec(a) \in Specs /\ SoundSpec(TaskSpec(a))
  <1> DEFINE s == TaskSpec(a)
  <1>1. /\ s.type = a.type
        /\ s.ref = IF IsPython(a) /\ a.func \in References THEN a.func ELSE None
        /\ s.func = IF IsPython(a) /\ a.func \in Callables THEN a.func ELSE None
        /\ s.text = a.text
    BY DEF TaskSpec
  <1>2. s \in Specs
    BY DEF TaskSpec, Specs, Accepted, OptionalCallables
  <1> HIDE DEF s
  <1>3. SoundSpec(s)
    BY <1>1, CallablesAreNoReferences, NoneIsNothing
    DEF SoundSpec, IsPython, Accepted, OptionalCallables
  <1> QED
    BY <1>2, <1>3 DEF s

\* The document of a spec makes the spec it was made of, with a reference for
\* the callable, and the same document.
LEMMA SpecSaved ==
    ASSUME NEW s \in Specs, SoundSpec(s), SpecHasDict(s)
    PROVE  LET d == SpecToDict(s)
               r == SpecFromDict(d)
           IN  /\ d.type = s.type /\ d.timeout = s.timeout
               /\ d.text = IF IsPython(s) THEN None ELSE s.text
               /\ d.ref \in References \cup {None}
               /\ IsPython(s) <=> d.ref # None
               /\ s.ref # None => d.ref = s.ref
               /\ s.func # None => d.ref = ObjToRef(s.func)
               /\ r = [type |-> s.type, ref |-> d.ref, func |-> None,
                       text |-> d.text, timeout |-> s.timeout]
  <1> DEFINE d == SpecToDict(s)
             r == SpecFromDict(d)
  <1>1. /\ d.type = s.type /\ d.timeout = s.timeout
        /\ d.text = IF IsPython(s) THEN None ELSE s.text
        /\ d.ref = IF IsPython(s) /\ s.ref = None THEN ObjToRef(s.func) ELSE s.ref
    BY DEF SpecToDict
  <1>2. s.ref \in References \cup {None} /\ s.func \in Callables \cup {None}
    BY DEF Specs
  <1>3. IsPython(s) /\ s.ref = None => s.func \in Callables /\ ObjToRef(s.func) \in References
    BY <1>2, SavedAssumption DEF SoundSpec, SpecHasDict
  <1>4. /\ d.ref \in References \cup {None}
        /\ IsPython(s) <=> d.ref # None
        /\ s.ref # None => d.ref = s.ref
        /\ s.func # None => d.ref = ObjToRef(s.func)
    BY <1>1, <1>2, <1>3, NoneIsNothing DEF SoundSpec
  <1>5. IsPython(d) <=> IsPython(s)
    BY <1>1 DEF IsPython
  <1>6. d.ref \notin Callables
    BY <1>4, CallablesAreNoReferences, NoneIsNothing
  <1> HIDE DEF d
  <1>7. r = [type |-> s.type, ref |-> d.ref, func |-> None,
             text |-> d.text, timeout |-> s.timeout]
    BY <1>1, <1>4, <1>5, <1>6 DEF SpecFromDict, TaskSpec, IsPython
  <1> QED
    BY <1>1, <1>4, <1>7 DEF d

LEMMA LoadedSpecSound ==
    ASSUME NEW s \in Specs, SoundSpec(s), SpecHasDict(s)
    PROVE  LET r == SpecFromDict(SpecToDict(s)) IN
           /\ r \in Specs
           /\ SoundSpec(r)
           /\ SpecHasDict(r)
           /\ SpecToDict(r) = SpecToDict(s)
  <1> DEFINE d == SpecToDict(s)
             r == SpecFromDict(d)
  <1>1. /\ d.type = s.type /\ d.timeout = s.timeout
        /\ d.text = IF IsPython(s) THEN None ELSE s.text
        /\ d.ref \in References \cup {None}
        /\ IsPython(s) <=> d.ref # None
        /\ r = [type |-> s.type, ref |-> d.ref, func |-> None,
                text |-> d.text, timeout |-> s.timeout]
    BY SpecSaved
  <1>2. d = [type |-> d.type, timeout |-> d.timeout, ref |-> d.ref, text |-> d.text]
    BY DEF SpecToDict
  <1>3. s.type \in TaskTypes /\ s.text \in Texts /\ s.timeout \in Timeouts
    BY DEF Specs
  <1>4. None \in Texts
    BY DEF Texts
  <1> HIDE DEF d, r
  <1>5. r \in Specs
    BY <1>1, <1>3, <1>4 DEF Specs
  <1>6. IsPython(r) <=> IsPython(s)
    BY <1>1 DEF IsPython
  <1>7. SoundSpec(r) /\ SpecHasDict(r)
    BY <1>1, <1>6 DEF SoundSpec, SpecHasDict
  <1>8. SpecToDict(r) = d
    BY <1>1, <1>2, <1>6 DEF SpecToDict
  <1> QED
    BY <1>5, <1>7, <1>8 DEF d, r

LEMMA CallableSpecSound ==
    ASSUME NEW f \in Callables \cup References
    PROVE  LET s == CallableSpec(f) IN
           /\ s = [type |-> "python_callable",
                   ref  |-> IF f \in References THEN f ELSE None,
                   func |-> IF f \in Callables THEN f ELSE None,
                   text |-> None, timeout |-> None]
           /\ s \in Specs
           /\ SoundSpec(s)
  <1> DEFINE s == CallableSpec(f)
  <1>1. f # None
    BY NoneIsNothing
  <1>2. s = [type |-> "python_callable",
             ref  |-> IF f \in References THEN f ELSE None,
             func |-> IF f \in Callables THEN f ELSE None,
             text |-> None, timeout |-> None]
    BY <1>1 DEF CallableSpec, TaskSpec, IsPython
  <1> HIDE DEF s
  <1>3. s \in Specs
    BY <1>2 DEF Specs, TaskTypes, Texts, Timeouts
  <1>4. SoundSpec(s)
    BY <1>2, CallablesAreNoReferences, NoneIsNothing DEF SoundSpec, IsPython
  <1> QED
    BY <1>2, <1>3, <1>4 DEF s

LEMMA OptionalSaved ==
    ASSUME NEW s \in OptionalSpecs, OptionalHasDict(s)
    PROVE  LET r == SpecOrNone(DictOrNone(s)) IN
           /\ r \in OptionalSpecs
           /\ OptionalHasDict(r)
           /\ DictOrNone(r) = DictOrNone(s)
  <1>1. CASE s = None
    BY <1>1 DEF OptionalHasDict, SpecOrNone, DictOrNone, OptionalSpecs
  <1>2. CASE s # None
    <2> DEFINE d == SpecToDict(s)
               r == SpecFromDict(d)
    <2>1. s \in CallableSpecs
      BY <1>2 DEF OptionalSpecs
    <2>2. PICK f \in Callables \cup References : s = CallableSpec(f)
      BY <2>1 DEF CallableSpecs
    <2>3. /\ s \in Specs /\ SoundSpec(s)
          /\ s.type = "python_callable" /\ s.text = None /\ s.timeout = None
      BY <2>2, CallableSpecSound
    <2>4. SpecHasDict(s)
      BY <1>2 DEF OptionalHasDict
    <2>5. d \in CallableDicts
      BY <2>1 DEF CallableDicts
    <2>6. d # None
      BY <2>5, NoneIsNothing
    <2>7. SpecOrNone(DictOrNone(s)) = r
      BY <1>2, <2>6 DEF SpecOrNone, DictOrNone
    <2>8. /\ d.text = None
          /\ d.ref \in References
          /\ r = [type |-> s.type, ref |-> d.ref, func |-> None,
                  text |-> d.text, timeout |-> s.timeout]
      BY <2>3, <2>4, SpecSaved DEF IsPython
    <2>9. SpecHasDict(r) /\ SpecToDict(r) = d
      BY <2>3, <2>4, LoadedSpecSound
    <2> HIDE DEF d, r
    <2>10. d.ref \notin Callables
      BY <2>8, CallablesAreNoReferences
    <2>11. CallableSpec(d.ref) = r
      BY <2>3, <2>8, <2>10, CallableSpecSound
    <2>12. r \in CallableSpecs
      BY <2>8, <2>11 DEF CallableSpecs
    <2>13. r # None
      BY <2>12, NoneIsNothing
    <2>14. DictOrNone(r) = d /\ DictOrNone(s) = d
      BY <1>2, <2>9, <2>13 DEF DictOrNone, d
    <2> QED
      BY <2>7, <2>9, <2>12, <2>14 DEF OptionalSpecs, OptionalHasDict
  <1> QED
    BY <1>1, <1>2

-----------------------------------------------------------------------------
(* Workflows and their documents.                                          *)

NodeToDict(n) ==
    [node_id |-> n.id, task |-> SpecToDict(n.spec), retries |-> n.retries,
     on_success |-> DictOrNone(n.on_success), on_failure |-> DictOrNone(n.on_failure)]

EdgeToDict(e) ==
    [source |-> e.source, target |-> e.target, condition |-> DictOrNone(e.condition)]

LEMMA NodeSaved ==
    ASSUME NEW n \in NodeRecords, SoundSpec(n.spec), SpecHasDict(n.spec),
           OptionalHasDict(n.on_success), OptionalHasDict(n.on_failure)
    PROVE  LET r == LoadedNode(NodeToDict(n)) IN
           /\ r \in NodeRecords
           /\ r.id = n.id
           /\ r.retries = n.retries
           /\ r.spec = SpecFromDict(SpecToDict(n.spec))
           /\ SoundSpec(r.spec)
           /\ SpecHasDict(r.spec)
           /\ OptionalHasDict(r.on_success)
           /\ OptionalHasDict(r.on_failure)
           /\ NodeToDict(r) = NodeToDict(n)
  <1> DEFINE d == SpecToDict(n.spec)
             s == SpecFromDict(d)
             a == [type |-> s.type, func |-> IF IsPython(s) THEN s.ref ELSE None,
                   text |-> s.text, timeout |-> s.timeout, retries |-> n.retries]
             success == SpecOrNone(DictOrNone(n.on_success))
             failure == SpecOrNone(DictOrNone(n.on_failure))
             r == LoadedNode(NodeToDict(n))
  <1>1. /\ n.id \in Nodes /\ n.spec \in Specs /\ n.retries \in Nat \ {0}
        /\ n.on_success \in OptionalSpecs /\ n.on_failure \in OptionalSpecs
    BY DEF NodeRecords
  <1>2. /\ d.ref \in References \cup {None}
        /\ IsPython(n.spec) <=> d.ref # None
        /\ s = [type |-> n.spec.type, ref |-> d.ref, func |-> None,
                text |-> d.text, timeout |-> n.spec.timeout]
    BY <1>1, SpecSaved
  <1>3. /\ s \in Specs /\ SoundSpec(s) /\ SpecHasDict(s) /\ SpecToDict(s) = d
    BY <1>1, LoadedSpecSound
  <1>4. /\ success \in OptionalSpecs /\ OptionalHasDict(success)
        /\ DictOrNone(success) = DictOrNone(n.on_success)
    BY <1>1, OptionalSaved
  <1>5. /\ failure \in OptionalSpecs /\ OptionalHasDict(failure)
        /\ DictOrNone(failure) = DictOrNone(n.on_failure)
    BY <1>1, OptionalSaved
  <1>6. r = NewNode(n.id, a, success, failure)
    BY DEF LoadedNode, NodeToDict
  <1> HIDE DEF d, s, success, failure, r
  <1>7. TaskSpec(a) = s
    <2>1. d.ref \notin Callables
      BY <1>2, CallablesAreNoReferences, NoneIsNothing
    <2>2. IsPython(a) <=> IsPython(s)
      BY DEF IsPython
    <2>3. IsPython(s) <=> IsPython(n.spec)
      BY <1>2 DEF IsPython
    <2> QED
      BY <1>2, <2>1, <2>2, <2>3, NoneIsNothing DEF TaskSpec
  <1>8. r = [id |-> n.id, spec |-> s, retries |-> n.retries,
             on_success |-> success, on_failure |-> failure]
    BY <1>1, <1>6, <1>7 DEF NewNode
  <1>9. r \in NodeRecords
    BY <1>1, <1>3, <1>4, <1>5, <1>8 DEF NodeRecords
  <1>10. NodeToDict(r) = NodeToDict(n)
    BY <1>3, <1>4, <1>5, <1>8 DEF NodeToDict, d
  <1> QED
    BY <1>3, <1>4, <1>5, <1>8, <1>9, <1>10 DEF r, s, d

LEMMA EdgeSaved ==
    ASSUME NEW e \in EdgeRecords, OptionalHasDict(e.condition)
    PROVE  LET r == NewEdge(e.source, e.target, SpecOrNone(EdgeToDict(e).condition)) IN
           /\ r \in EdgeRecords
           /\ r.source = e.source
           /\ r.target = e.target
           /\ OptionalHasDict(r.condition)
           /\ EdgeToDict(r) = EdgeToDict(e)
  <1> DEFINE c == SpecOrNone(DictOrNone(e.condition))
             r == NewEdge(e.source, e.target, c)
  <1>1. /\ e.source \in Nodes /\ e.target \in Nodes /\ e.condition \in OptionalSpecs
    BY DEF EdgeRecords
  <1>2. /\ c \in OptionalSpecs /\ OptionalHasDict(c)
        /\ DictOrNone(c) = DictOrNone(e.condition)
    BY <1>1, OptionalSaved
  <1>3. EdgeToDict(e).condition = DictOrNone(e.condition)
    BY DEF EdgeToDict
  <1> HIDE DEF c
  <1>4. r = [source |-> e.source, target |-> e.target, condition |-> c]
    BY DEF NewEdge
  <1>5. r \in EdgeRecords
    BY <1>1, <1>2, <1>4 DEF EdgeRecords
  <1>6. EdgeToDict(r) = EdgeToDict(e)
    BY <1>2, <1>4 DEF EdgeToDict
  <1> QED
    BY <1>2, <1>3, <1>4, <1>5, <1>6 DEF c

LEMMA DocumentOf ==
    ASSUME NEW w
    PROVE  ToDict(w) = [project_root |-> w.root,
                        nodes |-> [i \in DOMAIN w.nodes |-> NodeToDict(w.nodes[i])],
                        edges |-> [i \in DOMAIN w.edges |-> EdgeToDict(w.edges[i])]]
  BY DEF ToDict, NodeToDict, EdgeToDict

Loaded(w) == FromDict(ToDict(w))

LEMMA LoadedIs ==
    ASSUME NEW w
    PROVE  /\ Loaded(w) = [root |-> Loaded(w).root, nodes |-> Loaded(w).nodes,
                           edges |-> Loaded(w).edges]
           /\ Loaded(w).root = w.root
           /\ Loaded(w).nodes = [i \in DOMAIN w.nodes |-> LoadedNode(NodeToDict(w.nodes[i]))]
           /\ Loaded(w).edges = [i \in DOMAIN w.edges |->
                  NewEdge(w.edges[i].source, w.edges[i].target,
                          SpecOrNone(EdgeToDict(w.edges[i]).condition))]
  <1> DEFINE d == ToDict(w)
  <1>1. /\ d.project_root = w.root
        /\ d.nodes = [i \in DOMAIN w.nodes |-> NodeToDict(w.nodes[i])]
        /\ d.edges = [i \in DOMAIN w.edges |-> EdgeToDict(w.edges[i])]
    BY DocumentOf
  <1>2. \A i \in DOMAIN w.edges : /\ EdgeToDict(w.edges[i]).source = w.edges[i].source
                                  /\ EdgeToDict(w.edges[i]).target = w.edges[i].target
    BY DEF EdgeToDict
  <1> HIDE DEF d
  <1>3. FromDict(d) = [root |-> d.project_root,
                       nodes |-> [i \in DOMAIN d.nodes |-> LoadedNode(d.nodes[i])],
                       edges |-> [i \in DOMAIN d.edges |->
                           NewEdge(d.edges[i].source, d.edges[i].target,
                                   SpecOrNone(d.edges[i].condition))]]
    BY DEF FromDict
  <1>4. Loaded(w) = FromDict(d)
    BY DEF Loaded, d
  <1> QED
    BY <1>1, <1>2, <1>3, <1>4

\* What Loaded leaves as it was, and what it makes of the tasks.
LEMMA LoadedWorkflow ==
    ASSUME NEW w \in Workflows, SoundWorkflow(w), HasDict(w)
    PROVE  LET v == Loaded(w) IN
           /\ v \in Workflows
           /\ v.root = w.root
           /\ DOMAIN v.nodes = DOMAIN w.nodes
           /\ DOMAIN v.edges = DOMAIN w.edges
           /\ \A i \in DOMAIN w.nodes :
                  /\ v.nodes[i].id = w.nodes[i].id
                  /\ v.nodes[i].retries = w.nodes[i].retries
                  /\ v.nodes[i].spec = SpecFromDict(SpecToDict(w.nodes[i].spec))
           /\ \A i \in DOMAIN w.edges : /\ v.edges[i].source = w.edges[i].source
                                       /\ v.edges[i].target = w.edges[i].target
           /\ Ids(v) = Ids(w)
           /\ Deps(v) = Deps(w)
           /\ SoundWorkflow(v)
           /\ SameTasks(v, w)
           /\ HasDict(v)
           /\ ToDict(v) = ToDict(w)
  <1> DEFINE v == Loaded(w)
  <1>1. /\ v = [root |-> v.root, nodes |-> v.nodes, edges |-> v.edges]
        /\ v.root = w.root
        /\ v.nodes = [i \in DOMAIN w.nodes |-> LoadedNode(NodeToDict(w.nodes[i]))]
        /\ v.edges = [i \in DOMAIN w.edges |->
               NewEdge(w.edges[i].source, w.edges[i].target,
                       SpecOrNone(EdgeToDict(w.edges[i]).condition))]
    BY LoadedIs
  <1>2. /\ w.root \in Roots \cup {None}
        /\ w.nodes \in Seq(NodeRecords) /\ w.edges \in Seq(EdgeRecords)
    BY DEF Workflows
  <1> HIDE DEF v
  <1>3. /\ DOMAIN v.nodes = DOMAIN w.nodes /\ DOMAIN v.edges = DOMAIN w.edges
        /\ DOMAIN w.nodes = 1..Len(w.nodes) /\ DOMAIN w.edges = 1..Len(w.edges)
    BY <1>1, <1>2
  <1>4. ASSUME NEW i \in DOMAIN w.nodes
        PROVE  LET r == v.nodes[i] IN
               /\ r \in NodeRecords
               /\ r.id = w.nodes[i].id
               /\ r.retries = w.nodes[i].retries
               /\ r.spec = SpecFromDict(SpecToDict(w.nodes[i].spec))
               /\ r.spec.type = w.nodes[i].spec.type
               /\ SoundSpec(r.spec)
               /\ SpecHasDict(r.spec)
               /\ OptionalHasDict(r.on_success)
               /\ OptionalHasDict(r.on_failure)
               /\ NodeToDict(r) = NodeToDict(w.nodes[i])
    <2>1. v.nodes[i] = LoadedNode(NodeToDict(w.nodes[i]))
      BY <1>1
    <2>2. /\ w.nodes[i] \in NodeRecords /\ SoundSpec(w.nodes[i].spec)
          /\ SpecHasDict(w.nodes[i].spec)
          /\ OptionalHasDict(w.nodes[i].on_success)
          /\ OptionalHasDict(w.nodes[i].on_failure)
      BY <1>2, <1>3 DEF SoundWorkflow, HasDict
    <2>3. w.nodes[i].spec \in Specs
      BY <2>2 DEF NodeRecords
    <2>4. SpecFromDict(SpecToDict(w.nodes[i].spec)).type = w.nodes[i].spec.type
      BY <2>2, <2>3, SpecSaved
    <2> QED
      BY <2>1, <2>2, <2>4, NodeSaved
  <1>5. ASSUME NEW i \in DOMAIN w.edges
        PROVE  LET r == v.edges[i] IN
               /\ r \in EdgeRecords
               /\ r.source = w.edges[i].source
               /\ r.target = w.edges[i].target
               /\ OptionalHasDict(r.condition)
               /\ EdgeToDict(r) = EdgeToDict(w.edges[i])
    <2>1. /\ w.edges[i] \in EdgeRecords /\ OptionalHasDict(w.edges[i].condition)
      BY <1>2, <1>3 DEF HasDict
    <2>2. v.edges[i] = NewEdge(w.edges[i].source, w.edges[i].target,
                               SpecOrNone(EdgeToDict(w.edges[i]).condition))
      BY <1>1
    <2> QED
      BY <2>1, <2>2, EdgeSaved
  <1>6. v.nodes \in Seq(NodeRecords) /\ v.edges \in Seq(EdgeRecords)
    <2>1. v.nodes \in [1..Len(w.nodes) -> NodeRecords]
      BY <1>1, <1>3, <1>4
    <2>2. v.edges \in [1..Len(w.edges) -> EdgeRecords]
      BY <1>1, <1>3, <1>5
    <2>3. Len(w.nodes) \in Nat /\ Len(w.edges) \in Nat
      BY <1>2
    <2> QED
      BY <2>1, <2>2, <2>3, IsASeq
  <1>7. v \in Workflows
    BY <1>1, <1>2, <1>6 DEF Workflows
  <1>8. Ids(v) = Ids(w)
    BY <1>3, <1>4 DEF Ids
  <1>9. Deps(v) = Deps(w)
    BY <1>3, <1>5 DEF Deps
  <1>10. SoundWorkflow(v)
    <2>1. \A i, k \in DOMAIN v.nodes : v.nodes[i].id = v.nodes[k].id => i = k
      BY <1>3, <1>4 DEF SoundWorkflow
    <2>2. \A i \in DOMAIN v.nodes : SoundSpec(v.nodes[i].spec)
      BY <1>3, <1>4
    <2>3. \A i \in DOMAIN v.edges : {v.edges[i].source, v.edges[i].target} \subseteq Ids(v)
      BY <1>3, <1>5, <1>8 DEF SoundWorkflow
    <2>4. Acyclic(Deps(v))
      BY <1>9 DEF SoundWorkflow
    <2> QED
      BY <2>1, <2>2, <2>3, <2>4 DEF SoundWorkflow
  <1>11. SameTasks(v, w)
    <2>1. Len(v.nodes) = Len(w.nodes)
      BY <1>2, <1>3, <1>6
    <2> QED
      BY <1>3, <1>4, <2>1 DEF SameTasks
  <1>12. HasDict(v)
    BY <1>3, <1>4, <1>5 DEF HasDict
  <1>13. ToDict(v) = ToDict(w)
    <2>1. [i \in DOMAIN v.nodes |-> NodeToDict(v.nodes[i])]
              = [i \in DOMAIN w.nodes |-> NodeToDict(w.nodes[i])]
      BY <1>3, <1>4
    <2>2. [i \in DOMAIN v.edges |-> EdgeToDict(v.edges[i])]
              = [i \in DOMAIN w.edges |-> EdgeToDict(w.edges[i])]
      BY <1>3, <1>5
    <2> QED
      BY <1>1, <2>1, <2>2, DocumentOf
  <1> QED
    BY <1>1, <1>3, <1>4, <1>5, <1>7, <1>8, <1>9, <1>10, <1>11, <1>12, <1>13 DEF v

\* Edges that are acyclic together were acyclic when each was added.
LEMMA AcyclicPart ==
    ASSUME NEW R, NEW S, S \subseteq R, Acyclic(R)
    PROVE  Acyclic(S)
  BY DEF Acyclic

LEMMA DocumentLoads ==
    ASSUME NEW w \in Workflows, SoundWorkflow(w), HasDict(w)
    PROVE  Loads(ToDict(w))
  <1> DEFINE d == ToDict(w)
             v == Loaded(w)
  <1>1. /\ v \in Workflows
        /\ DOMAIN v.nodes = DOMAIN w.nodes
        /\ DOMAIN v.edges = DOMAIN w.edges
        /\ \A i \in DOMAIN w.nodes : v.nodes[i].id = w.nodes[i].id
        /\ \A i \in DOMAIN w.edges : /\ v.edges[i].source = w.edges[i].source
                                    /\ v.edges[i].target = w.edges[i].target
        /\ SoundWorkflow(v)
    BY LoadedWorkflow
  <1>2. v = FromDict(d)
    BY DEF Loaded
  <1>3. /\ d.nodes = [i \in DOMAIN w.nodes |-> NodeToDict(w.nodes[i])]
        /\ d.edges = [i \in DOMAIN w.edges |-> EdgeToDict(w.edges[i])]
    BY DocumentOf
  <1>4. /\ v.nodes \in Seq(NodeRecords) /\ v.edges \in Seq(EdgeRecords)
        /\ w.nodes \in Seq(NodeRecords) /\ w.edges \in Seq(EdgeRecords)
        /\ v = [root |-> v.root, nodes |-> v.nodes, edges |-> v.edges]
    BY <1>1 DEF Workflows
  <1>5. \A i \in DOMAIN w.edges : /\ v.edges[i].source = d.edges[i].source
                                  /\ v.edges[i].target = d.edges[i].target
    BY <1>1, <1>3 DEF EdgeToDict
  <1> HIDE DEF d, v
  <1>6. ASSUME NEW i \in DOMAIN d.nodes
        PROVE  CanAddTask([v EXCEPT !.nodes = SubSeq(@, 1, i - 1)], d.nodes[i].node_id,
                          [SpecFromDict(d.nodes[i].task) EXCEPT !.func = d.nodes[i].task.ref])
    <2> DEFINE part == [v EXCEPT !.nodes = SubSeq(@, 1, i - 1)]
               a == [SpecFromDict(d.nodes[i].task) EXCEPT !.func = d.nodes[i].task.ref]
               s == w.nodes[i].spec
    <2>1. i \in DOMAIN w.nodes /\ i \in 1..Len(v.nodes)
      BY <1>1, <1>3, <1>4
    <2>2. /\ d.nodes[i].node_id = v.nodes[i].id
          /\ d.nodes[i].task = SpecToDict(s)
      BY <1>1, <1>3, <2>1 DEF NodeToDict
    <2>3. part.nodes = SubSeq(v.nodes, 1, i - 1)
      BY <1>4
    <2>4. /\ DOMAIN part.nodes = 1..(i - 1)
          /\ \A k \in 1..(i - 1) : part.nodes[k] = v.nodes[k]
      BY <1>4, <2>1, <2>3
    <2>5. d.nodes[i].node_id \notin Ids(part)
      <3>1. \A k \in 1..(i - 1) : k \in DOMAIN v.nodes /\ k # i
        BY <1>4, <2>1
      <3>2. \A k \in 1..(i - 1) : v.nodes[k].id # v.nodes[i].id
        BY <1>1, <2>1, <3>1 DEF SoundWorkflow
      <3> HIDE DEF part
      <3> QED
        BY <2>2, <2>4, <3>2 DEF Ids
    <2>6. s \in Specs /\ SoundSpec(s) /\ SpecHasDict(s)
      <3>1. w.nodes[i] \in NodeRecords
        BY <1>4, <2>1
      <3>2. s \in Specs
        BY <3>1 DEF NodeRecords
      <3> QED
        BY <2>1, <3>2 DEF SoundWorkflow, HasDict
    <2>7. /\ SpecToDict(s).text = IF IsPython(s) THEN None ELSE s.text
          /\ IsPython(s) <=> SpecToDict(s).ref # None
          /\ SpecFromDict(SpecToDict(s)) =
                 [type |-> s.type, ref |-> SpecToDict(s).ref, func |-> None,
                  text |-> SpecToDict(s).text, timeout |-> s.timeout]
      BY <2>6, SpecSaved
    <2>8. /\ a.type = s.type
          /\ a.func = SpecToDict(s).ref
          /\ a.text = SpecToDict(s).text
      BY <2>2, <2>7
    <2>9. s.type \in TaskTypes
      BY <2>6 DEF Specs
    <2> HIDE DEF a, s
    <2>10. Accepted(a)
      BY <2>6, <2>7, <2>8, <2>9 DEF Accepted, IsPython, SoundSpec
    <2> QED
      BY <2>5, <2>10 DEF CanAddTask, a
  <1>7. ASSUME NEW i \in DOMAIN d.edges
        PROVE  CanAddEdge([v EXCEPT !.edges = SubSeq(@, 1, i - 1)],
                          d.edges[i].source, d.edges[i].target)
    <2> DEFINE part == [v EXCEPT !.edges = SubSeq(@, 1, i - 1)]
               s == d.edges[i].source
               t == d.edges[i].target
    <2>1. i \in DOMAIN w.edges /\ i \in DOMAIN v.edges /\ i \in 1..Len(v.edges)
      BY <1>1, <1>3, <1>4
    <2>2. s = v.edges[i].source /\ t = v.edges[i].target
      BY <1>5, <2>1
    <2>3. part.edges = SubSeq(v.edges, 1, i - 1) /\ part.nodes = v.nodes
      BY <1>4
    <2>4. /\ DOMAIN part.edges = 1..(i - 1)
          /\ \A k \in 1..(i - 1) : part.edges[k] = v.edges[k] /\ k \in DOMAIN v.edges
      BY <1>4, <2>1, <2>3
    <2>5. Ids(part) = Ids(v)
      BY <2>3 DEF Ids
    <2> HIDE DEF part, s, t
    <2>6. Deps(part) \cup {<<s, t>>} \subseteq Deps(v)
      BY <2>1, <2>2, <2>4 DEF Deps
    <2>7. Acyclic(Deps(part) \cup {<<s, t>>})
      BY <1>1, <2>6, AcyclicPart DEF SoundWorkflow
    <2>8. {s, t} \subseteq Ids(part)
      BY <1>1, <2>1, <2>2, <2>5 DEF SoundWorkflow
    <2> QED
      BY <2>7, <2>8 DEF CanAddEdge, part, s, t
  <1> QED
    BY <1>2, <1>6, <1>7 DEF Loads, d

-----------------------------------------------------------------------------
(* Building a workflow, and handing it on.                                 *)

LEMMA NodeTyped ==
    ASSUME NEW w \in Workflows, NEW i \in DOMAIN w.nodes
    PROVE  w.nodes[i].id \in Nodes /\ w.nodes[i].spec \in Specs
  <1>1. w.nodes \in Seq(NodeRecords)
    BY DEF Workflows
  <1>2. w.nodes[i] \in NodeRecords
    BY <1>1
  <1> QED
    BY <1>2 DEF NodeRecords

LEMMA NodeOfIndex ==
    ASSUME NEW w, SoundWorkflow(w), NEW i \in DOMAIN w.nodes
    PROVE  NodeOf(w, w.nodes[i].id) = w.nodes[i]
  <1> DEFINE n == w.nodes[i].id
             k == CHOOSE x \in DOMAIN w.nodes : w.nodes[x].id = n
  <1>1. k \in DOMAIN w.nodes /\ w.nodes[k].id = n
    OBVIOUS
  <1>2. k = i
    BY <1>1 DEF SoundWorkflow
  <1> QED
    BY <1>2 DEF NodeOf

LEMMA SameIds ==
    ASSUME NEW v \in Workflows, NEW w \in Workflows, SameTasks(v, w)
    PROVE  /\ DOMAIN v.nodes = DOMAIN w.nodes
           /\ Ids(v) = Ids(w)
  <1>1. v.nodes \in Seq(NodeRecords) /\ w.nodes \in Seq(NodeRecords)
    BY DEF Workflows
  <1>2. DOMAIN v.nodes = DOMAIN w.nodes
    BY <1>1 DEF SameTasks
  <1> QED
    BY <1>2 DEF SameTasks, Ids

LEMMA SameNode ==
    ASSUME NEW v \in Workflows, NEW w \in Workflows, SameTasks(v, w),
           SoundWorkflow(v), SoundWorkflow(w), NEW i \in DOMAIN w.nodes
    PROVE  /\ i \in DOMAIN v.nodes
           /\ v.nodes[i].id = w.nodes[i].id
           /\ NodeOf(v, w.nodes[i].id) = v.nodes[i]
           /\ IsPython(v.nodes[i].spec) <=> IsPython(w.nodes[i].spec)
  BY SameIds, NodeOfIndex DEF SameTasks, IsPython

LEMMA OptionalMade ==
    ASSUME NEW f \in OptionalCallables
    PROVE  CallableSpec(f) \in OptionalSpecs
  <1>1. CASE f = None
    BY <1>1 DEF CallableSpec, OptionalSpecs
  <1>2. CASE f # None
    BY <1>2 DEF OptionalCallables, CallableSpecs, OptionalSpecs
  <1> QED
    BY <1>1, <1>2

LEMMA NodeMade ==
    ASSUME NEW n \in Nodes, NEW a \in TaskChoices[n], Accepted(a)
    PROVE  LET r == NewNode(n, a, CallableSpec(a.on_success), CallableSpec(a.on_failure))
           IN  /\ r \in NodeRecords
               /\ r.id = n
               /\ r.spec = TaskSpec(a)
               /\ SoundSpec(r.spec)
  <1> DEFINE success == CallableSpec(a.on_success)
             failure == CallableSpec(a.on_failure)
             r == NewNode(n, a, success, failure)
             k == IF a.retries \in Nat \ {0} THEN a.retries ELSE 1
  <1>1. /\ a.func \in OptionalCallables
        /\ a.on_success \in OptionalCallables
        /\ a.on_failure \in OptionalCallables
    BY ChoicesAssumption
  <1>2. a.text \in Texts /\ a.timeout \in Timeouts
    BY DEF Args, Texts, Timeouts
  <1>3. TaskSpec(a) \in Specs /\ SoundSpec(TaskSpec(a))
    BY <1>1, <1>2, SpecMade
  <1>4. success \in OptionalSpecs /\ failure \in OptionalSpecs
    BY <1>1, OptionalMade
  <1>5. k \in Nat \ {0}
    OBVIOUS
  <1>6. r = [id |-> n, spec |-> TaskSpec(a), retries |-> k,
             on_success |-> success, on_failure |-> failure]
    BY DEF NewNode
  <1> HIDE DEF success, failure, k, r
  <1> QED
    BY <1>3, <1>4, <1>5, <1>6 DEF NodeRecords, r, success, failure

LEMMA TaskAdded ==
    ASSUME NEW w \in Workflows, SoundWorkflow(w),
           NEW n \in Nodes, NEW a \in TaskChoices[n], CanAddTask(w, n, a)
    PROVE  LET v == WithTask(w, n, a) IN
           /\ v \in Workflows
           /\ SoundWorkflow(v)
           /\ Ids(v) = Ids(w) \cup {n}
           /\ DOMAIN v.nodes = DOMAIN w.nodes \cup {Len(w.nodes) + 1}
           /\ \A i \in DOMAIN w.nodes : v.nodes[i] = w.nodes[i] /\ w.nodes[i].id # n
           /\ v.nodes[Len(w.nodes) + 1].id = n
           /\ v.nodes[Len(w.nodes) + 1].spec = TaskSpec(a)
  <1> DEFINE r == NewNode(n, a, CallableSpec(a.on_success), CallableSpec(a.on_failure))
             v == WithTask(w, n, a)
             k == Len(w.nodes) + 1
  <1>1. r \in NodeRecords /\ r.id = n /\ r.spec = TaskSpec(a) /\ SoundSpec(r.spec)
    BY NodeMade DEF CanAddTask
  <1>2. /\ w = [root |-> w.root, nodes |-> w.nodes, edges |-> w.edges]
        /\ w.root \in Roots \cup {None}
        /\ w.nodes \in Seq(NodeRecords) /\ w.edges \in Seq(EdgeRecords)
    BY DEF Workflows
  <1> HIDE DEF r
  <1>3. v = [root |-> w.root, nodes |-> Append(w.nodes, r), edges |-> w.edges]
    <2>1. v = [w EXCEPT !.nodes = Append(@, r)]
      BY DEF WithTask, r
    <2> HIDE DEF v
    <2> QED
      BY <1>2, <2>1
  <1> HIDE DEF v
  <1>4. /\ v.nodes \in Seq(NodeRecords)
        /\ DOMAIN v.nodes = DOMAIN w.nodes \cup {k}
        /\ \A i \in DOMAIN w.nodes : v.nodes[i] = w.nodes[i] /\ i # k
        /\ v.nodes[k] = r
    BY <1>1, <1>2, <1>3
  <1>5. v \in Workflows
    BY <1>2, <1>3, <1>4 DEF Workflows
  <1>6. n \notin Ids(w)
    BY DEF CanAddTask
  <1>7. \A i \in DOMAIN w.nodes : w.nodes[i].id # n
    BY <1>6 DEF Ids
  <1> HIDE DEF k
  <1>8. Ids(v) = Ids(w) \cup {n}
    <2>1. \A i \in DOMAIN w.nodes : i \in DOMAIN v.nodes /\ v.nodes[i].id = w.nodes[i].id
      BY <1>4
    <2>2. k \in DOMAIN v.nodes /\ v.nodes[k].id = n
      BY <1>1, <1>4
    <2>3. \A i \in DOMAIN v.nodes : i = k \/ i \in DOMAIN w.nodes
      BY <1>4
    <2> QED
      BY <2>1, <2>2, <2>3 DEF Ids
  <1>9. v.edges = w.edges /\ Deps(v) = Deps(w)
    BY <1>3 DEF Deps
  <1>10. SoundWorkflow(v)
    <2>1. \A i, j \in DOMAIN v.nodes : v.nodes[i].id = v.nodes[j].id => i = j
      BY <1>1, <1>4, <1>7 DEF SoundWorkflow
    <2>2. \A i \in DOMAIN v.nodes : SoundSpec(v.nodes[i].spec)
      BY <1>1, <1>4 DEF SoundWorkflow
    <2> QED
      BY <2>1, <2>2, <1>8, <1>9 DEF SoundWorkflow
  <1> QED
    BY <1>1, <1>4, <1>5, <1>7, <1>8, <1>10 DEF v, k

LEMMA EdgeAdded ==
    ASSUME NEW w \in Workflows, SoundWorkflow(w), NEW s \in Nodes, NEW t \in Nodes,
           NEW c \in Conditions, CanAddEdge(w, s, t)
    PROVE  LET v == WithEdge(w, s, t, c) IN
           /\ v \in Workflows
           /\ SoundWorkflow(v)
           /\ v.root = w.root
           /\ v.nodes = w.nodes
  <1> DEFINE e == NewEdge(s, t, CallableSpec(c))
             v == WithEdge(w, s, t, c)
             k == Len(w.edges) + 1
  <1>1. e \in EdgeRecords /\ e.source = s /\ e.target = t
    BY OptionalMade, ChoicesAssumption DEF NewEdge, EdgeRecords
  <1>2. /\ w = [root |-> w.root, nodes |-> w.nodes, edges |-> w.edges]
        /\ w.root \in Roots \cup {None}
        /\ w.nodes \in Seq(NodeRecords) /\ w.edges \in Seq(EdgeRecords)
    BY DEF Workflows
  <1> HIDE DEF e
  <1>3. v = [root |-> w.root, nodes |-> w.nodes, edges |-> Append(w.edges, e)]
    <2>1. v = [w EXCEPT !.edges = Append(@, e)]
      BY DEF WithEdge, e
    <2> HIDE DEF v
    <2> QED
      BY <1>2, <2>1
  <1> HIDE DEF v
  <1>4. /\ v.edges \in Seq(EdgeRecords)
        /\ DOMAIN v.edges = DOMAIN w.edges \cup {k}
        /\ \A i \in DOMAIN w.edges : v.edges[i] = w.edges[i]
        /\ v.edges[k] = e
    BY <1>1, <1>2, <1>3
  <1>5. v \in Workflows
    BY <1>2, <1>3, <1>4 DEF Workflows
  <1>6. Ids(v) = Ids(w)
    BY <1>3 DEF Ids
  <1> HIDE DEF k
  <1>7. Deps(v) \subseteq Deps(w) \cup {<<s, t>>}
    BY <1>1, <1>4 DEF Deps
  <1>8. Acyclic(Deps(v))
    BY <1>7, AcyclicPart DEF CanAddEdge
  <1>9. \A i \in DOMAIN v.edges : {v.edges[i].source, v.edges[i].target} \subseteq Ids(v)
    BY <1>1, <1>4, <1>6 DEF SoundWorkflow, CanAddEdge
  <1>10. SoundWorkflow(v)
    BY <1>3, <1>8, <1>9 DEF SoundWorkflow
  <1> QED
    BY <1>3, <1>5, <1>10 DEF v

-----------------------------------------------------------------------------
(* A run has the tasks that were built, and attempts do not overlap.       *)

FlowInv == TypeOK /\ WorkflowInv /\ AttemptsInv

LEMMA EmptyIsSound ==
    /\ EmptyWorkflow(None) \in Workflows
    /\ SoundWorkflow(EmptyWorkflow(None))
    /\ DOMAIN EmptyWorkflow(None).nodes = {}
    /\ Ids(EmptyWorkflow(None)) = {}
  <1> DEFINE w == EmptyWorkflow(None)
  <1>1. w = [root |-> None, nodes |-> <<>>, edges |-> <<>>]
    BY DEF EmptyWorkflow
  <1>2. <<>> \in Seq(NodeRecords) /\ <<>> \in Seq(EdgeRecords)
    OBVIOUS
  <1> HIDE DEF w
  <1>3. w \in Workflows
    BY <1>1, <1>2 DEF Workflows
  <1>4. DOMAIN w.nodes = {} /\ DOMAIN w.edges = {}
    BY <1>1
  <1>5. Ids(w) = {} /\ Deps(w) = {}
    BY <1>4 DEF Ids, Deps
  <1>6. SoundWorkflow(w)
    BY <1>4, <1>5 DEF SoundWorkflow, Acyclic
  <1> QED
    BY <1>3, <1>4, <1>5, <1>6 DEF w

LEMMA InitFlow == Init => FlowInv
  <1> SUFFICES ASSUME Init
               PROVE  FlowInv
    OBVIOUS
  <1> USE DEF Init
  <1>1. TypeOK
    BY EmptyIsSound, PlacesAssumption
    DEF TypeOK, Processes, Steps, Errors, Records, NewRecord
  <1>2. WorkflowInv
    BY EmptyIsSound DEF WorkflowInv, FromGiven
  <1>3. AttemptsInv
    BY EmptyIsSound DEF AttemptsInv, NewRecord
  <1> QED
    BY <1>1, <1>2, <1>3 DEF FlowInv

LEMMA FromGivenLoaded ==
    ASSUME NEW w \in Workflows, SoundWorkflow(w), HasDict(w), FromGiven(w)
    PROVE  FromGiven(Loaded(w))
  <1> DEFINE v == Loaded(w)
  <1>1. /\ DOMAIN v.nodes = DOMAIN w.nodes
        /\ \A i \in DOMAIN w.nodes :
               /\ v.nodes[i].id = w.nodes[i].id
               /\ v.nodes[i].spec = SpecFromDict(SpecToDict(w.nodes[i].spec))
    BY LoadedWorkflow
  <1> HIDE DEF v
  <1> SUFFICES ASSUME NEW i \in DOMAIN w.nodes
               PROVE  LET s == v.nodes[i].spec
                          g == given[v.nodes[i].id]
                      IN  /\ s.func # None => g = {Itself(s.func)}
                          /\ s.ref # None =>
                                \/ g = {}
                                \/ s.ref.name \in {"unbound method", "class"}
                                \/ s.ref.module = "__main__"
                                \/ g = {[file |-> OnPath[s.ref.module], kind |-> s.ref.name]}
    BY <1>1 DEF FromGiven, v
  <1> DEFINE s == w.nodes[i].spec
             d == SpecToDict(s)
             g == given[w.nodes[i].id]
  <1>2. w.nodes[i] \in NodeRecords
    BY DEF Workflows
  <1>3. s \in Specs /\ SoundSpec(s) /\ SpecHasDict(s)
    BY <1>2 DEF NodeRecords, SoundWorkflow, HasDict
  <1>4. /\ IsPython(s) <=> d.ref # None
        /\ s.ref # None => d.ref = s.ref
        /\ s.func # None => d.ref = ObjToRef(s.func)
        /\ SpecFromDict(d) = [type |-> s.type, ref |-> d.ref, func |-> None,
                              text |-> d.text, timeout |-> s.timeout]
    BY <1>3, SpecSaved
  <1>5. v.nodes[i].id = w.nodes[i].id /\ v.nodes[i].spec.func = None
        /\ v.nodes[i].spec.ref = d.ref
    BY <1>1, <1>4
  <1>6. /\ s.func # None => g = {Itself(s.func)}
        /\ s.ref # None =>
              \/ g = {}
              \/ s.ref.name \in {"unbound method", "class"}
              \/ s.ref.module = "__main__"
              \/ g = {[file |-> OnPath[s.ref.module], kind |-> s.ref.name]}
    BY DEF FromGiven
  <1> HIDE DEF d, s, g
  <1>7. CASE s.ref # None
    BY <1>4, <1>5, <1>6, <1>7 DEF g
  <1>8. CASE s.ref = None /\ s.func # None
    <2>1. /\ d.ref.module = s.func.module
          /\ d.ref.name = RefName(s.func.kind)
      BY <1>4, <1>8 DEF ObjToRef
    <2>2. g = {[file |-> IF s.func.module = "__main__" THEN main ELSE OnPath[s.func.module],
                kind |-> s.func.kind]}
      BY <1>6, <1>8 DEF Itself, HomeOf
    <2>3. RefName(s.func.kind) \in {"unbound method", "class"}
              \/ RefName(s.func.kind) = s.func.kind
      BY DEF RefName
    <2> QED
      BY <1>5, <2>1, <2>2, <2>3 DEF g
  <1>9. CASE s.ref = None /\ s.func = None
    BY <1>3, <1>4, <1>5, <1>9 DEF SoundSpec
  <1> QED
    BY <1>7, <1>8, <1>9

LEMMA FlowAddTask ==
    ASSUME FlowInv, NEW n \in Nodes, NEW a \in TaskChoices[n], AddTask(n, a)
    PROVE  FlowInv'
  <1> DEFINE k == Len(job.nodes) + 1
  <1>1. /\ phase = "build" /\ CanAddTask(job, n, a)
        /\ job' = WithTask(job, n, a)
        /\ given' = [given EXCEPT ![n] = IF a.func \in Callables THEN {Itself(a.func)}
                                         ELSE {}]
        /\ UNCHANGED <<phase, running, place, cwd, main, taskVars, records, log>>
    BY DEF AddTask
  <1>2. /\ job \in Workflows /\ SoundWorkflow(job) /\ FromGiven(job)
        /\ DOMAIN given = Nodes /\ log = None
    BY <1>1 DEF FlowInv, TypeOK, WorkflowInv
  <1>3. PICK v : v = WithTask(job, n, a)
    OBVIOUS
  <1>4. /\ v \in Workflows
        /\ SoundWorkflow(v)
        /\ Ids(v) = Ids(job) \cup {n}
        /\ DOMAIN v.nodes = DOMAIN job.nodes \cup {k}
        /\ \A i \in DOMAIN job.nodes : v.nodes[i] = job.nodes[i] /\ job.nodes[i].id # n
        /\ v.nodes[k].id = n
        /\ v.nodes[k].spec = TaskSpec(a)
    BY <1>1, <1>2, <1>3, TaskAdded
  <1>5. job' = v
    BY <1>1, <1>3
  <1> HIDE DEF k
  <1>6. TypeOK'
    BY <1>1, <1>4, <1>5 DEF FlowInv, TypeOK, taskVars
  <1>7. FromGiven(job)'
    <2> SUFFICES ASSUME NEW i \in DOMAIN v.nodes
                 PROVE  LET s == v.nodes[i].spec
                            g == given'[v.nodes[i].id]
                        IN  /\ s.func # None => g = {Itself(s.func)}
                            /\ s.ref # None =>
                                  \/ g = {}
                                  \/ s.ref.name \in {"unbound method", "class"}
                                  \/ s.ref.module = "__main__"
                                  \/ g = {[file |-> OnPath[s.ref.module], kind |-> s.ref.name]}
      BY <1>1, <1>5 DEF FromGiven, Itself, HomeOf
    <2>1. CASE i \in DOMAIN job.nodes
      <3>1. v.nodes[i] = job.nodes[i] /\ given'[v.nodes[i].id] = given[job.nodes[i].id]
        BY <1>1, <1>2, <1>4, <2>1
      <3> QED
        BY <1>2, <2>1, <3>1 DEF FromGiven
    <2>2. CASE i = k
      <3>1. given'[n] = IF a.func \in Callables THEN {Itself(a.func)} ELSE {}
        BY <1>1, <1>2
      <3>2. /\ v.nodes[i].spec.func = IF IsPython(a) /\ a.func \in Callables THEN a.func ELSE None
            /\ v.nodes[i].spec.ref = IF IsPython(a) /\ a.func \in References THEN a.func ELSE None
        BY <1>4, <2>2 DEF TaskSpec
      <3> QED
        BY <1>4, <2>2, <3>1, <3>2, CallablesAreNoReferences, NoneIsNothing
    <2> QED
      BY <1>4, <2>1, <2>2
  <1>8. WorkflowInv'
    BY <1>1, <1>2, <1>4, <1>5, <1>7 DEF WorkflowInv
  <1>9. AttemptsInv'
    <2>1. /\ \A m \in Nodes : step[m] = "none"
          /\ calls[n] = 0
          /\ \A m \in Nodes : m \notin Ids(job) => calls[m] = 0
      BY <1>1 DEF FlowInv, AttemptsInv, CanAddTask
    <2>2. \A i \in DOMAIN v.nodes :
              IsPython(v.nodes[i].spec) => calls[v.nodes[i].id] = 0
      <3>1. \A i \in DOMAIN job.nodes :
                IsPython(job.nodes[i].spec) => calls[job.nodes[i].id] = 0
        <4>1. \A i \in DOMAIN job.nodes : job.nodes[i].id \in Nodes
          BY <1>2, NodeTyped
        <4> QED
          BY <2>1, <4>1 DEF FlowInv, AttemptsInv, OneCall
      <3> QED
        BY <1>4, <2>1, <3>1
    <2>3. \A i \in DOMAIN v.nodes : v.nodes[i].id \in Nodes
      BY <1>4, NodeTyped
    <2>4. UNCHANGED <<step, calls, records>>
      BY <1>1 DEF taskVars
    <2>5. \A m \in Nodes : records[m].status # "running"
      BY <2>1 DEF FlowInv, AttemptsInv
    <2> QED
      BY <1>4, <1>5, <2>1, <2>2, <2>3, <2>4, <2>5 DEF AttemptsInv, OneCall
  <1> QED
    BY <1>6, <1>8, <1>9 DEF FlowInv

\* Another workflow with the same tasks takes the place of the job.
LEMMA AttemptsOfSameTasks ==
    ASSUME FlowInv, NEW v \in Workflows, SameTasks(v, job), job' = v,
           phase # "run", UNCHANGED <<step, calls, records>>
    PROVE  AttemptsInv'
  <1>1. job \in Workflows /\ AttemptsInv
    BY DEF FlowInv, TypeOK
  <1>2. DOMAIN v.nodes = DOMAIN job.nodes /\ Ids(v) = Ids(job)
    BY <1>1, SameIds
  <1>3. \A i \in DOMAIN v.nodes : /\ v.nodes[i].id = job.nodes[i].id
                                  /\ IsPython(v.nodes[i].spec) <=> IsPython(job.nodes[i].spec)
    BY DEF SameTasks, IsPython
  <1>4. \A n \in Nodes : step[n] = "none"
    BY <1>1 DEF AttemptsInv
  <1>5. \A i \in DOMAIN job.nodes :
            IsPython(job.nodes[i].spec) => calls[job.nodes[i].id] = 0
    BY <1>1, <1>4, NodeTyped DEF AttemptsInv, OneCall
  <1>6. \A i \in DOMAIN v.nodes : v.nodes[i].id \in Nodes
    BY NodeTyped
  <1>7. \A n \in Nodes : records[n].status # "running" /\ (n \notin Ids(job) => calls[n] = 0)
    BY <1>1, <1>4 DEF AttemptsInv
  <1> QED
    BY <1>2, <1>3, <1>4, <1>5, <1>6, <1>7 DEF AttemptsInv, OneCall

LEMMA SameNodes ==
    ASSUME NEW v, NEW w, v.nodes = w.nodes
    PROVE  /\ Ids(v) = Ids(w)
           /\ SameTasks(v, w)
           /\ FromGiven(v) <=> FromGiven(w)
  BY DEF Ids, SameTasks, FromGiven

LEMMA FlowAddEdge ==
    ASSUME FlowInv, NEW s \in Nodes, NEW t \in Nodes, NEW c \in Conditions, AddEdge(s, t, c)
    PROVE  FlowInv'
  <1>1. /\ phase = "build" /\ CanAddEdge(job, s, t)
        /\ job' = WithEdge(job, s, t, c)
        /\ UNCHANGED <<phase, given, running, place, cwd, main, taskVars, records, log>>
    BY DEF AddEdge
  <1>2. /\ job \in Workflows /\ SoundWorkflow(job) /\ FromGiven(job) /\ log = None
    BY <1>1 DEF FlowInv, TypeOK, WorkflowInv
  <1>3. PICK v : v = WithEdge(job, s, t, c)
    OBVIOUS
  <1>4. v \in Workflows /\ SoundWorkflow(v) /\ v.root = job.root /\ v.nodes = job.nodes
    BY <1>1, <1>2, <1>3, EdgeAdded
  <1>5. job' = v
    BY <1>1, <1>3
  <1>6. TypeOK'
    BY <1>1, <1>4, <1>5 DEF FlowInv, TypeOK, taskVars
  <1>7. FromGiven(v) /\ SameTasks(v, job)
    BY <1>2, <1>4, SameNodes
  <1>8. FromGiven(job)'
    BY <1>1, <1>5, <1>7 DEF FromGiven, Itself, HomeOf
  <1>9. WorkflowInv'
    BY <1>1, <1>2, <1>4, <1>5, <1>8 DEF WorkflowInv
  <1>10. AttemptsInv'
    BY <1>1, <1>4, <1>5, <1>7, AttemptsOfSameTasks DEF taskVars
  <1> QED
    BY <1>6, <1>9, <1>10 DEF FlowInv

LEMMA FlowAddJob ==
    ASSUME FlowInv, NEW written \in BOOLEAN, NEW root \in SchedulerRoots,
           AddJob(written, root)
    PROVE  FlowInv'
  <1>1. /\ phase = "build" /\ phase' = "idle"
        /\ written => HasDict(job)
        /\ job' = IF written THEN Loaded(Inheriting(job, root)) ELSE Inheriting(job, root)
        /\ UNCHANGED <<given, running, place, cwd, main, taskVars, records, log>>
    BY DEF AddJob, Loaded
  <1>2. /\ job \in Workflows /\ SoundWorkflow(job) /\ FromGiven(job)
    BY DEF FlowInv, TypeOK, WorkflowInv
  <1>3. PICK w : w = Inheriting(job, root)
    OBVIOUS
  <1>4. /\ w \in Workflows /\ w.nodes = job.nodes /\ w.edges = job.edges
    <2>1. root \in Roots \cup {None}
      BY PlacesAssumption
    <2> QED
      BY <1>2, <1>3, <2>1 DEF Inheriting, Workflows
  <1>5. /\ Ids(w) = Ids(job) /\ SameTasks(w, job) /\ FromGiven(w)
    BY <1>2, <1>4, SameNodes
  <1>6. Deps(w) = Deps(job)
    BY <1>4 DEF Deps
  <1>7. SoundWorkflow(w)
    BY <1>2, <1>4, <1>5, <1>6 DEF SoundWorkflow
  <1>8. written => HasDict(w)
    BY <1>1, <1>4 DEF HasDict
  <1>9. PICK v : v = IF written THEN Loaded(w) ELSE w
    OBVIOUS
  <1>10. job' = v
    BY <1>1, <1>3, <1>9
  <1>11. v \in Workflows /\ SoundWorkflow(v) /\ FromGiven(v) /\ SameTasks(v, job)
    <2>1. CASE written
      <3>1. /\ v \in Workflows /\ SoundWorkflow(v) /\ SameTasks(v, w)
        BY <1>4, <1>7, <1>8, <1>9, <2>1, LoadedWorkflow
      <3>2. FromGiven(v)
        BY <1>4, <1>5, <1>7, <1>8, <1>9, <2>1, FromGivenLoaded
      <3>3. SameTasks(v, job)
        BY <3>1, <1>4 DEF SameTasks
      <3> QED
        BY <3>1, <3>2, <3>3
    <2>2. CASE ~written
      BY <1>4, <1>5, <1>7, <1>9, <2>2
    <2> QED
      BY <2>1, <2>2
  <1>12. TypeOK'
    BY <1>1, <1>10, <1>11 DEF FlowInv, TypeOK, taskVars
  <1>13. FromGiven(job)'
    BY <1>1, <1>10, <1>11 DEF FromGiven, Itself, HomeOf
  <1>14. log = None
    BY <1>1 DEF FlowInv, WorkflowInv
  <1>15. WorkflowInv'
    BY <1>1, <1>10, <1>11, <1>13, <1>14 DEF WorkflowInv
  <1>16. AttemptsInv'
    BY <1>1, <1>10, <1>11, AttemptsOfSameTasks DEF taskVars
  <1> QED
    BY <1>12, <1>15, <1>16 DEF FlowInv

LEMMA FlowRestart ==
    ASSUME FlowInv, Restart
    PROVE  FlowInv'
  <1>1. /\ phase = "idle"
        /\ \A i \in DOMAIN job.nodes : job.nodes[i].spec.func = None
        /\ cwd' \in Roots
        /\ UNCHANGED <<phase, job, given, running, place, taskVars, records, log>>
    BY DEF Restart
  <1>2. TypeOK'
    BY <1>1 DEF FlowInv, TypeOK, taskVars
  <1>3. WorkflowInv'
    <2>1. FromGiven(job)'
      BY <1>1 DEF FlowInv, WorkflowInv, FromGiven
    <2> QED
      BY <1>1, <2>1 DEF FlowInv, WorkflowInv
  <1>4. AttemptsInv'
    BY <1>1 DEF FlowInv, AttemptsInv, taskVars
  <1> QED
    BY <1>2, <1>3, <1>4 DEF FlowInv

\* Where a run begins, no task has a step.
LEMMA FlowStartRun ==
    ASSUME FlowInv, NEW p \in Processes, NEW w \in Workflows, StartRun(p, w),
           SoundWorkflow(w), w.root = job.root, SameTasks(w, job), FromGiven(w)
    PROVE  FlowInv'
  <1>1. /\ phase = "idle" /\ phase' = "run" /\ place' = p /\ running' = w
        /\ step' = [n \in Nodes |-> "none"]
        /\ tries' = [n \in Nodes |-> 0]
        /\ called' = [n \in Nodes |-> {}]
        /\ why' = [n \in Nodes |-> None]
        /\ records' = [n \in Nodes |-> NewRecord]
        /\ UNCHANGED <<job, given, cwd, main, calls>>
    BY DEF StartRun
  <1>2. TypeOK'
    BY <1>1 DEF FlowInv, TypeOK, Steps, Errors, Records, NewRecord
  <1>3. WorkflowInv'
    <2>1. FromGiven(job)'
      BY <1>1 DEF FlowInv, WorkflowInv, FromGiven, Itself, HomeOf
    <2>2. FromGiven(running)'
      BY <1>1 DEF FromGiven, Itself, HomeOf
    <2> QED
      BY <1>1, <2>1, <2>2 DEF FlowInv, WorkflowInv
  <1>4. AttemptsInv'
    <2>1. \A n \in Nodes : step[n] = "none"
      BY <1>1 DEF FlowInv, AttemptsInv
    <2>2. \A i \in DOMAIN job.nodes : job.nodes[i].id \in Nodes
      BY NodeTyped DEF FlowInv, TypeOK
    <2>3. \A i \in DOMAIN job.nodes :
              IsPython(job.nodes[i].spec) => calls[job.nodes[i].id] = 0
      BY <2>1, <2>2 DEF FlowInv, AttemptsInv, OneCall
    <2>4. \A n \in Nodes : /\ step'[n] = "none" /\ records'[n].status = "pending"
                           /\ n \notin Ids(job) => calls[n] = 0
      BY <1>1 DEF FlowInv, AttemptsInv, NewRecord
    <2> QED
      BY <1>1, <2>2, <2>3, <2>4 DEF AttemptsInv, OneCall
  <1> QED
    BY <1>2, <1>3, <1>4 DEF FlowInv

LEMMA FlowRunInThread ==
    ASSUME FlowInv, RunInThread
    PROVE  FlowInv'
  <1>1. job \in Workflows /\ SoundWorkflow(job) /\ FromGiven(job)
    BY DEF FlowInv, TypeOK, WorkflowInv
  <1>2. SameTasks(job, job)
    BY DEF SameTasks
  <1> QED
    BY <1>1, <1>2, FlowStartRun DEF RunInThread, Processes

LEMMA WorkerCopyIs ==
    ASSUME NEW w \in Workflows
    PROVE  WorkerCopy(w) = Loaded(w)
  <1>1. /\ Loaded(w).root = w.root
        /\ Loaded(w) = [root |-> Loaded(w).root, nodes |-> Loaded(w).nodes,
                        edges |-> Loaded(w).edges]
    BY LoadedIs
  <1>2. WorkerCopy(w) = [Loaded(w) EXCEPT !.root = IF w.root # None THEN w.root ELSE @]
    BY DEF WorkerCopy, Loaded
  <1> QED
    BY <1>1, <1>2

LEMMA FlowRunInWorker ==
    ASSUME FlowInv, RunInWorker
    PROVE  FlowInv'
  <1>1. job \in Workflows /\ SoundWorkflow(job) /\ FromGiven(job) /\ HasDict(job)
    BY DEF FlowInv, TypeOK, WorkflowInv, RunInWorker
  <1>2. /\ Loaded(job) \in Workflows /\ SoundWorkflow(Loaded(job))
        /\ Loaded(job).root = job.root /\ SameTasks(Loaded(job), job)
    BY <1>1, LoadedWorkflow
  <1>3. FromGiven(Loaded(job))
    BY <1>1, FromGivenLoaded
  <1>4. StartRun("worker", Loaded(job))
    BY <1>1, WorkerCopyIs DEF RunInWorker
  <1> QED
    BY <1>2, <1>3, <1>4, FlowStartRun DEF Processes

\* A step of a run that leaves its workflow and its log alone.
LEMMA WorkflowStays ==
    ASSUME FlowInv, phase = "run", UNCHANGED <<phase, placeVars>>
    PROVE  WorkflowInv'
  BY DEF FlowInv, WorkflowInv, placeVars, FromGiven, Itself, HomeOf

LEMMA FlowStartTask ==
    ASSUME FlowInv, NEW n \in Nodes, StartTask(n)
    PROVE  FlowInv'
  <1>1. /\ phase = "run" /\ n \in Ids(running) /\ records[n].status = "pending"
        /\ records' = [records EXCEPT ![n] = MarkStarted(@)]
        /\ step' = [step EXCEPT ![n] = "begin"]
        /\ tries' = [tries EXCEPT ![n] = 1]
        /\ UNCHANGED <<phase, placeVars, calls, called, why>>
    BY DEF StartTask, Pending
  <1>2. TypeOK'
    <2>1. MarkStarted(records[n]) \in Records
      BY DEF FlowInv, TypeOK, Records, MarkStarted
    <2> QED
      BY <1>1, <2>1 DEF FlowInv, TypeOK, placeVars, Steps
  <1>3. WorkflowInv'
    BY <1>1, WorkflowStays
  <1>4. AttemptsInv'
    <2>1. step[n] = "none" /\ records'[n].status = "running" /\ step'[n] = "begin"
      BY <1>1 DEF FlowInv, TypeOK, AttemptsInv, MarkStarted, Records
    <2>2. \A m \in Nodes \ {n} : step'[m] = step[m] /\ records'[m] = records[m]
      BY <1>1 DEF FlowInv, TypeOK
    <2>3. \A i \in DOMAIN job.nodes : job.nodes[i].id \in Nodes
      BY NodeTyped DEF FlowInv, TypeOK
    <2>4. AttemptsInv
      BY DEF FlowInv
    <2> QED
      BY <1>1, <2>1, <2>2, <2>3, <2>4 DEF AttemptsInv, OneCall, placeVars
  <1> QED
    BY <1>2, <1>3, <1>4 DEF FlowInv

LEMMA FlowSkipTask ==
    ASSUME FlowInv, NEW n \in Nodes, SkipTask(n)
    PROVE  FlowInv'
  <1>1. /\ phase = "run" /\ records[n].status = "pending"
        /\ records' = [records EXCEPT ![n] = MarkSkipped(@)]
        /\ UNCHANGED <<phase, placeVars, taskVars>>
    BY DEF SkipTask, Pending
  <1>2. TypeOK'
    <2>1. MarkSkipped(records[n]) \in Records
      BY DEF FlowInv, TypeOK, Records, MarkSkipped
    <2> QED
      BY <1>1, <2>1 DEF FlowInv, TypeOK, placeVars, taskVars
  <1>3. WorkflowInv'
    BY <1>1, WorkflowStays
  <1>4. AttemptsInv'
    <2>1. records'[n].status = "skipped"
      BY <1>1 DEF FlowInv, TypeOK, MarkSkipped, Records
    <2>2. \A m \in Nodes \ {n} : records'[m] = records[m]
      BY <1>1 DEF FlowInv, TypeOK
    <2>3. AttemptsInv
      BY DEF FlowInv
    <2> QED
      BY <1>1, <2>1, <2>2, <2>3 DEF AttemptsInv, placeVars, taskVars
  <1> QED
    BY <1>2, <1>3, <1>4 DEF FlowInv

LEMMA FlowApplyResult ==
    ASSUME FlowInv, NEW n \in Nodes, ApplyResult(n)
    PROVE  FlowInv'
  <1>1. /\ phase = "run" /\ step[n] \in {"ok", "failed"}
        /\ step' = [step EXCEPT ![n] = "none"]
        /\ records' = [records EXCEPT ![n] = IF step[n] = "ok" THEN MarkSucceeded(@)
                                             ELSE MarkFailed(@, why[n])]
        /\ UNCHANGED <<phase, placeVars, tries, calls, called, why>>
    BY DEF ApplyResult
  <1>2. /\ records' \in [Nodes -> Records]
        /\ records'[n].status \in {"succeeded", "failed"}
    <2>1. PICK r : r = IF step[n] = "ok" THEN MarkSucceeded(records[n])
                       ELSE MarkFailed(records[n], why[n])
      OBVIOUS
    <2>2. records[n] \in Records /\ why[n] \in Errors
      BY DEF FlowInv, TypeOK
    <2>3. r \in Records /\ r.status \in {"succeeded", "failed"}
      BY <2>1, <2>2 DEF Records, MarkSucceeded, MarkFailed
    <2> QED
      BY <1>1, <2>1, <2>3 DEF FlowInv, TypeOK
  <1>3. TypeOK'
    BY <1>1, <1>2 DEF FlowInv, TypeOK, placeVars, Steps
  <1>4. WorkflowInv'
    BY <1>1, WorkflowStays
  <1>5. AttemptsInv'
    <2>1. step'[n] = "none"
      BY <1>1 DEF FlowInv, TypeOK
    <2>2. \A m \in Nodes \ {n} : step'[m] = step[m] /\ records'[m] = records[m]
      BY <1>1 DEF FlowInv, TypeOK
    <2>3. \A i \in DOMAIN job.nodes : job.nodes[i].id \in Nodes
      BY NodeTyped DEF FlowInv, TypeOK
    <2>4. AttemptsInv
      BY DEF FlowInv
    <2> QED
      BY <1>1, <1>2, <2>1, <2>2, <2>3, <2>4 DEF AttemptsInv, OneCall, placeVars
  <1> QED
    BY <1>3, <1>4, <1>5 DEF FlowInv

\* What a worker recorded comes back as it was.
LEMMA LogSaved ==
    ASSUME NEW rs \in [Nodes -> Records]
    PROVE  LogFromDict(LogToDict(rs)) = rs
  <1>1. ASSUME NEW r \in Records
        PROVE  RecordFromDict(RecordToDict(r)) = r
    <2>1. r = [status |-> r.status, error |-> r.error, skipped |-> r.skipped,
               start |-> r.start, end |-> r.end]
      BY DEF Records
    <2>2. r.skipped \in BOOLEAN /\ r.start \in BOOLEAN /\ r.end \in BOOLEAN
      BY DEF Records
    <2>3. "reason" # None /\ "iso" # None
      BY NoneIsNothing
    <2>4. RecordFromDict(RecordToDict(r)) =
              [status |-> r.status, error |-> r.error,
               skipped |-> (IF r.skipped THEN "reason" ELSE None) # None,
               start |-> (IF r.start THEN "iso" ELSE None) # None,
               end |-> (IF r.end THEN "iso" ELSE None) # None]
      BY DEF RecordFromDict, RecordToDict
    <2>5. /\ ((IF r.skipped THEN "reason" ELSE None) # None) = r.skipped
          /\ ((IF r.start THEN "iso" ELSE None) # None) = r.start
          /\ ((IF r.end THEN "iso" ELSE None) # None) = r.end
      BY <2>2, <2>3
    <2> QED
      BY <2>1, <2>4, <2>5, Zenon
  <1>2. LogToDict(rs) = [n \in Nodes |-> RecordToDict(rs[n])]
    BY DEF LogToDict
  <1>3. LogFromDict(LogToDict(rs)) = [n \in Nodes |-> RecordFromDict(RecordToDict(rs[n]))]
    BY <1>2 DEF LogFromDict
  <1> QED
    BY <1>1, <1>3

LEMMA FlowFinish ==
    ASSUME FlowInv, Finish
    PROVE  FlowInv'
  <1>1. /\ phase = "run" /\ phase' = "idle"
        /\ \A n \in Ids(running) : Settled(n)
        /\ log' = IF place = "worker" THEN LogFromDict(LogToDict(records)) ELSE records
        /\ UNCHANGED <<placeVars, taskVars, records>>
    BY DEF Finish
  <1>2. records \in [Nodes -> Records]
    BY DEF FlowInv, TypeOK
  <1>3. log' = records'
    BY <1>1, <1>2, LogSaved
  <1>4. TypeOK'
    BY <1>1 DEF FlowInv, TypeOK, placeVars, taskVars
  <1>5. WorkflowInv'
    BY <1>1, <1>3 DEF FlowInv, WorkflowInv, placeVars, FromGiven, Itself, HomeOf
  <1>6. AttemptsInv'
    <2>1. \A n \in Nodes : step[n] = "none"
      BY <1>1 DEF FlowInv, AttemptsInv, Settled
    <2> QED
      BY <1>1, <2>1 DEF FlowInv, AttemptsInv, placeVars, taskVars
  <1> QED
    BY <1>4, <1>5, <1>6 DEF FlowInv

\* What the runners and the user's code may do with a task: its step becomes x
\* and k of its calls are under way.
Moved(n, x, k) ==
    /\ step' = [step EXCEPT ![n] = x]
    /\ calls' = [calls EXCEPT ![n] = k]
    /\ tries' \in [Nodes -> Nat]
    /\ why' \in [Nodes -> Errors]
    /\ DOMAIN called' = Nodes
    /\ UNCHANGED <<phase, placeVars, records, log>>

Resolving == {"begin", "load", "import"}

MayMove(n, x, k) ==
    \/ step[n] \in Resolving /\ x \in Resolving \cup {"failed"} /\ k = calls[n]
    \/ step[n] \in Resolving /\ x = "call" /\ k = calls[n] + 1
    \/ step[n] = "call" /\ x \in {"ok", "begin", "failed"} /\ k = calls[n] - 1
    \/ step[n] = "call" /\ ~IsPython(SpecOf(n)) /\ x \in {"begin", "failed"} /\ k = calls[n]
    \/ step[n] = "call" /\ x = "late" /\ k = calls[n]
    \/ step[n] = "late" /\ calls[n] = 0 /\ x \in {"begin", "failed"} /\ k = 0
    \/ /\ calls[n] > 0 /\ (step[n] = "call" => calls[n] > 1)
       /\ x = step[n] /\ k = calls[n] - 1

LEMMA FailMoves ==
    ASSUME TypeOK, NEW n \in Nodes, NEW e \in Errors, Fail(n, e)
    PROVE  /\ \E x \in {"begin", "failed"} : step' = [step EXCEPT ![n] = x]
           /\ tries' \in [Nodes -> Nat]
           /\ why' \in [Nodes -> Errors]
  <1>1. tries \in [Nodes -> Nat] /\ why \in [Nodes -> Errors]
    BY DEF TypeOK
  <1>2. why' \in [Nodes -> Errors]
    BY <1>1 DEF Fail
  <1>3. CASE tries[n] < NodeOf(running, n).retries
    BY <1>1, <1>2, <1>3 DEF Fail
  <1>4. CASE ~(tries[n] < NodeOf(running, n).retries)
    BY <1>1, <1>2, <1>4 DEF Fail
  <1> QED
    BY <1>3, <1>4

LEMMA MissingMoves ==
    ASSUME TypeOK, NEW n \in Nodes, NEW e \in Errors, Missing(n, e), Unchanged,
           step[n] \in Resolving
    PROVE  \E x \in Steps, k \in Nat : Moved(n, x, k) /\ MayMove(n, x, k)
  <1>1. PICK x \in {"begin", "failed"} : step' = [step EXCEPT ![n] = x]
    BY FailMoves DEF Missing
  <1>2. /\ tries' \in [Nodes -> Nat] /\ why' \in [Nodes -> Errors]
        /\ UNCHANGED <<calls, called>>
    BY FailMoves DEF Missing
  <1>3. /\ calls[n] \in Nat /\ calls' = [calls EXCEPT ![n] = calls[n]]
        /\ DOMAIN called' = Nodes
    BY <1>2 DEF TypeOK
  <1>4. Moved(n, x, calls[n])
    BY <1>1, <1>2, <1>3 DEF Moved, Unchanged
  <1>5. MayMove(n, x, calls[n])
    BY DEF MayMove, Resolving
  <1> QED
    BY <1>3, <1>4, <1>5 DEF Steps

LEMMA CallMoves ==
    ASSUME TypeOK, NEW n \in Nodes, NEW f, Call(n, f), Unchanged, step[n] \in Resolving
    PROVE  \E x \in Steps, k \in Nat : Moved(n, x, k) /\ MayMove(n, x, k)
  <1>1. /\ step' = [step EXCEPT ![n] = "call"]
        /\ calls' = [calls EXCEPT ![n] = calls[n] + 1]
        /\ called' = [called EXCEPT ![n] = @ \cup {f}]
        /\ UNCHANGED <<tries, why>>
    BY DEF Call
  <1>2. Moved(n, "call", calls[n] + 1)
    BY <1>1 DEF Moved, Unchanged, TypeOK
  <1>3. MayMove(n, "call", calls[n] + 1)
    BY DEF MayMove
  <1>4. calls[n] + 1 \in Nat
    BY DEF TypeOK
  <1> QED
    BY <1>2, <1>3, <1>4 DEF Steps

LEMMA GetAttrMoves ==
    ASSUME TypeOK, NEW n \in Nodes, NEW f, NEW whole, GetAttr(n, f, whole), Unchanged,
           step[n] \in Resolving
    PROVE  \E x \in Steps, k \in Nat : Moved(n, x, k) /\ MayMove(n, x, k)
  <1>1. Call(n, [file |-> f, kind |-> SpecOf(n).ref.name]) \/ Missing(n, "unresolved")
    BY DEF GetAttr
  <1>2. "unresolved" \in Errors
    BY DEF Errors
  <1> QED
    BY <1>1, <1>2, CallMoves, MissingMoves

LEMMA EndsMoves ==
    ASSUME FlowInv, NEW n \in Nodes, NEW good \in BOOLEAN, step[n] = "call", Ends(n, good)
    PROVE  \E x \in Steps, k \in Nat : Moved(n, x, k) /\ MayMove(n, x, k)
  <1>1. /\ calls' = [calls EXCEPT ![n] = calls[n] - 1]
        /\ Unchanged
        /\ UNCHANGED called
    BY DEF Ends
  <1>2. calls[n] - 1 \in Nat
    BY DEF FlowInv, TypeOK, AttemptsInv
  <1>3. PICK x \in {"ok", "begin", "failed"} :
            /\ step' = [step EXCEPT ![n] = x]
            /\ tries' \in [Nodes -> Nat]
            /\ why' \in [Nodes -> Errors]
    <2>1. CASE good
      BY <2>1 DEF Ends, FlowInv, TypeOK
    <2>2. CASE ~good
      <3>1. Fail(n, "raised") /\ "raised" \in Errors /\ TypeOK
        BY <2>2 DEF Ends, Errors, FlowInv
      <3> QED
        BY <3>1, FailMoves
    <2> QED
      BY <2>1, <2>2
  <1>4. Moved(n, x, calls[n] - 1)
    BY <1>1, <1>3 DEF Moved, Unchanged, FlowInv, TypeOK
  <1>5. MayMove(n, x, calls[n] - 1)
    BY DEF MayMove
  <1> QED
    BY <1>2, <1>4, <1>5 DEF Steps

LEMMA CommandExpiresMoves ==
    ASSUME FlowInv, NEW n \in Nodes, CommandExpires(n)
    PROVE  \E x \in Steps, k \in Nat : Moved(n, x, k) /\ MayMove(n, x, k)
  <1>1. /\ step[n] = "call" /\ ~IsPython(SpecOf(n))
        /\ calls' \in {calls, [calls EXCEPT ![n] = calls[n] - 1]}
        /\ Fail(n, "timeout")
        /\ Unchanged
        /\ UNCHANGED called
    BY DEF CommandExpires, Calling
  <1>2. calls[n] \in Nat /\ calls[n] - 1 \in Nat /\ calls \in [Nodes -> Nat]
    BY <1>1 DEF FlowInv, TypeOK, AttemptsInv
  <1>3. PICK k \in {calls[n], calls[n] - 1} : calls' = [calls EXCEPT ![n] = k]
    <2>1. calls = [calls EXCEPT ![n] = calls[n]]
      BY <1>2
    <2> QED
      BY <1>1, <2>1
  <1>4. TypeOK /\ "timeout" \in Errors
    BY DEF Errors, FlowInv
  <1>5. /\ \E x \in {"begin", "failed"} : step' = [step EXCEPT ![n] = x]
        /\ tries' \in [Nodes -> Nat]
        /\ why' \in [Nodes -> Errors]
    BY <1>1, <1>4, FailMoves
  <1>6. PICK x \in {"begin", "failed"} : step' = [step EXCEPT ![n] = x]
    BY <1>5
  <1>7. Moved(n, x, k)
    BY <1>1, <1>3, <1>5, <1>6 DEF Moved, Unchanged, FlowInv, TypeOK
  <1>8. MayMove(n, x, k)
    BY <1>1, <1>3 DEF MayMove
  <1> QED
    BY <1>2, <1>3, <1>7, <1>8 DEF Steps

LEMMA CallTimedOutMoves ==
    ASSUME FlowInv, NEW n \in Nodes, CallTimedOut(n)
    PROVE  \E x \in Steps, k \in Nat : Moved(n, x, k) /\ MayMove(n, x, k)
  <1>1. /\ step[n] = "late" /\ calls[n] = 0
        /\ Fail(n, "timeout")
        /\ Unchanged
        /\ UNCHANGED <<calls, called>>
    BY DEF CallTimedOut, PoolIdle
  <1>2. TypeOK /\ "timeout" \in Errors
    BY DEF Errors, FlowInv
  <1>3. /\ \E x \in {"begin", "failed"} : step' = [step EXCEPT ![n] = x]
        /\ tries' \in [Nodes -> Nat]
        /\ why' \in [Nodes -> Errors]
    BY <1>1, <1>2, FailMoves
  <1>4. PICK x \in {"begin", "failed"} : step' = [step EXCEPT ![n] = x]
    BY <1>3
  <1>5. calls' = [calls EXCEPT ![n] = 0]
    BY <1>1, <1>2 DEF TypeOK
  <1>6. Moved(n, x, 0)
    BY <1>1, <1>2, <1>3, <1>4, <1>5 DEF Moved, Unchanged, TypeOK
  <1>7. MayMove(n, x, 0)
    BY <1>1 DEF MayMove
  <1> QED
    BY <1>6, <1>7 DEF Steps

\* Steps that change the step of a task or its calls and nothing else of it.
LEMMA PlainMoves ==
    ASSUME FlowInv, NEW n \in Nodes,
           LoadFile(n) \/ ImportModule(n) \/ CallExpires(n) \/ LateEnd(n)
    PROVE  \E x \in Steps, k \in Nat : Moved(n, x, k) /\ MayMove(n, x, k)
  <1>1. TypeOK
    BY DEF FlowInv
  <1>2. calls = [calls EXCEPT ![n] = calls[n]] /\ calls[n] \in Nat
    BY <1>1 DEF TypeOK
  <1>3. CASE LoadFile(n)
    <2>1. /\ step[n] = "begin" /\ step' = [step EXCEPT ![n] = "load"]
          /\ Unchanged /\ UNCHANGED <<tries, calls, called, why>>
      BY <1>3 DEF LoadFile, BeginsReference, Begins
    <2>2. Moved(n, "load", calls[n])
      BY <1>1, <1>2, <2>1 DEF Moved, Unchanged, TypeOK
    <2>3. MayMove(n, "load", calls[n])
      BY <2>1 DEF MayMove, Resolving
    <2> QED
      BY <1>2, <2>2, <2>3 DEF Steps
  <1>4. CASE ImportModule(n)
    <2>1. /\ step[n] = "begin" /\ step' = [step EXCEPT ![n] = "import"]
          /\ Unchanged /\ UNCHANGED <<tries, calls, called, why>>
      BY <1>4 DEF ImportModule, Imports, BeginsReference, Begins
    <2>2. Moved(n, "import", calls[n])
      BY <1>1, <1>2, <2>1 DEF Moved, Unchanged, TypeOK
    <2>3. MayMove(n, "import", calls[n])
      BY <2>1 DEF MayMove, Resolving
    <2> QED
      BY <1>2, <2>2, <2>3 DEF Steps
  <1>5. CASE CallExpires(n)
    <2>1. /\ step[n] = "call" /\ step' = [step EXCEPT ![n] = "late"]
          /\ Unchanged /\ UNCHANGED <<tries, calls, called, why>>
      BY <1>5 DEF CallExpires, Calling
    <2>2. Moved(n, "late", calls[n])
      BY <1>1, <1>2, <2>1 DEF Moved, Unchanged, TypeOK
    <2>3. MayMove(n, "late", calls[n])
      BY <2>1 DEF MayMove
    <2> QED
      BY <1>2, <2>2, <2>3 DEF Steps
  <1>6. CASE LateEnd(n)
    <2>1. /\ calls[n] > 0 /\ (step[n] = "call" => calls[n] > 1)
          /\ calls' = [calls EXCEPT ![n] = calls[n] - 1]
          /\ Unchanged /\ UNCHANGED <<step, tries, called, why>>
      BY <1>6 DEF LateEnd
    <2>2. step[n] \in Steps /\ step' = [step EXCEPT ![n] = step[n]]
      BY <1>1, <2>1 DEF TypeOK
    <2>3. Moved(n, step[n], calls[n] - 1)
      BY <1>1, <2>1, <2>2 DEF Moved, Unchanged, TypeOK
    <2>4. MayMove(n, step[n], calls[n] - 1)
      BY <2>1 DEF MayMove
    <2>5. calls[n] - 1 \in Nat
      BY <1>2, <2>1
    <2> QED
      BY <2>2, <2>3, <2>4, <2>5
  <1> QED
    BY <1>3, <1>4, <1>5, <1>6

LEMMA TasksMove ==
    ASSUME FlowInv, NEW n \in Nodes, Runner(n) \/ UserCode(n)
    PROVE  \E x \in Steps, k \in Nat : Moved(n, x, k) /\ MayMove(n, x, k)
  <1>1. TypeOK
    BY DEF FlowInv
  <1>2. CASE CallObject(n)
    BY <1>1, <1>2, CallMoves DEF CallObject, Begins, Resolving
  <1>3. CASE FileLoaded(n)
    BY <1>1, <1>3, GetAttrMoves DEF FileLoaded, Resolving
  <1>4. CASE FromMain(n)
    BY <1>1, <1>4, GetAttrMoves DEF FromMain, BeginsReference, Begins, Resolving
  <1>5. CASE TakeModule(n)
    BY <1>1, <1>5, GetAttrMoves DEF TakeModule, Imports, BeginsReference, Begins, Resolving
  <1>6. CASE ModuleImported(n)
    BY <1>1, <1>6, GetAttrMoves DEF ModuleImported, Resolving
  <1>7. CASE NoModule(n)
    BY <1>1, <1>7, MissingMoves
    DEF NoModule, Imports, BeginsReference, Begins, Resolving, Errors
  <1>8. CASE RunCommand(n)
    BY <1>1, <1>8, CallMoves DEF RunCommand, Begins, Resolving
  <1>9. CASE NoShell(n)
    BY <1>1, <1>9, MissingMoves DEF NoShell, Begins, Resolving, Errors
  <1>10. CASE FileRaises(n)
    BY <1>1, <1>10, MissingMoves DEF FileRaises, Resolving, Errors
  <1>11. CASE ImportRaises(n)
    BY <1>1, <1>11, MissingMoves DEF ImportRaises, Resolving, Errors
  <1>12. CASE CallReturns(n)
    BY <1>12, EndsMoves DEF CallReturns, Calling
  <1>13. CASE CommandExits(n)
    BY <1>13, EndsMoves DEF CommandExits, Calling
  <1>14. CASE CommandExpires(n)
    BY <1>14, CommandExpiresMoves
  <1>15. CASE CallTimedOut(n)
    BY <1>15, CallTimedOutMoves
  <1>16. CASE LoadFile(n) \/ ImportModule(n) \/ CallExpires(n) \/ LateEnd(n)
    BY <1>16, PlainMoves
  <1> QED
    BY <1>2, <1>3, <1>4, <1>5, <1>6, <1>7, <1>8, <1>9, <1>10, <1>11, <1>12, <1>13,
       <1>14, <1>15, <1>16 DEF Runner, Resolution, UserCode

LEMMA FlowMoved ==
    ASSUME FlowInv, NEW n \in Nodes, NEW x \in Steps, NEW k \in Nat,
           Moved(n, x, k), MayMove(n, x, k)
    PROVE  FlowInv'
  <1>1. TypeOK /\ AttemptsInv
    BY DEF FlowInv
  <1>2. TypeOK'
    BY <1>1 DEF TypeOK, Moved, placeVars
  <1>3. WorkflowInv'
    <2>1. CASE phase = "run"
      BY <2>1, WorkflowStays DEF Moved
    <2>2. CASE phase # "run"
      BY <2>2 DEF FlowInv, WorkflowInv, Moved, placeVars, FromGiven, Itself, HomeOf
    <2> QED
      BY <2>1, <2>2
  <1>4. /\ step'[n] = x /\ calls'[n] = k
        /\ \A m \in Nodes \ {n} : step'[m] = step[m] /\ calls'[m] = calls[m]
    BY <1>1 DEF TypeOK, Moved
  <1>5. /\ x = "none" <=> step[n] = "none"
        /\ x = "call" => k > 0
        /\ calls[n] \in Nat
    BY <1>1 DEF MayMove, Resolving, TypeOK
  <1>6. AttemptsInv'
    <2>1. \A m \in Nodes :
              /\ step'[m] # "none" => phase = "run" /\ m \in Ids(running)
              /\ step'[m] = "none" <=> records[m].status # "running"
              /\ step'[m] = "call" => calls'[m] > 0
      BY <1>1, <1>4, <1>5 DEF AttemptsInv
    <2>2. phase = "run" => Ids(running) = Ids(job)
      BY <1>1, SameIds DEF FlowInv, WorkflowInv, TypeOK
    <2>3. n \notin Ids(job) => k = 0
      <3>1. n \notin Ids(job) => step[n] = "none" /\ calls[n] = 0
        BY <1>1, <2>2 DEF AttemptsInv
      <3> QED
        BY <3>1 DEF MayMove, Resolving
    <2>4. ASSUME NEW i \in DOMAIN job.nodes, IsPython(job.nodes[i].spec)
          PROVE  LET m == job.nodes[i].id IN
                 OneCall(step'[m], calls'[m])
      <3> DEFINE m == job.nodes[i].id
      <3>1. m \in Nodes
        BY <1>1, NodeTyped DEF TypeOK
      <3>2. OneCall(step[m], calls[m])
        BY <1>1, <2>4 DEF AttemptsInv
      <3>3. CASE m # n
        BY <1>4, <3>1, <3>2, <3>3
      <3>4. CASE m = n
        <4>1. step[n] # "none" => IsPython(SpecOf(n))
          <5>1. step[n] # "none" => phase = "run"
            BY <1>1 DEF AttemptsInv
          <5>2. phase = "run" => IsPython(SpecOf(n))
            BY <1>1, <2>4, <3>4, SameNode DEF FlowInv, WorkflowInv, TypeOK, SpecOf
          <5> QED
            BY <5>1, <5>2
        <4> HIDE DEF m
        <4>2. OneCall(step[n], calls[n])
          BY <3>2, <3>4
        <4>3. OneCall(x, k)
          BY <1>5, <4>1, <4>2 DEF MayMove, Resolving, OneCall
        <4> QED
          BY <1>4, <3>4, <4>3 DEF m
      <3> QED
        BY <3>3, <3>4
    <2> QED
      BY <1>4, <2>1, <2>3, <2>4, <1>1 DEF AttemptsInv, Moved, placeVars
  <1> QED
    BY <1>2, <1>3, <1>6 DEF FlowInv

LEMMA FlowStep == FlowInv /\ [Next]_vars => FlowInv'
  <1> SUFFICES ASSUME FlowInv, [Next]_vars
               PROVE  FlowInv'
    OBVIOUS
  <1>1. ASSUME NEW n \in Nodes, NEW a \in TaskChoices[n], AddTask(n, a)
        PROVE  FlowInv'
    BY <1>1, FlowAddTask
  <1>2. ASSUME NEW s \in Nodes, NEW t \in Nodes, NEW c \in Conditions, AddEdge(s, t, c)
        PROVE  FlowInv'
    BY <1>2, FlowAddEdge
  <1>3. ASSUME NEW written \in BOOLEAN, NEW root \in SchedulerRoots, AddJob(written, root)
        PROVE  FlowInv'
    BY <1>3, FlowAddJob
  <1>4. CASE Restart \/ RunInThread \/ RunInWorker \/ Finish
    BY <1>4, FlowRestart, FlowRunInThread, FlowRunInWorker, FlowFinish
  <1>5. ASSUME NEW n \in Nodes, Engine(n)
        PROVE  FlowInv'
    BY <1>5, FlowStartTask, FlowSkipTask, FlowApplyResult DEF Engine
  <1>6. ASSUME NEW n \in Nodes, Runner(n) \/ UserCode(n)
        PROVE  FlowInv'
    BY <1>6, TasksMove, FlowMoved
  <1>7. CASE UNCHANGED vars
    <2>1. UNCHANGED <<phase, placeVars, taskVars, records, log>>
      BY <1>7 DEF vars, placeVars, taskVars
    <2>2. TypeOK'
      BY <2>1 DEF FlowInv, TypeOK, placeVars, taskVars
    <2>3. WorkflowInv'
      BY <2>1 DEF FlowInv, WorkflowInv, FromGiven, Itself, HomeOf, placeVars
    <2>4. AttemptsInv'
      BY <2>1 DEF FlowInv, AttemptsInv, placeVars, taskVars
    <2> QED
      BY <2>2, <2>3, <2>4 DEF FlowInv
  <1> QED
    BY <1>1, <1>2, <1>3, <1>4, <1>5, <1>6, <1>7 DEF Next

LEMMA FlowAlways == Spec => []FlowInv
  BY InitFlow, FlowStep, PTL DEF Spec

(***************************************************************************)
(* add_task, add_edge, add_job and the stores keep the ids of tasks        *)
(* distinct and the edges acyclic; what runs has the tasks of the job, and *)
(* each with the function it was given; calls of a function are counted by *)
(* its one step.                                                           *)
(***************************************************************************)
THEOREM AttemptsInvariant == Spec => [](TypeOK /\ WorkflowInv /\ AttemptsInv)
  BY FlowAlways, PTL DEF FlowInv

(***************************************************************************)
(* A function that is over time is not abandoned: PythonCallableRunner     *)
(* leaves the pool of _invoke when the call has ended, so that attempts of *)
(* a node, and the settling of it, do not overlap with a call of it.       *)
(***************************************************************************)
THEOREM AttemptsApartHolds == Spec => []AttemptsApart
  <1>1. FlowInv => AttemptsApart
    <2> SUFFICES ASSUME FlowInv, phase = "run", NEW n \in Ids(running),
                        IsPython(SpecOf(n))
                 PROVE  calls[n] <= 1 /\ (Settled(n) => calls[n] = 0)
      BY DEF AttemptsApart
    <2>1. /\ job \in Workflows /\ running \in Workflows
          /\ SoundWorkflow(job) /\ SoundWorkflow(running) /\ SameTasks(running, job)
      BY DEF FlowInv, TypeOK, WorkflowInv
    <2>2. PICK i \in DOMAIN running.nodes : running.nodes[i].id = n
      BY DEF Ids
    <2>3. /\ i \in DOMAIN job.nodes /\ job.nodes[i].id = n
          /\ IsPython(job.nodes[i].spec)
      BY <2>1, <2>2, SameIds, SameNode DEF SpecOf, SameTasks
    <2>4. n \in Nodes
      BY <2>1, <2>2, NodeTyped
    <2>5. OneCall(step[n], calls[n])
      BY <2>3 DEF FlowInv, AttemptsInv
    <2>6. calls[n] <= 1
      BY <2>5 DEF OneCall
    <2>7. Settled(n) => step[n] = "none"
      BY <2>4 DEF FlowInv, AttemptsInv, Settled
    <2>8. Settled(n) => calls[n] = 0
      BY <2>5, <2>7 DEF OneCall
    <2> QED
      BY <2>6, <2>8
  <1> QED
    BY <1>1, FlowAlways, PTL

(***************************************************************************)
(* A workflow whose callables have references loads from its document      *)
(* without an error, with its tasks, functions and edges, and is saved as  *)
(* the same document again; the log a worker sends back is what the worker *)
(* recorded.  For workflows of any size: to_dict, from_dict.               *)
(***************************************************************************)
THEOREM SurvivesSavingHolds == Spec => []SurvivesSaving
  <1>1. ASSUME FlowInv, HasDict(job)
        PROVE  LET d == ToDict(job)
                   w == FromDict(d)
               IN  /\ Loads(d)
                   /\ ToDict(w) = d
                   /\ w.root = job.root
                   /\ Deps(w) = Deps(job)
                   /\ \A i \in DOMAIN job.nodes :
                          /\ w.nodes[i].id = job.nodes[i].id
                          /\ w.nodes[i].retries = job.nodes[i].retries
                          /\ Kept(w.nodes[i].spec) = Kept(job.nodes[i].spec)
    <2> DEFINE w == Loaded(job)
    <2>1. job \in Workflows /\ SoundWorkflow(job)
      BY <1>1 DEF FlowInv, TypeOK, WorkflowInv
    <2>2. Loads(ToDict(job))
      BY <1>1, <2>1, DocumentLoads
    <2>3. /\ ToDict(w) = ToDict(job) /\ w.root = job.root /\ Deps(w) = Deps(job)
          /\ \A i \in DOMAIN job.nodes :
                 /\ w.nodes[i].id = job.nodes[i].id
                 /\ w.nodes[i].retries = job.nodes[i].retries
                 /\ w.nodes[i].spec = SpecFromDict(SpecToDict(job.nodes[i].spec))
      BY <1>1, <2>1, LoadedWorkflow
    <2>4. ASSUME NEW i \in DOMAIN job.nodes
          PROVE  Kept(SpecFromDict(SpecToDict(job.nodes[i].spec))) = Kept(job.nodes[i].spec)
      <3> DEFINE s == job.nodes[i].spec
                 r == SpecFromDict(SpecToDict(s))
      <3>1. s \in Specs /\ SoundSpec(s) /\ SpecHasDict(s)
        BY <1>1, <2>1, NodeTyped DEF SoundWorkflow, HasDict
      <3>2. /\ SpecToDict(s).text = IF IsPython(s) THEN None ELSE s.text
            /\ IsPython(s) <=> SpecToDict(s).ref # None
            /\ r = [type |-> s.type, ref |-> SpecToDict(s).ref, func |-> None,
                    text |-> SpecToDict(s).text, timeout |-> s.timeout]
            /\ SpecToDict(r) = SpecToDict(s)
        BY <3>1, SpecSaved, LoadedSpecSound
      <3>3. s = [type |-> s.type, ref |-> s.ref, func |-> s.func,
                 text |-> s.text, timeout |-> s.timeout]
        BY <3>1 DEF Specs
      <3> HIDE DEF s, r
      <3>4. IsPython(r) <=> IsPython(s)
        BY <3>2 DEF IsPython
      <3>5. CASE IsPython(s)
        BY <3>2, <3>4, <3>5 DEF Kept, r, s
      <3>6. CASE ~IsPython(s)
        <4>1. s.func = None /\ s.ref = None
          BY <3>1, <3>6 DEF SoundSpec
        <4>2. r = s
          BY <3>2, <3>3, <3>6, <4>1
        <4> QED
          BY <4>2 DEF r, s
      <3> QED
        BY <3>5, <3>6
    <2> HIDE DEF w
    <2>5. w = FromDict(ToDict(job))
      BY DEF w, Loaded
    <2> QED
      BY <2>2, <2>3, <2>4, <2>5
  <1>2. FlowInv => SurvivesSaving
    BY <1>1 DEF SurvivesSaving, FlowInv, WorkflowInv
  <1> QED
    BY <1>2, FlowAlways, PTL

-----------------------------------------------------------------------------
(* Modules: what a name stands for.                                        *)

ModulesInv == ModulesClean /\ LoadInv /\ ImportInv

CalledInv == RightFunction /\ UnresolvedIsMissing

\* A task that has a step is one of those that run, and its references name
\* modules that may have files below the root.
LEMMA RunningTask ==
    ASSUME FlowInv, NEW n \in Nodes, step[n] # "none"
    PROVE  /\ phase = "run"
           /\ n \in Ids(running)
           /\ Root = JobRoot
           /\ SpecOf(n) \in Specs /\ SoundSpec(SpecOf(n))
           /\ SpecOf(n).func # None => given[n] = {Itself(SpecOf(n).func)}
           /\ SpecOf(n).ref # None =>
                 /\ IsPython(SpecOf(n))
                 /\ SpecOf(n).ref \in References
                 /\ SpecOf(n).ref.module \in DOMAIN FileAt[Root]
                 /\ NameTaken(n) <=> LoadedAs(SpecOf(n).ref.module)
                 /\ \/ given[n] = {}
                    \/ SpecOf(n).ref.name \in {"unbound method", "class"}
                    \/ SpecOf(n).ref.module = "__main__"
                    \/ given[n] = {[file |-> OnPath[SpecOf(n).ref.module],
                                    kind |-> SpecOf(n).ref.name]}
  <1>1. phase = "run" /\ n \in Ids(running)
    BY DEF FlowInv, AttemptsInv
  <1>2. /\ job \in Workflows /\ running \in Workflows /\ cwd \in Roots
        /\ SoundWorkflow(running) /\ FromGiven(running) /\ running.root = job.root
    BY <1>1 DEF FlowInv, TypeOK, WorkflowInv
  <1>3. Root = JobRoot
    BY <1>2 DEF Root, JobRoot
  <1>4. Root \in Roots
    BY <1>2 DEF Root, Workflows
  <1>5. PICK i \in DOMAIN running.nodes : running.nodes[i].id = n
    BY <1>1 DEF Ids
  <1>6. SpecOf(n) = running.nodes[i].spec
    BY <1>2, <1>5, NodeOfIndex DEF SpecOf
  <1>7. SpecOf(n) \in Specs /\ SoundSpec(SpecOf(n))
    BY <1>2, <1>6, NodeTyped DEF SoundWorkflow
  <1>8. SpecOf(n).ref # None =>
            /\ IsPython(SpecOf(n))
            /\ SpecOf(n).ref \in References
            /\ SpecOf(n).ref.module \in DOMAIN FileAt[Root]
    <2>1. SpecOf(n).ref \in References \cup {None}
      BY <1>7 DEF Specs
    <2>2. SpecOf(n).ref # None => IsPython(SpecOf(n))
      BY <1>7 DEF SoundSpec
    <2> QED
      BY <1>4, <2>1, <2>2, PlacesAssumption
  <1>9. NameTaken(n) <=> LoadedAs(SpecOf(n).ref.module)
    BY <1>3 DEF NameTaken, LoadedAs
  <1>10. /\ SpecOf(n).func # None => given[n] = {Itself(SpecOf(n).func)}
         /\ SpecOf(n).ref # None =>
               \/ given[n] = {}
               \/ SpecOf(n).ref.name \in {"unbound method", "class"}
               \/ SpecOf(n).ref.module = "__main__"
               \/ given[n] = {[file |-> OnPath[SpecOf(n).ref.module],
                               kind |-> SpecOf(n).ref.name]}
    BY <1>2, <1>5, <1>6 DEF FromGiven
  <1> QED
    BY <1>1, <1>3, <1>7, <1>8, <1>9, <1>10

\* A step after which no other task loads or imports a module, and that leaves
\* the modules as they are.
LEMMA ModulesStay ==
    ASSUME ModulesInv,
           UNCHANGED <<job, running, place, cwd, modules>>,
           phase # "build" => phase' # "build",
           \A n \in Nodes : step'[n] \in {"load", "import"} => step'[n] = step[n]
    PROVE  ModulesInv'
  <1>1. \A m : LoadedAs(m)' <=> LoadedAs(m)
    BY DEF LoadedAs, JobRoot
  <1>2. \A n : SpecOf(n)' = SpecOf(n) /\ FileOf(n)' = FileOf(n)
    BY DEF SpecOf, FileOf, Root
  <1>3. \A m : Entry(m)' = Entry(m)
    BY DEF Entry
  <1>4. ModulesClean'
    BY <1>1 DEF ModulesInv, ModulesClean
  <1>5. LoadInv'
    BY <1>2 DEF ModulesInv, LoadInv
  <1>6. ImportInv'
    BY <1>1, <1>2, <1>3 DEF ModulesInv, ImportInv
  <1> QED
    BY <1>4, <1>5, <1>6 DEF ModulesInv

\* One entry of the table changes: to one that an import would have put there,
\* or to anything if a file below the root is loaded under its name.  Nobody
\* else imports that module now.
LEMMA ModuleChanges ==
    ASSUME ModulesInv, NEW n \in Nodes, NEW m, phase = "run", place \in Processes,
           NEW e,
           UNCHANGED <<phase, job, running, place, cwd>>,
           modules' = [modules EXCEPT ![place][m] = e],
           \A k \in Nodes \ {n} : step'[k] = step[k],
           step'[n] = "load" => SpecOf(n).ref # None /\ FileOf(n) # None,
           step'[n] = "import" => /\ SpecOf(n).ref # None
                                  /\ FileOf(n) = None
                                  /\ SpecOf(n).ref.module = m
                                  /\ m # "__main__"
                                  /\ Importable(m)
                                  /\ e = Importing(m),
           LoadedAs(m) \/ e \in {Absent, Imported(m), Importing(m)},
           \/ LoadedAs(m)
           \/ \A k \in Nodes : step[k] = "import" /\ SpecOf(k).ref.module = m => k = n
    PROVE  ModulesInv'
  <1>1. \A x : LoadedAs(x)' <=> LoadedAs(x)
    BY DEF LoadedAs, JobRoot
  <1>2. \A k : SpecOf(k)' = SpecOf(k) /\ FileOf(k)' = FileOf(k)
    BY DEF SpecOf, FileOf, Root
  <1>3. /\ DOMAIN modules = Processes
        /\ \A p \in Processes : DOMAIN modules[p] = DOMAIN OnPath
    BY DEF ModulesInv, ModulesClean
  <1>4. /\ DOMAIN modules' = Processes
        /\ \A p \in Processes : DOMAIN modules'[p] = DOMAIN OnPath
        /\ \A p \in Processes : \A x \in DOMAIN OnPath :
               modules'[p][x] = IF p = place /\ x = m THEN e ELSE modules[p][x]
    BY <1>3
  <1>5. ModulesClean'
    BY <1>1, <1>4 DEF ModulesInv, ModulesClean
  <1>6. LoadInv'
    BY <1>2 DEF ModulesInv, LoadInv
  <1>7. ImportInv'
    <2> SUFFICES ASSUME NEW k \in Nodes, step'[k] = "import",
                        NEW x, x = SpecOf(k).ref.module
                 PROVE  /\ SpecOf(k).ref # None
                        /\ FileOf(k) = None
                        /\ x # "__main__"
                        /\ Importable(x)
                        /\ \/ LoadedAs(x)
                           \/ /\ modules'[place][x] = Importing(x)
                              /\ \A j \in Nodes :
                                     step'[j] = "import" /\ SpecOf(j).ref.module = x => j = k
      BY <1>1, <1>2 DEF ImportInv, Importing, Importable, Entry
    <2>1. CASE k = n
      <3>1. x = m /\ Importable(x)
        BY <2>1
      <3>2. modules'[place][x] = Importing(x)
        BY <1>4, <2>1, <3>1 DEF Importable
      <3>3. LoadedAs(x) \/ \A j \in Nodes :
                step'[j] = "import" /\ SpecOf(j).ref.module = x => j = k
        BY <2>1, <3>1
      <3> QED
        BY <2>1, <3>1, <3>2, <3>3
    <2>2. CASE k # n
      <3>1. step[k] = "import"
        BY <2>2
      <3>2. /\ SpecOf(k).ref # None
            /\ FileOf(k) = None
            /\ x # "__main__"
            /\ Importable(x)
            /\ \/ LoadedAs(x)
               \/ /\ modules[place][x] = Importing(x)
                  /\ \A j \in Nodes : step[j] = "import" /\ SpecOf(j).ref.module = x => j = k
        BY <3>1 DEF ModulesInv, ImportInv, Entry
      <3>3. ~LoadedAs(x) => x # m
        BY <2>2, <3>1, <3>2
      <3>4. x # m => modules'[place][x] = modules[place][x]
        BY <1>4, <3>2 DEF Importable
      <3>5. \A j \in Nodes :
                step'[j] = "import" /\ SpecOf(j).ref.module = x /\ x # m => step[j] = "import"
        OBVIOUS
      <3> QED
        BY <3>2, <3>3, <3>4, <3>5
    <2> QED
      BY <2>1, <2>2
  <1> QED
    BY <1>5, <1>6, <1>7 DEF ModulesInv

LEMMA InitModules == Init => ModulesInv /\ CalledInv
  <1> SUFFICES ASSUME Init
               PROVE  ModulesInv /\ CalledInv
    OBVIOUS
  <1> USE DEF Init
  <1>1. ModulesClean
    BY DEF ModulesClean, NoModules
  <1>2. LoadInv /\ ImportInv
    BY DEF LoadInv, ImportInv
  <1>3. RightFunction /\ UnresolvedIsMissing
    BY DEF RightFunction, UnresolvedIsMissing
  <1> QED
    BY <1>1, <1>2, <1>3 DEF ModulesInv, CalledInv

\* Where no task has a step, only the table counts.
LEMMA ModulesAtRest ==
    ASSUME \A n \in Nodes : step'[n] = "none", ModulesClean'
    PROVE  ModulesInv'
  BY DEF ModulesInv, LoadInv, ImportInv

LEMMA ModulesBetweenRuns ==
    ASSUME FlowInv, ModulesInv,
           \/ \E n \in Nodes : \E a \in TaskChoices[n] : AddTask(n, a)
           \/ \E s, t \in Nodes, c \in Conditions : AddEdge(s, t, c)
           \/ \E written \in BOOLEAN, root \in SchedulerRoots : AddJob(written, root)
           \/ Restart
           \/ \E p \in Processes : \E w : StartRun(p, w)
    PROVE  ModulesInv'
  <1>1. /\ DOMAIN modules = Processes
        /\ \A p \in Processes :
               /\ DOMAIN modules[p] = DOMAIN OnPath
               /\ \A m \in DOMAIN OnPath :
                      \/ phase # "build" /\ LoadedAs(m)
                      \/ modules[p][m] \in {Absent, Imported(m), Importing(m)}
    BY DEF ModulesInv, ModulesClean
  <1>2. phase # "run" => \A n \in Nodes : step[n] = "none"
    BY DEF FlowInv, AttemptsInv
  <1>3. ASSUME NEW n \in Nodes, NEW a \in TaskChoices[n], AddTask(n, a)
        PROVE  ModulesInv'
    <2>1. phase = "build" /\ UNCHANGED <<phase, step>>
      BY <1>3 DEF AddTask, taskVars
    <2>2. \/ modules' = modules
          \/ \E x : modules' = [modules EXCEPT !["scheduler"][x] = Imported(x)]
      BY <1>3 DEF AddTask
    <2>3. ModulesClean'
      <3>1. CASE modules' = modules
        BY <1>1, <2>1, <3>1 DEF ModulesClean
      <3>2. ASSUME NEW x, modules' = [modules EXCEPT !["scheduler"][x] = Imported(x)]
            PROVE  ModulesClean'
        <4>1. /\ DOMAIN modules' = Processes
              /\ \A p \in Processes : DOMAIN modules'[p] = DOMAIN OnPath
              /\ \A p \in Processes : \A m \in DOMAIN OnPath :
                     modules'[p][m] \in {modules[p][m], Imported(m)}
          BY <1>1, <3>2 DEF Processes
        <4> QED
          BY <1>1, <2>1, <4>1 DEF ModulesClean
      <3> QED
        BY <2>2, <3>1, <3>2
    <2> QED
      BY <1>2, <2>1, <2>3, ModulesAtRest
  <1>4. ASSUME NEW s \in Nodes, NEW t \in Nodes, NEW c \in Conditions, AddEdge(s, t, c)
        PROVE  ModulesInv'
    <2>1. phase = "build" /\ UNCHANGED <<phase, step, modules>>
      BY <1>4 DEF AddEdge, taskVars
    <2>2. ModulesClean'
      BY <1>1, <2>1 DEF ModulesClean
    <2> QED
      BY <1>2, <2>1, <2>2, ModulesAtRest
  <1>5. ASSUME NEW written \in BOOLEAN, NEW root \in SchedulerRoots, AddJob(written, root)
        PROVE  ModulesInv'
    <2>1. phase = "build" /\ UNCHANGED <<step, modules>>
      BY <1>5 DEF AddJob, taskVars
    <2>2. ModulesClean'
      BY <1>1, <2>1 DEF ModulesClean
    <2> QED
      BY <1>2, <2>1, <2>2, ModulesAtRest
  <1>6. CASE Restart
    <2>1. /\ phase = "idle" /\ modules' = [p \in Processes |-> NoModules]
          /\ UNCHANGED step
      BY <1>6 DEF Restart, taskVars
    <2>2. ModulesClean'
      BY <2>1 DEF ModulesClean, NoModules
    <2> QED
      BY <1>2, <2>1, <2>2, ModulesAtRest
  <1>7. ASSUME NEW p \in Processes, NEW w, StartRun(p, w)
        PROVE  ModulesInv'
    <2>1. /\ phase = "idle" /\ phase' = "run" /\ step' = [n \in Nodes |-> "none"]
          /\ UNCHANGED <<job, cwd, modules>>
      BY <1>7 DEF StartRun
    <2>2. \A m : LoadedAs(m)' <=> LoadedAs(m)
      BY <2>1 DEF LoadedAs, JobRoot
    <2>3. ModulesClean'
      BY <1>1, <2>1, <2>2 DEF ModulesClean
    <2> QED
      BY <2>1, <2>3, ModulesAtRest
  <1> QED
    BY <1>3, <1>4, <1>5, <1>6, <1>7

\* What steps of a task do to the table.
LEMMA ModulesLoadFile ==
    ASSUME FlowInv, ModulesInv, NEW n \in Nodes, LoadFile(n)
    PROVE  ModulesInv'
  <1>1. /\ phase = "run" /\ step[n] = "begin" /\ SpecOf(n).ref # None /\ FileOf(n) # None
        /\ modules' = [modules EXCEPT ![place][Stem[FileOf(n)]] =
                           [by |-> n, file |-> FileOf(n), state |-> "half"]]
        /\ step' = [step EXCEPT ![n] = "load"]
        /\ UNCHANGED <<phase, job, running, place, cwd>>
    BY DEF LoadFile, BeginsReference, Begins, Unchanged, placeVars
  <1>2. PICK m, e : /\ m = Stem[FileOf(n)]
                    /\ e = [by |-> n, file |-> FileOf(n), state |-> "half"]
    OBVIOUS
  <1>3. LoadedAs(m)
    BY <1>1, <1>2, RunningTask DEF LoadedAs, FileOf
  <1>4. /\ place \in Processes
        /\ step'[n] = "load" /\ \A k \in Nodes \ {n} : step'[k] = step[k]
    BY <1>1 DEF FlowInv, TypeOK
  <1>5. modules' = [modules EXCEPT ![place][m] = e]
    BY <1>1, <1>2
  <1> QED
    BY <1>1, <1>3, <1>4, <1>5, ModuleChanges

LEMMA ModulesImportModule ==
    ASSUME FlowInv, ModulesInv, NEW n \in Nodes, ImportModule(n)
    PROVE  ModulesInv'
  <1>1. PICK m : m = SpecOf(n).ref.module
    OBVIOUS
  <1>2. /\ phase = "run" /\ step[n] = "begin" /\ SpecOf(n).ref # None /\ FileOf(n) = None
        /\ m # "__main__" /\ Importable(m) /\ Entry(m) = Absent
        /\ modules' = [modules EXCEPT ![place][m] = Importing(m)]
        /\ step' = [step EXCEPT ![n] = "import"]
        /\ UNCHANGED <<phase, job, running, place, cwd>>
    BY <1>1 DEF ImportModule, Imports, BeginsReference, Begins, Unchanged, placeVars, Importing
  <1>3. /\ place \in Processes
        /\ step'[n] = "import" /\ \A k \in Nodes \ {n} : step'[k] = step[k]
    BY <1>2 DEF FlowInv, TypeOK
  <1>4. Absent # Importing(m)
    BY DEF Absent, Importing
  <1>5. LoadedAs(m) \/ \A k \in Nodes : step[k] = "import" /\ SpecOf(k).ref.module = m => k = n
    BY <1>2, <1>4 DEF ModulesInv, ImportInv
  <1> QED
    BY <1>1, <1>2, <1>3, <1>5, ModuleChanges

LEMMA MissingEnds ==
    ASSUME TypeOK, NEW n \in Nodes, NEW e \in Errors, Missing(n, e)
    PROVE  /\ step'[n] \in {"begin", "failed"}
           /\ \A k \in Nodes \ {n} : step'[k] = step[k]
  BY FailMoves DEF Missing, TypeOK

LEMMA GetAttrEnds ==
    ASSUME TypeOK, NEW n \in Nodes, NEW file, NEW whole, GetAttr(n, file, whole)
    PROVE  /\ step'[n] \in {"call", "begin", "failed"}
           /\ \A k \in Nodes \ {n} : step'[k] = step[k]
  <1>1. CASE Missing(n, "unresolved")
    BY <1>1, MissingEnds DEF Errors
  <1>2. CASE Call(n, [file |-> file, kind |-> SpecOf(n).ref.name])
    BY <1>2 DEF Call, TypeOK
  <1> QED
    BY <1>1, <1>2 DEF GetAttr

LEMMA ModulesFileLoaded ==
    ASSUME FlowInv, ModulesInv, NEW n \in Nodes, FileLoaded(n)
    PROVE  ModulesInv'
  <1>1. PICK m : m = Stem[FileOf(n)]
    OBVIOUS
  <1>2. /\ phase = "run" /\ step[n] = "load" /\ modules' = Whole(m, n)
        /\ UNCHANGED <<phase, job, running, place, cwd>>
    BY <1>1 DEF FileLoaded, Unchanged, placeVars
  <1>3. SpecOf(n).ref # None /\ FileOf(n) # None
    BY <1>2 DEF ModulesInv, LoadInv
  <1>4. LoadedAs(m)
    BY <1>1, <1>2, <1>3, RunningTask DEF LoadedAs, FileOf
  <1>5. /\ step'[n] \in {"call", "begin", "failed"}
        /\ \A k \in Nodes \ {n} : step'[k] = step[k]
    BY GetAttrEnds DEF FileLoaded, FlowInv
  <1>6. CASE modules' = modules
    BY <1>2, <1>5, <1>6, ModulesStay
  <1>7. CASE modules' = [modules EXCEPT ![place][m].state = "whole"]
    <2>1. PICK e : e = [modules[place][m] EXCEPT !.state = "whole"]
      OBVIOUS
    <2>2. modules' = [modules EXCEPT ![place][m] = e]
      BY <1>7, <2>1
    <2>3. place \in Processes
      BY DEF FlowInv, TypeOK
    <2> QED
      BY <1>2, <1>4, <1>5, <2>2, <2>3, ModuleChanges
  <1> QED
    BY <1>2, <1>6, <1>7 DEF Whole

LEMMA ModulesImported ==
    ASSUME FlowInv, ModulesInv, NEW n \in Nodes, ModuleImported(n) \/ ImportRaises(n)
    PROVE  ModulesInv'
  <1>1. PICK m : m = SpecOf(n).ref.module
    OBVIOUS
  <1>2. /\ phase = "run" /\ step[n] = "import"
        /\ \/ modules' = Whole(m, "import")
           \/ modules' = [modules EXCEPT ![place][m] = Absent]
        /\ UNCHANGED <<phase, job, running, place, cwd>>
    BY <1>1 DEF ModuleImported, ImportRaises, Unchanged, placeVars
  <1>3. /\ Importable(m)
        /\ \/ LoadedAs(m)
           \/ /\ Entry(m) = Importing(m)
              /\ \A k \in Nodes : step[k] = "import" /\ SpecOf(k).ref.module = m => k = n
    BY <1>1, <1>2 DEF ModulesInv, ImportInv
  <1>4. /\ step'[n] \in {"call", "begin", "failed"}
        /\ \A k \in Nodes \ {n} : step'[k] = step[k]
    <2>1. CASE ModuleImported(n)
      BY <2>1, GetAttrEnds DEF ModuleImported, FlowInv
    <2>2. CASE ImportRaises(n)
      BY <2>2, MissingEnds DEF ImportRaises, FlowInv, Errors
    <2> QED
      BY <2>1, <2>2
  <1>5. place \in Processes
    BY DEF FlowInv, TypeOK
  <1>6. CASE modules' = modules
    BY <1>2, <1>4, <1>6, ModulesStay
  <1>7. CASE modules' = [modules EXCEPT ![place][m].state = "whole"]
    <2>1. PICK e : e = [modules[place][m] EXCEPT !.state = "whole"]
      OBVIOUS
    <2>2. modules' = [modules EXCEPT ![place][m] = e]
      BY <1>7, <2>1
    <2>3. Entry(m) = Importing(m) => e = Imported(m)
      BY <2>1 DEF Entry, Importing, Imported
    <2> QED
      BY <1>2, <1>3, <1>4, <1>5, <2>2, <2>3, ModuleChanges
  <1>8. CASE modules' = [modules EXCEPT ![place][m] = Absent]
    BY <1>2, <1>3, <1>4, <1>5, <1>8, ModuleChanges
  <1> QED
    BY <1>2, <1>6, <1>7, <1>8 DEF Whole

\* The other steps of a run leave the table alone, and begin no load or import.
LEMMA ModulesOtherSteps ==
    ASSUME FlowInv, ModulesInv, NEW n \in Nodes,
           \/ Engine(n) \/ CallObject(n) \/ FromMain(n) \/ TakeModule(n) \/ NoModule(n)
           \/ RunCommand(n) \/ NoShell(n) \/ CommandExpires(n) \/ CallTimedOut(n)
           \/ CallReturns(n) \/ CommandExits(n) \/ CallExpires(n) \/ LateEnd(n)
           \/ FileRaises(n)
    PROVE  ModulesInv'
  <1>1. UNCHANGED <<phase, job, running, place, cwd, modules>>
    BY DEF Engine, StartTask, SkipTask, ApplyResult, CallObject, FromMain, TakeModule,
           NoModule, RunCommand, NoShell, CommandExpires, CallTimedOut, CallReturns,
           CommandExits, CallExpires, LateEnd, FileRaises, Ends, Unchanged, placeVars
  <1>2. TypeOK
    BY DEF FlowInv
  <1>3. step' = step \/ \E x \in Steps \ {"load", "import"} : step' = [step EXCEPT ![n] = x]
    <2>1. CASE Engine(n)
      BY <2>1 DEF Engine, StartTask, SkipTask, ApplyResult, taskVars, Steps
    <2>2. ASSUME NEW e \in Errors, Fail(n, e)
          PROVE  \E x \in {"begin", "failed"} : step' = [step EXCEPT ![n] = x]
      BY <1>2, <2>2, FailMoves
    <2>3. ASSUME NEW f, Call(n, f)
          PROVE  step' = [step EXCEPT ![n] = "call"]
      BY <2>3 DEF Call
    <2>4. CASE CallObject(n) \/ RunCommand(n)
      BY <2>3, <2>4 DEF CallObject, RunCommand, Steps
    <2>5. CASE FromMain(n) \/ TakeModule(n)
      BY <2>2, <2>3, <2>5 DEF FromMain, TakeModule, GetAttr, Missing, Steps, Errors
    <2>6. CASE NoModule(n) \/ NoShell(n) \/ FileRaises(n)
      BY <2>2, <2>6 DEF NoModule, NoShell, FileRaises, Missing, Steps, Errors
    <2>7. CASE CommandExpires(n) \/ CallTimedOut(n)
      BY <2>2, <2>7 DEF CommandExpires, CallTimedOut, Steps, Errors
    <2>8. CASE CallReturns(n) \/ CommandExits(n)
      <3>1. PICK good \in BOOLEAN : Ends(n, good)
        BY <2>8 DEF CallReturns, CommandExits
      <3>2. step' = [step EXCEPT ![n] = "ok"] \/ Fail(n, "raised")
        BY <3>1 DEF Ends
      <3> QED
        BY <2>2, <3>2 DEF Steps, Errors
    <2>9. CASE CallExpires(n) \/ LateEnd(n)
      BY <2>9 DEF CallExpires, LateEnd, Steps
    <2> QED
      BY <2>1, <2>4, <2>5, <2>6, <2>7, <2>8, <2>9
  <1>4. \A k \in Nodes : step'[k] \in {"load", "import"} => step'[k] = step[k]
    BY <1>2, <1>3 DEF TypeOK
  <1> QED
    BY <1>1, <1>4, ModulesStay

LEMMA ModulesFinish ==
    ASSUME FlowInv, ModulesInv, Finish
    PROVE  ModulesInv'
  BY ModulesStay DEF Finish, placeVars, taskVars

LEMMA ModulesStep == FlowInv /\ ModulesInv /\ [Next]_vars => ModulesInv'
  <1> SUFFICES ASSUME FlowInv, ModulesInv, [Next]_vars
               PROVE  ModulesInv'
    OBVIOUS
  <1>1. CASE RunInThread \/ RunInWorker
    BY <1>1, ModulesBetweenRuns DEF RunInThread, RunInWorker, Processes
  <1>2. CASE \/ \E n \in Nodes : \E a \in TaskChoices[n] : AddTask(n, a)
             \/ \E s, t \in Nodes, c \in Conditions : AddEdge(s, t, c)
             \/ \E written \in BOOLEAN, root \in SchedulerRoots : AddJob(written, root)
             \/ Restart
    BY <1>2, ModulesBetweenRuns
  <1>3. ASSUME NEW n \in Nodes, Engine(n) \/ Runner(n) \/ UserCode(n)
        PROVE  ModulesInv'
    <2>1. CASE LoadFile(n) \/ ImportModule(n)
      BY <2>1, ModulesLoadFile, ModulesImportModule
    <2>2. CASE FileLoaded(n) \/ ModuleImported(n) \/ ImportRaises(n)
      BY <2>2, ModulesFileLoaded, ModulesImported
    <2> QED
      BY <1>3, <2>1, <2>2, ModulesOtherSteps DEF Runner, Resolution, UserCode
  <1>4. CASE Finish
    BY <1>4, ModulesFinish
  <1>5. CASE UNCHANGED vars
    BY <1>5, ModulesStay DEF vars
  <1> QED
    BY <1>1, <1>2, <1>3, <1>4, <1>5 DEF Next

-----------------------------------------------------------------------------
(* Calls: what a task calls, and what it says cannot be resolved.          *)

RightCall(n, f) ==
    \/ f \in Meant(n)
    \/ SpecOf(n).ref # None /\ NameTaken(n)
    \/ SpecOf(n).ref # None /\ given[n] # {} /\ Astray(n)

RightlyMissing(n) ==
    \/ NameTaken(n)
    \/ FileMeant(n) = None
    \/ SpecOf(n).ref.name \notin Defined[FileMeant(n)]

\* Tasks call what is right, and miss what is missing.
LEMMA CallsStay ==
    ASSUME CalledInv, phase = "run", UNCHANGED <<phase, placeVars>>,
           \A n \in Ids(running) :
               /\ IsPython(SpecOf(n)) =>
                      \A f \in called'[n] : f \in called[n] \/ RightCall(n, f)
               /\ why'[n] = "unresolved" => why[n] = "unresolved" \/ RightlyMissing(n)
    PROVE  CalledInv'
  <1>1. Ids(running)' = Ids(running)
    BY DEF placeVars, Ids
  <1>2. \A n : /\ SpecOf(n)' = SpecOf(n)
               /\ Root' = Root
    BY DEF SpecOf, Root, placeVars
  <1>3. \A n : /\ FileMeant(n)' = FileMeant(n)
               /\ NameTaken(n)' <=> NameTaken(n)
               /\ Astray(n)' <=> Astray(n)
    BY <1>2 DEF FileMeant, NameTaken, Astray, placeVars
  <1>4. \A n : Meant(n)' = Meant(n)
    BY <1>2, <1>3 DEF Meant, placeVars
  <1>5. RightFunction'
    <2> SUFFICES ASSUME NEW n \in Ids(running), IsPython(SpecOf(n)),
                        ~(SpecOf(n).ref # None /\ NameTaken(n)),
                        ~(SpecOf(n).ref # None /\ given[n] # {} /\ Astray(n))
                 PROVE  called'[n] \subseteq Meant(n)
      BY <1>1, <1>2, <1>3, <1>4 DEF RightFunction, placeVars, IsPython
    <2>1. called[n] \subseteq Meant(n)
      BY DEF CalledInv, RightFunction
    <2> QED
      BY <2>1 DEF RightCall
  <1>6. UnresolvedIsMissing'
    <2> SUFFICES ASSUME NEW n \in Ids(running), why'[n] = "unresolved", ~NameTaken(n)
                 PROVE  \/ FileMeant(n) = None
                        \/ SpecOf(n).ref.name \notin Defined[FileMeant(n)]
      BY <1>1, <1>2, <1>3 DEF UnresolvedIsMissing
    <2> QED
      BY DEF CalledInv, UnresolvedIsMissing, RightlyMissing
  <1> QED
    BY <1>5, <1>6 DEF CalledInv

LEMMA CallRight ==
    ASSUME FlowInv, CalledInv, phase = "run", UNCHANGED <<phase, placeVars>>,
           NEW n \in Nodes, NEW f, Call(n, f), IsPython(SpecOf(n)) => RightCall(n, f)
    PROVE  CalledInv'
  <1>1. /\ called' = [called EXCEPT ![n] = @ \cup {f}] /\ why' = why
        /\ DOMAIN called = Nodes
    BY DEF Call, FlowInv, TypeOK
  <1>2. Ids(running) \subseteq Nodes
    BY NodeTyped DEF FlowInv, TypeOK, Ids
  <1>3. \A k \in Nodes : IF k = n THEN called'[k] = called[k] \cup {f}
                                  ELSE called'[k] = called[k]
    BY <1>1
  <1> QED
    BY <1>1, <1>2, <1>3, CallsStay

LEMMA FailRight ==
    ASSUME FlowInv, CalledInv, phase = "run", UNCHANGED <<phase, placeVars>>,
           NEW n \in Nodes, NEW e, Fail(n, e), called' = called,
           e = "unresolved" => RightlyMissing(n)
    PROVE  CalledInv'
  <1>1. why' = [why EXCEPT ![n] = e] /\ why \in [Nodes -> Errors]
    BY DEF Fail, FlowInv, TypeOK
  <1>2. Ids(running) \subseteq Nodes
    BY NodeTyped DEF FlowInv, TypeOK, Ids
  <1> QED
    BY <1>1, <1>2, CallsStay

\* The file that the name is sought in is the one that is meant.
LEMMA GetAttrRight ==
    ASSUME FlowInv, CalledInv, UNCHANGED <<phase, placeVars>>,
           NEW n \in Nodes, step[n] # "none", SpecOf(n).ref # None,
           NEW file, NEW whole, GetAttr(n, file, whole),
           ~NameTaken(n) =>
               /\ file = FileMeant(n)
               /\ whole
               /\ \/ FileOf(n) # None
                  \/ SpecOf(n).ref.module = "__main__"
                  \/ Importable(SpecOf(n).ref.module)
    PROVE  CalledInv'
  <1>1. /\ phase = "run"
        /\ \/ given[n] = {}
           \/ SpecOf(n).ref.name \in {"unbound method", "class"}
           \/ SpecOf(n).ref.module = "__main__"
           \/ given[n] = {[file |-> OnPath[SpecOf(n).ref.module],
                           kind |-> SpecOf(n).ref.name]}
    BY RunningTask
  <1> DEFINE f == [file |-> file, kind |-> SpecOf(n).ref.name]
  <1>2. CASE SpecOf(n).ref.name \in Defined[file] /\ Call(n, f)
    <2>1. RightCall(n, f)
      <3> SUFFICES ASSUME ~NameTaken(n), ~(given[n] # {} /\ Astray(n))
                   PROVE  f \in Meant(n)
        BY DEF RightCall
      <3>1. CASE given[n] = {}
        BY <3>1 DEF Meant
      <3>2. CASE given[n] # {}
        <4>1. /\ FileOf(n) = None
              /\ SpecOf(n).ref.module # "__main__"
              /\ SpecOf(n).ref.name \notin {"unbound method", "class"}
          BY <3>2 DEF Astray, FileOf
        <4>2. FileMeant(n) = OnPath[SpecOf(n).ref.module]
          BY <4>1 DEF FileMeant, FileOf
        <4>3. given[n] = {f}
          BY <1>1, <3>2, <4>1, <4>2
        <4> QED
          BY <3>2, <4>3 DEF Meant
      <3> QED
        BY <3>1, <3>2
    <2> HIDE DEF f
    <2> QED
      BY <1>1, <1>2, <2>1, CallRight
  <1>3. CASE /\ SpecOf(n).ref.name \notin Defined[file] \/ ~whole
             /\ Missing(n, "unresolved")
    <2>1. RightlyMissing(n)
      BY <1>3 DEF RightlyMissing
    <2> QED
      BY <1>1, <1>3, <2>1, FailRight DEF Missing
  <1> QED
    BY <1>2, <1>3 DEF GetAttr

\* No file below the root has the name of the module: the table has of it what
\* an import puts there.
LEMMA CleanEntry ==
    ASSUME FlowInv, ModulesInv, NEW n \in Nodes, step[n] # "none", SpecOf(n).ref # None,
           ~NameTaken(n), Importable(SpecOf(n).ref.module)
    PROVE  LET m == SpecOf(n).ref.module
           IN  Entry(m) \in {Absent, Imported(m), Importing(m)}
  <1>1. ~LoadedAs(SpecOf(n).ref.module) /\ place \in Processes
    BY RunningTask DEF FlowInv, TypeOK
  <1> QED
    BY <1>1 DEF ModulesInv, ModulesClean, Entry, Importable

LEMMA CallsResolution ==
    ASSUME FlowInv, ModulesInv, CalledInv, NEW n \in Nodes, Resolution(n)
    PROVE  CalledInv'
  <1> DEFINE m == SpecOf(n).ref.module
  <1>1. CASE LoadFile(n) \/ ImportModule(n)
    <2>1. /\ phase = "run" /\ UNCHANGED <<phase, placeVars, called, why>>
      BY <1>1 DEF LoadFile, ImportModule, Imports, BeginsReference, Begins, Unchanged
    <2> QED
      BY <2>1, CallsStay
  <1>2. CASE FileLoaded(n)
    <2>1. /\ step[n] = "load" /\ GetAttr(n, FileOf(n), TRUE)
          /\ UNCHANGED <<phase, placeVars>>
      BY <1>2 DEF FileLoaded, OwnModule, Unchanged
    <2>2. SpecOf(n).ref # None /\ FileOf(n) # None
      BY <2>1 DEF ModulesInv, LoadInv
    <2>3. FileOf(n) = FileMeant(n)
      BY <2>2 DEF FileMeant, FileOf
    <2> QED
      BY <2>1, <2>2, <2>3, GetAttrRight
  <1>3. CASE FromMain(n)
    <2>1. /\ step[n] = "begin" /\ SpecOf(n).ref # None /\ FileOf(n) = None
          /\ m = "__main__" /\ GetAttr(n, main, TRUE)
          /\ UNCHANGED <<phase, placeVars>>
      BY <1>3 DEF FromMain, BeginsReference, Begins, Unchanged
    <2>2. main = FileMeant(n)
      BY <2>1 DEF FileMeant, FileOf
    <2> QED
      BY <2>1, <2>2, GetAttrRight
  <1>4. CASE TakeModule(n)
    <2>1. /\ step[n] = "begin" /\ SpecOf(n).ref # None /\ FileOf(n) = None
          /\ m # "__main__" /\ Importable(m) /\ Available(m)
          /\ GetAttr(n, Entry(m).file, Entry(m).state = "whole")
          /\ UNCHANGED <<phase, placeVars>>
      BY <1>4 DEF TakeModule, Imports, BeginsReference, Begins, Unchanged
    <2>2. ~NameTaken(n) => Entry(m) = Imported(m)
      <3>1. step[n] # "none"
        BY <2>1
      <3>2. ~NameTaken(n) => Entry(m) \in {Absent, Imported(m), Importing(m)}
        BY <2>1, <3>1, CleanEntry
      <3>3. Entry(m).state \in {"half", "whole"}
        BY <2>1 DEF Available
      <3>4. Absent.state = "absent" /\ Importing(m).state = "importing"
        BY DEF Absent, Importing
      <3> QED
        BY <3>2, <3>3, <3>4
    <2>3. FileMeant(n) = OnPath[m]
      BY <2>1 DEF FileMeant, FileOf
    <2>4. ~NameTaken(n) => Entry(m).file = FileMeant(n) /\ Entry(m).state = "whole"
      BY <2>2, <2>3 DEF Imported
    <2> HIDE DEF m
    <2>5. Importable(SpecOf(n).ref.module)
      BY <2>1 DEF m
    <2> QED
      BY <2>1, <2>4, <2>5, GetAttrRight
  <1>5. CASE ModuleImported(n)
    <2>1. /\ step[n] = "import"
          /\ GetAttr(n, Entry(m).file, Entry(m).state # "half")
          /\ UNCHANGED <<phase, placeVars>>
      BY <1>5 DEF ModuleImported, Unchanged
    <2>2. /\ SpecOf(n).ref # None /\ FileOf(n) = None /\ m # "__main__" /\ Importable(m)
          /\ LoadedAs(m) \/ Entry(m) = Importing(m)
      BY <2>1 DEF ModulesInv, ImportInv
    <2>3. ~NameTaken(n) => Entry(m) = Importing(m)
      BY <2>1, <2>2, RunningTask
    <2>4. FileMeant(n) = OnPath[m]
      BY <2>2 DEF FileMeant, FileOf
    <2>5. ~NameTaken(n) => Entry(m).file = FileMeant(n) /\ Entry(m).state # "half"
      BY <2>3, <2>4 DEF Importing
    <2> HIDE DEF m
    <2>6. Importable(SpecOf(n).ref.module)
      BY <2>2 DEF m
    <2> QED
      BY <2>1, <2>2, <2>5, <2>6, GetAttrRight
  <1>6. CASE NoModule(n)
    <2>1. /\ phase = "run" /\ FileOf(n) = None /\ m # "__main__" /\ ~Importable(m)
          /\ Missing(n, "unresolved")
          /\ UNCHANGED <<phase, placeVars>>
      BY <1>6 DEF NoModule, Imports, BeginsReference, Begins, Unchanged
    <2>2. RightlyMissing(n)
      BY <2>1 DEF RightlyMissing, FileMeant, FileOf
    <2> QED
      BY <2>1, <2>2, FailRight DEF Missing
  <1> QED
    BY <1>1, <1>2, <1>3, <1>4, <1>5, <1>6 DEF Resolution

\* A callable is called as it is: it is what the task was given.
LEMMA CallsObject ==
    ASSUME FlowInv, CalledInv, NEW n \in Nodes, CallObject(n)
    PROVE  CalledInv'
  <1>1. /\ phase = "run" /\ step[n] # "none" /\ SpecOf(n).func # None
        /\ Call(n, Itself(SpecOf(n).func))
        /\ UNCHANGED <<phase, placeVars>>
    BY DEF CallObject, Begins, Unchanged
  <1>2. given[n] = {Itself(SpecOf(n).func)}
    BY <1>1, RunningTask
  <1>3. RightCall(n, Itself(SpecOf(n).func))
    BY <1>2 DEF RightCall, Meant
  <1> QED
    BY <1>1, <1>3, CallRight

LEMMA CallsOtherSteps ==
    ASSUME FlowInv, CalledInv, NEW n \in Nodes,
           \/ Engine(n) \/ RunCommand(n) \/ NoShell(n)
           \/ CommandExpires(n) \/ CallTimedOut(n) \/ UserCode(n)
    PROVE  CalledInv'
  <1>1. UNCHANGED <<phase, placeVars>>
    BY DEF Engine, StartTask, SkipTask, ApplyResult, RunCommand, NoShell, CommandExpires,
           CallTimedOut, UserCode, CallReturns, CommandExits, CallExpires, LateEnd,
           FileRaises, ImportRaises, Ends, Unchanged
  <1>2. CASE phase # "run"
    BY <1>1, <1>2 DEF CalledInv, RightFunction, UnresolvedIsMissing
  <1>3. CASE phase = "run" /\ Engine(n)
    BY <1>1, <1>3, CallsStay DEF Engine, StartTask, SkipTask, ApplyResult, taskVars
  <1>4. CASE phase = "run" /\ RunCommand(n)
    BY <1>1, <1>4, CallRight DEF RunCommand
  <1>5. CASE phase = "run" /\ \E e \in Errors \ {"unresolved"} : Fail(n, e) /\ called' = called
    BY <1>1, <1>5, FailRight
  <1>6. CASE phase = "run" /\ UNCHANGED <<called, why>>
    BY <1>1, <1>6, CallsStay
  <1>7. CASE NoShell(n) \/ FileRaises(n) \/ ImportRaises(n)
    BY <1>5, <1>2, <1>7 DEF NoShell, FileRaises, ImportRaises, Missing, Errors
  <1>8. CASE CommandExpires(n) \/ CallTimedOut(n)
    BY <1>5, <1>2, <1>8 DEF CommandExpires, CallTimedOut, Errors
  <1>9. CASE CallReturns(n) \/ CommandExits(n)
    <2>1. PICK good \in BOOLEAN : Ends(n, good)
      BY <1>9 DEF CallReturns, CommandExits
    <2>2. called' = called /\ (why' = why \/ Fail(n, "raised"))
      BY <2>1 DEF Ends
    <2> QED
      BY <1>2, <1>5, <1>6, <2>2 DEF Errors
  <1>10. CASE CallExpires(n) \/ LateEnd(n)
    BY <1>2, <1>6, <1>10 DEF CallExpires, LateEnd
  <1> QED
    BY <1>2, <1>3, <1>4, <1>7, <1>8, <1>9, <1>10 DEF UserCode

\* A run begins with no calls and no errors.
LEMMA CallsStartRun ==
    ASSUME FlowInv, NEW p \in Processes, NEW w, StartRun(p, w), FlowInv'
    PROVE  CalledInv'
  <1>1. /\ called' = [n \in Nodes |-> {}] /\ why' = [n \in Nodes |-> None]
    BY DEF StartRun
  <1>2. \A n \in Ids(running)' : n \in Nodes
    <2>1. \A i \in DOMAIN running'.nodes : running'.nodes[i].id \in Nodes
      <3>1. running' \in Workflows
        BY DEF FlowInv, TypeOK
      <3> QED
        BY <3>1, NodeTyped
    <2> QED
      BY <2>1 DEF Ids
  <1>3. \A n \in Ids(running)' : called'[n] = {} /\ why'[n] # "unresolved"
    BY <1>1, <1>2, NoneIsNothing
  <1> QED
    BY <1>3 DEF CalledInv, RightFunction, UnresolvedIsMissing

LEMMA CallsStep == FlowInv /\ ModulesInv /\ CalledInv /\ [Next]_vars => CalledInv'
  <1> SUFFICES ASSUME FlowInv, ModulesInv, CalledInv, [Next]_vars
               PROVE  CalledInv'
    OBVIOUS
  <1>1. CASE RunInThread \/ RunInWorker
    <2>1. FlowInv'
      BY FlowStep
    <2> QED
      BY <1>1, <2>1, CallsStartRun DEF RunInThread, RunInWorker, Processes
  <1>2. CASE \/ \E n \in Nodes : \E a \in TaskChoices[n] : AddTask(n, a)
             \/ \E s, t \in Nodes, c \in Conditions : AddEdge(s, t, c)
             \/ \E written \in BOOLEAN, root \in SchedulerRoots : AddJob(written, root)
             \/ Restart \/ Finish
    <2>1. phase' # "run"
      BY <1>2 DEF AddTask, AddEdge, AddJob, Restart, Finish
    <2> QED
      BY <2>1 DEF CalledInv, RightFunction, UnresolvedIsMissing
  <1>3. ASSUME NEW n \in Nodes, Engine(n) \/ Runner(n) \/ UserCode(n)
        PROVE  CalledInv'
    BY <1>3, CallsResolution, CallsObject, CallsOtherSteps DEF Runner
  <1>4. CASE UNCHANGED vars
    <2>1. UNCHANGED <<phase, placeVars, called, why>>
      BY <1>4 DEF vars, placeVars
    <2>2. CASE phase = "run"
      BY <2>1, <2>2, CallsStay
    <2>3. CASE phase # "run"
      BY <2>1, <2>3 DEF CalledInv, RightFunction, UnresolvedIsMissing
    <2> QED
      BY <2>2, <2>3
  <1> QED
    BY <1>1, <1>2, <1>3, <1>4 DEF Next

(***************************************************************************)
(* Behind all properties of the runs: the workflow is sound on its way to  *)
(* the run, attempts are apart, each entry of sys.modules that no file     *)
(* below the root is loaded under is what import makes of its name, and    *)
(* resolve_ref ends with the function that is meant.                       *)
(***************************************************************************)
THEOREM TasksInvariant == Spec => []TasksInv
  <1>1. Init => FlowInv /\ ModulesInv /\ CalledInv
    BY InitFlow, InitModules
  <1>2. /\ FlowInv /\ ModulesInv /\ CalledInv
        /\ [Next]_vars
        => FlowInv' /\ ModulesInv' /\ CalledInv'
    BY FlowStep, ModulesStep, CallsStep
  <1>3. FlowInv /\ ModulesInv /\ CalledInv => TasksInv
    BY DEF FlowInv, ModulesInv, CalledInv, TasksInv, ResolveInv
  <1> QED
    BY <1>1, <1>2, <1>3, PTL DEF Spec

(***************************************************************************)
(* A task calls the function it was given, whatever else the threads of    *)
(* its process resolve and import meanwhile, and wherever it is run; the   *)
(* exceptions are those that RightFunction names.                          *)
(***************************************************************************)
THEOREM RightFunctionHolds == Spec => []RightFunction
  <1>1. TasksInv => RightFunction
    BY DEF TasksInv, ResolveInv
  <1> QED
    BY <1>1, TasksInvariant, PTL

(***************************************************************************)
(* resolve_ref raises "Could not resolve reference" of references that     *)
(* name nothing, never because another thread was importing the module.    *)
(***************************************************************************)
THEOREM UnresolvedIsMissingHolds == Spec => []UnresolvedIsMissing
  <1>1. TasksInv => UnresolvedIsMissing
    BY DEF TasksInv, ResolveInv
  <1> QED
    BY <1>1, TasksInvariant, PTL
=============================================================================
