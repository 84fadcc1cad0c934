--------------------------- MODULE WorkflowDocument ---------------------------
(***************************************************************************)
(* Workflows as they are built, and the JSON documents they are saved as.  *)
(*                                                                         *)
(* A task is given a callable or a "module:name" reference.  A callable is *)
(* kept as the object it is until the workflow is saved; then a reference  *)
(* is made of it, which is all that the stores, a restarted scheduler and  *)
(* the worker processes ever see.                                          *)
(***************************************************************************)
EXTENDS Integers, Sequences, FiniteSets

CONSTANTS
    None,           \* Python's None
    Nodes,          \* the node ids that may be used
    Callables,      \* the callables tasks are given: kind and module
    References      \* the references tasks are given: module and name

(***************************************************************************)
(* What the name of a reference leads to in its module: a function, the    *)
(* method of an instance that a variable of the module holds, a method as  *)
(* a plain attribute of its class, or a class.                             *)
(***************************************************************************)
Names == {"function", "kept method", "unbound method", "class"}

\* "local" is a lambda, a nested function or a partial().
Kinds == {"function", "kept method", "method", "instance", "local"}

ASSUME CallablesAssumption  == Callables \subseteq [kind : Kinds, module : STRING]
ASSUME ReferencesAssumption == References \subseteq [module : STRING, name : Names]

-----------------------------------------------------------------------------
(* References of callables: obj_to_ref.                                    *)

HasReference(c) == c.kind # "local"

\* Of an instance that is called, get_callable_name knows the class only.
RefName(kind) ==
    CASE kind = "method"   -> "unbound method"
      [] kind = "instance" -> "class"
      [] OTHER             -> kind

ObjToRef(c) == [module |-> c.module, name |-> RefName(c.kind)]

-----------------------------------------------------------------------------
(* TaskSpec.  "text" is the field of the type: command, script_path or     *)
(* script; args and kwargs, which are only handed on, are left out.        *)

IsPython(a) == a.type = "python_callable"

TaskTypes == {"python_callable", "bash", "python", "python_script"}

\* __init__ raises ValueError otherwise.
Accepted(a) ==
    /\ a.type \in TaskTypes
    /\ IF IsPython(a) THEN a.func # None ELSE a.text # None

TaskSpec(a) ==
    [type    |-> a.type,
     ref     |-> IF IsPython(a) /\ a.func \in References THEN a.func ELSE None,
     func    |-> IF IsPython(a) /\ a.func \in Callables THEN a.func ELSE None,
     text    |-> a.text,
     timeout |-> a.timeout]

\* _to_callable_spec of a callback or a condition.
CallableSpec(f) ==
    IF f = None THEN None
    ELSE TaskSpec([type |-> "python_callable", func |-> f, text |-> None,
                   timeout |-> None])

SpecHasDict(s) == IsPython(s) /\ s.ref = None => HasReference(s.func)

\* Mutant: the reference is made anew of every callable, and of nothing else.
SpecToDictFresh(s) ==
    [type |-> s.type, timeout |-> s.timeout,
     ref  |-> IF s.func = None THEN None ELSE ObjToRef(s.func),
     text |-> IF IsPython(s) THEN None ELSE s.text]

SpecToDict(s) ==
    [type    |-> s.type,
     timeout |-> s.timeout,
     ref     |-> IF IsPython(s) /\ s.ref = None THEN ObjToRef(s.func) ELSE s.ref,
     text    |-> IF IsPython(s) THEN None ELSE s.text]

\* The reference is not resolved.
SpecFromDict(d) ==
    TaskSpec([type |-> d.type, func |-> d.ref, text |-> d.text,
              timeout |-> d.timeout])

\* A saved callable is a reference like those that tasks are given, and Python
\* tells None from everything else.
CallableSpecs == {CallableSpec(f) : f \in Callables \cup References}

CallableDicts == {SpecToDict(s) : s \in CallableSpecs}

ASSUME SavedAssumption ==
    \A c \in Callables : HasReference(c) => ObjToRef(c) \in References

ASSUME NoneAssumption ==
    /\ None \notin {"iso", "reason", "unresolved"}
    /\ None \notin Callables \cup References \cup CallableSpecs \cup CallableDicts

-----------------------------------------------------------------------------
(* Building a workflow: add_task and add_edge.                             *)

EmptyWorkflow(root) == [root |-> root, nodes |-> <<>>, edges |-> <<>>]

Ids(w) == {w.nodes[i].id : i \in DOMAIN w.nodes}

NodeOf(w, n) == LET i == CHOOSE i \in DOMAIN w.nodes : w.nodes[i].id = n
                IN  w.nodes[i]

Deps(w) == {<<w.edges[i].source, w.edges[i].target>> : i \in DOMAIN w.edges}

Sources(w, n) == {d[1] : d \in {e \in Deps(w) : e[2] = n}}

\* nx.is_directed_acyclic_graph
Acyclic(R) ==
    \A S \in SUBSET Nodes :
        S # {} => \E n \in S : \A m \in S : <<m, n>> \notin R

\* _Node.__init__: None and 0 retries are one attempt.
NewNode(n, a, success, failure) ==
    [id         |-> n,
     spec       |-> TaskSpec(a),
     retries    |-> IF a.retries \in Nat \ {0} THEN a.retries ELSE 1,
     on_success |-> success,
     on_failure |-> failure]

CanAddTask(w, n, a) == n \notin Ids(w) /\ Accepted(a)

WithTask(w, n, a) ==
    [w EXCEPT !.nodes = Append(@, NewNode(n, a, CallableSpec(a.on_success),
                                               CallableSpec(a.on_failure)))]

CanAddEdge(w, s, t) == {s, t} \subseteq Ids(w) /\ Acyclic(Deps(w) \cup {<<s, t>>})

NewEdge(s, t, condition) == [source |-> s, target |-> t, condition |-> condition]

WithEdge(w, s, t, condition) ==
    [w EXCEPT !.edges = Append(@, NewEdge(s, t, CallableSpec(condition)))]

-----------------------------------------------------------------------------
(* Workflow.to_dict and from_dict.                                         *)

DictOrNone(s) == IF s = None THEN None ELSE SpecToDict(s)

\* _spec_from_json
SpecOrNone(d) == IF d = None THEN None ELSE SpecFromDict(d)

OptionalHasDict(s) == s # None => SpecHasDict(s)

\* to_dict raises ValueError otherwise: some callable has no reference.
HasDict(w) ==
    /\ \A i \in DOMAIN w.nodes :
           /\ SpecHasDict(w.nodes[i].spec)
           /\ OptionalHasDict(w.nodes[i].on_success)
           /\ OptionalHasDict(w.nodes[i].on_failure)
    /\ \A i \in DOMAIN w.edges : OptionalHasDict(w.edges[i].condition)

ToDict(w) ==
    [project_root |-> w.root,
     nodes |-> [i \in DOMAIN w.nodes |->
                   [node_id    |-> w.nodes[i].id,
                    task       |-> SpecToDict(w.nodes[i].spec),
                    retries    |-> w.nodes[i].retries,
                    on_success |-> DictOrNone(w.nodes[i].on_success),
                    on_failure |-> DictOrNone(w.nodes[i].on_failure)]],
     edges |-> [i \in DOMAIN w.edges |->
                   [source    |-> w.edges[i].source,
                    target    |-> w.edges[i].target,
                    condition |-> DictOrNone(w.edges[i].condition)]]]

\* add_task takes the spec of the document apart and makes it again.
LoadedNode(d) ==
    LET s == SpecFromDict(d.task)
    IN  NewNode(d.node_id,
                [type |-> s.type, func |-> IF IsPython(s) THEN s.ref ELSE None,
                 text |-> s.text, timeout |-> s.timeout, retries |-> d.retries],
                SpecOrNone(d.on_success), SpecOrNone(d.on_failure))

FromDict(d) ==
    [root  |-> d.project_root,
     nodes |-> [i \in DOMAIN d.nodes |-> LoadedNode(d.nodes[i])],
     edges |-> [i \in DOMAIN d.edges |->
                   NewEdge(d.edges[i].source, d.edges[i].target,
                           SpecOrNone(d.edges[i].condition))]]

(***************************************************************************)
(* Loading adds the tasks and then the edges one by one, each with the     *)
(* checks of add_task and add_edge; from_dict raises otherwise.            *)
(***************************************************************************)
Loads(d) ==
    LET w == FromDict(d) IN
    /\ \A i \in DOMAIN d.nodes :
           CanAddTask([w EXCEPT !.nodes = SubSeq(@, 1, i - 1)], d.nodes[i].node_id,
                      [SpecFromDict(d.nodes[i].task) EXCEPT !.func = d.nodes[i].task.ref])
    /\ \A i \in DOMAIN d.edges :
           CanAddEdge([w EXCEPT !.edges = SubSeq(@, 1, i - 1)],
                      d.edges[i].source, d.edges[i].target)
=============================================================================
