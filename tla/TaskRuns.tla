------------------------------- MODULE TaskRuns -------------------------------
(***************************************************************************)
(* How the tasks of a workflow are run: the way of a workflow to where it  *)
(* runs, the resolution of references there, and the task runners.         *)
(*                                                                         *)
(* A workflow is built, given to the scheduler, maybe written to a store   *)
(* and read back, maybe by a scheduler that was started anew, and run, by  *)
(* threads of the scheduler or by a worker process.  The tasks of a run go *)
(* side by side in the threads of a pool; a process has one table of       *)
(* modules, which the resolutions of all its threads read and write.       *)
(***************************************************************************)
EXTENDS WorkflowDocument

CONSTANTS
    TaskChoices,    \* the arguments add_task is called with, for each node id
    Conditions,     \* the conditions add_edge is called with
    MaxEdges,       \* bound on the edges
    SchedulerRoots, \* what project_root the scheduler may have, None included
    Home,           \* the working directory and __main__ at first
    Roots,          \* directories: project roots and working directories
    Mains,          \* what __main__ is after a restart
    FileAt,         \* FileAt[root][module]: the file a module name is there
    Stem,           \* Stem[file]: the name the file is loaded under
    OnPath,         \* OnPath[module]: the file that import finds
    Defined,        \* Defined[file]: the names it defines
    MaxStarts,      \* bound on the runs and the restarts of the scheduler
    MaxFaults       \* bound on the modules that fail to load

OptionalCallables == Callables \cup References \cup {None}

ASSUME ChoicesAssumption ==
    /\ \A n \in Nodes : \A a \in TaskChoices[n] :
           {a.func, a.on_success, a.on_failure} \subseteq OptionalCallables
    /\ Conditions \subseteq OptionalCallables

\* Whatever a reference names, there is a file below a root or there is none.
ASSUME PlacesAssumption ==
    /\ Home.cwd \in Roots
    /\ SchedulerRoots \subseteq Roots \cup {None}
    /\ \A r \in Roots : \A c \in Callables \cup References :
           c.module \in DOMAIN FileAt[r]

Processes == {"scheduler", "worker"}

VARIABLES
    phase,      \* "build", "idle" or "run"
    job,        \* the workflow as the scheduler has it
    running,    \* the workflow that runs: the job's, or a worker's copy
    place,      \* the process that runs it
    cwd,        \* the working directory of both processes
    main,       \* the file that is __main__
    modules,    \* sys.modules of each process: who put what there
    step,       \* where the task of a node is
    tries,      \* the attempts it made
    calls,      \* its calls and commands that are under way
    called,     \* the functions it called
    why,        \* the error of the last attempt
    given,      \* the callable a node was built with, if it was one: a set of
                \* at most one (for the properties)
    records,    \* the TaskRecords of the run
    log,        \* the records in the log that the scheduler was given
    starts, faults

placeVars == <<job, given, running, place, cwd, main>>
taskVars == <<step, tries, calls, called, why>>
vars == <<phase, job, running, place, cwd, main, modules, step, tries, calls,
          called, why, given, records, log, starts, faults>>

-----------------------------------------------------------------------------
(* TaskRecord: times are known or not.                                     *)

NewRecord == [status |-> "pending", error |-> None, skipped |-> FALSE,
              start |-> FALSE, end |-> FALSE]

MarkStarted(r) == [r EXCEPT !.status = "running", !.start = TRUE]

MarkSucceeded(r) == [r EXCEPT !.status = "succeeded", !.end = TRUE]

MarkFailed(r, error) ==
    [r EXCEPT !.status = "failed", !.end = TRUE, !.error = error]

MarkSkipped(r) == [r EXCEPT !.status = "skipped", !.skipped = TRUE]

RecordToDict(r) ==
    [status      |-> r.status,
     error       |-> r.error,
     skip_reason |-> IF r.skipped THEN "reason" ELSE None,
     start_time  |-> IF r.start THEN "iso" ELSE None,
     end_time    |-> IF r.end THEN "iso" ELSE None]

RecordFromDict(d) ==
    [status  |-> d.status,
     error   |-> d.error,
     skipped |-> d.skip_reason # None,
     start   |-> d.start_time # None,
     end     |-> d.end_time # None]

\* ExecutionLog.to_dict and from_dict.
LogToDict(rs) == [n \in DOMAIN rs |-> RecordToDict(rs[n])]

LogFromDict(d) == [n \in DOMAIN d |-> RecordFromDict(d[n])]

Settled(n) == records[n].status \in {"succeeded", "failed", "skipped"}

-----------------------------------------------------------------------------
(* The way of a workflow to its run.                                       *)

Absent == [by |-> None, file |-> None, state |-> "absent"]

Imported(m) == [by |-> "import", file |-> OnPath[m], state |-> "whole"]

NoModules == [m \in DOMAIN OnPath |-> Absent]

\* The modules of the callables that tasks are given were imported.
Init ==
    /\ phase = "build"
    /\ job = EmptyWorkflow(None)
    /\ running = EmptyWorkflow(None)
    /\ place = "scheduler"
    /\ cwd = Home.cwd
    /\ main = Home.main
    /\ modules = [p \in Processes |-> NoModules]
    /\ step = [n \in Nodes |-> "none"]
    /\ tries = [n \in Nodes |-> 0]
    /\ calls = [n \in Nodes |-> 0]
    /\ called = [n \in Nodes |-> {}]
    /\ why = [n \in Nodes |-> None]
    /\ given = [n \in Nodes |-> {}]
    /\ records = [n \in Nodes |-> NewRecord]
    /\ log = None
    /\ starts = 0
    /\ faults = 0

HomeOf(c) == IF c.module = "__main__" THEN main ELSE OnPath[c.module]

\* What is called when the callable is.
Itself(c) == [file |-> HomeOf(c), kind |-> c.kind]

AddTask(n, a) ==
    /\ phase = "build"
    /\ CanAddTask(job, n, a)
    /\ job' = WithTask(job, n, a)
    /\ given' = [given EXCEPT ![n] = IF a.func \in Callables THEN {Itself(a.func)}
                                     ELSE {}]
    /\ modules' =
           IF a.func \in Callables /\ a.func.module \in DOMAIN OnPath
           THEN [modules EXCEPT !["scheduler"][a.func.module] = Imported(a.func.module)]
           ELSE modules
    /\ UNCHANGED <<phase, running, place, cwd, main, taskVars, records, log, starts,
                   faults>>

AddEdge(s, t, condition) ==
    /\ phase = "build"
    /\ Len(job.edges) < MaxEdges
    /\ CanAddEdge(job, s, t)
    /\ job' = WithEdge(job, s, t, condition)
    /\ UNCHANGED <<phase, given, running, place, cwd, main, modules, taskVars, records, log,
                   starts, faults>>

Inheriting(w, root) ==
    IF root # None /\ w.root = None THEN [w EXCEPT !.root = root] ELSE w

\* add_job with a store that keeps the object, or with one that writes the
\* document and makes the job of it whenever it is read.
AddJob(written, root) ==
    /\ phase = "build"
    /\ written => HasDict(job)
    /\ LET w == Inheriting(job, root)
       IN  job' = IF written THEN FromDict(ToDict(w)) ELSE w
    /\ phase' = "idle"
    /\ UNCHANGED <<given, running, place, cwd, main, modules, taskVars, records, log, starts,
                   faults>>

\* The scheduler's process is started anew, anywhere, with the jobs it wrote:
\* their tasks have references only.
Restart ==
    /\ phase = "idle"
    /\ starts < MaxStarts
    /\ \A i \in DOMAIN job.nodes : job.nodes[i].spec.func = None
    /\ starts' = starts + 1
    /\ cwd' \in Roots
    /\ main' \in Mains
    /\ modules' = [p \in Processes |-> NoModules]
    /\ UNCHANGED <<phase, job, given, running, place, taskVars, records, log,
                   faults>>

StartRun(p, w) ==
    /\ phase = "idle"
    /\ starts < MaxStarts
    /\ starts' = starts + 1
    /\ phase' = "run"
    /\ place' = p
    /\ running' = w
    /\ step' = [n \in Nodes |-> "none"]
    /\ tries' = [n \in Nodes |-> 0]
    /\ called' = [n \in Nodes |-> {}]
    /\ why' = [n \in Nodes |-> None]
    /\ records' = [n \in Nodes |-> NewRecord]
    /\ log' = None
    /\ UNCHANGED <<job, given, cwd, main, modules, calls, faults>>

\* ThreadPoolExecutor.submit
RunInThread == StartRun("scheduler", job)

\* run_job_in_process: Job.from_dict is given the root that the job had.
WorkerCopy(w) == [FromDict(ToDict(w)) EXCEPT !.root = IF w.root # None THEN w.root ELSE @]

\* ProcessPoolExecutor.submit: to_dict may raise.
RunInWorker == HasDict(job) /\ StartRun("worker", WorkerCopy(job))

-----------------------------------------------------------------------------
(* Resolving a reference: resolve_ref and _load_module_file.               *)

SpecOf(n) == NodeOf(running, n).spec

Root == IF running.root # None THEN running.root ELSE cwd

FileOf(n) == FileAt[Root][SpecOf(n).ref.module]

Entry(m) == modules[place][m]

\* module.exec_module ended: the module is whole, even when it was replaced.
Whole(m, who) ==
    IF Entry(m).by = who
    THEN [modules EXCEPT ![place][m].state = "whole"]
    ELSE modules

\* The attempt ends with an error; _execute_node makes another one.
Fail(n, error) ==
    /\ why' = [why EXCEPT ![n] = error]
    /\ IF tries[n] < NodeOf(running, n).retries
       THEN /\ step' = [step EXCEPT ![n] = "begin"]
            /\ tries' = [tries EXCEPT ![n] = @ + 1]
       ELSE /\ step' = [step EXCEPT ![n] = "failed"]
            /\ UNCHANGED tries

Call(n, function) ==
    /\ step' = [step EXCEPT ![n] = "call"]
    /\ calls' = [calls EXCEPT ![n] = @ + 1]
    /\ called' = [called EXCEPT ![n] = @ \cup {function}]
    /\ UNCHANGED <<tries, why>>

Missing(n, error) == Fail(n, error) /\ UNCHANGED <<calls, called>>

\* getattr on the module: what half of it defines is anybody's guess.
GetAttr(n, file, whole) ==
    LET name == SpecOf(n).ref.name IN
    \/ /\ name \in Defined[file]
       /\ Call(n, [file |-> file, kind |-> name])
    \/ /\ name \notin Defined[file] \/ ~whole
       /\ Missing(n, "unresolved")

Unchanged == UNCHANGED <<phase, placeVars, records, log, starts>>

Begins(n) == phase = "run" /\ step[n] = "begin"

\* PythonCallableRunner.run of a task that has its callable.
CallObject(n) ==
    /\ Begins(n)
    /\ SpecOf(n).func # None
    /\ Call(n, Itself(SpecOf(n).func))
    /\ Unchanged
    /\ UNCHANGED <<modules, faults>>

BeginsReference(n) == Begins(n) /\ SpecOf(n).ref # None

\* There is such a file below the root: it is loaded, whatever was before.
LoadFile(n) ==
    /\ BeginsReference(n)
    /\ FileOf(n) # None
    /\ modules' = [modules EXCEPT ![place][Stem[FileOf(n)]] =
                       [by |-> n, file |-> FileOf(n), state |-> "half"]]
    /\ step' = [step EXCEPT ![n] = "load"]
    /\ Unchanged
    /\ UNCHANGED <<tries, calls, called, why, faults>>

\* Mutant: the module is taken from the table when the file was executed.
LoadedModule(n) == Entry(Stem[FileOf(n)]).file

\* _load_module_file returns the module it made.
OwnModule(n) == FileOf(n)

FileLoaded(n) ==
    /\ phase = "run"
    /\ step[n] = "load"
    /\ modules' = Whole(Stem[FileOf(n)], n)
    /\ GetAttr(n, OwnModule(n), TRUE)
    /\ Unchanged
    /\ UNCHANGED faults

\* The file raises: what it had defined so far stays in the table.
FileRaises(n) ==
    /\ phase = "run"
    /\ step[n] = "load"
    /\ faults < MaxFaults
    /\ faults' = faults + 1
    /\ Missing(n, "raised")
    /\ Unchanged
    /\ UNCHANGED modules

FromMain(n) ==
    /\ BeginsReference(n)
    /\ FileOf(n) = None
    /\ SpecOf(n).ref.module = "__main__"
    /\ GetAttr(n, main, TRUE)
    /\ Unchanged
    /\ UNCHANGED <<modules, faults>>

Imports(n) ==
    /\ BeginsReference(n)
    /\ FileOf(n) = None
    /\ SpecOf(n).ref.module # "__main__"

Importable(m) == m \in DOMAIN OnPath

\* Mutant: what the table has is taken as it is.
InTable(m) == Entry(m) # Absent

\* A module that is being imported is waited for.
Available(m) == Entry(m).state \in {"half", "whole"}

TakeModule(n) ==
    LET m == SpecOf(n).ref.module IN
    /\ Imports(n)
    /\ Importable(m)
    /\ Available(m)
    /\ GetAttr(n, Entry(m).file, Entry(m).state = "whole")
    /\ Unchanged
    /\ UNCHANGED <<modules, faults>>

ImportModule(n) ==
    LET m == SpecOf(n).ref.module IN
    /\ Imports(n)
    /\ Importable(m)
    /\ Entry(m) = Absent
    /\ modules' = [modules EXCEPT ![place][m] =
                       [by |-> "import", file |-> OnPath[m], state |-> "importing"]]
    /\ step' = [step EXCEPT ![n] = "import"]
    /\ Unchanged
    /\ UNCHANGED <<tries, calls, called, why, faults>>

\* Import answers with what the table has for the name by then.
ModuleImported(n) ==
    LET m == SpecOf(n).ref.module
        e == Entry(m)
    IN
    /\ phase = "run"
    /\ step[n] = "import"
    /\ modules' = Whole(m, "import")
    /\ GetAttr(n, e.file, e.state # "half")
    /\ Unchanged
    /\ UNCHANGED faults

\* A module that raises is taken out of the table, whoever put it there.
ImportRaises(n) ==
    /\ phase = "run"
    /\ step[n] = "import"
    /\ faults < MaxFaults
    /\ faults' = faults + 1
    /\ modules' = [modules EXCEPT ![place][SpecOf(n).ref.module] = Absent]
    /\ Missing(n, "raised")
    /\ Unchanged

NoModule(n) ==
    /\ Imports(n)
    /\ ~Importable(SpecOf(n).ref.module)
    /\ Missing(n, "unresolved")
    /\ Unchanged
    /\ UNCHANGED <<modules, faults>>

Resolution(n) ==
    \/ LoadFile(n) \/ FileLoaded(n) \/ FromMain(n)
    \/ TakeModule(n) \/ ImportModule(n) \/ ModuleImported(n) \/ NoModule(n)

-----------------------------------------------------------------------------
(* The runners: a call in this process, or a command in one of its own.    *)

\* BashRunner, PythonFileRunner, PythonSnippetRunner.
RunCommand(n) ==
    /\ Begins(n)
    /\ ~IsPython(SpecOf(n))
    /\ Call(n, [file |-> None, kind |-> SpecOf(n).type])
    /\ Unchanged
    /\ UNCHANGED <<modules, faults>>

\* BashRunner alone looks for its program, in vain where there is no shell.
NoShell(n) ==
    /\ Begins(n)
    /\ SpecOf(n).type = "bash"
    /\ Missing(n, "no shell")
    /\ Unchanged
    /\ UNCHANGED <<modules, faults>>

Calling(n) == phase = "run" /\ step[n] = "call"

\* What was called returned or exited, with an error or without.
Ends(n, good) ==
    /\ calls' = [calls EXCEPT ![n] = @ - 1]
    /\ IF good THEN /\ step' = [step EXCEPT ![n] = "ok"]
                    /\ UNCHANGED <<tries, why>>
               ELSE Fail(n, "raised")
    /\ Unchanged
    /\ UNCHANGED <<modules, called, faults>>

CallReturns(n) == Calling(n) /\ IsPython(SpecOf(n)) /\ \E good \in BOOLEAN : Ends(n, good)

\* With 0 or with another exit code.
CommandExits(n) == Calling(n) /\ ~IsPython(SpecOf(n)) /\ \E good \in BOOLEAN : Ends(n, good)

\* Mutant: only a command that was given a timeout has one.
OwnTimeout(s) == s.timeout # None

\* A call has the timeout of its spec; a command has 300 seconds without one.
HasTimeout(s) == s.timeout # None \/ ~IsPython(s)

CommandExpires(n) ==
    /\ Calling(n)
    /\ ~IsPython(SpecOf(n))
    /\ HasTimeout(SpecOf(n))
    /\ calls' \in {calls, [calls EXCEPT ![n] = @ - 1]}  \* its children are not killed
    /\ Fail(n, "timeout")
    /\ Unchanged
    /\ UNCHANGED <<modules, called, faults>>

\* The call goes on; leaving the pool of _invoke waits for it.
CallExpires(n) ==
    /\ Calling(n)
    /\ IsPython(SpecOf(n))
    /\ HasTimeout(SpecOf(n))
    /\ step' = [step EXCEPT ![n] = "late"]
    /\ Unchanged
    /\ UNCHANGED <<modules, tries, calls, called, why, faults>>

\* A call ends after its time, or the last child of a command that was killed.
LateEnd(n) ==
    /\ calls[n] > 0
    /\ step[n] = "call" => calls[n] > 1
    /\ calls' = [calls EXCEPT ![n] = @ - 1]
    /\ Unchanged
    /\ UNCHANGED <<modules, step, tries, called, why, faults>>

\* Mutant: the pool is left with shutdown(wait=False).
PoolLeft(n) == TRUE

PoolIdle(n) == calls[n] = 0

CallTimedOut(n) ==
    /\ phase = "run"
    /\ step[n] = "late"
    /\ PoolIdle(n)
    /\ Fail(n, "timeout")
    /\ Unchanged
    /\ UNCHANGED <<modules, calls, called, faults>>

-----------------------------------------------------------------------------
(* The run around the tasks, as far as Dataflow promises it.               *)

Pending(n) ==
    /\ phase = "run"
    /\ n \in Ids(running)
    /\ records[n].status = "pending"
    /\ \A m \in Sources(running, n) : Settled(m)

SourcesSucceeded(n) ==
    \A m \in Sources(running, n) : records[m].status = "succeeded"

StartTask(n) ==
    /\ Pending(n)
    /\ SourcesSucceeded(n)
    /\ records' = [records EXCEPT ![n] = MarkStarted(@)]
    /\ step' = [step EXCEPT ![n] = "begin"]
    /\ tries' = [tries EXCEPT ![n] = 1]
    /\ UNCHANGED <<phase, placeVars, modules, calls, called, why, log, starts, faults>>

Conditional(n) ==
    \E i \in DOMAIN running.edges :
        running.edges[i].target = n /\ running.edges[i].condition # None

SkipTask(n) ==
    /\ Pending(n)
    /\ ~SourcesSucceeded(n) \/ Conditional(n)
    /\ records' = [records EXCEPT ![n] = MarkSkipped(@)]
    /\ UNCHANGED <<phase, placeVars, modules, taskVars, log, starts, faults>>

\* _apply_result
ApplyResult(n) ==
    /\ phase = "run"
    /\ step[n] \in {"ok", "failed"}
    /\ step' = [step EXCEPT ![n] = "none"]
    /\ records' = [records EXCEPT ![n] = IF step[n] = "ok" THEN MarkSucceeded(@)
                                         ELSE MarkFailed(@, why[n])]
    /\ UNCHANGED <<phase, placeVars, modules, tries, calls, called, why, log, starts,
                   faults>>

\* The executor's _handle: the log of a worker comes as a document.
Finish ==
    /\ phase = "run"
    /\ \A n \in Ids(running) : Settled(n)
    /\ phase' = "idle"
    /\ log' = IF place = "worker" THEN LogFromDict(LogToDict(records)) ELSE records
    /\ UNCHANGED <<placeVars, modules, taskVars, records, starts, faults>>

-----------------------------------------------------------------------------
Engine(n) == StartTask(n) \/ SkipTask(n) \/ ApplyResult(n)

\* What goes on by itself: the code of the package, import, and the timers.
Runner(n) ==
    \/ CallObject(n) \/ Resolution(n) \/ RunCommand(n) \/ NoShell(n)
    \/ CommandExpires(n) \/ CallTimedOut(n)

\* What the user's code does, or does not do.
UserCode(n) ==
    \/ CallReturns(n) \/ CommandExits(n)
    \/ CallExpires(n) \/ LateEnd(n) \/ FileRaises(n) \/ ImportRaises(n)

Next ==
    \/ \E n \in Nodes : \E a \in TaskChoices[n] : AddTask(n, a)
    \/ \E s, t \in Nodes, c \in Conditions : AddEdge(s, t, c)
    \/ \E written \in BOOLEAN, root \in SchedulerRoots : AddJob(written, root)
    \/ Restart \/ RunInThread \/ RunInWorker
    \/ \E n \in Nodes : Engine(n) \/ Runner(n) \/ UserCode(n)
    \/ Finish

Spec == Init /\ [][Next]_vars

(***************************************************************************)
(* The threads of a run go on by themselves and subprocess.run watches the *)
(* time.  Nothing makes a user's function return or a command exit.        *)
(***************************************************************************)
Fairness == \A n \in Nodes : WF_vars(Engine(n)) /\ WF_vars(Runner(n))

FairSpec == Spec /\ Fairness
-----------------------------------------------------------------------------
(* Properties.                                                             *)

\* What a document leaves of a task: its function, by name.
Kept(s) == IF IsPython(s) THEN SpecToDict(s) ELSE s

(***************************************************************************)
(* A workflow whose callables all have references survives being saved: it *)
(* loads without an error, with its nodes and edges in their order, every  *)
(* task with its function, text, retries and timeout, and saved again it   *)
(* gives the same document.  The log that a worker process sends back says *)
(* what the worker recorded.                                               *)
(***************************************************************************)
SurvivesSaving ==
    /\ phase # "run" /\ HasDict(job) =>
           LET d == ToDict(job)
               w == FromDict(d)
           IN  /\ Loads(d)
               /\ ToDict(w) = d
               /\ w.root = job.root
               /\ Deps(w) = Deps(job)
               /\ \A i \in DOMAIN job.nodes :
                      /\ w.nodes[i].id = job.nodes[i].id
                      /\ w.nodes[i].retries = job.nodes[i].retries
                      /\ Kept(w.nodes[i].spec) = Kept(job.nodes[i].spec)
    /\ phase = "idle" /\ log # None => log = records

\* The file that a fresh process would resolve the reference of a node in.
FileMeant(n) ==
    LET m == SpecOf(n).ref.module IN
    IF FileAt[Root][m] # None THEN FileAt[Root][m]
    ELSE IF m = "__main__" THEN main
    ELSE IF Importable(m) THEN OnPath[m]
    ELSE None

(***************************************************************************)
(* A file of another directory, loaded below the root, has taken the name  *)
(* of the module: sys.modules[candidate.stem] = module.                    *)
(***************************************************************************)
NameTaken(n) ==
    \E m \in DOMAIN FileAt[Root] :
        /\ FileAt[Root][m] # None
        /\ Stem[FileAt[Root][m]] = SpecOf(n).ref.module

\* The names references of callables go astray by: of an instance there is only
\* its class, and a file below the root goes before the module of that name.
Astray(n) ==
    \/ SpecOf(n).ref.name \in {"unbound method", "class"}
    \/ SpecOf(n).ref.module = "__main__"
    \/ FileAt[Root][SpecOf(n).ref.module] # None

Meant(n) ==
    IF given[n] # {} THEN given[n]
    ELSE {[file |-> FileMeant(n), kind |-> SpecOf(n).ref.name]}

(***************************************************************************)
(* A task calls the function it was given: also when a reference was made  *)
(* of it, in another process, and whatever the process has resolved before *)
(* and its other threads resolve meanwhile.  Not so a module to be         *)
(* imported under a name that files below the root are loaded as, and the  *)
(* callables whose references go astray.                                   *)
(***************************************************************************)
RightFunction ==
    phase = "run" =>
        \A n \in Ids(running) :
            IsPython(SpecOf(n)) =>
                \/ called[n] \subseteq Meant(n)
                \/ SpecOf(n).ref # None /\ NameTaken(n)
                \/ SpecOf(n).ref # None /\ given[n] # {} /\ Astray(n)

(***************************************************************************)
(* "Could not resolve reference" is said only of references to nothing,    *)
(* again unless files below the root are loaded under the module's name.   *)
(***************************************************************************)
UnresolvedIsMissing ==
    phase = "run" =>
        \A n \in Ids(running) :
            why[n] = "unresolved" /\ ~NameTaken(n) =>
                \/ FileMeant(n) = None
                \/ SpecOf(n).ref.name \notin Defined[FileMeant(n)]

(***************************************************************************)
(* A function that is over time is not abandoned: its next attempt starts, *)
(* and its node is settled, only when the call has ended.  (The children   *)
(* of a command that was killed may go on.)                                *)
(***************************************************************************)
AttemptsApart ==
    phase = "run" =>
        \A n \in Ids(running) :
            IsPython(SpecOf(n)) =>
                /\ calls[n] <= 1
                /\ Settled(n) => calls[n] = 0

(***************************************************************************)
(* A command that hangs fails after its attempts: it always has a timeout, *)
(* while a function may hang for good, timeout or not.                     *)
(***************************************************************************)
CommandsEnd ==
    \A n \in Nodes :
        (step[n] # "none" /\ ~IsPython(SpecOf(n))) ~> (phase = "run" => Settled(n))
-----------------------------------------------------------------------------
(* Types.                                                                  *)

Args == UNION {TaskChoices[n] : n \in Nodes}

Texts == {a.text : a \in Args} \cup {None}

Timeouts == {a.timeout : a \in Args} \cup {None}

Specs == [type : TaskTypes, ref : References \cup {None},
          func : Callables \cup {None}, text : Texts, timeout : Timeouts]

OptionalSpecs == CallableSpecs \cup {None}

NodeRecords == [id : Nodes, spec : Specs, retries : Nat \ {0},
                on_success : OptionalSpecs, on_failure : OptionalSpecs]

EdgeRecords == [source : Nodes, target : Nodes, condition : OptionalSpecs]

Workflows == [root : Roots \cup {None}, nodes : Seq(NodeRecords),
              edges : Seq(EdgeRecords)]

Steps == {"none", "begin", "load", "import", "call", "late", "ok", "failed"}

Errors == {None, "unresolved", "raised", "timeout", "no shell"}

Records ==
    [status : {"pending", "running", "succeeded", "failed", "skipped"},
     error : Errors, skipped : BOOLEAN, start : BOOLEAN, end : BOOLEAN]

\* The variables have their types (the entries of modules see ModulesClean).
TypeOK ==
    /\ phase \in {"build", "idle", "run"}
    /\ job \in Workflows
    /\ running \in Workflows
    /\ place \in Processes
    /\ cwd \in Roots
    /\ step \in [Nodes -> Steps]
    /\ tries \in [Nodes -> Nat]
    /\ calls \in [Nodes -> Nat]
    /\ DOMAIN called = Nodes
    /\ why \in [Nodes -> Errors]
    /\ DOMAIN given = Nodes
    /\ records \in [Nodes -> Records]

-----------------------------------------------------------------------------
(* Why these properties hold, inductively.  First, workflows: the ids of   *)
(* its tasks are distinct, each has a callable or a reference or a text,   *)
(* the edges are acyclic.  What runs has the tasks of the job.             *)

SoundSpec(s) ==
    IF IsPython(s) THEN (s.func = None) # (s.ref = None)
                   ELSE s.func = None /\ s.ref = None /\ s.text # None

SoundWorkflow(w) ==
    /\ \A i, k \in DOMAIN w.nodes : w.nodes[i].id = w.nodes[k].id => i = k
    /\ \A i \in DOMAIN w.nodes : SoundSpec(w.nodes[i].spec)
    /\ \A i \in DOMAIN w.edges : {w.edges[i].source, w.edges[i].target} \subseteq Ids(w)
    /\ Acyclic(Deps(w))

SameTasks(v, w) ==
    /\ Len(v.nodes) = Len(w.nodes)
    /\ \A i \in DOMAIN v.nodes :
           /\ v.nodes[i].id = w.nodes[i].id
           /\ v.nodes[i].spec.type = w.nodes[i].spec.type

\* What a task calls, or names, is what it was given, or goes astray.
FromGiven(w) ==
    \A i \in DOMAIN w.nodes :
        LET s == w.nodes[i].spec
            g == given[w.nodes[i].id]
        IN  /\ s.func # None => g = {Itself(s.func)}
            /\ s.ref # None =>
                  \/ g = {}
                  \/ s.ref.name \in {"unbound method", "class"}
                  \/ s.ref.module = "__main__"
                  \/ g = {[file |-> OnPath[s.ref.module], kind |-> s.ref.name]}

WorkflowInv ==
    /\ SoundWorkflow(job)
    /\ FromGiven(job)
    /\ phase = "run" => /\ SoundWorkflow(running)
                        /\ running.root = job.root
                        /\ SameTasks(running, job)
                        /\ FromGiven(running)
    /\ phase = "build" => log = None
    /\ phase = "idle" /\ log # None => log = records

OneCall(s, k) ==
    CASE s = "call" -> k = 1
      [] s = "late" -> k <= 1
      [] OTHER      -> k = 0

\* Second, attempts: a task that is not running has no step, and a function
\* that is called is the only one of its node.
AttemptsInv ==
    /\ \A n \in Nodes :
           /\ step[n] # "none" => phase = "run" /\ n \in Ids(running)
           /\ step[n] = "none" <=> records[n].status # "running"
           /\ step[n] = "call" => calls[n] > 0
           /\ n \notin Ids(job) => calls[n] = 0
    /\ \A i \in DOMAIN job.nodes :
           LET n == job.nodes[i].id IN
           IsPython(job.nodes[i].spec) => OneCall(step[n], calls[n])

\* Third, modules: a table has of a name nothing, or what an import put there,
\* unless a file below the root was loaded under that name.
JobRoot == IF job.root # None THEN job.root ELSE cwd

LoadedAs(m) ==
    \E f \in DOMAIN FileAt[JobRoot] :
        FileAt[JobRoot][f] # None /\ Stem[FileAt[JobRoot][f]] = m

Importing(m) == [by |-> "import", file |-> OnPath[m], state |-> "importing"]

ModulesClean ==
    /\ DOMAIN modules = Processes
    /\ \A p \in Processes :
           /\ DOMAIN modules[p] = DOMAIN OnPath
           /\ \A m \in DOMAIN OnPath :
                  \/ phase # "build" /\ LoadedAs(m)
                  \/ modules[p][m] \in {Absent, Imported(m), Importing(m)}

LoadInv ==
    \A n \in Nodes :
        step[n] = "load" => SpecOf(n).ref # None /\ FileOf(n) # None

ImportInv ==
    \A n \in Nodes :
        step[n] = "import" =>
            LET m == SpecOf(n).ref.module IN
            /\ SpecOf(n).ref # None
            /\ FileOf(n) = None
            /\ m # "__main__"
            /\ Importable(m)
            /\ \/ LoadedAs(m)
               \/ /\ Entry(m) = Importing(m)
                  /\ \A k \in Nodes :
                         step[k] = "import" /\ SpecOf(k).ref.module = m => k = n

ResolveInv ==
    ModulesClean /\ LoadInv /\ ImportInv /\ RightFunction /\ UnresolvedIsMissing

(***************************************************************************)
(* The inductive invariant behind all of them: a workflow that runs has    *)
(* the tasks that were built, attempts do not overlap, and no entry of     *)
(* sys.modules is another file's unless a file below the root took it.     *)
(***************************************************************************)
TasksInv == WorkflowInv /\ AttemptsInv /\ ResolveInv
=============================================================================
