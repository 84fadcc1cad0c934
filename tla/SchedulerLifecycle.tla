-------------------------- MODULE SchedulerLifecycle --------------------------
(***************************************************************************)
(* Starting, pausing, stopping and restarting a Scheduler, and exchanging  *)
(* its executors while it runs.                                            *)
(*                                                                         *)
(* Actors                                                                  *)
(*   - the main loop threads: start makes a new one each time, and an      *)
(*     earlier one may still be alive;                                     *)
(*   - the threads of the executors, which run jobs and their callbacks;   *)
(*   - API threads, whose lifecycle calls take no lock at all and whose    *)
(*     component calls hold Scheduler._lock for a part of their work.      *)
(*                                                                         *)
(* What a pass does with one job is one step here; JobScheduler takes it   *)
(* apart.  Jobs have max_instances 1.                                      *)
(***************************************************************************)
EXTENDS Integers, Sequences, FiniteSets

CONSTANTS
    Jobs,       \* job ids
    Alias,      \* executor alias of each job
    Aliases,    \* executor aliases, "default" among them
    Kinds,      \* kinds of the executor the scheduler is made with
    NewKinds,   \* kinds that a component call may ask for
    Callers,    \* API threads
    Ops,        \* operations each of them uses
    MaxCalls,   \* bound on the number of calls
    MaxLoops,   \* bound on the number of times the scheduler is started
    MaxInst,    \* bound on the number of executor instances
    MaxDue,     \* bound on the number of times a job becomes due
    MaxFaults   \* bound on the number of store reads that fail

None == 0

LifecycleOps == {"start", "shutdown", "pause", "resume"}
ComponentOps == {"add", "set", "update", "remove"}

(***************************************************************************)
(* "pool" is ThreadPoolExecutor, ProcessPoolExecutor and TornadoExecutor;  *)
(* "unknown" is a plugin name that is not registered.                      *)
(***************************************************************************)
AllKinds == {"pool", "debug", "asyncio", "gevent", "twisted"}

ASSUME SetsAssumption   == IsFiniteSet(Jobs) /\ IsFiniteSet(Aliases)
ASSUME AliasAssumption  == "default" \in Aliases /\ Alias \in [Jobs -> Aliases]
ASSUME KindsAssumption  == Kinds \subseteq AllKinds
                           /\ NewKinds \subseteq AllKinds \cup {"unknown"}
ASSUME OpsAssumption    == Ops \in [Callers -> SUBSET (LifecycleOps \cup ComponentOps)]
ASSUME NoneAssumption   == None \notin Callers
ASSUME BoundsAssumption ==
    {MaxCalls, MaxLoops, MaxInst, MaxDue, MaxFaults} \subseteq Nat

VARIABLES
    state,      \* Scheduler.state
    stop,       \* _stop_event
    wake,       \* _wakeup_event
    loops,      \* the main loop threads, in the order they were started
    lock,       \* the call that keeps _lock over several steps, or None
    executors,  \* _executors: an index of insts for each alias, or None
    insts,      \* the executor instances ever made
    due,        \* jobs whose run time has come
    busy,       \* jobs that _running counts a run of
    runs,       \* the runs that were counted, in order, and their phase
    calls,      \* what each API thread is doing
    called,     \* number of calls so far
    dues,       \* number of times a job became due
    faults,     \* number of failed store reads
    irregular   \* ghost: what happened that the lifecycle does not expect

schedVars == <<state, stop, wake, loops, lock>>
workVars  == <<due, busy, runs>>
vars == <<schedVars, executors, insts, workVars, calls, called, dues, faults,
          irregular>>

-----------------------------------------------------------------------------
(* Executors: core/executor.py and core/async_executors.py.                *)

Instance(kind) == [kind |-> kind, phase |-> "new"]

(***************************************************************************)
(* Executor.start.  Only asyncio makes what shutdown took away again; a    *)
(* pool stays shut, and gevent's _stop event stays set, so that the new    *)
(* hub thread ends at once.                                                *)
(***************************************************************************)
Started(e) ==
    CASE e.phase = "new" -> [e EXCEPT !.phase = "started"]
      [] e.kind = "asyncio" -> [e EXCEPT !.phase = "started"]
      [] e.kind = "gevent" /\ e.phase = "shut" -> [e EXCEPT !.phase = "dead"]
      [] OTHER -> e

\* Executor.shutdown; the debug and twisted executors inherit an empty one.
ShutDown(e) ==
    IF e.kind \in {"debug", "twisted"} THEN e ELSE [e EXCEPT !.phase = "shut"]

(***************************************************************************)
(* Executor.submit: the phases of a run it may leave behind.  "refused" is *)
(* an exception; "lost" is a greenlet handed to a hub that nobody runs.    *)
(***************************************************************************)
Submitted(e) ==
    CASE e.kind = "debug" -> {"running"}
      [] e.kind = "pool" -> IF e.phase = "shut" THEN {"refused"} ELSE {"queued"}
      [] e.kind = "twisted" -> IF e.phase = "new" THEN {"refused"} ELSE {"queued"}
      [] e.kind = "asyncio" -> IF e.phase = "started" THEN {"queued"}
                                                      ELSE {"refused"}
      [] e.kind = "gevent" -> CASE e.phase = "started" -> {"queued"}
                                [] e.phase = "dead" -> {"refused", "lost"}
                                [] OTHER -> {"refused"}

Over == {"reported", "unreported", "lost", "refused"}

RunsOf(x) == {i \in DOMAIN runs : runs[i].inst = x}

AllOver(x) == \A i \in RunsOf(x) : runs[i].phase \in Over

(***************************************************************************)
(* What a shutdown of instance x does to the runs it has not begun: a      *)
(* stopped asyncio loop or gevent hub drops some of them, a pool none.     *)
(***************************************************************************)
Dropped(x) ==
    {S \in SUBSET {i \in RunsOf(x) : runs[i].phase = "queued"} :
        insts[x].kind \in {"asyncio", "gevent"} \/ S = {}}

\* Mutant: the pool is not waited for.
NeverWaits(x) == FALSE

\* shutdown(wait=True) of a pool joins its threads, callbacks included; those
\* of asyncio and gevent give up after five seconds.
WaitsForRuns(x) == insts[x].kind = "pool"

Shut(x) ==
    /\ insts' = [insts EXCEPT ![x] = ShutDown(@)]
    /\ \E S \in Dropped(x) :
          runs' = [i \in DOMAIN runs |->
                      IF i \in S THEN [runs[i] EXCEPT !.phase = "lost"]
                                 ELSE runs[i]]
-----------------------------------------------------------------------------
(* Runs: the executor's thread and the done-callback.                      *)

RunBegins(i) ==
    /\ runs[i].phase = "queued"
    /\ insts[runs[i].inst].kind \in {"asyncio", "gevent"} =>
           \A k \in RunsOf(runs[i].inst) : runs[k].phase # "running"
    /\ runs' = [runs EXCEPT ![i].phase = "running"]
    /\ UNCHANGED <<schedVars, executors, insts, due, busy, calls, called, dues,
                   faults, irregular>>

\* Mutant: the count is not lowered.
StillBusy(j) == busy

\* _on_job_finished lowers the count of the job.
NotBusy(j) == busy \ {j}

\* An executor that was registered but not started has no _scheduler yet: the
\* callback raises AttributeError, and nothing is lowered or logged.
RunEnds(i) ==
    /\ runs[i].phase = "running"
    /\ IF insts[runs[i].inst].phase = "new"
       THEN /\ runs' = [runs EXCEPT ![i].phase = "unreported"]
            /\ UNCHANGED busy
       ELSE /\ runs' = [runs EXCEPT ![i].phase = "callback"]
            /\ busy' = NotBusy(runs[i].job)
    /\ UNCHANGED <<schedVars, executors, insts, due, calls, called, dues,
                   faults, irregular>>

\* ... and stores the log under _lock.
RunReported(i) ==
    /\ runs[i].phase = "callback"
    /\ lock = None
    /\ runs' = [runs EXCEPT ![i].phase = "reported"]
    /\ UNCHANGED <<schedVars, executors, insts, due, busy, calls, called, dues,
                   faults, irregular>>

RunStep(i) == RunBegins(i) \/ RunEnds(i) \/ RunReported(i)
-----------------------------------------------------------------------------
(* The main loop threads: _main_loop, _process_due, _run_due_job.          *)

Loop == [pc |-> "top", picked |-> {}, run |-> None]

Live(l) == loops[l].pc \notin {"ended", "failed"}

Goto(l, pc) == loops' = [loops EXCEPT ![l].pc = pc]

\* Mutants: the wait has no timeout; only the paused state lets a pass begin.
WaitsForWakeup == wake
PassOnlyPaused == state = "paused"

\* Event.wait(wait_seconds), 60 seconds at most, ends either way.
WaitIsOver == wake \/ TRUE

MayPass == state = "running"

\* The thread begins, or its wait is over: the tests of _stop_event and state.
LoopTop(l) ==
    /\ loops[l].pc = "top" \/ (loops[l].pc = "wait" /\ WaitIsOver)
    /\ Goto(l, IF stop THEN "ended" ELSE IF MayPass THEN "collect" ELSE "scan")
    /\ UNCHANGED <<state, stop, wake, lock, executors, insts, workVars, calls,
                   called, dues, faults, irregular>>

\* Where a pass that still has the jobs S to handle goes on.
InPass(S) == [pc |-> IF S = {} THEN "scan" ELSE "pass", picked |-> S, run |-> None]

LoopCollect(l) ==
    /\ loops[l].pc = "collect"
    /\ lock = None
    /\ loops' = [loops EXCEPT ![l] = InPass(due)]
    /\ UNCHANGED <<state, stop, wake, lock, executors, insts, workVars, calls,
                   called, dues, faults, irregular>>

\* A run is counted: the job is turned away and stays due.
PassRejects(l, j) ==
    /\ loops[l].pc = "pass"
    /\ j \in loops[l].picked \cap busy
    /\ loops' = [loops EXCEPT ![l] = InPass(@.picked \ {j})]
    /\ UNCHANGED <<state, stop, wake, lock, executors, insts, workVars, calls,
                   called, dues, faults, irregular>>

\* A job whose alias is not there goes to the default executor.
ExecutorOf(j) == IF executors[Alias[j]] # None THEN executors[Alias[j]]
                                               ELSE executors["default"]

(***************************************************************************)
(* The job is advanced, counted and submitted.  An exception from submit   *)
(* ends the pass, the debug executor runs the job on this thread.          *)
(***************************************************************************)
PassSubmits(l, j) ==
    /\ loops[l].pc = "pass"
    /\ j \in loops[l].picked \ busy
    /\ due' = due \ {j}
    /\ busy' = busy \cup {j}
    /\ LET x == ExecutorOf(j) IN
       \E phase \in Submitted(insts[x]) :
          /\ runs' = Append(runs, [job |-> j, inst |-> x, phase |-> phase,
                                   at |-> insts[x].phase])
          /\ loops' = [loops EXCEPT ![l] =
                CASE phase = "refused" -> InPass({})
                  [] phase = "running" -> [pc |-> "inline", picked |-> @.picked \ {j},
                                           run |-> Len(runs) + 1]
                  [] OTHER -> InPass(@.picked \ {j})]
    /\ UNCHANGED <<state, stop, wake, lock, executors, insts, calls, called, dues,
                   faults, irregular>>

\* The debug executor returns, or its missing _scheduler raises.
InlineReturns(l) ==
    /\ loops[l].pc = "inline"
    /\ runs[loops[l].run].phase \in Over
    /\ loops' = [loops EXCEPT ![l] =
          InPass(IF runs[@.run].phase = "reported" THEN @.picked ELSE {})]
    /\ UNCHANGED <<state, stop, wake, lock, executors, insts, workVars, calls,
                   called, dues, faults, irregular>>

\* The scan for the next run time.
LoopScan(l) ==
    /\ loops[l].pc = "scan"
    /\ lock = None
    /\ Goto(l, "clear")
    /\ UNCHANGED <<state, stop, wake, lock, executors, insts, workVars, calls,
                   called, dues, faults, irregular>>

\* A store raises in that scan, which no handler surrounds: the thread ends.
LoopFails(l) ==
    /\ loops[l].pc = "scan"
    /\ lock = None
    /\ faults < MaxFaults
    /\ faults' = faults + 1
    /\ Goto(l, "failed")
    /\ irregular' = irregular \cup {"failed"}
    /\ UNCHANGED <<state, stop, wake, lock, executors, insts, workVars, calls,
                   called, dues>>

\* A wake-up that came since the scan is forgotten.
LoopClear(l) ==
    /\ loops[l].pc = "clear"
    /\ wake' = FALSE
    /\ Goto(l, "wait")
    /\ UNCHANGED <<state, stop, lock, executors, insts, workVars, calls, called,
                   dues, faults, irregular>>

LoopStep(l) ==
    \/ LoopTop(l) \/ LoopCollect(l) \/ InlineReturns(l) \/ LoopScan(l) \/ LoopClear(l)
    \/ \E j \in Jobs : PassRejects(l, j) \/ PassSubmits(l, j)

JobDue(j) ==
    /\ j \notin due
    /\ dues < MaxDue
    /\ due' = due \cup {j}
    /\ dues' = dues + 1
    /\ UNCHANGED <<schedVars, executors, insts, busy, runs, calls, called, faults,
                   irregular>>
-----------------------------------------------------------------------------
(* API calls.  A call's record holds its program counter and its locals.   *)

Idle == [op |-> "none", pc |-> "idle", inst |-> None, alias |-> "default",
         kind |-> "pool", seen |-> {}, size |-> 0, wait |-> TRUE]

Registered == {a \in Aliases : executors[a] # None}

CallsOf(ops) == {c \in Callers : calls[c].op \in ops}

\* Two calls of which one is start or shutdown are under way at once.
Overlap(op) ==
    IF \/ op \in {"start", "shutdown"} /\ CallsOf(LifecycleOps) # {}
       \/ op \in LifecycleOps /\ CallsOf({"start", "shutdown"}) # {}
    THEN {"overlap"} ELSE {}

Begin(c, op, call) ==
    /\ op \in Ops[c]
    /\ calls[c].op = "none"
    /\ called < MaxCalls
    /\ called' = called + 1
    /\ calls' = [calls EXCEPT ![c] = call]
    /\ irregular' = irregular \cup Overlap(op)

Return(c) == calls' = [calls EXCEPT ![c] = Idle]

\* Mutant: start does not look at the state.
AlwaysMayStart == TRUE

MayStart == state = "stopped"

\* start: ValueError unless stopped.  Then the executors, one by one.
BeginStart(c) ==
    /\ MayStart
    /\ Len(loops) < MaxLoops
    /\ Begin(c, "start", [Idle EXCEPT !.op = "start", !.pc = "each",
                                      !.size = Cardinality(Registered)])
    /\ UNCHANGED <<schedVars, executors, insts, workVars, dues, faults>>

\* The dictionary changed its size while start or shutdown iterates over it.
Resized(c) ==
    /\ calls[c].pc = "each"
    /\ calls[c].size # Cardinality(Registered)
    /\ Return(c)
    /\ irregular' = irregular \cup {"resized"}
    /\ UNCHANGED <<schedVars, executors, insts, workVars, called, dues, faults>>

EachGoesOn(c, a) ==
    /\ calls[c].pc = "each"
    /\ calls[c].size = Cardinality(Registered)
    /\ a \in Registered \ calls[c].seen

StartEach(c, a) ==
    /\ calls[c].op = "start"
    /\ EachGoesOn(c, a)
    /\ insts' = [insts EXCEPT ![executors[a]] = Started(@)]
    /\ calls' = [calls EXCEPT ![c].seen = @ \cup {a}]
    /\ UNCHANGED <<schedVars, executors, workVars, called, dues, faults, irregular>>

EachDone(c) ==
    /\ calls[c].pc = "each"
    /\ calls[c].size = Cardinality(Registered)
    /\ Registered \subseteq calls[c].seen

\* start(paused=...) sets the state ...
StartState(c) ==
    /\ calls[c].op = "start"
    /\ EachDone(c)
    /\ state' \in {"running", "paused"}
    /\ calls' = [calls EXCEPT ![c].pc = "thread"]
    /\ UNCHANGED <<stop, wake, loops, lock, executors, insts, workVars, called,
                   dues, faults, irregular>>

\* ... then clears the events and starts a thread.
StartThread(c) ==
    /\ calls[c].pc = "thread"
    /\ stop' = FALSE
    /\ wake' = FALSE
    /\ loops' = Append(loops, Loop)
    /\ Return(c)
    /\ UNCHANGED <<state, lock, executors, insts, workVars, called, dues, faults,
                   irregular>>

BeginShutdown(c) ==
    /\ state # "stopped"
    /\ \E wait \in BOOLEAN :
          Begin(c, "shutdown", [Idle EXCEPT !.op = "shutdown", !.pc = "join",
                                            !.wait = wait])
    /\ stop' = TRUE
    /\ wake' = TRUE
    /\ UNCHANGED <<state, loops, lock, executors, insts, workVars, dues, faults>>

\* The thread has ended, or the join gives up: after 10 seconds, or at once.
Join(c) ==
    /\ calls[c].pc = "join"
    /\ irregular' = irregular \cup
          (IF loops # <<>> /\ Live(Len(loops)) THEN {"abandoned"} ELSE {})
    /\ calls' = [calls EXCEPT ![c].pc = "each", ![c].size = Cardinality(Registered)]
    /\ UNCHANGED <<schedVars, executors, insts, workVars, called, dues, faults>>

ShutEach(c, a) ==
    /\ calls[c].op = "shutdown"
    /\ EachGoesOn(c, a)
    /\ Shut(executors[a])
    /\ calls' = [calls EXCEPT ![c].seen = @ \cup {a}, ![c].inst = executors[a],
                              ![c].pc = "drain"]
    /\ UNCHANGED <<schedVars, executors, due, busy, called, dues, faults, irregular>>

\* The executor's shutdown returns.
Drained(c) ==
    \/ ~calls[c].wait
    \/ WaitsForRuns(calls[c].inst) => AllOver(calls[c].inst)

ShutNext(c) ==
    /\ calls[c].op = "shutdown"
    /\ calls[c].pc = "drain"
    /\ Drained(c)
    /\ calls' = [calls EXCEPT ![c].pc = "each", ![c].inst = None]
    /\ UNCHANGED <<schedVars, executors, insts, workVars, called, dues, faults,
                   irregular>>

\* Mutant: the state is left as it was.
StateAfterShutdown == state

ShutdownState == "stopped"

ShutdownDone(c) ==
    /\ calls[c].op = "shutdown"
    /\ EachDone(c)
    /\ state' = ShutdownState
    /\ irregular' = irregular \cup (IF calls[c].wait THEN {} ELSE {"no wait"})
    /\ Return(c)
    /\ UNCHANGED <<stop, wake, loops, lock, executors, insts, workVars, called,
                   dues, faults>>

\* pause and resume test the state and then set it.
BeginPause(c) ==
    /\ state # "stopped"
    /\ \E op \in {"pause", "resume"} :
          Begin(c, op, [Idle EXCEPT !.op = op, !.pc = "set"])
    /\ UNCHANGED <<schedVars, executors, insts, workVars, dues, faults>>

PauseState(c) ==
    /\ calls[c].op \in {"pause", "resume"}
    /\ state' = IF calls[c].op = "pause" THEN "paused" ELSE "running"
    /\ wake' = (wake \/ calls[c].op = "resume")
    /\ Return(c)
    /\ UNCHANGED <<stop, loops, lock, executors, insts, workVars, called, dues,
                   faults, irregular>>

\* _executors[alias] = instance; afterwards it is started, without the lock.
Register(a, kind) ==
    /\ Len(insts) < MaxInst
    /\ insts' = Append(insts, Instance(kind))
    /\ executors' = [executors EXCEPT ![a] = Len(insts) + 1]

Starting(op) == [Idle EXCEPT !.op = op, !.pc = "starting",
                             !.inst = Len(insts) + 1]

\* add_executor: ValueError when the alias is taken or the plugin unknown.
AddExecutor(c, a) ==
    /\ lock = None
    /\ executors[a] = None
    /\ \E kind \in NewKinds \ {"unknown"} : Register(a, kind)
    /\ Begin(c, "add", Starting("add"))
    /\ UNCHANGED <<schedVars, workVars, dues, faults>>

\* set_executor: no lock, and the executor it replaces is not shut down.
SetExecutor(c, a) ==
    /\ \E kind \in NewKinds \ {"unknown"} : Register(a, kind)
    /\ Begin(c, "set", Starting("set"))
    /\ UNCHANGED <<schedVars, workVars, dues, faults>>

\* Once _lock is free again, the state decides whether it is started.
StartNew(c) ==
    /\ calls[c].pc = "starting"
    /\ insts' = IF state # "stopped"
                THEN [insts EXCEPT ![calls[c].inst] = Started(@)] ELSE insts
    /\ Return(c)
    /\ UNCHANGED <<schedVars, executors, workVars, called, dues, faults, irregular>>

\* update_executor takes _lock and, unless stopped, shuts the old one down ...
BeginUpdate(c, a) ==
    /\ lock = None
    /\ lock' = c
    /\ executors[a] # None
    /\ Len(insts) < MaxInst
    /\ \E kind \in NewKinds :
          Begin(c, "update", [Idle EXCEPT !.op = "update", !.pc = "drain",
                                 !.alias = a, !.kind = kind, !.inst = executors[a]])
    /\ IF state # "stopped" THEN Shut(executors[a]) ELSE UNCHANGED <<insts, runs>>
    /\ UNCHANGED <<state, stop, wake, loops, executors, due, busy, dues, faults>>

\* An old executor that was not shut down is not waited for.
UpdateDrained(c) ==
    insts[calls[c].inst].phase = "shut" => Drained(c)

\* ... then makes the new one: ValueError for a plugin that is unknown.
UpdateReplaces(c) ==
    /\ calls[c].op = "update"
    /\ calls[c].pc = "drain"
    /\ UpdateDrained(c)
    /\ lock' = None
    /\ IF calls[c].kind = "unknown"
       THEN Return(c) /\ UNCHANGED <<executors, insts>>
       ELSE /\ Register(calls[c].alias, calls[c].kind)
            /\ calls' = [calls EXCEPT ![c] = Starting("update")]
    /\ UNCHANGED <<state, stop, wake, loops, workVars, called, dues, faults,
                   irregular>>

\* Mutant: the lock is kept while the executor is shut down.
LockWhileRemoving(c) == c

\* remove_executor lets go of _lock before it shuts the executor down.
LockAfterRemoval(c) == None

\* remove_executor(force=True), as jobs refer to the executor.
RemoveExecutor(c, a) ==
    /\ lock = None
    /\ a # "default"
    /\ executors[a] # None
    /\ executors' = [executors EXCEPT ![a] = None]
    /\ lock' = LockAfterRemoval(c)
    /\ Begin(c, "remove", [Idle EXCEPT !.op = "remove", !.pc = "shut",
                                       !.inst = executors[a]])
    /\ UNCHANGED <<state, stop, wake, loops, insts, workVars, dues, faults>>

RemoveShuts(c) ==
    /\ calls[c].pc = "shut"
    /\ Shut(calls[c].inst)
    /\ calls' = [calls EXCEPT ![c].pc = "drain"]
    /\ UNCHANGED <<schedVars, executors, due, busy, called, dues, faults, irregular>>

RemoveDone(c) ==
    /\ calls[c].op = "remove"
    /\ calls[c].pc = "drain"
    /\ Drained(c)
    /\ lock' = IF lock = c THEN None ELSE lock
    /\ Return(c)
    /\ UNCHANGED <<state, stop, wake, loops, executors, insts, workVars, called,
                   dues, faults, irregular>>

CallBegins(c) ==
    \/ BeginStart(c) \/ BeginShutdown(c) \/ BeginPause(c)
    \/ \E a \in Aliases : \/ AddExecutor(c, a) \/ SetExecutor(c, a)
                          \/ BeginUpdate(c, a) \/ RemoveExecutor(c, a)

CallStep(c) ==
    \/ Resized(c) \/ StartState(c) \/ StartThread(c) \/ Join(c) \/ ShutNext(c)
    \/ ShutdownDone(c) \/ PauseState(c) \/ StartNew(c) \/ UpdateReplaces(c)
    \/ RemoveShuts(c) \/ RemoveDone(c)
    \/ \E a \in Aliases : StartEach(c, a) \/ ShutEach(c, a)
-----------------------------------------------------------------------------
Init ==
    /\ state = "stopped"
    /\ stop = FALSE
    /\ wake = FALSE
    /\ loops = <<>>
    /\ lock = None
    /\ executors = [a \in Aliases |-> IF a = "default" THEN 1 ELSE None]
    /\ \E kind \in Kinds : insts = <<Instance(kind)>>
    /\ due = {}
    /\ busy = {}
    /\ runs = <<>>
    /\ calls = [c \in Callers |-> Idle]
    /\ called = 0
    /\ dues = 0
    /\ faults = 0
    /\ irregular = {}

Next ==
    \/ \E l \in DOMAIN loops : LoopStep(l) \/ LoopFails(l)
    \/ \E i \in DOMAIN runs : RunStep(i)
    \/ \E c \in Callers : CallBegins(c) \/ CallStep(c)
    \/ \E j \in Jobs : JobDue(j)

Spec == Init /\ [][Next]_vars

(***************************************************************************)
(* Every thread that can go on does: each loop, the runs (a task ends),    *)
(* each call once it has begun.  Nobody has to begin a call, no job has to *)
(* become due, no store has to fail.                                       *)
(***************************************************************************)
Fairness ==
    /\ \A l \in 1..MaxLoops : WF_vars(l \in DOMAIN loops /\ LoopStep(l))
    /\ WF_vars(\E i \in DOMAIN runs : RunStep(i))
    /\ \A c \in Callers : WF_vars(CallStep(c))

FairSpec == Spec /\ Fairness
-----------------------------------------------------------------------------
(* Properties.                                                             *)

Phases    == {"new", "started", "dead", "shut"}
RunPhases == Over \cup {"queued", "running", "callback"}
CallSteps == {"idle", "each", "thread", "join", "drain", "set", "starting", "shut"}
LoopSteps == {"top", "collect", "pass", "inline", "scan", "clear", "wait", "ended",
              "failed"}

LoopType == [pc : LoopSteps, picked : SUBSET Jobs, run : Nat]
InstType == [kind : AllKinds, phase : Phases]
RunType  == [job : Jobs, inst : 1..Len(insts), phase : RunPhases, at : Phases]
CallType == [op : LifecycleOps \cup ComponentOps \cup {"none"}, pc : CallSteps,
             inst : Nat, alias : Aliases, kind : AllKinds \cup {"unknown"},
             seen : SUBSET Aliases, size : Nat, wait : BOOLEAN]

\* The types of the variables; the default executor is always there.
TypeOK ==
    /\ state \in {"stopped", "running", "paused"}
    /\ stop \in BOOLEAN /\ wake \in BOOLEAN
    /\ loops \in Seq(LoopType)
    /\ lock \in Callers \cup {None}
    /\ insts \in Seq(InstType)
    /\ executors \in [Aliases -> 0..Len(insts)] /\ executors["default"] # None
    /\ due \subseteq Jobs /\ busy \subseteq Jobs
    /\ runs \in Seq(RunType)
    /\ calls \in [Callers -> CallType]
    /\ called \in Nat /\ dues \in Nat /\ faults \in Nat
    /\ irregular \subseteq {"overlap", "resized", "abandoned", "no wait", "failed"}

StepsOf(op) ==
    CASE op = "none" -> {"idle"}
      [] op = "start" -> {"each", "thread"}
      [] op = "shutdown" -> {"join", "each", "drain"}
      [] op \in {"pause", "resume"} -> {"set"}
      [] op \in {"add", "set"} -> {"starting"}
      [] op = "update" -> {"drain", "starting"}
      [] op = "remove" -> {"shut", "drain"}

\* Each operation has its steps (the methods of Scheduler).
CallInv == \A c \in Callers : calls[c].pc \in StepsOf(calls[c].op)

Clean == irregular \cap {"abandoned", "overlap"} = {}

StartStopAlone ==
    \A c \in CallsOf({"start", "shutdown"}), d \in CallsOf(LifecycleOps) : c = d

\* Only the last loop lives, and none while start is under way, after the join
\* of shutdown, or when stopped.
OnlyLastLives ==
    \A l \in DOMAIN loops : Live(l) =>
        /\ l = Len(loops)
        /\ state # "stopped"
        /\ \A c \in Callers : /\ calls[c].op # "start"
                              /\ calls[c].op = "shutdown" => calls[c].pc = "join"

StoppedInBetween ==
    \A c \in Callers :
        calls[c].pc = "thread" \/ calls[c].op \in {"pause", "resume", "shutdown"}
            => state # "stopped"

LivesUnlessStopped ==
    \/ state = "stopped" \/ ~(irregular \subseteq {"no wait"})
    \/ Len(loops) > 0 /\ Live(Len(loops)) /\ ~stop
    \/ \E c \in Callers : calls[c].pc = "thread" \/ calls[c].op = "shutdown"

\* The inductive invariant behind OneLoop and StateTruthful.
LoopInv ==
    Clean => StartStopAlone /\ OnlyLastLives /\ StoppedInBetween /\ LivesUnlessStopped

(***************************************************************************)
(* The inductive invariant behind LockedOutByExecutor: an instance that is *)
(* new has been so all the time, and each way in which a run ends without  *)
(* a callback has its cause.                                               *)
(***************************************************************************)
RunInv ==
    /\ \A j \in busy : \E i \in DOMAIN runs :
          runs[i].job = j /\ runs[i].phase \notin {"callback", "reported"}
    /\ \A i \in DOMAIN runs :
          /\ insts[runs[i].inst].phase = "new" => runs[i].at = "new"
          /\ runs[i].phase \in {"refused", "unreported"} => runs[i].at # "started"
          /\ runs[i].phase = "lost" =>
                runs[i].at # "started" \/ insts[runs[i].inst].kind \in {"asyncio", "gevent"}

LiveLoops == {l \in DOMAIN loops : Live(l)}

(***************************************************************************)
(* Two main loops are alive at once only if a shutdown stopped waiting for *)
(* the first, or start and another lifecycle call ran at the same time.    *)
(* Exchanging executors, a shutdown or a start cut short by it, or a loop  *)
(* that died never lead there.                                             *)
(***************************************************************************)
OneLoop ==
    Clean => Cardinality(LiveLoops) <= 1

(***************************************************************************)
(* Between lifecycle calls, Scheduler.state tells whether a loop is alive, *)
(* unless one of the irregular things happened.  Nothing else would notice *)
(* that the state says "running" and nothing runs.                         *)
(***************************************************************************)
StateTruthful ==
    irregular \subseteq {"no wait"} /\ CallsOf(LifecycleOps) = {}
        => (state = "stopped" <=> LiveLoops = {})

(***************************************************************************)
(* A job whose count stays up although none of its runs is outstanding is  *)
(* locked out for good, as its max_instances is 1.  That takes an executor *)
(* that had been shut down, or that a call had registered and not started, *)
(* when it got a run of the job, or one shut down later that is not a pool.*)
(***************************************************************************)
LockedOutByExecutor ==
    \A j \in busy :
        \/ \E i \in DOMAIN runs : runs[i].job = j /\ runs[i].phase \in {"queued", "running"}
        \/ \E i \in DOMAIN runs :
              /\ runs[i].job = j
              /\ runs[i].phase \in {"refused", "lost", "unreported"}
              /\ \/ runs[i].at # "started"
                 \/ insts[runs[i].inst].kind \in {"asyncio", "gevent"}

\* Executors that a set_executor replaced are never shut down.
Orphans == {x \in DOMAIN insts : \A a \in Aliases : executors[a] # x}

(***************************************************************************)
(* After a shutdown that waited, and until the next call, no run of a job  *)
(* is in a pool or in its callback: what shutdown(wait=True) promises, if  *)
(* it was not cut short, although executors were exchanged meanwhile.      *)
(***************************************************************************)
QuietWhenStopped ==
    irregular = {} /\ state = "stopped" /\ (\A c \in Callers : calls[c] = Idle)
        => \A i \in DOMAIN runs :
              \/ runs[i].phase \in Over
              \/ insts[runs[i].inst].kind \in {"asyncio", "gevent", "twisted"}
              \/ (\E c \in Callers : "set" \in Ops[c]) /\ runs[i].inst \in Orphans

(***************************************************************************)
(* Why that is so.  First, what needs no regularity: a synchronous run of  *)
(* the debug executor keeps its loop; update_executor has _lock while it   *)
(* waits, and no one but set_executor takes its alias from it.             *)
(***************************************************************************)
InlineInv ==
    \A i \in DOMAIN runs :
        insts[runs[i].inst].kind = "debug" /\ runs[i].phase \notin Over =>
            \E l \in DOMAIN loops : loops[l].pc = "inline" /\ loops[l].run = i

Updating == {c \in Callers : calls[c].op = "update" /\ calls[c].pc = "drain"}

MaySet == \E c \in Callers : "set" \in Ops[c]

HolderInv ==
    /\ Updating = Callers \cap {lock}
    /\ \A c \in Updating :
          /\ calls[c].inst \in DOMAIN insts
          /\ MaySet \/ executors[calls[c].alias] = calls[c].inst
    /\ \A c \in CallsOf({"update", "remove"}) : calls[c].wait
    /\ \A c \in Callers : calls[c].pc = "join" => calls[c].seen = {}

\* No run of a pool is left; a pool that was not shut down may get one.
Done(x) == insts[x].kind = "pool" => AllOver(x)

\* A pool with a run is registered, or a call that removes it waits for it.
PoolsOwned ==
    \A x \in DOMAIN insts :
        \/ Done(x) \/ MaySet
        \/ \E a \in Aliases : executors[a] = x
        \/ \E c \in Callers : calls[c].op = "remove" /\ calls[c].inst = x

\* update_executor does not wait for a pool that it did not shut down, for the
\* scheduler was stopped: no run was left, and no pass can begin meanwhile.
UpdateQuiet ==
    \A c \in Updating :
        insts[calls[c].inst].kind = "pool" /\ insts[calls[c].inst].phase # "shut" =>
            /\ AllOver(calls[c].inst)
            /\ \A l \in DOMAIN loops : loops[l].pc \notin {"pass", "inline"}

StoppedQuiet == state = "stopped" => \A a \in Registered : Done(executors[a])

\* Every executor that a waiting shutdown has dealt with is without runs, one
\* that was exchanged for it meanwhile, too.
ShutdownQuiet ==
    \A c \in CallsOf({"shutdown"}) :
        calls[c].wait /\ calls[c].pc # "join" =>
            \A a \in calls[c].seen \cap Registered :
                \/ Done(executors[a])
                \/ calls[c].pc = "drain" /\ calls[c].inst = executors[a]

\* The inductive invariant behind QuietWhenStopped, beside LoopInv.
QuietInv ==
    /\ InlineInv
    /\ HolderInv
    /\ irregular = {} => PoolsOwned /\ UpdateQuiet /\ StoppedQuiet /\ ShutdownQuiet

(***************************************************************************)
(* update_executor waits, with _lock, for runs whose callbacks wait for    *)
(* _lock.                                                                  *)
(***************************************************************************)
UpdateDeadlock ==
    /\ lock # None
    /\ calls[lock].op = "update"
    /\ insts[calls[lock].inst].kind = "pool"
    /\ \E i \in RunsOf(calls[lock].inst) : runs[i].phase = "callback"

(***************************************************************************)
(* A stop request reaches every loop, although the loop may forget the     *)
(* wake-up that came with it: it ends, or a new start takes the request    *)
(* back, or the scheduler is in the deadlock of update_executor.           *)
(***************************************************************************)
StopReachesLoops ==
    \A l \in 1..MaxLoops :
        (l \in LiveLoops /\ stop) ~> (l \notin LiveLoops \/ ~stop \/ UpdateDeadlock)

(***************************************************************************)
(* A job that is due while the scheduler runs is dispatched: pausing,      *)
(* resuming, lost wake-ups, refused runs of other jobs and exchanged       *)
(* executors do not keep it.  (A count that is up does, see                *)
(* LockedOutByExecutor, and so do a stop and the deadlock.)                *)
(***************************************************************************)
DueDispatched ==
    \A j \in Jobs :
        (j \in due /\ state = "running" /\ irregular = {})
            ~> (\/ j \notin due \/ j \in busy
                \/ state # "running" \/ stop \/ irregular # {} \/ UpdateDeadlock)

InCallback(i) == i \in DOMAIN runs /\ runs[i].phase = "callback"

(***************************************************************************)
(* A callback that has to store its log gets _lock, unless it is one that  *)
(* update_executor itself waits for.                                       *)
(***************************************************************************)
CallbackGetsLock ==
    \A i \in 1..(MaxDue * MaxLoops) :
        InCallback(i) ~> (~InCallback(i) \/ UpdateDeadlock)
=============================================================================
