---------------------------- MODULE JobScheduler ----------------------------
(***************************************************************************)
(* The core of schedflow: one Scheduler, its job stores, one executor.     *)
(*                                                                         *)
(* Actors                                                                  *)
(*   - the main loop thread, one pass of _process_due after another;       *)
(*   - the executor's threads, which run a job and then its done-callback  *)
(*     _on_job_finished;                                                   *)
(*   - API threads, whose job operations hold Scheduler._lock;             *)
(*   - the clock, and the faults named in Faults.                          *)
(*                                                                         *)
(* The loop holds _lock only while it scans for due jobs.  What it does    *)
(* with a due job afterwards, and the instance counter _running, are not   *)
(* protected by any lock: every read and write of them is a step.          *)
(***************************************************************************)
EXTENDS Triggers, Sequences, FiniteSets

CONSTANTS
    Jobs,         \* job ids
    StoreKind,    \* the store of each job: "memory", "table" (SQLAlchemy,
                  \* MongoDB) or "redis"
    MaxInst,      \* max_instances of each job
    Grace,        \* misfire_grace_time of each job, None for "never missed"
    InitTrigger,  \* trigger each job is stored with at first
    NewTriggers,  \* triggers that add_job and reschedule_job may pass
    ApiOps,       \* job operations the API threads use
    Faults,       \* faults that may happen: "submit", "store", "log", "crash"
    MaxTime,      \* bound on the clock
    MaxCalls,     \* bound on the number of API calls
    MaxFaults     \* bound on the number of faults

AllOps == {"add", "replace", "update", "reschedule", "remove", "pause",
           "resume", "run_now"}

AllFaults == {"submit", "store", "log", "crash"}

Triggers == [kind : {"interval", "date", "none"}, start : Nat,
             len : Nat \ {0}, end : Nat \cup {None}]

ASSUME JobsAssumption     == IsFiniteSet(Jobs)
ASSUME KindAssumption     == StoreKind \in [Jobs -> {"memory", "table", "redis"}]
ASSUME MaxInstAssumption  == MaxInst \in [Jobs -> Nat \ {0}]
ASSUME GraceAssumption    == Grace \in [Jobs -> Nat \cup {None}]
ASSUME TriggerAssumption  == /\ InitTrigger \in [Jobs -> Triggers]
                             /\ NewTriggers \subseteq Triggers
ASSUME OpsAssumption      == ApiOps \subseteq AllOps
ASSUME FaultsAssumption   == Faults \subseteq AllFaults
ASSUME BoundsAssumption   == {MaxTime, MaxCalls, MaxFaults} \subseteq Nat

VARIABLES
    clock,      \* datetime.now(), see Triggers
    store,      \* the job store: what it holds for each job id
    running,    \* Scheduler._running, 0 for a missing key
    runs,       \* the runs handed to the executor, in order, and their phase
    missed,     \* the job.missed events: <<job, run time, schedule>>
    loopPc,     \* where the main loop is
    passNow,    \* "now" of the current pass
    due,        \* the jobs of the pass still to handle; its head is current
    held,       \* the Job objects of the pass that the store does not share
    aliased,    \* the jobs of the pass whose object is the store's own
    runTime,    \* local run_time of _run_due_job
    runVer,     \* the schedule run_time was taken from
    seen,       \* local count of _run_due_job
    api,        \* the API call that holds _lock
    calls,      \* number of API calls so far
    faults      \* number of faults so far

loopVars  == <<loopPc, passNow, due, runTime, runVer, seen>>
viewVars  == <<held, aliased>>
apiVars   == <<api, calls>>
vars == <<clock, store, running, runs, missed, loopVars, viewVars, apiVars,
          faults>>

-----------------------------------------------------------------------------
(* Jobs as the store and the loop see them.                                *)

(***************************************************************************)
(* What matters of a Job.  "ver" is a ghost: it numbers the schedules a    *)
(* job has had (the call that added, replaced, rescheduled, paused or      *)
(* resumed it), so that a run can be told from a run of the same time      *)
(* under another schedule.                                                 *)
(***************************************************************************)
Record(status, next, trig, ver) ==
    [status |-> status, next |-> next, trig |-> trig, ver |-> ver]

Absent == Record("absent", None, NoTrigger, 0)

Present(j) == store[j].status # "absent"

\* Job.__init__: the first run time is taken from the trigger.
NewJob(trig, now, ver) == Record("running", NextFire(trig, None, now), trig, ver)

\* MemoryJobStore hands out its own objects, the other stores hand out copies.
Shared(j) == StoreKind[j] = "memory"

(***************************************************************************)
(* Job.from_dict.  The constructor computes a run time from the trigger    *)
(* and the stored one replaces it only when it is not null: a job stored   *)
(* without a run time is loaded with a fresh one.                          *)
(***************************************************************************)
Loaded(j, rec, now) ==
    IF Shared(j) \/ rec.next # None
    THEN rec
    ELSE [rec EXCEPT !.next = NextFire(rec.trig, None, now)]

(***************************************************************************)
(* get_due: the table stores load every row and compare the loaded run     *)
(* time, the memory store compares the object's, Redis its sorted set,     *)
(* which has the stored run times.                                         *)
(***************************************************************************)
DueTime(j) == IF StoreKind[j] = "table" THEN Loaded(j, store[j], clock).next
                                     ELSE store[j].next

DueJobs(now) ==
    {j \in Jobs : Present(j) /\ DueTime(j) # None /\ DueTime(j) <= now}

(***************************************************************************)
(* The lists of jobs S that _process_due may have: store by store, those   *)
(* of a store sorted by run time (ties in any order).                      *)
(***************************************************************************)
Ordered(S) ==
    {s \in [1..Cardinality(S) -> S] :
        \A m, n \in 1..Cardinality(S) :
            m < n => /\ s[m] # s[n]
                     /\ StoreKind[s[m]] = StoreKind[s[n]] =>
                            /\ DueTime(s[m]) <= DueTime(s[n])
                            /\ \A k \in m..n : StoreKind[s[k]] = StoreKind[s[m]]}

\* The Job object the loop works on: the store's own, or one it alone holds.
View(j) == IF j \in aliased THEN store[j] ELSE held[j]

\* Once the store drops or replaces its object, the loop is left with the old.
Detach(j) ==
    IF j \in aliased
    THEN /\ held' = [held EXCEPT ![j] = store[j]]
         /\ aliased' = aliased \ {j}
    ELSE UNCHANGED viewVars

Idle == [op |-> "none", job |-> None, rec |-> Absent, found |-> FALSE]

LockFree == api.op = "none"

Fault(kind) == kind \in Faults /\ faults < MaxFaults /\ faults' = faults + 1
-----------------------------------------------------------------------------
(* The main loop: _main_loop, _process_due, _run_due_job, _advance.        *)

Init ==
    /\ clock = 0
    /\ store = [j \in Jobs |-> NewJob(InitTrigger[j], 0, 0)]
    /\ running = [j \in Jobs |-> 0]
    /\ runs = <<>>
    /\ missed = {}
    /\ loopPc = "idle"
    /\ passNow = 0
    /\ due = <<>>
    /\ held = [j \in Jobs |-> Absent]
    /\ aliased = {}
    /\ runTime = None
    /\ runVer = 0
    /\ seen = 0
    /\ api = Idle
    /\ calls = 0
    /\ faults = 0

\* A pass begins by reading the clock, before it waits for _lock.
LoopTop ==
    /\ loopPc = "idle"
    /\ passNow' = clock
    /\ loopPc' = "scan"
    /\ UNCHANGED <<clock, store, running, runs, missed, due, viewVars,
                   runTime, runVer, seen, apiVars, faults>>

\* _process_due is over: its locals and the objects it loaded are gone.
EndPass ==
    /\ due' = <<>>
    /\ loopPc' = "idle"
    /\ passNow' = 0
    /\ held' = [j \in Jobs |-> Absent]
    /\ aliased' = {}

LoopScan ==
    /\ loopPc = "scan"
    /\ LockFree
    /\ IF DueJobs(passNow) = {}
       THEN EndPass
       ELSE /\ due' \in Ordered(DueJobs(passNow))
            /\ held' = [j \in Jobs |-> IF j \in DueJobs(passNow)
                                       THEN Loaded(j, store[j], clock) ELSE Absent]
            /\ aliased' = {j \in DueJobs(passNow) : Shared(j)}
            /\ loopPc' = "pick"
            /\ UNCHANGED passNow
    /\ UNCHANGED <<clock, store, running, runs, missed, runTime, runVer, seen,
                   apiVars, faults>>

\* _run_due_job returned, and the for loop goes on to its next job, if any.
NextDue ==
    /\ runTime' = None
    /\ runVer' = 0
    /\ seen' = 0
    /\ IF Len(due) = 1
       THEN EndPass
       ELSE /\ due' = Tail(due)
            /\ loopPc' = "pick"
            /\ held' = [held EXCEPT ![Head(due)] = Absent]
            /\ aliased' = aliased \ {Head(due)}
            /\ UNCHANGED passNow

\* An exception left _process_due, and _main_loop swallowed it.
AbortPass ==
    /\ runTime' = None
    /\ runVer' = 0
    /\ seen' = 0
    /\ EndPass

\* (now - run_time).total_seconds() > misfire_grace_time
Late(j) == /\ Grace[j] # None
           /\ View(j).next # None
           /\ passNow - View(j).next >= Grace[j]

\* Mutant: ">" for ">=".
BeyondLimit(j) == running[j] > MaxInst[j]

\* count >= job.max_instances
AtLimit(j) == running[j] >= MaxInst[j]

\* The subtraction above raises TypeError when the run time became None.
LoopTypeError ==
    /\ loopPc = "pick"
    /\ Grace[Head(due)] # None
    /\ View(Head(due)).next = None
    /\ AbortPass
    /\ UNCHANGED <<clock, store, running, runs, missed, apiVars, faults>>

LoopMiss ==
    /\ loopPc = "pick"
    /\ Late(Head(due))
    /\ missed' = missed \cup
           {<<Head(due), View(Head(due)).next, View(Head(due)).ver>>}
    /\ runTime' = View(Head(due)).next
    /\ runVer' = View(Head(due)).ver
    /\ loopPc' = "miss"
    /\ UNCHANGED <<clock, store, running, runs, passNow, due, viewVars, seen,
                   apiVars, faults>>

\* max_instances runs are counted: the run time stays due.
LoopReject ==
    /\ loopPc = "pick"
    /\ Grace[Head(due)] = None \/ View(Head(due)).next # None
    /\ ~Late(Head(due))
    /\ AtLimit(Head(due))
    /\ NextDue
    /\ UNCHANGED <<clock, store, running, runs, missed, apiVars, faults>>

LoopAccept ==
    /\ loopPc = "pick"
    /\ Grace[Head(due)] = None \/ View(Head(due)).next # None
    /\ ~Late(Head(due))
    /\ ~AtLimit(Head(due))
    /\ seen' = running[Head(due)]
    /\ runTime' = View(Head(due)).next
    /\ runVer' = View(Head(due)).ver
    /\ loopPc' = "accept"
    /\ UNCHANGED <<clock, store, running, runs, missed, passNow, due, viewVars,
                   apiVars, faults>>

\* Mutant: an exhausted job is removed, but the next run time is only set on
\* the Job object, which is enough for the memory store alone.
AdvancedOnObject(j) ==
    LET next == NextFire(View(j).trig, runTime, passNow)
    IN  IF View(j).trig.kind # "none" /\ next = None
        THEN [store EXCEPT ![j] = Absent]
        ELSE IF j \in aliased THEN [store EXCEPT ![j].next = next] ELSE store

\* The store after _advance(job, run_time, now).
Advanced(j) ==
    LET job == View(j)
        next == NextFire(job.trig, runTime, passNow)
    IN  IF job.trig.kind # "none" /\ next = None
        THEN [store EXCEPT ![j] = Absent]
        ELSE IF Present(j)
             THEN [store EXCEPT ![j] = [job EXCEPT !.next = next]]
             ELSE store                         \* JobNotFoundError is swallowed

LoopAdvance ==
    /\ loopPc \in {"miss", "accept"}
    /\ store' = Advanced(Head(due))
    /\ IF loopPc = "miss"
       THEN NextDue
       ELSE /\ loopPc' = "dispatch"
            /\ UNCHANGED <<passNow, due, viewVars, runTime, runVer, seen>>
    /\ UNCHANGED <<clock, running, runs, missed, apiVars, faults>>

\* The write fails: the pass ends, nothing was dispatched.
LoopAdvanceFails ==
    /\ loopPc \in {"miss", "accept"}
    /\ ~Shared(Head(due))
    /\ Fault("store")
    /\ AbortPass
    /\ UNCHANGED <<clock, store, running, runs, missed, apiVars>>

Run(kind, j, time, ver) ==
    [kind |-> kind, job |-> j, time |-> time, ver |-> ver,
     phase |-> "running", count |-> 0]

LoopDispatch ==
    /\ loopPc = "dispatch"
    /\ running' = [running EXCEPT ![Head(due)] = seen + 1]
    /\ runs' = Append(runs, Run("due", Head(due), runTime, runVer))
    /\ NextDue
    /\ UNCHANGED <<clock, store, missed, apiVars, faults>>

\* executor.submit raises after the run was counted.
LoopSubmitFails ==
    /\ loopPc = "dispatch"
    /\ Fault("submit")
    /\ running' = [running EXCEPT ![Head(due)] = seen + 1]
    /\ AbortPass
    /\ UNCHANGED <<clock, store, runs, missed, apiVars>>

Loop == \/ LoopTop \/ LoopScan \/ LoopTypeError \/ LoopMiss \/ LoopReject
        \/ LoopAccept \/ LoopAdvance \/ LoopAdvanceFails \/ LoopDispatch
        \/ LoopSubmitFails
-----------------------------------------------------------------------------
(* The executor's threads: Job.run, then Scheduler._on_job_finished.       *)

\* Mutants: the count is not lowered; a missing key counts as 0.
NotLowered(j) == running[j]
LoweredBelowZero(j) == running[j] - 1

\* _running.get(job_id, 1) - 1
Lowered(j) == IF running[j] = 0 THEN 0 ELSE running[j] - 1

\* The job returned or raised, and its callback read the counter.
FinishRead(i) ==
    /\ runs[i].kind = "due"
    /\ runs[i].phase = "running"
    /\ runs' = [runs EXCEPT
           ![i].phase = "read",
           ![i].count = Lowered(runs[i].job)]
    /\ UNCHANGED <<clock, store, running, missed, loopVars, viewVars, apiVars,
                   faults>>

\* Pop the counter, or write the count that was read.
FinishWrite(i) ==
    /\ runs[i].phase = "read"
    /\ running' = [running EXCEPT ![runs[i].job] = runs[i].count]
    /\ runs' = [runs EXCEPT ![i].phase = "counted"]
    /\ UNCHANGED <<clock, store, missed, loopVars, viewVars, apiVars, faults>>

\* Mutant: a run that brought the count to 0 is not logged.
LogUnlessLast(i) ==
    \/ runs[i].kind = "due" /\ runs[i].phase = "counted" /\ runs[i].count > 0
    \/ runs[i].kind = "manual" /\ runs[i].phase = "running"

\* A manual run returns straight to run_job_now and never touches the counter.
LogDue(i) == \/ runs[i].kind = "due" /\ runs[i].phase = "counted"
             \/ runs[i].kind = "manual" /\ runs[i].phase = "running"

FinishLog(i) ==
    /\ LogDue(i)
    /\ LockFree
    /\ runs' = [runs EXCEPT ![i].phase = "logged"]
    /\ UNCHANGED <<clock, store, running, missed, loopVars, viewVars, apiVars,
                   faults>>

\* store.add_log raises: the pool reports it and the log is gone.
FinishLogFails(i) ==
    /\ LogDue(i)
    /\ LockFree
    /\ Fault("log")
    /\ runs' = [runs EXCEPT ![i].phase = "dropped"]
    /\ UNCHANGED <<clock, store, running, missed, loopVars, viewVars, apiVars>>

\* run_job_now re-raises what the workflow raised, without a log.
ManualRaises(i) ==
    /\ runs[i].kind = "manual"
    /\ runs[i].phase = "running"
    /\ runs' = [runs EXCEPT ![i].phase = "dropped"]
    /\ UNCHANGED <<clock, store, running, missed, loopVars, viewVars, apiVars,
                   faults>>

Finish(i) == FinishRead(i) \/ FinishWrite(i) \/ FinishLog(i)

-----------------------------------------------------------------------------
(* The API threads.  A call holds _lock from its find to its write; the    *)
(* loop's own writes do not wait for it.                                   *)

\* The object a call works on: in the memory store the loop sees it too.
Mine == IF Shared(api.job) THEN store[api.job] ELSE api.rec

Begin(op, j, rec, found) ==
    /\ op \in ApiOps
    /\ LockFree
    /\ calls < MaxCalls
    /\ calls' = calls + 1
    /\ api' = [op |-> op, job |-> j, rec |-> rec, found |-> found]
    /\ UNCHANGED <<clock, store, running, runs, missed, loopVars, viewVars,
                   faults>>

\* add_job(replace=...): the new Job is built, then the store is asked for it.
BeginAdd(j) ==
    \E op \in {"add", "replace"}, trig \in NewTriggers :
        Begin(op, j, NewJob(trig, clock, calls + 1), op = "replace" /\ Present(j))

\* _find_job; JobNotFoundError otherwise.
BeginFound(j) ==
    /\ Present(j)
    /\ \E op \in {"update", "remove", "pause", "resume"} :
           Begin(op, j, Loaded(j, store[j], clock), TRUE)

BeginReschedule(j) ==
    /\ Present(j)
    /\ \E trig \in NewTriggers :
           Begin("reschedule", j, [Loaded(j, store[j], clock) EXCEPT !.trig = trig],
                 TRUE)

\* The call is over: the store has this record, or the call raised.
End(newStore) ==
    /\ store' = newStore
    /\ api' = Idle
    /\ UNCHANGED <<clock, running, runs, missed, loopVars, calls, faults>>

\* store.update, which raises JobNotFoundError when the loop removed the job.
Updated(rec) == IF Present(api.job) THEN [store EXCEPT ![api.job] = rec]
                                    ELSE store

EndAdd ==
    /\ api.op \in {"add", "replace"}
    /\ IF Present(api.job) = api.found
       THEN End([store EXCEPT ![api.job] = api.rec]) /\ Detach(api.job)
       ELSE End(store) /\ UNCHANGED viewVars

EndUpdate ==
    /\ api.op = "update"
    /\ End(Updated(Mine))
    /\ UNCHANGED viewVars

EndReschedule ==
    /\ api.op = "reschedule"
    /\ End(Updated([Mine EXCEPT
                       !.trig = api.rec.trig,
                       !.next = NextFire(api.rec.trig, None, clock),
                       !.ver = calls]))
    /\ UNCHANGED viewVars

EndPause ==
    /\ api.op = "pause"
    /\ End(Updated([Mine EXCEPT !.status = "paused", !.next = None,
                                !.ver = calls]))
    /\ UNCHANGED viewVars

EndResume ==
    /\ api.op = "resume"
    /\ End(Updated([Mine EXCEPT !.status = "running",
                                !.next = NextFire(Mine.trig, None, clock),
                                !.ver = calls]))
    /\ UNCHANGED viewVars

EndRemove ==
    /\ api.op = "remove"
    /\ End([store EXCEPT ![api.job] = Absent])
    /\ Detach(api.job)

\* run_job_now finds the job under _lock and runs it on the caller's thread.
RunNow(j) ==
    /\ "run_now" \in ApiOps
    /\ LockFree
    /\ Present(j)
    /\ calls < MaxCalls
    /\ calls' = calls + 1
    /\ runs' = Append(runs, Run("manual", j, None, 0))
    /\ UNCHANGED <<clock, store, running, missed, loopVars, viewVars, api, faults>>

ApiEnd == EndAdd \/ EndUpdate \/ EndReschedule \/ EndPause \/ EndResume
          \/ EndRemove

Api == (\E j \in Jobs : BeginAdd(j) \/ BeginFound(j) \/ BeginReschedule(j)
                         \/ RunNow(j))
       \/ ApiEnd

-----------------------------------------------------------------------------
(* The environment.                                                        *)

Tick ==
    /\ clock < MaxTime
    /\ clock' = clock + 1
    /\ UNCHANGED <<store, running, runs, missed, loopVars, viewVars, apiVars,
                   faults>>

\* The process dies and starts again over the same, persistent, job stores.
Crash ==
    /\ \A j \in Jobs : ~Shared(j)
    /\ Fault("crash")
    /\ running' = [j \in Jobs |-> 0]
    /\ runs' = [i \in DOMAIN runs |->
                   IF runs[i].phase \in {"logged", "dropped"}
                   THEN runs[i] ELSE [runs[i] EXCEPT !.phase = "lost"]]
    /\ AbortPass
    /\ api' = Idle
    /\ UNCHANGED <<clock, store, missed, calls>>

Next ==
    \/ Loop
    \/ \E i \in DOMAIN runs :
          Finish(i) \/ FinishLogFails(i) \/ ManualRaises(i)
    \/ Api
    \/ Tick
    \/ Crash

Spec == Init /\ [][Next]_vars

(***************************************************************************)
(* The threads run: the loop takes its next step, a run that was submitted *)
(* ends and its callback completes, a call that holds _lock lets go of it. *)
(* Each waits for _lock at most while a call that will end holds it.  The  *)
(* faults and the calls owe nothing.                                       *)
(***************************************************************************)
Fairness ==
    /\ WF_vars(Loop)
    /\ WF_vars(\E i \in DOMAIN runs : Finish(i))
    /\ WF_vars(ApiEnd)

FairSpec == Spec /\ Fairness
-----------------------------------------------------------------------------
(* Properties.                                                             *)

Records == [status : {"absent", "running", "paused"}, next : Nat \cup {None},
            trig : Triggers, ver : Nat]

RunRecords == [kind : {"due", "manual"}, job : Jobs, time : Nat \cup {None},
               ver : Nat, phase : {"running", "read", "counted", "logged",
               "dropped", "lost"}, count : Nat]

(***************************************************************************)
(* The variables have their types; in particular a counter never goes      *)
(* below zero (_on_job_finished pops it instead), and in the middle of a   *)
(* pass there is a current job.                                            *)
(***************************************************************************)
TypeOK ==
    /\ clock \in Nat
    /\ store \in [Jobs -> Records]
    /\ running \in [Jobs -> Nat]
    /\ runs \in Seq(RunRecords)
    /\ missed \subseteq Jobs \X Nat \X Nat
    /\ loopPc \in {"idle", "scan", "pick", "miss", "accept", "dispatch"}
    /\ passNow \in Nat
    /\ due \in Seq(Jobs)
    /\ loopPc \in {"pick", "miss", "accept", "dispatch"} <=> due # <<>>
    /\ held \in [Jobs -> Records]
    /\ aliased \subseteq Jobs
    /\ runTime \in Nat \cup {None}
    /\ runVer \in Nat
    /\ seen \in Nat
    /\ api \in [op : AllOps \cup {"none"}, job : Jobs \cup {None}, rec : Records,
                found : BOOLEAN]
    /\ api.op # "none" => api.job \in Jobs
    /\ calls \in Nat
    /\ faults \in Nat

InFlight(i) == runs[i].kind = "due" /\ runs[i].phase = "running"

\* A run that the counter still has to account for.
Holding(i) == runs[i].kind = "due" /\ runs[i].phase \in {"running", "read"}

Holders(j) == {i \in DOMAIN runs : runs[i].job = j /\ Holding(i)}

(***************************************************************************)
(* A job with max_instances = 1 never has two scheduled runs in the        *)
(* executor, although the loop reads the counter, advances the job, writes *)
(* the counter and submits in separate steps, and the callbacks of earlier *)
(* runs update the same counter without a lock.                            *)
(***************************************************************************)
SingleInstance ==
    \A a, b \in DOMAIN runs :
        InFlight(a) /\ InFlight(b) /\ runs[a].job = runs[b].job
            /\ MaxInst[runs[a].job] = 1 => a = b

(***************************************************************************)
(* Job's documentation of max_instances: "maximum number of concurrently   *)
(* running instances".                                                     *)
(***************************************************************************)
MaxInstancesRespected ==
    \A j \in Jobs :
        Cardinality({i \in DOMAIN runs : InFlight(i) /\ runs[i].job = j})
            <= MaxInst[j]

(***************************************************************************)
(* The counter of a job with max_instances = 1 is exact: it is up exactly  *)
(* while a run holds it.  A counter left up would make _run_due_job reject *)
(* the job for ever; one that is down too early would let a second run in. *)
(***************************************************************************)
CounterExact ==
    \A j \in Jobs : MaxInst[j] = 1 => running[j] = Cardinality(Holders(j))

(***************************************************************************)
(* A job is only turned away for max_instances while a run of it is        *)
(* outstanding: the counter is at the limit only if some run holds it.     *)
(***************************************************************************)
LimitMeansRunning ==
    \A j \in Jobs : running[j] >= MaxInst[j] => Holders(j) # {}

(***************************************************************************)
(* Why the counter works although nothing protects it; it is inductive.    *)
(* It never exceeds max_instances, because both writers write a value read *)
(* below it; whoever raised it to max_instances still holds it, unless its *)
(* submission failed; and with max_instances = 1 a holder keeps it up, so  *)
(* the loop cannot have read 0 while there is one.                         *)
(***************************************************************************)
CounterInv ==
    /\ \A j \in Jobs : running[j] <= MaxInst[j]
    /\ \A i \in DOMAIN runs :
           runs[i].phase = "read" => /\ runs[i].kind = "due"
                                     /\ runs[i].count < MaxInst[runs[i].job]
    /\ loopPc \in {"accept", "dispatch"} => seen < MaxInst[Head(due)]
    /\ "submit" \notin Faults =>
           \A j \in Jobs : running[j] = MaxInst[j] =>
               \E i \in DOMAIN runs : runs[i].job = j /\ Holding(i)
    /\ \A i \in DOMAIN runs :
           Holding(i) /\ MaxInst[runs[i].job] = 1 => running[runs[i].job] = 1
    /\ \A a, b \in DOMAIN runs :
           Holding(a) /\ Holding(b) /\ runs[a].job = runs[b].job
               /\ MaxInst[runs[a].job] = 1 => a = b
    /\ loopPc \in {"accept", "dispatch"} /\ MaxInst[Head(due)] = 1 =>
           \A i \in DOMAIN runs : ~(Holding(i) /\ runs[i].job = Head(due))

DueRuns == {i \in DOMAIN runs : runs[i].kind = "due" /\ runs[i].time # None}

Occurrence(i) == <<runs[i].job, runs[i].time, runs[i].ver>>

(***************************************************************************)
(* A run time of a schedule is settled at most once: it is handed to the   *)
(* executor once, or reported as missed, never twice and never both, even  *)
(* if a store write fails or the process crashes in between.  This is what *)
(* _run_due_job's "persist the next fire time BEFORE dispatching" is for.  *)
(***************************************************************************)
SettledOnce ==
    /\ \A a, b \in DueRuns : Occurrence(a) = Occurrence(b) => a = b
    /\ \A a \in DueRuns : Occurrence(a) \notin missed

\* The run times of j's schedule ver that were settled, and the one in hand.
Settled(j, ver) ==
    {runs[i].time : i \in {k \in DueRuns : runs[k].job = j /\ runs[k].ver = ver}}
    \cup {m[2] : m \in {n \in missed : n[1] = j /\ n[3] = ver}}
    \cup (IF loopPc = "dispatch" /\ Head(due) = j /\ runVer = ver
          THEN {runTime} ELSE {})

\* The run times of j's interval between its first settled one and the one
\* the store is at that were neither dispatched nor reported as missed.
Skipped(j) ==
    LET job  == store[j]
        done == Settled(j, job.ver) \ {None}
    IN  IF job.trig.kind # "interval" \/ job.next = None
        THEN {}
        ELSE {t \in 0..(job.next - 1) : /\ \E u \in done : u < t
                                        /\ (job.next - t) % job.trig.len = 0
                                        /\ t \notin done}

(***************************************************************************)
(* No run time of an interval schedule is skipped: up to the one the store *)
(* is at, each was dispatched or reported as missed.  Rejection for        *)
(* max_instances, pauses and re-schedules that race with the pass do not   *)
(* lose one; a fault (submit raises after the count, a write fails, the    *)
(* process crashes after the advance) costs one run time at most.          *)
(***************************************************************************)
NoRunTimeSkipped ==
    Cardinality({o \in Jobs \X (0..MaxTime) : o[2] \in Skipped(o[1])}) <= faults

(***************************************************************************)
(* Why a run time is settled once.  An occurrence is a job, a run time and *)
(* the number of the schedule the time was taken from.                     *)
(***************************************************************************)
Dispatched == {Occurrence(i) : i \in DueRuns}

\* The occurrence that the loop has advanced the job past and will submit.
InHand == IF loopPc = "dispatch" /\ runTime # None
          THEN {<<Head(due), runTime, runVer>>} ELSE {}

\* The records from which the next run time of j may still be taken: what the
\* store holds and, until the loop has written it back, the loop's own copy.
InPlay(j) ==
    {r \in {store[j]} \cup
           (IF j \in aliased \/ (loopPc = "dispatch" /\ j = Head(due))
            THEN {} ELSE {held[j]}) : r.status # "absent"}

\* Every call numbers its schedule anew; the first schedule has number 0.
Known(ver) == ver <= calls /\ (api.op # "none" => ver < calls)

NumbersKnown ==
    /\ Known(0)
    /\ \A o \in Dispatched \cup missed : Known(o[3])
    /\ loopPc \in {"miss", "accept", "dispatch"} => Known(runVer)
    /\ api.op \in {"add", "replace"} => api.rec.ver = calls

\* A record that may be stored has no run time if it has no trigger, and one
\* that is absent has nothing.
Sound(r) ==
    /\ r.trig.kind = "none" => r.next = None
    /\ r.status = "absent" => r = Absent

AllSound ==
    /\ \A j \in Jobs : Sound(store[j]) /\ Sound(held[j])
    /\ api.op \in {"add", "replace"} => Sound(api.rec)
    /\ api.op # "none" => api.rec.status # "absent"

\* A record of a schedule is ahead of what was dispatched of that schedule.
Ahead(j, r) ==
    /\ Known(r.ver)
    /\ \A o \in Dispatched \cup InHand :
           o[1] = j /\ o[3] = r.ver => r.next # None /\ o[2] < r.next

AllAhead == \A j \in Jobs : \A r \in InPlay(j) : Ahead(j, r)

\* "now" of the current pass, or of the next one.
LoopNow == IF loopPc = "idle" THEN clock ELSE passNow

MissedStaysLate ==
    /\ loopPc # "idle" => passNow <= clock
    /\ \A m \in missed : Grace[m[1]] # None /\ LoopNow - m[2] >= Grace[m[1]]

\* A run time that is going to be submitted was neither submitted nor missed.
InHandNew ==
    loopPc \in {"accept", "dispatch"} /\ runTime # None =>
        /\ <<Head(due), runTime, runVer>> \notin missed
        /\ \A o \in Dispatched :
               o[1] = Head(due) /\ o[3] = runVer => o[2] < runTime

\* The loop has taken runTime and not yet written what comes after it: the
\* schedule it took it from is unchanged, or replaced by one nobody ran.
Taken ==
    loopPc \in {"miss", "accept"} =>
        LET j == Head(due)
            r == View(j)
        IN  r.status # "absent" =>
                IF r.ver = runVer THEN r.next = runTime
                ELSE \A o \in Dispatched \cup missed : ~(o[1] = j /\ o[3] = r.ver)

(***************************************************************************)
(* The inductive invariant behind SettledOnce, where update_job does not   *)
(* write back an earlier copy (Scheduler_again): records are ahead of what *)
(* was dispatched, a run time in hand was neither dispatched nor missed,   *)
(* and what was missed stays too late to be dispatched.                    *)
(***************************************************************************)
SettleInv ==
    /\ SettledOnce
    /\ NumbersKnown
    /\ AllSound
    /\ AllAhead
    /\ MissedStaysLate
    /\ InHandNew
    /\ Taken
    /\ api.op \in ApiOps \cup {"none"}

(***************************************************************************)
(* Why no run time is skipped.                                             *)
(***************************************************************************)
Accounted == Dispatched \cup missed \cup InHand

\* The occurrences before the next run time of record r that are missing among
\* those accounted for, although an earlier one is there.
Gaps(j, r) ==
    IF r.trig.kind # "interval" \/ r.next = None
    THEN {}
    ELSE {o \in {j} \X (0..(r.next - 1)) \X {r.ver} :
             /\ (r.next - o[2]) % r.trig.len = 0
             /\ o \notin Accounted
             /\ \E u \in Accounted : u[1] = j /\ u[3] = r.ver /\ u[2] < o[2]}

Lost == UNION {UNION {Gaps(j, r) : r \in InPlay(j)} : j \in Jobs}

\* An interval job without a run time never had one that was missed.
NoTimeNoMiss ==
    \A j \in Jobs : \A r \in InPlay(j) :
        r.trig.kind = "interval" /\ r.next = None =>
            \A m \in missed : ~(m[1] = j /\ m[3] = r.ver)

\* The loop's copy of an interval job is as far as the store, until the loop
\* has written it, unless the schedule was changed.
HeldAsStored ==
    \A j \in Jobs :
        /\ held[j] \in InPlay(j)
        /\ Present(j)
        /\ held[j].ver = store[j].ver
        /\ store[j].trig.kind = "interval"
        => store[j].next = held[j].next

MissNoted == loopPc = "miss" => <<Head(due), runTime, runVer>> \in missed

(***************************************************************************)
(* The inductive invariant behind NoRunTimeSkipped: whatever record the    *)
(* next run time will be taken from, the run times before it are accounted *)
(* for, but for one of each fault.                                         *)
(***************************************************************************)
SkipInv ==
    /\ IsFiniteSet(Lost)
    /\ Cardinality(Lost) <= faults
    /\ NoTimeNoMiss
    /\ HeldAsStored
    /\ MissNoted

\* Both together: on every way of a record to the next pass, what the loop and
\* the calls hold of a job is ahead of what was settled, and by one occurrence
\* at most unless a fault lost some (_process_due, _run_due_job, _advance).
SettlementInv == SettleInv /\ SkipInv

(***************************************************************************)
(* test_pause_and_resume: after pause_job the job has status "paused" and  *)
(* next_run_time None.                                                     *)
(***************************************************************************)
PauseHolds == \A j \in Jobs : store[j].status = "paused" => store[j].next = None

(***************************************************************************)
(* A job that is due is eventually served: its run time moves on, however  *)
(* often it is turned away for max_instances while earlier runs end.       *)
(***************************************************************************)
DueServed ==
    \A j \in Jobs, t \in 0..MaxTime :
        (store[j].next = t /\ t <= clock) ~> (store[j].next # t)
=============================================================================
