------------------------- MODULE JobSchedulerProofs -------------------------
(***************************************************************************)
(* Theorems about JobScheduler, for every set of jobs, every trigger and   *)
(* every bound.                                                            *)
(***************************************************************************)
EXTENDS JobScheduler, FiniteSetTheorems, SequenceTheorems, TLAPS

-----------------------------------------------------------------------------
(* Lemmas about the operators.                                             *)

\* A trigger yields a time or None (IntervalTrigger and DateTrigger).
LEMMA NextFireType ==
    ASSUME NEW trig \in Triggers, NEW prev \in Nat \cup {None}, NEW now \in Nat
    PROVE  NextFire(trig, prev, now) \in Nat \cup {None}
<1>1. FirstFire(trig, now) \in Nat
    <2>1. CASE trig.start > now
        BY <2>1 DEF FirstFire, Triggers
    <2>2. CASE ~(trig.start > now)
        <3>1. now - trig.start \in Nat
            BY <2>2 DEF Triggers
        <3>2. ((now - trig.start) \div trig.len) \in Nat
            BY <3>1 DEF Triggers
        <3>3. \A m, n \in Nat : m * n \in Nat
            OBVIOUS
        <3>4. trig.len * (((now - trig.start) \div trig.len) + 1) \in Nat
            BY <3>2, <3>3 DEF Triggers
        <3>5. QED BY <2>2, <3>4 DEF FirstFire, Triggers
    <2>3. QED BY <2>1, <2>2
<1>2. prev # None => prev + trig.len \in Nat
    BY DEF Triggers, None
<1>3. trig.kind \in {"interval", "date", "none"} /\ trig.start \in Nat
    BY DEF Triggers
<1>4. QED BY <1>1, <1>2, <1>3 DEF NextFire, Until

\* The list of due jobs is a sequence of jobs, empty only for no job.
LEMMA OrderedType ==
    ASSUME NEW S \in SUBSET Jobs, S # {}, NEW s \in Ordered(S)
    PROVE  s \in Seq(Jobs) /\ s # <<>>
<1>1. IsFiniteSet(S)
    BY JobsAssumption, FS_Subset
<1>2. Cardinality(S) \in Nat \ {0}
    BY <1>1, FS_CardinalityType, FS_EmptySet
<1>3. s \in [1..Cardinality(S) -> Jobs]
    BY DEF Ordered
<1>4. Len(s) = Cardinality(S) /\ s \in Seq(Jobs)
    BY <1>2, <1>3
<1>5. QED BY <1>2, <1>4

LEMMA LoadedType ==
    ASSUME NEW j \in Jobs, NEW rec \in Records, NEW now \in Nat
    PROVE  Loaded(j, rec, now) \in Records
BY NextFireType DEF Loaded, Records, None

LEMMA NewJobType ==
    ASSUME NEW trig \in Triggers, NEW now \in Nat, NEW ver \in Nat
    PROVE  NewJob(trig, now, ver) \in Records
BY NextFireType DEF NewJob, Record, Records, None

LEMMA AbsentType == Absent \in Records
BY DEF Absent, Record, Records, NoTrigger, Triggers, None
-----------------------------------------------------------------------------
(* Type correctness.                                                       *)

USE DEF None

LEMMA TypeInit == Init => TypeOK
<1> SUFFICES ASSUME Init PROVE TypeOK
    OBVIOUS
<1>1. store \in [Jobs -> Records]
    BY NewJobType, TriggerAssumption DEF Init
<1>2. held \in [Jobs -> Records] /\ api.rec \in Records
    BY AbsentType DEF Init, Idle
<1>3. QED
    BY <1>1, <1>2, AbsentType DEF Init, TypeOK, Idle

\* What a pass leaves behind when it ends has the right types.
LEMMA EndPassType ==
    ASSUME TypeOK, EndPass
    PROVE  /\ loopPc' = "idle" /\ passNow' \in Nat /\ due' = <<>>
           /\ due' \in Seq(Jobs)
           /\ held' \in [Jobs -> Records] /\ aliased' \subseteq Jobs
BY AbsentType DEF TypeOK, EndPass

LEMMA NextDueType ==
    ASSUME TypeOK, NextDue, due # <<>>
    PROVE  /\ loopPc' \in {"idle", "pick"} /\ passNow' \in Nat
           /\ due' \in Seq(Jobs)
           /\ loopPc' = "pick" <=> due' # <<>>
           /\ held' \in [Jobs -> Records] /\ aliased' \subseteq Jobs
           /\ runTime' \in Nat \cup {None} /\ runVer' \in Nat /\ seen' \in Nat
<1>1. CASE Len(due) = 1
    BY <1>1, EndPassType DEF NextDue
<1>2. CASE Len(due) # 1
    <2>1. due \in Seq(Jobs)
        BY DEF TypeOK
    <2>2. Len(due) \in Nat \ {0, 1}
        BY <1>2, <2>1, EmptySeq
    <2>3. Tail(due) \in Seq(Jobs) /\ Len(Tail(due)) = Len(due) - 1
        BY <2>1, HeadTailProperties
    <2>4. Len(Tail(due)) # 0
        BY <2>2, <2>3
    <2>5. Tail(due) # <<>>
        BY <2>4, EmptySeq
    <2>6. [held EXCEPT ![Head(due)] = Absent] \in [Jobs -> Records]
        BY AbsentType DEF TypeOK
    <2>7. QED
        BY <1>2, <2>3, <2>5, <2>6 DEF NextDue, TypeOK
<1>3. QED BY <1>1, <1>2

\* The current job, and the loop's view of it.
LEMMA ViewType ==
    ASSUME TypeOK, due # <<>>
    PROVE  Head(due) \in Jobs /\ View(Head(due)) \in Records
BY DEF TypeOK, View

LEMMA AdvancedType ==
    ASSUME TypeOK, due # <<>>
    PROVE  Advanced(Head(due)) \in [Jobs -> Records]
<1> DEFINE job  == View(Head(due))
           next == NextFire(job.trig, runTime, passNow)
<1>1. Head(due) \in Jobs /\ job \in Records
    BY ViewType
<1>2. next \in Nat \cup {None}
    BY <1>1, NextFireType DEF TypeOK, Records
<1>3. [job EXCEPT !.next = next] \in Records
    BY <1>1, <1>2 DEF Records
<1> HIDE DEF job, next
<1>4. QED
    BY <1>3, AbsentType DEF Advanced, TypeOK, job, next

LEMMA TypeLoop == TypeOK /\ Loop => TypeOK'
<1> SUFFICES ASSUME TypeOK, Loop PROVE TypeOK'
    OBVIOUS
<1>1. CASE LoopTop
    BY <1>1 DEF LoopTop, TypeOK, viewVars, apiVars
<1>2. CASE LoopScan
    <2>1. CASE DueJobs(passNow) = {}
        BY <1>2, <2>1, EndPassType DEF LoopScan, TypeOK, apiVars
    <2>2. CASE DueJobs(passNow) # {}
        <3>1. DueJobs(passNow) \subseteq Jobs
            BY DEF DueJobs
        <3>2. due' \in Seq(Jobs) /\ due' # <<>>
            BY <1>2, <2>2, <3>1, OrderedType DEF LoopScan
        <3>3. held' \in [Jobs -> Records]
            <4>1. \A j \in Jobs : Loaded(j, store[j], clock) \in Records
                BY LoadedType DEF TypeOK
            <4>2. QED BY <1>2, <2>2, <4>1, AbsentType DEF LoopScan
        <3>4. aliased' \subseteq Jobs
            BY <1>2, <2>2, <3>1 DEF LoopScan
        <3>5. QED
            BY <1>2, <2>2, <3>2, <3>3, <3>4 DEF LoopScan, TypeOK, apiVars, EndPass
    <2>3. QED BY <2>1, <2>2
<1>3. CASE LoopTypeError
    BY <1>3, EndPassType DEF LoopTypeError, AbortPass, TypeOK, apiVars
<1>4. CASE LoopMiss
    <2>1. due # <<>>
        BY <1>4 DEF LoopMiss, TypeOK
    <2>2. /\ Head(due) \in Jobs /\ View(Head(due)).next \in Nat
          /\ View(Head(due)).ver \in Nat
        BY <1>4, <2>1, ViewType DEF LoopMiss, Late, Records
    <2>3. QED
        BY <1>4, <2>2 DEF LoopMiss, TypeOK, viewVars, apiVars
<1>5. CASE LoopReject
    <2>1. due # <<>>
        BY <1>5 DEF LoopReject, TypeOK
    <2>2. QED
        BY <1>5, <2>1, NextDueType DEF LoopReject, TypeOK, apiVars
<1>6. CASE LoopAccept
    <2>1. due # <<>>
        BY <1>6 DEF LoopAccept, TypeOK
    <2>2. /\ Head(due) \in Jobs /\ View(Head(due)).next \in Nat \cup {None}
          /\ View(Head(due)).ver \in Nat
        BY <2>1, ViewType DEF Records
    <2>3. QED
        BY <1>6, <2>2 DEF LoopAccept, TypeOK, viewVars, apiVars
<1>7. CASE LoopAdvance
    <2>1. due # <<>>
        BY <1>7 DEF LoopAdvance, TypeOK
    <2>2. store' \in [Jobs -> Records]
        BY <1>7, <2>1, AdvancedType DEF LoopAdvance
    <2>3. CASE loopPc = "miss"
        BY <1>7, <2>1, <2>2, <2>3, NextDueType DEF LoopAdvance, TypeOK, apiVars
    <2>4. CASE loopPc # "miss"
        BY <1>7, <2>1, <2>2, <2>4 DEF LoopAdvance, TypeOK, viewVars, apiVars
    <2>5. QED BY <2>3, <2>4
<1>8. CASE LoopAdvanceFails
    <2>1. /\ EndPass /\ runTime' = None /\ runVer' = 0 /\ seen' = 0
          /\ UNCHANGED <<clock, store, running, runs, missed, api, calls>>
          /\ faults' = faults + 1
        BY <1>8 DEF LoopAdvanceFails, Fault, AbortPass, apiVars
    <2>2. QED BY <2>1, EndPassType DEF TypeOK
<1>9. CASE LoopDispatch
    <2>1. due # <<>>
        BY <1>9 DEF LoopDispatch, TypeOK
    <2>2. Head(due) \in Jobs
        BY <2>1, ViewType
    <2>3. Run("due", Head(due), runTime, runVer) \in RunRecords
        BY <2>2 DEF Run, RunRecords, TypeOK
    <2>4. runs' \in Seq(RunRecords)
        BY <1>9, <2>3 DEF LoopDispatch, TypeOK
    <2>5. running' \in [Jobs -> Nat]
        BY <1>9, <2>2 DEF LoopDispatch, TypeOK
    <2>6. QED
        BY <1>9, <2>1, <2>4, <2>5, NextDueType DEF LoopDispatch, TypeOK, apiVars
<1>10. CASE LoopSubmitFails
    <2>1. running' \in [Jobs -> Nat]
        BY <1>10 DEF LoopSubmitFails, TypeOK
    <2>2. /\ EndPass /\ runTime' = None /\ runVer' = 0 /\ seen' = 0
          /\ UNCHANGED <<clock, store, runs, missed, api, calls>>
          /\ faults' = faults + 1
        BY <1>10 DEF LoopSubmitFails, Fault, AbortPass, apiVars
    <2>3. /\ loopPc' = "idle" /\ passNow' \in Nat /\ due' = <<>>
          /\ due' \in Seq(Jobs)
          /\ held' \in [Jobs -> Records] /\ aliased' \subseteq Jobs
        BY <2>2, EndPassType
    <2>4. QED BY <2>1, <2>2, <2>3 DEF TypeOK
<1>11. QED
    BY <1>1, <1>2, <1>3, <1>4, <1>5, <1>6, <1>7, <1>8, <1>9, <1>10 DEF Loop
\* Changing the phase, and perhaps the count, of a run leaves a list of runs.
LEMMA RunsUpdateType ==
    ASSUME TypeOK, NEW i \in DOMAIN runs, NEW r \in RunRecords
    PROVE  [runs EXCEPT ![i] = r] \in Seq(RunRecords)
<1>1. runs \in Seq(RunRecords)
    BY DEF TypeOK
<1>2. i \in 1..Len(runs)
    BY <1>1, LenProperties
<1>3. QED BY <1>1, <1>2, ExceptSeq

LEMMA RunType ==
    ASSUME TypeOK, NEW i \in DOMAIN runs
    PROVE  runs[i] \in RunRecords
<1>1. runs \in Seq(RunRecords)
    BY DEF TypeOK
<1>2. QED BY <1>1, LenProperties

\* The actions that only touch the list of runs, the counters and the faults.
LEMMA TypeFinish ==
    ASSUME TypeOK, NEW i \in DOMAIN runs,
           Finish(i) \/ FinishLogFails(i) \/ ManualRaises(i)
    PROVE  TypeOK'
<1>1. runs[i] \in RunRecords /\ runs[i].job \in Jobs /\ runs[i].count \in Nat
    BY RunType DEF RunRecords
<1>2. CASE FinishRead(i)
    <2> DEFINE n == IF running[runs[i].job] = 0 THEN 0
                    ELSE running[runs[i].job] - 1
    <2>1. n \in Nat
        BY <1>1 DEF TypeOK
    <2>2. [runs[i] EXCEPT !.phase = "read", !.count = n] \in RunRecords
        BY <1>1, <2>1 DEF RunRecords
    <2>3. runs' = [runs EXCEPT ![i] = [runs[i] EXCEPT !.phase = "read",
                                                     !.count = n]]
        BY <1>2 DEF FinishRead, Lowered
    <2> HIDE DEF n
    <2>4. runs' \in Seq(RunRecords)
        BY <2>2, <2>3, RunsUpdateType
    <2>5. QED
        BY <1>2, <2>4 DEF FinishRead, Lowered, TypeOK, loopVars, viewVars, apiVars
<1>3. CASE FinishWrite(i)
    <2>1. [runs[i] EXCEPT !.phase = "counted"] \in RunRecords
        BY <1>1 DEF RunRecords
    <2>2. runs' = [runs EXCEPT ![i] = [runs[i] EXCEPT !.phase = "counted"]]
        BY <1>3 DEF FinishWrite
    <2>3. runs' \in Seq(RunRecords)
        BY <2>1, <2>2, RunsUpdateType
    <2>4. running' \in [Jobs -> Nat]
        BY <1>1, <1>3 DEF FinishWrite, TypeOK
    <2>5. QED
        BY <1>3, <2>3, <2>4 DEF FinishWrite, TypeOK, loopVars, viewVars, apiVars
<1>4. CASE FinishLog(i)
    <2>1. [runs[i] EXCEPT !.phase = "logged"] \in RunRecords
        BY <1>1 DEF RunRecords
    <2>2. runs' = [runs EXCEPT ![i] = [runs[i] EXCEPT !.phase = "logged"]]
        BY <1>4 DEF FinishLog
    <2>3. runs' \in Seq(RunRecords)
        BY <2>1, <2>2, RunsUpdateType
    <2>4. QED
        BY <1>4, <2>3 DEF FinishLog, TypeOK, loopVars, viewVars, apiVars
<1>5. CASE FinishLogFails(i) \/ ManualRaises(i)
    <2>1. [runs[i] EXCEPT !.phase = "dropped"] \in RunRecords
        BY <1>1 DEF RunRecords
    <2>2. runs' = [runs EXCEPT ![i] = [runs[i] EXCEPT !.phase = "dropped"]]
        BY <1>5 DEF FinishLogFails, ManualRaises
    <2>3. runs' \in Seq(RunRecords)
        BY <2>1, <2>2, RunsUpdateType
    <2>4. faults' \in Nat
        BY <1>5 DEF FinishLogFails, ManualRaises, Fault, TypeOK
    <2>5. QED
        BY <1>5, <2>3, <2>4
           DEF FinishLogFails, ManualRaises, TypeOK, loopVars, viewVars, apiVars
<1>6. QED BY <1>2, <1>3, <1>4, <1>5 DEF Finish

LEMMA TypeBegin ==
    ASSUME TypeOK, NEW j \in Jobs, BeginAdd(j) \/ BeginFound(j) \/ BeginReschedule(j)
    PROVE  TypeOK'
<1>1. ASSUME NEW op \in AllOps, NEW rec \in Records, NEW found \in BOOLEAN,
             Begin(op, j, rec, found)
      PROVE  TypeOK'
    BY <1>1 DEF Begin, TypeOK, loopVars, viewVars
<1>2. Loaded(j, store[j], clock) \in Records
    BY LoadedType DEF TypeOK
<1>3. CASE BeginAdd(j)
    <2>1. PICK op \in {"add", "replace"}, trig \in NewTriggers :
              Begin(op, j, NewJob(trig, clock, calls + 1),
                    op = "replace" /\ Present(j))
        BY <1>3 DEF BeginAdd
    <2>2. NewJob(trig, clock, calls + 1) \in Records
        BY NewJobType, TriggerAssumption DEF TypeOK
    <2>3. (op = "replace" /\ Present(j)) \in BOOLEAN
        OBVIOUS
    <2>4. op \in AllOps
        BY DEF AllOps
    <2>5. QED BY <1>1, <2>1, <2>2, <2>3, <2>4
<1>4. CASE BeginFound(j)
    BY <1>1, <1>2, <1>4 DEF BeginFound, AllOps
<1>5. CASE BeginReschedule(j)
    <2>1. PICK trig \in NewTriggers :
              Begin("reschedule", j, [Loaded(j, store[j], clock) EXCEPT !.trig = trig],
                    TRUE)
        BY <1>5 DEF BeginReschedule
    <2>2. [Loaded(j, store[j], clock) EXCEPT !.trig = trig] \in Records
        BY <1>2, TriggerAssumption DEF Records
    <2>3. QED BY <1>1, <2>1, <2>2 DEF AllOps
<1>6. QED BY <1>3, <1>4, <1>5

\* Every record a call may store is a record.
LEMMA MineType ==
    ASSUME TypeOK, api.op # "none"
    PROVE  api.job \in Jobs /\ Mine \in Records /\ api.rec \in Records
BY DEF TypeOK, Mine

LEMMA EndType ==
    ASSUME TypeOK, NEW newStore \in [Jobs -> Records], End(newStore),
           held' \in [Jobs -> Records], aliased' \subseteq Jobs
    PROVE  TypeOK'
<1>1. Idle \in [op : AllOps \cup {"none"}, job : Jobs \cup {None},
                rec : Records, found : BOOLEAN]
    BY AbsentType DEF Idle
<1>2. Idle.op = "none"
    BY DEF Idle
<1>3. QED BY <1>1, <1>2 DEF End, TypeOK, loopVars

LEMMA UpdatedType ==
    ASSUME TypeOK, api.op # "none", NEW rec \in Records
    PROVE  Updated(rec) \in [Jobs -> Records]
BY MineType DEF Updated, TypeOK

LEMMA TypeApiEnd == TypeOK /\ ApiEnd => TypeOK'
<1> SUFFICES ASSUME TypeOK, ApiEnd PROVE TypeOK'
    OBVIOUS
<1>1. api.op # "none"
    BY DEF ApiEnd, EndAdd, EndUpdate, EndReschedule, EndPause, EndResume, EndRemove
<1>2. api.job \in Jobs /\ Mine \in Records /\ api.rec \in Records
    BY <1>1, MineType
<1>3. UNCHANGED viewVars => held' \in [Jobs -> Records] /\ aliased' \subseteq Jobs
    BY DEF TypeOK, viewVars
<1>4. Detach(api.job) => held' \in [Jobs -> Records] /\ aliased' \subseteq Jobs
    BY <1>2, <1>3 DEF TypeOK, Detach
<1>5. CASE EndAdd
    <2>1. [store EXCEPT ![api.job] = api.rec] \in [Jobs -> Records]
        BY <1>2 DEF TypeOK
    <2>2. store \in [Jobs -> Records]
        BY DEF TypeOK
    <2>3. QED BY <1>3, <1>4, <1>5, <2>1, <2>2, EndType DEF EndAdd
<1>6. CASE EndUpdate
    BY <1>1, <1>2, <1>3, <1>6, UpdatedType, EndType DEF EndUpdate
<1>7. CASE EndReschedule
    <2>1. NextFire(api.rec.trig, None, clock) \in Nat \cup {None}
        BY <1>2, NextFireType DEF TypeOK, Records
    <2>2. [Mine EXCEPT !.trig = api.rec.trig,
                       !.next = NextFire(api.rec.trig, None, clock),
                       !.ver = calls] \in Records
        BY <1>2, <2>1 DEF Records, TypeOK
    <2>3. QED BY <1>1, <1>3, <1>7, <2>2, UpdatedType, EndType DEF EndReschedule
<1>8. CASE EndPause
    <2>1. [Mine EXCEPT !.status = "paused", !.next = None, !.ver = calls] \in Records
        BY <1>2 DEF Records, TypeOK
    <2>2. QED BY <1>1, <1>3, <1>8, <2>1, UpdatedType, EndType DEF EndPause
<1>9. CASE EndResume
    <2>1. NextFire(Mine.trig, None, clock) \in Nat \cup {None}
        BY <1>2, NextFireType DEF TypeOK, Records
    <2>2. [Mine EXCEPT !.status = "running",
                       !.next = NextFire(Mine.trig, None, clock),
                       !.ver = calls] \in Records
        BY <1>2, <2>1 DEF Records, TypeOK
    <2>3. QED BY <1>1, <1>3, <1>9, <2>2, UpdatedType, EndType DEF EndResume
<1>10. CASE EndRemove
    <2>1. [store EXCEPT ![api.job] = Absent] \in [Jobs -> Records]
        BY <1>2, AbsentType DEF TypeOK
    <2>2. QED BY <1>4, <1>10, <2>1, EndType DEF EndRemove
<1>11. QED BY <1>5, <1>6, <1>7, <1>8, <1>9, <1>10 DEF ApiEnd

LEMMA TypeRunNow ==
    ASSUME TypeOK, NEW j \in Jobs, RunNow(j)
    PROVE  TypeOK'
<1>1. Run("manual", j, None, 0) \in RunRecords
    BY DEF Run, RunRecords
<1>2. runs' \in Seq(RunRecords)
    BY <1>1, AppendProperties DEF RunNow, TypeOK
<1>3. QED BY <1>2 DEF RunNow, TypeOK, loopVars, viewVars

LEMMA TypeCrash == TypeOK /\ Crash => TypeOK'
<1> SUFFICES ASSUME TypeOK, Crash PROVE TypeOK'
    OBVIOUS
<1>1. EndPass /\ faults' \in Nat
    BY DEF Crash, AbortPass, Fault, TypeOK
<1>2. runs' \in Seq(RunRecords)
    <2>1. runs \in Seq(RunRecords) /\ Len(runs) \in Nat
        BY DEF TypeOK
    <2>2. DOMAIN runs = 1..Len(runs)
        BY <2>1
    <2>3. \A i \in 1..Len(runs) : [runs[i] EXCEPT !.phase = "lost"] \in RunRecords
        BY <2>2, RunType DEF RunRecords
    <2>4. runs' \in [1..Len(runs) -> RunRecords]
        BY <2>2, <2>3, RunType DEF Crash
    <2>5. QED BY <2>1, <2>4, SeqDef
<1>3. /\ api' \in [op : AllOps \cup {"none"}, job : Jobs \cup {None},
                   rec : Records, found : BOOLEAN]
      /\ api'.op = "none"
    BY AbsentType DEF Crash, Idle
<1>4. /\ running' \in [Jobs -> Nat] /\ runTime' = None /\ runVer' = 0 /\ seen' = 0
      /\ UNCHANGED <<clock, store, missed, calls>>
    BY DEF Crash, AbortPass
<1>5. /\ loopPc' = "idle" /\ passNow' \in Nat /\ due' = <<>>
      /\ due' \in Seq(Jobs)
      /\ held' \in [Jobs -> Records] /\ aliased' \subseteq Jobs
    BY <1>1, EndPassType
<1>6. QED BY <1>1, <1>2, <1>3, <1>4, <1>5 DEF TypeOK

(***************************************************************************)
(* The type invariant of JobScheduler, for every set of jobs, every store  *)
(* kind and every fault.                                                   *)
(***************************************************************************)
THEOREM TypeCorrect == Spec => []TypeOK
<1>1. TypeOK /\ [Next]_vars => TypeOK'
    <2> SUFFICES ASSUME TypeOK, [Next]_vars PROVE TypeOK'
        OBVIOUS
    <2>1. CASE Loop
        BY <2>1, TypeLoop
    <2>2. CASE \E i \in DOMAIN runs :
                   Finish(i) \/ FinishLogFails(i) \/ ManualRaises(i)
        BY <2>2, TypeFinish
    <2>3. CASE Api
        BY <2>3, TypeBegin, TypeRunNow, TypeApiEnd DEF Api
    <2>4. CASE Tick
        BY <2>4 DEF Tick, TypeOK, loopVars, viewVars, apiVars
    <2>5. CASE Crash
        BY <2>5, TypeCrash
    <2>6. CASE UNCHANGED vars
        BY <2>6 DEF vars, TypeOK, loopVars, viewVars, apiVars
    <2>7. QED BY <2>1, <2>2, <2>3, <2>4, <2>5, <2>6 DEF Next
<1>2. QED BY <1>1, TypeInit, PTL DEF Spec
-----------------------------------------------------------------------------
(* The instance counter.                                                   *)

\* What CounterInv talks about.
counterVars == <<running, runs, loopPc, due, seen>>

LEMMA CounterStutter == CounterInv /\ UNCHANGED counterVars => CounterInv'
BY DEF CounterInv, counterVars, Holding

\* A step that leaves the counters and the runs alone and ends in no handler.
LEMMA CounterQuiet ==
    ASSUME CounterInv, UNCHANGED <<running, runs>>,
           loopPc' \notin {"accept", "dispatch"}
    PROVE  CounterInv'
BY DEF CounterInv, Holding

LEMMA CounterInit == Init => CounterInv
BY MaxInstAssumption DEF Init, CounterInv

LEMMA NextDuePc ==
    ASSUME NextDue PROVE loopPc' \notin {"accept", "dispatch"}
BY DEF NextDue, EndPass

\* A new run of a scheduled job: its count was read below max_instances.
LEMMA CounterDispatch ==
    ASSUME TypeOK, CounterInv, loopPc = "dispatch",
           running' = [running EXCEPT ![Head(due)] = seen + 1],
           runs' = Append(runs, Run("due", Head(due), runTime, runVer)),
           loopPc' \notin {"accept", "dispatch"}
    PROVE  CounterInv'
<1> DEFINE j == Head(due)
           n == Len(runs) + 1
<1>1. j \in Jobs /\ running \in [Jobs -> Nat] /\ seen \in Nat /\ seen < MaxInst[j]
      /\ MaxInst \in [Jobs -> Nat \ {0}]
    BY ViewType, MaxInstAssumption DEF TypeOK, CounterInv
<1>2. Run("due", j, runTime, runVer) \in RunRecords
    BY <1>1 DEF Run, RunRecords, TypeOK
<1>3. /\ runs \in Seq(RunRecords) /\ Len(runs) \in Nat
      /\ DOMAIN runs = 1..Len(runs)
    BY LenProperties DEF TypeOK
<1>4. /\ runs' \in Seq(RunRecords) /\ Len(runs') = n
      /\ \A i \in 1..Len(runs) : runs'[i] = runs[i]
      /\ runs'[n] = Run("due", j, runTime, runVer)
    BY <1>2, <1>3, AppendProperties
<1>5. DOMAIN runs' = 1..n
    BY <1>4, LenProperties
<1>6. runs'[n].kind = "due" /\ runs'[n].phase = "running" /\ runs'[n].job = j
    BY <1>4 DEF Run
<1>7. \A i \in DOMAIN runs' : i \in DOMAIN runs \/ i = n
    BY <1>3, <1>5
<1>8. n \in DOMAIN runs' /\ \A i \in DOMAIN runs : i \in DOMAIN runs' /\ i # n
    BY <1>3, <1>5
<1>9. running' = [running EXCEPT ![j] = seen + 1]
    OBVIOUS
<1>10. \A k \in Jobs : running'[k] <= MaxInst[k]
    BY <1>1, <1>9 DEF CounterInv
<1>11. \A i \in DOMAIN runs' :
          runs'[i].phase = "read" => /\ runs'[i].kind = "due"
                                     /\ runs'[i].count < MaxInst[runs'[i].job]
    BY <1>3, <1>4, <1>6, <1>7 DEF CounterInv
<1>12. ASSUME "submit" \notin Faults, NEW k \in Jobs, running'[k] = MaxInst[k]
       PROVE  \E i \in DOMAIN runs' : runs'[i].job = k /\ Holding(i)'
    <2>1. CASE k = j
        BY <1>6, <1>8, <2>1 DEF Holding
    <2>2. CASE k # j
        <3>1. running[k] = MaxInst[k]
            BY <1>1, <1>9, <1>12, <2>2
        <3>2. PICK i \in DOMAIN runs : runs[i].job = k /\ Holding(i)
            BY <1>12, <3>1 DEF CounterInv
        <3>3. QED BY <1>3, <1>4, <1>8, <3>2 DEF Holding
    <2>3. QED BY <2>1, <2>2
<1>13. MaxInst[j] = 1 => \A i \in DOMAIN runs : ~(Holding(i) /\ runs[i].job = j)
    BY DEF CounterInv
<1>14. MaxInst[j] = 1 => seen = 0
    BY <1>1
<1>15. ASSUME NEW i \in DOMAIN runs', Holding(i)', MaxInst[runs'[i].job] = 1
       PROVE  running'[runs'[i].job] = 1
    <2>1. CASE i = n
        BY <1>1, <1>6, <1>9, <1>14, <1>15, <2>1
    <2>2. CASE i # n
        <3>1. i \in DOMAIN runs /\ runs'[i] = runs[i] /\ Holding(i)
            BY <1>3, <1>4, <1>7, <1>15, <2>2 DEF Holding
        <3>2. runs[i].job # j /\ runs[i].job \in Jobs
            BY <1>13, <1>15, <3>1, RunType DEF RunRecords
        <3>3. running[runs[i].job] = 1
            BY <1>15, <3>1 DEF CounterInv
        <3>4. QED BY <1>1, <1>9, <3>1, <3>2, <3>3
    <2>3. QED BY <2>1, <2>2
<1>16. ASSUME NEW a \in DOMAIN runs', NEW b \in DOMAIN runs', Holding(a)', Holding(b)',
              runs'[a].job = runs'[b].job, MaxInst[runs'[a].job] = 1
       PROVE  a = b
    <2>1. \A i \in DOMAIN runs' : i # n /\ Holding(i)' =>
             i \in DOMAIN runs /\ runs'[i] = runs[i] /\ Holding(i)
        BY <1>3, <1>4, <1>7 DEF Holding
    <2>2. CASE a # n /\ b # n
        BY <1>16, <2>1, <2>2 DEF CounterInv
    <2>3. CASE a = n \/ b = n
        BY <1>6, <1>13, <1>16, <2>1, <2>3
    <2>4. QED BY <2>2, <2>3
<1>17. QED
    BY <1>10, <1>11, <1>12, <1>15, <1>16 DEF CounterInv

\* A step of one run that neither takes nor gives up the counter.
LEMMA CounterOther ==
    ASSUME TypeOK, CounterInv, NEW i \in DOMAIN runs, NEW phase, ~Holding(i),
           phase # "read",
           runs[i].kind = "manual" \/ phase # "running",
           runs' = [runs EXCEPT ![i].phase = phase],
           UNCHANGED <<running, loopPc, due, seen>>
    PROVE  CounterInv'
<1>1. DOMAIN runs' = DOMAIN runs
    OBVIOUS
<1>2. \A k \in DOMAIN runs : /\ runs'[k].job = runs[k].job
                             /\ runs'[k].count = runs[k].count
                             /\ k # i => runs'[k] = runs[k]
    BY RunType DEF RunRecords
<1>3. runs'[i].phase = phase /\ runs'[i].kind = runs[i].kind
    BY RunType DEF RunRecords
<1>4. \A k \in DOMAIN runs : Holding(k)' <=> Holding(k)
    BY <1>2, <1>3 DEF Holding
<1>5. QED BY <1>1, <1>2, <1>3, <1>4 DEF CounterInv

LEMMA CounterFinish ==
    ASSUME TypeOK, CounterInv, NEW i \in DOMAIN runs,
           Finish(i) \/ FinishLogFails(i) \/ ManualRaises(i)
    PROVE  CounterInv'
<1>1. /\ runs[i] \in RunRecords /\ runs[i].job \in Jobs
      /\ running \in [Jobs -> Nat] /\ MaxInst \in [Jobs -> Nat \ {0}]
    BY RunType, MaxInstAssumption DEF TypeOK, RunRecords
<1>2. CASE FinishRead(i)
    <2> DEFINE n == IF running[runs[i].job] = 0 THEN 0
                    ELSE running[runs[i].job] - 1
    <2>1. n \in Nat /\ n < MaxInst[runs[i].job]
        BY <1>1 DEF CounterInv
    <2>2. /\ runs' = [runs EXCEPT ![i].phase = "read", ![i].count = n]
          /\ UNCHANGED <<running, loopPc, due, seen>>
          /\ Holding(i)
        BY <1>2 DEF FinishRead, Lowered, loopVars, Holding
    <2> HIDE DEF n
    <2>3. DOMAIN runs' = DOMAIN runs
        BY <2>2
    <2>4. /\ runs'[i].phase = "read" /\ runs'[i].count = n
          /\ runs'[i].job = runs[i].job /\ runs'[i].kind = runs[i].kind
        BY <1>1, <2>2 DEF RunRecords
    <2>5. \A k \in DOMAIN runs : k # i => runs'[k] = runs[k]
        BY <2>2
    <2>6. \A k \in DOMAIN runs : runs'[k].job = runs[k].job
        BY <2>4, <2>5
    <2>7. \A k \in DOMAIN runs : Holding(k)' <=> Holding(k)
        BY <2>2, <2>4, <2>5 DEF Holding
    <2>8. \A k \in DOMAIN runs : runs'[k].phase = "read" =>
              runs'[k].kind = "due" /\ runs'[k].count < MaxInst[runs'[k].job]
        BY <2>1, <2>2, <2>4, <2>5 DEF CounterInv, Holding
    <2>9. QED BY <2>2, <2>3, <2>6, <2>7, <2>8 DEF CounterInv
<1>3. CASE FinishWrite(i)
    <2> DEFINE j == runs[i].job
    <2>1. runs[i].count \in Nat /\ runs[i].count < MaxInst[j]
        BY <1>1, <1>3 DEF FinishWrite, CounterInv, RunRecords
    <2>2. /\ runs' = [runs EXCEPT ![i].phase = "counted"]
          /\ running' = [running EXCEPT ![j] = runs[i].count]
          /\ UNCHANGED <<loopPc, due, seen>>
        BY <1>3 DEF FinishWrite, loopVars
    <2>3. DOMAIN runs' = DOMAIN runs
        BY <2>2
    <2>4. runs'[i].phase = "counted" /\ runs'[i].job = runs[i].job
        BY <1>1, <2>2 DEF RunRecords
    <2>5. \A k \in DOMAIN runs : k # i => runs'[k] = runs[k]
        BY <2>2
    <2>6. /\ \A k \in DOMAIN runs : runs'[k].job = runs[k].job
          /\ ~Holding(i)'
          /\ \A k \in DOMAIN runs : k # i => (Holding(k)' <=> Holding(k))
        BY <2>4, <2>5 DEF Holding
    <2>7. \A k \in Jobs : running'[k] <= MaxInst[k]
        BY <1>1, <2>1, <2>2 DEF CounterInv
    <2>8. \A k \in DOMAIN runs : runs'[k].phase = "read" =>
              runs'[k].kind = "due" /\ runs'[k].count < MaxInst[runs'[k].job]
        BY <2>4, <2>5 DEF CounterInv
    <2>9. ASSUME "submit" \notin Faults, NEW k \in Jobs, running'[k] = MaxInst[k]
          PROVE  \E m \in DOMAIN runs' : runs'[m].job = k /\ Holding(m)'
        <3>1. k # j /\ running[k] = MaxInst[k]
            BY <1>1, <2>1, <2>2, <2>9
        <3>2. PICK m \in DOMAIN runs : runs[m].job = k /\ Holding(m)
            BY <2>9, <3>1 DEF CounterInv
        <3>3. QED BY <2>3, <2>6, <3>1, <3>2
    <2>10. ASSUME NEW k \in DOMAIN runs, Holding(k)', MaxInst[runs[k].job] = 1
           PROVE  running'[runs[k].job] = 1
        <3>1. k # i /\ Holding(k) /\ Holding(i)
            BY <1>3, <2>6, <2>10 DEF FinishWrite, CounterInv, Holding
        <3>2. runs[k].job # j
            BY <2>10, <3>1 DEF CounterInv
        <3>3. running[runs[k].job] = 1
            BY <2>10, <3>1 DEF CounterInv
        <3>4. QED BY <1>1, <2>2, <3>2, <3>3
    <2>11. QED
        BY <2>2, <2>3, <2>6, <2>7, <2>8, <2>9, <2>10 DEF CounterInv
<1>4. CASE FinishLog(i)
    BY <1>4, CounterOther DEF FinishLog, LogDue, Holding, loopVars
<1>5. CASE FinishLogFails(i) \/ ManualRaises(i)
    BY <1>5, CounterOther DEF FinishLogFails, ManualRaises, LogDue, Holding, loopVars
<1>6. QED BY <1>2, <1>3, <1>4, <1>5 DEF Finish
\* A manual run is not counted.
LEMMA CounterRunNow ==
    ASSUME TypeOK, CounterInv, NEW j \in Jobs, RunNow(j)
    PROVE  CounterInv'
<1>0. PICK n : n = Len(runs) + 1
    OBVIOUS
<1>1. /\ runs' = Append(runs, Run("manual", j, None, 0))
      /\ UNCHANGED <<running, loopPc, due, seen>>
    BY DEF RunNow, loopVars
<1>2. Run("manual", j, None, 0) \in RunRecords
    BY DEF Run, RunRecords
<1>3. runs \in Seq(RunRecords) /\ Len(runs) \in Nat /\ DOMAIN runs = 1..Len(runs)
    BY LenProperties DEF TypeOK
<1>4. /\ runs' \in Seq(RunRecords) /\ Len(runs') = n
      /\ \A i \in DOMAIN runs : runs'[i] = runs[i]
      /\ runs'[n] = Run("manual", j, None, 0)
    BY <1>0, <1>1, <1>2, <1>3, AppendProperties
<1>5. DOMAIN runs' = DOMAIN runs \cup {n}
    BY <1>0, <1>3, <1>4, LenProperties
<1>6. runs'[n].kind = "manual" /\ runs'[n].phase = "running"
    BY <1>4 DEF Run
<1>13. ~Holding(n)'
    BY <1>6 DEF Holding
<1>14. \A i \in DOMAIN runs : Holding(i)' <=> Holding(i)
    BY <1>4 DEF Holding
<1>7. ~Holding(n)' /\ \A i \in DOMAIN runs : Holding(i)' <=> Holding(i)
    BY <1>13, <1>14
<1>8. \A k \in Jobs : running'[k] <= MaxInst[k]
    BY <1>1 DEF CounterInv
<1>9. \A i \in DOMAIN runs' :
          runs'[i].phase = "read" => /\ runs'[i].kind = "due"
                                     /\ runs'[i].count < MaxInst[runs'[i].job]
    BY <1>4, <1>5, <1>6 DEF CounterInv
<1>10. "submit" \notin Faults => \A k \in Jobs : running'[k] = MaxInst[k] =>
          \E i \in DOMAIN runs' : runs'[i].job = k /\ Holding(i)'
    BY <1>1, <1>4, <1>5, <1>7 DEF CounterInv
<1>11. \A i \in DOMAIN runs' : Holding(i)' => i \in DOMAIN runs /\ Holding(i)
    BY <1>5, <1>7
<1>12. QED
    BY <1>1, <1>4, <1>8, <1>9, <1>10, <1>11 DEF CounterInv

LEMMA CounterLoop == TypeOK /\ CounterInv /\ Loop => CounterInv'
<1> SUFFICES ASSUME TypeOK, CounterInv, Loop PROVE CounterInv'
    OBVIOUS
<1>1. CASE LoopTop
    BY <1>1, CounterQuiet DEF LoopTop
<1>2. CASE LoopScan
    BY <1>2, CounterQuiet DEF LoopScan, EndPass
<1>3. CASE LoopTypeError
    BY <1>3, CounterQuiet DEF LoopTypeError, AbortPass, EndPass
<1>4. CASE LoopMiss
    BY <1>4, CounterQuiet DEF LoopMiss
<1>5. CASE LoopReject
    BY <1>5, CounterQuiet, NextDuePc DEF LoopReject, AtLimit
<1>6. CASE LoopAccept
    <2>2. /\ Head(due) \in Jobs /\ running[Head(due)] \in Nat
          /\ MaxInst[Head(due)] \in Nat
        BY <1>6, ViewType, MaxInstAssumption DEF LoopAccept, TypeOK
    <2>1. /\ UNCHANGED <<running, runs, due>> /\ seen' = running[Head(due)]
          /\ running[Head(due)] < MaxInst[Head(due)]
        BY <1>6, <2>2 DEF LoopAccept, AtLimit
    <2>3. MaxInst[Head(due)] = 1 =>
              \A i \in DOMAIN runs : ~(Holding(i) /\ runs[i].job = Head(due))
        BY <2>1, <2>2 DEF CounterInv
    <2>4. \A i : Holding(i)' <=> Holding(i)
        BY <2>1 DEF Holding
    <2>5. QED BY <2>1, <2>3, <2>4 DEF CounterInv
<1>7. CASE LoopAdvance
    <2>1. CASE loopPc = "miss"
        BY <1>7, <2>1, CounterQuiet, NextDuePc DEF LoopAdvance
    <2>2. CASE loopPc # "miss"
        <3>1. /\ loopPc = "accept" /\ loopPc' = "dispatch"
              /\ UNCHANGED <<running, runs, due, seen>>
            BY <1>7, <2>2 DEF LoopAdvance
        <3>2. \A i : Holding(i)' <=> Holding(i)
            BY <3>1 DEF Holding
        <3>3. QED BY <3>1, <3>2 DEF CounterInv
    <2>3. QED BY <2>1, <2>2
<1>8. CASE LoopAdvanceFails
    BY <1>8, CounterQuiet DEF LoopAdvanceFails, AbortPass, EndPass
<1>9. CASE LoopDispatch
    BY <1>9, CounterDispatch, NextDuePc DEF LoopDispatch
<1>10. CASE LoopSubmitFails
    <2> DEFINE j == Head(due)
    <2>1. /\ running' = [running EXCEPT ![j] = seen + 1] /\ UNCHANGED runs
          /\ loopPc' = "idle" /\ "submit" \in Faults
        BY <1>10 DEF LoopSubmitFails, Fault, AbortPass, EndPass
    <2>2. /\ j \in Jobs /\ running \in [Jobs -> Nat] /\ seen \in Nat
          /\ seen < MaxInst[j] /\ MaxInst \in [Jobs -> Nat \ {0}]
        BY <1>10, ViewType, MaxInstAssumption DEF LoopSubmitFails, TypeOK, CounterInv
    <2>3. MaxInst[j] = 1 => \A i \in DOMAIN runs : ~(Holding(i) /\ runs[i].job = j)
        BY <1>10 DEF LoopSubmitFails, CounterInv
    <2>4. \A k \in Jobs : running'[k] <= MaxInst[k]
        BY <2>1, <2>2 DEF CounterInv
    <2>5. \A i : Holding(i)' <=> Holding(i)
        BY <2>1 DEF Holding
    <2>6. \A i \in DOMAIN runs :
             Holding(i) /\ MaxInst[runs[i].job] = 1 => running'[runs[i].job] = 1
        BY <2>1, <2>2, <2>3, RunType DEF CounterInv, RunRecords
    <2>7. QED BY <2>1, <2>4, <2>5, <2>6 DEF CounterInv
<1>11. QED
    BY <1>1, <1>2, <1>3, <1>4, <1>5, <1>6, <1>7, <1>8, <1>9, <1>10 DEF Loop

LEMMA CounterCrash == TypeOK /\ CounterInv /\ Crash => CounterInv'
<1> SUFFICES ASSUME TypeOK, CounterInv, Crash PROVE CounterInv'
    OBVIOUS
<1>1. /\ running' = [j \in Jobs |-> 0] /\ loopPc' = "idle"
      /\ DOMAIN runs' = DOMAIN runs
    BY DEF Crash, AbortPass, EndPass
<1>2. \A i \in DOMAIN runs : runs'[i].phase \notin {"running", "read"}
    BY RunType DEF Crash, RunRecords
<1>3. \A i \in DOMAIN runs' : ~Holding(i)'
    BY <1>1, <1>2 DEF Holding
<1>4. QED BY <1>1, <1>2, <1>3, MaxInstAssumption DEF CounterInv

(***************************************************************************)
(* The counter invariant holds for every set of jobs and max_instances,    *)
(* every kind of store, every API call and every fault.                    *)
(***************************************************************************)
THEOREM CounterInvariant == Spec => []CounterInv
<1>1. TypeOK /\ CounterInv /\ [Next]_vars => CounterInv'
    <2> SUFFICES ASSUME TypeOK, CounterInv, [Next]_vars PROVE CounterInv'
        OBVIOUS
    <2>1. CASE Loop
        BY <2>1, CounterLoop
    <2>2. CASE \E i \in DOMAIN runs :
                   Finish(i) \/ FinishLogFails(i) \/ ManualRaises(i)
        BY <2>2, CounterFinish
    <2>3. CASE Api
        <3>1. CASE \E j \in Jobs : RunNow(j)
            BY <3>1, CounterRunNow
        <3>2. CASE ~\E j \in Jobs : RunNow(j)
            BY <2>3, <3>2, CounterStutter
               DEF Api, BeginAdd, BeginFound, BeginReschedule, Begin, ApiEnd,
                   EndAdd, EndUpdate, EndReschedule, EndPause, EndResume,
                   EndRemove, End, loopVars, counterVars
        <3>3. QED BY <3>1, <3>2
    <2>4. CASE Tick
        BY <2>4, CounterStutter DEF Tick, loopVars, counterVars
    <2>5. CASE Crash
        BY <2>5, CounterCrash
    <2>6. CASE UNCHANGED vars
        BY <2>6, CounterStutter DEF vars, loopVars, counterVars
    <2>7. QED BY <2>1, <2>2, <2>3, <2>4, <2>5, <2>6 DEF Next
<1>2. QED BY <1>1, CounterInit, TypeCorrect, PTL DEF Spec

(***************************************************************************)
(* A job with max_instances = 1 never has two scheduled runs at once.      *)
(***************************************************************************)
THEOREM SingleInstanceHolds == Spec => []SingleInstance
<1>1. CounterInv => SingleInstance
    BY DEF CounterInv, SingleInstance, InFlight, Holding
<1>2. QED BY <1>1, CounterInvariant, PTL

(***************************************************************************)
(* As long as no submission fails, a job is turned away for max_instances  *)
(* only while a run of it is outstanding, whatever max_instances is: the   *)
(* races on the counter cannot block a job for ever.                       *)
(***************************************************************************)
THEOREM LimitMeansRunningHolds ==
    ASSUME "submit" \notin Faults
    PROVE  Spec => []LimitMeansRunning
<1>1. TypeOK /\ CounterInv => LimitMeansRunning
    <2> SUFFICES ASSUME TypeOK, CounterInv, NEW j \in Jobs, running[j] >= MaxInst[j]
                 PROVE  Holders(j) # {}
        BY DEF LimitMeansRunning
    <2>1. running[j] = MaxInst[j]
        BY MaxInstAssumption DEF TypeOK, CounterInv
    <2>2. PICK i \in DOMAIN runs : runs[i].job = j /\ Holding(i)
        BY <2>1 DEF CounterInv
    <2>3. QED BY <2>2 DEF Holders
<1>2. QED BY <1>1, CounterInvariant, TypeCorrect, PTL

(***************************************************************************)
(* As long as no submission fails, the counter of a job with max_instances *)
(* = 1 is exactly the number of runs that hold it.                         *)
(***************************************************************************)
THEOREM CounterExactHolds ==
    ASSUME "submit" \notin Faults
    PROVE  Spec => []CounterExact
<1>1. TypeOK /\ CounterInv => CounterExact
    <2> SUFFICES ASSUME TypeOK, CounterInv, NEW j \in Jobs, MaxInst[j] = 1
                 PROVE  running[j] = Cardinality(Holders(j))
        BY DEF CounterExact
    <2>1. CASE Holders(j) = {}
        <3>1. running[j] # 1
            BY <2>1 DEF CounterInv, Holders
        <3>2. running[j] \in Nat /\ running[j] <= 1
            BY DEF TypeOK, CounterInv
        <3>3. QED BY <2>1, <3>1, <3>2, FS_EmptySet
    <2>2. CASE Holders(j) # {}
        <3>1. PICK i \in Holders(j) : TRUE
            BY <2>2
        <3>2. running[j] = 1
            BY <3>1 DEF CounterInv, Holders
        <3>3. Holders(j) = {i}
            BY <3>1 DEF CounterInv, Holders
        <3>4. QED BY <3>2, <3>3, FS_Singleton
    <2>3. QED BY <2>1, <2>2
<1>2. QED BY <1>1, CounterInvariant, TypeCorrect, PTL
=============================================================================
