------------------------ MODULE JobSettlementProofs ------------------------
(***************************************************************************)
(* Theorems about JobScheduler: a run time is settled once, and none is    *)
(* skipped but for a fault, for every set of jobs, every trigger, every    *)
(* kind of store, every fault and every bound.                             *)
(***************************************************************************)
EXTENDS JobSchedulerProofs

USE DEF None

-----------------------------------------------------------------------------
(* Runs: only a dispatch adds to what was dispatched.                      *)

\* A step that dispatches no run of a due job: what was dispatched is as before.
RunsKept ==
    /\ DueRuns' = DueRuns
    /\ \A i \in DueRuns : Occurrence(i)' = Occurrence(i)

LEMMA DispatchedKept ==
    ASSUME RunsKept PROVE Dispatched' = Dispatched
BY DEF RunsKept, Dispatched

LEMMA DueRunsType ==
    ASSUME TypeOK, NEW i \in DueRuns
    PROVE  /\ i \in DOMAIN runs /\ runs[i].job \in Jobs
           /\ runs[i].time \in Nat /\ runs[i].ver \in Nat
BY RunType DEF DueRuns, RunRecords

LEMMA DispatchedType ==
    ASSUME TypeOK
    PROVE  /\ Dispatched \subseteq Jobs \X Nat \X Nat
           /\ Dispatched \cup missed \subseteq Jobs \X Nat \X Nat
<1>1. \A i \in DueRuns : Occurrence(i) \in Jobs \X Nat \X Nat
    BY DueRunsType DEF Occurrence
<1>2. QED BY <1>1 DEF Dispatched, TypeOK

LEMMA RunsKeptSame == UNCHANGED runs => RunsKept
BY DEF RunsKept, DueRuns, Occurrence

\* A new phase or count of a run.
LEMMA RunsKeptFinish ==
    ASSUME TypeOK, NEW i \in DOMAIN runs,
           Finish(i) \/ FinishLogFails(i) \/ ManualRaises(i)
    PROVE  RunsKept
<1>1. runs[i] \in RunRecords
    BY RunType
<1>2. PICK r \in RunRecords :
          /\ runs' = [runs EXCEPT ![i] = r]
          /\ r.kind = runs[i].kind /\ r.job = runs[i].job
          /\ r.time = runs[i].time /\ r.ver = runs[i].ver
    <2>1. CASE FinishRead(i)
        <3> DEFINE n == IF running[runs[i].job] = 0 THEN 0
                        ELSE running[runs[i].job] - 1
        <3>1. n \in Nat
            BY <1>1 DEF TypeOK, RunRecords
        <3>2. runs' = [runs EXCEPT ![i] = [runs[i] EXCEPT !.phase = "read", !.count = n]]
            BY <2>1 DEF FinishRead, Lowered
        <3> HIDE DEF n
        <3>3. [runs[i] EXCEPT !.phase = "read", !.count = n] \in RunRecords
            BY <1>1, <3>1 DEF RunRecords
        <3>4. QED BY <1>1, <3>2, <3>3 DEF RunRecords
    <2>2. CASE \E phase \in {"counted", "logged", "dropped"} :
                   runs' = [runs EXCEPT ![i].phase = phase]
        <3>1. PICK phase \in {"counted", "logged", "dropped"} :
                  runs' = [runs EXCEPT ![i] = [runs[i] EXCEPT !.phase = phase]]
            BY <2>2
        <3>2. [runs[i] EXCEPT !.phase = phase] \in RunRecords
            BY <1>1 DEF RunRecords
        <3>3. QED BY <1>1, <3>1, <3>2 DEF RunRecords
    <2>3. QED
        BY <2>1, <2>2 DEF Finish, FinishWrite, FinishLog, FinishLogFails, ManualRaises
<1>3. DOMAIN runs' = DOMAIN runs /\ \A k \in DOMAIN runs : k # i => runs'[k] = runs[k]
    BY <1>2
<1>4. runs'[i] = r
    BY <1>2
<1>5. QED BY <1>2, <1>3, <1>4 DEF RunsKept, DueRuns, Occurrence

LEMMA RunsKeptRunNow ==
    ASSUME TypeOK, NEW j \in Jobs, RunNow(j) PROVE RunsKept
<1>1. Run("manual", j, None, 0) \in RunRecords
    BY DEF Run, RunRecords
<1>2. /\ runs \in Seq(RunRecords) /\ Len(runs) \in Nat
      /\ runs' = Append(runs, Run("manual", j, None, 0))
    BY DEF RunNow, TypeOK
<1>3. /\ DOMAIN runs' = DOMAIN runs \cup {Len(runs) + 1}
      /\ \A i \in DOMAIN runs : runs'[i] = runs[i]
      /\ runs'[Len(runs) + 1].kind = "manual"
    BY <1>1, <1>2 DEF Run
<1>4. QED BY <1>3 DEF RunsKept, DueRuns, Occurrence

LEMMA RunsKeptCrash == TypeOK /\ Crash => RunsKept
<1> SUFFICES ASSUME TypeOK, Crash PROVE RunsKept
    OBVIOUS
<1>1. \A i \in DOMAIN runs : runs[i] \in RunRecords
    BY RunType
<1>2. /\ DOMAIN runs' = DOMAIN runs
      /\ \A i \in DOMAIN runs :
            /\ runs'[i].kind = runs[i].kind /\ runs'[i].job = runs[i].job
            /\ runs'[i].time = runs[i].time /\ runs'[i].ver = runs[i].ver
    BY <1>1 DEF Crash, RunRecords
<1>3. QED BY <1>2 DEF RunsKept, DueRuns, Occurrence
-----------------------------------------------------------------------------
(* What a step keeps of the invariant.                                     *)

\* The next run time lies after the one that was settled.
LEMMA NextFireAfter ==
    ASSUME NEW trig \in Triggers, NEW prev \in Nat, NEW now \in Nat,
           NextFire(trig, prev, now) # None
    PROVE  prev < NextFire(trig, prev, now)
BY DEF Triggers, NextFire, Until

LEMMA NoTriggerNoTime ==
    ASSUME NEW trig, trig.kind = "none", NEW prev, NEW now
    PROVE  NextFire(trig, prev, now) = None
BY DEF NextFire

LEMMA AbsentSound == Sound(Absent)
BY DEF Sound, Absent, Record, NoTrigger

LEMMA SettleInit == Init => SettleInv
<1> SUFFICES ASSUME Init PROVE SettleInv
    OBVIOUS
<1>1. DueRuns = {} /\ Dispatched = {} /\ InHand = {} /\ missed = {}
    BY DEF Init, DueRuns, Dispatched, InHand
<1>2. SettledOnce /\ NumbersKnown /\ MissedStaysLate /\ InHandNew /\ Taken
    BY <1>1 DEF Init, SettledOnce, NumbersKnown, Known, MissedStaysLate, InHandNew,
                Taken, Idle
<1>3. AllSound
    BY NoTriggerNoTime, AbsentSound
       DEF Init, AllSound, Sound, NewJob, Record, Absent, Idle
<1>4. AllAhead
    BY <1>1 DEF Init, AllAhead, InPlay, Ahead, Known, NewJob, Record, Absent, Idle
<1>5. api.op = "none"
    BY DEF Init, Idle
<1>6. QED BY <1>2, <1>3, <1>4, <1>5 DEF SettleInv

\* Nothing new was settled, so nothing was settled twice.
LEMMA SettledOnceKept ==
    ASSUME SettledOnce, RunsKept, missed' = missed
    PROVE  SettledOnce'
BY DEF SettledOnce, RunsKept

\* The number of a schedule stays known when calls begin and end.
LEMMA KnownKept ==
    ASSUME TypeOK, \/ calls' = calls /\ (api' = api \/ api'.op = "none")
                   \/ calls' = calls + 1 /\ api.op = "none",
           NEW ver \in Nat, Known(ver)
    PROVE  Known(ver)'
BY DEF Known, TypeOK

\* A record stays ahead when no more is dispatched or in hand.
LEMMA AheadKept ==
    ASSUME NEW j \in Jobs, NEW r, Ahead(j, r), Known(r.ver)',
           Dispatched' \cup InHand' \subseteq Dispatched \cup InHand
    PROVE  Ahead(j, r)'
BY DEF Ahead

(***************************************************************************)
(* A step after which the loop is between two jobs or two passes: it gave  *)
(* up the copy of its last job, or all of them, and the store is ahead.    *)
(***************************************************************************)
LEMMA SettlePassOn ==
    ASSUME TypeOK, TypeOK', SettleInv, SettledOnce',
           UNCHANGED <<clock, calls, missed>>, api' = api \/ api' = Idle,
           \/ loopPc' = "idle"
           \/ loopPc' = "pick" /\ loopPc # "idle" /\ passNow' = passNow,
           Dispatched' \cup InHand' \subseteq Dispatched \cup InHand,
           \A j \in Jobs : Sound(store'[j]),
           \A j \in Jobs : store'[j].status # "absent" => Ahead(j, store[j])',
           \A j \in Jobs :
              \/ held'[j] = Absent
              \/ /\ held'[j] = held[j] /\ (j \in aliased' <=> j \in aliased)
                 /\ j # Head(due)
    PROVE  SettleInv'
<1>1. \A v \in Nat : Known(v) => Known(v)'
    BY KnownKept DEF Idle
<1>2. InHand' = {} /\ Dispatched' \subseteq Jobs \X Nat \X Nat
    <2>1. (TypeOK => Dispatched \subseteq Jobs \X Nat \X Nat)'
        BY DispatchedType, PTL
    <2>2. QED BY <2>1 DEF InHand
<1>3. NumbersKnown'
    <2>1. \A o \in Dispatched' : Known(o[3])'
        <3> SUFFICES ASSUME NEW o \in Dispatched' PROVE Known(o[3])'
            OBVIOUS
        <3>1. o[3] \in Nat
            BY <1>2
        <3>2. CASE o \in Dispatched
            BY <1>1, <3>1, <3>2 DEF SettleInv, NumbersKnown
        <3>3. CASE o \in InHand
            BY <1>1, <3>1, <3>3 DEF SettleInv, NumbersKnown, InHand
        <3>4. QED BY <3>2, <3>3
    <2>2. \A o \in missed : o[3] \in Nat
        BY DEF TypeOK
    <2>3. \A o \in missed' : Known(o[3])'
        BY <1>1, <2>2 DEF SettleInv, NumbersKnown
    <2>4. Known(0)'
        BY <1>1 DEF SettleInv, NumbersKnown
    <2>5. QED BY <2>1, <2>3, <2>4 DEF SettleInv, NumbersKnown, Idle
<1>4. AllSound'
    BY AbsentSound DEF SettleInv, AllSound, Idle
<1>5. AllAhead'
    <2> SUFFICES ASSUME NEW j \in Jobs, NEW r \in InPlay(j)' PROVE Ahead(j, r)'
        BY DEF AllAhead
    <2>1. CASE r = store'[j]
        BY <2>1 DEF InPlay
    <2>2. CASE r # store'[j]
        <3>1. r = held'[j] /\ j \notin aliased' /\ r.status # "absent"
            BY <2>2 DEF InPlay
        <3>2. r = held[j] /\ j \notin aliased /\ j # Head(due)
            BY <3>1 DEF Absent, Record
        <3>3. Ahead(j, r)
            BY <3>1, <3>2 DEF SettleInv, AllAhead, InPlay
        <3>4. r.ver \in Nat
            BY <3>2 DEF TypeOK, Records
        <3>5. QED BY <1>1, <3>3, <3>4, AheadKept DEF Ahead
    <2>3. QED BY <2>1, <2>2
<1>6. MissedStaysLate'
    <2>1. \A m \in missed : m[1] \in Jobs /\ m[2] \in Nat
        BY DEF TypeOK
    <2>2. LoopNow' \in Nat /\ LoopNow \in Nat /\ LoopNow' >= LoopNow
        BY DEF SettleInv, MissedStaysLate, LoopNow, TypeOK
    <2>3. loopPc' # "idle" => passNow' <= clock'
        BY DEF SettleInv, MissedStaysLate
    <2>4. QED
        BY <2>1, <2>2, <2>3, GraceAssumption DEF SettleInv, MissedStaysLate
<1>7. InHandNew' /\ Taken'
    BY DEF InHandNew, Taken
<1>8. (api.op \in ApiOps \cup {"none"})'
    BY DEF SettleInv, Idle
<1>9. QED BY <1>3, <1>4, <1>5, <1>6, <1>7, <1>8 DEF SettleInv

\* A step of the clock, of a run or of a call that begins: neither the store
\* nor the loop moves.
LEMMA SettleStay ==
    ASSUME TypeOK, TypeOK', SettleInv, RunsKept, clock' >= clock,
           UNCHANGED <<store, missed, loopPc, due, held, aliased, runTime, runVer,
                       passNow>>,
           \/ calls' = calls /\ api' = api
           \/ /\ calls' = calls + 1 /\ api.op = "none"
              /\ api'.op \in ApiOps \cup {"none"}
              /\ api'.op \in {"add", "replace"} =>
                    api'.rec.ver = calls' /\ Sound(api'.rec)
              /\ api'.op # "none" => api'.rec.status # "absent"
    PROVE  SettleInv'
<1>1. \A v \in Nat : Known(v) => Known(v)'
    BY KnownKept
<1>2. Dispatched' = Dispatched /\ InHand' = InHand
    BY DispatchedKept DEF InHand
<1>3. SettledOnce'
    BY SettledOnceKept DEF SettleInv
<1>4. NumbersKnown'
    <2>1. \A o \in Dispatched \cup missed : o[3] \in Nat
        BY DispatchedType
    <2>2. runVer \in Nat
        BY DEF TypeOK
    <2>3. QED BY <1>1, <1>2, <2>1, <2>2 DEF SettleInv, NumbersKnown
<1>5. AllSound'
    BY DEF SettleInv, AllSound
<1>6. AllAhead'
    <2> SUFFICES ASSUME NEW j \in Jobs, NEW r \in InPlay(j)' PROVE Ahead(j, r)'
        BY DEF AllAhead
    <2>1. r \in InPlay(j)
        BY DEF InPlay
    <2>2. Ahead(j, r) /\ r.ver \in Nat
        BY <2>1 DEF SettleInv, AllAhead, InPlay, TypeOK, Records
    <2>3. QED BY <1>1, <1>2, <2>2, AheadKept DEF Ahead
<1>7. MissedStaysLate'
    <2>1. \A m \in missed : m[1] \in Jobs /\ m[2] \in Nat
        BY DEF TypeOK
    <2>2. LoopNow' \in Nat /\ LoopNow \in Nat /\ LoopNow' >= LoopNow
        BY DEF LoopNow, TypeOK
    <2>3. loopPc' # "idle" => passNow' <= clock'
        BY DEF SettleInv, MissedStaysLate, TypeOK
    <2>4. QED
        BY <2>1, <2>2, <2>3, GraceAssumption DEF SettleInv, MissedStaysLate
<1>8. InHandNew'
    BY <1>2 DEF SettleInv, InHandNew
<1>9. Taken'
    BY <1>2 DEF SettleInv, Taken, View
<1>10. (api.op \in ApiOps \cup {"none"})'
    BY DEF SettleInv
<1>11. QED
    BY <1>3, <1>4, <1>5, <1>6, <1>7, <1>8, <1>9, <1>10 DEF SettleInv

LEMMA SettleTick ==
    ASSUME TypeOK, TypeOK', SettleInv, Tick PROVE SettleInv'
BY SettleStay, RunsKeptSame DEF Tick, loopVars, viewVars, apiVars, TypeOK

LEMMA SettleFinish ==
    ASSUME TypeOK, TypeOK', SettleInv, NEW i \in DOMAIN runs,
           Finish(i) \/ FinishLogFails(i) \/ ManualRaises(i)
    PROVE  SettleInv'
<1>1. RunsKept
    BY RunsKeptFinish
<1>2. clock' = clock /\ clock \in Nat /\ calls' = calls /\ api' = api
      /\ UNCHANGED <<store, missed, loopPc, due, held, aliased, runTime, runVer,
                     passNow>>
    BY DEF Finish, FinishRead, FinishWrite, FinishLog, FinishLogFails, ManualRaises,
           loopVars, viewVars, apiVars, TypeOK
<1>3. QED BY <1>1, <1>2, SettleStay

\* A call takes _lock; the record it may store is sound and new.
LEMMA SettleBegin ==
    ASSUME TypeOK, TypeOK', SettleInv, NEW op \in AllOps, NEW j \in Jobs,
           NEW rec \in Records, NEW found \in BOOLEAN, Begin(op, j, rec, found),
           op \in {"add", "replace"} => rec.ver = calls + 1 /\ Sound(rec),
           rec.status # "absent"
    PROVE  SettleInv'
<1>1. RunsKept
    BY RunsKeptSame DEF Begin
<1>2. /\ UNCHANGED <<clock, store, missed, loopPc, due, held, aliased, runTime,
                     runVer, passNow>>
      /\ calls' = calls + 1 /\ api.op = "none" /\ op \in ApiOps
      /\ api'.op = op /\ api'.rec = rec
    BY DEF Begin, LockFree, loopVars, viewVars
<1>3. clock' >= clock
    BY <1>2 DEF TypeOK
<1>4. QED BY <1>1, <1>2, <1>3, SettleStay

LEMMA SettleBegins ==
    ASSUME TypeOK, TypeOK', SettleInv, NEW j \in Jobs,
           BeginAdd(j) \/ BeginFound(j) \/ BeginReschedule(j) \/ RunNow(j)
    PROVE  SettleInv'
<1>1. Loaded(j, store[j], clock) \in Records
    BY LoadedType DEF TypeOK
<1>2. Present(j) => Loaded(j, store[j], clock).status # "absent"
    BY DEF Present, Loaded, TypeOK, Records
<1>3. CASE BeginAdd(j)
    <2>1. PICK op \in {"add", "replace"}, trig \in NewTriggers :
              Begin(op, j, NewJob(trig, clock, calls + 1), op = "replace" /\ Present(j))
        BY <1>3 DEF BeginAdd
    <2> DEFINE rec == NewJob(trig, clock, calls + 1)
               found == op = "replace" /\ Present(j)
    <2>2. rec \in Records
        BY NewJobType, TriggerAssumption DEF TypeOK
    <2>3. rec.ver = calls + 1 /\ rec.status # "absent" /\ Sound(rec)
        BY NoTriggerNoTime DEF NewJob, Record, Sound
    <2>4. Begin(op, j, rec, found) /\ found \in BOOLEAN /\ op \in AllOps
        BY <2>1 DEF AllOps
    <2> HIDE DEF rec, found
    <2>5. QED BY <2>2, <2>3, <2>4, SettleBegin
<1>4. CASE BeginFound(j)
    <2>1. PICK op \in {"update", "remove", "pause", "resume"} :
              Begin(op, j, Loaded(j, store[j], clock), TRUE)
        BY <1>4 DEF BeginFound
    <2>2. op \in AllOps /\ op \notin {"add", "replace"} /\ TRUE \in BOOLEAN
        BY DEF AllOps
    <2>3. Loaded(j, store[j], clock).status # "absent"
        BY <1>2, <1>4 DEF BeginFound
    <2>4. QED BY <1>1, <2>1, <2>2, <2>3, SettleBegin
<1>5. CASE BeginReschedule(j)
    <2>1. PICK trig \in NewTriggers :
              Begin("reschedule", j, [Loaded(j, store[j], clock) EXCEPT !.trig = trig],
                    TRUE)
        BY <1>5 DEF BeginReschedule
    <2> DEFINE rec == [Loaded(j, store[j], clock) EXCEPT !.trig = trig]
    <2>2. rec \in Records /\ rec.status # "absent"
        BY <1>1, <1>2, <1>5, TriggerAssumption DEF Records, BeginReschedule
    <2>3. Begin("reschedule", j, rec, TRUE) /\ "reschedule" \in AllOps /\ TRUE \in BOOLEAN
        BY <2>1 DEF AllOps
    <2> HIDE DEF rec
    <2>4. QED BY <2>2, <2>3, SettleBegin
<1>6. CASE RunNow(j)
    <2>1. RunsKept
        BY <1>6, RunsKeptRunNow
    <2>2. /\ UNCHANGED <<clock, store, missed, loopPc, due, held, aliased, runTime,
                         runVer, passNow>>
          /\ calls' = calls + 1 /\ api.op = "none" /\ api' = api
        BY <1>6 DEF RunNow, LockFree, loopVars, viewVars
    <2>3. clock' >= clock
        BY <2>2 DEF TypeOK
    <2>4. QED BY <2>1, <2>2, <2>3, SettleStay
<1>7. QED BY <1>3, <1>4, <1>5, <1>6

-----------------------------------------------------------------------------
(* The loop.                                                               *)

LEMMA SettleTop ==
    ASSUME TypeOK, TypeOK', SettleInv, LoopTop PROVE SettleInv'
<1>1. /\ UNCHANGED <<clock, store, missed, due, held, aliased, runTime, runVer,
                     api, calls>>
      /\ loopPc = "idle" /\ loopPc' = "scan" /\ passNow' = clock
    BY DEF LoopTop, viewVars, apiVars
<1>2. RunsKept /\ InHand' = InHand /\ LoopNow' = LoopNow
    BY <1>1, RunsKeptSame DEF LoopTop, InHand, LoopNow
<1>3. Dispatched' = Dispatched
    BY <1>2, DispatchedKept
<1>4. SettledOnce'
    BY <1>1, <1>2, SettledOnceKept DEF SettleInv
<1>5. NumbersKnown'
    BY <1>1, <1>3 DEF SettleInv, NumbersKnown, Known
<1>6. AllSound'
    BY <1>1 DEF SettleInv, AllSound
<1>7. \A j \in Jobs : InPlay(j)' = InPlay(j)
    BY <1>1 DEF InPlay
<1>8. AllAhead'
    BY <1>1, <1>2, <1>3, <1>7 DEF SettleInv, AllAhead, Ahead, Known
<1>9. MissedStaysLate'
    BY <1>1, <1>2 DEF SettleInv, MissedStaysLate, TypeOK
<1>10. InHandNew' /\ Taken'
    BY <1>1 DEF InHandNew, Taken
<1>11. QED
    BY <1>1, <1>4, <1>5, <1>6, <1>8, <1>9, <1>10 DEF SettleInv

\* The end of a pass, by itself or by an exception, and a crash.
LEMMA SettleEnd ==
    ASSUME TypeOK, TypeOK', SettleInv, EndPass, RunsKept,
           UNCHANGED <<clock, calls, missed, store>>, api' = api \/ api' = Idle
    PROVE  SettleInv'
<1>1. loopPc' = "idle" /\ \A j \in Jobs : held'[j] = Absent
    BY DEF EndPass
<1>2. Dispatched' \cup InHand' \subseteq Dispatched \cup InHand
    BY <1>1, DispatchedKept DEF InHand
<1>3. SettledOnce'
    BY SettledOnceKept DEF SettleInv
<1>4. \A j \in Jobs : Sound(store'[j])
    BY DEF SettleInv, AllSound
<1>5. ASSUME NEW j \in Jobs, store'[j].status # "absent" PROVE Ahead(j, store[j])'
    <2>1. Ahead(j, store[j]) /\ store[j].ver \in Nat
        BY <1>5 DEF SettleInv, AllAhead, InPlay, TypeOK, Records
    <2>2. Known(store[j].ver)'
        BY <2>1, KnownKept DEF Ahead, Idle
    <2>3. QED BY <1>2, <2>1, <2>2 DEF Ahead
<1>6. QED BY <1>1, <1>2, <1>3, <1>4, <1>5, SettlePassOn

LEMMA SettleAborts ==
    ASSUME TypeOK, TypeOK', SettleInv,
           LoopTypeError \/ LoopAdvanceFails \/ LoopSubmitFails \/ Crash
    PROVE  SettleInv'
<1>1. EndPass /\ UNCHANGED <<clock, calls, missed, store>> /\ (api' = api \/ api' = Idle)
    BY DEF LoopTypeError, LoopAdvanceFails, LoopSubmitFails, Crash, AbortPass, apiVars
<1>2. RunsKept
    BY RunsKeptSame, RunsKeptCrash DEF LoopTypeError, LoopAdvanceFails, LoopSubmitFails
<1>3. QED BY <1>1, <1>2, SettleEnd

\* A job is loaded as it is stored; a run time made up for one that had none is
\* that of a schedule nobody ran.
LEMMA SettleScan ==
    ASSUME TypeOK, TypeOK', SettleInv, LoopScan PROVE SettleInv'
<1>1. CASE DueJobs(passNow) = {}
    BY <1>1, SettleEnd, RunsKeptSame DEF LoopScan, apiVars
<1>2. CASE DueJobs(passNow) # {}
    <2>1. /\ UNCHANGED <<clock, store, missed, runTime, runVer, api, calls, passNow>>
          /\ loopPc = "scan" /\ loopPc' = "pick"
          /\ held' = [j \in Jobs |-> IF j \in DueJobs(passNow)
                                     THEN Loaded(j, store[j], clock) ELSE Absent]
        BY <1>2 DEF LoopScan, apiVars
    <2>2. RunsKept /\ InHand' = {} /\ InHand = {} /\ LoopNow' = LoopNow
        BY <2>1, RunsKeptSame DEF LoopScan, InHand, LoopNow
    <2>3. Dispatched' = Dispatched
        BY <2>2, DispatchedKept
    <2>4. SettledOnce'
        BY <2>1, <2>2, SettledOnceKept DEF SettleInv
    <2>5. NumbersKnown'
        BY <2>1, <2>3 DEF SettleInv, NumbersKnown, Known
    <2>6. ASSUME NEW j \in Jobs, NEW h \in Records, h = held'[j],
                 h.status # "absent"
          PROVE  Sound(h) /\ Ahead(j, h)'
        <3>1. j \in DueJobs(passNow) /\ h = Loaded(j, store[j], clock)
            BY <2>1, <2>6 DEF Absent, Record
        <3>2. store[j] \in Records /\ Sound(store[j]) /\ Present(j)
            BY <3>1 DEF TypeOK, SettleInv, AllSound, DueJobs
        <3>3. Ahead(j, store[j])
            BY <3>2 DEF SettleInv, AllAhead, InPlay, Present
        <3>4. CASE h = store[j]
            BY <2>1, <2>2, <2>3, <3>2, <3>3, <3>4 DEF Ahead, Known
        <3>5. CASE h # store[j]
            <4>1. /\ store[j].next = None
                  /\ h = [store[j] EXCEPT
                                    !.next = NextFire(store[j].trig, None, clock)]
                BY <3>1, <3>5 DEF Loaded
            <4>2. h.ver = store[j].ver /\ h.trig = store[j].trig
                BY <3>2, <4>1 DEF Records
            <4>3. h.trig.kind = "none" => h.next = None
                BY <3>2, <4>1, <4>2, NoTriggerNoTime DEF Records
            <4>4. Known(h.ver)'
                BY <2>1, <3>3, <4>2 DEF Ahead, Known
            <4>5. \A o \in Dispatched : ~(o[1] = j /\ o[3] = h.ver)
                BY <3>3, <4>1, <4>2 DEF Ahead
            <4>6. QED BY <2>2, <2>3, <2>6, <4>3, <4>4, <4>5 DEF Ahead, Sound
        <3>6. QED BY <3>4, <3>5
    <2>7. AllSound'
        <3>1. ASSUME NEW j \in Jobs PROVE Sound(held'[j])
            <4>1. held'[j] \in Records
                BY DEF TypeOK
            <4>2. CASE held'[j].status # "absent"
                BY <2>6, <4>1, <4>2
            <4>3. CASE held'[j].status = "absent" /\ j \in DueJobs(passNow)
                <5>1. store[j] \in Records /\ store[j].status # "absent"
                    BY <4>3 DEF TypeOK, DueJobs, Present
                <5>2. Loaded(j, store[j], clock).status = store[j].status
                    BY <5>1 DEF Loaded, Records
                <5>3. QED BY <2>1, <4>3, <5>1, <5>2
            <4>4. CASE j \notin DueJobs(passNow)
                BY <2>1, <4>4, AbsentSound
            <4>5. QED BY <4>2, <4>3, <4>4
        <3>2. QED BY <2>1, <3>1 DEF SettleInv, AllSound
    <2>8. AllAhead'
        <3> SUFFICES ASSUME NEW j \in Jobs, NEW r \in InPlay(j)' PROVE Ahead(j, r)'
            BY DEF AllAhead
        <3>1. CASE r = held'[j]
            BY <2>6, <3>1 DEF InPlay, TypeOK
        <3>2. CASE r # held'[j]
            <4>1. r = store[j] /\ r.status # "absent"
                BY <2>1, <3>2 DEF InPlay
            <4>2. Ahead(j, r)
                BY <4>1 DEF SettleInv, AllAhead, InPlay
            <4>3. QED BY <2>1, <2>2, <2>3, <4>2 DEF Ahead, Known
        <3>3. QED BY <3>1, <3>2
    <2>9. MissedStaysLate'
        BY <2>1, <2>2 DEF SettleInv, MissedStaysLate
    <2>10. InHandNew' /\ Taken'
        BY <2>1 DEF InHandNew, Taken
    <2>11. QED
        BY <2>1, <2>4, <2>5, <2>7, <2>8, <2>9, <2>10 DEF SettleInv
<1>3. QED BY <1>1, <1>2

LEMMA HeadInJobs ==
    ASSUME TypeOK, loopPc \in {"pick", "miss", "accept", "dispatch"}
    PROVE  Head(due) \in Jobs /\ due # <<>>
BY DEF TypeOK

\* The job the loop is at is ahead, unless it is gone.
LEMMA ViewAhead ==
    ASSUME TypeOK, SettleInv, loopPc \in {"pick", "miss", "accept"}
    PROVE  LET j == Head(due)
               r == View(j)
           IN  /\ j \in Jobs /\ r \in Records /\ Sound(r)
               /\ r.status # "absent" => r \in InPlay(j) /\ Ahead(j, r)
               /\ Known(r.ver)
<1> DEFINE j == Head(due)
           r == View(j)
<1>1. j \in Jobs
    BY HeadInJobs
<1>2. r \in Records /\ Sound(r)
    BY <1>1 DEF View, TypeOK, SettleInv, AllSound
<1>3. r.status # "absent" => r \in InPlay(j)
    BY <1>1 DEF InPlay, View
<1>4. r.status # "absent" => Ahead(j, r)
    BY <1>1, <1>3 DEF SettleInv, AllAhead
<1>5. CASE r.status # "absent"
    BY <1>1, <1>2, <1>3, <1>4, <1>5 DEF Ahead
<1>6. CASE r.status = "absent"
    <2>1. r = Absent /\ r.ver = 0
        BY <1>2, <1>6 DEF Sound, Absent, Record
    <2>2. QED BY <1>1, <1>2, <1>6, <2>1 DEF SettleInv, NumbersKnown
<1>7. QED BY <1>5, <1>6

\* A run time that is reported as missed was not dispatched, nor will it be.
LEMMA SettleMiss ==
    ASSUME TypeOK, TypeOK', SettleInv, LoopMiss PROVE SettleInv'
<1> DEFINE j == Head(due)
           r == View(j)
           o == <<j, r.next, r.ver>>
<1>1. /\ loopPc = "pick" /\ loopPc' = "miss" /\ Late(j) /\ missed' = missed \cup {o}
      /\ runTime' = r.next /\ runVer' = r.ver
      /\ UNCHANGED <<clock, store, passNow, due, held, aliased, api, calls>>
    BY DEF LoopMiss, viewVars, apiVars
<1>2. j \in Jobs /\ r \in Records /\ Sound(r) /\ Known(r.ver)
    BY <1>1, ViewAhead
<1>3. Grace[j] # None /\ r.next # None /\ passNow - r.next >= Grace[j]
    BY <1>1 DEF Late
<1>4. r.status # "absent"
    BY <1>2, <1>3 DEF Sound, Absent, Record
<1>5. Ahead(j, r)
    BY <1>1, <1>4, ViewAhead
<1>6. RunsKept /\ Dispatched' = Dispatched /\ InHand' = {} /\ InHand = {}
    BY <1>1, RunsKeptSame, DispatchedKept DEF LoopMiss, InHand
<1>7. r.next \in Nat /\ r.ver \in Nat
    BY <1>2, <1>3 DEF Records
<1> HIDE DEF r
<1>8. o \notin Dispatched
    BY <1>5, <1>7 DEF Ahead
<1>9. SettledOnce'
    BY <1>1, <1>6, <1>8 DEF SettleInv, SettledOnce, RunsKept, Dispatched
<1>10. NumbersKnown'
    BY <1>1, <1>2, <1>6 DEF SettleInv, NumbersKnown, Known
<1>11. AllSound'
    BY <1>1 DEF SettleInv, AllSound
<1>12. AllAhead'
    BY <1>1, <1>6 DEF SettleInv, AllAhead, InPlay, Ahead, Known
<1>13. MissedStaysLate'
    BY <1>1, <1>2, <1>3 DEF SettleInv, MissedStaysLate, LoopNow
<1>14. InHandNew' /\ Taken'
    BY <1>1 DEF InHandNew, Taken, View, r
<1>15. QED
    BY <1>1, <1>9, <1>10, <1>11, <1>12, <1>13, <1>14 DEF SettleInv

\* A run time that is accepted was neither dispatched nor missed: what was
\* missed is too late by now as well.
LEMMA SettleAccept ==
    ASSUME TypeOK, TypeOK', SettleInv, LoopAccept PROVE SettleInv'
<1> DEFINE j == Head(due)
           r == View(j)
<1>1. /\ loopPc = "pick" /\ loopPc' = "accept" /\ ~Late(j)
      /\ runTime' = r.next /\ runVer' = r.ver
      /\ UNCHANGED <<clock, store, missed, passNow, due, held, aliased, api, calls>>
    BY DEF LoopAccept, viewVars, apiVars
<1>2. j \in Jobs /\ r \in Records /\ Sound(r) /\ Known(r.ver)
    BY <1>1, ViewAhead
<1>3. RunsKept /\ Dispatched' = Dispatched /\ InHand' = {} /\ InHand = {}
    BY <1>1, RunsKeptSame, DispatchedKept DEF LoopAccept, InHand
<1>4. SettledOnce'
    BY <1>1, <1>3, SettledOnceKept DEF SettleInv
<1>5. InHandNew'
    <2> SUFFICES ASSUME r.next # None
                 PROVE  /\ <<j, r.next, r.ver>> \notin missed
                        /\ \A o \in Dispatched :
                               o[1] = j /\ o[3] = r.ver => o[2] < r.next
        BY <1>1, <1>3 DEF InHandNew
    <2>1. r.status # "absent"
        BY <1>2 DEF Sound, Absent, Record
    <2>2. Ahead(j, r)
        BY <1>1, <2>1, ViewAhead
    <2>3. <<j, r.next, r.ver>> \notin missed
        <3> SUFFICES ASSUME <<j, r.next, r.ver>> \in missed PROVE FALSE
            OBVIOUS
        <3>1. Grace[j] # None /\ passNow - r.next >= Grace[j]
            BY <1>1 DEF SettleInv, MissedStaysLate, LoopNow
        <3>2. QED BY <1>1, <3>1 DEF Late
    <2>4. QED BY <2>2, <2>3 DEF Ahead
<1>6. NumbersKnown'
    BY <1>1, <1>2, <1>3 DEF SettleInv, NumbersKnown, Known
<1>7. AllSound'
    BY <1>1 DEF SettleInv, AllSound
<1>8. AllAhead'
    BY <1>1, <1>3 DEF SettleInv, AllAhead, InPlay, Ahead, Known
<1>9. MissedStaysLate'
    BY <1>1 DEF SettleInv, MissedStaysLate, LoopNow
<1>10. Taken'
    BY <1>1 DEF Taken, View
<1>11. QED
    BY <1>1, <1>4, <1>5, <1>6, <1>7, <1>8, <1>9, <1>10 DEF SettleInv

\* The loop gives up the copy of its current job, or of all jobs.
LEMMA NextDueFrame ==
    ASSUME TypeOK, NextDue, loopPc \in {"pick", "miss", "accept", "dispatch"}
    PROVE  /\ \/ loopPc' = "idle"
              \/ loopPc' = "pick" /\ loopPc # "idle" /\ passNow' = passNow
           /\ InHand' = {}
           /\ \A j \in Jobs :
                 \/ held'[j] = Absent
                 \/ /\ held'[j] = held[j] /\ (j \in aliased' <=> j \in aliased)
                    /\ j # Head(due)
<1>1. CASE Len(due) = 1
    BY <1>1 DEF NextDue, EndPass, InHand
<1>2. CASE Len(due) # 1
    BY <1>2, HeadInJobs DEF NextDue, TypeOK, InHand
<1>3. QED BY <1>1, <1>2

\* A job that is turned away stays as it is stored.
LEMMA SettleReject ==
    ASSUME TypeOK, TypeOK', SettleInv, LoopReject PROVE SettleInv'
<1>1. loopPc = "pick" /\ NextDue /\ UNCHANGED <<clock, calls, missed, store, api, runs>>
    BY DEF LoopReject, apiVars
<1>2. RunsKept /\ Dispatched' = Dispatched /\ InHand = {}
    BY <1>1, RunsKeptSame, DispatchedKept DEF InHand
<1>3. SettledOnce'
    BY <1>1, <1>2, SettledOnceKept DEF SettleInv
<1>4. \A j \in Jobs : Sound(store'[j])
    BY <1>1 DEF SettleInv, AllSound
<1>5. Dispatched' \cup InHand' \subseteq Dispatched \cup InHand
    BY <1>1, <1>2, NextDueFrame
<1>6. ASSUME NEW j \in Jobs, store'[j].status # "absent" PROVE Ahead(j, store[j])'
    <2>1. Ahead(j, store[j])
        BY <1>1, <1>6 DEF SettleInv, AllAhead, InPlay
    <2>2. QED BY <1>1, <1>5, <2>1 DEF Ahead, Known
<1>7. QED BY <1>1, <1>3, <1>4, <1>5, <1>6, NextDueFrame, SettlePassOn

\* What the job is at once the loop has written it: beyond the run time in hand
\* and everything dispatched before.
LEMMA AdvancedAhead ==
    ASSUME TypeOK, SettleInv, loopPc \in {"miss", "accept"}, NEW i \in Jobs,
           NEW S, S = {<<Head(due), runTime, runVer>>} \/ S = {},
           runTime # None \/ S = {}
    PROVE  /\ Sound(Advanced(Head(due))[i])
           /\ Advanced(Head(due))[i].status # "absent" =>
                 /\ Known(Advanced(Head(due))[i].ver)
                 /\ \A o \in Dispatched \cup S :
                        o[1] = i /\ o[3] = Advanced(Head(due))[i].ver =>
                            /\ Advanced(Head(due))[i].next # None
                            /\ o[2] < Advanced(Head(due))[i].next
<1> DEFINE j    == Head(due)
           job  == View(j)
           next == NextFire(job.trig, runTime, passNow)
           new  == [job EXCEPT !.next = next]
<1>1. j \in Jobs /\ job \in Records /\ Sound(job) /\ Known(job.ver)
      /\ (job.status # "absent" => job \in InPlay(j) /\ Ahead(j, job))
    BY ViewAhead
<1>2. Sound(store[i]) /\ (store[i].status # "absent" => Ahead(i, store[i]))
    BY DEF SettleInv, AllSound, AllAhead, InPlay
<1>3. Taken
    BY DEF SettleInv
<1>4. /\ new.status = job.status /\ new.ver = job.ver /\ new.trig = job.trig
      /\ new.next = next
    BY <1>1 DEF Records
<1>5. store \in [Jobs -> Records] /\ runTime \in Nat \cup {None} /\ passNow \in Nat
      /\ runVer \in Nat /\ job.trig \in Triggers
    BY <1>1 DEF TypeOK, Records
<1>6. Dispatched \subseteq Jobs \X Nat \X Nat
    BY DispatchedType
<1>7. CASE i # j \/ (~Present(j) /\ ~(job.trig.kind # "none" /\ next = None))
    <2>1. Advanced(j)[i] = store[i]
        BY <1>5, <1>7 DEF Advanced
    <2>2. store[i].status # "absent" => i # j
        BY <1>7 DEF Present
    <2>3. QED BY <1>2, <2>1, <2>2 DEF Ahead
<1>8. CASE i = j /\ job.trig.kind # "none" /\ next = None
    <2>1. Advanced(j)[i] = Absent
        BY <1>1, <1>5, <1>8 DEF Advanced
    <2>2. QED BY <2>1, AbsentSound DEF Absent, Record
<1>9. CASE i = j /\ Present(j) /\ ~(job.trig.kind # "none" /\ next = None)
    <2>1. Advanced(j)[i] = new
        BY <1>1, <1>5, <1>9 DEF Advanced
    <2> HIDE DEF new
    <2>2. job.trig.kind = "none" => next = None
        BY NoTriggerNoTime
    <2>3. Sound(new)
        <3>1. CASE job.status # "absent"
            BY <1>4, <2>2, <3>1 DEF Sound
        <3>2. CASE job.status = "absent"
            <4>1. job = Absent /\ job.trig.kind = "none" /\ job.next = None
                BY <1>1, <3>2 DEF Sound, Absent, Record, NoTrigger
            <4>2. new = job
                BY <1>1, <2>2, <4>1 DEF new, Records
            <4>3. QED BY <1>1, <4>2
        <3>3. QED BY <3>1, <3>2
    <2>4. ASSUME new.status # "absent", NEW o \in Dispatched \cup S, o[1] = j, o[3] = new.ver
          PROVE  next # None /\ o[2] < next
        <3>1. Ahead(j, job) /\ job.status # "absent"
            BY <1>1, <1>4, <2>4
        <3>2. job.ver = runVer
            BY <1>3, <1>4, <2>4, <3>1 DEF Taken
        <3>3. job.next = runTime
            BY <1>3, <3>1, <3>2 DEF Taken
        <3>4. job.next # None /\ o[2] <= job.next /\ o[2] \in Nat
            <4>1. CASE o \in Dispatched
                BY <1>4, <1>5, <1>6, <2>4, <3>1, <3>3, <4>1 DEF Ahead
            <4>2. CASE o \in S
                BY <1>5, <3>3, <4>2
            <4>3. QED BY <2>4, <4>1, <4>2
        <3>5. job.trig.kind # "none" /\ next # None
            BY <1>1, <1>9, <3>4 DEF Sound
        <3>6. next \in Nat
            BY <1>5, <3>5, NextFireType
        <3>7. runTime \in Nat /\ runTime < next
            BY <1>5, <3>3, <3>4, <3>5, NextFireAfter
        <3> HIDE DEF next
        <3>8. QED BY <3>3, <3>4, <3>5, <3>6, <3>7
    <2>5. QED BY <1>1, <1>4, <1>9, <2>1, <2>3, <2>4
<1>10. QED BY <1>7, <1>8, <1>9

\* The job is written before it is dispatched.
LEMMA SettleAdvance ==
    ASSUME TypeOK, TypeOK', SettleInv, LoopAdvance PROVE SettleInv'
<1> DEFINE j == Head(due)
           S == IF loopPc = "accept" /\ runTime # None
                THEN {<<j, runTime, runVer>>} ELSE {}
<1>1. /\ loopPc \in {"miss", "accept"} /\ store' = Advanced(j)
      /\ UNCHANGED <<clock, calls, missed, api, runs>>
      /\ loopPc = "miss" => NextDue
      /\ loopPc = "accept" => /\ loopPc' = "dispatch"
                              /\ UNCHANGED <<passNow, due, held, aliased, runTime, runVer>>
    BY DEF LoopAdvance, apiVars, viewVars
<1>2. RunsKept /\ Dispatched' = Dispatched /\ InHand = {}
    BY <1>1, RunsKeptSame, DispatchedKept DEF InHand
<1>3. SettledOnce'
    BY <1>1, <1>2, SettledOnceKept DEF SettleInv
<1>4. InHand' = S
    BY <1>1, NextDueFrame DEF InHand
<1>5. ASSUME NEW i \in Jobs
      PROVE  Sound(store'[i]) /\ (store'[i].status # "absent" => Ahead(i, store[i])')
    <2>1. S = {<<j, runTime, runVer>>} \/ S = {}
        OBVIOUS
    <2>2. runTime # None \/ S = {}
        OBVIOUS
    <2> HIDE DEF S
    <2>3. /\ Sound(Advanced(j)[i])
          /\ Advanced(j)[i].status # "absent" =>
                 /\ Known(Advanced(j)[i].ver)
                 /\ \A o \in Dispatched \cup S :
                        o[1] = i /\ o[3] = Advanced(j)[i].ver =>
                            /\ Advanced(j)[i].next # None
                            /\ o[2] < Advanced(j)[i].next
        BY <1>1, <2>1, <2>2, AdvancedAhead
    <2>4. QED BY <1>1, <1>2, <1>4, <2>3 DEF Ahead, Known
<1>6. CASE loopPc = "miss"
    <2>1. Dispatched' \cup InHand' \subseteq Dispatched \cup InHand
        BY <1>2, <1>4, <1>6
    <2>2. QED BY <1>1, <1>3, <1>5, <1>6, <2>1, NextDueFrame, SettlePassOn
<1>7. CASE loopPc = "accept"
    <2>1. NumbersKnown'
        BY <1>1, <1>2, <1>7 DEF SettleInv, NumbersKnown, Known
    <2>2. AllSound'
        BY <1>1, <1>5, <1>7 DEF SettleInv, AllSound
    <2>3. AllAhead'
        <3> SUFFICES ASSUME NEW i \in Jobs, NEW r \in InPlay(i)' PROVE Ahead(i, r)'
            BY DEF AllAhead
        <3>1. CASE r = store'[i]
            BY <1>5, <3>1 DEF InPlay
        <3>2. CASE r # store'[i]
            <4>1. i # j /\ r \in InPlay(i)
                BY <1>1, <1>7, <3>2 DEF InPlay
            <4>2. Ahead(i, r)
                BY <4>1 DEF SettleInv, AllAhead
            <4>3. QED BY <1>1, <1>2, <1>4, <4>1, <4>2 DEF Ahead, Known
        <3>3. QED BY <3>1, <3>2
    <2>4. MissedStaysLate'
        BY <1>1, <1>7 DEF SettleInv, MissedStaysLate, LoopNow
    <2>5. InHandNew'
        BY <1>1, <1>2, <1>7 DEF SettleInv, InHandNew
    <2>6. Taken'
        BY <1>1, <1>7 DEF Taken
    <2>7. QED
        BY <1>1, <1>3, <2>1, <2>2, <2>3, <2>4, <2>5, <2>6 DEF SettleInv
<1>8. QED BY <1>1, <1>6, <1>7

\* What the executor is handed: the occurrence in hand, and nothing else.
LEMMA DispatchAppends ==
    ASSUME TypeOK, LoopDispatch
    PROVE  \E n :
              /\ n \notin DueRuns
              /\ DueRuns' = DueRuns \cup {k \in {n} : runTime # None}
              /\ \A i \in DueRuns : Occurrence(i)' = Occurrence(i)
              /\ Occurrence(n)' = <<Head(due), runTime, runVer>>
<1> DEFINE r == Run("due", Head(due), runTime, runVer)
<1>0. PICK n : n = Len(runs) + 1
    OBVIOUS
<1>1. runs \in Seq(RunRecords) /\ Len(runs) \in Nat /\ runs' = Append(runs, r)
    BY DEF LoopDispatch, TypeOK
<1>2. /\ DOMAIN runs' = DOMAIN runs \cup {n} /\ n \notin DOMAIN runs
      /\ \A i \in DOMAIN runs : runs'[i] = runs[i]
      /\ runs'[n] = r
    BY <1>0, <1>1
<1>3. r.kind = "due" /\ r.job = Head(due) /\ r.time = runTime /\ r.ver = runVer
    BY DEF Run
<1> HIDE DEF r
<1>4. n \notin DueRuns /\ Occurrence(n)' = <<Head(due), runTime, runVer>>
    BY <1>2, <1>3 DEF DueRuns, Occurrence
<1>5. \A i \in DueRuns : Occurrence(i)' = Occurrence(i)
    BY <1>2 DEF DueRuns, Occurrence
<1>6. DueRuns' = DueRuns \cup {k \in {n} : runTime # None}
    BY <1>2, <1>3 DEF DueRuns
<1>7. QED BY <1>4, <1>5, <1>6

\* A run time that is dispatched was settled by nobody before.
LEMMA SettleDispatch ==
    ASSUME TypeOK, TypeOK', SettleInv, LoopDispatch PROVE SettleInv'
<1> DEFINE j == Head(due)
           o == <<j, runTime, runVer>>
<1>1. loopPc = "dispatch" /\ NextDue /\ UNCHANGED <<clock, calls, missed, store, api>>
    BY DEF LoopDispatch, apiVars
<1>2. PICK n :
          /\ n \notin DueRuns
          /\ DueRuns' = DueRuns \cup {k \in {n} : runTime # None}
          /\ \A i \in DueRuns : Occurrence(i)' = Occurrence(i)
          /\ Occurrence(n)' = o
    BY DispatchAppends
<1>3. runTime # None => InHand = {o}
    BY <1>1 DEF InHand
<1>4. Dispatched' = {Occurrence(i)' : i \in DueRuns'}
    BY DEF Dispatched
<1>5. Dispatched' \subseteq Dispatched \cup InHand
    BY <1>2, <1>3, <1>4 DEF Dispatched
<1>6. runTime # None => o \notin missed /\ \A i \in DueRuns : Occurrence(i) # o
    <2> SUFFICES ASSUME runTime # None
                 PROVE  o \notin missed /\ \A i \in DueRuns : Occurrence(i) # o
        OBVIOUS
    <2>1. runTime \in Nat
        BY DEF TypeOK
    <2>2. o \notin missed /\ \A d \in Dispatched :
                                 d[1] = j /\ d[3] = runVer => d[2] < runTime
        BY <1>1 DEF SettleInv, InHandNew
    <2>3. o \notin Dispatched
        BY <2>1, <2>2
    <2>4. QED BY <2>2, <2>3 DEF Dispatched
<1>7. SettledOnce'
    <2>1. \A a, b \in DueRuns' : Occurrence(a)' = Occurrence(b)' => a = b
        BY <1>2, <1>6 DEF SettleInv, SettledOnce
    <2>2. \A a \in DueRuns' : Occurrence(a)' \notin missed'
        BY <1>1, <1>2, <1>6 DEF SettleInv, SettledOnce
    <2>3. QED BY <2>1, <2>2 DEF SettledOnce
<1>8. \A i \in Jobs : Sound(store'[i])
    BY <1>1 DEF SettleInv, AllSound
<1>9. Dispatched' \cup InHand' \subseteq Dispatched \cup InHand
    BY <1>1, <1>5, NextDueFrame
<1>10. ASSUME NEW i \in Jobs, store'[i].status # "absent" PROVE Ahead(i, store[i])'
    <2>1. Ahead(i, store[i])
        BY <1>1, <1>10 DEF SettleInv, AllAhead, InPlay
    <2>2. QED BY <1>1, <1>9, <2>1 DEF Ahead, Known
<1>11. QED BY <1>1, <1>7, <1>8, <1>9, <1>10, NextDueFrame, SettlePassOn

-----------------------------------------------------------------------------
(* The calls.                                                              *)

(***************************************************************************)
(* A call ends: its job is as it was, gone, or on a schedule that has the  *)
(* number of the call, which nobody ran yet.                               *)
(***************************************************************************)
CallEnds ==
    /\ api.op # "none" /\ api' = Idle
    /\ UNCHANGED <<clock, calls, runs, missed, loopPc, passNow, due, runTime,
                   runVer, faults>>
    /\ \A i \in Jobs : i # api.job => store'[i] = store[i]
    /\ \/ store'[api.job] = store[api.job]
       \/ /\ store'[api.job].status # "absent" => store'[api.job].ver = calls
          /\ Sound(store'[api.job])
    /\ UNCHANGED viewVars \/ Detach(api.job)

\* A call's own number is that of no run yet.
LEMMA CallIsNew ==
    ASSUME TypeOK, SettleInv, api.op # "none"
    PROVE  \A o \in Dispatched \cup missed \cup InHand : o[3] # calls
<1>1. \A v \in Nat : Known(v) => v # calls
    BY DEF Known, TypeOK
<1>2. \A o \in Dispatched \cup missed : o[3] \in Nat
    BY DispatchedType
<1>3. \A o \in InHand : o[3] = runVer /\ runVer \in Nat /\ Known(runVer)
    BY DEF InHand, SettleInv, NumbersKnown, TypeOK
<1>4. QED BY <1>1, <1>2, <1>3 DEF SettleInv, NumbersKnown

\* What is in play was so before the call, or is what it stored.
LEMMA CallInPlay ==
    ASSUME TypeOK, CallEnds, NEW i \in Jobs, NEW r \in InPlay(i)'
    PROVE  r \in InPlay(i) \/ (i = api.job /\ r = store'[i] /\ r.ver = calls)
<1>1. api.job \in Jobs
    BY DEF TypeOK, CallEnds
<1>2. r \in InPlay(i) \/ (i = api.job /\ r = store'[i])
    BY <1>1 DEF CallEnds, InPlay, Detach, viewVars, TypeOK
<1>3. r.status # "absent"
    BY DEF InPlay
<1>4. CASE store'[i] = store[i]
    BY <1>2, <1>3, <1>4 DEF InPlay
<1>5. CASE store'[i] # store[i]
    BY <1>2, <1>3, <1>5 DEF CallEnds
<1>6. QED BY <1>4, <1>5

LEMMA SettleEndCall ==
    ASSUME TypeOK, TypeOK', SettleInv, CallEnds PROVE SettleInv'
<1> USE DEF CallEnds
<1> DEFINE j == api.job
<1>1. j \in Jobs /\ calls \in Nat /\ Idle.op = "none"
    BY DEF TypeOK, Idle
<1>2. RunsKept /\ Dispatched' = Dispatched /\ InHand' = InHand
    BY RunsKeptSame, DispatchedKept DEF InHand
<1>3. \A v \in Nat : Known(v) => v < calls /\ Known(v)'
    BY <1>1 DEF Known
<1>4. Known(calls)'
    BY <1>1 DEF Known
<1>5. \A o \in Dispatched \cup missed \cup InHand : o[3] # calls
    BY CallIsNew
<1>6. loopPc \in {"miss", "accept", "dispatch"} => runVer # calls
    BY <1>1, <1>3 DEF SettleInv, NumbersKnown, TypeOK
<1>7. \A i \in Jobs : View(i)' = View(i) \/ (i = j /\ View(i)' = store'[i] /\ UNCHANGED viewVars)
    BY <1>1 DEF Detach, viewVars, View, TypeOK
<1>8. ASSUME NEW i \in Jobs, NEW r \in InPlay(i)'
      PROVE  r \in InPlay(i) \/ r.ver = calls
    BY CallInPlay
<1>9. SettledOnce'
    BY <1>2, SettledOnceKept DEF SettleInv
<1>10. NumbersKnown'
    <2>1. \A o \in Dispatched \cup missed : o[3] \in Nat
        BY DispatchedType
    <2>2. runVer \in Nat
        BY DEF TypeOK
    <2>3. QED BY <1>1, <1>2, <1>3, <2>1, <2>2 DEF SettleInv, NumbersKnown
<1>11. AllSound'
    <2>1. \A i \in Jobs : Sound(store'[i])
        BY <1>1 DEF SettleInv, AllSound
    <2>2. \A i \in Jobs : held'[i] = held[i] \/ held'[i] = store[i]
        BY <1>1 DEF Detach, viewVars, TypeOK
    <2>3. \A i \in Jobs : Sound(held'[i])
        BY <2>2 DEF SettleInv, AllSound
    <2>4. QED BY <1>1, <2>1, <2>3 DEF AllSound
<1>12. AllAhead'
    <2> SUFFICES ASSUME NEW i \in Jobs, NEW r \in InPlay(i)' PROVE Ahead(i, r)'
        BY DEF AllAhead
    <2>1. CASE r \in InPlay(i)
        <3>1. Ahead(i, r) /\ r.ver \in Nat
            BY <2>1 DEF SettleInv, AllAhead, InPlay, TypeOK, Records
        <3>2. QED BY <1>2, <1>3, <3>1 DEF Ahead
    <2>2. CASE r \notin InPlay(i)
        <3>1. r.ver = calls
            BY <1>8, <2>2
        <3>2. QED BY <1>2, <1>4, <1>5, <3>1 DEF Ahead
    <2>3. QED BY <2>1, <2>2
<1>13. MissedStaysLate'
    BY DEF SettleInv, MissedStaysLate, LoopNow
<1>14. InHandNew'
    BY <1>2 DEF SettleInv, InHandNew
<1>15. Taken'
    <2> SUFFICES ASSUME loopPc \in {"miss", "accept"}, NEW i, i = Head(due),
                        View(i)'.status # "absent"
                 PROVE  IF View(i)'.ver = runVer THEN View(i)'.next = runTime
                        ELSE \A o \in Dispatched \cup missed :
                                 ~(o[1] = i /\ o[3] = View(i)'.ver)
        BY <1>2 DEF Taken
    <2>1. i \in Jobs
        BY HeadInJobs
    <2>2. CASE View(i)' = View(i)
        BY <2>2 DEF SettleInv, Taken
    <2>3. CASE View(i)' # View(i)
        <3>1. i = j /\ View(i)' = store'[j] /\ UNCHANGED viewVars
            BY <1>7, <2>1, <2>3
        <3>2. store'[j] # store[j]
            BY <2>3, <3>1 DEF View, viewVars
        <3>3. View(i)'.ver = calls
            BY <3>1, <3>2
        <3>4. QED BY <1>5, <1>6, <3>3
    <2>4. QED BY <2>2, <2>3
<1>16. QED
    BY <1>1, <1>9, <1>10, <1>11, <1>12, <1>13, <1>14, <1>15 DEF SettleInv

\* No call but update_job writes a schedule back under its old number.
LEMMA ApiEndsCall ==
    ASSUME TypeOK, SettleInv, ApiEnd,
           "update" \notin ApiOps \/ \A j \in Jobs : Shared(j)
    PROVE  CallEnds
<1>1. api.op # "none" /\ api.op \in ApiOps
    BY DEF ApiEnd, EndAdd, EndUpdate, EndReschedule, EndPause, EndResume, EndRemove,
           SettleInv
<1>2. api.job \in Jobs /\ Mine \in Records /\ api.rec \in Records
    BY <1>1, MineType
<1>3. Present(api.job) => Mine.status # "absent"
    BY <1>1 DEF Present, Mine, SettleInv, AllSound
<1>4. store \in [Jobs -> Records]
    BY DEF TypeOK
<1>5. ASSUME NEW rec \in Records, End(Updated(rec)), UNCHANGED viewVars,
             Present(api.job) => rec.ver = calls /\ Sound(rec)
      PROVE  CallEnds
    <2>1. store' = store \/ (Present(api.job) /\ store' = [store EXCEPT ![api.job] = rec])
        BY <1>5 DEF End, Updated
    <2>2. \A i \in Jobs : i # api.job => store'[i] = store[i]
        BY <1>2, <1>4, <2>1
    <2>3. store'[api.job] = store[api.job] \/ (store'[api.job] = rec /\ Present(api.job))
        BY <1>2, <1>4, <2>1
    <2>4. QED BY <1>1, <1>5, <2>2, <2>3, <1>4 DEF CallEnds, End, loopVars
<1>6. ASSUME NEW rec \in Records, End([store EXCEPT ![api.job] = rec]),
             UNCHANGED viewVars \/ Detach(api.job),
             rec.status # "absent" => rec.ver = calls, Sound(rec)
      PROVE  CallEnds
    <2>1. store' = [store EXCEPT ![api.job] = rec]
        BY <1>6 DEF End
    <2>2. store'[api.job] = rec /\ \A i \in Jobs : i # api.job => store'[i] = store[i]
        BY <1>2, <1>4, <2>1
    <2>3. QED BY <1>1, <1>6, <2>2, <1>4 DEF CallEnds, End, loopVars
<1>7. ASSUME End(store), UNCHANGED viewVars PROVE CallEnds
    BY <1>1, <1>7, <1>4 DEF CallEnds, End, loopVars
<1>8. CASE EndAdd
    <2>1. api.rec.ver = calls /\ Sound(api.rec)
        BY <1>8 DEF EndAdd, SettleInv, NumbersKnown, AllSound
    <2>2. QED BY <1>2, <1>6, <1>7, <1>8, <2>1 DEF EndAdd
<1>9. CASE EndUpdate
    <2>1. Shared(api.job)
        BY <1>1, <1>2, <1>9 DEF EndUpdate
    <2>2. Updated(Mine) = store
        BY <1>2, <1>4, <2>1 DEF Updated, Mine
    <2>3. QED BY <1>7, <1>9, <2>2 DEF EndUpdate
<1>10. CASE EndReschedule
    <2> DEFINE rec == [Mine EXCEPT !.trig = api.rec.trig,
                                   !.next = NextFire(api.rec.trig, None, clock),
                                   !.ver = calls]
    <2>1. NextFire(api.rec.trig, None, clock) \in Nat \cup {None}
        BY <1>2, NextFireType DEF TypeOK, Records
    <2>2. rec \in Records /\ rec.ver = calls /\ rec.status = Mine.status
          /\ rec.trig = api.rec.trig /\ rec.next = NextFire(api.rec.trig, None, clock)
        BY <1>2, <2>1 DEF Records, TypeOK
    <2>3. End(Updated(rec)) /\ UNCHANGED viewVars
        BY <1>10 DEF EndReschedule
    <2> HIDE DEF rec
    <2>4. Present(api.job) => Sound(rec)
        BY <1>3, <2>2, NoTriggerNoTime DEF Sound
    <2>5. QED BY <1>5, <2>2, <2>3, <2>4
<1>11. CASE EndPause
    <2> DEFINE rec == [Mine EXCEPT !.status = "paused", !.next = None, !.ver = calls]
    <2>1. rec \in Records /\ rec.ver = calls /\ rec.status = "paused" /\ rec.next = None
        BY <1>2 DEF Records, TypeOK
    <2>2. End(Updated(rec)) /\ UNCHANGED viewVars
        BY <1>11 DEF EndPause
    <2> HIDE DEF rec
    <2>3. Sound(rec)
        BY <2>1 DEF Sound
    <2>4. QED BY <1>5, <2>1, <2>2, <2>3
<1>12. CASE EndResume
    <2> DEFINE rec == [Mine EXCEPT !.status = "running",
                                   !.next = NextFire(Mine.trig, None, clock),
                                   !.ver = calls]
    <2>1. NextFire(Mine.trig, None, clock) \in Nat \cup {None}
        BY <1>2, NextFireType DEF TypeOK, Records
    <2>2. rec \in Records /\ rec.ver = calls /\ rec.status = "running"
          /\ rec.trig = Mine.trig /\ rec.next = NextFire(Mine.trig, None, clock)
        BY <1>2, <2>1 DEF Records, TypeOK
    <2>3. End(Updated(rec)) /\ UNCHANGED viewVars
        BY <1>12 DEF EndResume
    <2> HIDE DEF rec
    <2>4. Sound(rec)
        BY <2>2, NoTriggerNoTime DEF Sound
    <2>5. QED BY <1>5, <2>2, <2>3, <2>4
<1>13. CASE EndRemove
    <2>1. Absent.status = "absent"
        BY DEF Absent, Record
    <2>2. QED BY <1>6, <1>13, <2>1, AbsentType, AbsentSound DEF EndRemove
<1>14. QED BY <1>8, <1>9, <1>10, <1>11, <1>12, <1>13 DEF ApiEnd

-----------------------------------------------------------------------------
(* The theorem.                                                            *)

LEMMA SettleStutter ==
    ASSUME TypeOK, TypeOK', SettleInv, UNCHANGED vars PROVE SettleInv'
BY SettleStay, RunsKeptSame DEF vars, loopVars, viewVars, apiVars, TypeOK

LEMMA SettleLoop ==
    ASSUME TypeOK, TypeOK', SettleInv, Loop PROVE SettleInv'
BY SettleTop, SettleScan, SettleAborts, SettleMiss, SettleReject, SettleAccept,
   SettleAdvance, SettleDispatch DEF Loop

(***************************************************************************)
(* The invariant behind SettledOnce holds for every set of jobs, every     *)
(* trigger, every fault and every bound, as long as no job is written back *)
(* by update_job from a copy (Scheduler_again): either nobody calls it, or *)
(* every store is a MemoryJobStore, which has no copies.                   *)
(***************************************************************************)
THEOREM SettleInvariant ==
    ASSUME "update" \notin ApiOps \/ \A j \in Jobs : Shared(j)
    PROVE  Spec => []SettleInv
<1>1. TypeOK /\ TypeOK' /\ SettleInv /\ [Next]_vars => SettleInv'
    <2> SUFFICES ASSUME TypeOK, TypeOK', SettleInv, [Next]_vars PROVE SettleInv'
        OBVIOUS
    <2>1. CASE Loop
        BY <2>1, SettleLoop
    <2>2. CASE \E i \in DOMAIN runs :
                   Finish(i) \/ FinishLogFails(i) \/ ManualRaises(i)
        BY <2>2, SettleFinish
    <2>3. CASE Api
        BY <2>3, SettleBegins, ApiEndsCall, SettleEndCall DEF Api
    <2>4. CASE Tick
        BY <2>4, SettleTick
    <2>5. CASE Crash
        BY <2>5, SettleAborts
    <2>6. CASE UNCHANGED vars
        BY <2>6, SettleStutter
    <2>7. QED BY <2>1, <2>2, <2>3, <2>4, <2>5, <2>6 DEF Next
<1>2. QED BY <1>1, SettleInit, TypeCorrect, PTL DEF Spec

(***************************************************************************)
(* A run time of a schedule is handed to the executor at most once, and    *)
(* never when it was reported as missed, whatever calls race with the      *)
(* loop, whatever writes fail and wherever the process crashes.            *)
(***************************************************************************)
THEOREM SettledOnceHolds ==
    ASSUME "update" \notin ApiOps \/ \A j \in Jobs : Shared(j)
    PROVE  Spec => []SettledOnce
<1>1. SettleInv => SettledOnce
    BY DEF SettleInv
<1>2. QED BY <1>1, SettleInvariant, PTL
-----------------------------------------------------------------------------
(* No run time of an interval schedule is skipped: multiples of an         *)
(* interval first.                                                         *)

LEMMA DivMod ==
    ASSUME NEW n \in Nat \ {0}, NEW a \in Nat
    PROVE  a = n * (a \div n) + (a % n) /\ a % n \in 0..(n - 1) /\ a \div n \in Int
OBVIOUS

LEMMA ModPlus ==
    ASSUME NEW n \in Nat \ {0}, NEW a \in Nat
    PROVE  (a + n) % n = a % n
<1> DEFINE p == a \div n
           q == (a + n) \div n
           x == a % n
           y == (a + n) % n
<1>1. a = n * p + x /\ x \in 0..(n - 1) /\ p \in Int
    BY DivMod
<1>2. a + n = n * q + y /\ y \in 0..(n - 1) /\ q \in Int
    <2>1. a + n \in Nat
        OBVIOUS
    <2>2. QED BY <2>1, DivMod
<1> HIDE DEF p, q, x, y
<1>4. n * (q - p - 1) = x - y /\ x - y < n /\ y - x < n
    BY <1>1, <1>2
<1>5. x = y
    BY <1>1, <1>2, <1>4
<1>6. QED BY <1>5 DEF x, y

\* A time on the grid of the next run time is that of the run time before it,
\* or lies before that and on its grid.
LEMMA GridStep ==
    ASSUME NEW n \in Nat \ {0}, NEW t \in Nat, NEW u \in Nat, u < t + n,
           (t + n - u) % n = 0
    PROVE  u = t \/ (u < t /\ (t - u) % n = 0)
<1>1. CASE u <= t
    <2>1. t - u \in Nat /\ (t + n - u) = (t - u) + n
        BY <1>1
    <2>2. (t - u) % n = 0
        BY <2>1, ModPlus
    <2>3. QED BY <1>1, <2>2
<1>2. CASE u > t
    <2>1. (t + n - u) \in 1..(n - 1)
        BY <1>2
    <2>2. \A a \in 1..(n - 1) : a % n = a
        OBVIOUS
    <2>3. QED BY <2>1, <2>2
<1>3. QED BY <1>1, <1>2

\* An interval that begins anew begins after "now".
LEMMA FirstFireLater ==
    ASSUME NEW trig \in Triggers, NEW now \in Nat, trig.kind = "interval",
           NextFire(trig, None, now) # None
    PROVE  NextFire(trig, None, now) > now
<1>1. FirstFire(trig, now) > now
    <2>1. CASE trig.start > now
        BY <2>1 DEF FirstFire
    <2>2. CASE ~(trig.start > now)
        <3> DEFINE n == trig.len
                   a == now - trig.start
                   q == a \div n
        <3>1. n \in Nat \ {0} /\ a \in Nat /\ trig.start \in Nat
            BY <2>2 DEF Triggers
        <3>2. a = n * q + (a % n) /\ a % n \in 0..(n - 1) /\ q \in Int
            BY <3>1, DivMod
        <3>3. FirstFire(trig, now) = trig.start + n * (q + 1)
            BY <2>2 DEF FirstFire
        <3> HIDE DEF n, q
        <3>4. n * (q + 1) = n * q + n
            BY <3>1, <3>2
        <3>5. n * (q + 1) \in Int /\ n * q \in Int /\ a % n \in Int
            BY <3>1, <3>2
        <3>6. n * (q + 1) > a
            BY <3>1, <3>2, <3>4, <3>5
        <3>7. QED BY <3>1, <3>3, <3>5, <3>6
    <2>3. QED BY <2>1, <2>2
<1>2. NextFire(trig, None, now) = FirstFire(trig, now)
    BY DEF NextFire, Until
<1>3. QED BY <1>1, <1>2

-----------------------------------------------------------------------------
(* What a step keeps of the invariant.                                     *)

\* Every record in play is one.
LEMMA InPlayType == TypeOK => \A j \in Jobs : InPlay(j) \subseteq Records
BY DEF InPlay, TypeOK

LEMMA AccountedType == TypeOK => Accounted \subseteq Jobs \X Nat \X Nat
BY DispatchedType, HeadInJobs DEF Accounted, InHand, TypeOK

LEMMA LostElement ==
    ASSUME NEW o
    PROVE  o \in Lost <=> \E j \in Jobs : \E r \in InPlay(j) : o \in Gaps(j, r)
BY DEF Lost

LEMMA SkipInit == Init => SkipInv
<1> SUFFICES ASSUME Init PROVE SkipInv
    OBVIOUS
<1>1. Accounted = {} /\ missed = {}
    BY DEF Init, DueRuns, Dispatched, InHand, Accounted
<1>2. Lost = {}
    BY <1>1 DEF Lost, Gaps
<1>3. NoTimeNoMiss /\ MissNoted
    BY <1>1 DEF Init, NoTimeNoMiss, MissNoted
<1>4. HeldAsStored
    BY DEF Init, HeldAsStored, InPlay, Absent, Record
<1>5. IsFiniteSet(Lost) /\ Cardinality(Lost) <= faults
    BY <1>2, FS_EmptySet DEF Init
<1>6. QED BY <1>3, <1>4, <1>5 DEF SkipInv

\* A gap is where it was, unless what was accounted for is no more.
LEMMA GapKept ==
    ASSUME NEW j, NEW r, NEW S, Accounted' \subseteq Accounted,
           Accounted \subseteq Accounted' \cup S
    PROVE  Gaps(j, r)' \subseteq Gaps(j, r) \cup S
BY DEF Gaps

\* The lost run times are as many as before, or one more after a fault.
LEMMA LostCount ==
    ASSUME TypeOK, TypeOK', IsFiniteSet(Lost), Cardinality(Lost) <= faults,
           \/ Lost' \subseteq Lost /\ faults' >= faults
           \/ \E o : Lost' \subseteq Lost \cup {o} /\ faults' = faults + 1
    PROVE  IsFiniteSet(Lost') /\ Cardinality(Lost') <= faults'
<1>1. Cardinality(Lost) \in Nat /\ faults \in Nat /\ faults' \in Nat
    BY FS_CardinalityType DEF TypeOK
<1>2. CASE Lost' \subseteq Lost /\ faults' >= faults
    <2>1. IsFiniteSet(Lost') /\ Cardinality(Lost') <= Cardinality(Lost)
        BY <1>2, FS_Subset
    <2>2. Cardinality(Lost') \in Nat
        BY <2>1, FS_CardinalityType
    <2>3. QED BY <1>1, <1>2, <2>1, <2>2
<1>3. CASE \E o : Lost' \subseteq Lost \cup {o} /\ faults' = faults + 1
    <2>1. PICK o : Lost' \subseteq Lost \cup {o} /\ faults' = faults + 1
        BY <1>3
    <2>2. /\ IsFiniteSet(Lost \cup {o})
          /\ Cardinality(Lost \cup {o}) \in {Cardinality(Lost), Cardinality(Lost) + 1}
        BY FS_AddElement
    <2>3. IsFiniteSet(Lost') /\ Cardinality(Lost') <= Cardinality(Lost \cup {o})
        BY <2>1, <2>2, FS_Subset
    <2>4. Cardinality(Lost') \in Nat
        BY <2>3, FS_CardinalityType
    <2>5. QED BY <1>1, <2>1, <2>2, <2>3, <2>4
<1>4. QED BY <1>2, <1>3

(***************************************************************************)
(* A step that accounts for nothing new, and whose records are those of    *)
(* before, of schedules that nobody ran or of jobs without an interval.    *)
(***************************************************************************)
LEMMA SkipFrame ==
    ASSUME TypeOK, TypeOK', SkipInv, missed' = missed, Accounted' \subseteq Accounted,
           \/ Accounted \subseteq Accounted' /\ faults' >= faults
           \/ Accounted \subseteq Accounted' \cup InHand /\ faults' = faults + 1,
           \A j \in Jobs : \A r \in InPlay(j)' :
              \/ r \in InPlay(j)
              \/ r.trig.kind # "interval"
              \/ \A u \in Accounted : ~(u[1] = j /\ u[3] = r.ver),
           HeldAsStored', MissNoted'
    PROVE  SkipInv'
<1>1. ASSUME NEW S, Accounted \subseteq Accounted' \cup S
      PROVE  Lost' \subseteq Lost \cup S
    <2> SUFFICES ASSUME NEW o \in Lost' PROVE o \in Lost \cup S
        OBVIOUS
    <2>1. PICK j \in Jobs : \E r \in InPlay(j)' : o \in Gaps(j, r)'
        BY DEF Lost
    <2>2. PICK r \in InPlay(j)' : o \in Gaps(j, r)'
        BY <2>1
    <2>3. o \in Gaps(j, r) \cup S
        BY <1>1, <2>2, GapKept
    <2>4. r.trig.kind = "interval"
        BY <2>2 DEF Gaps
    <2>5. \E u \in Accounted : u[1] = j /\ u[3] = r.ver
        BY <2>2 DEF Gaps
    <2>6. r \in InPlay(j)
        BY <2>4, <2>5
    <2>7. QED BY <2>3, <2>6 DEF Lost
<1>2. \/ Lost' \subseteq Lost /\ faults' >= faults
      \/ \E o : Lost' \subseteq Lost \cup {o} /\ faults' = faults + 1
    <2>1. \E o : InHand \subseteq {o}
        BY DEF InHand
    <2>2. QED BY <1>1, <2>1
<1>3. IsFiniteSet(Lost') /\ Cardinality(Lost') <= faults'
    BY <1>2, LostCount DEF SkipInv
<1>4. NoTimeNoMiss'
    BY DEF SkipInv, NoTimeNoMiss, Accounted
<1>5. QED BY <1>3, <1>4 DEF SkipInv

-----------------------------------------------------------------------------
(* Steps that leave the schedules alone.                                   *)

\* A step of the clock, of a run, of a call that begins, the start of a pass.
LEMMA SkipStay ==
    ASSUME TypeOK, TypeOK', SkipInv, RunsKept, faults' >= faults,
           UNCHANGED <<store, missed, due, held, aliased, runTime, runVer>>,
           loopPc' = loopPc \/ (loopPc = "idle" /\ loopPc' = "scan")
    PROVE  SkipInv'
<1>1. Dispatched' = Dispatched /\ InHand' = InHand
    BY DispatchedKept DEF InHand
<1>2. Accounted' = Accounted
    BY <1>1 DEF Accounted
<1>3. \A j \in Jobs : InPlay(j)' = InPlay(j)
    BY DEF InPlay
<1>4. HeldAsStored'
    BY <1>3 DEF SkipInv, HeldAsStored, Present
<1>5. MissNoted'
    BY DEF SkipInv, MissNoted
<1>6. QED BY <1>2, <1>3, <1>4, <1>5, SkipFrame

LEMMA SkipStays ==
    ASSUME TypeOK, TypeOK', SkipInv,
           \/ LoopTop \/ Tick \/ UNCHANGED vars
           \/ \E i \in DOMAIN runs :
                 Finish(i) \/ FinishLogFails(i) \/ ManualRaises(i)
           \/ \E j \in Jobs :
                 BeginAdd(j) \/ BeginFound(j) \/ BeginReschedule(j) \/ RunNow(j)
    PROVE  SkipInv'
<1>1. faults \in Nat
    BY DEF TypeOK
<1>2. CASE LoopTop \/ Tick \/ UNCHANGED vars
    BY <1>1, <1>2, SkipStay, RunsKeptSame
       DEF LoopTop, Tick, vars, loopVars, viewVars
<1>3. CASE \E i \in DOMAIN runs :
                 Finish(i) \/ FinishLogFails(i) \/ ManualRaises(i)
    <2>1. PICK i \in DOMAIN runs : Finish(i) \/ FinishLogFails(i) \/ ManualRaises(i)
        BY <1>3
    <2>2. RunsKept
        BY <2>1, RunsKeptFinish
    <2>3. faults' \in {faults, faults + 1}
        BY <2>1 DEF Finish, FinishRead, FinishWrite, FinishLog, FinishLogFails,
                    ManualRaises, Fault
    <2>4. loopPc' = loopPc
          /\ UNCHANGED <<store, missed, due, held, aliased, runTime, runVer>>
        BY <2>1 DEF Finish, FinishRead, FinishWrite, FinishLog, FinishLogFails,
                    ManualRaises, loopVars, viewVars
    <2>5. QED BY <1>1, <2>2, <2>3, <2>4, SkipStay
<1>4. CASE \E j \in Jobs : RunNow(j)
    BY <1>1, <1>4, RunsKeptRunNow, SkipStay DEF RunNow, loopVars, viewVars
<1>5. CASE \E j \in Jobs : BeginAdd(j) \/ BeginFound(j) \/ BeginReschedule(j)
    <2>1. faults' >= faults /\ loopPc' = loopPc
          /\ UNCHANGED <<store, missed, runs, due, held, aliased, runTime, runVer>>
        BY <1>1, <1>5
           DEF BeginAdd, BeginFound, BeginReschedule, Begin, loopVars, viewVars
    <2>2. QED BY <2>1, RunsKeptSame, SkipStay
<1>6. QED BY <1>2, <1>3, <1>4, <1>5

\* The loop gives up copies of jobs; what was in hand is dispatched, or it is
\* lost by the fault that ended the pass.
LEMMA SkipPassOn ==
    ASSUME TypeOK, TypeOK', SkipInv, UNCHANGED <<store, missed>>,
           Accounted' \subseteq Accounted,
           \/ Accounted \subseteq Accounted' /\ faults' >= faults
           \/ Accounted \subseteq Accounted' \cup InHand /\ faults' = faults + 1,
           loopPc' \in {"idle", "pick"},
           \A j \in Jobs :
              \/ held'[j] = Absent
              \/ /\ held'[j] = held[j] /\ (j \in aliased' <=> j \in aliased)
                 /\ j # Head(due)
    PROVE  SkipInv'
<1>1. ASSUME NEW j \in Jobs PROVE InPlay(j)' \subseteq InPlay(j)
    BY DEF InPlay, Absent, Record
<1>2. HeldAsStored'
    <2> SUFFICES ASSUME NEW j \in Jobs, held'[j] \in InPlay(j)', Present(j)',
                        held'[j].ver = store[j].ver,
                        store[j].trig.kind = "interval"
                 PROVE  store[j].next = held'[j].next
        BY DEF HeldAsStored
    <2>1. held'[j] = held[j] /\ held[j] \in InPlay(j)
        BY <1>1 DEF InPlay, Absent, Record
    <2>2. QED BY <2>1 DEF SkipInv, HeldAsStored, Present
<1>3. MissNoted'
    BY DEF MissNoted
<1>4. QED BY <1>1, <1>2, <1>3, SkipFrame

LEMMA SkipReject ==
    ASSUME TypeOK, TypeOK', SkipInv, LoopReject PROVE SkipInv'
<1>1. loopPc = "pick" /\ NextDue /\ UNCHANGED <<missed, store, runs, faults>>
    BY DEF LoopReject
<1>2. Dispatched' = Dispatched /\ InHand = {} /\ InHand' = {}
    BY <1>1, RunsKeptSame, DispatchedKept, NextDueFrame DEF InHand
<1>3. Accounted' = Accounted /\ faults' >= faults
    BY <1>1, <1>2 DEF Accounted, TypeOK
<1>4. QED BY <1>1, <1>3, NextDueFrame, SkipPassOn

\* What was in hand is dispatched now.
LEMMA SkipDispatch ==
    ASSUME TypeOK, TypeOK', SkipInv, LoopDispatch PROVE SkipInv'
<1> DEFINE o == <<Head(due), runTime, runVer>>
<1>1. loopPc = "dispatch" /\ NextDue /\ UNCHANGED <<missed, store, faults>>
    BY DEF LoopDispatch
<1>2. PICK n :
          /\ n \notin DueRuns
          /\ DueRuns' = DueRuns \cup {k \in {n} : runTime # None}
          /\ \A i \in DueRuns : Occurrence(i)' = Occurrence(i)
          /\ Occurrence(n)' = o
    BY DispatchAppends
<1>3. Dispatched' = {Occurrence(i)' : i \in DueRuns'}
    BY DEF Dispatched
<1>4. Dispatched' = Dispatched \cup InHand
    <2>1. CASE runTime # None
        <3>1. DueRuns' = DueRuns \cup {n} /\ InHand = {o}
            BY <1>1, <1>2, <2>1 DEF InHand
        <3>2. QED BY <1>2, <1>3, <3>1 DEF Dispatched
    <2>2. CASE runTime = None
        <3>1. DueRuns' = DueRuns /\ InHand = {}
            BY <1>2, <2>2 DEF InHand
        <3>2. QED BY <1>2, <1>3, <3>1 DEF Dispatched
    <2>3. QED BY <2>1, <2>2
<1>5. InHand' = {}
    BY <1>1, NextDueFrame
<1>6. Accounted' = Accounted
    BY <1>1, <1>4, <1>5 DEF Accounted
<1>7. faults' >= faults
    BY <1>1 DEF TypeOK
<1>8. QED BY <1>1, <1>6, <1>7, NextDueFrame, SkipPassOn

\* A pass ends early: only a fault loses what is in hand.
LEMMA SkipAborts ==
    ASSUME TypeOK, TypeOK', SkipInv,
           \/ LoopTypeError \/ LoopAdvanceFails \/ LoopSubmitFails \/ Crash
           \/ LoopScan /\ DueJobs(passNow) = {}
    PROVE  SkipInv'
<1>1. EndPass /\ UNCHANGED <<missed, store>> /\ faults \in Nat
    BY DEF LoopTypeError, LoopAdvanceFails, LoopSubmitFails, Crash, AbortPass,
           LoopScan, TypeOK
<1>2. RunsKept
    BY RunsKeptSame, RunsKeptCrash
       DEF LoopTypeError, LoopAdvanceFails, LoopSubmitFails, LoopScan
<1>3. Dispatched' = Dispatched /\ InHand' = {} /\ loopPc' = "idle"
    BY <1>1, <1>2, DispatchedKept DEF EndPass, InHand
<1>4. /\ Accounted' \subseteq Accounted
      /\ Accounted \subseteq Accounted' \cup InHand
    BY <1>1, <1>3 DEF Accounted
<1>5. \/ InHand = {} /\ faults' >= faults
      \/ faults' = faults + 1
    BY <1>1 DEF LoopTypeError, LoopAdvanceFails, LoopSubmitFails, Crash, LoopScan,
                Fault, InHand
<1>6. \A j \in Jobs : held'[j] = Absent
    BY <1>1 DEF EndPass
<1>7. QED BY <1>1, <1>3, <1>4, <1>5, <1>6, SkipPassOn

-----------------------------------------------------------------------------
(* Steps that take or write a run time.                                    *)

\* An interval job is due only by a stored run time: it is loaded as stored.
LEMMA LoadedAsStored ==
    ASSUME TypeOK, passNow <= clock, NEW j \in DueJobs(passNow),
           store[j].trig.kind = "interval"
    PROVE  Loaded(j, store[j], clock) = store[j] /\ store[j].next # None
<1>1. j \in Jobs /\ store[j] \in Records /\ store[j].trig \in Triggers
      /\ clock \in Nat /\ passNow \in Nat
    BY DEF DueJobs, TypeOK, Records
<1>2. SUFFICES ASSUME store[j].next = None PROVE FALSE
    BY DEF Loaded
<1> DEFINE next == NextFire(store[j].trig, None, clock)
<1>3. DueTime(j) # None /\ DueTime(j) <= passNow
    BY DEF DueJobs
<1>4. DueTime(j) = next
    <2>1. CASE StoreKind[j] = "table"
        <3>1. Loaded(j, store[j], clock) = [store[j] EXCEPT !.next = next]
            BY <1>2, <2>1 DEF Loaded, Shared
        <3>2. QED BY <1>1, <2>1, <3>1 DEF DueTime, Records
    <2>2. CASE StoreKind[j] # "table"
        BY <1>2, <1>3, <2>2 DEF DueTime
    <2>3. QED BY <2>1, <2>2
<1>5. next > clock
    BY <1>1, <1>3, <1>4, FirstFireLater
<1>6. next \in Nat
    BY <1>1, <1>3, <1>4, NextFireType
<1> HIDE DEF next
<1>7. QED BY <1>1, <1>3, <1>4, <1>5, <1>6

LEMMA SkipScan ==
    ASSUME TypeOK, TypeOK', SettleInv, SkipInv, LoopScan, DueJobs(passNow) # {}
    PROVE  SkipInv'
<1>1. /\ UNCHANGED <<clock, store, missed, runTime, runVer, runs, faults>>
      /\ loopPc = "scan" /\ loopPc' = "pick"
      /\ held' = [j \in Jobs |-> IF j \in DueJobs(passNow)
                                 THEN Loaded(j, store[j], clock) ELSE Absent]
      /\ faults \in Nat
    BY DEF LoopScan, TypeOK
<1>2. passNow <= clock
    BY <1>1 DEF SettleInv, MissedStaysLate
<1>3. Dispatched' = Dispatched /\ InHand = {} /\ InHand' = {}
    BY <1>1, RunsKeptSame, DispatchedKept DEF InHand
<1>4. Accounted' = Accounted /\ faults' >= faults
    BY <1>1, <1>3 DEF Accounted
<1>5. ASSUME NEW j \in Jobs, held'[j].status # "absent",
             store[j].trig.kind = "interval"
      PROVE  held'[j] = store[j]
    <2>1. j \in DueJobs(passNow) /\ held'[j] = Loaded(j, store[j], clock)
        BY <1>1, <1>5 DEF Absent, Record
    <2>2. QED BY <1>2, <1>5, <2>1, LoadedAsStored
<1>6. ASSUME NEW j \in Jobs, NEW r \in InPlay(j)', r.trig.kind = "interval"
      PROVE  r \in InPlay(j)
    <2>1. r.status # "absent" /\ (r = store[j] \/ r = held'[j])
        BY <1>1, <1>6 DEF InPlay
    <2>2. CASE r = store[j]
        BY <2>1, <2>2 DEF InPlay
    <2>3. CASE r = held'[j]
        <3>1. j \in DueJobs(passNow) /\ r = Loaded(j, store[j], clock)
            BY <1>1, <2>1, <2>3 DEF Absent, Record
        <3>2. store[j] \in Records
            BY DEF TypeOK
        <3>3. r.trig = store[j].trig
            BY <3>1, <3>2 DEF Loaded, Records
        <3>4. r = store[j]
            BY <1>5, <1>6, <2>1, <2>3, <3>3
        <3>5. QED BY <2>2, <3>4
    <2>4. QED BY <2>1, <2>2, <2>3
<1>7. HeldAsStored'
    BY <1>1, <1>5 DEF HeldAsStored, InPlay
<1>8. MissNoted'
    BY <1>1 DEF MissNoted
<1>9. QED BY <1>1, <1>4, <1>6, <1>7, <1>8, SkipFrame

LEMMA SkipAccept ==
    ASSUME TypeOK, TypeOK', SkipInv, LoopAccept PROVE SkipInv'
<1>1. /\ loopPc = "pick" /\ loopPc' = "accept"
      /\ UNCHANGED <<store, missed, due, held, aliased, runs, faults>>
      /\ faults \in Nat
    BY DEF LoopAccept, viewVars, TypeOK
<1>2. Dispatched' = Dispatched /\ InHand = {} /\ InHand' = {}
    BY <1>1, RunsKeptSame, DispatchedKept DEF InHand
<1>3. Accounted' = Accounted /\ faults' >= faults
    BY <1>1, <1>2 DEF Accounted
<1>4. \A j \in Jobs : InPlay(j)' = InPlay(j)
    BY <1>1 DEF InPlay
<1>5. HeldAsStored'
    BY <1>1, <1>4 DEF SkipInv, HeldAsStored, Present
<1>6. MissNoted'
    BY <1>1 DEF MissNoted
<1>7. QED BY <1>1, <1>3, <1>4, <1>5, <1>6, SkipFrame

\* A missed run time is that of every record of its schedule: none is between.
LEMMA SkipMiss ==
    ASSUME TypeOK, TypeOK', SettleInv, SkipInv, LoopMiss PROVE SkipInv'
<1> DEFINE j == Head(due)
           v == View(j)
           m == <<j, v.next, v.ver>>
<1>1. /\ loopPc = "pick" /\ loopPc' = "miss" /\ missed' = missed \cup {m}
      /\ runTime' = v.next /\ runVer' = v.ver /\ v.next # None
      /\ UNCHANGED <<store, due, held, aliased, runs, faults>>
      /\ faults \in Nat
    BY DEF LoopMiss, viewVars, Late, TypeOK
<1>2. j \in Jobs /\ v \in Records /\ Sound(v) /\ v.next \in Nat
    BY <1>1, ViewAhead DEF Records
<1>3. v.status # "absent" /\ v \in InPlay(j)
    BY <1>1, <1>2, ViewAhead DEF Sound, Absent, Record
<1>4. Dispatched' = Dispatched /\ InHand = {} /\ InHand' = {}
    BY <1>1, RunsKeptSame, DispatchedKept DEF InHand
<1>5. Accounted' = Accounted \cup {m}
    BY <1>1, <1>4 DEF Accounted
<1>6. \A i \in Jobs : InPlay(i)' = InPlay(i)
    BY <1>1 DEF InPlay
<1>7. v = store[j] \/ (v = held[j] /\ held[j] \in InPlay(j))
    BY <1>3 DEF View
<1>8. ASSUME NEW r \in InPlay(j), r.trig.kind = "interval", r.ver = v.ver
      PROVE  r.next = v.next
    <2>1. r \in {store[j], held[j]} /\ r.status # "absent"
        BY DEF InPlay
    <2>2. CASE j \in aliased
        <3>1. r = store[j] /\ v = store[j]
            BY <2>2 DEF InPlay, View
        <3>2. QED BY <3>1
    <2>3. CASE j \notin aliased
        <3>1. v = held[j] /\ held[j] \in InPlay(j)
            BY <1>3, <2>3 DEF View
        <3>2. CASE r = store[j]
            BY <1>2, <1>8, <2>1, <3>1, <3>2 DEF SkipInv, HeldAsStored, Present
        <3>3. CASE r = held[j]
            BY <3>1, <3>3
        <3>4. QED BY <2>1, <3>2, <3>3
    <2>4. QED BY <2>2, <2>3
<1> HIDE DEF v
<1>9. Lost' \subseteq Lost
    <2> SUFFICES ASSUME NEW o \in Lost' PROVE o \in Lost
        OBVIOUS
    <2>1. PICK i \in Jobs : \E r \in InPlay(i)' : o \in Gaps(i, r)'
        BY DEF Lost
    <2>2. PICK r \in InPlay(i) : o \in Gaps(i, r)'
        BY <1>6, <2>1
    <2>3. /\ r.trig.kind = "interval" /\ r.next # None
          /\ o \in {i} \X (0..(r.next - 1)) \X {r.ver}
          /\ (r.next - o[2]) % r.trig.len = 0
          /\ o \notin Accounted
        BY <1>5, <2>2 DEF Gaps
    <2>4. PICK u \in Accounted \cup {m} : u[1] = i /\ u[3] = r.ver /\ u[2] < o[2]
        BY <1>5, <2>2 DEF Gaps
    <2>5. r.next \in Nat
        BY <2>3, InPlayType DEF Records
    <2>6. u # m
        <3> SUFFICES ASSUME u = m PROVE FALSE
            OBVIOUS
        <3>1. i = j /\ r.ver = v.ver /\ u[2] = v.next
            BY <2>4
        <3>2. r.next = v.next
            BY <1>8, <2>3, <3>1
        <3>3. o[2] \in 0..(r.next - 1) /\ v.next < o[2]
            BY <2>3, <2>4, <3>1
        <3>4. QED BY <2>5, <3>2, <3>3
    <2>7. o \in Gaps(i, r)
        BY <2>3, <2>4, <2>6 DEF Gaps
    <2>8. QED BY <2>7, LostElement
<1>10. IsFiniteSet(Lost') /\ Cardinality(Lost') <= faults'
    BY <1>1, <1>9, LostCount DEF SkipInv
<1>11. NoTimeNoMiss'
    <2> SUFFICES ASSUME NEW i \in Jobs, NEW r \in InPlay(i),
                        r.trig.kind = "interval", r.next = None,
                        NEW n \in missed \cup {m}, n[1] = i, n[3] = r.ver
                 PROVE  FALSE
        BY <1>1, <1>6 DEF NoTimeNoMiss
    <2>1. n = m
        BY DEF SkipInv, NoTimeNoMiss
    <2>2. r.next = v.next
        BY <1>8, <2>1
    <2>3. QED BY <1>1, <2>2
<1>12. HeldAsStored'
    BY <1>1, <1>6 DEF SkipInv, HeldAsStored, Present
<1>13. MissNoted'
    BY <1>1 DEF MissNoted
<1>14. QED BY <1>10, <1>11, <1>12, <1>13 DEF SkipInv

\* The job is written on: the run time it leaves is accounted for.
LEMMA SkipAdvance ==
    ASSUME TypeOK, TypeOK', SettleInv, SkipInv, LoopAdvance PROVE SkipInv'
<1>0. PICK j \in Jobs : j = Head(due)
    BY HeadInJobs DEF LoopAdvance
<1> DEFINE job  == View(j)
           next == NextFire(job.trig, runTime, passNow)
           new  == [job EXCEPT !.next = next]
           S    == IF loopPc = "accept" /\ runTime # None
                   THEN {<<j, runTime, runVer>>} ELSE {}
<1>1. /\ loopPc \in {"miss", "accept"} /\ store' = Advanced(j)
      /\ UNCHANGED <<missed, runs, faults>> /\ faults \in Nat
      /\ loopPc = "miss" => NextDue
      /\ loopPc = "accept" => /\ loopPc' = "dispatch"
                              /\ UNCHANGED <<due, held, aliased, runTime, runVer>>
    BY <1>0 DEF LoopAdvance, viewVars, TypeOK
<1>2. Dispatched' = Dispatched /\ InHand = {}
    BY <1>1, RunsKeptSame, DispatchedKept DEF InHand
<1>3. InHand' = S
    BY <1>0, <1>1, NextDueFrame DEF InHand
<1>4. Accounted' = Accounted \cup S
    BY <1>1, <1>2, <1>3 DEF Accounted
<1>5. j \in Jobs /\ job \in Records /\ Sound(job) /\ runTime \in Nat \cup {None}
      /\ passNow \in Nat /\ runVer \in Nat /\ store \in [Jobs -> Records]
      /\ (job.status # "absent" => job \in InPlay(j) /\ Ahead(j, job))
    BY <1>0, <1>1, ViewAhead DEF TypeOK
<1>6. /\ new.status = job.status /\ new.ver = job.ver /\ new.trig = job.trig
      /\ new.next = next /\ job.trig \in Triggers
    BY <1>5 DEF Records
<1>7. /\ store'[j].status # "absent" =>
            store'[j] = new /\ ~(job.trig.kind # "none" /\ next = None)
      /\ \A i \in Jobs : i # j => store'[i] = store[i]
    BY <1>1, <1>5 DEF Advanced, Present, Absent, Record
<1>8. ASSUME NEW i \in Jobs, NEW r \in InPlay(i)', i # j PROVE r \in InPlay(i)
    <2>1. CASE loopPc = "miss"
        BY <1>1, <1>7, <1>8, <2>1, NextDueFrame DEF InPlay, Absent, Record
    <2>2. CASE loopPc = "accept"
        BY <1>0, <1>1, <1>7, <1>8, <2>2 DEF InPlay
    <2>3. QED BY <1>1, <2>1, <2>2
<1>9. ASSUME NEW r \in InPlay(j)' PROVE r = store'[j] /\ r.status # "absent"
    <2>1. CASE loopPc = "miss"
        BY <1>0, <1>1, <2>1, NextDueFrame DEF InPlay, Absent, Record
    <2>2. CASE loopPc = "accept"
        BY <1>0, <1>1, <2>2 DEF InPlay
    <2>3. QED BY <1>1, <2>1, <2>2
<1>10. ASSUME NEW r \in InPlay(j)', r.trig.kind = "interval",
              NEW u \in Accounted \cup S, u[1] = j, u[3] = r.ver
       PROVE  /\ r = new /\ job \in InPlay(j) /\ job.trig.kind = "interval"
              /\ job.ver = runVer /\ job.next = runTime /\ runTime \in Nat
              /\ next = runTime + job.trig.len
    <2>0. r = new /\ r.status # "absent" /\ ~(job.trig.kind # "none" /\ next = None)
        BY <1>7, <1>9, <1>10
    <2> HIDE DEF new, next, job
    <2>1. r = new /\ job.status # "absent" /\ job.trig.kind = "interval" /\ next # None
        BY <1>6, <1>10, <2>0
    <2> USE DEF next
    <2>2. job \in InPlay(j) /\ Ahead(j, job)
        BY <1>5, <2>1
    <2>3. job.ver = runVer /\ job.next = runTime
        <3>1. CASE u \in S
            BY <1>0, <1>1, <1>6, <1>10, <2>1, <3>1 DEF SettleInv, Taken, job
        <3>2. CASE u \in Dispatched \cup missed
            BY <1>0, <1>1, <1>6, <1>10, <2>1, <3>2 DEF SettleInv, Taken, job
        <3>3. QED BY <1>2, <3>1, <3>2 DEF Accounted
    <2>4. runTime # None
        <3> SUFFICES ASSUME runTime = None PROVE FALSE
            OBVIOUS
        <3>1. u \in Dispatched \cup missed
            BY <1>2, <1>10 DEF Accounted
        <3>2. CASE u \in Dispatched
            BY <1>6, <1>10, <2>1, <2>2, <2>3, <3>2 DEF Ahead
        <3>3. CASE u \in missed
            BY <1>5, <1>6, <1>10, <2>1, <2>2, <2>3, <3>3 DEF SkipInv, NoTimeNoMiss
        <3>4. QED BY <3>1, <3>2, <3>3
    <2>5. next = runTime + job.trig.len
        BY <2>1, <2>4 DEF NextFire, Until
    <2>6. QED BY <1>5, <2>1, <2>2, <2>3, <2>4, <2>5
<1> HIDE DEF job, new, next
<1>11. Lost' \subseteq Lost
    <2> SUFFICES ASSUME NEW o \in Lost' PROVE o \in Lost
        OBVIOUS
    <2>1. PICK i \in Jobs : \E r \in InPlay(i)' : o \in Gaps(i, r)'
        BY DEF Lost
    <2>2. PICK r \in InPlay(i)' : o \in Gaps(i, r)'
        BY <2>1
    <2>3. /\ r.trig.kind = "interval" /\ r.next # None
          /\ o \in {i} \X (0..(r.next - 1)) \X {r.ver}
          /\ (r.next - o[2]) % r.trig.len = 0
          /\ o \notin Accounted \cup S
        BY <1>4, <2>2 DEF Gaps
    <2>4. PICK u \in Accounted \cup S : u[1] = i /\ u[3] = r.ver /\ u[2] < o[2]
        BY <1>4, <2>2 DEF Gaps
    <2>5. CASE i # j
        <3>1. u \in Accounted /\ r \in InPlay(i)
            BY <1>8, <2>4, <2>5
        <3>2. o \in Gaps(i, r)
            BY <2>3, <2>4, <3>1 DEF Gaps
        <3>3. QED BY <3>1, <3>2, LostElement
    <2>6. CASE i = j
        <3>1. /\ r = new /\ job \in InPlay(j) /\ job.trig.kind = "interval"
              /\ job.ver = runVer /\ job.next = runTime /\ runTime \in Nat
              /\ next = runTime + job.trig.len
            BY <1>10, <2>3, <2>4, <2>6
        <3>2. /\ r.ver = job.ver /\ r.trig = job.trig /\ r.next = next
              /\ job.trig.len \in Nat \ {0}
            BY <1>6, <3>1 DEF Triggers
        <3> DEFINE n == job.trig.len
                   t == o[2]
        <3>3. t \in Nat /\ t < runTime + n /\ (runTime + n - t) % n = 0
              /\ o = <<j, t, job.ver>>
            <4>1. next \in Nat
                BY <3>1, <3>2
            <4>2. t \in 0..(next - 1) /\ o = <<j, t, job.ver>>
                BY <2>3, <2>6, <3>2
            <4>3. t \in Nat /\ t < next
                BY <4>1, <4>2
            <4>4. QED BY <2>3, <3>1, <3>2, <4>2, <4>3
        <3> HIDE DEF n, t
        <3>4. t = runTime \/ (t < runTime /\ (runTime - t) % n = 0)
            <4>1. n \in Nat \ {0}
                BY <3>2 DEF n
            <4>2. QED BY <3>1, <3>3, <4>1, GridStep
        <3>5. t # runTime
            <4> SUFFICES ASSUME t = runTime PROVE FALSE
                OBVIOUS
            <4>1. o = <<j, runTime, runVer>>
                BY <3>1, <3>3
            <4>2. CASE loopPc = "accept"
                BY <2>3, <3>1, <4>1, <4>2
            <4>3. CASE loopPc = "miss"
                BY <1>0, <2>3, <4>1, <4>3 DEF SkipInv, MissNoted, Accounted
            <4>4. QED BY <1>1, <4>2, <4>3
        <3>6. u \in Accounted
            <4> SUFFICES ASSUME u \in S PROVE FALSE
                BY <2>4
            <4>1. u[2] = runTime
                OBVIOUS
            <4>2. QED BY <2>4, <3>1, <3>3, <3>4, <3>5, <4>1 DEF t
        <3>7. o \in Gaps(j, job)
            <4>1. o \in {j} \X (0..(job.next - 1)) \X {job.ver}
                BY <3>1, <3>3, <3>4, <3>5
            <4>2. (job.next - o[2]) % job.trig.len = 0
                BY <3>1, <3>4, <3>5 DEF n, t
            <4>3. u[1] = j /\ u[3] = job.ver /\ u[2] < o[2]
                BY <2>4, <2>6, <3>2
            <4>4. QED BY <2>3, <3>1, <3>6, <4>1, <4>2, <4>3 DEF Gaps
        <3>8. QED BY <1>5, <3>1, <3>7, LostElement
    <2>7. QED BY <2>5, <2>6
<1>12. IsFiniteSet(Lost') /\ Cardinality(Lost') <= faults'
    BY <1>1, <1>11, LostCount DEF SkipInv
<1>13. NoTimeNoMiss'
    <2> SUFFICES ASSUME NEW i \in Jobs, NEW r \in InPlay(i)',
                        r.trig.kind = "interval", r.next = None,
                        NEW m \in missed, m[1] = i, m[3] = r.ver
                 PROVE  FALSE
        BY <1>1 DEF NoTimeNoMiss
    <2>1. CASE i # j
        BY <1>8, <2>1 DEF SkipInv, NoTimeNoMiss
    <2>2. CASE i = j
        <3>1. r = store'[j] /\ r.status # "absent" /\ r = new
            BY <1>7, <1>9, <2>2
        <3>2. QED BY <1>6, <1>7, <3>1
    <2>3. QED BY <2>1, <2>2
<1>14. HeldAsStored'
    <2> SUFFICES ASSUME NEW i \in Jobs, held'[i] \in InPlay(i)', Present(i)',
                        held'[i].ver = store'[i].ver,
                        store'[i].trig.kind = "interval"
                 PROVE  store'[i].next = held'[i].next
        BY DEF HeldAsStored
    <2>1. CASE i = j
        BY <1>9, <2>1
    <2>2. CASE i # j
        <3>1. held'[i] \in InPlay(i) /\ store'[i] = store[i] /\ held'[i].status # "absent"
            BY <1>7, <1>8, <2>2 DEF InPlay
        <3>2. held'[i] = held[i]
            <4>1. CASE loopPc = "miss"
                BY <1>1, <3>1, <4>1, NextDueFrame DEF Absent, Record
            <4>2. CASE loopPc = "accept"
                BY <1>1, <4>2
            <4>3. QED BY <1>1, <4>1, <4>2
        <3>3. QED BY <3>1, <3>2 DEF SkipInv, HeldAsStored, Present
    <2>3. QED BY <2>1, <2>2
<1>15. MissNoted'
    <2>1. loopPc' # "miss"
        BY <1>1, NextDueFrame
    <2>2. QED BY <2>1 DEF MissNoted
<1>16. QED BY <1>12, <1>13, <1>14, <1>15 DEF SkipInv

\* A call ends: a schedule it stores is one that nobody ran.
LEMMA SkipEndCall ==
    ASSUME TypeOK, TypeOK', SettleInv, SkipInv, CallEnds PROVE SkipInv'
<1>1. /\ api.op # "none" /\ loopPc' = loopPc /\ faults \in Nat /\ api.job \in Jobs
      /\ UNCHANGED <<runs, missed, due, runTime, runVer, faults>>
    BY DEF CallEnds, TypeOK
<1>2. Dispatched' = Dispatched /\ InHand' = InHand
    BY <1>1, RunsKeptSame, DispatchedKept DEF InHand
<1>3. Accounted' = Accounted /\ faults' >= faults
    BY <1>1, <1>2 DEF Accounted
<1>4. \A u \in Accounted : u[3] # calls
    BY <1>1, CallIsNew DEF Accounted
<1>5. HeldAsStored'
    <2> SUFFICES ASSUME NEW i \in Jobs, held'[i] \in InPlay(i)', Present(i)',
                        held'[i].ver = store'[i].ver, store'[i].trig.kind = "interval"
                 PROVE  store'[i].next = held'[i].next
        BY DEF HeldAsStored
    <2>1. CASE held'[i] = store'[i]
        BY <2>1
    <2>2. CASE held'[i] # store'[i]
        <3>1. held'[i] \in InPlay(i)
            BY <2>2, CallInPlay
        <3>2. held'[i].ver # calls
            <4>1. Known(held'[i].ver)
                BY <3>1 DEF SettleInv, AllAhead, Ahead
            <4>2. held'[i].ver \in Nat /\ calls \in Nat
                BY <3>1, InPlayType DEF Records, TypeOK
            <4>3. QED BY <1>1, <4>1, <4>2 DEF Known
        <3>3. store'[i] = store[i]
            BY <3>2 DEF CallEnds, Present
        <3>4. held'[i] = held[i]
            <4>1. held'[i] \in {held[i], store[i]}
                BY <1>1 DEF CallEnds, Detach, viewVars, TypeOK
            <4>2. QED BY <2>2, <3>3, <4>1
        <3>5. QED BY <3>1, <3>3, <3>4 DEF SkipInv, HeldAsStored, Present
    <2>3. QED BY <2>1, <2>2
<1>6. MissNoted'
    BY <1>1 DEF SkipInv, MissNoted
<1>7. ASSUME NEW i \in Jobs, NEW r \in InPlay(i)'
      PROVE  r \in InPlay(i) \/ \A u \in Accounted : ~(u[1] = i /\ u[3] = r.ver)
    BY <1>4, CallInPlay
<1>8. QED BY <1>1, <1>3, <1>5, <1>6, <1>7, SkipFrame

-----------------------------------------------------------------------------
(* The theorem.                                                            *)

\* Every skipped run time of a stored schedule is one of the lost.
LEMMA SkippedIsLost ==
    ASSUME TypeOK, SettleInv, NEW j \in Jobs, NEW t \in Nat, t \in Skipped(j)
    PROVE  <<j, t, store[j].ver>> \in Lost
<1> DEFINE job  == store[j]
           done == Settled(j, job.ver) \ {None}
<1>1. job \in Records /\ Sound(job)
    BY DEF TypeOK, SettleInv, AllSound
<1>2. /\ job.trig.kind = "interval" /\ job.next # None
      /\ t \in 0..(job.next - 1) /\ (job.next - t) % job.trig.len = 0
      /\ t \notin done
      /\ \E u \in done : u < t
    BY DEF Skipped
<1>3. job \in InPlay(j)
    BY <1>1, <1>2 DEF InPlay, Sound, Absent, Record, NoTrigger
<1>4. ASSUME NEW u \in done PROVE <<j, u, job.ver>> \in Accounted
    <2>1. CASE \E i \in DueRuns : runs[i].job = j /\ runs[i].ver = job.ver
                                   /\ u = runs[i].time
        BY <2>1 DEF Accounted, Dispatched, Occurrence
    <2>2. CASE \E m \in missed : m[1] = j /\ m[3] = job.ver /\ u = m[2]
        <3>1. \A m \in missed : m = <<m[1], m[2], m[3]>>
            BY DEF TypeOK
        <3>2. QED BY <2>2, <3>1 DEF Accounted
    <2>3. CASE loopPc = "dispatch" /\ Head(due) = j /\ runVer = job.ver /\ u = runTime
        BY <2>3 DEF Accounted, InHand
    <2>4. QED BY <2>1, <2>2, <2>3 DEF Settled
<1>5. <<j, t, job.ver>> \notin Accounted
    <2>1. CASE <<j, t, job.ver>> \in Dispatched
        <3>1. PICK i \in DueRuns : Occurrence(i) = <<j, t, job.ver>>
            BY <2>1 DEF Dispatched
        <3>2. runs[i].job = j /\ runs[i].ver = job.ver /\ runs[i].time = t
            BY <3>1 DEF Occurrence
        <3>3. t \in done
            BY <3>2 DEF Settled
        <3>4. QED BY <1>2, <3>3
    <2>2. CASE <<j, t, job.ver>> \in missed
        <3>1. t \in done
            BY <2>2 DEF Settled
        <3>2. QED BY <1>2, <3>1
    <2>3. CASE <<j, t, job.ver>> \in InHand
        <3>1. t \in done
            BY <2>3 DEF InHand, Settled
        <3>2. QED BY <1>2, <3>1
    <2>4. QED BY <2>1, <2>2, <2>3 DEF Accounted
<1>6. PICK u \in done : u < t
    BY <1>2
<1> HIDE DEF job, done
<1>7. <<j, t, job.ver>> \in Gaps(j, job)
    <2>1. <<j, u, job.ver>> \in Accounted
        BY <1>4
    <2>2. QED BY <1>2, <1>5, <1>6, <2>1 DEF Gaps
<1>8. <<j, t, job.ver>> \in Lost
    BY <1>3, <1>7, LostElement
<1>9. QED BY <1>8 DEF job

\* The invariant bounds the skipped run times.
LEMMA SkippedAtMostFaults ==
    TypeOK /\ SettleInv /\ SkipInv => NoRunTimeSkipped
<1> SUFFICES ASSUME TypeOK, SettleInv, SkipInv PROVE NoRunTimeSkipped
    OBVIOUS
<1> DEFINE W == {o \in Jobs \X (0..MaxTime) : o[2] \in Skipped(o[1])}
           f == [o \in W |-> <<o[1], o[2], store[o[1]].ver>>]
<1>1. \A o \in W : f[o] \in Lost
    <2> SUFFICES ASSUME NEW o \in W PROVE <<o[1], o[2], store[o[1]].ver>> \in Lost
        OBVIOUS
    <2>1. o[1] \in Jobs /\ o[2] \in Nat /\ o[2] \in Skipped(o[1])
        BY BoundsAssumption
    <2>2. QED BY <2>1, SkippedIsLost
<1>2. \A o, p \in W : f[o] = f[p] => o = p
    <2>1. \A o \in W : o = <<o[1], o[2]>>
        OBVIOUS
    <2>2. QED BY <2>1
<1>3. f \in Injection(W, Lost)
    BY <1>1, <1>2 DEF Injection, IsInjective
<1>4. IsFiniteSet(W) /\ Cardinality(W) <= Cardinality(Lost)
    BY <1>3, FS_Injection DEF SkipInv
<1>5. Cardinality(W) \in Nat /\ Cardinality(Lost) \in Nat /\ faults \in Nat
    BY <1>4, FS_CardinalityType DEF SkipInv, TypeOK
<1>6. Cardinality(W) <= faults
    BY <1>4, <1>5 DEF SkipInv
<1>7. QED BY <1>6 DEF NoRunTimeSkipped

LEMMA SkipLoop ==
    ASSUME TypeOK, TypeOK', SettleInv, SkipInv, Loop PROVE SkipInv'
BY SkipStays, SkipScan, SkipAborts, SkipMiss, SkipReject, SkipAccept, SkipAdvance,
   SkipDispatch DEF Loop

(***************************************************************************)
(* The invariant behind NoRunTimeSkipped holds for every set of jobs,      *)
(* every trigger, every kind of store, every fault and every bound, under  *)
(* the condition of SettledOnceHolds on update_job.                        *)
(***************************************************************************)
THEOREM SkipInvariant ==
    ASSUME "update" \notin ApiOps \/ \A j \in Jobs : Shared(j)
    PROVE  Spec => []SkipInv
<1>1. TypeOK /\ TypeOK' /\ SettleInv /\ SkipInv /\ [Next]_vars => SkipInv'
    <2> SUFFICES ASSUME TypeOK, TypeOK', SettleInv, SkipInv, [Next]_vars
                 PROVE  SkipInv'
        OBVIOUS
    <2>1. CASE Loop
        BY <2>1, SkipLoop
    <2>2. CASE \E i \in DOMAIN runs :
                   Finish(i) \/ FinishLogFails(i) \/ ManualRaises(i)
        BY <2>2, SkipStays
    <2>3. CASE Api
        BY <2>3, SkipStays, ApiEndsCall, SkipEndCall DEF Api
    <2>4. CASE Tick
        BY <2>4, SkipStays
    <2>5. CASE Crash
        BY <2>5, SkipAborts
    <2>6. CASE UNCHANGED vars
        BY <2>6, SkipStays
    <2>7. QED BY <2>1, <2>2, <2>3, <2>4, <2>5, <2>6 DEF Next
<1>2. QED BY <1>1, SkipInit, SettleInvariant, TypeCorrect, PTL DEF Spec

(***************************************************************************)
(* What the loop, the calls and the store hold of a job's run times is     *)
(* neither behind what was settled nor ahead of it by more than one, but   *)
(* for what a fault lost: the invariant that Scheduler_stores checks.      *)
(***************************************************************************)
THEOREM SettlementInvariant ==
    ASSUME "update" \notin ApiOps \/ \A j \in Jobs : Shared(j)
    PROVE  Spec => []SettlementInv
BY SettleInvariant, SkipInvariant, PTL DEF SettlementInv

(***************************************************************************)
(* No run time of an interval job is skipped: up to the one the store is   *)
(* at, each was dispatched or reported as missed, but for one of each      *)
(* fault.  Rejections, pauses and re-schedules that race with a pass lose  *)
(* none.                                                                   *)
(***************************************************************************)
THEOREM NoRunTimeSkippedHolds ==
    ASSUME "update" \notin ApiOps \/ \A j \in Jobs : Shared(j)
    PROVE  Spec => []NoRunTimeSkipped
<1>1. TypeOK /\ SettleInv /\ SkipInv => NoRunTimeSkipped
    BY SkippedAtMostFaults
<1>2. QED BY <1>1, SkipInvariant, SettleInvariant, TypeCorrect, PTL
=============================================================================
