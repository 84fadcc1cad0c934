---------------------- MODULE SchedulerLifecycleProofs ----------------------
(***************************************************************************)
(* Theorems about SchedulerLifecycle, for every set of jobs, callers,      *)
(* kinds of executor and operations, and without its bounds.               *)
(***************************************************************************)
EXTENDS SchedulerLifecycle, FiniteSetTheorems, SequenceTheorems, TLAPS

-----------------------------------------------------------------------------
(* Type correctness.                                                       *)

\* The number of registered executors is a number (len(self._executors)).
LEMMA SizeType == Cardinality(Registered) \in Nat
BY SetsAssumption, FS_Subset, FS_CardinalityType DEF Registered

LEMMA IdleType == Idle \in CallType
BY AliasAssumption DEF Idle, CallType, None, CallSteps, AllKinds

\* start and shutdown of an executor keep its kind and give it a phase, and
\* what was started or shut is never new again (core/executor.py).
LEMMA InstanceTypes ==
    ASSUME NEW e \in InstType
    PROVE  /\ Started(e) \in InstType /\ ShutDown(e) \in InstType
           /\ Started(e).kind = e.kind /\ ShutDown(e).kind = e.kind
           /\ Started(e).phase = "new" => e.phase = "new"
           /\ ShutDown(e).phase = "new" => e.phase = "new"
BY DEF InstType, Started, ShutDown, Phases

\* A submission leaves a run in one of its phases (submit of every executor).
LEMMA SubmittedType ==
    ASSUME NEW e \in InstType, NEW phase \in Submitted(e)
    PROVE  /\ phase \in RunPhases
           /\ phase \notin {"callback", "reported", "unreported"}
           /\ phase = "refused" => e.phase # "started"
           /\ phase = "lost" => e.phase # "started"
BY DEF Submitted, InstType, RunPhases, Over, AllKinds, Phases

LEMMA TypeInit == Init => TypeOK
<1> SUFFICES ASSUME Init PROVE TypeOK
    OBVIOUS
<1>1. PICK kind \in Kinds : insts = <<Instance(kind)>>
    BY DEF Init
<1>2. insts \in Seq(InstType) /\ Len(insts) = 1
    BY <1>1, KindsAssumption DEF Instance, InstType, Phases
<1>3. executors \in [Aliases -> 0..Len(insts)] /\ executors["default"] # None
    BY <1>2, AliasAssumption DEF Init, None
<1>4. calls \in [Callers -> CallType]
    BY IdleType DEF Init
<1>5. loops \in Seq(LoopType) /\ runs \in Seq(RunType)
    BY DEF Init
<1>6. QED
    BY <1>2, <1>3, <1>4, <1>5 DEF Init, TypeOK


LEMMA ElementType ==
    ASSUME NEW S, NEW s \in Seq(S), NEW i \in DOMAIN s
    PROVE  i \in 1..Len(s) /\ s[i] \in S
OBVIOUS

LEMMA SeqMonotone ==
    ASSUME NEW S, NEW T, S \subseteq T, NEW s \in Seq(S)
    PROVE  s \in Seq(T)
<1>1. s \in [1..Len(s) -> T] /\ Len(s) \in Nat
    OBVIOUS
<1>2. QED BY <1>1

LEMMA Length ==
    ASSUME NEW S, NEW s \in Seq(S)
    PROVE  DOMAIN s = 1..Len(s) /\ Len(s) \in Nat /\ (s # <<>> => Len(s) \in DOMAIN s)
OBVIOUS

LEMMA LastIndex ==
    ASSUME NEW S, NEW s \in Seq(S), Len(s) > 0
    PROVE  Len(s) \in DOMAIN s
OBVIOUS

LEMMA Appended ==
    ASSUME NEW S, NEW s \in Seq(S), NEW x
    PROVE  /\ Len(Append(s, x)) = Len(s) + 1
           /\ DOMAIN Append(s, x) = 1..(Len(s) + 1)
           /\ Append(s, x)[Len(s) + 1] = x
           /\ \A i \in 1..Len(s) : i \in DOMAIN s /\ Append(s, x)[i] = s[i]
OBVIOUS

\* What an assignment to one element leaves of the three sequences.
LEMMA RunChanged ==
    ASSUME TypeOK, NEW i \in DOMAIN runs, NEW phase \in RunPhases
    PROVE  [runs EXCEPT ![i].phase = phase] \in Seq(RunType)
<1>0. runs \in Seq(RunType)
    BY DEF TypeOK
<1>1. runs \in Seq(RunType) /\ i \in 1..Len(runs) /\ runs[i] \in RunType
    BY <1>0, ElementType
<1>2. [runs[i] EXCEPT !.phase = phase] \in RunType
    BY <1>1 DEF RunType
<1>3. [runs EXCEPT ![i] = [runs[i] EXCEPT !.phase = phase]] \in Seq(RunType)
    BY <1>1, <1>2, ExceptSeq
<1>4. QED BY <1>3

LEMMA LoopChanged ==
    ASSUME TypeOK, NEW l \in DOMAIN loops, NEW x \in LoopType
    PROVE  [loops EXCEPT ![l] = x] \in Seq(LoopType)
<1>1. loops \in Seq(LoopType)
    BY DEF TypeOK
<1>2. QED BY <1>1, ElementType, ExceptSeq

LEMMA LoopMoved ==
    ASSUME TypeOK, NEW l \in DOMAIN loops, NEW pc \in LoopSteps
    PROVE  [loops EXCEPT ![l].pc = pc] \in Seq(LoopType)
<1>0. loops \in Seq(LoopType)
    BY DEF TypeOK
<1>1. loops[l] \in LoopType
    BY <1>0, ElementType
<1>2. [loops[l] EXCEPT !.pc = pc] \in LoopType
    BY <1>1 DEF LoopType
<1>3. QED BY <1>2, LoopChanged

LEMMA InPassType == ASSUME NEW S \in SUBSET Jobs PROVE InPass(S) \in LoopType
BY DEF InPass, LoopType, LoopSteps, None

\* Starting and shutting down change one instance, and no other number of them.
LEMMA InstanceStarted ==
    ASSUME TypeOK, NEW x
    PROVE  /\ [insts EXCEPT ![x] = Started(@)] \in Seq(InstType)
           /\ Len([insts EXCEPT ![x] = Started(@)]) = Len(insts)
<1>1. insts \in Seq(InstType)
    BY DEF TypeOK
<1>2. CASE x \in DOMAIN insts
    <2>1. x \in 1..Len(insts) /\ insts[x] \in InstType
        BY <1>1, <1>2, ElementType
    <2>2. Started(insts[x]) \in InstType
        BY <2>1, InstanceTypes
    <2>3. QED BY <1>1, <2>1, <2>2, ExceptSeq
<1>3. CASE x \notin DOMAIN insts
    <2>1. [insts EXCEPT ![x] = Started(@)] = insts
        BY <1>1, <1>3
    <2>2. QED BY <1>1, <2>1
<1>4. QED BY <1>2, <1>3

LEMMA InstanceShut ==
    ASSUME TypeOK, NEW x
    PROVE  /\ [insts EXCEPT ![x] = ShutDown(@)] \in Seq(InstType)
           /\ Len([insts EXCEPT ![x] = ShutDown(@)]) = Len(insts)
<1>1. insts \in Seq(InstType)
    BY DEF TypeOK
<1>2. CASE x \in DOMAIN insts
    <2>1. x \in 1..Len(insts) /\ insts[x] \in InstType
        BY <1>1, <1>2, ElementType
    <2>2. ShutDown(insts[x]) \in InstType
        BY <2>1, InstanceTypes
    <2>3. QED BY <1>1, <2>1, <2>2, ExceptSeq
<1>3. CASE x \notin DOMAIN insts
    <2>1. [insts EXCEPT ![x] = ShutDown(@)] = insts
        BY <1>1, <1>3
    <2>2. QED BY <1>1, <2>1
<1>4. QED BY <1>2, <1>3

\* A shutdown loses queued runs of its own instance at most.
LEMMA ShutTypes ==
    ASSUME TypeOK, NEW x, Shut(x)
    PROVE  /\ insts' \in Seq(InstType) /\ Len(insts') = Len(insts)
           /\ runs' \in Seq(RunType)' /\ Len(runs') = Len(runs)
<1>1. insts' \in Seq(InstType) /\ Len(insts') = Len(insts)
    BY InstanceShut DEF Shut
<1>2. RunType' = RunType
    BY <1>1 DEF RunType
<1>3. PICK S \in Dropped(x) :
          runs' = [i \in DOMAIN runs |-> IF i \in S THEN [runs[i] EXCEPT !.phase = "lost"]
                                                    ELSE runs[i]]
    BY DEF Shut
<1>4. runs \in Seq(RunType)
    BY DEF TypeOK
<1>5. \A i \in DOMAIN runs : runs[i] \in RunType /\ [runs[i] EXCEPT !.phase = "lost"] \in RunType
    <2> TAKE i \in DOMAIN runs
    <2>1. runs[i] \in RunType
        BY <1>4, ElementType
    <2>2. QED BY <2>1 DEF RunType, RunPhases, Over
<1>6. runs' \in [1..Len(runs) -> RunType] /\ Len(runs) \in Nat
    BY <1>3, <1>4, <1>5
<1>7. runs' \in Seq(RunType) /\ Len(runs') = Len(runs)
    BY <1>6
<1>8. QED BY <1>1, <1>2, <1>7


\* The steps of a run (core/executor.py, _on_job_finished) keep the types.
LEMMA TypeRunStep ==
    ASSUME TypeOK, NEW i \in DOMAIN runs, RunStep(i)
    PROVE  TypeOK'
<1>1. runs' \in Seq(RunType)
    <2>1. PICK phase \in RunPhases : runs' = [runs EXCEPT ![i].phase = phase]
        BY DEF RunStep, RunBegins, RunEnds, RunReported, RunPhases, Over
    <2>2. QED BY <2>1, RunChanged
<1>2. insts' = insts /\ RunType' = RunType
    BY DEF RunStep, RunBegins, RunEnds, RunReported, RunType
<1>3. busy' \subseteq busy
    BY DEF RunStep, RunBegins, RunEnds, RunReported, NotBusy
<1>4. UNCHANGED <<schedVars, executors, due, calls, called, dues, faults, irregular>>
    BY DEF RunStep, RunBegins, RunEnds, RunReported
<1>5. QED BY <1>1, <1>2, <1>3, <1>4 DEF TypeOK, schedVars

\* What a step of a loop does when it submits no run.
LEMMA TypeLoopQuiet ==
    ASSUME TypeOK, loops' \in Seq(LoopType), wake' \in BOOLEAN, faults' \in Nat,
           irregular' \subseteq irregular \cup {"failed"},
           UNCHANGED <<state, stop, lock, executors, insts, workVars, calls, called,
                       dues>>
    PROVE  TypeOK'
<1>1. RunType' = RunType
    BY DEF RunType
<1>2. QED BY <1>1 DEF TypeOK, workVars

LEMMA TypeLoopStep ==
    ASSUME TypeOK, NEW l \in DOMAIN loops, LoopStep(l) \/ LoopFails(l)
    PROVE  TypeOK'
<1>0. loops \in Seq(LoopType) /\ due \subseteq Jobs /\ wake \in BOOLEAN /\ faults \in Nat
    BY DEF TypeOK
<1>1. loops[l] \in LoopType
    BY <1>0, ElementType
<1>2. loops[l].picked \subseteq Jobs
    BY <1>1 DEF LoopType
<1>3. CASE LoopTop(l)
    <2>1. PICK pc \in LoopSteps : loops' = [loops EXCEPT ![l].pc = pc]
        BY <1>3 DEF LoopTop, Goto, LoopSteps
    <2>2. loops' \in Seq(LoopType)
        BY <2>1, LoopMoved
    <2>3. QED BY <1>0, <1>3, <2>2, TypeLoopQuiet DEF LoopTop
<1>4. CASE LoopCollect(l)
    <2>1. loops' \in Seq(LoopType)
        BY <1>0, <1>4, InPassType, LoopChanged DEF LoopCollect
    <2>2. QED BY <1>0, <1>4, <2>1, TypeLoopQuiet DEF LoopCollect
<1>5. CASE InlineReturns(l)
    <2>1. PICK S \in SUBSET Jobs : loops' = [loops EXCEPT ![l] = InPass(S)]
        BY <1>2, <1>5 DEF InlineReturns
    <2>2. loops' \in Seq(LoopType)
        BY <2>1, InPassType, LoopChanged
    <2>3. QED BY <1>0, <1>5, <2>2, TypeLoopQuiet DEF InlineReturns
<1>6. CASE LoopScan(l)
    <2>1. loops' \in Seq(LoopType)
        BY <1>6, LoopMoved DEF LoopScan, Goto, LoopSteps
    <2>2. QED BY <1>0, <1>6, <2>1, TypeLoopQuiet DEF LoopScan
<1>7. CASE LoopClear(l)
    <2>1. loops' \in Seq(LoopType)
        BY <1>7, LoopMoved DEF LoopClear, Goto, LoopSteps
    <2>2. QED BY <1>0, <1>7, <2>1, TypeLoopQuiet DEF LoopClear
<1>8. CASE LoopFails(l)
    <2>1. loops' \in Seq(LoopType)
        BY <1>8, LoopMoved DEF LoopFails, Goto, LoopSteps
    <2>2. QED BY <1>0, <1>8, <2>1, TypeLoopQuiet DEF LoopFails
<1>9. ASSUME NEW j \in Jobs, PassRejects(l, j)
      PROVE  TypeOK'
    <2>1. loops' \in Seq(LoopType)
        <3>1. loops[l].picked \ {j} \in SUBSET Jobs
            BY <1>2
        <3>2. loops' = [loops EXCEPT ![l] = InPass(loops[l].picked \ {j})]
            BY <1>9 DEF PassRejects
        <3>3. QED BY <3>1, <3>2, InPassType, LoopChanged
    <2>2. QED BY <1>0, <1>9, <2>1, TypeLoopQuiet DEF PassRejects
<1>10. ASSUME NEW j \in Jobs, PassSubmits(l, j)
       PROVE  TypeOK'
    <2>1. ExecutorOf(j) \in 1..Len(insts) /\ insts[ExecutorOf(j)] \in InstType
        <3>1. insts \in Seq(InstType) /\ executors \in [Aliases -> 0..Len(insts)]
                /\ executors["default"] # None
            BY DEF TypeOK
        <3>2. ExecutorOf(j) \in 0..Len(insts) /\ ExecutorOf(j) # 0
            BY <3>1, AliasAssumption DEF ExecutorOf, None
        <3>3. ExecutorOf(j) \in 1..Len(insts)
            BY <3>1, <3>2
        <3>4. QED BY <3>1, <3>3, ElementType
    <2>2. PICK phase \in Submitted(insts[ExecutorOf(j)]) :
            /\ runs' = Append(runs, [job |-> j, inst |-> ExecutorOf(j), phase |-> phase,
                                     at |-> insts[ExecutorOf(j)].phase])
            /\ loops' = [loops EXCEPT ![l] =
                  CASE phase = "refused" -> InPass({})
                    [] phase = "running" -> [pc |-> "inline", picked |-> @.picked \ {j},
                                             run |-> Len(runs) + 1]
                    [] OTHER -> InPass(@.picked \ {j})]
        BY <1>10 DEF PassSubmits
    <2>3. runs \in Seq(RunType)
        BY DEF TypeOK
    <2>4. [job |-> j, inst |-> ExecutorOf(j), phase |-> phase,
           at |-> insts[ExecutorOf(j)].phase] \in RunType
        BY <2>1, SubmittedType DEF RunType, InstType
    <2>5. runs' \in Seq(RunType)
        BY <2>2, <2>3, <2>4
    <2>6. PICK x \in LoopType : loops' = [loops EXCEPT ![l] = x]
        <3>1. loops[l].picked \ {j} \in SUBSET Jobs
            BY <1>2
        <3>2. [pc |-> "inline", picked |-> loops[l].picked \ {j},
               run |-> Len(runs) + 1] \in LoopType
            BY <2>3, <3>1 DEF LoopType, LoopSteps
        <3>3. InPass({}) \in LoopType /\ InPass(loops[l].picked \ {j}) \in LoopType
            BY <3>1, InPassType
        <3>4. QED BY <2>2, <3>2, <3>3
    <2>7. loops' \in Seq(LoopType)
        BY <2>6, LoopChanged
    <2>8. RunType' = RunType /\ due' \subseteq Jobs /\ busy' \subseteq Jobs
        BY <1>10 DEF PassSubmits, RunType, TypeOK
    <2>9. QED BY <1>10, <2>5, <2>7, <2>8 DEF PassSubmits, TypeOK
<1>11. QED BY <1>3, <1>4, <1>5, <1>6, <1>7, <1>8, <1>9, <1>10 DEF LoopStep


Flags == {"overlap", "resized", "abandoned", "no wait", "failed"}

LEMMA CallChanged ==
    ASSUME TypeOK, NEW c \in Callers, NEW x \in CallType
    PROVE  [calls EXCEPT ![c] = x] \in [Callers -> CallType]
BY DEF TypeOK

\* A call begins: the guard and the record of Begin.
LEMMA BeginType ==
    ASSUME TypeOK, NEW c \in Callers, NEW op \in LifecycleOps \cup ComponentOps,
           NEW x \in CallType, Begin(c, op, x)
    PROVE  /\ calls' \in [Callers -> CallType]
           /\ called' \in Nat
           /\ irregular' \subseteq Flags
<1>1. calls' \in [Callers -> CallType]
    BY CallChanged DEF Begin
<1>2. called' \in Nat
    <2>1. called \in Nat
        BY DEF TypeOK
    <2>2. QED BY <2>1 DEF Begin
<1>3. irregular' \subseteq Flags
    <2>1. Overlap(op) \subseteq Flags
        BY DEF Overlap, Flags
    <2>2. irregular \subseteq Flags
        BY DEF TypeOK, Flags
    <2>3. QED BY <2>1, <2>2 DEF Begin
<1>4. QED BY <1>1, <1>2, <1>3

\* A call's step that changes no executor and no run ...
LEMMA TypeCallQuiet ==
    ASSUME TypeOK, calls' \in [Callers -> CallType], called' \in Nat,
           state' \in {"stopped", "running", "paused"}, stop' \in BOOLEAN,
           wake' \in BOOLEAN, loops' \in Seq(LoopType), irregular' \subseteq Flags,
           UNCHANGED <<lock, executors, insts, workVars, dues, faults>>
    PROVE  TypeOK'
<1>1. RunType' = RunType
    BY DEF RunType
<1>2. QED BY <1>1 DEF TypeOK, workVars, Flags

\* ... or the phases of instances and runs ...
LEMMA TypeCallPhases ==
    ASSUME TypeOK, calls' \in [Callers -> CallType], called' \in Nat,
           lock' \in Callers \cup {None}, insts' \in Seq(InstType),
           Len(insts') = Len(insts), runs' \in Seq(RunType)',
           irregular' \subseteq Flags,
           executors' \in [Aliases -> 0..Len(insts)], executors'["default"] # None,
           UNCHANGED <<state, stop, wake, loops, due, busy, dues, faults>>
    PROVE  TypeOK'
BY DEF TypeOK, Flags

\* ... or registers a new instance.
LEMMA TypeRegister ==
    ASSUME TypeOK, calls' \in [Callers -> CallType], called' \in Nat,
           lock' \in Callers \cup {None}, irregular' \subseteq Flags,
           NEW a \in Aliases, NEW kind \in AllKinds, Register(a, kind),
           UNCHANGED <<state, stop, wake, loops, workVars, dues, faults>>
    PROVE  TypeOK'
<1>1. insts \in Seq(InstType) /\ Instance(kind) \in InstType
    BY DEF TypeOK, Instance, InstType, Phases
<1>2. insts' \in Seq(InstType) /\ Len(insts') = Len(insts) + 1 /\ Len(insts) \in Nat
    BY <1>1 DEF Register
<1>3. executors' \in [Aliases -> 0..Len(insts')] /\ executors'["default"] # None
    <2>1. executors \in [Aliases -> 0..Len(insts)] /\ executors["default"] # None
        BY DEF TypeOK
    <2>2. executors' = [executors EXCEPT ![a] = Len(insts) + 1]
        BY DEF Register
    <2>3. QED BY <1>2, <2>1, <2>2, AliasAssumption DEF None
<1>4. RunType \subseteq RunType'
    BY <1>2 DEF RunType
<1>5. runs' \in Seq(RunType')
    <2>1. runs' = runs /\ runs \in Seq(RunType)
        BY DEF TypeOK, workVars
    <2>2. QED BY <1>4, <2>1, SeqMonotone
<1>6. QED BY <1>2, <1>3, <1>5 DEF TypeOK, workVars, Flags


\* A call begins (the first lines of each operation) and keeps the types.
LEMMA TypeCallBegins ==
    ASSUME TypeOK, NEW c \in Callers, CallBegins(c)
    PROVE  TypeOK'
<1>1. /\ state \in {"stopped", "running", "paused"} /\ stop \in BOOLEAN
      /\ wake \in BOOLEAN /\ loops \in Seq(LoopType) /\ lock \in Callers \cup {None}
      /\ insts \in Seq(InstType) /\ Len(insts) \in Nat /\ runs \in Seq(RunType)
      /\ executors \in [Aliases -> 0..Len(insts)] /\ executors["default"] # None
    <2>1. insts \in Seq(InstType)
        BY DEF TypeOK
    <2>2. Len(insts) \in Nat
        BY <2>1
    <2>3. QED BY <2>1, <2>2 DEF TypeOK
<1>2. /\ [Idle EXCEPT !.op = "start", !.pc = "each", !.size = Cardinality(Registered)]
            \in CallType
      /\ \A wait \in BOOLEAN :
            [Idle EXCEPT !.op = "shutdown", !.pc = "join", !.wait = wait] \in CallType
      /\ \A op \in {"pause", "resume"} :
            [Idle EXCEPT !.op = op, !.pc = "set"] \in CallType
    BY IdleType, SizeType DEF CallType, CallSteps, LifecycleOps
<1>3. /\ \A op \in ComponentOps : Starting(op) \in CallType
      /\ \A a \in Aliases, kind \in NewKinds :
            [Idle EXCEPT !.op = "update", !.pc = "drain", !.alias = a, !.kind = kind,
                         !.inst = executors[a]] \in CallType
      /\ \A a \in Aliases :
            [Idle EXCEPT !.op = "remove", !.pc = "shut", !.inst = executors[a]]
                \in CallType
    <2>1. ASSUME NEW op \in ComponentOps
          PROVE  Starting(op) \in CallType
        <3>1. Len(insts) + 1 \in Nat
            BY <1>1
        <3>2. Starting(op) = [Idle EXCEPT !.op = op, !.pc = "starting",
                                          !.inst = Len(insts) + 1]
            BY DEF Starting
        <3>3. QED BY <3>1, <3>2, IdleType DEF CallType, CallSteps
    <2>2. ASSUME NEW a \in Aliases
          PROVE  executors[a] \in Nat
        BY <1>1
    <2>3. ASSUME NEW a \in Aliases, NEW kind \in NewKinds
          PROVE  [Idle EXCEPT !.op = "update", !.pc = "drain", !.alias = a,
                              !.kind = kind, !.inst = executors[a]] \in CallType
        BY <2>2, IdleType, KindsAssumption DEF CallType, CallSteps, ComponentOps
    <2>4. ASSUME NEW a \in Aliases
          PROVE  [Idle EXCEPT !.op = "remove", !.pc = "shut", !.inst = executors[a]]
                    \in CallType
        BY <2>2, IdleType DEF CallType, CallSteps, ComponentOps
    <2>5. QED BY <2>1, <2>3, <2>4
<1>4. CASE BeginStart(c)
    <2>1. /\ calls' \in [Callers -> CallType] /\ called' \in Nat
          /\ irregular' \subseteq Flags
        BY <1>2, <1>4, BeginType DEF BeginStart, LifecycleOps
    <2>2. QED BY <1>1, <1>4, <2>1, TypeCallQuiet DEF BeginStart, schedVars
<1>5. CASE BeginShutdown(c)
    <2>1. /\ calls' \in [Callers -> CallType] /\ called' \in Nat
          /\ irregular' \subseteq Flags
        BY <1>2, <1>5, BeginType DEF BeginShutdown, LifecycleOps
    <2>2. QED BY <1>1, <1>5, <2>1, TypeCallQuiet DEF BeginShutdown
<1>6. CASE BeginPause(c)
    <2>1. /\ calls' \in [Callers -> CallType] /\ called' \in Nat
          /\ irregular' \subseteq Flags
        BY <1>2, <1>6, BeginType DEF BeginPause, LifecycleOps
    <2>2. QED BY <1>1, <1>6, <2>1, TypeCallQuiet DEF BeginPause, schedVars
<1>7. ASSUME NEW a \in Aliases, AddExecutor(c, a) \/ SetExecutor(c, a)
      PROVE  TypeOK'
    <2>1. PICK op \in {"add", "set"} : Begin(c, op, Starting(op))
        BY <1>7 DEF AddExecutor, SetExecutor
    <2>2. /\ calls' \in [Callers -> CallType] /\ called' \in Nat
          /\ irregular' \subseteq Flags
        BY <1>3, <2>1, BeginType DEF ComponentOps
    <2>3. PICK kind \in AllKinds : Register(a, kind)
        BY <1>7, KindsAssumption DEF AddExecutor, SetExecutor
    <2>4. QED BY <1>1, <1>7, <2>2, <2>3, TypeRegister
              DEF AddExecutor, SetExecutor, schedVars
<1>8. ASSUME NEW a \in Aliases, BeginUpdate(c, a)
      PROVE  TypeOK'
    <2>1. PICK kind \in NewKinds :
            Begin(c, "update", [Idle EXCEPT !.op = "update", !.pc = "drain",
                                   !.alias = a, !.kind = kind, !.inst = executors[a]])
        BY <1>8 DEF BeginUpdate
    <2>2. /\ calls' \in [Callers -> CallType] /\ called' \in Nat
          /\ irregular' \subseteq Flags
        BY <1>3, <2>1, BeginType DEF ComponentOps
    <2>3. insts' \in Seq(InstType) /\ Len(insts') = Len(insts) /\ runs' \in Seq(RunType)'
        <3>1. CASE Shut(executors[a])
            BY <3>1, ShutTypes
        <3>2. CASE UNCHANGED <<insts, runs>>
            <4>1. RunType' = RunType
                BY <3>2 DEF RunType
            <4>2. QED BY <1>1, <3>2, <4>1
        <3>3. QED BY <1>8, <3>1, <3>2 DEF BeginUpdate
    <2>4. QED BY <1>1, <1>8, <2>2, <2>3, TypeCallPhases DEF BeginUpdate
<1>9. ASSUME NEW a \in Aliases, RemoveExecutor(c, a)
      PROVE  TypeOK'
    <2>1. /\ calls' \in [Callers -> CallType] /\ called' \in Nat
          /\ irregular' \subseteq Flags
        BY <1>3, <1>9, BeginType DEF RemoveExecutor, ComponentOps
    <2>2. executors' \in [Aliases -> 0..Len(insts)] /\ executors'["default"] # None
        BY <1>1, <1>9, AliasAssumption DEF RemoveExecutor, None
    <2>3. RunType' = RunType
        BY <1>9 DEF RemoveExecutor, RunType
    <2>4. QED BY <1>1, <1>9, <2>1, <2>2, <2>3, TypeCallPhases
              DEF RemoveExecutor, LockAfterRemoval, workVars
<1>10. QED BY <1>4, <1>5, <1>6, <1>7, <1>8, <1>9 DEF CallBegins


\* The later steps of a call keep the types.
LEMMA TypeCallStep ==
    ASSUME TypeOK, NEW c \in Callers, CallStep(c)
    PROVE  TypeOK'
<1>1. /\ state \in {"stopped", "running", "paused"} /\ stop \in BOOLEAN
      /\ wake \in BOOLEAN /\ loops \in Seq(LoopType) /\ lock \in Callers \cup {None}
      /\ insts \in Seq(InstType) /\ runs \in Seq(RunType) /\ called \in Nat
      /\ executors \in [Aliases -> 0..Len(insts)] /\ executors["default"] # None
      /\ calls[c] \in CallType
    BY DEF TypeOK
<1>2. irregular \subseteq Flags
    BY DEF TypeOK, Flags
<1>3. Return(c) => calls' \in [Callers -> CallType]
    BY IdleType, CallChanged DEF Return
<1>4. /\ \A pc \in CallSteps : [calls EXCEPT ![c].pc = pc] \in [Callers -> CallType]
      /\ \A a \in Aliases : [calls EXCEPT ![c].seen = @ \cup {a}] \in [Callers -> CallType]
    <2>1. \A pc \in CallSteps : [calls[c] EXCEPT !.pc = pc] \in CallType
        BY <1>1 DEF CallType
    <2>2. \A a \in Aliases : [calls[c] EXCEPT !.seen = @ \cup {a}] \in CallType
        BY <1>1 DEF CallType
    <2>3. calls \in [Callers -> CallType]
        BY DEF TypeOK
    <2>4. QED BY <2>1, <2>2, <2>3
<1>5. CASE Resized(c)
    BY <1>1, <1>2, <1>3, <1>5, TypeCallQuiet DEF Resized, Flags, schedVars
<1>6. CASE StartState(c)
    BY <1>1, <1>2, <1>4, <1>6, TypeCallQuiet DEF StartState, CallSteps
<1>7. CASE StartThread(c)
    <2>1. loops' \in Seq(LoopType)
        BY <1>1, <1>7 DEF StartThread, Loop, LoopType, LoopSteps, None
    <2>2. QED BY <1>1, <1>2, <1>3, <1>7, <2>1, TypeCallQuiet DEF StartThread
<1>8. CASE Join(c)
    <2>1. calls' \in [Callers -> CallType]
        <3>1. [calls[c] EXCEPT !.pc = "each", !.size = Cardinality(Registered)] \in CallType
            BY <1>1, SizeType DEF CallType, CallSteps
        <3>2. calls' = [calls EXCEPT ![c] =
                    [calls[c] EXCEPT !.pc = "each", !.size = Cardinality(Registered)]]
            BY <1>8 DEF Join, TypeOK
        <3>3. QED BY <3>1, <3>2, CallChanged
    <2>2. irregular' \subseteq Flags
        BY <1>2, <1>8 DEF Join, Flags
    <2>3. QED BY <1>1, <1>8, <2>1, <2>2, TypeCallQuiet DEF Join, schedVars
<1>9. CASE ShutNext(c)
    <2>1. [calls[c] EXCEPT !.pc = "each", !.inst = None] \in CallType
        BY <1>1 DEF CallType, CallSteps, None
    <2>2. calls' = [calls EXCEPT ![c] = [calls[c] EXCEPT !.pc = "each", !.inst = None]]
        BY <1>9 DEF ShutNext, TypeOK
    <2>3. calls' \in [Callers -> CallType]
        BY <2>1, <2>2, CallChanged
    <2>4. QED BY <1>1, <1>2, <1>9, <2>3, TypeCallQuiet DEF ShutNext, schedVars
<1>10. CASE ShutdownDone(c)
    <2>1. irregular' \subseteq Flags
        BY <1>2, <1>10 DEF ShutdownDone, Flags
    <2>2. QED BY <1>1, <1>3, <1>10, <2>1, TypeCallQuiet DEF ShutdownDone, ShutdownState
<1>11. CASE PauseState(c)
    BY <1>1, <1>2, <1>3, <1>11, TypeCallQuiet DEF PauseState
<1>12. CASE StartNew(c)
    <2>1. insts' \in Seq(InstType) /\ Len(insts') = Len(insts)
        BY <1>1, <1>12, InstanceStarted DEF StartNew
    <2>2. RunType' = RunType
        BY <2>1 DEF RunType
    <2>3. QED BY <1>1, <1>2, <1>3, <1>12, <2>1, <2>2, TypeCallPhases
              DEF StartNew, schedVars, workVars
<1>13. CASE UpdateReplaces(c)
    <2>1. CASE calls[c].kind = "unknown"
        <3>1. RunType' = RunType
            BY <1>13, <2>1 DEF UpdateReplaces, RunType
        <3>2. QED BY <1>1, <1>2, <1>3, <1>13, <2>1, <3>1, TypeCallPhases
                  DEF UpdateReplaces, workVars
    <2>2. CASE calls[c].kind # "unknown"
        <3>1. Register(calls[c].alias, calls[c].kind)
                /\ calls' = [calls EXCEPT ![c] = Starting("update")]
            BY <1>13, <2>2 DEF UpdateReplaces
        <3>2. Starting("update") \in CallType
            <4>1. Len(insts) + 1 \in Nat
                BY <1>1
            <4>2. QED BY <4>1, IdleType DEF Starting, CallType, CallSteps, ComponentOps
        <3>3. calls' \in [Callers -> CallType]
            BY <3>1, <3>2, CallChanged
        <3>4. calls[c].alias \in Aliases /\ calls[c].kind \in AllKinds
            BY <1>1, <2>2 DEF CallType
        <3>5. QED BY <1>1, <1>2, <1>13, <3>1, <3>3, <3>4, TypeRegister DEF UpdateReplaces
    <2>3. QED BY <2>1, <2>2
<1>14. CASE RemoveShuts(c)
    <2>1. insts' \in Seq(InstType) /\ Len(insts') = Len(insts) /\ runs' \in Seq(RunType)'
        BY <1>14, ShutTypes DEF RemoveShuts
    <2>2. QED BY <1>1, <1>2, <1>4, <1>14, <2>1, TypeCallPhases
              DEF RemoveShuts, schedVars, CallSteps
<1>15. CASE RemoveDone(c)
    <2>1. RunType' = RunType
        BY <1>15 DEF RemoveDone, RunType
    <2>2. QED BY <1>1, <1>2, <1>3, <1>15, <2>1, TypeCallPhases DEF RemoveDone, workVars
<1>16. ASSUME NEW a \in Aliases, StartEach(c, a)
       PROVE  TypeOK'
    <2>1. insts' \in Seq(InstType) /\ Len(insts') = Len(insts)
        BY <1>16, InstanceStarted DEF StartEach
    <2>2. RunType' = RunType
        BY <2>1 DEF RunType
    <2>3. QED BY <1>1, <1>2, <1>4, <1>16, <2>1, <2>2, TypeCallPhases
              DEF StartEach, schedVars, workVars
<1>17. ASSUME NEW a \in Aliases, ShutEach(c, a)
       PROVE  TypeOK'
    <2>1. insts' \in Seq(InstType) /\ Len(insts') = Len(insts) /\ runs' \in Seq(RunType)'
        BY <1>17, ShutTypes DEF ShutEach
    <2>2. executors[a] \in Nat
        BY <1>1
    <2>3. [calls[c] EXCEPT !.seen = @ \cup {a}, !.inst = executors[a], !.pc = "drain"]
            \in CallType
        BY <1>1, <2>2 DEF CallType, CallSteps
    <2>4. calls' = [calls EXCEPT ![c] =
              [calls[c] EXCEPT !.seen = @ \cup {a}, !.inst = executors[a], !.pc = "drain"]]
        BY <1>17 DEF ShutEach, TypeOK
    <2>5. calls' \in [Callers -> CallType]
        BY <2>3, <2>4, CallChanged
    <2>6. QED BY <1>1, <1>2, <1>17, <2>1, <2>5, TypeCallPhases DEF ShutEach, schedVars
<1>18. QED BY <1>5, <1>6, <1>7, <1>8, <1>9, <1>10, <1>11, <1>12, <1>13, <1>14, <1>15,
              <1>16, <1>17 DEF CallStep

LEMMA TypeNext ==
    ASSUME TypeOK, [Next]_vars
    PROVE  TypeOK'
<1>1. CASE UNCHANGED vars
    <2>1. RunType' = RunType
        BY <1>1 DEF RunType, vars
    <2>2. QED BY <1>1, <2>1 DEF TypeOK, vars, schedVars, workVars
<1>2. ASSUME NEW j \in Jobs, JobDue(j)
      PROVE  TypeOK'
    <2>1. RunType' = RunType
        BY <1>2 DEF RunType, JobDue
    <2>2. dues' \in Nat /\ due' \subseteq Jobs
        <3>1. dues \in Nat /\ due \subseteq Jobs
            BY DEF TypeOK
        <3>2. QED BY <1>2, <3>1 DEF JobDue
    <2>3. QED BY <1>2, <2>1, <2>2 DEF TypeOK, JobDue, schedVars
<1>3. QED
    BY <1>1, <1>2, TypeRunStep, TypeLoopStep, TypeCallBegins, TypeCallStep DEF Next

\* The variables of the lifecycle keep their types, and "default" stays the
\* alias of an executor (Scheduler.remove_executor refuses to remove it).
THEOREM TypeCorrect == Spec => []TypeOK
<1>1. Init => TypeOK
    BY TypeInit
<1>2. TypeOK /\ [Next]_vars => TypeOK'
    BY TypeNext
<1>3. QED BY <1>1, <1>2, PTL DEF Spec

-----------------------------------------------------------------------------
(* Runs and the instances they were given to.                              *)

\* How the instances may change: none disappears or changes its kind, and none
\* becomes new again.
InstsGoOn ==
    /\ DOMAIN insts \subseteq DOMAIN insts'
    /\ \A x \in DOMAIN insts : /\ insts'[x].kind = insts[x].kind
                               /\ insts'[x].phase = "new" => insts[x].phase = "new"

LEMMA ShutGoesOn ==
    ASSUME TypeOK, NEW x, insts' = [insts EXCEPT ![x] = ShutDown(@)]
    PROVE  InstsGoOn
<1>1. \A y \in DOMAIN insts : insts[y] \in InstType
    <2>1. insts \in Seq(InstType)
        BY DEF TypeOK
    <2>2. QED BY <2>1, ElementType
<1>2. DOMAIN insts' = DOMAIN insts
    OBVIOUS
<1>3. \A y \in DOMAIN insts : insts'[y] = IF y = x THEN ShutDown(insts[y]) ELSE insts[y]
    OBVIOUS
<1>4. QED BY <1>1, <1>2, <1>3, InstanceTypes DEF InstsGoOn

LEMMA StartGoesOn ==
    ASSUME TypeOK, NEW x, insts' = [insts EXCEPT ![x] = Started(@)]
    PROVE  InstsGoOn
<1>1. \A y \in DOMAIN insts : insts[y] \in InstType
    <2>1. insts \in Seq(InstType)
        BY DEF TypeOK
    <2>2. QED BY <2>1, ElementType
<1>2. DOMAIN insts' = DOMAIN insts
    OBVIOUS
<1>3. \A y \in DOMAIN insts : insts'[y] = IF y = x THEN Started(insts[y]) ELSE insts[y]
    OBVIOUS
<1>4. QED BY <1>1, <1>2, <1>3, InstanceTypes DEF InstsGoOn

LEMMA RegisterGoesOn ==
    ASSUME TypeOK, NEW a, NEW kind, Register(a, kind)
    PROVE  InstsGoOn
<1>1. insts \in Seq(InstType)
    BY DEF TypeOK
<1>2. insts' = Append(insts, Instance(kind))
    BY DEF Register
<1>3. DOMAIN insts \subseteq DOMAIN insts' /\ \A x \in DOMAIN insts : insts'[x] = insts[x]
    BY <1>1, <1>2
<1>4. QED BY <1>3 DEF InstsGoOn

\* The instance of a run is one that was made (Executor.submit).
LEMMA RunInstance ==
    ASSUME TypeOK, NEW i \in DOMAIN runs
    PROVE  runs[i].inst \in DOMAIN insts /\ runs[i] \in RunType
<1>1. runs \in Seq(RunType) /\ insts \in Seq(InstType)
    BY DEF TypeOK
<1>2. runs[i] \in RunType
    BY <1>1, ElementType
<1>3. QED BY <1>1, <1>2 DEF RunType

LEMMA RunInvKept ==
    ASSUME TypeOK, RunInv, InstsGoOn, UNCHANGED <<busy, runs>>
    PROVE  RunInv'
<1>1. \A i \in DOMAIN runs : runs[i].inst \in DOMAIN insts
    BY RunInstance
<1>2. QED BY <1>1 DEF RunInv, InstsGoOn

LEMMA RunInvShut ==
    ASSUME TypeOK, RunInv, NEW x, Shut(x), UNCHANGED busy
    PROVE  RunInv'
<1>1. InstsGoOn
    BY ShutGoesOn DEF Shut
<1>2. PICK S \in Dropped(x) :
          runs' = [i \in DOMAIN runs |-> IF i \in S THEN [runs[i] EXCEPT !.phase = "lost"]
                                                    ELSE runs[i]]
    BY DEF Shut
<1>3. \A i \in DOMAIN runs : runs[i].inst \in DOMAIN insts /\ runs[i] \in RunType
    BY RunInstance
<1>4. \A i \in S : /\ runs[i].phase = "queued"
                   /\ insts[runs[i].inst].kind \in {"asyncio", "gevent"}
    BY DEF Dropped, RunsOf
<1>5. \A i \in DOMAIN runs :
          /\ runs'[i].job = runs[i].job /\ runs'[i].inst = runs[i].inst
          /\ runs'[i].at = runs[i].at
          /\ runs'[i].phase = IF i \in S THEN "lost" ELSE runs[i].phase
    BY <1>2, <1>3 DEF RunType
<1>6. DOMAIN runs' = DOMAIN runs
    BY <1>2
<1>7. QED BY <1>1, <1>3, <1>4, <1>5, <1>6 DEF RunInv, InstsGoOn

\* Steps of a run: only a callback lowers the count, and a run that ends
\* without one was given to an instance that was new.
LEMMA RunInvRunStep ==
    ASSUME TypeOK, RunInv, NEW i \in DOMAIN runs, RunStep(i)
    PROVE  RunInv'
<1>1. insts' = insts
    BY DEF RunStep, RunBegins, RunEnds, RunReported
<1>2. PICK phase \in RunPhases : runs' = [runs EXCEPT ![i].phase = phase]
    BY DEF RunStep, RunBegins, RunEnds, RunReported, RunPhases, Over
<1>3. \A k \in DOMAIN runs : runs[k] \in RunType
    BY RunInstance
<1>4. /\ DOMAIN runs' = DOMAIN runs
      /\ \A k \in DOMAIN runs :
            /\ runs'[k].job = runs[k].job /\ runs'[k].inst = runs[k].inst
            /\ runs'[k].at = runs[k].at
            /\ runs'[k].phase = IF k = i THEN phase ELSE runs[k].phase
    BY <1>2, <1>3 DEF RunType
<1>5. CASE RunBegins(i)
    <2>1. runs'[i].phase = "running" /\ busy' = busy
        BY <1>3, <1>5 DEF RunBegins, RunType
    <2>2. QED BY <1>1, <1>4, <2>1 DEF RunInv
<1>6. CASE RunEnds(i)
    <2>1. CASE insts[runs[i].inst].phase = "new"
        <3>1. runs'[i].phase = "unreported" /\ busy' = busy
            BY <1>3, <1>6, <2>1 DEF RunEnds, RunType
        <3>2. QED BY <1>1, <1>4, <2>1, <3>1 DEF RunInv
    <2>2. CASE insts[runs[i].inst].phase # "new"
        <3>1. runs'[i].phase = "callback" /\ busy' = busy \ {runs[i].job}
            BY <1>3, <1>6, <2>2 DEF RunEnds, RunType, NotBusy
        <3>2. QED BY <1>1, <1>4, <3>1 DEF RunInv
    <2>3. QED BY <2>1, <2>2
<1>7. CASE RunReported(i)
    <2>1. runs'[i].phase = "reported" /\ runs[i].phase = "callback" /\ busy' = busy
        BY <1>3, <1>7 DEF RunReported, RunType
    <2>2. QED BY <1>1, <1>4, <2>1 DEF RunInv
<1>8. QED BY <1>5, <1>6, <1>7 DEF RunStep

LEMMA RunInvSubmit ==
    ASSUME TypeOK, RunInv, NEW l \in DOMAIN loops, NEW j \in Jobs, PassSubmits(l, j)
    PROVE  RunInv'
<1>1. /\ insts \in Seq(InstType) /\ runs \in Seq(RunType)
      /\ executors \in [Aliases -> 0..Len(insts)] /\ executors["default"] # None
    BY DEF TypeOK
<1>2. ExecutorOf(j) \in DOMAIN insts /\ insts[ExecutorOf(j)] \in InstType
    <2>1. ExecutorOf(j) \in 0..Len(insts) /\ ExecutorOf(j) # 0
        BY <1>1, AliasAssumption DEF ExecutorOf, None
    <2>2. ExecutorOf(j) \in DOMAIN insts
        BY <1>1, <2>1
    <2>3. QED BY <1>1, <2>2, ElementType
<1>3. insts' = insts /\ busy' = busy \cup {j}
    BY DEF PassSubmits
<1>4. PICK phase \in Submitted(insts[ExecutorOf(j)]) :
          runs' = Append(runs, [job |-> j, inst |-> ExecutorOf(j), phase |-> phase,
                                at |-> insts[ExecutorOf(j)].phase])
    BY DEF PassSubmits
<1>5. /\ Len(runs) + 1 \in DOMAIN runs'
      /\ runs'[Len(runs) + 1] = [job |-> j, inst |-> ExecutorOf(j), phase |-> phase,
                                 at |-> insts[ExecutorOf(j)].phase]
      /\ DOMAIN runs \subseteq DOMAIN runs'
      /\ \A k \in DOMAIN runs' : k # Len(runs) + 1 => k \in DOMAIN runs /\ runs'[k] = runs[k]
      /\ Len(runs) + 1 \notin DOMAIN runs
    BY <1>1, <1>4
<1>6. /\ phase \notin {"callback", "reported", "unreported"}
      /\ phase = "refused" => insts[ExecutorOf(j)].phase # "started"
      /\ phase = "lost" => insts[ExecutorOf(j)].phase # "started"
    BY <1>2, SubmittedType
<1>7. \A k \in busy' : \E i \in DOMAIN runs' :
          runs'[i].job = k /\ runs'[i].phase \notin {"callback", "reported"}
    <2> TAKE k \in busy'
    <2>1. CASE k = j
        BY <1>5, <1>6, <2>1
    <2>2. CASE k # j
        <3>1. PICK i \in DOMAIN runs :
                  runs[i].job = k /\ runs[i].phase \notin {"callback", "reported"}
            BY <1>3, <2>2 DEF RunInv
        <3>2. i \in DOMAIN runs' /\ runs'[i] = runs[i]
            BY <1>5, <3>1
        <3>3. QED BY <3>1, <3>2
    <2>3. QED BY <2>1, <2>2
<1>8. QED BY <1>3, <1>5, <1>6, <1>7 DEF RunInv

LEMMA RunInvNext ==
    ASSUME TypeOK, RunInv, [Next]_vars
    PROVE  RunInv'
<1>1. CASE UNCHANGED <<busy, runs, insts>>
    BY <1>1, RunInvKept DEF InstsGoOn
<1>2. ASSUME NEW l \in DOMAIN loops, LoopStep(l) \/ LoopFails(l)
      PROVE  RunInv'
    <2>1. CASE \E j \in Jobs : PassSubmits(l, j)
        BY <2>1, RunInvSubmit
    <2>2. CASE ~\E j \in Jobs : PassSubmits(l, j)
        <3>1. UNCHANGED <<busy, runs, insts>>
            BY <1>2, <2>2 DEF LoopStep, LoopFails, LoopTop, LoopCollect, InlineReturns,
               LoopScan, LoopClear, PassRejects, workVars
        <3>2. QED BY <1>1, <3>1
    <2>3. QED BY <2>1, <2>2
<1>3. ASSUME NEW c \in Callers, CallBegins(c)
      PROVE  RunInv'
    <2>1. CASE BeginStart(c) \/ BeginShutdown(c) \/ BeginPause(c)
                  \/ \E a \in Aliases : RemoveExecutor(c, a)
        BY <1>1, <2>1
           DEF BeginStart, BeginShutdown, BeginPause, RemoveExecutor, workVars
    <2>2. ASSUME NEW a \in Aliases, AddExecutor(c, a) \/ SetExecutor(c, a)
          PROVE  RunInv'
        BY <2>2, RegisterGoesOn, RunInvKept DEF AddExecutor, SetExecutor, workVars
    <2>3. ASSUME NEW a \in Aliases, BeginUpdate(c, a)
          PROVE  RunInv'
        BY <1>1, <2>3, RunInvShut DEF BeginUpdate
    <2>4. QED BY <1>3, <2>1, <2>2, <2>3 DEF CallBegins
<1>4. ASSUME NEW c \in Callers, CallStep(c)
      PROVE  RunInv'
    <2>1. CASE Resized(c) \/ StartState(c) \/ StartThread(c) \/ Join(c) \/ ShutNext(c)
                  \/ ShutdownDone(c) \/ PauseState(c) \/ RemoveDone(c)
        BY <1>1, <2>1 DEF Resized, StartState, StartThread, Join, ShutNext, ShutdownDone,
           PauseState, RemoveDone, workVars
    <2>2. CASE StartNew(c)
        <3>1. InstsGoOn
            BY <2>2, StartGoesOn DEF StartNew, InstsGoOn
        <3>2. QED BY <2>2, <3>1, RunInvKept DEF StartNew, workVars
    <2>3. CASE UpdateReplaces(c)
        <3>1. InstsGoOn
            BY <2>3, RegisterGoesOn DEF UpdateReplaces, InstsGoOn
        <3>2. QED BY <2>3, <3>1, RunInvKept DEF UpdateReplaces, workVars
    <2>4. CASE RemoveShuts(c)
        BY <2>4, RunInvShut DEF RemoveShuts
    <2>5. ASSUME NEW a \in Aliases, StartEach(c, a)
          PROVE  RunInv'
        BY <2>5, StartGoesOn, RunInvKept DEF StartEach, workVars
    <2>6. ASSUME NEW a \in Aliases, ShutEach(c, a)
          PROVE  RunInv'
        BY <2>6, RunInvShut DEF ShutEach
    <2>7. QED BY <1>4, <2>1, <2>2, <2>3, <2>4, <2>5, <2>6 DEF CallStep
<1>5. ASSUME NEW j \in Jobs, JobDue(j)
      PROVE  RunInv'
    BY <1>1, <1>5 DEF JobDue
<1>6. CASE UNCHANGED vars
    BY <1>1, <1>6 DEF vars, workVars
<1>7. QED BY <1>2, <1>3, <1>4, <1>5, <1>6, RunInvRunStep DEF Next

\* A job whose count stays up without an outstanding run was handed to an
\* executor that was shut down or not started, or lost by one that drops what
\* it has queued (core/executor.py, core/async_executors.py, _on_job_finished).
THEOREM LockedOutByExecutorHolds == Spec => []LockedOutByExecutor
<1>1. Init => RunInv
    BY DEF Init, RunInv
<1>2. TypeOK /\ RunInv /\ [Next]_vars => RunInv'
    BY RunInvNext
<1>3. TypeOK /\ RunInv => LockedOutByExecutor
    <2> SUFFICES ASSUME TypeOK, RunInv PROVE LockedOutByExecutor
        OBVIOUS
    <2>1. \A i \in DOMAIN runs : runs[i].phase \in RunPhases
        BY RunInstance DEF RunType
    <2>2. QED BY <2>1 DEF RunInv, LockedOutByExecutor, RunPhases, Over
<1>4. QED BY <1>1, <1>2, <1>3, TypeCorrect, PTL DEF Spec

-----------------------------------------------------------------------------
(* Loops and lifecycle calls.                                              *)

\* What a step does to the calls: that of c becomes x, the others stay.
LEMMA OneCall ==
    ASSUME TypeOK, NEW c \in Callers, NEW x, calls' = [calls EXCEPT ![c] = x]
    PROVE  calls'[c] = x /\ \A d \in Callers : d # c => calls'[d] = calls[d]
BY DEF TypeOK

LEMMA CallInvOne ==
    ASSUME TypeOK, CallInv, NEW c \in Callers,
           NEW x, calls' = [calls EXCEPT ![c] = x], x.pc \in StepsOf(x.op)
    PROVE  CallInv'
BY OneCall DEF CallInv

LEMMA CallInvMoved ==
    ASSUME TypeOK, CallInv, NEW c \in Callers, NEW pc \in StepsOf(calls[c].op),
           DOMAIN calls' = DOMAIN calls, \A d \in Callers : d # c => calls'[d] = calls[d],
           calls'[c].op = calls[c].op, calls'[c].pc = pc
    PROVE  CallInv'
BY DEF CallInv

LEMMA ReturnIdle ==
    ASSUME TypeOK, CallInv, NEW c \in Callers, Return(c)
    PROVE  CallInv'
BY CallInvOne DEF Return, Idle, StepsOf

LEMMA CallInvNext ==
    ASSUME TypeOK, CallInv, [Next]_vars
    PROVE  CallInv'
<1>1. CASE UNCHANGED calls
    BY <1>1 DEF CallInv
<1>2. ASSUME NEW c \in Callers, CallBegins(c)
      PROVE  CallInv'
    <2>1. PICK x : calls' = [calls EXCEPT ![c] = x] /\ x.pc \in StepsOf(x.op)
        <3>1. CASE BeginStart(c)
            <4> DEFINE r == [Idle EXCEPT !.op = "start", !.pc = "each",
                                         !.size = Cardinality(Registered)]
            <4>1. calls' = [calls EXCEPT ![c] = r]
                BY <3>1 DEF BeginStart, Begin
            <4>2. r.op = "start" /\ r.pc = "each"
                BY DEF Idle
            <4>3. r.pc \in StepsOf(r.op)
                BY <4>2 DEF StepsOf
            <4> HIDE DEF r
            <4>4. QED BY <4>1, <4>3
        <3>2. CASE BeginShutdown(c)
            <4>1. PICK wait \in BOOLEAN : calls' = [calls EXCEPT ![c] =
                      [Idle EXCEPT !.op = "shutdown", !.pc = "join", !.wait = wait]]
                BY <3>2 DEF BeginShutdown, Begin
            <4> DEFINE r == [Idle EXCEPT !.op = "shutdown", !.pc = "join", !.wait = wait]
            <4>2. calls' = [calls EXCEPT ![c] = r]
                BY <4>1
            <4>3. r.op = "shutdown" /\ r.pc = "join"
                BY DEF Idle
            <4>4. r.pc \in StepsOf(r.op)
                BY <4>3 DEF StepsOf
            <4> HIDE DEF r
            <4>5. QED BY <4>2, <4>4
        <3>3. CASE BeginPause(c)
            <4>1. PICK op \in {"pause", "resume"} :
                      calls' = [calls EXCEPT ![c] = [Idle EXCEPT !.op = op, !.pc = "set"]]
                BY <3>3 DEF BeginPause, Begin
            <4> DEFINE r == [Idle EXCEPT !.op = op, !.pc = "set"]
            <4>2. calls' = [calls EXCEPT ![c] = r]
                BY <4>1
            <4>3. r.op = op /\ r.pc = "set"
                BY DEF Idle
            <4>4. r.pc \in StepsOf(r.op)
                BY <4>3 DEF StepsOf
            <4> HIDE DEF r
            <4>5. QED BY <4>2, <4>4
        <3>4. CASE \E a \in Aliases : AddExecutor(c, a) \/ SetExecutor(c, a)
            <4>1. PICK op \in {"add", "set"} :
                      calls' = [calls EXCEPT ![c] = Starting(op)]
                BY <3>4 DEF AddExecutor, SetExecutor, Begin
            <4>2. Starting(op).op = op /\ Starting(op).pc = "starting"
                BY DEF Starting, Idle
            <4>3. QED BY <4>1, <4>2 DEF StepsOf
        <3>5. ASSUME NEW a \in Aliases, BeginUpdate(c, a)
              PROVE  \E x : calls' = [calls EXCEPT ![c] = x] /\ x.pc \in StepsOf(x.op)
            <4>1. PICK kind \in NewKinds : calls' = [calls EXCEPT ![c] =
                      [Idle EXCEPT !.op = "update", !.pc = "drain", !.alias = a,
                                   !.kind = kind, !.inst = executors[a]]]
                BY <3>5 DEF BeginUpdate, Begin
            <4> DEFINE r == [Idle EXCEPT !.op = "update", !.pc = "drain", !.alias = a,
                                         !.kind = kind, !.inst = executors[a]]
            <4>2. calls' = [calls EXCEPT ![c] = r]
                BY <4>1
            <4>3. r.op = "update" /\ r.pc = "drain"
                BY DEF Idle
            <4>4. r.pc \in StepsOf(r.op)
                BY <4>3 DEF StepsOf
            <4> HIDE DEF r
            <4>5. QED BY <4>2, <4>4
        <3>6. ASSUME NEW a \in Aliases, RemoveExecutor(c, a)
              PROVE  \E x : calls' = [calls EXCEPT ![c] = x] /\ x.pc \in StepsOf(x.op)
            <4> DEFINE r == [Idle EXCEPT !.op = "remove", !.pc = "shut",
                                         !.inst = executors[a]]
            <4>1. calls' = [calls EXCEPT ![c] = r]
                BY <3>6 DEF RemoveExecutor, Begin
            <4>2. r.op = "remove" /\ r.pc = "shut"
                BY DEF Idle
            <4>3. r.pc \in StepsOf(r.op)
                BY <4>2 DEF StepsOf
            <4> HIDE DEF r
            <4>4. QED BY <4>1, <4>3
        <3>7. QED BY <1>2, <3>1, <3>2, <3>3, <3>4, <3>5, <3>6 DEF CallBegins
    <2>2. QED BY <2>1, CallInvOne
<1>3. ASSUME NEW c \in Callers, CallStep(c)
      PROVE  CallInv'
    <2>1. CASE Return(c)
        BY <2>1, ReturnIdle
    <2>2. CASE StartState(c) \/ Join(c) \/ ShutNext(c) \/ RemoveShuts(c)
                  \/ \E a \in Aliases : StartEach(c, a) \/ ShutEach(c, a)
        <3>1. /\ calls[c] \in CallType /\ calls \in [Callers -> CallType]
              /\ calls[c].pc \in StepsOf(calls[c].op)
            BY DEF TypeOK, CallInv
        <3>2. PICK pc \in StepsOf(calls[c].op) :
                  /\ calls'[c].op = calls[c].op /\ calls'[c].pc = pc
                  /\ DOMAIN calls' = DOMAIN calls
                  /\ \A d \in Callers : d # c => calls'[d] = calls[d]
            <4>1. CASE StartState(c)
                BY <3>1, <4>1 DEF StartState, EachDone, CallType, StepsOf
            <4>2. CASE Join(c)
                <5>1. calls' = [calls EXCEPT ![c] = [calls[c] EXCEPT
                                   !.pc = "each", !.size = Cardinality(Registered)]]
                    BY <3>1, <4>2 DEF Join
                <5>2. calls'[c].op = calls[c].op /\ calls'[c].pc = "each"
                    BY <3>1, <5>1 DEF CallType
                <5>3. calls[c].pc = "join"
                    BY <4>2 DEF Join
                <5>4. "each" \in StepsOf(calls[c].op)
                    BY <3>1, <5>3 DEF StepsOf, CallType, LifecycleOps, ComponentOps
                <5>5. QED BY <3>1, <5>1, <5>2, <5>4
            <4>3. CASE ShutNext(c)
                <5>1. calls' = [calls EXCEPT ![c] = [calls[c] EXCEPT
                                                        !.pc = "each", !.inst = None]]
                    BY <3>1, <4>3 DEF ShutNext
                <5>2. calls'[c].op = calls[c].op /\ calls'[c].pc = "each"
                    BY <3>1, <5>1 DEF CallType
                <5>3. "each" \in StepsOf(calls[c].op)
                    BY <4>3 DEF ShutNext, StepsOf
                <5>4. QED BY <3>1, <5>1, <5>2, <5>3
            <4>4. CASE RemoveShuts(c)
                <5>1. calls' = [calls EXCEPT ![c].pc = "drain"] /\ calls[c].pc = "shut"
                    BY <4>4 DEF RemoveShuts
                <5>2. calls'[c].op = calls[c].op /\ calls'[c].pc = "drain"
                    BY <3>1, <5>1 DEF CallType
                <5>3. "drain" \in StepsOf(calls[c].op)
                    BY <3>1, <5>1 DEF StepsOf, CallType, LifecycleOps, ComponentOps
                <5>4. QED BY <3>1, <5>1, <5>2, <5>3
            <4>5. CASE \E a \in Aliases : StartEach(c, a)
                BY <3>1, <4>5 DEF StartEach, EachGoesOn, CallType, StepsOf
            <4>6. CASE \E a \in Aliases : ShutEach(c, a)
                BY <3>1, <4>6 DEF ShutEach, EachGoesOn, CallType, StepsOf
            <4>7. QED BY <2>2, <4>1, <4>2, <4>3, <4>4, <4>5, <4>6
        <3>3. QED BY <3>2, CallInvMoved
    <2>3. CASE UpdateReplaces(c) /\ ~Return(c)
        BY <2>3, CallInvOne DEF UpdateReplaces, Starting, Idle, StepsOf
    <2>4. QED BY <1>3, <2>1, <2>2, <2>3 DEF CallStep, Resized, StartThread, ShutdownDone,
              PauseState, StartNew, RemoveDone
<1>4. CASE \E l \in DOMAIN loops : LoopStep(l) \/ LoopFails(l)
    BY <1>1, <1>4 DEF LoopStep, LoopFails, LoopTop, LoopCollect, InlineReturns,
       LoopScan, LoopClear, PassRejects, PassSubmits
<1>5. CASE \E i \in DOMAIN runs : RunStep(i)
    BY <1>1, <1>5 DEF RunStep, RunBegins, RunEnds, RunReported
<1>6. CASE \E j \in Jobs : JobDue(j)
    BY <1>1, <1>6 DEF JobDue
<1>7. CASE UNCHANGED vars
    BY <1>1, <1>7 DEF vars
<1>8. QED BY <1>2, <1>3, <1>4, <1>5, <1>6, <1>7 DEF Next


\* What the steps of an operation are, the other way round.
LEMMA StepTells ==
    ASSUME TypeOK, CallInv, NEW c \in Callers
    PROVE  /\ calls[c].pc = "each" => calls[c].op \in {"start", "shutdown"}
           /\ calls[c].pc = "thread" => calls[c].op = "start"
           /\ calls[c].pc = "join" => calls[c].op = "shutdown"
           /\ calls[c].pc = "starting" => calls[c].op \in ComponentOps
           /\ calls[c].pc = "shut" => calls[c].op = "remove"
           /\ calls[c].op = "none" => calls[c].pc = "idle"
           /\ calls[c].op \in ComponentOps => calls[c].pc # "thread"
<1>1. /\ calls[c].op \in LifecycleOps \cup ComponentOps \cup {"none"}
      /\ calls[c].pc \in StepsOf(calls[c].op)
    BY DEF TypeOK, CallType, CallInv
<1>2. QED BY <1>1 DEF StepsOf, LifecycleOps, ComponentOps

\* The loops, the state and the events are left alone, and the calls differ
\* only in a component call that begins, goes on or returns.
LEMMA LoopInvComponent ==
    ASSUME TypeOK, LoopInv, NEW c \in Callers,
           calls[c].op \in ComponentOps \cup {"none"},
           calls'[c].op \in ComponentOps \cup {"none"},
           calls[c].pc # "thread", calls'[c].pc # "thread",
           \A d \in Callers : d # c => calls'[d] = calls[d],
           UNCHANGED <<state, stop, loops, irregular>>
    PROVE  LoopInv'
<1>1. /\ calls[c].op \notin LifecycleOps /\ calls'[c].op \notin LifecycleOps
      /\ {"start", "shutdown", "pause", "resume"} = LifecycleOps
    BY DEF LifecycleOps, ComponentOps
<1>2. CallsOf(LifecycleOps)' = CallsOf(LifecycleOps)
      /\ CallsOf({"start", "shutdown"})' = CallsOf({"start", "shutdown"})
    BY <1>1 DEF CallsOf
<1>3. \A d \in Callers : d # c => calls'[d] = calls[d]
    OBVIOUS
<1>4. Clean' = Clean /\ StartStopAlone' = StartStopAlone
    BY <1>2 DEF Clean, StartStopAlone
<1>5. OnlyLastLives => OnlyLastLives'
    BY <1>1, <1>3 DEF OnlyLastLives, Live
<1>6. StoppedInBetween => StoppedInBetween'
    BY <1>1, <1>3 DEF StoppedInBetween
<1>7. LivesUnlessStopped => LivesUnlessStopped'
    BY <1>1, <1>3 DEF LivesUnlessStopped, Live
<1>8. QED BY <1>4, <1>5, <1>6, <1>7 DEF LoopInv

\* A step of a loop: it ends only when it saw the stop event.
LEMMA LoopInvLoop ==
    ASSUME TypeOK, LoopInv, NEW l \in DOMAIN loops, Live(l),
           DOMAIN loops' = DOMAIN loops, Len(loops') = Len(loops),
           \A k \in DOMAIN loops : k # l => loops'[k] = loops[k],
           loops'[l].pc \in {"ended", "failed"} =>
               stop \/ ~(irregular' \subseteq {"no wait"}),
           irregular' \in {irregular, irregular \cup {"failed"}},
           loops' \in Seq(LoopType), UNCHANGED <<state, stop, calls>>
    PROVE  LoopInv'
<1>1. loops \in Seq(LoopType)
    BY DEF TypeOK
<1>2. Len(loops) \in Nat /\ DOMAIN loops = 1..Len(loops)
    BY <1>1, Length
<1>4. \A k \in DOMAIN loops : Live(k)' => Live(k)
    BY DEF Live
<1>5. (Clean' => Clean) /\ (StartStopAlone => StartStopAlone')
    BY DEF Clean, StartStopAlone, CallsOf
<1>6. OnlyLastLives => OnlyLastLives'
    BY <1>4 DEF OnlyLastLives
<1>7. StoppedInBetween => StoppedInBetween'
    BY DEF StoppedInBetween
<1>8. LivesUnlessStopped => LivesUnlessStopped'
    <2>1. CASE Len(loops) > 0 /\ Live(Len(loops)) /\ ~stop
        <3>1. Len(loops) \in DOMAIN loops
            BY <1>1, <2>1, LastIndex
        <3>2. ~(irregular' \subseteq {"no wait"}) \/ Live(Len(loops))'
            BY <2>1, <3>1 DEF Live
        <3>3. QED BY <2>1, <3>2 DEF LivesUnlessStopped
    <2>2. CASE ~(irregular \subseteq {"no wait"})
        BY <2>2 DEF LivesUnlessStopped
    <2>3. QED BY <2>1, <2>2 DEF LivesUnlessStopped
<1>9. QED BY <1>5, <1>6, <1>7, <1>8 DEF LoopInv


\* Every step of a loop is one of those (_main_loop, _process_due).
LEMMA LoopInvLoopStep ==
    ASSUME TypeOK, LoopInv, NEW l \in DOMAIN loops, LoopStep(l) \/ LoopFails(l)
    PROVE  LoopInv'
<1>1. loops \in Seq(LoopType) /\ loops[l] \in LoopType
    BY ElementType DEF TypeOK
<1>2. Live(l) /\ UNCHANGED <<state, stop, calls>>
    BY DEF Live, LoopStep, LoopFails, LoopTop, LoopCollect, InlineReturns, LoopScan,
       LoopClear, PassRejects, PassSubmits
<1>3. irregular' = IF LoopFails(l) THEN irregular \cup {"failed"} ELSE irregular
    BY DEF LoopStep, LoopFails, LoopTop, LoopCollect, InlineReturns, LoopScan,
       LoopClear, PassRejects, PassSubmits
<1>4. PICK x : /\ loops' = [loops EXCEPT ![l] = x]
               /\ x.pc \in {"ended", "failed"} =>
                     stop \/ ~(irregular' \subseteq {"no wait"})
    <2>1. CASE LoopTop(l)
        <3>1. PICK pc \in {"ended", "collect", "scan"} :
                  loops' = [loops EXCEPT ![l].pc = pc] /\ (pc = "ended" => stop)
            BY <2>1 DEF LoopTop, Goto
        <3>2. loops' = [loops EXCEPT ![l] = [loops[l] EXCEPT !.pc = pc]]
            BY <3>1
        <3>3. [loops[l] EXCEPT !.pc = pc].pc = pc
            BY <1>1 DEF LoopType
        <3>4. QED BY <3>1, <3>2, <3>3
    <2>2. CASE LoopCollect(l) \/ InlineReturns(l) \/ \E j \in Jobs : PassRejects(l, j)
        <3>1. PICK S : loops' = [loops EXCEPT ![l] = InPass(S)]
            BY <2>2 DEF LoopCollect, InlineReturns, PassRejects
        <3>2. InPass(S).pc \in {"scan", "pass"}
            BY DEF InPass
        <3>3. QED BY <3>1, <3>2
    <2>3. CASE LoopScan(l) \/ LoopClear(l)
        <3>1. PICK pc \in {"clear", "wait"} : loops' = [loops EXCEPT ![l].pc = pc]
            BY <2>3 DEF LoopScan, LoopClear, Goto
        <3>2. loops' = [loops EXCEPT ![l] = [loops[l] EXCEPT !.pc = pc]]
            BY <3>1
        <3>3. [loops[l] EXCEPT !.pc = pc].pc = pc
            BY <1>1 DEF LoopType
        <3>4. QED BY <3>1, <3>2, <3>3
    <2>4. CASE LoopFails(l)
        <3>1. loops' = [loops EXCEPT ![l] = [loops[l] EXCEPT !.pc = "failed"]]
            BY <2>4 DEF LoopFails, Goto
        <3>2. ~(irregular' \subseteq {"no wait"})
            BY <1>3, <2>4
        <3>3. QED BY <3>1, <3>2
    <2>5. ASSUME NEW j \in Jobs, PassSubmits(l, j)
          PROVE  \E x : /\ loops' = [loops EXCEPT ![l] = x]
                        /\ x.pc \notin {"ended", "failed"}
        <3> DEFINE inline == [pc |-> "inline", picked |-> loops[l].picked \ {j},
                              run |-> Len(runs) + 1]
        <3>1. PICK x \in {InPass({}), InPass(loops[l].picked \ {j}), inline} :
                  loops' = [loops EXCEPT ![l] = x]
            BY <2>5 DEF PassSubmits
        <3>2. \A S : InPass(S).pc \notin {"ended", "failed"}
            BY DEF InPass
        <3>3. inline.pc \notin {"ended", "failed"}
            OBVIOUS
        <3>4. x.pc \notin {"ended", "failed"}
            <4> HIDE DEF inline
            <4>1. QED BY <3>1, <3>2, <3>3
        <3>5. QED BY <3>1, <3>4
    <2>6. QED BY <2>1, <2>2, <2>3, <2>4, <2>5 DEF LoopStep
<1>5. loops' \in Seq(LoopType)
    BY TypeLoopStep DEF TypeOK
<1>6. /\ DOMAIN loops' = DOMAIN loops /\ Len(loops') = Len(loops)
      /\ \A k \in DOMAIN loops : k # l => loops'[k] = loops[k]
      /\ loops'[l] = x
    <2>1. DOMAIN loops' = DOMAIN loops /\ loops'[l] = x
        BY <1>4
    <2>2. x \in LoopType
        BY <1>5, <2>1, ElementType
    <2>3. Len(loops') = Len(loops)
        BY <1>1, <1>4, <2>2, ElementType, ExceptSeq
    <2>4. QED BY <1>4, <2>1, <2>3
<1>7. QED BY <1>2, <1>3, <1>4, <1>5, <1>6, LoopInvLoop


\* A call of start, shutdown, pause or resume begins: alone, or not clean.
LEMMA LoopInvBegins ==
    ASSUME TypeOK, CallInv, LoopInv, NEW c \in Callers,
           BeginStart(c) \/ BeginShutdown(c) \/ BeginPause(c)
    PROVE  LoopInv'
<1>1. PICK op, x :
        /\ op \in LifecycleOps
        /\ Begin(c, op, x) /\ x.op = op
        /\ op \notin {"start"} => state # "stopped"
        /\ op = "start" => state = "stopped" /\ stop' = stop
        /\ op = "shutdown" => x.pc = "join"
        /\ op # "shutdown" => stop' = stop
        /\ x.pc # "thread"
    <2>1. CASE BeginStart(c)
        <3> DEFINE r == [Idle EXCEPT !.op = "start", !.pc = "each",
                                     !.size = Cardinality(Registered)]
        <3>1. Begin(c, "start", r) /\ state = "stopped" /\ stop' = stop
            BY <2>1 DEF BeginStart, MayStart, schedVars
        <3>2. r.op = "start" /\ r.pc = "each"
            BY DEF Idle
        <3> HIDE DEF r
        <3>3. QED BY <3>1, <3>2 DEF LifecycleOps
    <2>2. CASE BeginShutdown(c)
        <3>1. PICK wait \in BOOLEAN : Begin(c, "shutdown",
                  [Idle EXCEPT !.op = "shutdown", !.pc = "join", !.wait = wait])
            BY <2>2 DEF BeginShutdown
        <3> DEFINE r == [Idle EXCEPT !.op = "shutdown", !.pc = "join", !.wait = wait]
        <3>2. Begin(c, "shutdown", r) /\ state # "stopped"
            BY <2>2, <3>1 DEF BeginShutdown
        <3>3. r.op = "shutdown" /\ r.pc = "join"
            BY DEF Idle
        <3> HIDE DEF r
        <3>4. QED BY <3>2, <3>3 DEF LifecycleOps
    <2>3. CASE BeginPause(c)
        <3>1. PICK op \in {"pause", "resume"} :
                  Begin(c, op, [Idle EXCEPT !.op = op, !.pc = "set"])
            BY <2>3 DEF BeginPause
        <3> DEFINE r == [Idle EXCEPT !.op = op, !.pc = "set"]
        <3>2. Begin(c, op, r) /\ state # "stopped" /\ stop' = stop
            BY <2>3, <3>1 DEF BeginPause, schedVars
        <3>3. r.op = op /\ r.pc = "set"
            BY DEF Idle
        <3> HIDE DEF r
        <3>4. QED BY <3>2, <3>3 DEF LifecycleOps
    <2>4. QED BY <2>1, <2>2, <2>3
<1>2. UNCHANGED <<state, loops>>
    BY DEF BeginStart, BeginShutdown, BeginPause, schedVars
<1>3. /\ calls'[c] = x /\ calls[c].op = "none"
      /\ \A d \in Callers : d # c => calls'[d] = calls[d]
      /\ irregular' = irregular \cup Overlap(op)
    BY <1>1, OneCall DEF Begin
<1>4. SUFFICES ASSUME Clean' PROVE LoopInv'
    BY DEF LoopInv
<1>5. Clean /\ Overlap(op) = {} /\ irregular' = irregular
    BY <1>3, <1>4 DEF Clean, Overlap
<1>6. /\ op \in {"start", "shutdown"} => CallsOf(LifecycleOps) = {}
      /\ CallsOf({"start", "shutdown"}) = {}
    BY <1>1, <1>5 DEF Overlap
<1>7. StartStopAlone /\ OnlyLastLives /\ StoppedInBetween /\ LivesUnlessStopped
    BY <1>5 DEF LoopInv
<1>8. StartStopAlone'
    BY <1>1, <1>3, <1>6 DEF StartStopAlone, CallsOf
<1>9. OnlyLastLives'
    BY <1>1, <1>2, <1>3, <1>7 DEF OnlyLastLives, Live
<1>10. StoppedInBetween'
    BY <1>1, <1>2, <1>3, <1>7 DEF StoppedInBetween
<1>11. LivesUnlessStopped'
    <2>1. CASE op = "shutdown"
        BY <1>1, <1>3, <2>1 DEF LivesUnlessStopped
    <2>2. CASE op # "shutdown"
        <3>1. calls[c].pc # "thread"
            BY <1>3, StepTells
        <3>2. QED BY <1>1, <1>2, <1>3, <1>5, <1>7, <2>2, <3>1
                  DEF LivesUnlessStopped, Live
    <2>3. QED BY <2>1, <2>2
<1>12. QED BY <1>8, <1>9, <1>10, <1>11 DEF LoopInv

\* The later steps of start.
LEMMA LoopInvStart ==
    ASSUME TypeOK, CallInv, LoopInv, NEW c \in Callers,
           StartState(c) \/ StartThread(c) \/ \E a \in Aliases : StartEach(c, a)
    PROVE  LoopInv'
<1>1. loops \in Seq(LoopType) /\ calls[c] \in CallType /\ DOMAIN calls = Callers
    BY DEF TypeOK
<1>2. calls[c].op = "start" /\ irregular' = irregular
    BY StepTells DEF StartState, StartThread, StartEach
<1>3. SUFFICES ASSUME Clean' PROVE LoopInv'
    BY DEF LoopInv
<1>4. StartStopAlone /\ OnlyLastLives /\ StoppedInBetween /\ LivesUnlessStopped
    BY <1>2, <1>3 DEF LoopInv, Clean
<1>5. \A l \in DOMAIN loops : ~Live(l)
    BY <1>2, <1>4 DEF OnlyLastLives
<1>6. \A d \in Callers : d # c => calls[d].op \notin LifecycleOps
    BY <1>2, <1>4 DEF StartStopAlone, CallsOf
<1>7. \A d \in Callers : d # c => calls'[d] = calls[d]
    BY DEF StartState, StartThread, StartEach, Return, TypeOK
<1>8. CASE StartThread(c)
    <2>1. loops' = Append(loops, Loop) /\ ~stop' /\ state' = state
            /\ calls[c].pc = "thread"
        BY <1>8 DEF StartThread
    <2>2. calls'[c] = Idle
        BY <1>8, OneCall DEF StartThread, Return
    <2>3. \A l \in DOMAIN loops' : Live(l)' => l = Len(loops')
        <3>1. SUFFICES ASSUME NEW l \in DOMAIN loops', l # Len(loops')
                       PROVE  ~Live(l)'
            OBVIOUS
        <3>2. l \in 1..(Len(loops) + 1) /\ l # Len(loops) + 1 /\ Len(loops) \in Nat
            BY <1>1, <2>1, <3>1, Appended, Length
        <3>3. l \in 1..Len(loops)
            BY <3>2
        <3>4. l \in DOMAIN loops /\ loops'[l] = loops[l]
            BY <1>1, <2>1, <3>3, Appended
        <3>5. QED BY <1>5, <3>4 DEF Live
    <2>4. Len(loops') > 0 /\ Live(Len(loops))'
        <3>1. Len(loops') = Len(loops) + 1 /\ Len(loops) \in Nat
                /\ loops'[Len(loops) + 1] = Loop
            BY <1>1, <2>1, Appended, Length
        <3>2. loops'[Len(loops')].pc = "top"
            BY <3>1 DEF Loop
        <3>3. QED BY <3>1, <3>2 DEF Live
    <2>5. \A d \in Callers : calls'[d].op \notin LifecycleOps
        BY <1>6, <1>7, <2>2 DEF Idle, LifecycleOps
    <2>6. \A d \in Callers : calls'[d].pc # "thread"
        <3>1. \A d \in Callers : calls[d].pc = "thread" => calls[d].op \in LifecycleOps
            BY StepTells DEF LifecycleOps
        <3>2. QED BY <1>6, <1>7, <2>2, <3>1 DEF Idle
    <2>7. state' # "stopped"
        BY <1>4, <2>1 DEF StoppedInBetween
    <2>8. StartStopAlone'
        BY <2>5 DEF StartStopAlone, CallsOf
    <2>9. OnlyLastLives'
        BY <2>3, <2>5, <2>7 DEF OnlyLastLives, LifecycleOps
    <2>10. StoppedInBetween' /\ LivesUnlessStopped'
        BY <2>1, <2>4, <2>7 DEF StoppedInBetween, LivesUnlessStopped
    <2>11. QED BY <2>8, <2>9, <2>10 DEF LoopInv
<1>9. CASE StartState(c)
    <2>1. loops' = loops /\ stop' = stop /\ state' # "stopped"
        BY <1>9 DEF StartState
    <2>2. calls' = [calls EXCEPT ![c] = [calls[c] EXCEPT !.pc = "thread"]]
        BY <1>9 DEF StartState
    <2>3. calls'[c].op = "start" /\ calls'[c].pc = "thread"
        BY <1>1, <1>2, <2>2 DEF CallType
    <2>4. StartStopAlone'
        BY <1>6, <1>7 DEF StartStopAlone, CallsOf, LifecycleOps
    <2>5. OnlyLastLives'
        BY <1>5, <2>1 DEF OnlyLastLives, Live
    <2>6. StoppedInBetween' /\ LivesUnlessStopped'
        BY <2>1, <2>3 DEF StoppedInBetween, LivesUnlessStopped
    <2>7. QED BY <2>4, <2>5, <2>6 DEF LoopInv
<1>10. ASSUME NEW a \in Aliases, StartEach(c, a)
       PROVE  LoopInv'
    <2>1. loops' = loops /\ stop' = stop /\ state' = state /\ calls[c].pc = "each"
        BY <1>10 DEF StartEach, EachGoesOn, schedVars
    <2>2. calls' = [calls EXCEPT ![c] = [calls[c] EXCEPT !.seen = @ \cup {a}]]
        BY <1>10 DEF StartEach
    <2>3. calls'[c].op = "start" /\ calls'[c].pc = "each"
        BY <1>1, <1>2, <2>1, <2>2 DEF CallType
    <2>4. StartStopAlone'
        BY <1>6, <1>7 DEF StartStopAlone, CallsOf, LifecycleOps
    <2>5. OnlyLastLives'
        BY <1>5, <2>1 DEF OnlyLastLives, Live
    <2>6. StoppedInBetween'
        BY <1>4, <1>7, <2>1, <2>3 DEF StoppedInBetween
    <2>7. LivesUnlessStopped'
        BY <1>2, <1>4, <1>7, <1>2, <2>1 DEF LivesUnlessStopped, Live
    <2>8. QED BY <2>4, <2>5, <2>6, <2>7 DEF LoopInv
<1>11. QED BY <1>8, <1>9, <1>10

\* A shutdown goes on, with no loop alive.
LEMMA LoopInvShutGoesOn ==
    ASSUME TypeOK, LoopInv, NEW c \in Callers,
           calls[c].op = "shutdown", calls'[c].op = "shutdown",
           calls'[c].pc # "thread",
           \A d \in Callers : d # c => calls'[d] = calls[d],
           irregular \subseteq irregular', UNCHANGED <<state, stop, loops>>,
           Clean' => \A l \in DOMAIN loops : ~Live(l)
    PROVE  LoopInv'
<1>1. SUFFICES ASSUME Clean' PROVE LoopInv'
    BY DEF LoopInv
<1>2. StartStopAlone /\ StoppedInBetween
    BY <1>1 DEF LoopInv, Clean
<1>3. StartStopAlone'
    BY <1>2 DEF StartStopAlone, CallsOf
<1>4. OnlyLastLives'
    BY <1>1 DEF OnlyLastLives, Live
<1>5. StoppedInBetween'
    BY <1>2 DEF StoppedInBetween
<1>6. LivesUnlessStopped'
    BY DEF LivesUnlessStopped
<1>7. QED BY <1>3, <1>4, <1>5, <1>6 DEF LoopInv

\* The later steps of shutdown: a join that gave up is not clean.
LEMMA LoopInvShutdown ==
    ASSUME TypeOK, CallInv, LoopInv, NEW c \in Callers,
           Join(c) \/ ShutNext(c) \/ ShutdownDone(c) \/ \E a \in Aliases : ShutEach(c, a)
    PROVE  LoopInv'
<1>1. loops \in Seq(LoopType) /\ calls[c] \in CallType /\ DOMAIN calls = Callers
    BY DEF TypeOK
<1>2. calls[c].op = "shutdown" /\ irregular \subseteq irregular' /\ UNCHANGED <<stop, loops>>
    BY StepTells DEF Join, ShutNext, ShutdownDone, ShutEach, schedVars
<1>3. \A d \in Callers : d # c => calls'[d] = calls[d]
    BY DEF Join, ShutNext, ShutdownDone, ShutEach, Return, TypeOK
<1>4. Clean' /\ calls[c].pc # "join" => \A l \in DOMAIN loops : ~Live(l)
    BY <1>2 DEF LoopInv, Clean, OnlyLastLives
<1>5. CASE Join(c)
    <2>1. calls' = [calls EXCEPT ![c] = [calls[c] EXCEPT
                       !.pc = "each", !.size = Cardinality(Registered)]]
        BY <1>5 DEF Join
    <2>2. calls'[c].op = "shutdown" /\ calls'[c].pc # "thread"
        BY <1>1, <1>2, <2>1 DEF CallType
    <2>3. Clean' => \A l \in DOMAIN loops : ~Live(l)
        <3>1. SUFFICES ASSUME Clean', NEW l \in DOMAIN loops, Live(l) PROVE FALSE
            OBVIOUS
        <3>2. l = Len(loops)
            BY <1>2, <3>1 DEF LoopInv, Clean, OnlyLastLives
        <3>3. loops # <<>>
            BY <3>1
        <3>4. "abandoned" \in irregular'
            BY <1>5, <3>1, <3>2, <3>3 DEF Join
        <3>5. QED BY <3>1, <3>4 DEF Clean
    <2>4. state' = state
        BY <1>5 DEF Join, schedVars
    <2>5. QED BY <1>2, <1>3, <2>2, <2>3, <2>4, LoopInvShutGoesOn
<1>6. CASE ShutNext(c)
    <2>1. calls' = [calls EXCEPT ![c] = [calls[c] EXCEPT !.pc = "each", !.inst = None]]
        BY <1>6 DEF ShutNext
    <2>2. calls'[c].op = "shutdown" /\ calls'[c].pc # "thread"
        BY <1>1, <1>2, <2>1 DEF CallType
    <2>3. state' = state /\ calls[c].pc = "drain"
        BY <1>6 DEF ShutNext, schedVars
    <2>4. QED BY <1>2, <1>3, <1>4, <2>2, <2>3, LoopInvShutGoesOn
<1>7. ASSUME NEW a \in Aliases, ShutEach(c, a)
      PROVE  LoopInv'
    <2>1. calls' = [calls EXCEPT ![c] = [calls[c] EXCEPT
                       !.seen = @ \cup {a}, !.inst = executors[a], !.pc = "drain"]]
        BY <1>7 DEF ShutEach
    <2>2. calls'[c].op = "shutdown" /\ calls'[c].pc # "thread"
        BY <1>1, <1>2, <2>1 DEF CallType
    <2>3. state' = state /\ calls[c].pc = "each"
        BY <1>7 DEF ShutEach, EachGoesOn, schedVars
    <2>4. QED BY <1>2, <1>3, <1>4, <2>2, <2>3, LoopInvShutGoesOn
<1>8. CASE ShutdownDone(c)
    <2>1. state' = "stopped" /\ calls[c].pc = "each"
        BY <1>8 DEF ShutdownDone, ShutdownState, EachDone
    <2>2. calls'[c] = Idle
        BY <1>8, OneCall DEF ShutdownDone, Return
    <2>3. SUFFICES ASSUME Clean' PROVE LoopInv'
        BY DEF LoopInv
    <2>4. \A d \in Callers : d # c => calls[d].op \notin LifecycleOps
        <3>1. StartStopAlone
            BY <1>2, <2>3 DEF LoopInv, Clean
        <3>2. QED BY <1>2, <3>1 DEF StartStopAlone, CallsOf
    <2>5. \A d \in Callers : calls'[d].op \notin LifecycleOps
        BY <1>3, <2>2, <2>4 DEF Idle, LifecycleOps
    <2>6. \A d \in Callers : calls'[d].pc # "thread"
        <3>1. \A d \in Callers : calls[d].pc = "thread" => calls[d].op \in LifecycleOps
            BY StepTells DEF LifecycleOps
        <3>2. QED BY <1>3, <2>2, <2>4, <3>1 DEF Idle
    <2>7. StartStopAlone'
        BY <2>5 DEF StartStopAlone, CallsOf
    <2>8. OnlyLastLives'
        BY <1>2, <1>4, <2>1, <2>3 DEF OnlyLastLives, Live
    <2>9. StoppedInBetween'
        BY <2>5, <2>6 DEF StoppedInBetween, LifecycleOps
    <2>10. LivesUnlessStopped'
        BY <2>1 DEF LivesUnlessStopped
    <2>11. QED BY <2>7, <2>8, <2>9, <2>10 DEF LoopInv
<1>9. QED BY <1>5, <1>6, <1>7, <1>8

\* start and shutdown cut short by a change of the executors.
LEMMA LoopInvResized ==
    ASSUME TypeOK, CallInv, LoopInv, NEW c \in Callers, Resized(c)
    PROVE  LoopInv'
<1>1. /\ UNCHANGED <<state, stop, loops>>
      /\ irregular' = irregular \cup {"resized"}
    BY DEF Resized, schedVars
<1>2. calls'[c] = Idle /\ \A d \in Callers : d # c => calls'[d] = calls[d]
    BY OneCall DEF Resized, Return
<1>3. SUFFICES ASSUME Clean' PROVE LoopInv'
    BY DEF LoopInv
<1>4. StartStopAlone /\ OnlyLastLives /\ StoppedInBetween
    BY <1>1, <1>3 DEF LoopInv, Clean
<1>5. Idle.op = "none" /\ Idle.pc = "idle"
    BY DEF Idle
<1>6. StartStopAlone'
    BY <1>2, <1>4, <1>5 DEF StartStopAlone, CallsOf, LifecycleOps
<1>7. OnlyLastLives'
    BY <1>1, <1>2, <1>4, <1>5 DEF OnlyLastLives, Live
<1>8. StoppedInBetween'
    BY <1>1, <1>2, <1>4, <1>5 DEF StoppedInBetween
<1>9. LivesUnlessStopped'
    BY <1>1 DEF LivesUnlessStopped
<1>10. QED BY <1>6, <1>7, <1>8, <1>9 DEF LoopInv

\* pause and resume: the state was not "stopped" and is not.
LEMMA LoopInvPause ==
    ASSUME TypeOK, CallInv, LoopInv, NEW c \in Callers, PauseState(c)
    PROVE  LoopInv'
<1>1. UNCHANGED <<stop, loops, irregular>> /\ state' # "stopped"
    BY DEF PauseState
<1>2. calls'[c] = Idle /\ \A d \in Callers : d # c => calls'[d] = calls[d]
    BY OneCall DEF PauseState, Return
<1>3. SUFFICES ASSUME Clean' PROVE LoopInv'
    BY DEF LoopInv
<1>4. StartStopAlone /\ OnlyLastLives /\ StoppedInBetween /\ LivesUnlessStopped
    BY <1>1, <1>3 DEF LoopInv, Clean
<1>5. Idle.op = "none" /\ Idle.pc = "idle"
    BY DEF Idle
<1>6. calls[c].op \in {"pause", "resume"} /\ calls[c].pc # "thread"
    BY StepTells DEF PauseState
<1>7. StartStopAlone'
    BY <1>2, <1>4, <1>5 DEF StartStopAlone, CallsOf, LifecycleOps
<1>8. OnlyLastLives'
    BY <1>1, <1>2, <1>4, <1>5 DEF OnlyLastLives, Live
<1>9. StoppedInBetween'
    BY <1>1 DEF StoppedInBetween
<1>10. LivesUnlessStopped'
    <2>1. state # "stopped"
        BY <1>4, <1>6 DEF StoppedInBetween
    <2>2. CASE \E d \in Callers : calls[d].pc = "thread" \/ calls[d].op = "shutdown"
        BY <1>2, <1>6, <2>2 DEF LivesUnlessStopped
    <2>3. CASE ~\E d \in Callers : calls[d].pc = "thread" \/ calls[d].op = "shutdown"
        BY <1>1, <1>4, <2>1, <2>3 DEF LivesUnlessStopped, Live
    <2>4. QED BY <2>2, <2>3
<1>11. QED BY <1>7, <1>8, <1>9, <1>10 DEF LoopInv

\* The component calls.
LEMMA LoopInvComponentBegins ==
    ASSUME TypeOK, CallInv, LoopInv, NEW c \in Callers, NEW a \in Aliases,
           AddExecutor(c, a) \/ SetExecutor(c, a) \/ BeginUpdate(c, a) \/ RemoveExecutor(c, a)
    PROVE  LoopInv'
<1>1. UNCHANGED <<state, stop, loops>>
    BY DEF AddExecutor, SetExecutor, BeginUpdate, RemoveExecutor, schedVars
<1>2. PICK op, x :
          op \in ComponentOps /\ Begin(c, op, x) /\ x.op = op /\ x.pc # "thread"
    <2>1. CASE AddExecutor(c, a) \/ SetExecutor(c, a)
        <3>1. PICK op \in {"add", "set"} : Begin(c, op, Starting(op))
            BY <2>1 DEF AddExecutor, SetExecutor
        <3>2. Starting(op).op = op /\ Starting(op).pc = "starting"
            BY DEF Starting, Idle
        <3>3. QED BY <3>1, <3>2 DEF ComponentOps
    <2>2. CASE BeginUpdate(c, a)
        <3>1. PICK kind \in NewKinds : Begin(c, "update",
                  [Idle EXCEPT !.op = "update", !.pc = "drain", !.alias = a,
                               !.kind = kind, !.inst = executors[a]])
            BY <2>2 DEF BeginUpdate
        <3> DEFINE r == [Idle EXCEPT !.op = "update", !.pc = "drain", !.alias = a,
                                     !.kind = kind, !.inst = executors[a]]
        <3>2. Begin(c, "update", r)
            BY <3>1
        <3>3. r.op = "update" /\ r.pc = "drain"
            BY DEF Idle
        <3> HIDE DEF r
        <3>4. QED BY <3>2, <3>3 DEF ComponentOps
    <2>3. CASE RemoveExecutor(c, a)
        <3> DEFINE r == [Idle EXCEPT !.op = "remove", !.pc = "shut", !.inst = executors[a]]
        <3>1. Begin(c, "remove", r)
            BY <2>3 DEF RemoveExecutor
        <3>2. r.op = "remove" /\ r.pc = "shut"
            BY DEF Idle
        <3> HIDE DEF r
        <3>3. QED BY <3>1, <3>2 DEF ComponentOps
    <2>4. QED BY <2>1, <2>2, <2>3
<1>3. /\ calls[c].op = "none" /\ calls'[c] = x
      /\ \A d \in Callers : d # c => calls'[d] = calls[d]
      /\ irregular' = irregular \cup Overlap(op)
    BY <1>2, OneCall DEF Begin
<1>4. Overlap(op) = {}
    BY <1>2 DEF Overlap, ComponentOps, LifecycleOps
<1>5. calls[c].pc # "thread"
    BY <1>3, StepTells
<1>6. QED BY <1>1, <1>2, <1>3, <1>4, <1>5, LoopInvComponent

LEMMA LoopInvComponentStep ==
    ASSUME TypeOK, CallInv, LoopInv, NEW c \in Callers,
           StartNew(c) \/ UpdateReplaces(c) \/ RemoveShuts(c) \/ RemoveDone(c)
    PROVE  LoopInv'
<1>1. UNCHANGED <<state, stop, loops, irregular>>
    BY DEF StartNew, UpdateReplaces, RemoveShuts, RemoveDone, schedVars
<1>2. calls[c].op \in ComponentOps /\ calls[c] \in CallType
    BY StepTells DEF StartNew, UpdateReplaces, RemoveShuts, RemoveDone, ComponentOps, TypeOK
<1>3. calls[c].pc # "thread"
    BY <1>2, StepTells
<1>4. PICK x : /\ calls' = [calls EXCEPT ![c] = x]
               /\ x.op \in ComponentOps \cup {"none"} /\ x.pc # "thread"
    <2>1. CASE Return(c)
        <3>1. Idle.op = "none" /\ Idle.pc = "idle"
            BY DEF Idle
        <3>2. QED BY <2>1, <3>1 DEF Return
    <2>2. CASE calls' = [calls EXCEPT ![c] = Starting("update")]
        <3>1. Starting("update").op = "update" /\ Starting("update").pc = "starting"
            BY DEF Starting, Idle
        <3>2. QED BY <2>2, <3>1 DEF ComponentOps
    <2>3. CASE RemoveShuts(c)
        <3> DEFINE r == [calls[c] EXCEPT !.pc = "drain"]
        <3>1. calls' = [calls EXCEPT ![c] = r]
            BY <2>3 DEF RemoveShuts
        <3>2. r.op = calls[c].op /\ r.pc = "drain"
            BY <1>2 DEF CallType
        <3> HIDE DEF r
        <3>3. QED BY <1>2, <3>1, <3>2
    <2>4. QED BY <2>1, <2>2, <2>3 DEF StartNew, UpdateReplaces, RemoveDone
<1>5. calls'[c] = x /\ \A d \in Callers : d # c => calls'[d] = calls[d]
    BY <1>4, OneCall
<1>6. QED BY <1>1, <1>2, <1>3, <1>4, <1>5, LoopInvComponent

LEMMA LoopInvNext ==
    ASSUME TypeOK, CallInv, LoopInv, [Next]_vars
    PROVE  LoopInv'
<1>1. CASE UNCHANGED <<state, stop, loops, calls, irregular>>
    BY <1>1 DEF LoopInv, Clean, StartStopAlone, OnlyLastLives, StoppedInBetween,
       LivesUnlessStopped, Live, CallsOf
<1>2. CASE \E l \in DOMAIN loops : LoopStep(l) \/ LoopFails(l)
    BY <1>2, LoopInvLoopStep
<1>3. CASE \E i \in DOMAIN runs : RunStep(i)
    BY <1>1, <1>3 DEF RunStep, RunBegins, RunEnds, RunReported, schedVars
<1>4. ASSUME NEW c \in Callers, CallBegins(c)
      PROVE  LoopInv'
    BY <1>4, LoopInvBegins, LoopInvComponentBegins DEF CallBegins
<1>5. ASSUME NEW c \in Callers, CallStep(c)
      PROVE  LoopInv'
    BY <1>5, LoopInvStart, LoopInvShutdown, LoopInvResized, LoopInvPause,
       LoopInvComponentStep DEF CallStep
<1>6. CASE \E j \in Jobs : JobDue(j)
    BY <1>1, <1>6 DEF JobDue, schedVars
<1>7. CASE UNCHANGED vars
    BY <1>1, <1>7 DEF vars, schedVars
<1>8. QED BY <1>2, <1>3, <1>4, <1>5, <1>6, <1>7 DEF Next

LEMMA LoopInvHolds == Spec => [](CallInv /\ LoopInv)
<1>1. Init => CallInv /\ LoopInv
    <2> SUFFICES ASSUME Init PROVE CallInv /\ LoopInv
        OBVIOUS
    <2>1. \A c \in Callers : calls[c].op = "none" /\ calls[c].pc = "idle"
        BY DEF Init, Idle
    <2>2. CallInv
        BY <2>1 DEF CallInv, StepsOf
    <2>3. StartStopAlone /\ StoppedInBetween
        BY <2>1 DEF StartStopAlone, StoppedInBetween, CallsOf
    <2>4. OnlyLastLives /\ LivesUnlessStopped
        BY DEF Init, OnlyLastLives, LivesUnlessStopped
    <2>5. QED BY <2>2, <2>3, <2>4 DEF LoopInv
<1>2. TypeOK /\ CallInv /\ LoopInv /\ [Next]_vars => (CallInv /\ LoopInv)'
    BY CallInvNext, LoopInvNext
<1>3. QED BY <1>1, <1>2, TypeCorrect, PTL DEF Spec

\* Two main loops are alive at once only after a join that gave up, or when
\* start met another lifecycle call (start, shutdown, _main_loop).
THEOREM OneLoopHolds == Spec => []OneLoop
<1>1. TypeOK /\ LoopInv => OneLoop
    <2>1. SUFFICES ASSUME TypeOK, LoopInv, Clean PROVE Cardinality(LiveLoops) <= 1
        BY DEF OneLoop
    <2>2. LiveLoops \subseteq {Len(loops)}
        BY <2>1 DEF LoopInv, OnlyLastLives, LiveLoops
    <2>3. IsFiniteSet({Len(loops)}) /\ Cardinality({Len(loops)}) = 1
        BY FS_Singleton
    <2>4. Cardinality(LiveLoops) <= Cardinality({Len(loops)})
        BY <2>2, <2>3, FS_Subset
    <2>5. QED BY <2>3, <2>4
<1>2. QED BY <1>1, TypeCorrect, LoopInvHolds, PTL

\* Between lifecycle calls the state tells whether a loop is alive, unless one
\* of the irregular things happened (start, shutdown, pause, resume).
THEOREM StateTruthfulHolds == Spec => []StateTruthful
<1>1. TypeOK /\ CallInv /\ LoopInv => StateTruthful
    <2>1. SUFFICES ASSUME TypeOK, CallInv, LoopInv, irregular \subseteq {"no wait"},
                          CallsOf(LifecycleOps) = {}
                   PROVE  state = "stopped" <=> LiveLoops = {}
        BY DEF StateTruthful
    <2>2. OnlyLastLives /\ LivesUnlessStopped
        BY <2>1 DEF LoopInv, Clean
    <2>3. ASSUME state = "stopped"
          PROVE  LiveLoops = {}
        BY <2>2, <2>3 DEF OnlyLastLives, LiveLoops
    <2>4. ASSUME state # "stopped"
          PROVE  LiveLoops # {}
        <3>1. \A c \in Callers : calls[c].op \notin LifecycleOps
            BY <2>1 DEF CallsOf
        <3>2. \A c \in Callers : calls[c].pc # "thread" /\ calls[c].op # "shutdown"
            BY <2>1, <3>1, StepTells DEF LifecycleOps
        <3>3. Len(loops) > 0 /\ Live(Len(loops))
            BY <2>1, <2>2, <2>4, <3>2 DEF LivesUnlessStopped
        <3>4. loops \in Seq(LoopType)
            BY <2>1 DEF TypeOK
        <3>5. Len(loops) \in DOMAIN loops
            BY <3>3, <3>4, LastIndex
        <3>6. QED BY <3>3, <3>5 DEF LiveLoops
    <2>5. QED BY <2>3, <2>4
<1>2. QED BY <1>1, TypeCorrect, LoopInvHolds, PTL

=============================================================================
