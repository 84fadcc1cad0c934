------------------------ MODULE SchedulerQuietProofs ------------------------
(***************************************************************************)
(* A theorem about SchedulerLifecycle: after a shutdown that waited, no    *)
(* run of a pool is left, although executors were exchanged meanwhile.     *)
(***************************************************************************)
EXTENDS SchedulerLifecycleProofs

-----------------------------------------------------------------------------
(* What steps do to instances, runs and loops.                             *)

\* No run is submitted, and one that is over stays so.
RunsGoOn ==
    /\ DOMAIN runs' = DOMAIN runs
    /\ \A i \in DOMAIN runs : /\ runs'[i].inst = runs[i].inst
                              /\ runs[i].phase \in Over => runs'[i].phase \in Over

\* A pool that was shut down stays so, one without runs gets none.
Settling ==
    /\ InstsGoOn
    /\ \A x \in DOMAIN insts :
          /\ insts[x].kind = "pool" /\ insts[x].phase = "shut" => insts'[x].phase = "shut"
          /\ Done(x) => Done(x)'
    /\ \A x \in DOMAIN insts' \ DOMAIN insts : Done(x)'

LEMMA DoneKept ==
    ASSUME InstsGoOn, RunsGoOn, NEW x \in DOMAIN insts, Done(x)
    PROVE  Done(x)'
BY DEF Done, AllOver, RunsOf, RunsGoOn, InstsGoOn

LEMMA RunsUnchanged == runs' = runs => RunsGoOn
BY DEF RunsGoOn

LEMMA InstsUnchanged ==
    ASSUME insts' = insts, RunsGoOn
    PROVE  Settling
<1>1. InstsGoOn
    BY DEF InstsGoOn
<1>2. QED BY <1>1, DoneKept DEF Settling

LEMMA ShutSettles ==
    ASSUME TypeOK, NEW x, Shut(x)
    PROVE  Settling /\ RunsGoOn
<1>1. InstsGoOn
    BY ShutGoesOn DEF Shut
<1>2. PICK S \in Dropped(x) :
          runs' = [i \in DOMAIN runs |-> IF i \in S THEN [runs[i] EXCEPT !.phase = "lost"]
                                                    ELSE runs[i]]
    BY DEF Shut
<1>3. \A i \in DOMAIN runs : runs[i] \in RunType
    BY RunInstance
<1>4. \A i \in DOMAIN runs :
          /\ runs'[i].inst = runs[i].inst
          /\ runs'[i].phase = IF i \in S THEN "lost" ELSE runs[i].phase
    BY <1>2, <1>3 DEF RunType
<1>5. RunsGoOn
    BY <1>2, <1>4 DEF RunsGoOn, Over
<1>6. /\ DOMAIN insts' = DOMAIN insts
      /\ \A y \in DOMAIN insts : insts'[y] = IF y = x THEN ShutDown(insts[y]) ELSE insts[y]
    BY DEF Shut
<1>7. \A y \in DOMAIN insts : insts[y] \in InstType
    <2>1. insts \in Seq(InstType)
        BY DEF TypeOK
    <2>2. QED BY <2>1, ElementType
<1>8. \A e \in InstType : e.phase = "shut" => ShutDown(e).phase = "shut"
    BY DEF ShutDown, InstType
<1>9. \A y \in DOMAIN insts : insts[y].phase = "shut" => insts'[y].phase = "shut"
    BY <1>6, <1>7, <1>8
<1>10. QED BY <1>1, <1>5, <1>6, <1>9, DoneKept DEF Settling

LEMMA StartSettles ==
    ASSUME TypeOK, NEW x, insts' = [insts EXCEPT ![x] = Started(@)], runs' = runs
    PROVE  Settling /\ RunsGoOn
<1>1. InstsGoOn /\ RunsGoOn
    BY StartGoesOn, RunsUnchanged
<1>2. /\ DOMAIN insts' = DOMAIN insts
      /\ \A y \in DOMAIN insts : insts'[y] = IF y = x THEN Started(insts[y]) ELSE insts[y]
    OBVIOUS
<1>3. \A e : e.phase = "shut" /\ e.kind = "pool" => Started(e) = e
    BY DEF Started
<1>4. \A y \in DOMAIN insts :
          insts[y].kind = "pool" /\ insts[y].phase = "shut" => insts'[y].phase = "shut"
    BY <1>2, <1>3
<1>5. QED BY <1>1, <1>2, <1>4, DoneKept DEF Settling

\* A new instance has no runs.
LEMMA RegisterSettles ==
    ASSUME TypeOK, NEW a, NEW kind, Register(a, kind), runs' = runs
    PROVE  /\ Settling /\ RunsGoOn
           /\ Len(insts) + 1 \in DOMAIN insts' \ DOMAIN insts
<1>1. InstsGoOn /\ RunsGoOn
    BY RegisterGoesOn, RunsUnchanged
<1>2. insts \in Seq(InstType)
    BY DEF TypeOK
<1>3. /\ \A x \in DOMAIN insts : insts'[x] = insts[x]
      /\ DOMAIN insts' = DOMAIN insts \cup {Len(insts) + 1}
      /\ Len(insts) + 1 \notin DOMAIN insts
    BY <1>2, Appended, Length DEF Register
<1>4. \A i \in DOMAIN runs : runs[i].inst # Len(insts) + 1
    BY <1>3, RunInstance
<1>5. \A x \in DOMAIN insts' \ DOMAIN insts : Done(x)'
    BY <1>3, <1>4 DEF Done, AllOver, RunsOf
<1>6. QED BY <1>1, <1>3, <1>5, DoneKept DEF Settling

-----------------------------------------------------------------------------
(* Steps of runs and loops.                                                *)

InPassNow(l) == loops[l].pc \in {"pass", "inline"}

\* A step that submits nothing and changes no call, instance or alias.
LEMMA QuietElsewhere ==
    ASSUME TypeOK, HolderInv,
           irregular = {} => PoolsOwned /\ UpdateQuiet /\ StoppedQuiet /\ ShutdownQuiet,
           UNCHANGED <<state, lock, executors, insts, calls>>, RunsGoOn,
           irregular \subseteq irregular',
           \A l \in DOMAIN loops' :
               InPassNow(l)' => l \in DOMAIN loops /\ (InPassNow(l) \/ lock = None)
    PROVE  /\ HolderInv'
           /\ irregular' = {} =>
                 PoolsOwned' /\ UpdateQuiet' /\ StoppedQuiet' /\ ShutdownQuiet'
<1>1. Updating' = Updating
    BY DEF Updating
<1>2. HolderInv'
    BY <1>1 DEF HolderInv, CallsOf
<1>3. SUFFICES ASSUME irregular' = {}
               PROVE  PoolsOwned' /\ UpdateQuiet' /\ StoppedQuiet' /\ ShutdownQuiet'
    BY <1>2
<1>4. PoolsOwned /\ UpdateQuiet /\ StoppedQuiet /\ ShutdownQuiet
    BY <1>3
<1>5. \A x \in DOMAIN insts : Done(x) => Done(x)'
    BY InstsUnchanged DEF Settling
<1>6. Registered' = Registered /\ \A a \in Registered : executors[a] \in DOMAIN insts
    <2>1. executors \in [Aliases -> 0..Len(insts)] /\ insts \in Seq(InstType)
        BY DEF TypeOK
    <2>2. QED BY <2>1, Length DEF Registered, None
<1>7. PoolsOwned'
    BY <1>4, <1>5 DEF PoolsOwned, MaySet
<1>8. UpdateQuiet'
    <2> SUFFICES ASSUME NEW c \in Updating, insts[calls[c].inst].kind = "pool",
                        insts[calls[c].inst].phase # "shut"
                 PROVE  /\ AllOver(calls[c].inst)'
                        /\ \A l \in DOMAIN loops' : ~InPassNow(l)'
        BY <1>1 DEF UpdateQuiet, InPassNow
    <2>1. AllOver(calls[c].inst) /\ \A l \in DOMAIN loops : ~InPassNow(l)
        BY <1>4 DEF UpdateQuiet, InPassNow
    <2>2. lock # None
        BY NoneAssumption DEF HolderInv
    <2>3. AllOver(calls[c].inst)'
        BY <2>1 DEF AllOver, RunsOf, RunsGoOn
    <2>4. QED BY <2>1, <2>2, <2>3
<1>9. StoppedQuiet'
    BY <1>4, <1>5, <1>6 DEF StoppedQuiet
<1>10. ShutdownQuiet'
    BY <1>4, <1>5, <1>6 DEF ShutdownQuiet, CallsOf
<1>11. QED BY <1>7, <1>8, <1>9, <1>10

\* A synchronous run keeps its loop, whose record no other step touches.
LEMMA InlineKept ==
    ASSUME TypeOK, InlineInv, InstsGoOn, RunsGoOn,
           \A l \in DOMAIN loops : loops[l].pc = "inline" =>
               \/ l \in DOMAIN loops' /\ loops'[l] = loops[l]
               \/ runs[loops[l].run].phase \in Over
    PROVE  InlineInv'
<1> SUFFICES ASSUME NEW i \in DOMAIN runs, insts'[runs[i].inst].kind = "debug",
                    runs'[i].phase \notin Over
             PROVE  \E l \in DOMAIN loops' : loops'[l].pc = "inline" /\ loops'[l].run = i
    BY DEF InlineInv, RunsGoOn
<1>1. insts[runs[i].inst].kind = "debug" /\ runs[i].phase \notin Over
    BY RunInstance DEF InstsGoOn, RunsGoOn
<1>2. PICK l \in DOMAIN loops : loops[l].pc = "inline" /\ loops[l].run = i
    BY <1>1 DEF InlineInv
<1>3. QED BY <1>1, <1>2

LEMMA QuietRunStep ==
    ASSUME TypeOK, QuietInv, NEW i \in DOMAIN runs, RunStep(i)
    PROVE  QuietInv'
<1>1. UNCHANGED <<state, lock, executors, insts, calls, irregular, loops>>
    BY DEF RunStep, RunBegins, RunEnds, RunReported, schedVars
<1>2. PICK phase : runs' = [runs EXCEPT ![i].phase = phase]
    BY DEF RunStep, RunBegins, RunEnds, RunReported
<1>3. runs[i].phase \notin Over
    BY DEF RunStep, RunBegins, RunEnds, RunReported, Over
<1>4. \A k \in DOMAIN runs : runs[k] \in RunType
    BY RunInstance
<1>5. RunsGoOn
    BY <1>2, <1>3, <1>4 DEF RunsGoOn, RunType
<1>6. InlineInv'
    BY <1>1, <1>5, InlineKept DEF QuietInv, InstsGoOn
<1>7. \A l \in DOMAIN loops' : InPassNow(l)' => l \in DOMAIN loops /\ InPassNow(l)
    BY <1>1 DEF InPassNow
<1>8. QED BY <1>1, <1>5, <1>6, <1>7, QuietElsewhere DEF QuietInv

\* What a step of a loop does, but for submissions: a pass begins only while
\* _lock is free, and a synchronous run ends before its loop goes on.
LEMMA QuietLoopStep ==
    ASSUME TypeOK, QuietInv, NEW l \in DOMAIN loops, LoopStep(l) \/ LoopFails(l),
           ~\E j \in Jobs : PassSubmits(l, j)
    PROVE  QuietInv'
<1>1. /\ UNCHANGED <<state, lock, executors, insts, calls, runs>>
      /\ irregular \subseteq irregular'
    BY DEF LoopStep, LoopFails, LoopTop, LoopCollect, InlineReturns, LoopScan,
       LoopClear, PassRejects, workVars
<1>2. \/ LoopTop(l) \/ LoopCollect(l) \/ InlineReturns(l) \/ LoopScan(l)
      \/ LoopClear(l) \/ LoopFails(l) \/ \E j \in Jobs : PassRejects(l, j)
    BY DEF LoopStep
<1>3. /\ DOMAIN loops' = DOMAIN loops
      /\ \A k \in DOMAIN loops : k # l => loops'[k] = loops[k]
    BY <1>2 DEF LoopTop, LoopCollect, InlineReturns, LoopScan, LoopClear, LoopFails,
       PassRejects, Goto
<1>4. loops[l] \in LoopType
    <2>1. loops \in Seq(LoopType)
        BY DEF TypeOK
    <2>2. QED BY <2>1, ElementType
<1>5. InPassNow(l)' => InPassNow(l) \/ lock = None
    <2>1. CASE LoopCollect(l) \/ InlineReturns(l) \/ \E j \in Jobs : PassRejects(l, j)
        BY <2>1 DEF LoopCollect, InlineReturns, PassRejects, InPassNow
    <2>2. CASE LoopTop(l) \/ LoopScan(l) \/ LoopClear(l) \/ LoopFails(l)
        <3>1. PICK pc \in {"ended", "collect", "scan", "clear", "wait", "failed"} :
                  loops' = [loops EXCEPT ![l].pc = pc]
            BY <2>2 DEF LoopTop, LoopScan, LoopClear, LoopFails, Goto
        <3>2. loops'[l].pc = pc
            BY <1>4, <3>1 DEF LoopType
        <3>3. QED BY <3>1, <3>2 DEF InPassNow
    <2>3. QED BY <1>2, <2>1, <2>2
<1>6. loops[l].pc = "inline" => runs[loops[l].run].phase \in Over
    BY <1>2 DEF LoopTop, LoopCollect, LoopScan, LoopClear, LoopFails, PassRejects,
       InlineReturns
<1>7. RunsGoOn /\ InstsGoOn
    BY <1>1, RunsUnchanged DEF InstsGoOn
<1>8. InlineInv'
    BY <1>3, <1>6, <1>7, InlineKept DEF QuietInv
<1>9. \A k \in DOMAIN loops' :
          InPassNow(k)' => k \in DOMAIN loops /\ (InPassNow(k) \/ lock = None)
    BY <1>3, <1>5 DEF InPassNow
<1>10. QED BY <1>1, <1>7, <1>8, <1>9, QuietElsewhere DEF QuietInv

\* A run is submitted to a registered executor by a loop in its pass, so that
\* the scheduler is not stopped, not shutting down, and no update waits for a
\* pool it did not shut down.
LEMMA QuietSubmit ==
    ASSUME TypeOK, LoopInv, QuietInv, NEW l \in DOMAIN loops, NEW j \in Jobs,
           PassSubmits(l, j)
    PROVE  QuietInv'
<1>1. UNCHANGED <<state, lock, executors, insts, calls, irregular>>
    BY DEF PassSubmits
<1>2. loops[l].pc = "pass" /\ Live(l)
    BY DEF PassSubmits, Live
<1> DEFINE x == ExecutorOf(j)
<1>3. x \in DOMAIN insts /\ \E a \in Aliases : executors[a] = x
    <2>1. /\ executors \in [Aliases -> 0..Len(insts)] /\ executors["default"] # None
          /\ insts \in Seq(InstType)
        BY DEF TypeOK
    <2>2. x \in 0..Len(insts) /\ x # 0 /\ \E a \in Aliases : executors[a] = x
        BY <2>1, AliasAssumption DEF ExecutorOf, None
    <2>3. QED BY <2>1, <2>2, Length
<1> HIDE DEF x
<1>4. PICK phase \in Submitted(insts[x]) :
        /\ runs' = Append(runs, [job |-> j, inst |-> x, phase |-> phase,
                                 at |-> insts[x].phase])
        /\ loops' = [loops EXCEPT ![l] =
              CASE phase = "refused" -> InPass({})
                [] phase = "running" -> [pc |-> "inline", picked |-> @.picked \ {j},
                                         run |-> Len(runs) + 1]
                [] OTHER -> InPass(@.picked \ {j})]
    BY DEF PassSubmits, x
<1>5. /\ DOMAIN runs' = DOMAIN runs \cup {Len(runs) + 1}
      /\ Len(runs) + 1 \notin DOMAIN runs
      /\ \A i \in DOMAIN runs : runs'[i] = runs[i]
      /\ runs'[Len(runs) + 1].inst = x /\ runs'[Len(runs) + 1].phase = phase
    <2>1. runs \in Seq(RunType)
        BY DEF TypeOK
    <2>2. QED BY <1>4, <2>1, Appended, Length
<1>6. \A y \in DOMAIN insts : y # x /\ Done(y) => Done(y)'
    BY <1>1, <1>5 DEF Done, AllOver, RunsOf
<1>7. HolderInv'
    BY <1>1 DEF QuietInv, HolderInv, Updating, CallsOf
<1>8. InlineInv'
    <2> SUFFICES ASSUME NEW i \in DOMAIN runs', insts[runs'[i].inst].kind = "debug",
                        runs'[i].phase \notin Over
                 PROVE  \E k \in DOMAIN loops' : loops'[k].pc = "inline" /\ loops'[k].run = i
        BY <1>1 DEF InlineInv
    <2>1. CASE i = Len(runs) + 1
        <3>1. phase = "running"
            BY <1>5, <2>1 DEF Submitted
        <3>2. loops'[l] = [pc |-> "inline", picked |-> loops[l].picked \ {j}, run |-> i]
            BY <1>4, <2>1, <3>1
        <3>3. l \in DOMAIN loops'
            BY <1>4
        <3>4. QED BY <3>2, <3>3
    <2>2. CASE i # Len(runs) + 1
        <3>1. PICK k \in DOMAIN loops : loops[k].pc = "inline" /\ loops[k].run = i
            BY <1>5, <2>2 DEF QuietInv, InlineInv
        <3>2. k \in DOMAIN loops' /\ loops'[k] = loops[k]
            BY <1>2, <1>4, <3>1
        <3>3. QED BY <3>1, <3>2
    <2>3. QED BY <2>1, <2>2
<1>9. ASSUME irregular' = {}
      PROVE  PoolsOwned' /\ UpdateQuiet' /\ StoppedQuiet' /\ ShutdownQuiet'
    <2>1. PoolsOwned /\ UpdateQuiet /\ OnlyLastLives
        BY <1>1, <1>9 DEF QuietInv, LoopInv, Clean
    <2>2. PoolsOwned'
        BY <1>1, <1>3, <1>6, <2>1 DEF PoolsOwned, MaySet
    <2>3. UpdateQuiet'
        BY <1>1, <1>2, <2>1 DEF UpdateQuiet, Updating
    <2>4. StoppedQuiet'
        BY <1>1, <1>2, <2>1 DEF StoppedQuiet, OnlyLastLives
    <2>5. ShutdownQuiet'
        BY <1>1, <1>2, <2>1 DEF ShutdownQuiet, OnlyLastLives, CallsOf
    <2>6. QED BY <2>2, <2>3, <2>4, <2>5
<1>10. QED BY <1>7, <1>8, <1>9 DEF QuietInv
-----------------------------------------------------------------------------
(* Calls.                                                                  *)

\* The call of c becomes v.
Becomes(c, v) ==
    /\ calls'[c] = v
    /\ \A d \in Callers : d # c => calls'[d] = calls[d]

Waiting(v) == v.op = "update" /\ v.pc = "drain"

\* What holds of a call that waits for an old executor.
HoldsAlias(v) ==
    /\ v.inst \in DOMAIN insts
    /\ MaySet \/ executors[v.alias] = v.inst

LEMMA HolderKept ==
    ASSUME HolderInv, NEW c \in Callers, NEW v, Becomes(c, v),
           DOMAIN insts \subseteq DOMAIN insts',
           Waiting(v) <=> lock' = c,
           lock' = lock \/ (lock = None /\ lock' = c) \/ (lock = c /\ lock' = None),
           Waiting(v) => HoldsAlias(v)',
           v.op \in {"update", "remove"} => v.wait,
           v.pc = "join" => v.seen = {},
           executors' = executors \/ MaySet \/ lock \in {None, c}
    PROVE  HolderInv'
<1>1. \A d \in Callers : d # c => (d \in Updating' <=> d \in Updating)
    BY DEF Becomes, Updating
<1>2. Updating = Callers \cap {lock} /\ (c \in Updating' <=> lock' = c)
    BY DEF HolderInv, Becomes, Updating, Waiting
<1>3. Updating' \subseteq Callers /\ Updating \subseteq Callers
    BY DEF Updating
<1>4. Updating' = Callers \cap {lock'}
    BY <1>1, <1>2, <1>3, NoneAssumption
<1>5. ASSUME NEW d \in Updating'
      PROVE  HoldsAlias(calls[d])'
    <2>1. CASE d = c
        BY <1>5, <2>1 DEF Becomes, Updating, Waiting
    <2>2. CASE d # c
        <3>1. d \in Updating /\ lock = d /\ calls'[d] = calls[d]
            BY <1>1, <1>2, <1>3, <1>5, <2>2 DEF Becomes
        <3>2. HoldsAlias(calls[d])
            BY <3>1 DEF HolderInv, HoldsAlias
        <3>3. executors' = executors \/ MaySet
            BY <1>3, <1>5, <2>2, <3>1, NoneAssumption
        <3>4. QED BY <3>1, <3>2, <3>3 DEF HoldsAlias, MaySet
    <2>3. QED BY <2>1, <2>2
<1>6. \A d \in CallsOf({"update", "remove"})' : calls'[d].wait
    BY DEF HolderInv, CallsOf, Becomes
<1>7. \A d \in Callers : calls'[d].pc = "join" => calls'[d].seen = {}
    BY DEF HolderInv, Becomes
<1>8. QED BY <1>4, <1>5, <1>6, <1>7 DEF HolderInv, HoldsAlias

Settled == PoolsOwned /\ UpdateQuiet /\ StoppedQuiet /\ ShutdownQuiet

\* What Settled says of one call.
UpdatesQuietly(v) ==
    insts[v.inst].kind = "pool" /\ insts[v.inst].phase # "shut" =>
        AllOver(v.inst) /\ \A l \in DOMAIN loops : ~InPassNow(l)

ShutsQuietly(v) ==
    v.op = "shutdown" /\ v.wait /\ v.pc # "join" =>
        \A a \in v.seen \cap Registered :
            \/ Done(executors[a])
            \/ v.pc = "drain" /\ v.inst = executors[a]

Removes(v, x) == v.op = "remove" /\ v.inst = x

\* No loop enters a pass.
NoNewPass == \A l \in DOMAIN loops' : InPassNow(l)' => l \in DOMAIN loops /\ InPassNow(l)

\* An alias keeps its executor, loses it or gets a new one.
AliasesGoOn ==
    \A a \in Aliases :
        \/ executors'[a] \in {executors[a], None}
        \/ executors'[a] \in DOMAIN insts' \ DOMAIN insts

\* Whatever loses its alias, or the call that removes it, has no run left.
NothingLeft(c, v) ==
    \A x \in DOMAIN insts :
        \/ \E a \in Aliases : executors[a] = x /\ executors'[a] # x
        \/ Removes(calls[c], x)
        => MaySet \/ Done(x)' \/ Removes(v, x)

LEMMA AliasesTyped ==
    ASSUME TypeOK
    PROVE  executors \in [Aliases -> 0..Len(insts)] /\ None \notin DOMAIN insts
<1>1. executors \in [Aliases -> 0..Len(insts)] /\ insts \in Seq(InstType)
    BY DEF TypeOK
<1>2. DOMAIN insts = 1..Len(insts) /\ Len(insts) \in Nat
    BY <1>1, Length
<1>3. None \notin DOMAIN insts
    BY <1>2 DEF None
<1>4. QED BY <1>1, <1>3

LEMMA ExecutorMade ==
    ASSUME TypeOK, NEW a \in Registered
    PROVE  executors[a] \in DOMAIN insts
<1>1. executors \in [Aliases -> 0..Len(insts)] /\ insts \in Seq(InstType)
    BY DEF TypeOK
<1>2. QED BY <1>1, Length DEF Registered, None

LEMMA SettledKept ==
    ASSUME TypeOK, HolderInv, Settled, NEW c \in Callers, NEW v, Becomes(c, v),
           Settling, NoNewPass, AliasesGoOn, NothingLeft(c, v),
           Waiting(v) => UpdatesQuietly(v)',
           ShutsQuietly(v),
           state' = "stopped" =>
               state = "stopped" \/ \A a \in Registered : Done(executors[a])
    PROVE  Settled'
<1>1. /\ \A x \in DOMAIN insts : Done(x) => Done(x)'
      /\ DOMAIN insts \subseteq DOMAIN insts'
      /\ \A x \in DOMAIN insts' \ DOMAIN insts : Done(x)'
      /\ \A x \in DOMAIN insts : insts'[x].kind = insts[x].kind
      /\ \A x \in DOMAIN insts : insts[x].kind = "pool" /\ insts[x].phase = "shut"
            => insts'[x].phase = "shut"
    BY DEF Settling, InstsGoOn
<1>2. \A a \in Registered : executors[a] \in DOMAIN insts
    BY ExecutorMade
<1>3. \A a \in Registered' :
          \/ a \in Registered /\ executors'[a] = executors[a]
          \/ executors'[a] \in DOMAIN insts' \ DOMAIN insts
    BY DEF Registered, AliasesGoOn
<1>4. PoolsOwned'
    <2> SUFFICES ASSUME NEW x \in DOMAIN insts', ~MaySet, ~Done(x)'
                 PROVE  \/ \E a \in Aliases : executors'[a] = x
                        \/ \E d \in Callers : Removes(calls'[d], x)
        BY DEF PoolsOwned, MaySet, Removes
    <2>1. x \in DOMAIN insts /\ ~Done(x)
        BY <1>1
    <2>2. CASE \E a \in Aliases : executors[a] = x /\ executors'[a] = x
        BY <2>2
    <2>3. CASE \E a \in Aliases : executors[a] = x /\ executors'[a] # x
        BY <2>1, <2>3 DEF NothingLeft, Becomes
    <2>4. CASE \E d \in Callers : Removes(calls[d], x)
        BY <2>1, <2>4 DEF NothingLeft, Becomes
    <2>5. QED BY <2>1, <2>2, <2>3, <2>4 DEF Settled, PoolsOwned, Removes
<1>5. UpdateQuiet'
    <2> SUFFICES ASSUME NEW d \in Updating' PROVE UpdatesQuietly(calls[d])'
        BY DEF UpdateQuiet, UpdatesQuietly, InPassNow
    <2>1. CASE d = c
        BY <2>1 DEF Updating, Waiting, Becomes
    <2>2. CASE d # c
        <3>1. d \in Updating /\ calls'[d] = calls[d]
            BY <2>2 DEF Updating, Becomes
        <3>2. UpdatesQuietly(calls[d]) /\ calls[d].inst \in DOMAIN insts
            BY <3>1 DEF Settled, UpdateQuiet, UpdatesQuietly, InPassNow, HolderInv
        <3>3. PICK x : x = calls[d].inst
            OBVIOUS
        <3>4. x \in DOMAIN insts /\ (Done(x) => Done(x)') /\ calls'[d].inst = x
            BY <1>1, <3>1, <3>2, <3>3
        <3>5. insts'[x].kind = "pool" /\ insts'[x].phase # "shut" =>
                  AllOver(x)' /\ \A l \in DOMAIN loops' : ~InPassNow(l)'
            BY <1>1, <3>2, <3>3, <3>4 DEF UpdatesQuietly, Done, NoNewPass
        <3>6. QED BY <3>4, <3>5 DEF UpdatesQuietly, AllOver, RunsOf
    <2>3. QED BY <2>1, <2>2
<1>6. StoppedQuiet'
    <2> SUFFICES ASSUME state' = "stopped", NEW a \in Registered'
                 PROVE  Done(executors[a])'
        BY DEF StoppedQuiet
    <2>1. \A b \in Registered : Done(executors[b])
        BY DEF Settled, StoppedQuiet
    <2>2. PICK x : x = executors'[a]
        OBVIOUS
    <2>3. Done(x)'
        BY <1>1, <1>2, <1>3, <2>1, <2>2
    <2>4. QED BY <2>2, <2>3 DEF Done, AllOver, RunsOf
<1>7. ShutdownQuiet'
    <2> SUFFICES ASSUME NEW d \in Callers, calls'[d].op = "shutdown", calls'[d].wait,
                        calls'[d].pc # "join", NEW a \in calls'[d].seen \cap Registered'
                 PROVE  \/ Done(executors[a])'
                        \/ calls'[d].pc = "drain" /\ calls'[d].inst = executors'[a]
        BY DEF ShutdownQuiet, CallsOf
    <2>1. PICK x : x = executors'[a]
        OBVIOUS
    <2>2. ShutsQuietly(calls'[d])
        <3>1. CASE d = c
            BY <3>1 DEF Becomes
        <3>2. CASE d # c
            BY <3>2 DEF Becomes, Settled, ShutdownQuiet, CallsOf, ShutsQuietly
        <3>3. QED BY <3>1, <3>2
    <2>3. Done(x)' \/ (calls'[d].pc = "drain" /\ calls'[d].inst = x)
        BY <1>1, <1>2, <1>3, <2>1, <2>2 DEF ShutsQuietly
    <2>4. QED BY <2>1, <2>3 DEF Done, AllOver, RunsOf
<1>8. QED BY <1>4, <1>5, <1>6, <1>7 DEF Settled

\* The loops go on, another may have been started.
LoopsKept == \A l \in DOMAIN loops : l \in DOMAIN loops' /\ loops'[l] = loops[l]

LEMMA QuietCall ==
    ASSUME TypeOK, QuietInv, NEW c \in Callers, NEW v, Becomes(c, v),
           Settling, RunsGoOn, LoopsKept, NoNewPass, irregular \subseteq irregular',
           AliasesGoOn, HolderInv',
           irregular' = {} =>
               /\ NothingLeft(c, v)
               /\ Waiting(v) => UpdatesQuietly(v)'
               /\ ShutsQuietly(v)
               /\ state' = "stopped" =>
                      state = "stopped" \/ \A a \in Registered : Done(executors[a])
    PROVE  QuietInv'
<1>1. InlineInv'
    BY InlineKept DEF QuietInv, Settling, LoopsKept
<1>2. irregular' = {} => Settled'
    BY SettledKept DEF QuietInv, Settled
<1>3. QED BY <1>1, <1>2 DEF QuietInv, Settled

\* A step of a call that neither takes an alias away nor touches _lock.
LEMMA QuietPlain ==
    ASSUME TypeOK, QuietInv, NEW c \in Callers, NEW v, Becomes(c, v),
           Settling, RunsGoOn, LoopsKept, NoNewPass, irregular \subseteq irregular',
           executors' = executors, lock' = lock,
           ~Waiting(calls[c]), ~Waiting(v),
           calls[c].op = "remove" => v.op = "remove" /\ v.inst = calls[c].inst,
           v.op \in {"update", "remove"} => v.wait,
           v.pc = "join" => v.seen = {},
           irregular' = {} =>
               /\ ShutsQuietly(v)
               /\ state' = "stopped" =>
                      state = "stopped" \/ \A a \in Registered : Done(executors[a])
    PROVE  QuietInv'
<1>1. HolderInv
    BY DEF QuietInv
<1>2. lock # c
    BY <1>1 DEF HolderInv, Updating, Waiting
<1>3. HolderInv'
    <2>1. DOMAIN insts \subseteq DOMAIN insts'
        BY DEF Settling, InstsGoOn
    <2>2. QED BY <1>1, <1>2, <2>1, HolderKept
<1>4. AliasesGoOn /\ NothingLeft(c, v)
    BY DEF AliasesGoOn, NothingLeft, Removes
<1>5. QED BY <1>3, <1>4, QuietCall

LEMMA NothingDone ==
    ASSUME UNCHANGED <<insts, runs, loops>>
    PROVE  Settling /\ RunsGoOn /\ LoopsKept /\ NoNewPass
BY RunsUnchanged, InstsUnchanged DEF LoopsKept, NoNewPass, InPassNow

LEMMA LoopsUnchanged == loops' = loops => LoopsKept /\ NoNewPass
BY DEF LoopsKept, NoNewPass, InPassNow

LEMMA ReturnBecomes ==
    ASSUME TypeOK, NEW c \in Callers, Return(c)
    PROVE  Becomes(c, Idle)
BY OneCall DEF Return, Becomes

\* A call that returns is not one of those the invariant speaks of.
LEMMA IdleQuiet ==
    /\ ~Waiting(Idle) /\ ShutsQuietly(Idle)
    /\ Idle.op \notin {"update", "remove"} /\ Idle.pc # "join"
BY DEF Waiting, Idle, ShutsQuietly

LEMMA QuietLifecycleBegins ==
    ASSUME TypeOK, CallInv, QuietInv, NEW c \in Callers,
           BeginStart(c) \/ BeginShutdown(c) \/ BeginPause(c)
    PROVE  QuietInv'
<1>1. PICK v : /\ calls' = [calls EXCEPT ![c] = v]
               /\ v.op \in LifecycleOps /\ v.seen = {}
               /\ v.op = "shutdown" => v.pc = "join"
    <2>1. CASE BeginStart(c)
        <3> DEFINE r == [Idle EXCEPT !.op = "start", !.pc = "each",
                                     !.size = Cardinality(Registered)]
        <3>1. calls' = [calls EXCEPT ![c] = r]
            BY <2>1 DEF BeginStart, Begin
        <3>2. r.op = "start" /\ r.seen = {}
            BY DEF Idle
        <3> HIDE DEF r
        <3>3. QED BY <3>1, <3>2 DEF LifecycleOps
    <2>2. CASE BeginShutdown(c)
        <3>1. PICK wait \in BOOLEAN : calls' = [calls EXCEPT ![c] =
                  [Idle EXCEPT !.op = "shutdown", !.pc = "join", !.wait = wait]]
            BY <2>2 DEF BeginShutdown, Begin
        <3> DEFINE r == [Idle EXCEPT !.op = "shutdown", !.pc = "join", !.wait = wait]
        <3>2. calls' = [calls EXCEPT ![c] = r]
            BY <3>1
        <3>3. r.op = "shutdown" /\ r.seen = {} /\ r.pc = "join"
            BY DEF Idle
        <3> HIDE DEF r
        <3>4. QED BY <3>2, <3>3 DEF LifecycleOps
    <2>3. CASE BeginPause(c)
        <3>1. PICK op \in {"pause", "resume"} :
                  calls' = [calls EXCEPT ![c] = [Idle EXCEPT !.op = op, !.pc = "set"]]
            BY <2>3 DEF BeginPause, Begin
        <3> DEFINE r == [Idle EXCEPT !.op = op, !.pc = "set"]
        <3>2. calls' = [calls EXCEPT ![c] = r]
            BY <3>1
        <3>3. r.op = op /\ r.seen = {}
            BY DEF Idle
        <3> HIDE DEF r
        <3>4. QED BY <3>1, <3>2, <3>3 DEF LifecycleOps
    <2>4. QED BY <2>1, <2>2, <2>3
<1>2. /\ UNCHANGED <<state, lock, loops, executors, insts, runs>>
      /\ irregular \subseteq irregular' /\ calls[c].op = "none"
    BY DEF BeginStart, BeginShutdown, BeginPause, Begin, schedVars, workVars
<1>3. Becomes(c, v)
    BY <1>1, OneCall DEF Becomes
<1>4. ~Waiting(v) /\ ~Waiting(calls[c]) /\ v.op \notin {"update", "remove"}
    BY <1>1, <1>2 DEF Waiting, LifecycleOps
<1>5. ShutsQuietly(v)
    BY <1>1 DEF ShutsQuietly
<1>6. QED BY <1>1, <1>2, <1>3, <1>4, <1>5, NothingDone, QuietPlain

\* The steps of start and resume, and a call cut short.
LEMMA QuietStart ==
    ASSUME TypeOK, CallInv, QuietInv, NEW c \in Callers,
           \/ Resized(c) \/ StartState(c) \/ StartThread(c) \/ PauseState(c)
           \/ \E a \in Aliases : StartEach(c, a)
    PROVE  QuietInv'
<1>1. calls[c] \in CallType /\ calls \in [Callers -> CallType]
    BY DEF TypeOK
<1>2. calls[c].op \in LifecycleOps
    BY StepTells DEF Resized, StartState, StartThread, PauseState, StartEach, LifecycleOps
<1>3. ~Waiting(calls[c]) /\ calls[c].op # "remove"
    BY <1>2 DEF Waiting, LifecycleOps
<1>4. CASE Resized(c) \/ PauseState(c)
    <2>1. /\ UNCHANGED <<lock, loops, executors, insts, runs>> /\ Return(c)
          /\ irregular \subseteq irregular'
          /\ state' = "stopped" => state = "stopped"
        BY <1>4 DEF Resized, PauseState, schedVars, workVars
    <2>2. QED BY <1>3, <2>1, ReturnBecomes, IdleQuiet, NothingDone, QuietPlain
<1>5. CASE StartThread(c)
    <2>1. /\ UNCHANGED <<state, lock, executors, insts, runs, irregular>> /\ Return(c)
          /\ loops' = Append(loops, Loop)
        BY <1>5 DEF StartThread, workVars
    <2>2. LoopsKept /\ NoNewPass
        <3>1. loops \in Seq(LoopType)
            BY DEF TypeOK
        <3>2. /\ DOMAIN loops' = DOMAIN loops \cup {Len(loops) + 1}
              /\ \A l \in DOMAIN loops : loops'[l] = loops[l]
              /\ loops'[Len(loops) + 1] = Loop
            BY <2>1, <3>1, Appended, Length
        <3>3. QED BY <3>2 DEF LoopsKept, NoNewPass, InPassNow, Loop
    <2>3. QED BY <1>3, <2>1, <2>2, ReturnBecomes, IdleQuiet, RunsUnchanged,
              InstsUnchanged, QuietPlain
<1>6. CASE StartState(c) \/ \E a \in Aliases : StartEach(c, a)
    <2>1. /\ UNCHANGED <<lock, loops, executors, runs, irregular>>
          /\ state' = "stopped" => state = "stopped"
          /\ calls[c].op = "start"
        BY <1>6 DEF StartState, StartEach, schedVars, workVars
    <2>2. PICK v : calls' = [calls EXCEPT ![c] = v] /\ v.op = "start" /\ v.pc # "join"
        <3>1. CASE StartState(c)
            <4>1. calls' = [calls EXCEPT ![c] = [calls[c] EXCEPT !.pc = "thread"]]
                BY <3>1 DEF StartState
            <4>2. [calls[c] EXCEPT !.pc = "thread"].op = "start"
                    /\ [calls[c] EXCEPT !.pc = "thread"].pc = "thread"
                BY <1>1, <2>1 DEF CallType
            <4>3. QED BY <4>1, <4>2
        <3>2. ASSUME NEW a \in Aliases, StartEach(c, a)
              PROVE  \E v : calls' = [calls EXCEPT ![c] = v] /\ v.op = "start"
                                /\ v.pc # "join"
            <4> DEFINE r == [calls[c] EXCEPT !.seen = @ \cup {a}]
            <4>1. calls' = [calls EXCEPT ![c] = r] /\ calls[c].pc = "each"
                BY <3>2 DEF StartEach, EachGoesOn
            <4>2. r.op = "start" /\ r.pc = "each"
                BY <1>1, <2>1, <4>1 DEF CallType
            <4> HIDE DEF r
            <4>3. QED BY <4>1, <4>2
        <3>3. QED BY <1>6, <3>1, <3>2
    <2>3. Becomes(c, v)
        BY <2>2, OneCall DEF Becomes
    <2>4. Settling /\ RunsGoOn
        BY <1>6, <2>1, RunsUnchanged, InstsUnchanged, StartSettles DEF StartState, StartEach
    <2>5. ~Waiting(v) /\ ShutsQuietly(v)
        BY <2>2 DEF Waiting, ShutsQuietly
    <2>6. QED BY <1>3, <2>1, <2>2, <2>3, <2>4, <2>5, LoopsUnchanged, QuietPlain
<1>7. QED BY <1>4, <1>5, <1>6

\* A call starts the executor that it registered.
LEMMA QuietStartNew ==
    ASSUME TypeOK, CallInv, QuietInv, NEW c \in Callers, StartNew(c)
    PROVE  QuietInv'
<1>1. /\ UNCHANGED <<state, lock, loops, executors, runs, irregular>> /\ Return(c)
      /\ calls[c].pc = "starting"
    BY DEF StartNew, schedVars, workVars
<1>2. ~Waiting(calls[c]) /\ calls[c].op # "remove"
    BY <1>1 DEF Waiting, CallInv, StepsOf
<1>3. Settling /\ RunsGoOn
    BY <1>1, RunsUnchanged, InstsUnchanged, StartSettles DEF StartNew
<1>4. QED BY <1>1, <1>2, <1>3, LoopsUnchanged, ReturnBecomes, IdleQuiet, QuietPlain

\* shutdown goes from executor to executor; it is done when it has waited for
\* every one that is registered then.
LEMMA QuietShutdown ==
    ASSUME TypeOK, CallInv, QuietInv, NEW c \in Callers,
           \/ Join(c) \/ ShutNext(c) \/ ShutdownDone(c)
           \/ \E a \in Aliases : ShutEach(c, a)
    PROVE  QuietInv'
<1>1. calls[c] \in CallType /\ calls \in [Callers -> CallType]
    BY DEF TypeOK
<1>2. calls[c].op = "shutdown"
    BY StepTells DEF Join, ShutNext, ShutdownDone, ShutEach
<1>3. ~Waiting(calls[c]) /\ calls[c].op # "remove"
    BY <1>2 DEF Waiting
<1>4. irregular \subseteq irregular'
    BY DEF Join, ShutNext, ShutdownDone, ShutEach
<1>5. irregular' = {} => ShutsQuietly(calls[c])
    BY <1>4 DEF QuietInv, ShutdownQuiet, CallsOf, ShutsQuietly
<1>6. CASE Join(c)
    <2> DEFINE v == [calls[c] EXCEPT !.pc = "each", !.size = Cardinality(Registered)]
    <2>1. calls' = [calls EXCEPT ![c] = v]
        BY <1>6 DEF Join
    <2>2. v.op = "shutdown" /\ v.pc = "each" /\ v.seen = calls[c].seen
        BY <1>1, <1>2 DEF CallType
    <2> HIDE DEF v
    <2>3. v.seen = {}
        BY <1>6, <2>2 DEF Join, QuietInv, HolderInv
    <2>4. UNCHANGED <<state, lock, loops, executors, insts, runs>>
        BY <1>6 DEF Join, schedVars, workVars
    <2>5. ~Waiting(v) /\ ShutsQuietly(v) /\ Becomes(c, v)
        BY <2>1, <2>2, <2>3, OneCall DEF Waiting, ShutsQuietly, Becomes
    <2>6. QED BY <1>3, <1>4, <2>2, <2>4, <2>5, NothingDone, QuietPlain
<1>7. CASE ShutNext(c)
    <2> DEFINE v == [calls[c] EXCEPT !.pc = "each", !.inst = None]
    <2>1. calls' = [calls EXCEPT ![c] = v] /\ calls[c].pc = "drain" /\ Drained(c)
        BY <1>7 DEF ShutNext
    <2>2. /\ v.op = "shutdown" /\ v.pc = "each" /\ v.seen = calls[c].seen
          /\ v.wait = calls[c].wait
        BY <1>1, <1>2 DEF CallType
    <2> HIDE DEF v
    <2>3. UNCHANGED <<state, lock, loops, executors, insts, runs>>
        BY <1>7 DEF ShutNext, schedVars, workVars
    <2>4. calls[c].wait => Done(calls[c].inst)
        BY <2>1 DEF Drained, WaitsForRuns, Done
    <2>5. irregular' = {} => ShutsQuietly(v)
        BY <1>2, <1>5, <2>1, <2>2, <2>4 DEF ShutsQuietly
    <2>6. ~Waiting(v) /\ Becomes(c, v)
        BY <2>1, <2>2, OneCall DEF Waiting, Becomes
    <2>7. QED BY <1>3, <1>4, <2>2, <2>3, <2>5, <2>6, NothingDone, QuietPlain
<1>8. ASSUME NEW a \in Aliases, ShutEach(c, a)
      PROVE  QuietInv'
    <2> DEFINE v == [calls[c] EXCEPT !.seen = @ \cup {a}, !.inst = executors[a],
                                     !.pc = "drain"]
    <2>1. calls' = [calls EXCEPT ![c] = v] /\ calls[c].pc = "each"
        BY <1>8 DEF ShutEach, EachGoesOn
    <2>2. /\ v.op = "shutdown" /\ v.pc = "drain" /\ v.seen = calls[c].seen \cup {a}
          /\ v.wait = calls[c].wait /\ v.inst = executors[a]
        BY <1>1, <1>2 DEF CallType
    <2> HIDE DEF v
    <2>3. UNCHANGED <<state, lock, loops, executors>> /\ Shut(executors[a])
        BY <1>8 DEF ShutEach, schedVars
    <2>4. irregular' = {} => ShutsQuietly(v)
        BY <1>2, <1>5, <2>1, <2>2 DEF ShutsQuietly
    <2>5. ~Waiting(v) /\ Becomes(c, v)
        BY <2>1, <2>2, OneCall DEF Waiting, Becomes
    <2>6. Settling /\ RunsGoOn
        BY <2>3, ShutSettles
    <2>7. QED BY <1>3, <1>4, <2>2, <2>3, <2>4, <2>5, <2>6, LoopsUnchanged, QuietPlain
<1>9. CASE ShutdownDone(c)
    <2>1. /\ UNCHANGED <<lock, loops, executors, insts, runs>> /\ Return(c)
          /\ calls[c].pc = "each" /\ Registered \subseteq calls[c].seen
        BY <1>9 DEF ShutdownDone, EachDone, workVars
    <2>2. irregular' = {} => \A a \in Registered : Done(executors[a])
        <3>1. irregular' = {} => calls[c].wait
            BY <1>9 DEF ShutdownDone
        <3>2. QED BY <1>2, <1>5, <2>1, <3>1 DEF ShutsQuietly
    <2>3. QED BY <1>3, <1>4, <2>1, <2>2, ReturnBecomes, IdleQuiet, NothingDone, QuietPlain
<1>10. QED BY <1>6, <1>7, <1>8, <1>9

\* add_executor and set_executor.
LEMMA QuietAdd ==
    ASSUME TypeOK, QuietInv, NEW c \in Callers, NEW a \in Aliases,
           AddExecutor(c, a) \/ SetExecutor(c, a)
    PROVE  QuietInv'
<1>1. PICK op \in {"add", "set"} :
          /\ Begin(c, op, Starting(op))
          /\ op = "set" \/ (lock = None /\ executors[a] = None)
    BY DEF AddExecutor, SetExecutor
<1>2. PICK kind : Register(a, kind)
    BY DEF AddExecutor, SetExecutor
<1>3. UNCHANGED <<state, lock, loops, runs>> /\ irregular \subseteq irregular'
    BY <1>1 DEF AddExecutor, SetExecutor, schedVars, workVars, Begin
<1>4. PICK v : v = Starting(op)
    OBVIOUS
<1>5. v.op = op /\ v.pc = "starting"
    BY <1>4 DEF Starting, Idle
<1>6. Becomes(c, v) /\ calls[c].op = "none"
    BY <1>1, <1>4, OneCall DEF Begin, Becomes
<1>7. op = "set" => MaySet
    BY <1>1 DEF Begin, MaySet
<1>8. /\ Settling /\ RunsGoOn /\ Len(insts) + 1 \in DOMAIN insts' \ DOMAIN insts
      /\ DOMAIN insts \subseteq DOMAIN insts'
    BY <1>2, <1>3, RegisterSettles DEF Settling, InstsGoOn
<1>9. executors' = [executors EXCEPT ![a] = Len(insts) + 1]
    BY <1>2 DEF Register
<1>10. \A b \in Aliases : b # a => executors'[b] = executors[b]
    BY <1>9
<1>11. executors \in [Aliases -> 0..Len(insts)] /\ None \notin DOMAIN insts
    BY AliasesTyped
<1>12. AliasesGoOn
    BY <1>8, <1>9, <1>10, <1>11 DEF AliasesGoOn
<1>13. NothingLeft(c, v)
    BY <1>1, <1>6, <1>7, <1>10, <1>11 DEF NothingLeft, Removes
<1>14. lock # c
    BY <1>6 DEF QuietInv, HolderInv, Updating
<1>15. ~Waiting(v) /\ ShutsQuietly(v) /\ v.op \notin {"update", "remove"} /\ v.pc # "join"
    BY <1>1, <1>5 DEF Waiting, ShutsQuietly
<1>16. HolderInv'
    BY <1>1, <1>3, <1>6, <1>7, <1>8, <1>14, <1>15, HolderKept DEF QuietInv
<1>17. QED BY <1>3, <1>6, <1>8, <1>12, <1>13, <1>15, <1>16, LoopsUnchanged, QuietCall

\* update_executor begins: it shuts a pool down, or the scheduler is stopped,
\* with no run left and no loop alive.
LEMMA QuietBeginUpdate ==
    ASSUME TypeOK, LoopInv, QuietInv, NEW c \in Callers, NEW a \in Aliases,
           BeginUpdate(c, a)
    PROVE  QuietInv'
<1>1. PICK kind \in NewKinds :
          Begin(c, "update", [Idle EXCEPT !.op = "update", !.pc = "drain",
                                 !.alias = a, !.kind = kind, !.inst = executors[a]])
    BY DEF BeginUpdate
<1> DEFINE r == [Idle EXCEPT !.op = "update", !.pc = "drain", !.alias = a,
                             !.kind = kind, !.inst = executors[a]]
<1>2. calls' = [calls EXCEPT ![c] = r] /\ calls[c].op = "none"
    BY <1>1 DEF Begin
<1>0. /\ r.op = "update" /\ r.pc = "drain" /\ r.alias = a /\ r.inst = executors[a]
      /\ r.wait
    BY DEF Idle
<1> HIDE DEF r
<1>3. PICK v : /\ calls' = [calls EXCEPT ![c] = v]
               /\ v.op = "update" /\ v.pc = "drain" /\ v.alias = a
               /\ v.inst = executors[a] /\ v.wait
    BY <1>2, <1>0
<1>4. Becomes(c, v)
    BY <1>3, OneCall DEF Becomes
<1>5. /\ UNCHANGED <<state, loops, executors>> /\ lock = None /\ lock' = c
      /\ irregular \subseteq irregular' /\ a \in Registered
      /\ IF state # "stopped" THEN Shut(executors[a]) ELSE UNCHANGED <<insts, runs>>
    BY <1>1 DEF BeginUpdate, Begin, Registered
<1>6. Settling /\ RunsGoOn
    BY <1>5, ShutSettles, RunsUnchanged, InstsUnchanged
<1>7. PICK x \in DOMAIN insts : x = executors[a]
    BY <1>5, ExecutorMade
<1>8. DOMAIN insts \subseteq DOMAIN insts' /\ insts'[x].kind = insts[x].kind
    BY <1>6 DEF Settling, InstsGoOn
<1>9. irregular' = {} => UpdatesQuietly(v)'
    <2> SUFFICES ASSUME irregular = {}, insts'[x].kind = "pool", insts'[x].phase # "shut"
                 PROVE  AllOver(x)' /\ \A l \in DOMAIN loops' : ~InPassNow(l)'
        BY <1>3, <1>5, <1>7 DEF UpdatesQuietly, AllOver, RunsOf, InPassNow
    <2>1. state = "stopped"
        <3>1. SUFFICES ASSUME state # "stopped" PROVE FALSE
            OBVIOUS
        <3>2. insts' = [insts EXCEPT ![x] = ShutDown(@)]
            BY <1>5, <1>7, <3>1 DEF Shut
        <3>3. insts'[x].phase = "shut"
            <4>1. insts[x] \in InstType
                <5>1. insts \in Seq(InstType)
                    BY DEF TypeOK
                <5>2. QED BY <5>1, ElementType
            <4>2. insts'[x] = ShutDown(insts[x]) /\ insts[x].kind = "pool"
                BY <1>8, <3>2
            <4>3. QED BY <4>1, <4>2 DEF ShutDown, InstType
        <3>4. QED BY <3>3
    <2>2. UNCHANGED <<insts, runs>>
        BY <1>5, <2>1
    <2>3. AllOver(x)
        BY <1>5, <1>7, <1>8, <2>1 DEF QuietInv, StoppedQuiet, Done
    <2>4. \A l \in DOMAIN loops : ~Live(l)
        BY <2>1 DEF LoopInv, Clean, OnlyLastLives
    <2>5. \A l \in DOMAIN loops : ~InPassNow(l)
        BY <2>4 DEF Live, InPassNow
    <2>6. QED BY <1>5, <2>2, <2>3, <2>5 DEF AllOver, RunsOf, InPassNow
<1>10. AliasesGoOn /\ NothingLeft(c, v)
    BY <1>2, <1>5 DEF AliasesGoOn, NothingLeft, Removes
<1>11. Waiting(v) /\ ShutsQuietly(v)
    BY <1>3 DEF Waiting, ShutsQuietly
<1>12. HoldsAlias(v)'
    BY <1>3, <1>5, <1>7, <1>8 DEF HoldsAlias
<1>13. HolderInv'
    BY <1>3, <1>4, <1>5, <1>8, <1>11, <1>12, HolderKept DEF QuietInv
<1>14. QED BY <1>4, <1>5, <1>6, <1>9, <1>10, <1>11, <1>13, LoopsUnchanged, QuietCall

\* update_executor goes on when the old pool is without runs: it waited for
\* one that was shut down, and no pass could begin for one that was not.
LEMMA QuietUpdateReplaces ==
    ASSUME TypeOK, CallInv, QuietInv, NEW c \in Callers, UpdateReplaces(c)
    PROVE  QuietInv'
<1>1. /\ UNCHANGED <<state, loops, runs, irregular>> /\ lock' = None
      /\ Waiting(calls[c]) /\ UpdateDrained(c)
    BY DEF UpdateReplaces, workVars, Waiting
<1>2. /\ lock = c /\ calls[c].wait /\ calls[c].inst \in DOMAIN insts
      /\ MaySet \/ executors[calls[c].alias] = calls[c].inst
    BY <1>1 DEF QuietInv, HolderInv, Updating, Waiting, CallsOf
<1>3. irregular = {} => Done(calls[c].inst)
    <2>1. insts[calls[c].inst].phase = "shut" => Done(calls[c].inst)
        BY <1>1, <1>2 DEF UpdateDrained, Drained, WaitsForRuns, Done
    <2>2. irregular = {} /\ insts[calls[c].inst].phase # "shut" => Done(calls[c].inst)
        BY <1>1 DEF QuietInv, UpdateQuiet, Updating, Waiting, Done
    <2>3. QED BY <2>1, <2>2
<1>4. CASE calls[c].kind = "unknown"
    <2>1. Return(c) /\ UNCHANGED <<executors, insts>>
        BY <1>4 DEF UpdateReplaces
    <2>2. Becomes(c, Idle)
        BY <2>1, ReturnBecomes
    <2>3. HolderInv'
        BY <1>1, <1>2, <2>1, <2>2, IdleQuiet, HolderKept, NoneAssumption DEF QuietInv
    <2>4. AliasesGoOn /\ NothingLeft(c, Idle)
        BY <1>1, <2>1 DEF AliasesGoOn, NothingLeft, Removes, Waiting
    <2>5. QED BY <1>1, <2>1, <2>2, <2>3, <2>4, IdleQuiet, NothingDone, QuietCall
<1>5. CASE calls[c].kind # "unknown"
    <2>1. /\ Register(calls[c].alias, calls[c].kind)
          /\ calls' = [calls EXCEPT ![c] = Starting("update")]
        BY <1>5 DEF UpdateReplaces
    <2>2. PICK v : v = Starting("update")
        OBVIOUS
    <2>3. v.op = "update" /\ v.pc = "starting" /\ v.wait
        BY <2>2 DEF Starting, Idle
    <2>4. Becomes(c, v)
        BY <2>1, <2>2, OneCall DEF Becomes
    <2>5. /\ Settling /\ RunsGoOn /\ Len(insts) + 1 \in DOMAIN insts' \ DOMAIN insts
          /\ DOMAIN insts \subseteq DOMAIN insts'
        BY <1>1, <2>1, RegisterSettles DEF Settling, InstsGoOn
    <2>6. executors' = [executors EXCEPT ![calls[c].alias] = Len(insts) + 1]
        BY <2>1 DEF Register
    <2>7. \A b \in Aliases : b # calls[c].alias => executors'[b] = executors[b]
        BY <2>6
    <2>8. executors \in [Aliases -> 0..Len(insts)] /\ None \notin DOMAIN insts
        BY AliasesTyped
    <2>9. AliasesGoOn
        BY <2>5, <2>6, <2>7, <2>8 DEF AliasesGoOn
    <2>10. ~Waiting(v) /\ ShutsQuietly(v) /\ v.pc # "join"
        BY <2>3 DEF Waiting, ShutsQuietly
    <2>11. HolderInv'
        BY <1>1, <1>2, <2>3, <2>4, <2>5, <2>10, HolderKept, NoneAssumption DEF QuietInv
    <2>12. irregular' = {} => NothingLeft(c, v)
        <3>1. SUFFICES ASSUME irregular = {}, NEW x \in DOMAIN insts,
                              \/ \E a \in Aliases : executors[a] = x /\ executors'[a] # x
                              \/ Removes(calls[c], x)
                       PROVE  MaySet \/ Done(x)'
            BY <1>1 DEF NothingLeft
        <3>2. ~Removes(calls[c], x)
            BY <1>1 DEF Waiting, Removes
        <3>3. executors[calls[c].alias] = x
            BY <2>7, <3>1, <3>2
        <3>4. MaySet \/ Done(x)
            BY <1>2, <1>3, <3>1, <3>3
        <3>5. QED BY <2>5, <3>4 DEF Settling
    <2>13. QED BY <1>1, <2>4, <2>5, <2>9, <2>10, <2>11, <2>12, LoopsUnchanged, QuietCall
<1>6. QED BY <1>4, <1>5

\* remove_executor takes the alias away and then waits for the pool.
LEMMA QuietRemoveBegins ==
    ASSUME TypeOK, QuietInv, NEW c \in Callers, NEW a \in Aliases, RemoveExecutor(c, a)
    PROVE  QuietInv'
<1> DEFINE r == [Idle EXCEPT !.op = "remove", !.pc = "shut", !.inst = executors[a]]
<1>1. Begin(c, "remove", r)
    BY DEF RemoveExecutor
<1>2. r.op = "remove" /\ r.pc = "shut" /\ r.inst = executors[a] /\ r.wait
    BY DEF Idle
<1> HIDE DEF r
<1>3. PICK v : /\ calls' = [calls EXCEPT ![c] = v]
               /\ v.op = "remove" /\ v.pc = "shut" /\ v.inst = executors[a] /\ v.wait
    BY <1>1, <1>2 DEF Begin
<1>4. Becomes(c, v) /\ calls[c].op = "none"
    BY <1>1, <1>3, OneCall DEF Becomes, Begin
<1>5. /\ UNCHANGED <<state, loops, insts, runs>> /\ lock = None /\ lock' = None
      /\ irregular \subseteq irregular' /\ executors' = [executors EXCEPT ![a] = None]
    BY <1>1 DEF RemoveExecutor, LockAfterRemoval, Begin, workVars
<1>6. executors \in [Aliases -> 0..Len(insts)]
    BY AliasesTyped
<1>7. AliasesGoOn /\ NothingLeft(c, v)
    BY <1>3, <1>4, <1>5, <1>6 DEF AliasesGoOn, NothingLeft, Removes
<1>8. ~Waiting(v) /\ ShutsQuietly(v) /\ v.pc # "join"
    BY <1>3 DEF Waiting, ShutsQuietly
<1>9. HolderInv'
    BY <1>3, <1>4, <1>5, <1>8, HolderKept, NoneAssumption DEF QuietInv
<1>10. QED BY <1>4, <1>5, <1>7, <1>8, <1>9, NothingDone, QuietCall

LEMMA QuietRemoveShuts ==
    ASSUME TypeOK, CallInv, QuietInv, NEW c \in Callers, RemoveShuts(c)
    PROVE  QuietInv'
<1>1. calls[c] \in CallType /\ calls[c].op = "remove" /\ calls[c].wait
    BY StepTells DEF RemoveShuts, TypeOK, QuietInv, HolderInv, CallsOf
<1> DEFINE v == [calls[c] EXCEPT !.pc = "drain"]
<1>2. calls' = [calls EXCEPT ![c] = v]
    BY DEF RemoveShuts
<1>3. v.op = "remove" /\ v.pc = "drain" /\ v.inst = calls[c].inst /\ v.wait
    BY <1>1 DEF CallType
<1> HIDE DEF v
<1>4. UNCHANGED <<state, lock, loops, executors, irregular>> /\ Shut(calls[c].inst)
    BY DEF RemoveShuts, schedVars
<1>5. ~Waiting(v) /\ ~Waiting(calls[c]) /\ ShutsQuietly(v) /\ Becomes(c, v)
    BY <1>1, <1>2, <1>3, OneCall DEF Waiting, ShutsQuietly, Becomes
<1>6. Settling /\ RunsGoOn
    BY <1>4, ShutSettles
<1>7. QED BY <1>1, <1>3, <1>4, <1>5, <1>6, LoopsUnchanged, QuietPlain

LEMMA QuietRemoveDone ==
    ASSUME TypeOK, QuietInv, NEW c \in Callers, RemoveDone(c)
    PROVE  QuietInv'
<1>1. /\ UNCHANGED <<state, loops, executors, insts, runs, irregular>> /\ Return(c)
      /\ calls[c].op = "remove" /\ Drained(c)
    BY DEF RemoveDone, workVars
<1>2. lock # c /\ calls[c].wait
    BY <1>1 DEF QuietInv, HolderInv, Updating, CallsOf
<1>3. lock' = lock
    BY <1>2 DEF RemoveDone
<1>4. Done(calls[c].inst)
    BY <1>1, <1>2 DEF Drained, WaitsForRuns, Done
<1>5. /\ Settling /\ RunsGoOn /\ LoopsKept /\ NoNewPass
      /\ DOMAIN insts \subseteq DOMAIN insts'
    BY <1>1, NothingDone
<1>6. Becomes(c, Idle)
    BY <1>1, ReturnBecomes
<1>7. HolderInv'
    BY <1>1, <1>2, <1>3, <1>5, <1>6, IdleQuiet, HolderKept DEF QuietInv
<1>8. AliasesGoOn /\ NothingLeft(c, Idle)
    BY <1>1, <1>4, <1>5 DEF AliasesGoOn, NothingLeft, Removes, Settling
<1>9. QED BY <1>1, <1>5, <1>6, <1>7, <1>8, IdleQuiet, QuietCall
-----------------------------------------------------------------------------
(* The theorem.                                                            *)

LEMMA QuietNext ==
    ASSUME TypeOK, CallInv, LoopInv, QuietInv, [Next]_vars
    PROVE  QuietInv'
<1>1. ASSUME UNCHANGED <<state, lock, loops, executors, insts, runs, calls, irregular>>
      PROVE  QuietInv'
    <2>1. HolderInv' /\ InlineInv'
        BY <1>1 DEF QuietInv, HolderInv, InlineInv, Updating, CallsOf
    <2>2. RunsGoOn /\ \A l \in DOMAIN loops' :
                          InPassNow(l)' => l \in DOMAIN loops /\ InPassNow(l)
        BY <1>1, RunsUnchanged DEF InPassNow
    <2>3. QED BY <1>1, <2>1, <2>2, QuietElsewhere DEF QuietInv
<1>2. ASSUME NEW l \in DOMAIN loops, LoopStep(l) \/ LoopFails(l)
      PROVE  QuietInv'
    BY <1>2, QuietLoopStep, QuietSubmit
<1>3. ASSUME NEW c \in Callers, CallBegins(c)
      PROVE  QuietInv'
    BY <1>3, QuietLifecycleBegins, QuietAdd, QuietBeginUpdate, QuietRemoveBegins
       DEF CallBegins
<1>4. ASSUME NEW c \in Callers, CallStep(c)
      PROVE  QuietInv'
    BY <1>4, QuietStart, QuietStartNew, QuietShutdown, QuietUpdateReplaces,
       QuietRemoveShuts, QuietRemoveDone DEF CallStep
<1>5. CASE \E j \in Jobs : JobDue(j)
    BY <1>1, <1>5 DEF JobDue, schedVars
<1>6. CASE UNCHANGED vars
    BY <1>1, <1>6 DEF vars, schedVars, workVars
<1>7. QED BY <1>2, <1>3, <1>4, <1>5, <1>6, QuietRunStep DEF Next

\* Runs, instances and calls agree so well that a call which takes an executor
\* away, and shutdown, leave no run in a pool behind (scheduler.py, executor.py).
THEOREM QuietInvariant == Spec => []QuietInv
<1>1. Init => QuietInv
    <2> SUFFICES ASSUME Init PROVE QuietInv
        OBVIOUS
    <2>1. /\ runs = <<>> /\ lock = None /\ Registered \subseteq Aliases
          /\ \A c \in Callers : calls[c].op = "none" /\ calls[c].pc = "idle"
        BY DEF Init, Idle, Registered
    <2>2. \A x : AllOver(x)
        BY <2>1 DEF AllOver, RunsOf
    <2>3. InlineInv
        BY <2>1 DEF InlineInv
    <2>4. Updating = {} /\ CallsOf({"update", "remove"}) = {} /\ CallsOf({"shutdown"}) = {}
        BY <2>1 DEF Updating, CallsOf
    <2>5. HolderInv
        BY <2>1, <2>4, NoneAssumption DEF HolderInv
    <2>6. PoolsOwned /\ UpdateQuiet /\ StoppedQuiet /\ ShutdownQuiet
        BY <2>2, <2>4 DEF PoolsOwned, UpdateQuiet, StoppedQuiet, ShutdownQuiet, Done
    <2>7. QED BY <2>3, <2>5, <2>6 DEF QuietInv
<1>2. TypeOK /\ CallInv /\ LoopInv /\ QuietInv /\ [Next]_vars => QuietInv'
    BY QuietNext
<1>3. QED BY <1>1, <1>2, TypeCorrect, LoopInvHolds, PTL DEF Spec

\* After a shutdown that waited, and until the next call, no run of a job is in
\* a pool or in its callback (Scheduler.shutdown, ThreadPoolExecutor.shutdown).
THEOREM QuietWhenStoppedHolds == Spec => []QuietWhenStopped
<1>1. TypeOK /\ LoopInv /\ QuietInv => QuietWhenStopped
    <2> SUFFICES ASSUME TypeOK, LoopInv, QuietInv, irregular = {}, state = "stopped",
                        \A c \in Callers : calls[c] = Idle,
                        NEW i \in DOMAIN runs, runs[i].phase \notin Over,
                        insts[runs[i].inst].kind \notin {"asyncio", "gevent", "twisted"}
                 PROVE  MaySet /\ runs[i].inst \in Orphans
        BY DEF QuietWhenStopped, MaySet
    <2> DEFINE x == runs[i].inst
    <2>1. x \in DOMAIN insts /\ insts[x] \in InstType
        <3>1. x \in DOMAIN insts /\ insts \in Seq(InstType)
            BY RunInstance DEF TypeOK
        <3>2. QED BY <3>1, ElementType
    <2>2. \A l \in DOMAIN loops : ~Live(l)
        BY DEF LoopInv, Clean, OnlyLastLives
    <2>3. insts[x].kind # "debug"
        BY <2>2 DEF QuietInv, InlineInv, Live
    <2>4. insts[x].kind = "pool"
        BY <2>1, <2>3 DEF InstType, AllKinds
    <2>5. ~Done(x)
        BY <2>4 DEF Done, AllOver, RunsOf
    <2>6. \A c \in Callers : calls[c].op # "remove"
        BY DEF Idle
    <2>7. \A a \in Aliases : executors[a] # x
        <3>1. x # None
            BY <2>1, AliasesTyped
        <3>2. QED BY <2>5, <3>1 DEF QuietInv, StoppedQuiet, Registered
    <2>8. MaySet
        BY <2>1, <2>5, <2>6, <2>7 DEF QuietInv, PoolsOwned
    <2>9. QED BY <2>1, <2>7, <2>8 DEF Orphans
<1>2. QED BY <1>1, QuietInvariant, TypeCorrect, LoopInvHolds, PTL
=============================================================================
