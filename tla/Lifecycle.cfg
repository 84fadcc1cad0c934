\* Every kind of executor; one API thread operates the scheduler while another
\* exchanges its executors; a store read may fail.  The system may stop: when
\* it is shut down, or in the deadlock of update_executor.
SPECIFICATION FairSpec
CONSTANTS
    j1 = j1
    j2 = j2
    c1 = c1
    c2 = c2
    Jobs = {j1, j2}
    Alias <- OneEach
    Aliases = {"default", "extra"}
    Kinds <- AllKinds
    NewKinds = {"pool", "unknown"}
    Callers = {c1, c2}
    Ops <- Operator
    MaxCalls = 3
    MaxLoops = 2
    MaxInst = 2
    MaxDue = 1
    MaxFaults = 1
INVARIANTS
    OneLoop
    StateTruthful
    LockedOutByExecutor
    QuietWhenStopped
    QuietInv
PROPERTIES
    StopReachesLoops
    
    CallbackGetsLock
CHECK_DEADLOCK FALSE
