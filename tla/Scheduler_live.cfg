\* Progress, with max_instances 2 for one job, so that the unlocked counter
\* does drift, and 1 for the other.
SPECIFICATION FairSpec
CONSTANTS
    j1 = j1
    j2 = j2
    Jobs = {j1, j2}
    StoreKind <- AllMemory
    MaxInst <- TwoOne
    Grace <- GraceMix
    InitTrigger <- UnitAndOnce
    NewTriggers <- OneTrigger
    ApiOps <- StoreOps
    Faults <- NoFaults
    MaxTime = 2
    MaxCalls = 1
    MaxFaults = 0
INVARIANTS
    TypeOK
    LimitMeansRunning
    CounterInv
PROPERTIES
    DueServed
    EveryRunLogged
