\* The memory store, where the loop and the API calls share Job objects:
\* every job operation, two calls, jobs with max_instances 1.
SPECIFICATION Spec
CONSTANTS
    j1 = j1
    j2 = j2
    Jobs = {j1, j2}
    StoreKind <- AllMemory
    MaxInst <- One
    Grace <- GraceMix
    InitTrigger <- UnitAndOnce
    NewTriggers <- OneTrigger
    ApiOps <- AllOps
    Faults <- NoFaults
    MaxTime = 2
    MaxCalls = 2
    MaxFaults = 0
INVARIANTS
    SingleInstance
    CounterExact
    SettledOnce
    
