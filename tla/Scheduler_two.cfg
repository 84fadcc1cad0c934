\* max_instances = 2 and nothing but the passage of time.
SPECIFICATION Spec
CONSTANTS
    j1 = j1
    j2 = j2
    Jobs = {j1}
    StoreKind <- AllMemory
    MaxInst <- Two
    Grace <- NoGrace
    InitTrigger <- AllEveryUnit
    NewTriggers <- OneTrigger
    ApiOps <- NoOps
    Faults <- NoFaults
    MaxTime = 5
    MaxCalls = 0
    MaxFaults = 0
INVARIANTS
    MaxInstancesRespected
