\* pause_job and then update_job, in a store that hands out copies.
SPECIFICATION Spec
CONSTANTS
    j1 = j1
    j2 = j2
    Jobs = {j1, j2}
    StoreKind <- AllRedis
    MaxInst <- One
    Grace <- NoGrace
    InitTrigger <- UnitAndOnce
    NewTriggers <- OneTrigger
    ApiOps = {"pause", "update"}
    Faults <- NoFaults
    MaxTime = 2
    MaxCalls = 2
    MaxFaults = 0
INVARIANTS
    PauseHolds
