\* One update_job of a field that is not the trigger, in a store that hands
\* out copies, while a pass advances the job.
SPECIFICATION Spec
CONSTANTS
    j1 = j1
    j2 = j2
    Jobs = {j1, j2}
    StoreKind <- AllTable
    MaxInst <- One
    Grace <- NoGrace
    InitTrigger <- UnitAndOnce
    NewTriggers <- OneTrigger
    ApiOps = {"update"}
    Faults <- NoFaults
    MaxTime = 2
    MaxCalls = 1
    MaxFaults = 0
INVARIANTS
    SettledOnce
