\* A job in a store that loads copies and compares their run times
\* (SQLAlchemy, MongoDB) beside one in Redis, under every fault: a failing
\* submission, a failing job or log write, and a restart of the process.
\* update_job of other fields is left out: Scheduler_again shows what it does.
SPECIFICATION Spec
CONSTANTS
    j1 = j1
    j2 = j2
    Jobs = {j1, j2}
    StoreKind <- TableAndRedis
    MaxInst <- One
    Grace <- GraceMix
    InitTrigger <- UnitAndOnce
    NewTriggers <- OneTrigger
    ApiOps <- StoreOps
    Faults <- AllFaults
    MaxTime = 2
    MaxCalls = 2
    MaxFaults = 2
INVARIANTS
    SettlementInv
