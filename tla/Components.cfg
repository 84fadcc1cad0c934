\* Requests about jobs and components of two API threads, each at any step of
\* the other; a write may fail and the process is restarted once.  The
\* system stops when the bounds are used up.
SPECIFICATION Spec
CONSTANTS
    j1 = j1
    j2 = j2
    c1 = c1
    c2 = c2
    Jobs = {j1, j2}
    Executor <- OneEach
    Databases = {"sql"}
    Memories = {"m1", "m2", "m3", "m4", "m5", "m6", "m7"}
    Plugins = {"processpool"}
    Requests = {c1, c2}
    Ops <- AllOps
    MaxRequests = 5
    MaxFaults = 1
    MaxRestarts = 1
INVARIANTS
    NoJobLost
    Locatable
    StaysRemoved
    RestoredAsLive
    RegistryInv
SYMMETRY Threads
CHECK_DEADLOCK FALSE
