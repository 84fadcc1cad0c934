\* Every DAG of three nodes and up to three edges, conditional or not, on a
\* pool of two workers; conditions, and the callbacks of a, may raise.
SPECIFICATION FairSpec
CONSTANTS
    a = a
    b = b
    c = c
    Nodes = {a, b, c}
    EdgeChoices <- Edges
    MaxEdges = 3
    MaxWorkers = 2
    Retries <- RetryA
    Callbacks = {a}
    Serializable = TRUE
INVARIANTS
    TypeOK
    AllSettled
    NoTaskOutlivesRun
    ResultsComplete
    FailedAfterRetries
PROPERTIES
    ImplementsDataflow
    RunEnds
CHECK_DEADLOCK FALSE
