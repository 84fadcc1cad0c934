\* Plain edges; the callbacks of a may raise.
SPECIFICATION Spec
CONSTANTS
    a = a
    b = b
    c = c
    Nodes = {a, b, c}
    EdgeChoices <- PlainEdges
    MaxEdges = 2
    MaxWorkers = 2
    Retries <- RetryA
    Callbacks = {a}
    Serializable = TRUE
INVARIANTS
    CallbacksHarmless
CHECK_DEADLOCK FALSE
