SPECIFICATION Spec
CONSTANTS
    Clusters = {c1}
    Configs = {}
    Failures = {}
    MayStop = FALSE
    MaxValue = 1
    MaxStreams = 1
    MaxResponses = 2
INVARIANT
    MemoryMatchesState
\* The server may stop sending, and a stop or a panic ends the process.
CHECK_DEADLOCK FALSE
