SPECIFICATION Spec
CONSTANTS
    Clusters = {c1, c2}
    Configs = {f1}
    Failures = {}
    MayStop = FALSE
    MaxValue = 1
    MaxStreams = 1
    MaxResponses = 3
INVARIANTS
    TypeOK
    EmittedMatchesState
    EdsRequested
\* The server may stop sending.
CHECK_DEADLOCK FALSE
