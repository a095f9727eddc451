SPECIFICATION FairSpec
CONSTANTS
    Clusters = {c1}
    Configs = {}
    Failures = {"closing", "other"}
    MayStop = TRUE
    MaxValue = 0
    MaxStreams = 2
    MaxResponses = 1
INVARIANT
    ResetIsCurrent
PROPERTIES
    ResponseAnswered
    ClosingResets
\* The server may stop sending, and a stop or a panic ends the process.
CHECK_DEADLOCK FALSE
