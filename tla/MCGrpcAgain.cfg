SPECIFICATION Spec
CONSTANTS
    Clusters = {c1}
    Configs = {}
    Failures = {"closing"}
    MayStop = FALSE
    MaxValue = 1
    MaxStreams = 2
    MaxResponses = 2
INVARIANT
    EdsRequestedAgain
\* The server may stop sending, and a stop or a panic ends the process.
CHECK_DEADLOCK FALSE
