SPECIFICATION FairSpec
CONSTANTS
    Configurations <- MCConfigurations
    Clients = {c1, c2}
    MaxDials = 2
    MaxBatches = 2
INVARIANTS
    TypeOK
    CleanEnd
    ApisixClosed
PROPERTY
    StopEnds
\* The process ends.
CHECK_DEADLOCK FALSE
