SPECIFICATION WatchSpec
CONSTANTS
    Routes = {r1}
    Upstreams = {}
    Readers = {c1}
    MaxBatch = 2
    MaxRevision = 2
    Streams = {s1}
    WatchIds = {1}
    MaxRequests = 2
INVARIANTS
    WatchTypeOK
    WatchComplete
\* A panic ends the process.
CHECK_DEADLOCK FALSE
