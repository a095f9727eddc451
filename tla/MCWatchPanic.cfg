SPECIFICATION WatchSpec
CONSTANTS
    Routes = {r1}
    Upstreams = {u1}
    Readers = {}
    MaxBatch = 2
    MaxRevision = 2
    Streams = {s1}
    WatchIds = {1}
    MaxRequests = 1
INVARIANT
    PushersEndByDone
\* A panic ends the process.
CHECK_DEADLOCK FALSE
