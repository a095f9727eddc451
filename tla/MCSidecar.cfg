SPECIFICATION FairSpec
CONSTANTS
    Routes = {r1}
    Upstreams = {u1}
    Readers = {c1, c2}
    MaxBatch = 2
    MaxRevision = 2
INVARIANTS
    TypeOK
    MetaCoversCache
    PushedMetaExact
    CalmRangeExact
PROPERTIES
    ImplementsStore
    BatchPushed
    RangeAnswered
