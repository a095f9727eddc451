SPECIFICATION Spec
CONSTANTS
    Files = {f1, f2}
    RouteNames = {"r"}
    Clusters = {"a", "b"}
    Contents <- MCContents
    MaxChanges = 3
SYMMETRY FileSymmetry
INVARIANTS
    TypeOK
    StateMatchesFiles
    EmittedFollowsFiles
    NodesFromFiles
\* Files need not change any more, and a stop or a panic ends the process.
CHECK_DEADLOCK FALSE
