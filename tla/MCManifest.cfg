SPECIFICATION Spec
CONSTANTS
    Worlds <- MCWorlds
    WeightBits = 8
    RouteIds = {r1, r2}
    UpstreamIds = {u1}
    Vals = {1, 2}
    MaxRoutes = 3
    MaxUpstreams = 1
INVARIANTS
    MemoryFollows
    RoutesAgree
    ListenersApart
    NodesWeighted
PROPERTIES
    EventsChange
    DomainsStable
