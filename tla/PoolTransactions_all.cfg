SPECIFICATION MCSpec
CONSTANTS
    t1 = t1
    t2 = t2
    n1 = n1
    n2 = n2
    o1 = o1
    d1 = d1
    x1 = x1
    x2 = x2
    None = None
    Free = Free
    NoRoute = NoRoute
    Shared = Shared
    Tunnels = {t1, t2}
    Nodes = {n1, n2}
    Ports = {1}
    Machines <- OneDevice
    RouteKeys <- MixedKeys
    Requests <- MixedRequests
    max_tunnels = 1
    Targets = {n2}
    Removable = {n2}
    Txs = {x1, x2}
INVARIANTS ExclusivePorts LocksExclusive
PROPERTIES AtomicAlone CapByOverlap EndpointsByOverlap
SYMMETRY Symmetry
CHECK_DEADLOCK FALSE
