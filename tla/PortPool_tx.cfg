SPECIFICATION Spec
CONSTANTS
    t1 = t1
    t2 = t2
    n1 = n1
    n2 = n2
    o1 = o1
    o2 = o2
    d1 = d1
    None = None
    Free = Free
    NoRoute = NoRoute
    Shared = Shared
    Tunnels = {t1, t2}
    Nodes = {n1, n2}
    Ports = {1, 2}
    Machines <- OneOfEach
    RouteKeys <- MixedKeys
    Requests <- MixedRequests
    max_tunnels = 2
    Targets = {n1, n2}
    Removable = {n2}
INVARIANTS ExclusivePorts NoLeakedPort SigMatchesRoutes
PROPERTIES PortsKept BackedUntilRemoved
SYMMETRY Symmetry
CHECK_DEADLOCK FALSE
