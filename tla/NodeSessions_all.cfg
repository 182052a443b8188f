SPECIFICATION MCFairSpec
CONSTANTS
    s1 = s1
    s2 = s2
    t1 = t1
    t2 = t2
    da = da
    db = db
    cd = cd
    None = None
    Sessions = {s1, s2}
    Stops = {"o1"}
    Subdomains = {da, db}
    Ports = {1, 2}
    Domains = {cd}
    TunnelIds = {t1, t2}
    Claims <- AllClaims
INVARIANTS NoDanglingRoute StopDrains ListenersFreed
PROPERTY PortsFreed
CHECK_DEADLOCK FALSE
