SPECIFICATION Spec
CONSTANTS
    s1 = s1
    s2 = s2
    t1 = t1
    t2 = t2
    da = da
    db = db
    cd = cd
    None = None
    Sessions = {s1, s2}
    Stops = {}
    Subdomains = {da, db}
    Ports = {1, 2}
    Domains = {cd}
    TunnelIds = {t1, t2}
    Claims <- HostClaims
INVARIANTS ServingIsRoutable
CHECK_DEADLOCK FALSE
