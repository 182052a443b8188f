SPECIFICATION MCSpec
CONSTANTS
    ta = ta
    tb = tb
    None = None
    a1 = a1
    a2 = a2
    b1 = b1
    o1 = o1
    Tunnels = {ta, tb}
    Sessions = {a1, a2, b1}
    Stops = {o1}
    Of <- OfSlot
    Sub <- SubOf
    Custom <- DomainOf
    Orders <- OrdersOf
    Hosts <- Names
    Label <- LabelOf
    Dashboard = {"apex"}
    Conns = {"c1"}
    MaxReads = 3
    Toggled = {"global"}
    Kept = {ta}
INVARIANTS NeverDecrypted ServedAsNamed BlockedRefused
PROPERTY PeekEnds
CHECK_DEADLOCK FALSE
