SPECIFICATION MCSpec
CONSTANTS
    c1 = c1
    c2 = c2
    u1 = u1
    u2 = u2
    d1 = d1
    d2 = d2
    a1 = a1
    a2 = a2
    None = None
    Codes = {c1}
    Tries = {1, 2}
    Users = {u1, u2}
    Devices = {d1, d2}
    Approvals = {a1}
    Misfiled = FALSE
INVARIANTS OwnersMatch SingleUse
PROPERTIES ImplementsTickets EnrolEnds OnlineEnds
CHECK_DEADLOCK FALSE
