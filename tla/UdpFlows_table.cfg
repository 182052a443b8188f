SPECIFICATION FairSpec
CONSTANTS
    p1 = p1
    p2 = p2
    f1 = f1
    f2 = f2
    f3 = f3
    None = None
    Peers = {p1, p2}
    Flows = {f1, f2, f3}
    MaxFlows = 1
    Mailbox = 1
    Notices = 1
INVARIANTS NoDeadEntry TableBounded
PROPERTIES EndedForgotten FlowsEnd
CHECK_DEADLOCK FALSE
