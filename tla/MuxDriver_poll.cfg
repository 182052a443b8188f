SPECIFICATION FairSpec
CONSTANTS
    r1 = r1
    r2 = r2
    r3 = r3
    r4 = r4
    Requests = {r1, r2, r3, r4}
    Capacity = 1
    Backlog = 1
INVARIANT NoLostWakeup
PROPERTIES ImplementsOpenService SendersProceed Answered
CHECK_DEADLOCK FALSE
