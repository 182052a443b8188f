SPECIFICATION FairSpec
CONSTANTS
    t1 = t1
    t2 = t2
    d1 = d1
    Tasks = {t1, t2}
    Domains = {d1}
    MaxMade = 3
    MaxLost = 1
    MaxFaults = 2
INVARIANTS OneEnsured ChallengesOfOrders PairsFit
PROPERTIES Durable EnsureEnds
CHECK_DEADLOCK FALSE
