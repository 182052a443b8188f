SPECIFICATION FairSpec
CONSTANTS
    s1 = s1
    s2 = s2
    c1 = c1
    None = None
    Withheld = Withheld
    Sessions = {s1, s2}
    Calls = {c1}
    MaxVersion = 1
    Faults <- AllFaults
    MaxFaults = 3
    Loops = {"run_device", "run"}
INVARIANT OneConnection
PROPERTIES PauseHolds PausedDrops Resumes
CHECK_DEADLOCK FALSE
