SPECIFICATION Spec
CONSTANTS
    s1 = s1
    s2 = s2
    c1 = c1
    None = None
    Withheld = Withheld
    Sessions = {s1, s2}
    Calls = {c1}
    MaxVersion = 0
    Faults = {}
    MaxFaults = 0
    Loops = {"run_device"}
PROPERTY StoppedStays
CHECK_DEADLOCK FALSE
