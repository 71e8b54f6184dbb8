CONSTANTS
    Calls = {c1, c2}
    NoCall = NoCall
    Servers = {s1, s2}
    Workers = {w1}
    Timeout = 1
    Faults = {}
    MaxFaults = 0
    MaxQueued = 1
SPECIFICATION FairSpec
CHECK_DEADLOCK FALSE
PROPERTIES
    WarningArrives
