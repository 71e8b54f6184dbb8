CONSTANTS
    Calls = {c1, c2}
    NoCall = NoCall
    Servers = {s1}
    Workers = {w1}
    Timeout = 1
    Faults = {"request", "response", "restart", "policy", "worker", "agent"}
    MaxFaults = 1
    MaxQueued = 2
SPECIFICATION FairSpec
CHECK_DEADLOCK FALSE
PROPERTIES
    RunningIsSeen
    GoneIsFoundOut
    WarningArrives
