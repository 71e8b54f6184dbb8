CONSTANTS
    Calls = {c1, c2}
    NoCall = NoCall
    Servers = {s1, s2}
    Workers = {w1, w2}
    Timeout = 1
    Faults = {"request", "response", "policy", "restart", "agent"}
    MaxFaults = 2
    MaxQueued = 1
SPECIFICATION Spec
CHECK_DEADLOCK FALSE
INVARIANTS
    LocksAreQueued
    AwaitedIsServed
    SilenceIsFlagged
PROPERTIES
    TimeoutOncePerSession
SYMMETRY Alike
