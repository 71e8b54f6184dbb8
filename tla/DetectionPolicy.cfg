CONSTANTS
    Servers = {s1}
    Proctors = {p1, p2}
    Lists <- MCLists
    Updates <- MCUpdates
    Parents <- MCParents
    Critical = {"ai"}
    High = {}
    Builtin = {"ai", "llm"}
    NoPolicy = NoPolicy
    MaxPuts = 2
    MaxRestarts = 1
SPECIFICATION PolicyFairSpec
INVARIANTS
    CacheWasInForce
PROPERTIES
    PolicyTakesEffect
