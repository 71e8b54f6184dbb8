\* Two handlers race past the deduplication query.
CONSTANTS
    DecayRecent = 0
    DecayMedium = 0
    DecayOld = 0
    ThresholdGreen = 30
    ThresholdYellow = 70
    ApiHandlers = {a1, a2}
    Workers = {w1}
    ApiTypes = {"AI_AGENT"}
    WorkerTypes = {"HEARTBEAT_TIMEOUT"}
    TaskKinds = {"review"}
    MaxIncidents = 2
    MaxLocks = 1
SPECIFICATION Spec
INVARIANT
    AtMostOneOpen
