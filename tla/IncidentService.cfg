\* Two coroutines of the API process and a Celery worker: detections and locks.
CONSTANTS
    DecayRecent = 0
    DecayMedium = 0
    DecayOld = 0
    ThresholdGreen = 30
    ThresholdYellow = 70
    ApiHandlers = {a1, a2}
    Workers = {w1}
    ApiTypes = {"MEMORY_MODEL_LOADED"}
    WorkerTypes = {"HEARTBEAT_TIMEOUT"}
    TaskKinds = {"review", "warn", "cancel"}
    MaxIncidents = 2
    MaxLocks = 1
SPECIFICATION Spec
INVARIANTS
    DetectionCounted
    LockOncePerIncident
    LockCountBound
