\* Two coroutines of the API process and a Celery worker: the score settles.
\* The thresholds put 85 (fresh) and 8 (decayed) at one level.
CONSTANTS
    DecayRecent = 0
    DecayMedium = 0
    DecayOld = 0
    ThresholdGreen = 5
    ThresholdYellow = 8
    ApiHandlers = {a1, a2}
    Workers = {w1}
    ApiTypes = {"AI_AGENT"}
    WorkerTypes = {}
    TaskKinds = {"review", "recalc", "heartbeat", "tick", "restart"}
    MaxIncidents = 1
    MaxLocks = 0
SPECIFICATION FairSpec
PROPERTIES
    ScoreConverges
    ApiWarningTaken
