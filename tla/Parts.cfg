\* The cache of two under four reports and two mishaps, two connections, three PIDs, three
\* dashboards, three indicators of every weight class, two calls that enrol one contestant,
\* three requests on the settings, two of which may both have loaded the first one's banner,
\* and two coroutines that raise one type, with room for twice the rows their race can make.
CONSTANTS
    MaxEntries = 2
    PruneCount = 2
    Faults = {"crash", "prune", "put", "delete", "unacked", "damage"}
    MaxMishaps = 2
    MaxReports = 4
    Reports = {r1, r2, r3}
    c1 = c1
    c2 = c2
    cdn = cdn
    rig = rig
    chat = chat
    docs = docs
    nowhere = nowhere
    Conns <- TheConns
    IpOf <- TheIpOf
    LocalAI <- TheLocalAI
    Domains = {chat, docs}
    AIDomains <- TheLists
    NoName = nowhere
    ReverseName <- TheReverseName
    Dedup = 3
    Forget = 4
    Machines = {"windows", "linux", "linux service", "darwin"}
    Pids = {p1, p2, p3}
    NoPid = NoPid
    MaxMissed = 3
    MaxExcuses = 2
    d1 = d1
    d2 = d2
    d3 = d3
    ctf = ctf
    Sockets <- TheSockets
    ChannelOf <- TheChannelOf
    Competition = ctf
    Broadcasts = {b1, b2}
    DecayRecent = 1
    DecayMedium = 2
    DecayOld = 3
    ThresholdGreen = 30
    ThresholdYellow = 70
    ReportedTypes = {"BINARY_TAMPER", "LOCAL_LLM", "AI_AGENT", "GPU_SPIKE", "PROXY_VPN", "HELP_REQUEST"}
    MaxIndicators = 3
    Agents = {"m1", "m2"}
    Token <- TheToken
    NoTokenName = "-"
    Calls = {e1, e2}
    Edits = {"add", "rename", "delete", "status", "lose"}
    MaxEdits = 2
    EditNames <- TheEditNames
    MaxRows = 3
    MaxStarts = 2
    Values = {1}
    MaxSettingsRequests = 3
    MaxSettingsEvents = 2
    ApiHandlers = {a1, a2}
    Workers = {w1}
    ApiTypes = {"GPU_SPIKE"}
    WorkerTypes = {}
    TaskKinds = {"review", "cancel"}
    MaxIncidents = 4
    MaxLocks = 0
SPECIFICATION PartsSpec
CHECK_DEADLOCK FALSE
INVARIANTS
    ReportedInTime
    BackInTime
    ReportsAreSpaced
    CleanUpFindsTheSet
    EnrolledOncePerCall
    EnrolledAsItself
    CacheBound
    RepeatsNeedMishaps
    DuplicateBound
    BannerIsOnDisk
    FormShowsSettings
PROPERTIES
    NewsNeverLowers
    RestNeverRaises
    ImplementsQueue
