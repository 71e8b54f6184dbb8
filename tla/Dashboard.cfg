\* Each page on two or three objects, with up to three requests or events.
CONSTANTS
    Channels = {"ctf", "global"}
    Home = "ctf"
    AlertLimit = 2
    NoticeLimit = 1
    MaxSockets = 3
    MaxSocketEvents = 2
    Admins = {a1}
    MaxPairs = 3
    MaxCalls = 2
    MaxTrouble = 2
    Incidents = {i1, i2}
    Filters = {"OPEN", "REVIEWED"}
    MaxRequests = 2
    MaxReviewEvents = 2
    Nodes = {n1, n2}
    ScreenServers = {"p1", "p2"}
    MaxEntries = 1
    MaxLoops = 2
    MaxUrls = 2
    MaxUploads = 2
    Domains = {"claude.ai", "poe.com"}
    Processes = {}
    Extensions = {".gguf"}
    Builtin <- TheBuiltin
    Sizes = {0, 50}
    MaxEdits = 3
    FleetNodes = {n1, n2}
    MaxFleetRequests = 2
    MaxFleetEvents = 1
    Contestants = {n1, n2}
    MaxGridRequests = 2
    MaxGridEvents = 1
    Keys = {"contestant", "activity"}
    MaxCommands = 1
    MaxPageEvents = 3
    Users = {me, u1}
    Me = me
    RolesChosen = {"ADMIN"}
    MaxUserRequests = 1
    MaxUserEvents = 1
    Competitions = {c1, c2, c3}
    FirstCompetition = c1
    MaxEntered = 2
    MaxCompRequests = 2
    MaxCompEvents = 1
SPECIFICATION DashboardSpec
CHECK_DEADLOCK FALSE
INVARIANTS
    CurrentIsCovered
    BadgeCatchesUp
    OwnReviewShows
    ImagesInHand
    CleanShowsInForce
    OwnChangesShow
    DeletedHasNoCard
    RefreshIsFresh
    FieldsStayOwn
    TimerIsOfActive
PROPERTIES
    SessionIsKept
