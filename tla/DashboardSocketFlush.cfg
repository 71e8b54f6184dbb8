\* Two messages on one channel, by one socket and the one that replaces it.
CONSTANTS
    Channels = {"ctf", "global"}
    Home = "ctf"
    AlertLimit = 2
    NoticeLimit = 1
    MaxSockets = 2
    MaxSocketEvents = 2
SPECIFICATION SocketSpec
CHECK_DEADLOCK FALSE
PROPERTIES
    FlushReachesState
