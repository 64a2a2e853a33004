SPECIFICATION Spec
CONSTANTS
    Url = "redis"
    User = {alice, bob}
    SessionId = {s}
    NumRequests = 3
    MaxTurns = 2
    MaxSessions = 2
    Timeout = 1
    MaxRounds = 1
    MaxCalls = 2
    Horizon = 2
    Environments <- OverRedis
INVARIANTS ListsStayWhole OwnHistoryOnly KeepsRecentTurns OneProbe
PROPERTIES SavesExtend
SYMMETRY Interchangeable
CHECK_DEADLOCK FALSE
