SPECIFICATION Spec
CONSTANTS
    Url = "unset"
    User = {alice, bob}
    SessionId = {s}
    NumRequests = 4
    MaxTurns = 2
    MaxSessions = 1
    Timeout = 2
    MaxRounds = 1
    MaxCalls = 1
    Horizon = 5
    Environments <- InMemory
INVARIANTS ListsStayWhole KeepsRecentTurns SessionsBounded
PROPERTIES JustStoredStays
SYMMETRY Interchangeable
CHECK_DEADLOCK FALSE
