SPECIFICATION Spec
CONSTANTS
    Url = "redis"
    User = {alice, bob}
    SessionId = {s}
    NumRequests = 3
    MaxTurns = 2
    MaxSessions = 2
    Timeout = 2
    MaxRounds = 0
    MaxCalls = 1
    Horizon = 1
    Environments <- FirstRequests
PROPERTIES SurvivesRestart
SYMMETRY Interchangeable
CHECK_DEADLOCK FALSE
