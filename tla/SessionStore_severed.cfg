SPECIFICATION Spec
CONSTANTS
    Url = "unset"
    User = {alice}
    SessionId = {s}
    NumRequests = 3
    MaxTurns = 2
    MaxSessions = 2
    Timeout = 2
    MaxRounds = 1
    MaxCalls = 1
    Horizon = 2
    Environments <- HangUps
INVARIANTS PairsStayTogether
SYMMETRY Interchangeable
CHECK_DEADLOCK FALSE
