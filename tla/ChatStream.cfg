SPECIFICATION PageSpec
CONSTANTS
    MaxEvents = 2
    MaxLogins = 2
    MaxChats = 2
    MaxTaps = 2
INVARIANTS TypeOK OneEnding DoneMeansSaved NoLooseEnds
PROPERTIES NothingLeftRunning StreamEnds ClientIsAnswered PageIsFree
CHECK_DEADLOCK FALSE
