SPECIFICATION Spec
CONSTANTS
    NotGiven = NotGiven
    LLM_LIST_LIMIT_CAP = 2
    MAX_COMMENTS = 2
    Day = 2
    MAX_REDACTION_DEPTH = 2
    BATCH_SIZE = 2
    MaxLength = 6
    MaxTurns = 3
    MaxFrames = 4
INVARIANTS TrimsRight RepliesAreWhole RealDataStaysPrivate NoQuietOutage
           VerifiedUserOnly OnlyListedLeaves OwnAnswersOnly AnswersAreTrue
CHECK_DEADLOCK FALSE
