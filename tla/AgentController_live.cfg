\* all modes; everything may happen and fail, under fairness
CONSTANTS
    Modes <- AllModes
    MayStop = TRUE
    MaxInputs = 2
SPECIFICATION FairSpec
INVARIANTS TypeOK PendingAnswerable NoStall ExecutedOnce ApprovedOnly LimitNeedsUser
PROPERTIES Rests
\* a finished agent waits for the user
CHECK_DEADLOCK FALSE
