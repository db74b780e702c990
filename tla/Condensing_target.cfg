\* an agent that browses, up to the first summaries
CONSTANTS
    KeepFirst = 2
    MaxSize = 8
    AttentionWindow = 1
    Browsing = {TRUE}
    MaxEvents = 16
    MaxMessages = 2
    MaxRequests = 1
SPECIFICATION CondenseSpec
INVARIANTS SummarizedToTarget
\* the history is bounded
CHECK_DEADLOCK FALSE
