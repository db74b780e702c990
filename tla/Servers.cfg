\* parts of the servers, each by itself, with interleavings, failures and fairness
CONSTANTS
    Parts = {"manager", "attached", "cluster", "tokens", "bash", "hook", "condensing"}
    Sids = {s1, s2}
    Calls = {c1, c2}
    MaxLoops = 1
    Visits = {v1, v2}
    MaxSessions = 2
    MaxConvs = 3
    Nodes = {n1, n2}
    Conversations = {s1, s2}
    MaxConversations = 1
    MaxSlots = 2
    MaxInbox = 1
    MaxCalls = 2
    MaxFailures = 1
    Requests = {q1, q2}
    Logins = {l1}
    MaxTokens = 3
    MaxLost = 1
    Kinds = {"command", "key", "line", "interrupt", "look"}
    MaxExecutes = 3
    MaxOutput = 2
    Writers = {w1}
    Paths = {p1, p2}
    Sizes = {1}
    SizeLimit = 2
    MaxChanges = 3
    MaxFlushes = 1
    KeepFirst = 2
    MaxSize = 8
    AttentionWindow = 1
    Browsing = {TRUE, FALSE}
    MaxEvents = 18
    MaxMessages = 2
    MaxRequests = 2
SPECIFICATION ServersSpec
INVARIANTS TypeOK NoOrphan
INVARIANTS PartsTypeOK UsedStaysConnected
INVARIANTS ClusterTypeOK OneLoop Announced
INVARIANTS PresentedOnce StoredUsable
INVARIANTS CompletedIsOver OutputOnce
INVARIANTS NeverStranded
INVARIANTS TaskKept SummaryTellsAll CondensedOnce
PROPERTIES GoneIsStopped CallReturns UnusedIsReleased Recovers RequestEnds EventuallySent
\* with nothing left to do a part may be idle
CHECK_DEADLOCK FALSE
