\* finding: a request gets the event stream of before the session began
CONSTANTS
    Visits = {v1, v2}
    MaxSessions = 1
    MaxConvs = 1
SPECIFICATION AttachSpec
PROPERTIES SharesStream
\* with nothing left to do the server may be idle
CHECK_DEADLOCK FALSE
