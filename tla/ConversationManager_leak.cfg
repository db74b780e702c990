\* finding: the sandbox of a session that is closed while it starts is never removed
CONSTANTS
    Sids = {s1}
    Calls = {c1}
    MaxLoops = 2
SPECIFICATION FairSpec
PROPERTIES SandboxReleased
\* when all calls are done the server may be idle
CHECK_DEADLOCK FALSE
