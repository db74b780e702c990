\* finding: a command is reported as completed before its echo is in the pane
CONSTANTS
    Kinds = {"command"}
    MaxExecutes = 2
    MaxOutput = 1
SPECIFICATION BashSpec
INVARIANTS TrulyOver
\* with nothing left to do the session may be idle
CHECK_DEADLOCK FALSE
