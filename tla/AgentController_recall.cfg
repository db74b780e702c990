\* finding: the failure of a recall that is the last event is not reported
CONSTANTS
    Modes <- OneMode
    MayStop = FALSE
    MaxInputs = 1
SPECIFICATION Spec
INVARIANTS FailureReported
\* a finished agent waits for the user
CHECK_DEADLOCK FALSE
