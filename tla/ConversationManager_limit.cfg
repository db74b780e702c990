\* finding: calls that make room at the same time make more loops than the limit
CONSTANTS
    Sids = {s1, s2, s3}
    Calls = {c1, c2, c3}
    MaxLoops = 1
SPECIFICATION Spec
INVARIANTS WithinLimit
CHECK_DEADLOCK FALSE
