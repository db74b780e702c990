\* two threads, killed and reopened at any step
CONSTANTS
    Threads = {t1, t2}
    Readers = {}
    Callbacks = {1}
    Churning = {}
    CacheSize = 2
    AtomicFiles = FALSE
    MayExit = FALSE
    MaxAdds = 2
    MaxCrashes = 2
SYMMETRY Symmetry
SPECIFICATION Spec
INVARIANTS SeenIsStored SearchAgrees SeenInCallOrder
PROPERTIES StoredForever ImplementsLog
\* a closed stream with no calls left stops
CHECK_DEADLOCK FALSE
