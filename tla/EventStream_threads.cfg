\* two threads add events at the same time; callback 1 comes and goes, callback 2 stays
CONSTANTS
    Threads = {t1, t2}
    Readers = {}
    Callbacks = {1, 2}
    Churning = {1}
    CacheSize = 2
    AtomicFiles = TRUE
    MayExit = FALSE
    MaxAdds = 2
    MaxCrashes = 0
SYMMETRY Symmetry
SPECIFICATION Spec
INVARIANTS TypeOK NoGap NothingLost QuietWhenOff
\* a closed stream with no calls left stops
CHECK_DEADLOCK FALSE
