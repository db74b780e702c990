\* delivery and close() under fairness; cur_id is also read outside the lock
CONSTANTS
    Threads = {t1, t2}
    Readers = {r1}
    Callbacks = {1, 2}
    Churning = {}
    CacheSize = 2
    AtomicFiles = TRUE
    MayExit = TRUE
    MaxAdds = 1
    MaxCrashes = 0
SPECIFICATION FairSpec
PROPERTIES EventuallySeen CloseReturns
\* a closed stream with no calls left stops
CHECK_DEADLOCK FALSE
