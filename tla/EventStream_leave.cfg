\* finding: an event dispatched while a callback is being subscribed ends the queue thread
CONSTANTS
    Threads = {t1}
    Readers = {}
    Callbacks = {1, 2}
    Churning = {1}
    CacheSize = 2
    AtomicFiles = TRUE
    MayExit = FALSE
    MaxAdds = 1
    MaxCrashes = 0
SPECIFICATION Spec
INVARIANTS DispatcherSurvives
\* a closed stream with no calls left stops
CHECK_DEADLOCK FALSE
