CONSTANTS
    Queues = {q1}
    Threads = {t1, t2, t3}
    Tasks = {k1, k2}
    None = None
    SpuriousTryLock = TRUE
SPECIFICATION MCFairSpec
INVARIANTS
    QueueTypeOK
    NoLostWakeup
PROPERTIES
    CloseReleasesPoppers
    PendingPopTakesTask
    FifoLive
