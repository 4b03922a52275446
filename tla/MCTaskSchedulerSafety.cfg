CONSTANTS
    m_threadCount = 3
    ScheduleTryCycles = 1
    ThreadIdLimit = 8
    Queues = {0, 1, 2}
    Clients = {c1}
    Owner = Owner
    Threads = {0, 1, 2, c1, Owner}
    Tasks = {k1, k2}
    AsyncTasks = {}
    ThrowingTasks = {}
    EmptyTasks = {}
    None = None
    SpuriousTryLock = FALSE
    NestedWait = FALSE
    SpawnMayFail = FALSE
SYMMETRY Symmetry
SPECIFICATION SchedulerSpec
INVARIANTS
    NoTaskLeft
    AbandonedQueueServed
PROPERTIES
    PoolSafe
