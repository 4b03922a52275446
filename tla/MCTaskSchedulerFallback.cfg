CONSTANTS
    m_threadCount = 2
    ScheduleTryCycles = 1
    ThreadIdLimit = 4
    Queues = {0, 1}
    Clients = {c1}
    Owner = Owner
    Threads = {0, 1, c1, Owner}
    Tasks = {k1, k2, k3}
    AsyncTasks = {}
    ThrowingTasks = {}
    EmptyTasks = {}
    None = None
    SpuriousTryLock = FALSE
    NestedWait = FALSE
    SpawnMayFail = FALSE
SYMMETRY Symmetry
SPECIFICATION SchedulerSpec
INVARIANTS
    ForcedOntoAThread
