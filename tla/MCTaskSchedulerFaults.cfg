CONSTANTS
    m_threadCount = 2
    ScheduleTryCycles = 1
    ThreadIdLimit = 5
    Queues = {0, 1}
    Clients = {c1}
    Owner = Owner
    Threads = {0, 1, c1, Owner}
    Tasks = {k1, k2, k3}
    AsyncTasks = {k3}
    ThrowingTasks = {k2, k3}
    EmptyTasks = {k1}
    None = None
    SpuriousTryLock = TRUE
    NestedWait = FALSE
    SpawnMayFail = TRUE
SPECIFICATION SchedulerSpec
INVARIANTS
    SchedulerTypeOK
    Conservation
