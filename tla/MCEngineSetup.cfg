CONSTANTS
    GpuLists <- MCGpuLists
SPECIFICATION Spec
INVARIANTS
    TypeOK
    ChildrenFirst
    AllReleased
    FirstSuitablePicked
    QueuesFound
CHECK_DEADLOCK FALSE
