CONSTANTS
    GpuLists <- MCGpuLists
SPECIFICATION Spec
INVARIANT
    PoolFeedsGraphicsQueue
CHECK_DEADLOCK FALSE
