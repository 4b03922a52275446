CONSTANTS
    GpuLists <- MCGpuLists
SPECIFICATION Spec
INVARIANT
    WindowKept
CHECK_DEADLOCK FALSE
