CONSTANTS
    ImagesInFlight = 3
    ImageCount = 3
    SameQueue = TRUE
    SubmitMayFail = TRUE
    PresentMayFail = TRUE
SPECIFICATION FairSpec
INVARIANTS
    TypeOK
    ResourcesFree
PROPERTIES
    CopyDrainsFrames
    CallsReturn
    EveryFrameShown
CHECK_DEADLOCK FALSE
