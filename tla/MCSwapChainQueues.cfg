CONSTANTS
    ImagesInFlight = 3
    ImageCount = 3
    SameQueue = FALSE
    SubmitMayFail = TRUE
    PresentMayFail = TRUE
SPECIFICATION Spec
INVARIANTS
    PresentsRendered
    NoTearing
PROPERTIES
    AcquireSemaphoreFree
CHECK_DEADLOCK FALSE
