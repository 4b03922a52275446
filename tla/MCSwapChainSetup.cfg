CONSTANTS
    ImagesInFlight = 2
    ExtraImages = 1
    Drivers <- MCDrivers
SPECIFICATION Spec
INVARIANTS
    TypeOK
    ChoicesSupported
    AttachmentsExist
    ImagesOutliveViews
    BuiltAndReleased
CHECK_DEADLOCK FALSE
