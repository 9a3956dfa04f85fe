SPECIFICATION Spec
CONSTANTS
    RetryBackoffs <- Backoffs
    DocumentedOffsets <- Offsets
    Sizes = {8, 64, 65}
    MaxHops = 2
INVARIANTS
    TypeOK
    PublishedSchedule
    ValidIsAuthentic
    DetectedAsSent
    AuthenticIsLabelled
CHECK_DEADLOCK FALSE
