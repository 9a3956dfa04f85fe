SPECIFICATION Spec
CONSTANTS
    Forwards = {f1}
    Workers = {w1}
    Redrivers = {}
    NoForward = NoForward
    RetryBackoffs <- TwoBackoffs
    JobTimeout = 1
    InProgressTtl = 2
    StuckInFlight = 2
    StuckPending = 2
    KeepResult = 3
    ArqMaxTries = 2
    Responses = {200, 404, 503}
    EndpointExpires = FALSE
    MaxFaults = 0
    MaxRetries = 0
    MaxAbandons = 0
INVARIANTS Scheduled
