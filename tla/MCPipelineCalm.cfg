SPECIFICATION FairSpec
CONSTANTS
    Forwards = {f1, f2}
    Workers = {w1}
    Redrivers = {}
    NoForward = NoForward
    RetryBackoffs <- ThreeBackoffs
    JobTimeout = 1
    InProgressTtl = 2
    StuckInFlight = 2
    StuckPending = 2
    KeepResult = 3
    ArqMaxTries = 2
    Responses = {200, 404, 503}
    EndpointExpires = FALSE
    MaxFaults = 0
    MaxRetries = 0
    MaxAbandons = 0
INVARIANTS FailedIsScheduled
PROPERTIES BackoffRespected AttemptedIsSettled
