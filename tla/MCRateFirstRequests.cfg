SPECIFICATION Spec
CONSTANTS
    ingestor = ingestor
    h1 = h1
    h2 = h2
    NoProcess = NoProcess
    Processes = {ingestor}
    SurfaceOf <- Surface
    Handlers = {h1, h2}
    Limit <- Limits
    WindowSeconds <- Windows
    Second = 4
    MaxSkew = 1
    MaxDelay = 1
    MaxTime = 5
    MaxRequests = 3
    MaxFaults = 0
INVARIANTS UnavailableOnlyInOutage
CHECK_DEADLOCK FALSE
