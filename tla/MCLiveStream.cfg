SPECIFICATION FairSpec
CONSTANTS
    Requests = {r1, r2}
    Bodies = {"oversized", "large", "nul"}
    ForwardUrl = TRUE
    EndpointExpires = TRUE
    MaxFaults = 2
    Streams = {s1, s2}
    MaxConns = 3
INVARIANTS TypeOK OnceInOrder SkipsOnlyDeleted ResetsItsOwn WholeOrAbsent BlobBacksRow CountIsExact
PROPERTIES Delivered
CHECK_DEADLOCK FALSE
