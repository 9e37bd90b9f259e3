\* A key holding the object of an earlier PUT, and one PUT over it with one crash or failed sidecar write.
CONSTANTS
    PutReqs = {p0, p1}
    Stored = {p0}
    GetReqs = {}
    HeadReqs = {}
    DelReqs = {}
    SizeOf <- MCSizeOf
    RangeHeaders <- MCNoRangeHeaders
    None = None
    Empty = Empty
    MaxFaults = 1
SPECIFICATION Spec
INVARIANT ConsistentAtRest
CHECK_DEADLOCK FALSE
