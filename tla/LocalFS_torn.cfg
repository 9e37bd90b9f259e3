\* Two PUTs and a GET that races the second, no faults.
CONSTANTS
    PutReqs = {p1, p2}
    Stored = {}
    GetReqs = {g1}
    HeadReqs = {}
    DelReqs = {}
    SizeOf <- MCSizeOf
    RangeHeaders <- MCNoRangeHeaders
    None = None
    Empty = Empty
    MaxFaults = 0
SPECIFICATION Spec
INVARIANT WholeObjectRead
CHECK_DEADLOCK FALSE
