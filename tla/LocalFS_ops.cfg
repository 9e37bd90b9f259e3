\* Two PUTs (an empty body and a three-byte one), a GET with or without a Range header, a HEAD and a DELETE with up to two crashes or failed writes.
CONSTANTS
    PutReqs = {p1, p2}
    Stored = {}
    GetReqs = {g1}
    HeadReqs = {h1}
    DelReqs = {d1}
    SizeOf <- MCSizeOf
    RangeHeaders <- MCRangeHeaders
    None = None
    Empty = Empty
    MaxFaults = 2
SPECIFICATION Spec
INVARIANT TypeOK RangeServedPerSpec
CHECK_DEADLOCK FALSE
