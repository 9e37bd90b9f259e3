\* Two PUTs of different keys and a GET, RS(2,1) over 3 nodes, no faults.
CONSTANTS
    k1 = k1  k2 = k2  p1 = p1  p2 = p2  g1 = g1  d1 = d1
    Keys = {k1, k2}
    PutReqs = {p1, p2}
    GetReqs = {g1}
    DelReqs = {}
    KeyOf <- MCKeyOfTmp
    K = 2
    M = 1
    None = None
    MaxFaults = 0
SPECIFICATION Spec
INVARIANT ReadsReturnWrittenData
CHECK_DEADLOCK FALSE
