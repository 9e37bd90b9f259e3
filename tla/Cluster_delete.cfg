\* A PUT, the repair it starts, a DELETE and a GET, with no faults.
CONSTANTS
    n1 = n1  n2 = n2  n3 = n3
    Order <- MCOrder
    W = 2
    R = 2
    PutReqs = {p1}
    GetReqs = {g1}
    HeadReqs = {}
    DelReqs = {d1}
    NoObj = NoObj
    MaxFaults = 0
SPECIFICATION Spec
INVARIANT DeleteIsFinal
CHECK_DEADLOCK FALSE
