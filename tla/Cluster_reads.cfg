\* One PUT, a GET and a HEAD of the key while one fault may occur.
CONSTANTS
    n1 = n1  n2 = n2  n3 = n3
    Order <- MCOrder
    W = 2
    R = 2
    PutReqs = {p1}
    GetReqs = {g1}
    HeadReqs = {h1}
    DelReqs = {}
    NoObj = NoObj
    MaxFaults = 1
SPECIFICATION Spec
INVARIANT ObjectNeverLost
CHECK_DEADLOCK FALSE
