\* One PUT on a 3-node, W=2 cluster while one node may be down for a while.
CONSTANTS
    n1 = n1  n2 = n2  n3 = n3
    Order <- MCOrder
    ListNode = n1
    W = 2
    R = 2
    PutReqs = {p1}
    GetReqs = {}
    HeadReqs = {}
    DelReqs = {}
    NoObj = NoObj
    MaxFaults = 1
SPECIFICATION AESpec
PROPERTY Converges
CHECK_DEADLOCK FALSE
