\* PUTs, the repairs they start and a DELETE while one fault may occur; GETs are exercised by Cluster_reads.
CONSTANTS
    n1 = n1  n2 = n2  n3 = n3
    Order <- MCOrder
    W = 2
    R = 2
    PutReqs = {p1}
    GetReqs = {}
    HeadReqs = {h1}
    DelReqs = {d1}
    NoObj = NoObj
    MaxFaults = 1
SPECIFICATION Spec
PROPERTY Termination
CHECK_DEADLOCK FALSE
