\* A handler in Wait and a goroutine calling AllowN(2), three calls between them,
\* one adaptation, three ticks.
CONSTANTS
    Procs = {p1, p2}
    Waiters = {p1}
    AllowNs = {2}
    Initial = 4
    MinRate = 3
    MaxRate = 5
    Workloads = {"read-heavy", "write-heavy", "bursty"}
    Metrics <- MCMetrics
    Millisecond = 1
    Second = 4
    MaxTime = 3
    MaxAdapt = 1
    MaxCalls = 3
    None = None
SPECIFICATION Spec
INVARIANT RefillCreditsOnce OneLimiterPerBucket
CHECK_DEADLOCK FALSE
