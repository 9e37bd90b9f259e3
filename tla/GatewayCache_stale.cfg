\* One GetObject, one HEAD and one PUT of the key.
CONSTANTS
    Callers = {c1}
    HeadReqs = {h1}
    Writers = {w1}
    Deletes = {}
    None = None
    Err = Err
    NoSuchKey = NoSuchKey
    Listers = {l1}
SPECIFICATION Spec
INVARIANT CacheNotStale
CHECK_DEADLOCK FALSE
