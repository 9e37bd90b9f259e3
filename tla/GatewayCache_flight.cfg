\* Two concurrent GetObject calls, a HEAD and one DELETE of the key; any reader may be cancelled.
CONSTANTS
    Callers = {c1, c2}
    HeadReqs = {h1}
    Writers = {w1}
    Deletes = {w1}
    None = None
    Err = Err
    NoSuchKey = NoSuchKey
    Listers = {l1}
SPECIFICATION Spec
INVARIANT TypeOK
PROPERTY Termination 
CHECK_DEADLOCK FALSE
