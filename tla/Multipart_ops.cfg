\* Two parts uploaded once each, one Complete, one Abort, the sweeper.
CONSTANTS
    PartNums = {1, 2}
    BadPartNums = {0}
    Tries = {1}
    CompReqs = {c1}
    AbortReqs = {a1}
    Bogus = Bogus
    None = None
    Trunc = Trunc
SPECIFICATION Spec
INVARIANT  ValidateAcceptsExactly
CHECK_DEADLOCK FALSE
