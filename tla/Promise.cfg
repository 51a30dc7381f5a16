CONSTANTS
    Workers = {w1, w2}
    p = p
    q = q
    r = r
    a = a
    b = b
    c = c
    d = d
    Promises = {p, q, r}
    Tasks = {a, b, c, d}
    Deps <- CrossedDeps
    MaxNumWaits = 2
    NULL = NULL
    SENTINEL = SENTINEL
    SATISFIED = SATISFIED
SPECIFICATION FairSpec
CHECK_DEADLOCK FALSE
INVARIANTS
    DepsBeforeRun
    OnePlace
    NoUseAfterFree
PROPERTY
    Woken
