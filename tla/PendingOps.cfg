CONSTANTS
    Ops = {a, b, c, d}
    NULL = NULL
SPECIFICATION FairSpec
INVARIANTS
    NoneLost
    OnePoller
    NoUseAfterFree
    ReportedOnce
PROPERTY
    Reported
