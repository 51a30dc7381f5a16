CONSTANTS
    Ops = {a, b, c}
    NULL = NULL
SPECIFICATION Spec
INVARIANT NewHeadIsPredecessor
