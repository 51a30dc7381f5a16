CONSTANTS
    p = p
    q = q
    here = here
    NULL = NULL
    Central = Central
    Promises = {p, q}
    NDistFuncs = 1
    NWorkers = 2
    Coords <- MCCoords
    Calls <- AllCalls
SPECIFICATION FairSpec
INVARIANTS
    Partition
    AwaitsAll
PROPERTY
    ImplementsParallelFor
