CONSTANTS
    NULL = NULL
    Workers = {0, 1, 2}
    StateSize <- MCStateSize
    Setups <- MCSetups
    Programs <- MCPrograms
SPECIFICATION FairSpec
INVARIANTS
    ServedByOwner
    AbortJustified
    DataDelivered
    GatherExact
    StatesKept
PROPERTY
    LaunchEnds
