CONSTANTS
    Owner = owner
    Thieves = {w1, w2}
    Tasks = {a, b}
    NULL = NULL
    Capacity = 2
    MaxIndex = 3
SPECIFICATION FairSpec
PROPERTY
    HandedOut
