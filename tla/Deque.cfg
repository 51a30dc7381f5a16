CONSTANTS
    Owner = owner
    Thieves = {w1, w2}
    Tasks = {a, b, c}
    NULL = NULL
    Capacity = 2
    MaxIndex = 4
SPECIFICATION Spec
SYMMETRY Symmetry
INVARIANTS
    TypeOK
    WindowSound
    CasTakesOldest
PROPERTY
    ImplementsTaskDeque
