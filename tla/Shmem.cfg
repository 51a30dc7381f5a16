CONSTANTS
    a1 = a1
    a2 = a2
    a3 = a3
    b1 = b1
    b2 = b2
    b3 = b3
    x = x
    y = y
    s = s
    c = c
    L = L
    NULL = NULL
    AnyLock = AnyLock
    Default = Default
    Contexts = {w0, w1}
    PEs = {0, 1}
    Addrs = {x, y, s, c}
    Locks = {L}
    Tasks = {a1, a2, a3, b1, b2, b3}
    PEOf <- MCPEOf
    Programs <- MCPrograms
SPECIFICATION MpiSpec
INVARIANTS
    LockExclusion
    SignalAfterData
    BarrierCompletes
    TicketsDistinct
    ResultsDelivered
PROPERTY
    AllCallsReturn
