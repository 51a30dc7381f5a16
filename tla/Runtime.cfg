CONSTANTS
    MaxWorkers = 2
    MaxCtx = 4
    Entry = Entry
    Main = Main
    a = a
    b = b
    c = c
    d = d
    e = e
    p = p
    q = q
    NULL = NULL
    Tasks = {Entry, a, b, c, d, e}
    Promises = {p, q}
    Programs <- JoinAndWait
SPECIFICATION FairSpec
INVARIANTS
    CounterExact
    FinishJoins
    RunOnce
    ScopeCorrect
    OneHandle
    ResumedWhenReady
    DefunctDestroyed
PROPERTY
    Terminates
