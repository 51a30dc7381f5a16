CONSTANTS
    MaxWorkers = 2
    MaxCtx = 4
    Entry = Entry
    Main = Main
    a = a
    b = b
    c = c
    d = d
    e = e
    p = p
    q = q
    NULL = NULL
    Tasks = {Entry, a, b}
    Promises = {p}
    Programs <- OneWait
SPECIFICATION Spec
INVARIANTS
    DefunctDestroyed
