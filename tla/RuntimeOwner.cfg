CONSTANTS
    MaxWorkers = 2
    MaxCtx = 4
    Entry = Entry
    Main = Main
    a = a
    b = b
    c = c
    d = d
    e = e
    p = p
    q = q
    NULL = NULL
    Tasks = {Entry, a, b, c}
    Promises = {p}
    Programs <- WaitThenWork
SPECIFICATION Spec
INVARIANTS
    OwnDeque
\* The program may also stop: a context is destroyed with its frames (run runtime_defunct).
CHECK_DEADLOCK FALSE
