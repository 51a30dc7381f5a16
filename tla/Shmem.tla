------------------------------- MODULE Shmem -------------------------------
(***************************************************************************)
(* The OpenSHMEM and SOS modules (src/modules/openshmem, src/modules/sos): *)
(* tasks on several processing elements (PEs) call a communication library *)
(* through the one worker that serves the interconnect locale of their PE, *)
(* or, in SOS, through the context of the worker they are on.              *)
(*                                                                         *)
(* A task waits for each call (finish, or hclib_future_wait).  What the    *)
(* library does is external: puts travel, fences order them, collective    *)
(* calls and locks block.  The list of waits is polled as in PendingOps.   *)
(***************************************************************************)
EXTENDS Integers, Sequences, FiniteSets, SequencesExt, FiniteSetsExt

CONSTANTS
    PEs,
    Contexts,   \* the contexts of the workers of a PE (SOS)
    Default,    \* the context of the calls that take none
    Addrs,      \* symmetric addresses
    Locks,
    AnyLock,    \* stands for all the locks of a PE (SOS)
    Tasks,
    PEOf,       \* the PE of each task
    Programs,   \* [module, start, code, ones]: the tasks that start, the calls of each
                \* task, the places <<PE, address>> of memory that hold a 1
    NULL

ASSUME ShmemAssumption ==
    /\ IsFiniteSet(PEs) /\ PEOf \in [Tasks -> PEs]
    /\ Default \notin Contexts /\ NULL \notin Tasks /\ NULL \notin PEs /\ NULL \notin Tasks \X Nat
    /\ \A prog \in Programs : prog.module \in {"openshmem", "sos", "mpi"} /\ prog.start \subseteq Tasks

VARIABLES
    program,
    pc,         \* the next call of each task
    stage,      \* where it is in that call: idle, run, await, posted, entered, pending,
                \* done, put or waiting
    conds,      \* what a task in stage waiting waits for
    turn,       \* the context that shmem_barrier_all quiets next
    busy,       \* the task whose call the interconnect worker of each PE executes
    entered,    \* what each PE brought to each collective call it has entered
    epoch,      \* fences of each PE
    flight,     \* puts and adds on their way
    mem,        \* symmetric memory
    cell,       \* where a fetching call leaves its result
    fetched,    \* the results that each task was returned
    owner,      \* the PE that a lock of the library was granted to
    last,       \* last_lock of each lock of each PE; lock_future
    live,       \* live of each lock of each PE; next_to_put
    await,      \* the promise of the holder before a task
    toPut,      \* the promise that a clearing task puts
    satisfied,  \* promises put
    aborted     \* an assertion failed

tasks == <<program, pc, stage, conds, turn>>
library == <<busy, entered, epoch, flight, mem, cell, fetched, owner>>
locking == <<last, live, await, toPut, satisfied>>
vars == <<tasks, library, locking, aborted>>

-----------------------------------------------------------------------------
(* Calls *)

Instr(lib, via, a, b, v, pe) == [lib |-> lib, via |-> via, a |-> a, b |-> b, v |-> v, pe |-> pe]

\* finish { async_nb_at(the call, nic) }
NicCall(lib, a, b, v, pe) == Instr(lib, "nic", a, b, v, pe)

\* Directly, on the context of the current worker.
CtxCall(lib, a, b, v, pe) == Instr(lib, "ctx", a, b, v, pe)

shmem_malloc == NicCall("malloc", NULL, NULL, NULL, NULL)
shmem_free == NicCall("free", NULL, NULL, NULL, NULL)
shmem_barrier_all == NicCall("barrier", NULL, NULL, NULL, NULL)
shmem_fence == NicCall("fence", NULL, NULL, NULL, NULL)
shmem_quiet == NicCall("quiet", NULL, NULL, NULL, NULL)
shmem_put64(dest, source, pe) == NicCall("put", dest, source, NULL, pe)
shmem_broadcast64(dest, source, root) == NicCall("broadcast", dest, source, root, NULL)
shmem_broadcast32(dest, source, root) == NicCall("broadcast", dest, source, root, NULL)
shmem_int_get(dest, source, pe) == NicCall("get", dest, source, NULL, pe)
shmem_getmem(dest, source, pe) == NicCall("get", dest, source, NULL, pe)
shmem_putmem(dest, source, pe) == NicCall("put", dest, source, NULL, pe)
shmem_int_put(dest, source, pe) == NicCall("put", dest, source, NULL, pe)
shmem_int_p(dest, value, pe) == NicCall("p", dest, NULL, value, pe)
shmem_char_put_nbi(dest, source, pe) == NicCall("put", dest, source, NULL, pe)
shmem_char_put_signal_nbi(dest, source, signal, value, pe) ==
    NicCall("put_signal", dest, source, <<signal, value>>, pe)
shmem_int_add(dest, value, pe) == NicCall("add", dest, NULL, value, pe)
shmem_longlong_fadd(target, value, pe) == NicCall("fadd", target, NULL, value, pe)
shmem_int_fadd(dest, value, pe) == NicCall("fadd", dest, NULL, value, pe)
shmem_int_finc(dest, pe) == NicCall("fadd", dest, NULL, 1, pe)
shmem_int_swap(dest, value, pe) == NicCall("swap", dest, NULL, value, pe)
shmem_int_sum_to_all(target, source) == NicCall("sum", target, source, NULL, NULL)
shmem_longlong_sum_to_all(target, source) == NicCall("sum", target, source, NULL, NULL)
shmem_longlong_max_to_all(target, source) == NicCall("max", target, source, NULL, NULL)
shmem_longlong_p(addr, value, pe) == NicCall("p", addr, NULL, value, pe)
shmem_longlong_put(dest, source, pe) == NicCall("put", dest, source, NULL, pe)
shmem_collect32(dest, source) == NicCall("collect", dest, source, NULL, NULL)
shmem_fcollect64(dest, source) == NicCall("collect", dest, source, NULL, NULL)
shmem_set_lock(lock) == Instr("set_lock", "lock", lock, NULL, NULL, NULL)
shmem_clear_lock(lock) == Instr("clear_lock", "unlock", lock, NULL, NULL, NULL)
shmem_int_wait_until(a, cmp, v) == Instr("wait", "wait", NULL, NULL, {<<a, cmp, v>>}, NULL)
shmem_int_wait_until_any(infos) == Instr("wait", "wait", NULL, NULL, infos, NULL)
shmem_int_async_when(a, cmp, v, task) == Instr("async_when", "wait", task, NULL, {<<a, cmp, v>>}, NULL)
shmem_int_async_when_any(infos, task) == Instr("async_when", "wait", task, NULL, infos, NULL)

\* The calls that SOS makes in the same way.
sos_malloc == shmem_malloc
sos_free == shmem_free
sos_fence == shmem_fence
sos_quiet == shmem_quiet
sos_put64(dest, source, pe) == shmem_put64(dest, source, pe)
sos_broadcast64(dest, source, root) == shmem_broadcast64(dest, source, root)
sos_int_get(dest, source, pe) == shmem_int_get(dest, source, pe)
sos_char_put_nbi(dest, source, pe) == shmem_char_put_nbi(dest, source, pe)
sos_char_put_signal_nbi(dest, source, signal, value, pe) ==
    shmem_char_put_signal_nbi(dest, source, signal, value, pe)
sos_int_add(dest, value, pe) == shmem_int_add(dest, value, pe)
sos_int_fadd(dest, value, pe) == shmem_int_fadd(dest, value, pe)
sos_int_sum_to_all(target, source) == shmem_int_sum_to_all(target, source)
sos_longlong_sum_to_all(target, source) == shmem_longlong_sum_to_all(target, source)
sos_longlong_max_to_all(target, source) == shmem_longlong_max_to_all(target, source)
sos_longlong_p(addr, value, pe) == shmem_longlong_p(addr, value, pe)
sos_longlong_put(dest, source, pe) == shmem_longlong_put(dest, source, pe)
sos_collect32(dest, source) == shmem_collect32(dest, source)
sos_fcollect64(dest, source) == shmem_fcollect64(dest, source)
sos_int_wait_until(a, cmp, v) == shmem_int_wait_until(a, cmp, v)

\* The calls that differ in SOS.
sos_barrier_all == Instr("barrier", "quiet", NULL, NULL, NULL, NULL)
sos_getmem(dest, source, pe) == CtxCall("get", dest, source, NULL, pe)
sos_putmem(dest, source, pe) == CtxCall("put", dest, source, NULL, pe)
sos_int_put(dest, source, pe) == CtxCall("put", dest, source, NULL, pe)
sos_longlong_fadd(target, value, pe) == CtxCall("fadd", target, NULL, value, pe)
sos_int_swap(dest, value, pe) == CtxCall("swap", dest, NULL, value, pe)
sos_int_cswap(dest, cond, value, pe) == CtxCall("cswap", dest, cond, value, pe)
sos_long_finc(dest, pe) == CtxCall("fadd", dest, NULL, 1, pe)
sos_int_finc(dest, pe) == CtxCall("fadd", dest, NULL, 1, pe)

Collective == {"malloc", "free", "barrier", "broadcast", "sum", "max", "collect", "reduce"}

-----------------------------------------------------------------------------
(* Programs *)

\* A lock of OpenSHMEM has a chain of promises; SOS has one chain for all.
KeyIn(prog, lock) == IF prog.module = "sos" THEN AnyLock ELSE lock

\* The arguments of a call: the locks are set and cleared by shmem_set_lock and
\* shmem_clear_lock, and a put goes to an address of a PE.
WellFormed(ins) ==
    /\ ins.via = "lock" => ins.a \in Locks /\ ins = shmem_set_lock(ins.a)
    /\ ins.via = "unlock" => ins.a \in Locks /\ ins = shmem_clear_lock(ins.a)
    /\ ins.lib \in {"set_lock", "clear_lock"} => ins.via \in {"lock", "unlock"}
    /\ ins.lib \in {"put", "p", "add", "put_signal"} => ins.pe \in PEs /\ ins.a \in Addrs
    /\ ins.lib = "put_signal" => ins.v[1] \in Addrs

\* A task clears the lock that it has set, and sets none of the same chain
\* twice without clearing it in between.
Bracketed(prog, code) ==
    LET Of(i, k) == code[i].via \in {"lock", "unlock"} /\ KeyIn(prog, code[i].a) = k IN
    /\ \A i \in DOMAIN code : code[i].via = "unlock" =>
            \E j \in 1 .. i - 1 :
                /\ code[j] = shmem_set_lock(code[i].a)
                /\ \A m \in j + 1 .. i - 1 : ~Of(m, KeyIn(prog, code[i].a))
    /\ \A i, j \in DOMAIN code :
            /\ i < j /\ code[i].via = "lock" /\ code[j].via = "lock"
            /\ KeyIn(prog, code[i].a) = KeyIn(prog, code[j].a)
            => \E m \in i + 1 .. j - 1 : code[m] = shmem_clear_lock(code[i].a)

\* The calls that start the task that they name.
Starts(ins) == ins.via = "async" \/ (ins.via = "wait" /\ ins.lib # "wait")

\* A task that another one starts is started once; an operation that returns a
\* future begins with a call at the interconnect locale.
StartedOnce(prog) ==
    \A t, u \in Tasks : \A i \in DOMAIN prog.code[t], j \in DOMAIN prog.code[u] :
        LET ins == prog.code[t][i] IN
        Starts(ins) =>
            /\ ins.a \in Tasks \ prog.start
            /\ Starts(prog.code[u][j]) /\ prog.code[u][j].a = ins.a => <<t, i>> = <<u, j>>
            /\ ins.via = "async" =>
                    1 \in DOMAIN prog.code[ins.a] /\ prog.code[ins.a][1].via \in {"nic", "request"}

\* Call ins of task t may write to address a of a PE, and not to add to it.
Overwrites(t, ins, pe, a) ==
    \/ ins.lib \in {"put", "p", "put_signal", "swap", "cswap"} /\ ins.pe = pe /\ ins.a = a
    \/ ins.lib = "put_signal" /\ ins.pe = pe /\ ins.v[1] = a
    \/ (ins.lib = "get" \/ ins.lib \in Collective \/ ins.via = "request") /\ PEOf[t] = pe /\ ins.a = a

\* An address of a PE that the program only adds to.
Counter(prog, pe, a) ==
    /\ pe \in PEs /\ a \in Addrs
    /\ \A t \in Tasks : \A i \in DOMAIN prog.code[t] :
        LET ins == prog.code[t][i] IN
        /\ ~Overwrites(t, ins, pe, a)
        /\ ins.lib \in {"fadd", "add"} /\ ins.pe = pe /\ ins.a = a => ins.v \in Nat \ {0}

\* The fetching adds of a program are calls of the library on counters.
Counted(prog) ==
    \A t \in Tasks : \A i \in DOMAIN prog.code[t] :
        LET ins == prog.code[t][i] IN
        ins.lib = "fadd" => ins.via # "request" /\ Counter(prog, ins.pe, ins.a)

\* Task t makes collective calls.
Collects(prog, t) == \E i \in DOMAIN prog.code[t] : prog.code[t][i].lib \in Collective

\* The number of calls of some kinds that task t makes before its call n.
CallsBefore(prog, t, n, kinds) == Cardinality({k \in 1 .. n - 1 : prog.code[t][k].lib \in kinds})

\* The collective calls of a PE are made by one of its tasks, at the
\* interconnect locale, and those of all PEs are barriers in the same places; a
\* barrier quiets the contexts that the task puts on.
InStep(prog) ==
    /\ \A t \in Tasks : \A i \in DOMAIN prog.code[t] :
        LET ins == prog.code[t][i] IN
        /\ ins.lib \in Collective => ins.via \in {"nic", "quiet"}
        /\ ins.via = "quiet" => ins.lib = "barrier"
        /\ ins.lib = "barrier" /\ (\E j \in DOMAIN prog.code[t] : prog.code[t][j].via = "ctx")
                => ins.via = "quiet"
    /\ \A t, u \in Tasks : Collects(prog, t) /\ Collects(prog, u) /\ PEOf[t] = PEOf[u] => t = u
    /\ \A t, u \in Tasks : \A i \in 1 .. Len(prog.code[t]) + 1, j \in 1 .. Len(prog.code[u]) + 1 :
        CallsBefore(prog, t, i, Collective) <= CallsBefore(prog, u, j, Collective)
            => CallsBefore(prog, t, i, {"barrier"}) <= CallsBefore(prog, u, j, {"barrier"})

\* A signal is put to a place that nothing else is written to, and differs
\* from what is there at first.
OwnSignals(prog) ==
    \A u \in Tasks : \A k \in DOMAIN prog.code[u] :
        LET sig == prog.code[u][k] IN
        sig.lib = "put_signal" =>
            /\ sig.via = "nic" /\ sig.v[1] # sig.a
            /\ sig.v[2] # IF <<sig.pe, sig.v[1]>> \in prog.ones THEN 1 ELSE 0
            /\ \A t \in Tasks : \A i \in DOMAIN prog.code[t] :
                LET ins == prog.code[t][i] IN
                <<t, i>> # <<u, k>> =>
                    /\ ~Overwrites(t, ins, sig.pe, sig.v[1])
                    /\ ~(ins.lib \in {"fadd", "add"} /\ ins.pe = sig.pe /\ ins.a = sig.v[1])

ASSUME ProgramsAssumption ==
    \A prog \in Programs :
        /\ DOMAIN prog.code = Tasks
        /\ \A t \in Tasks :
            /\ Len(prog.code[t]) \in Nat /\ DOMAIN prog.code[t] = 1 .. Len(prog.code[t])
            /\ \A i \in DOMAIN prog.code[t] : WellFormed(prog.code[t][i])
            /\ Bracketed(prog, prog.code[t])
        /\ StartedOnce(prog)

-----------------------------------------------------------------------------
Ended(t) == pc[t] > Len(program.code[t])
Now(t) == program.code[t][pc[t]]

\* Task t is in a call that goes the way via.
In(t, s, via) == ~aborted /\ stage[t] = s /\ ~Ended(t) /\ Now(t).via \in via

\* The promise of the call that task t is in.
Mine(t) == <<t, pc[t]>>

Key(lock) == KeyIn(program, lock)

Init ==
    /\ program \in Programs
    /\ pc = [t \in Tasks |-> 1]
    /\ stage = [t \in Tasks |-> IF t \in program.start THEN "run" ELSE "idle"]
    /\ conds = [t \in Tasks |-> {}]
    /\ turn = [t \in Tasks |-> {}]
    /\ busy = [p \in PEs |-> NULL]
    /\ entered = [p \in PEs |-> << >>]
    /\ epoch = [p \in PEs |-> 0]
    /\ flight = {}
    /\ mem = [p \in PEs |-> [a \in Addrs |-> IF <<p, a>> \in program.ones THEN 1 ELSE 0]]
    /\ cell = [t \in Tasks |-> 0]
    /\ fetched = [t \in Tasks |-> << >>]
    /\ owner = [l \in Locks |-> NULL]
    /\ last = [p \in PEs |-> [l \in Locks \cup {AnyLock} |-> NULL]]
    /\ live = [p \in PEs |-> [l \in Locks \cup {AnyLock} |-> NULL]]
    /\ await = [t \in Tasks |-> NULL]
    /\ toPut = [t \in Tasks |-> NULL]
    /\ satisfied = {}
    /\ aborted = FALSE

Abort == aborted' = TRUE /\ UNCHANGED <<tasks, library, locking>>

Goes(t, s) ==
    /\ stage' = [stage EXCEPT ![t] = s]
    /\ UNCHANGED <<program, pc, conds, turn>>
Returns(t) ==
    /\ stage' = [stage EXCEPT ![t] = "run"]
    /\ pc' = [pc EXCEPT ![t] = @ + 1]
    /\ turn' = [turn EXCEPT ![t] = {}]
    /\ UNCHANGED <<program, conds>>

-----------------------------------------------------------------------------
(* The library *)

\* Task t sends value v to address a of a PE.
Message(t, c, kind, a, v, pe, e) ==
    [task |-> t, at |-> pc[t], from |-> PEOf[t], ctx |-> c, kind |-> kind, to |-> pe,
     a |-> a, v |-> v, epoch |-> e]
Travelling(p, c) == {m \in flight : m.from = p /\ m.ctx = c}

\* Mutant of put_signal: there is no fence between the two puts.
PutSignalUnfenced(t, c, ins) ==
    LET p == PEOf[t] IN
    /\ flight' = flight \cup {Message(t, c, "put", ins.a, mem[p][ins.b], ins.pe, epoch[p]),
                              Message(t, c, "put", ins.v[1], ins.v[2], ins.pe, epoch[p])}
    /\ epoch' = [epoch EXCEPT ![p] = @ + 1]

\* shmem_char_put_nbi, shmem_fence, shmem_char_put_nbi
PutSignal(t, c, ins) ==
    LET p == PEOf[t] IN
    /\ flight' = flight \cup {Message(t, c, "put", ins.a, mem[p][ins.b], ins.pe, epoch[p]),
                              Message(t, c, "put", ins.v[1], ins.v[2], ins.pe, epoch[p] + 1)}
    /\ epoch' = [epoch EXCEPT ![p] = @ + 1]

\* What a PE gets from the contributions of all to a collective call.
Combined(ins, brought) ==
    CASE ins.lib \in {"sum", "reduce"} -> FoldSet(LAMBDA p, s : s + brought[p], 0, PEs)
      [] ins.lib = "max"       -> Max({brought[p] : p \in PEs})
      [] ins.lib = "broadcast" -> brought[ins.v]
      [] ins.lib = "collect"   -> FoldSet(LAMBDA p, s : (2 * s) + brought[p], 0, PEs)

Fetching == {"fadd", "swap", "cswap"}

\* Mutant of ResultOf: one place for the results of all calls.
StaticResult(t) == CHOOSE u \in Tasks : TRUE

\* Each call allocates the place of its result.
ResultOf(t) == t

\* Call ins of task t on context c takes effect and returns.  The library knows
\* a lock by the PE that holds it and does not keep that PE from it.
Effect(t, c, ins) ==
    LET p == PEOf[t]
        old == mem[ins.pe][ins.a]
        round == Len(entered[p])
    IN  \/ /\ ins.lib \in {"put", "p", "add"}
           /\ flight' = flight \cup {Message(t, c, IF ins.lib = "add" THEN "add" ELSE "put", ins.a,
                                        IF ins.lib = "put" THEN mem[p][ins.b] ELSE ins.v, ins.pe, epoch[p])}
           /\ UNCHANGED <<epoch, mem, cell, owner>>
        \/ /\ ins.lib = "put_signal"
           /\ PutSignal(t, c, ins)
           /\ UNCHANGED <<mem, cell, owner>>
        \/ /\ ins.lib = "get"
           /\ mem' = [mem EXCEPT ![p][ins.a] = mem[ins.pe][ins.b]]
           /\ UNCHANGED <<epoch, flight, cell, owner>>
        \/ /\ ins.lib \in Fetching
           /\ mem' = [mem EXCEPT ![ins.pe][ins.a] =
                        CASE ins.lib = "fadd" -> old + ins.v
                          [] ins.lib = "swap" -> ins.v
                          [] ins.lib = "cswap" -> IF old = ins.b THEN ins.v ELSE old]
           /\ cell' = [cell EXCEPT ![ResultOf(t)] = old]
           /\ UNCHANGED <<epoch, flight, owner>>
        \/ /\ ins.lib = "fence"
           /\ epoch' = [epoch EXCEPT ![p] = @ + 1]
           /\ UNCHANGED <<flight, mem, cell, owner>>
        \/ /\ ins.lib = "quiet"
           /\ Travelling(p, c) = {}
           /\ UNCHANGED <<epoch, flight, mem, cell, owner>>
        \/ /\ ins.lib \in Collective
           /\ \A q \in PEs : Len(entered[q]) >= round
           /\ mem' = IF ins.a = NULL \/ (ins.lib = "reduce" /\ p # ins.v) THEN mem
                     ELSE [mem EXCEPT ![p][ins.a] = Combined(ins, [q \in PEs |-> entered[q][round]])]
           /\ UNCHANGED <<epoch, flight, cell, owner>>
        \/ /\ ins.lib = "set_lock"
           /\ owner[ins.a] \in {NULL, p}
           /\ owner' = [owner EXCEPT ![ins.a] = p]
           /\ UNCHANGED <<epoch, flight, mem, cell>>
        \/ /\ ins.lib = "clear_lock"
           /\ owner' = [owner EXCEPT ![ins.a] = NULL]
           /\ UNCHANGED <<epoch, flight, mem, cell>>

\* A put or an add arrives; on the default context, a fence keeps it behind
\* those before the fence.
Deliver(m) ==
    /\ \A n \in Travelling(m.from, Default) :
            m.ctx = Default /\ n.to = m.to => n.epoch >= m.epoch
    /\ mem' = [mem EXCEPT ![m.to][m.a] = IF m.kind = "add" THEN @ + m.v ELSE m.v]
    /\ flight' = flight \ {m}
    /\ UNCHANGED <<tasks, busy, entered, epoch, cell, fetched, owner, locking, aborted>>

-----------------------------------------------------------------------------
(* The interconnect worker *)

\* It runs a task at the interconnect locale whose future is satisfied, and is
\* in the library until the call returns.
NicRun(t) ==
    /\ In(t, "posted", {"nic", "quiet", "lock", "unlock", "request"}) /\ busy[PEOf[t]] = NULL
    /\ await[t] = NULL \/ await[t] \in satisfied
    /\ busy' = [busy EXCEPT ![PEOf[t]] = t]
    /\ UNCHANGED <<tasks, entered, epoch, flight, mem, cell, fetched, owner, locking, aborted>>

Inside(t) == ~aborted /\ stage[t] \in {"posted", "entered"} /\ busy[PEOf[t]] = t

\* A collective call waits for the other PEs, a barrier before that for the
\* puts of its PE on the default context; of the other calls no such promise is
\* taken.
NicEnter(t) ==
    LET p == PEOf[t] IN
    /\ Inside(t) /\ stage[t] = "posted" /\ Now(t).lib \in Collective
    /\ Now(t).lib = "barrier" => Travelling(p, Default) = {}
    /\ entered' = [entered EXCEPT ![p] = Append(@, IF Now(t).b = NULL THEN 0 ELSE mem[p][Now(t).b])]
    /\ Goes(t, "entered")
    /\ UNCHANGED <<busy, epoch, flight, mem, cell, fetched, owner, locking, aborted>>

NicReturn(t) ==
    /\ Inside(t)
    /\ Now(t).lib \in Collective => stage[t] = "entered"
    /\ Effect(t, Default, Now(t))
    /\ busy' = [busy EXCEPT ![PEOf[t]] = NULL]
    /\ Goes(t, "done")
    /\ UNCHANGED <<entered, fetched, locking, aborted>>

-----------------------------------------------------------------------------
(* Tasks *)

\* The call is posted, and the task set aside.
Post(t) ==
    /\ In(t, "run", {"nic", "request"})
    /\ Goes(t, "posted") /\ UNCHANGED <<library, locking, aborted>>

\* The caller is returned the result r.
Result(t, r) ==
    fetched' = IF Now(t).lib \in Fetching
               THEN [fetched EXCEPT ![t] = Append(@, [of |-> Now(t), value |-> r])] ELSE fetched

\* The caller is resumed when the call has returned and its promise is put.
Resume(t) ==
    /\ In(t, "done", {"nic", "quiet", "request"})
    /\ Result(t, cell[ResultOf(t)])
    /\ Returns(t)
    /\ satisfied' = satisfied \cup {Mine(t)}
    /\ UNCHANGED <<busy, entered, epoch, flight, mem, cell, owner, last, live, await, toPut, aborted>>

\* The task may be on any worker of its PE.
OnContext(t) ==
    /\ In(t, "run", {"ctx"})
    /\ \E c \in Contexts : Effect(t, c, Now(t))
    /\ Result(t, cell'[ResultOf(t)])
    /\ Returns(t)
    /\ UNCHANGED <<busy, entered, locking, aborted>>

\* Mutant of QuietAll: only one of the contexts is quieted.
QuietOne(t) ==
    /\ In(t, "run", {"quiet"})
    /\ \E c \in Contexts : Travelling(PEOf[t], c) = {}
    /\ Goes(t, "posted")
    /\ UNCHANGED <<library, locking, aborted>>

\* hclib::shmem_barrier_all of SOS quiets each context, then posts.
QuietAll(t) ==
    /\ In(t, "run", {"quiet"})
    /\ IF turn[t] = Contexts THEN Goes(t, "posted")
       ELSE /\ \E c \in Contexts \ turn[t] :
                /\ Travelling(PEOf[t], c) = {}
                /\ turn' = [turn EXCEPT ![t] = @ \cup {c}]
            /\ UNCHANGED <<program, pc, stage, conds>>
    /\ UNCHANGED <<library, locking, aborted>>

(* shmem_set_lock *)

\* Mutant of set_lock: the place before is not waited for.
SetLockUnchained(t) ==
    LET p == PEOf[t]  k == Key(Now(t).a) IN
    /\ In(t, "run", {"lock"})
    /\ await' = [await EXCEPT ![t] = NULL]
    /\ last' = [last EXCEPT ![p][k] = Mine(t)]
    /\ Goes(t, IF program.module = "sos" THEN "await" ELSE "posted")
    /\ UNCHANGED <<library, live, toPut, satisfied, aborted>>

\* Under lock_info_mutex: the task takes its place in the chain.  OpenSHMEM
\* posts the call with the future of the place before, SOS waits for it.
set_lock(t) ==
    LET p == PEOf[t]  k == Key(Now(t).a) IN
    /\ In(t, "run", {"lock"})
    /\ await' = [await EXCEPT ![t] = last[p][k]]
    /\ last' = [last EXCEPT ![p][k] = Mine(t)]
    /\ Goes(t, IF program.module = "sos" THEN "await" ELSE "posted")
    /\ UNCHANGED <<library, live, toPut, satisfied, aborted>>

sos_set_lock_wait(t) ==
    /\ In(t, "await", {"lock"})
    /\ await[t] = NULL \/ await[t] \in satisfied
    /\ Goes(t, "posted") /\ UNCHANGED <<library, locking, aborted>>

\* The library has granted the lock.
set_lock_granted(t) ==
    LET p == PEOf[t]  k == Key(Now(t).a) IN
    /\ In(t, "done", {"lock"})
    /\ IF program.module = "openshmem" /\ live[p][k] # NULL THEN Abort
       ELSE /\ live' = [live EXCEPT ![p][k] = Mine(t)]
            /\ Returns(t)
            /\ UNCHANGED <<library, last, await, toPut, satisfied, aborted>>

(* shmem_clear_lock *)

\* OpenSHMEM asserts that the lock is known, SOS that one is held.
clear_lock(t) ==
    LET p == PEOf[t]  k == Key(Now(t).a) IN
    /\ In(t, "run", {"unlock"})
    /\ IF (IF program.module = "sos" THEN live[p][k] ELSE last[p][k]) = NULL THEN Abort
       ELSE Goes(t, "posted") /\ UNCHANGED <<library, locking, aborted>>

clear_lock_done(t) ==
    LET p == PEOf[t]  k == Key(Now(t).a) IN
    /\ In(t, "done", {"unlock"})
    /\ IF live[p][k] = NULL THEN Abort
       ELSE /\ toPut' = [toPut EXCEPT ![t] = live[p][k]]
            /\ live' = [live EXCEPT ![p][k] = NULL]
            /\ Goes(t, "put")
            /\ UNCHANGED <<library, last, await, satisfied, aborted>>

clear_lock_put(t) ==
    /\ In(t, "put", {"unlock"})
    /\ satisfied' = satisfied \cup {toPut[t]}
    /\ Returns(t)
    /\ UNCHANGED <<library, last, live, await, toPut, aborted>>

(* Waits on memory *)

\* enqueue_wait_set, append_to_pending: the wait of the caller, or of the task
\* that is to run when it is over, is added to the list.  The list itself, its
\* compare-and-swaps and the unlinking of an element are the subject of
\* PendingOps, which the code here repeats; what matters here is that a wait is
\* on it, and so adding to it is one step.
enqueue_wait_set(t) ==
    LET u == IF Now(t).lib = "wait" THEN t ELSE Now(t).a IN
    /\ In(t, "run", {"wait"})
    /\ stage' = [stage EXCEPT ![u] = "waiting"]
    /\ conds' = [conds EXCEPT ![u] = Now(t).v]
    /\ pc' = [pc EXCEPT ![t] = @ + 1]
    /\ UNCHANGED <<program, turn, library, locking, aborted>>

\* Mutant of test_completion: the comparison is not looked at.
CompareEqual(p, c) == mem[p][c[1]] = c[3]

test_completion(p, c) == IF c[2] = "EQ" THEN mem[p][c[1]] = c[3] ELSE mem[p][c[1]] # c[3]

\* The interconnect worker tests a wait between two calls: when any of its
\* conditions holds, the task goes on and the wait leaves the list, in one step
\* (the assertion on old_head->next is that of poll_on_pending, which fails as
\* NewHeadIsPredecessor of PendingOps shows).
poll_on_waits(t) ==
    /\ ~aborted /\ stage[t] = "waiting" /\ busy[PEOf[t]] = NULL
    /\ IF \E c \in conds[t] : test_completion(PEOf[t], c)
       THEN /\ stage' = [stage EXCEPT ![t] = "run"]
            /\ conds' = [conds EXCEPT ![t] = {}]
            /\ UNCHANGED <<program, pc, turn>>
       ELSE UNCHANGED tasks
    /\ UNCHANGED <<library, locking, aborted>>

-----------------------------------------------------------------------------
NicStep(t) == NicRun(t) \/ NicEnter(t) \/ NicReturn(t) \/ poll_on_waits(t)

TaskStep(t) ==
    \/ Post(t) \/ Resume(t) \/ OnContext(t) \/ QuietAll(t)
    \/ set_lock(t) \/ sos_set_lock_wait(t) \/ set_lock_granted(t)
    \/ clear_lock(t) \/ clear_lock_done(t) \/ clear_lock_put(t)
    \/ enqueue_wait_set(t)

AllEnded == \A t \in Tasks : stage[t] = "idle" \/ (stage[t] = "run" /\ Ended(t))

Next ==
    \/ \E t \in Tasks : NicStep(t) \/ TaskStep(t)
    \/ \E m \in flight : Deliver(m)
    \/ (aborted \/ (AllEnded /\ flight = {})) /\ UNCHANGED vars

Spec == Init /\ [][Next]_vars

\* Tasks that can run are run (Terminates of Runtime), on the interconnect
\* worker as well (EveryTaskTaken of Locality); messages arrive, and a library
\* call returns when it can.
FairSpec ==
    /\ Spec
    /\ \A t \in Tasks : WF_vars(NicStep(t)) /\ WF_vars(TaskStep(t))
    /\ WF_vars(\E m \in flight : Deliver(m))

-----------------------------------------------------------------------------
(* Properties *)

\* Types; the interconnect worker executes a call that was posted on its PE,
\* and a task that has cleared a lock has a promise to put.
TypeOK ==
    /\ stage \in [Tasks -> {"idle", "run", "await", "posted", "entered", "pending", "done", "put", "waiting"}]
    /\ \A p \in PEs : busy[p] = NULL \/ (stage[busy[p]] \in {"posted", "entered"} /\ PEOf[busy[p]] = p)
    /\ owner \in [Locks -> PEs \cup {NULL}]
    /\ \A t \in Tasks : stage[t] = "put" => toPut[t] # NULL
    /\ \A m \in flight : m.to \in PEs /\ m.a \in Addrs

\* Task t holds a lock: set_lock has returned and clear_lock was not called.
Holds(t, l) ==
    LET code == program.code[t]
        sets == {k \in 1 .. pc[t] - 1 : code[k] = shmem_set_lock(l)}
        clears == {k \in 1 .. pc[t] - 1 : code[k] = shmem_clear_lock(l)}
    IN  /\ Cardinality(sets) > Cardinality(clears)
        /\ ~(~Ended(t) /\ code[pc[t]] = shmem_clear_lock(l) /\ stage[t] # "run")

\* A lock is held by one task at a time, over all PEs and all the tasks of a
\* PE, although the library knows only PEs: the chain of promises keeps the
\* tasks of a PE apart and hands a lock over only after its holder has let it
\* go, so that the assertions on live and next_to_put hold (shmem_set_lock).
LockExclusion ==
    /\ TypeOK /\ ~aborted
    /\ \A l \in Locks : \A t, u \in Tasks : Holds(t, l) /\ Holds(u, l) => t = u

\* Where a task waits for the signal of shmem_char_put_signal_nbi, the data is
\* there when the wait is over: the fence is between the two puts.
SignalAfterData ==
    \A t, u \in Tasks : \A k \in DOMAIN program.code[u] :
        LET ins == program.code[u][k] IN
        ins.lib = "put_signal" /\ ins.pe = PEOf[t] /\ mem[PEOf[t]][ins.v[1]] = ins.v[2]
            => ~\E m \in flight : m.task = u /\ m.at = k /\ m.a = ins.a

\* The number of barriers that a task has passed.
Passed(t, n) == CallsBefore(program, t, n, {"barrier"})

\* When a task has passed a barrier, the puts that any PE issued before that
\* barrier have arrived, whatever contexts they were issued on.
BarrierCompletes ==
    \A t \in Tasks : \A m \in flight :
        Passed(t, pc[t]) <= Passed(m.task, m.at)
            \/ ~\E k \in DOMAIN program.code[m.task] : program.code[m.task][k].lib = "barrier"

\* Each caller is returned the result of its own call: two fetching adds on
\* the same counter never return the same value.
TicketsDistinct ==
    \A t, u \in Tasks : \A i \in DOMAIN fetched[t], j \in DOMAIN fetched[u] :
        LET f == fetched[t][i]  g == fetched[u][j] IN
        f.of.lib = "fadd" /\ g.of.lib = "fadd" /\ f.of.a = g.of.a /\ f.of.pe = g.of.pe
            /\ f.value = g.value
            => t = u /\ i = j

\* Every call returns in the end, and so every task ends: no lock, barrier or
\* wait is stuck behind the one worker of the interconnect, in programs that
\* use one lock.  With two, the interconnect workers of two PEs can each be
\* inside the library's set_lock for the lock that a task of the other PE
\* holds, and then neither executes what would release it.
AllCallsReturn == <>(aborted \/ AllEnded)
=============================================================================
