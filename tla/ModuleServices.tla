--------------------------- MODULE ModuleServices ---------------------------
(***************************************************************************)
(* What modules bring to the runtime and what a program gets from them:    *)
(* registration, the types of locales, the lists of functions indexed by   *)
(* the type of a locale, the state of a module in every worker, memory at  *)
(* locales (hclib-mem.c) with the functions of the modules system and      *)
(* cuda, and the atomic values kept once per worker.                       *)
(*                                                                         *)
(* A setup is the calls of hclib_add_module_init_function, in the order in *)
(* which the modules are loaded, and the labels of the locales of the      *)
(* graph.  A program is the sequence of calls its main task makes; what a  *)
(* call returns through a future is named by the place of the call, and so *)
(* is the pointer it returns.  Besides the modules of the repository there *)
(* is "custom", a module of the user's that keeps state in the workers and *)
(* allocates at sysmem.                                                    *)
(***************************************************************************)
EXTENDS Integers, FiniteSets, FiniteSetsExt, Sequences, Functions

CONSTANTS
    Workers,        \* 0 .. nworkers - 1
    StateSize,      \* per-worker state of each module, in words
    Setups,         \* [modules, graph]
    Programs,       \* [code, result]
    NULL

Modules == DOMAIN StateSize

ASSUME WorkersAssumption == Workers # {} /\ IsFiniteSet(Workers)

ASSUME ModulesAssumption ==
    /\ Modules \subseteq {"system", "cuda", "mpi", "sos", "custom"}
    /\ StateSize \in [Modules -> Nat]
    /\ NULL \notin Modules

\* At least one module is loaded.
ASSUME SetupsAssumption ==
    \A s \in Setups : s.modules \in Seq(Modules) /\ s.modules # <<>>

\* A program asks for memory at locales that every graph has.
ASSUME ProgramsAssumption ==
    \A p \in Programs :
        /\ DOMAIN p.code \subseteq Nat
        /\ \A i \in DOMAIN p.code : \A s \in Setups :
            /\ p.code[i].do \in {"alloc", "realloc", "memset", "free", "copy"} =>
                    p.code[i].at \in DOMAIN s.graph
            /\ p.code[i].do = "copy" => p.code[i].from \in DOMAIN s.graph

Kinds == {"alloc", "realloc", "free", "memset", "copy", "metadata"}
Host == -1          \* the memory of the host; devices are 0, 1, ...
Unmapped == -2      \* no memory

VARIABLES
    setup, program,
    stage, next,    \* hclib_entrypoint and the element its loop has come to
    registered,     \* pre_init_functions, and with it the two other lists
    known,          \* known_locale_types
    ids,            \* the statics of the modules: type name to type
    type, metadata, \* of the locales of the graph
    lists,          \* the lists of functions
    offset, module_state,
    nic,            \* of the communication modules: the locale they work at
    pc, status, cb, \* the main task, its calls and their callbacks
    mem,            \* [space, val] of every pointer
    wild,           \* calls whose callback was given memory it cannot reach
    running, curr,  \* per worker: the call it runs, the value it has read
    vals, total     \* hclib_atomic_t, and what gather returned

booted == <<registered, known, ids, type, metadata, lists, offset, module_state, nic>>
memory == <<mem, wild, cb>>
atomic == <<curr, vals, total>>
vars == <<setup, program, stage, next, booted, pc, status, memory, running, atomic>>

Locales == DOMAIN setup.graph
Call == program.code[pc]
Calls == DOMAIN program.code

Init ==
    /\ setup \in Setups /\ program \in Programs
    /\ stage = "load" /\ next = 1
    /\ registered = <<>> /\ known = <<>>
    /\ ids = [m \in Modules |-> <<>>]
    /\ type = <<>> /\ metadata = <<>>
    /\ lists = [k \in Kinds |-> <<>>]
    /\ offset = [m \in Modules |-> NULL]
    /\ module_state = [w \in Workers |-> <<>>]
    /\ nic = [m \in Modules |-> NULL]
    /\ pc = 1 /\ status = [i \in Calls |-> "none"] /\ cb = [i \in Calls |-> NULL]
    /\ mem = [i \in Calls |-> [space |-> Unmapped, val |-> NULL]]
    /\ wild = {}
    /\ running = [w \in Workers |-> NULL] /\ curr = [w \in Workers |-> 0]
    /\ vals = [w \in Workers |-> 0] /\ total = NULL

\* The loops of hclib_entrypoint and hclib_cleanup over a list.
Turn(list, following) ==
    IF next < Len(list)
        THEN next' = next + 1 /\ UNCHANGED stage
        ELSE next' = 1 /\ stage' = following

\* A failed assertion, or exit: nothing more happens.
Abort ==
    /\ stage' = "abort"
    /\ UNCHANGED <<setup, program, next, booted, pc, status, memory, running, atomic>>

-----------------------------------------------------------------------------
(* hclib_module.c *)

\* Mutant of hclib_add_module_init_function: the lists are not searched.
add_without_search ==
    /\ stage = "load"
    /\ registered' = Append(registered, setup.modules[next])
    /\ Turn(setup.modules, "pre")
    /\ UNCHANGED <<setup, program, known, ids, type, metadata, lists, offset,
                   module_state, nic, pc, status, memory, running, atomic>>

\* Called from the static initialiser of a module when it is loaded.
hclib_add_module_init_function ==
    LET m == setup.modules[next] IN
    /\ stage = "load"
    /\ registered' = IF m \in Range(registered) THEN registered ELSE Append(registered, m)
    /\ Turn(setup.modules, "pre")
    /\ UNCHANGED <<setup, program, known, ids, type, metadata, lists, offset,
                   module_state, nic, pc, status, memory, running, atomic>>

\* The types that the pre-initialisation of a module names.
LocaleTypes(m) ==
    CASE m = "system" -> {"L1", "L2", "L3", "sysmem"}
      [] m = "cuda" -> {"GPU"}
      [] m \in {"mpi", "sos"} -> {"Interconnect"}
      [] m = "custom" -> {"sysmem"}

\* hclib_add_known_locale_type: a known type keeps its place, another is put
\* at the end.
AddType(types, lbl) == IF lbl \in Range(types) THEN types ELSE Append(types, lbl)

\* The calls of the pre-initialisation of a module, in their order.
AddTypes(m) ==
    CASE m = "system" ->
            AddType(AddType(AddType(AddType(known, "L1"), "L2"), "L3"), "sysmem")
      [] m = "cuda" -> AddType(known, "GPU")
      [] m \in {"mpi", "sos"} -> AddType(known, "Interconnect")
      [] m = "custom" -> AddType(known, "sysmem")

\* The place of a name in known_locale_types, from 0.
TypeOf(lbl, types) == CHOOSE i \in 0 .. Len(types) - 1 : types[i + 1] = lbl

NoFunc == [fptr |-> NULL, priority |-> "none"]

\* hclib_register_func for each type in at: the list grows to the largest and
\* the entries in between are cleared.
RegisterFunc(list, at, entry) ==
    IF at = {} THEN list
    ELSE [j \in 0 .. Max(DOMAIN list \cup at) |->
            IF j \in at THEN entry
            ELSE IF j \in DOMAIN list THEN list[j] ELSE NoFunc]

hclib_get_func_for(list, i) == IF i \in DOMAIN list THEN list[i].fptr ELSE NULL
hclib_has_func_for(list, i) == hclib_get_func_for(list, i) # NULL

\* Not checked against the capacity: behind the end it is whatever lies there.
hclib_get_priority_for(list, i) ==
    IF i \in DOMAIN list THEN {list[i].priority} ELSE {"must", "may", "none"}

\* system_pre_initialize, cuda_pre_initialize and those of the communication
\* modules, in the order of registration.
PreInit ==
    LET m == registered[next]  types == AddTypes(m) IN
    /\ stage = "pre"
    /\ known' = types
    /\ ids' = [ids EXCEPT ![m] = [lbl \in LocaleTypes(m) |-> TypeOf(lbl, types)]]
    /\ lists' = IF m = "cuda"
                THEN [lists EXCEPT !["metadata"] =
                        RegisterFunc(@, {TypeOf("GPU", types)},
                                     [fptr |-> m, priority |-> "may"])]
                ELSE lists
    /\ Turn(registered, "graph")
    /\ UNCHANGED <<setup, program, registered, type, metadata, offset, module_state, nic,
                   pc, status, memory, running, atomic>>

\* initialize_locale for every locale: its type, and for a GPU the number of
\* the device (metadata_populate).
LoadGraph ==
    LET types == [l \in Locales |-> TypeOf(setup.graph[l], known)] IN
    /\ stage = "graph"
    /\ \A l \in Locales : setup.graph[l] \in Range(known)
    /\ type' = types
    /\ metadata' = [l \in Locales |->
                        IF hclib_has_func_for(lists["metadata"], types[l])
                        THEN Cardinality({k \in 1 .. l - 1 : types[k] = types[l]})
                        ELSE Unmapped]
    /\ stage' = "post" /\ next' = 1
    /\ UNCHANGED <<setup, program, registered, known, ids, lists, offset, module_state, nic,
                   pc, status, memory, running, atomic>>

LoadGraphUnknown ==
    /\ stage = "graph"
    /\ \E l \in Locales : setup.graph[l] \notin Range(known)
    /\ Abort

\* The functions that the initialisation of a module registers.
Provides(m) ==
    CASE m = "system" -> {"alloc", "realloc", "free", "memset", "copy"}
      [] m = "cuda" -> {"alloc", "free", "memset", "copy"}
      [] m = "custom" -> {"alloc"}
      [] OTHER -> {}

\* hclib_register_func asserts that the entry is free.
Occupied(m) ==
    \E k \in Provides(m) : \E i \in Range(ids[m]) : hclib_has_func_for(lists[k], i)

RegisterAll(m) ==
    [k \in Kinds |->
        IF k \in Provides(m)
        THEN RegisterFunc(lists[k], Range(ids[m]),
                [fptr |-> m,
                 priority |-> IF m = "cuda" /\ k = "copy" THEN "must" ELSE "may"])
        ELSE lists[k]]

\* Mutant of AddState: the state is put at the start of every worker's.
AddStateAtStart(m) ==
    [w \in Workers |->
        [j \in 1 .. Max({Len(module_state[w]), StateSize[m]}) |->
            IF j <= StateSize[m] THEN m ELSE module_state[w][j]]]

\* hclib_add_per_worker_module_state: at the end, in every worker.
AddState(m) == [w \in Workers |-> module_state[w] \o [j \in 1 .. StateSize[m] |-> m]]

\* The words of a module's state in a worker.
Words(m) == offset[m] + 1 .. offset[m] + StateSize[m]

\* The modules that work at the interconnect.
Comm == {"mpi", "sos"}

\* hclib_get_all_locales_of_type, for the type of the interconnect.
Nics(m) == {l \in Locales : type[l] = ids[m]["Interconnect"]}

\* A communication module asserts that there is one, and that it has not looked
\* before.
NicFound(m) == m \in Comm => Cardinality(Nics(m)) = 1 /\ nic[m] = NULL

\* system_post_initialize, cuda_post_initialize, and the others, which add
\* their state to the workers and look up their locale.
PostInit ==
    LET m == registered[next] IN
    /\ stage = "post" /\ ~Occupied(m) /\ NicFound(m)
    /\ lists' = RegisterAll(m)
    /\ IF StateSize[m] > 0
       THEN /\ offset' = [offset EXCEPT ![m] = Len(module_state[CHOOSE w \in Workers : TRUE])]
            /\ module_state' = AddState(m)
       ELSE UNCHANGED <<offset, module_state>>
    /\ nic' = IF m \in Comm THEN [nic EXCEPT ![m] = CHOOSE l \in Nics(m) : TRUE] ELSE nic
    /\ Turn(registered, "run")
    /\ UNCHANGED <<setup, program, registered, known, ids, type, metadata,
                   pc, status, memory, running, atomic>>

PostInitOccupied == stage = "post" /\ Occupied(registered[next]) /\ Abort

PostInitNoNic == stage = "post" /\ ~NicFound(registered[next]) /\ Abort

\* The words of the module are gone, in every worker.
hclib_release_per_worker_module_state(m) ==
    [w \in Workers |-> [j \in DOMAIN module_state[w] |->
        IF j \in Words(m) THEN NULL ELSE module_state[w][j]]]

\* hclib_call_finalize_functions, after the workers have been joined; a module
\* releases the state it keeps.
Finalize ==
    LET m == registered[next] IN
    /\ stage = "final"
    /\ module_state' = IF StateSize[m] = 0 THEN module_state
                       ELSE hclib_release_per_worker_module_state(m)
    /\ Turn(registered, "over")
    /\ UNCHANGED <<setup, program, registered, known, ids, type, metadata, lists,
                   offset, nic, pc, status, memory, running, atomic>>

-----------------------------------------------------------------------------
(* hclib-mem.c: the calls of the main task *)

At(kinds) == stage = "run" /\ pc \in Calls /\ Call.do \in kinds

\* hclib_allocate_at, hclib_reallocate_at, hclib_memset_at: a task at the
\* locale that has nothing to wait for.
Offload(kind) ==
    /\ At({kind}) /\ hclib_has_func_for(lists[kind], type[Call.at])
    /\ cb' = [cb EXCEPT ![pc] = hclib_get_func_for(lists[kind], type[Call.at])]
    /\ status' = [status EXCEPT ![pc] = "queued"]
    /\ pc' = pc + 1
    /\ UNCHANGED <<setup, program, stage, next, booted, mem, wild, running, atomic>>

hclib_allocate_at == Offload("alloc")
hclib_reallocate_at == Offload("realloc")
hclib_memset_at == Offload("memset")

Unserved ==
    /\ At({"alloc", "realloc", "memset", "free"})
    /\ ~hclib_has_func_for(lists[Call.do], type[Call.at])
    /\ Abort

\* Mutant of CopyFunc: the destination decides.
CopyByDestination(dst_cb, src_cb, src_priority) ==
    IF dst_cb = NULL THEN src_cb ELSE dst_cb

\* The callback of a copy between locales that have the two functions.
CopyFunc(dst_cb, src_cb, src_priority) ==
    IF dst_cb = NULL THEN src_cb
    ELSE IF src_cb # NULL /\ src_priority = "must" THEN src_cb
    ELSE dst_cb

\* The priorities are read before it is known whether there are functions.
hclib_async_copy ==
    /\ At({"copy"}) /\ DOMAIN lists["copy"] # {}
    /\ \E dst_priority \in hclib_get_priority_for(lists["copy"], type[Call.at]),
          src_priority \in hclib_get_priority_for(lists["copy"], type[Call.from]) :
        LET dst_cb == hclib_get_func_for(lists["copy"], type[Call.at])
            src_cb == hclib_get_func_for(lists["copy"], type[Call.from])
            asserted == /\ dst_cb # NULL \/ src_cb # NULL
                        /\ \/ dst_cb = NULL \/ src_cb = NULL \/ dst_cb = src_cb
                           \/ dst_priority # "must" \/ src_priority # "must" IN
        \/ /\ asserted
           /\ cb' = [cb EXCEPT ![pc] = CopyFunc(dst_cb, src_cb, src_priority)]
           /\ status' = [status EXCEPT ![pc] = "queued"]
           /\ pc' = pc + 1
           /\ UNCHANGED <<setup, program, stage, next, booted, mem, wild, running, atomic>>
        \/ ~asserted /\ Abort

CopyUnserved == At({"copy"}) /\ DOMAIN lists["copy"] = {} /\ Abort

\* A callback works on the memory of its own kind, and on none that is freed.
Reaches(m, p) == IF m = "cuda" THEN mem[p].space >= 0 ELSE mem[p].space = Host

\* cudaMemcpy is told the direction from the types of the locales.
Copies(m, i) ==
    LET c == program.code[i]
        gpu(l) == type[l] = ids["cuda"]["GPU"] IN
    IF m = "cuda"
    THEN /\ gpu(c.at) \/ gpu(c.from)
         /\ mem[c.ptr].space # Unmapped /\ mem[c.src].space # Unmapped
         /\ gpu(c.at) = (mem[c.ptr].space >= 0)
         /\ gpu(c.from) = (mem[c.src].space >= 0)
    ELSE Reaches(m, c.ptr) /\ Reaches(m, c.src)

\* The memory after the callback of the call i, by the functions of the
\* modules system and cuda.
Fits(m, i) ==
    LET c == program.code[i] IN
    CASE c.do = "alloc" -> m = "cuda" => metadata[c.at] # Unmapped
      [] c.do = "copy" -> Copies(m, i)
      [] OTHER -> Reaches(m, c.ptr)

Effect(m, i) ==
    LET c == program.code[i] IN
    CASE c.do = "alloc" ->
            [mem EXCEPT ![i] = [space |-> IF m = "cuda" THEN metadata[c.at] ELSE Host,
                                val |-> NULL]]
      [] c.do = "realloc" ->
            [mem EXCEPT ![i] = mem[c.ptr], ![c.ptr] = [space |-> Unmapped, val |-> NULL]]
      [] c.do = "memset" -> [mem EXCEPT ![c.ptr].val = c.val]
      [] c.do = "copy" -> [mem EXCEPT ![c.ptr].val = mem[c.src].val]
      [] c.do = "free" -> [mem EXCEPT ![c.ptr] = [space |-> Unmapped, val |-> NULL]]

\* The callback m of the call i.
CallBack(m, i) ==
    /\ mem' = Effect(m, i)
    /\ wild' = IF Fits(m, i) THEN wild ELSE wild \cup {i}

\* In the main task itself, not in a task at the locale.
hclib_free_at ==
    /\ At({"free"}) /\ hclib_has_func_for(lists["free"], type[Call.at])
    /\ cb' = [cb EXCEPT ![pc] = hclib_get_func_for(lists["free"], type[Call.at])]
    /\ CallBack(cb'[pc], pc)
    /\ status' = [status EXCEPT ![pc] = "done"]
    /\ pc' = pc + 1
    /\ UNCHANGED <<setup, program, stage, next, booted, running, atomic>>

\* future->wait, and the end of the finish around the program.
Wait ==
    /\ At({"wait"}) /\ \A i \in Call.after : status[i] = "done"
    /\ status' = [status EXCEPT ![pc] = "done"]
    /\ pc' = pc + 1
    /\ UNCHANGED <<setup, program, stage, next, booted, memory, running, atomic>>

Joined ==
    /\ stage = "run" /\ pc \notin Calls /\ \A i \in Calls : status[i] = "done"
    /\ stage' = "final"
    /\ UNCHANGED <<setup, program, next, booted, pc, status, memory, running, atomic>>

-----------------------------------------------------------------------------
(* The tasks, on the workers *)

\* Mutant of Eligible: the copy is not given the futures.
Queued(i) == status[i] = "queued"

\* A copy has been given the futures it waits for.
Eligible(i) ==
    /\ status[i] = "queued"
    /\ \A j \in program.code[i].after : status[j] = "done"

\* allocate_kernel, reallocate_kernel, memset_kernel and copy_kernel up to the
\* return of the callback.
Kernel(w, i) ==
    /\ stage = "run" /\ running[w] = NULL /\ Eligible(i) /\ program.code[i].do # "update"
    /\ CallBack(cb[i], i)
    /\ running' = [running EXCEPT ![w] = i]
    /\ status' = [status EXCEPT ![i] = "called"]
    /\ UNCHANGED <<setup, program, stage, next, booted, pc, cb, atomic>>

\* Mutant of Put: the task is left where it was taken from.
PutRequeues(w) ==
    /\ stage = "run" /\ running[w] # NULL /\ program.code[running[w]].do # "update"
    /\ status' = [status EXCEPT ![running[w]] = "queued"]
    /\ running' = [running EXCEPT ![w] = NULL]
    /\ UNCHANGED <<setup, program, stage, next, booted, pc, memory, atomic>>

\* hclib_promise_put at the end of the kernels.
Put(w) ==
    /\ stage = "run" /\ running[w] # NULL /\ program.code[running[w]].do # "update"
    /\ status' = [status EXCEPT ![running[w]] = "done"]
    /\ running' = [running EXCEPT ![w] = NULL]
    /\ UNCHANGED <<setup, program, stage, next, booted, pc, memory, atomic>>

-----------------------------------------------------------------------------
(* hclib_atomic.c *)

\* The program spawns a task that updates the atomic value.
SpawnUpdate ==
    /\ At({"update"})
    /\ status' = [status EXCEPT ![pc] = "queued"]
    /\ pc' = pc + 1
    /\ UNCHANGED <<setup, program, stage, next, booted, memory, running, atomic>>

\* Mutant of Slot: one value for all the workers.
OneSlot(w) == CHOOSE v \in Workers : TRUE

\* The value hclib_atomic_update hands to the update function.
Slot(w) == w

\* The update function reads the value and writes it: another worker may do
\* the same in between.
UpdateRead(w, i) ==
    /\ stage = "run" /\ running[w] = NULL /\ Eligible(i) /\ program.code[i].do = "update"
    /\ running' = [running EXCEPT ![w] = i]
    /\ curr' = [curr EXCEPT ![w] = vals[Slot(w)]]
    /\ status' = [status EXCEPT ![i] = "called"]
    /\ UNCHANGED <<setup, program, stage, next, booted, pc, memory, vals, total>>

UpdateWrite(w) ==
    /\ stage = "run" /\ running[w] # NULL /\ program.code[running[w]].do = "update"
    /\ vals' = [vals EXCEPT ![Slot(w)] = curr[w] + program.code[running[w]].val]
    /\ status' = [status EXCEPT ![running[w]] = "done"]
    /\ running' = [running EXCEPT ![w] = NULL]
    /\ curr' = [curr EXCEPT ![w] = 0]
    /\ UNCHANGED <<setup, program, stage, next, booted, pc, memory, total>>

\* hclib_atomic_gather, with the sum.
hclib_atomic_gather ==
    /\ At({"gather"})
    /\ total' = FoldFunction(+, 0, vals)
    /\ status' = [status EXCEPT ![pc] = "done"]
    /\ pc' = pc + 1
    /\ UNCHANGED <<setup, program, stage, next, booted, memory, running, curr, vals>>

-----------------------------------------------------------------------------
Ended == stage \in {"over", "abort"} /\ UNCHANGED vars

Boot ==
    \/ hclib_add_module_init_function \/ PreInit \/ LoadGraph \/ LoadGraphUnknown
    \/ PostInit \/ PostInitOccupied \/ PostInitNoNic \/ Finalize

Main ==
    \/ hclib_allocate_at \/ hclib_reallocate_at \/ hclib_memset_at \/ Unserved
    \/ hclib_async_copy \/ CopyUnserved \/ hclib_free_at \/ Wait \/ Joined
    \/ SpawnUpdate \/ hclib_atomic_gather

Work(w) ==
    \/ Put(w) \/ UpdateWrite(w)
    \/ \E i \in Calls : Kernel(w, i) \/ UpdateRead(w, i)

Next == Boot \/ Main \/ (\E w \in Workers : Work(w)) \/ Ended

Spec == Init /\ [][Next]_vars

\* The main task and every worker go on while they can.
FairSpec == Spec /\ WF_vars(Boot \/ Main) /\ \A w \in Workers : WF_vars(Work(w))

-----------------------------------------------------------------------------
(* Properties *)

\* A list of functions has an entry for every type up to its largest, the
\* types that modules and locales refer to are known ones, and a worker runs a
\* call that has been started and not ended.
TypeOK ==
    /\ stage \in {"load", "pre", "graph", "post", "run", "final", "over", "abort"}
    /\ \A k \in Kinds : DOMAIN lists[k] = 0 .. Cardinality(DOMAIN lists[k]) - 1
    /\ \A m \in Modules : Range(ids[m]) \subseteq 0 .. Len(known) - 1
    /\ Range(type) \subseteq 0 .. Len(known) - 1
    /\ status \in [Calls -> {"none", "queued", "called", "done"}]
    /\ \A w \in Workers : running[w] # NULL => status[running[w]] = "called"

\* The modules that serve a kind of call at a locale, by the names of the types.
Owners(kind, l) ==
    {m \in Range(setup.modules) :
        kind \in Provides(m) /\ setup.graph[l] \in LocaleTypes(m)}

\* Whatever the order in which modules were registered and numbered their
\* types, a call is served by the module that owns its locale, and a copy to
\* or from a GPU by cuda (hclib_async_copy); the lists have an entry for every
\* type up to their largest (TypeOK).
ServedByOwner ==
    /\ TypeOK
    /\ \A i \in Calls : cb[i] # NULL =>
        LET c == program.code[i] IN
        IF c.do = "copy"
        THEN LET both == Owners("copy", c.at) \cup Owners("copy", c.from) IN
             cb[i] \in both /\ ("cuda" \in both => cb[i] = "cuda")
        ELSE cb[i] \in Owners(c.do, c.at)

\* No callback is given memory that it cannot reach: memory of another kind or
\* device than its locale's, memory not yet allocated, or freed memory.
NoWildAccess == wild = {}

\* At the end of a program every buffer holds what the program put into it,
\* across allocations, sets, copies between spaces and reallocations that ran
\* on any of the workers (the futures of hclib-mem.c), and on the way no
\* callback went astray.
DataDelivered ==
    /\ NoWildAccess
    /\ stage \in {"final", "over"} =>
        \A p \in DOMAIN program.result : mem[p].val = program.result[p]

\* The runtime gives up only where it must: a locale of a type no module has
\* named, two modules that serve the same calls, a communication module in a
\* graph that has not exactly one interconnect, or a call no module serves.
AbortJustified ==
    stage = "abort" =>
        \/ \E l \in Locales : \A m \in Range(setup.modules) :
                setup.graph[l] \notin LocaleTypes(m)
        \/ \E m, n \in Range(setup.modules) :
                /\ m # n /\ Provides(m) \cap Provides(n) # {}
                /\ LocaleTypes(m) \cap LocaleTypes(n) # {}
        \/ /\ Comm \cap Range(setup.modules) # {}
           /\ Cardinality({l \in Locales : setup.graph[l] = "Interconnect"}) # 1
        \/ /\ pc \in Calls
           /\ IF Call.do = "copy"
              THEN Owners("copy", Call.at) \cup Owners("copy", Call.from) = {}
              ELSE Owners(Call.do, Call.at) = {}

\* Gather returns the sum of all the updates, on whichever workers they ran
\* (hclib_atomic_update, hclib_atomic_gather).
GatherExact ==
    total # NULL =>
        total = MapThenSumSet(LAMBDA i : program.code[i].val,
                              {i \in Calls : program.code[i].do = "update"})

\* From its initialisation until its finalisation a module finds its own state
\* in every worker, wherever the state of the others was put.
StatesKept ==
    stage = "run" =>
        \A m \in Range(registered) : StateSize[m] > 0 =>
            \A w \in Workers : \A j \in Words(m) :
                j \in DOMAIN module_state[w] /\ module_state[w][j] = m

\* Every launch comes to its end: no call is left without an answer.
LaunchEnds == <>(stage \in {"over", "abort"})

=============================================================================
