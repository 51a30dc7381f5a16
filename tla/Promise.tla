------------------------------ MODULE Promise ------------------------------
(***************************************************************************)
(* Promises, futures and the tasks that wait for them:                     *)
(* src/src/hclib-promise.c and the scheduling test of                      *)
(* src/src/hclib-runtime.c.  Workers spawn tasks that depend on promises   *)
(* and put promises, one access to shared memory per step.  A task hangs   *)
(* on the wait list of one promise at a time: put closes the list and      *)
(* moves each task of it to the next promise in the task's own list.       *)
(***************************************************************************)
EXTENDS Integers, Sequences, FiniteSets, FiniteSetsExt, Chains

CONSTANTS
    Workers,
    Promises,
    Tasks,
    Deps,           \* the futures each task is spawned with: [Tasks -> Seq(Promises \cup {NULL})]
    MaxNumWaits,    \* MAX_NUM_WAITS, the futures stored inside the task
    NULL,
    SENTINEL,       \* SENTINEL_FUTURE_WAITLIST_PTR, the end of a wait list
    SATISFIED       \* SATISFIED_FUTURE_WAITLIST_PTR, a closed wait list

ASSUME PromiseAssumption ==
    /\ MaxNumWaits \in Nat \ {0}
    /\ Deps \in [Tasks -> Seq(Promises \cup {NULL})]
    /\ NULL \notin Promises
    /\ SENTINEL \notin Tasks /\ SATISFIED \notin Tasks /\ SENTINEL # SATISFIED

VARIABLES
    satisfied,      \* promise->satisfied
    datum,          \* promise->datum: has it been stored?
    waitList,       \* promise->wait_list_head
    freed,          \* promises given to hclib_promise_free
    nextWaiter,     \* task->next_waiter
    index,          \* task->waiting_on_index
    spawned,        \* tasks handed to spawn_handler
    scheduled,      \* how often each task was placed in a work deque
    pc,             \* where each worker is
    prom,           \* the promise a worker is putting
    head,           \* a worker's copy of wait_list_head
    task,           \* the task a worker is registering
    walk            \* next_task: the rest of the closed list a worker walks

promiseVars == <<satisfied, datum, waitList, freed>>
taskVars == <<nextWaiter, index, spawned, scheduled>>
workerVars == <<pc, prom, head, task, walk>>
vars == <<promiseVars, taskVars, workerVars>>

(***************************************************************************)
(* The i-th (from 0) future of a task: the first MaxNumWaits are in        *)
(* waiting_on, the rest in waiting_on_extra, which ends with a NULL.       *)
(***************************************************************************)
Dep(t, i) == IF i < Len(Deps[t]) THEN Deps[t][i + 1] ELSE NULL

NoDep == -1

\* Mutant of NextDep: a future of the task is stepped over.
NextDepSkipsOne(t, i) ==
    LET rest == {j \in i + 2 .. Len(Deps[t]) - 1 : Dep(t, j) # NULL}
    IN  IF rest = {} THEN NoDep ELSE Min(rest)

(***************************************************************************)
(* The future register_on_all_promise_dependencies turns to after the one  *)
(* at i: NULLs are skipped in waiting_on and end waiting_on_extra.         *)
(***************************************************************************)
NextDep(t, i) ==
    LET inline == {j \in i + 1 .. MaxNumWaits - 1 : Dep(t, j) # NULL}
        extra  == (IF i < MaxNumWaits THEN MaxNumWaits - 1 ELSE i) + 1
    IN  IF inline # {} THEN Min(inline)
        ELSE IF Dep(t, extra) # NULL THEN extra ELSE NoDep

\* What is_eligible_to_schedule and register_on_all_promise_dependencies ask
\* of the futures of a task: if any is not NULL the first is not, and none of
\* those in waiting_on_extra is NULL.
UsableFutures(t) ==
    /\ Dep(t, 0) = NULL => \A i \in 0 .. Len(Deps[t]) - 1 : Dep(t, i) = NULL
    /\ \A i \in MaxNumWaits .. Len(Deps[t]) - 1 : Dep(t, i) # NULL

\* The future a worker's current task is being registered on.
Current(w) == Dep(task[w], index[task[w]])

\* hclib_promise_init for every promise; tasks come from calloc.
Init ==
    /\ satisfied = [p \in Promises |-> FALSE]
    /\ datum = [p \in Promises |-> FALSE]
    /\ waitList = [p \in Promises |-> SENTINEL]
    /\ freed = {}
    /\ nextWaiter = [t \in Tasks |-> NULL]
    /\ index = [t \in Tasks |-> -1]
    /\ spawned = {}
    /\ scheduled = [t \in Tasks |-> 0]
    /\ pc = [w \in Workers |-> "idle"]
    /\ prom = [w \in Workers |-> NULL]
    /\ head = [w \in Workers |-> NULL]
    /\ task = [w \in Workers |-> NULL]
    /\ walk = [w \in Workers |-> SENTINEL]

\* Where a worker goes once it is done with a task: on along a closed wait
\* list, or back to its caller.
After(rest) == IF rest = SENTINEL THEN "idle" ELSE "walk"

\* A local variable that the worker w does not read again.
Forget(var, w) == var' = [var EXCEPT ![w] = NULL]

\* rt_schedule_async
Schedule(t) == scheduled' = [scheduled EXCEPT ![t] = @ + 1]

(***************************************************************************)
(* Worker w takes task t from the future at index[t] to the next one, or   *)
(* schedules it when there is none.  (try_schedule_async registers again   *)
(* before it schedules; that finds no future left and changes nothing.)    *)
(***************************************************************************)
Advance(w, t, rest) ==
    LET i == NextDep(t, index[t]) IN
    /\ walk' = [walk EXCEPT ![w] = rest]
    /\ IF i = NoDep
       THEN /\ Schedule(t)
            /\ pc' = [pc EXCEPT ![w] = After(rest)]
            /\ Forget(task, w)
            /\ UNCHANGED index
       ELSE /\ index' = [index EXCEPT ![t] = i]
            /\ task' = [task EXCEPT ![w] = t]
            /\ pc' = [pc EXCEPT ![w] = "register"]
            /\ UNCHANGED scheduled

-----------------------------------------------------------------------------
(* spawn_handler and is_eligible_to_schedule *)

\* waiting_on[0] is NULL: eligible at once.
SpawnReady(w, t) ==
    /\ pc[w] = "idle"
    /\ t \notin spawned
    /\ Dep(t, 0) = NULL
    /\ spawned' = spawned \cup {t}
    /\ Schedule(t)
    /\ UNCHANGED <<promiseVars, nextWaiter, index, workerVars>>

SpawnAwait(w, t) ==
    /\ pc[w] = "idle"
    /\ t \notin spawned
    /\ Dep(t, 0) # NULL
    /\ spawned' = spawned \cup {t}
    /\ Advance(w, t, SENTINEL)
    /\ UNCHANGED <<promiseVars, nextWaiter, prom, head>>

-----------------------------------------------------------------------------
(* _register_if_promise_not_ready *)

\* Mutant of RegisterSatisfied: the flag is tested instead of the list.
RegisterTestsFlag(w) ==
    /\ pc[w] = "register"
    /\ satisfied[Current(w)]
    /\ Advance(w, task[w], walk[w])
    /\ UNCHANGED <<promiseVars, nextWaiter, spawned, prom, head>>

\* The list is closed: the promise is satisfied, look at the next future.
RegisterSatisfied(w) ==
    /\ pc[w] = "register"
    /\ waitList[Current(w)] = SATISFIED
    /\ Advance(w, task[w], walk[w])
    /\ UNCHANGED <<promiseVars, nextWaiter, spawned, prom, head>>

RegisterRead(w) ==
    /\ pc[w] = "register"
    /\ waitList[Current(w)] # SATISFIED
    /\ head' = [head EXCEPT ![w] = waitList[Current(w)]]
    /\ pc' = [pc EXCEPT ![w] = "registerCas"]
    /\ UNCHANGED <<promiseVars, taskVars, prom, task, walk>>

\* Mutant of RegisterLink: the task is linked by a plain store.
RegisterBlindStore(w) ==
    /\ pc[w] = "registerCas"
    /\ nextWaiter' = [nextWaiter EXCEPT ![task[w]] = head[w]]
    /\ waitList' = [waitList EXCEPT ![Current(w)] = task[w]]
    /\ Forget(head, w) /\ Forget(task, w)
    /\ pc' = [pc EXCEPT ![w] = After(walk[w])]
    /\ UNCHANGED <<satisfied, datum, freed, index, spawned, scheduled, prom, walk>>

\* next_waiter is stored (the task is still private) and the CAS succeeds.
RegisterLink(w) ==
    /\ pc[w] = "registerCas"
    /\ waitList[Current(w)] = head[w]
    /\ nextWaiter' = [nextWaiter EXCEPT ![task[w]] = head[w]]
    /\ waitList' = [waitList EXCEPT ![Current(w)] = task[w]]
    /\ Forget(head, w) /\ Forget(task, w)
    /\ pc' = [pc EXCEPT ![w] = After(walk[w])]
    /\ UNCHANGED <<satisfied, datum, freed, index, spawned, scheduled, prom, walk>>

\* Another task or a put got there first: read the head again.
RegisterFail(w) ==
    /\ pc[w] = "registerCas"
    /\ waitList[Current(w)] # head[w]
    /\ nextWaiter' = [nextWaiter EXCEPT ![task[w]] = head[w]]
    /\ Forget(head, w)
    /\ pc' = [pc EXCEPT ![w] = "register"]
    /\ UNCHANGED <<promiseVars, index, spawned, scheduled, prom, task, walk>>

-----------------------------------------------------------------------------
(* hclib_promise_put *)

\* The caller puts a promise once; the list is read before the datum is set.
PutRead(w, p) ==
    /\ pc[w] = "idle"
    /\ ~satisfied[p]
    /\ \A v \in Workers : pc[v] \in {"putDatum", "putSatisfied"} => prom[v] # p
    /\ p \notin freed
    /\ prom' = [prom EXCEPT ![w] = p]
    /\ head' = [head EXCEPT ![w] = waitList[p]]
    /\ pc' = [pc EXCEPT ![w] = "putDatum"]
    /\ UNCHANGED <<promiseVars, taskVars, task, walk>>

PutDatum(w) ==
    /\ pc[w] = "putDatum"
    /\ datum' = [datum EXCEPT ![prom[w]] = TRUE]
    /\ pc' = [pc EXCEPT ![w] = "putSatisfied"]
    /\ UNCHANGED <<satisfied, waitList, freed, taskVars, prom, head, task, walk>>

PutSatisfied(w) ==
    /\ pc[w] = "putSatisfied"
    /\ satisfied' = [satisfied EXCEPT ![prom[w]] = TRUE]
    /\ pc' = [pc EXCEPT ![w] = "putCas"]
    /\ UNCHANGED <<datum, waitList, freed, taskVars, prom, head, task, walk>>

PutClose(w) ==
    /\ pc[w] = "putCas"
    /\ waitList[prom[w]] = head[w]
    /\ waitList' = [waitList EXCEPT ![prom[w]] = SATISFIED]
    /\ walk' = [walk EXCEPT ![w] = head[w]]
    /\ Forget(prom, w) /\ Forget(head, w)
    /\ pc' = [pc EXCEPT ![w] = After(head[w])]
    /\ UNCHANGED <<satisfied, datum, freed, taskVars, task>>

\* Mutant of PutFail: a lost CAS is not tried again.
PutGivesUp(w) ==
    /\ pc[w] = "putCas"
    /\ waitList[prom[w]] # head[w]
    /\ pc' = [pc EXCEPT ![w] = "idle"]
    /\ UNCHANGED <<promiseVars, taskVars, prom, head, task, walk>>

\* A task was added since the list was read.
PutFail(w) ==
    /\ pc[w] = "putCas"
    /\ waitList[prom[w]] # head[w]
    /\ pc' = [pc EXCEPT ![w] = "putReread"]
    /\ UNCHANGED <<promiseVars, taskVars, prom, head, task, walk>>

PutReread(w) ==
    /\ pc[w] = "putReread"
    /\ head' = [head EXCEPT ![w] = waitList[prom[w]]]
    /\ pc' = [pc EXCEPT ![w] = "putCas"]
    /\ UNCHANGED <<promiseVars, taskVars, prom, task, walk>>

\* next_task is read before the task is registered elsewhere.
PutWalk(w) ==
    /\ pc[w] = "walk"
    /\ Advance(w, walk[w], nextWaiter[walk[w]])
    /\ UNCHANGED <<promiseVars, nextWaiter, spawned, prom, head>>

-----------------------------------------------------------------------------
\* The tasks that name a promise.
Users(p) == {t \in Tasks : \E i \in DOMAIN Deps[t] : Deps[t][i] = p}

\* The last of the tasks that await a promise frees it (free_ddt_args of the
\* fib test): hclib_promise_free.
FreeInTask(p) ==
    /\ p \notin freed
    /\ Users(p) # {}
    /\ \A t \in Users(p) : scheduled[t] > 0
    /\ freed' = freed \cup {p}
    /\ UNCHANGED <<satisfied, datum, waitList, taskVars, workerVars>>

Register(w) == RegisterSatisfied(w) \/ RegisterRead(w) \/ RegisterLink(w) \/ RegisterFail(w)

PutRest(w) ==
    PutDatum(w) \/ PutSatisfied(w) \/ PutClose(w) \/ PutFail(w) \/ PutReread(w) \/ PutWalk(w)

Next ==
    \/ \E w \in Workers :
        \/ \E t \in Tasks : SpawnReady(w, t) \/ SpawnAwait(w, t)
        \/ \E p \in Promises : PutRead(w, p)
        \/ Register(w)
        \/ PutRest(w)
    \/ \E p \in Promises : FreeInTask(p)

Spec == Init /\ [][Next]_vars

\* A worker inside spawn or put is not stopped for ever.
FairSpec == Spec /\ \A w \in Workers : WF_vars(Register(w) \/ PutRest(w))

-----------------------------------------------------------------------------
(* Properties *)

Pointers == Tasks \cup {NULL, SENTINEL, SATISFIED}

\* Types: a wait list, open or closed, and the rest of a list a put walks hold
\* tasks and end with SENTINEL; a put never walks into the mark of a closed one.
TypeOK ==
    /\ satisfied \in [Promises -> BOOLEAN]
    /\ datum \in [Promises -> BOOLEAN]
    /\ waitList \in [Promises -> Tasks \cup {SENTINEL, SATISFIED}]
    /\ freed \subseteq Promises
    /\ nextWaiter \in [Tasks -> Tasks \cup {NULL, SENTINEL}]
    /\ index \in [Tasks -> Nat \cup {-1}]
    /\ spawned \subseteq Tasks
    /\ scheduled \in [Tasks -> Nat]
    /\ pc \in [Workers -> {"idle", "register", "registerCas", "putDatum",
                           "putSatisfied", "putCas", "putReread", "walk"}]
    /\ prom \in [Workers -> Promises \cup {NULL}]
    /\ head \in [Workers -> Pointers]
    /\ task \in [Workers -> Tasks \cup {NULL}]
    /\ walk \in [Workers -> Tasks \cup {SENTINEL}]

\* hclib_future_get and hclib_future_wait read the datum after they saw
\* satisfied: it is there.
DatumBeforeSatisfied == \A p \in Promises : satisfied[p] => datum[p]

\* A task is placed in a deque only once every future it was spawned with
\* holds its datum (the comment above is_eligible_to_schedule), and so does a
\* future that a worker finds satisfied.
DepsBeforeRun ==
    /\ DatumBeforeSatisfied
    /\ \A t \in Tasks : scheduled[t] > 0 =>
        \A i \in DOMAIN Deps[t] : Deps[t][i] # NULL => satisfied[Deps[t][i]]

\* The places where a task can be found: on the wait list of a promise, on a
\* list a putter has closed and not yet reached it on, in the hands of the
\* worker that registers it, or in a work deque (once per placement).
Places(t) ==
    {<<"list", p>> : p \in {q \in Promises : t \in Chain(nextWaiter, waitList[q])}}
    \cup {<<"walk", w>> : w \in {v \in Workers : t \in Chain(nextWaiter, walk[v])}}
    \cup {<<"hands", w>> : w \in {v \in Workers :
                                   pc[v] \in {"register", "registerCas"} /\ task[v] = t}}
    \cup {<<"deque", n>> : n \in 1 .. scheduled[t]}

\* No task is lost and none is run twice: whatever the interleaving of
\* registrations and puts, a spawned task is in exactly one place, and the
\* lists it travels on are lists of tasks.
OnePlace ==
    /\ TypeOK
    /\ \A t \in Tasks : Cardinality(Places(t)) = IF t \in spawned THEN 1 ELSE 0

\* The promise a worker's next step reads or writes.
Touched(w) ==
    CASE pc[w] \in {"putDatum", "putSatisfied", "putCas", "putReread"} -> {prom[w]}
      [] pc[w] \in {"register", "registerCas"} -> {Current(w)}
      [] OTHER -> {}

\* A promise that its last waiting task has freed is no longer used by the
\* worker that put it.
NoUseAfterFree == \A w \in Workers : Touched(w) \cap freed = {}

\* No wake-up is lost: a spawned task whose futures are all satisfied is
\* eventually placed in a deque.
Woken ==
    \A t \in Tasks :
        (t \in spawned /\ \A i \in DOMAIN Deps[t] : Deps[t][i] # NULL => satisfied[Deps[t][i]])
            ~> scheduled[t] > 0
=============================================================================
