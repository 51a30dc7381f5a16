--------------------------- MODULE PromiseProofs ---------------------------
(***************************************************************************)
(* Proofs about Promise, for every number of workers, promises and tasks,  *)
(* every list of futures of each task and every MaxNumWaits.               *)
(***************************************************************************)
EXTENDS Promise, FiniteSetTheorems

-----------------------------------------------------------------------------
(* The inductive invariant *)

InHands(t, w) == pc[w] \in {"register", "registerCas"} /\ task[w] = t
OnList(t, p) == t \in Chain(nextWaiter, waitList[p])
OnWalk(t, w) == t \in Chain(nextWaiter, walk[w])
Waiting(t) == (\E p \in Promises : OnList(t, p)) \/ (\E w \in Workers : OnWalk(t, w))

\* A task is in one place at a time, in none before it is spawned, and is
\* scheduled at most once.
PlaceInv ==
    \A t \in Tasks :
        /\ scheduled[t] \in {0, 1}
        /\ \A p, q \in Promises : OnList(t, p) /\ OnList(t, q) => p = q
        /\ \A v, w \in Workers : OnWalk(t, v) /\ OnWalk(t, w) => v = w
        /\ \A v, w \in Workers : InHands(t, v) /\ InHands(t, w) => v = w
        /\ \A w \in Workers : InHands(t, w) => ~Waiting(t)
        /\ \A p \in Promises, w \in Workers : OnList(t, p) => ~OnWalk(t, w)
        /\ scheduled[t] = 1 => ~Waiting(t) /\ \A w \in Workers : ~InHands(t, w)
        /\ t \in spawned <=> \/ scheduled[t] = 1 \/ Waiting(t)
                             \/ \E w \in Workers : InHands(t, w)

\* The wait lists and the closed lists are lists that end with SENTINEL.
ChainInv ==
    \A t \in Tasks : Waiting(t) =>
        t \notin Chain(nextWaiter, nextWaiter[t]) /\ nextWaiter[t] \in Tasks \cup {SENTINEL}

\* A task that is not scheduled yet is at a future, has the ones before it
\* behind it, hangs on the list of that future or has been taken off it by
\* the put that closed it.
IndexInv ==
    /\ \A t \in Tasks \ spawned : index[t] = -1
    /\ \A t \in spawned : scheduled[t] = 0 =>
        /\ index[t] \in Nat
        /\ Dep(t, index[t]) # NULL
        /\ \A j \in 0 .. index[t] - 1 : Dep(t, j) # NULL => waitList[Dep(t, j)] = SATISFIED
        /\ \A p \in Promises : OnList(t, p) => Dep(t, index[t]) = p
        /\ \A w \in Workers : OnWalk(t, w) => waitList[Dep(t, index[t])] = SATISFIED

\* A list is closed after satisfied is set, and that after the datum.
ClosedInv ==
    \A p \in Promises :
        /\ waitList[p] = SATISFIED => satisfied[p]
        /\ satisfied[p] => datum[p]

Putting == {"putDatum", "putSatisfied", "putCas", "putReread"}

\* One worker puts a promise, whose list is open until it closes it; a worker
\* keeps the rest of a closed list only while it handles the tasks of one.
WorkerInv ==
    \A w \in Workers :
        /\ pc[w] \in Putting =>
            /\ prom[w] \in Promises
            /\ waitList[prom[w]] # SATISFIED
            /\ pc[w] = "putSatisfied" => datum[prom[w]]
            /\ satisfied[prom[w]] <=> pc[w] \in {"putCas", "putReread"}
            /\ \A v \in Workers : pc[v] \in Putting /\ prom[v] = prom[w] => v = w
        /\ pc[w] \in Putting \cup {"registerCas"} => head[w] \in Tasks \cup {SENTINEL}
        /\ pc[w] \in {"register", "registerCas"} => task[w] \in Tasks
        /\ pc[w] = "walk" => walk[w] \in Tasks
        /\ walk[w] # SENTINEL => pc[w] \in {"walk", "register", "registerCas"}

IInv == TypeOK /\ PlaceInv /\ ChainInv /\ IndexInv /\ ClosedInv /\ WorkerInv

\* A scheduled task has found the lists of all its futures closed.
AllClosed(t) ==
    \A i \in DOMAIN Deps[t] : Deps[t][i] # NULL => waitList[Deps[t][i]] = SATISFIED

ClosedBeforeRun == \A t \in Tasks : scheduled[t] > 0 => AllClosed(t)

\* A promise is freed after the last task that names it was scheduled.
FreedInv ==
    \A p \in freed : Users(p) # {} /\ \A t \in Users(p) : scheduled[t] > 0

-----------------------------------------------------------------------------
(* Lemmas about the futures of a task *)

\* A future of a task is a promise or NULL, and NULL beyond the last one.
LEMMA DepType ==
    ASSUME NEW t \in Tasks, NEW i \in Nat
    PROVE  /\ Len(Deps[t]) \in Nat
           /\ Dep(t, i) \in Promises \cup {NULL}
           /\ Dep(t, i) # NULL => i < Len(Deps[t]) /\ Dep(t, i) = Deps[t][i + 1]
<1>1. Deps[t] \in Seq(Promises \cup {NULL})
  BY PromiseAssumption
<1> QED BY <1>1 DEF Dep

\* register_on_all_promise_dependencies turns to a later future that is not
\* NULL, and every future it steps over is NULL.
LEMMA NextDepLater ==
    ASSUME NEW t \in Tasks, NEW i \in Nat \cup {-1}, NextDep(t, i) # NoDep
    PROVE  /\ NextDep(t, i) \in Nat
           /\ Dep(t, NextDep(t, i)) # NULL
           /\ \A j \in Nat : i < j /\ j < NextDep(t, i) => Dep(t, j) = NULL
<1> DEFINE inline == {j \in i + 1 .. MaxNumWaits - 1 : Dep(t, j) # NULL}
           extra == (IF i < MaxNumWaits THEN MaxNumWaits - 1 ELSE i) + 1
<1> USE PromiseAssumption
<1>1. CASE inline # {}
  <2>1. inline \in SUBSET Nat
    OBVIOUS
  <2>2. \E x \in inline : \A y \in inline : x <= y
    BY <1>1, <2>1, LeastExists
  <2>3. NextDep(t, i) = Min(inline)
    BY <1>1 DEF NextDep
  <2>4. NextDep(t, i) \in inline /\ \A y \in inline : NextDep(t, i) <= y
    BY <2>2, <2>3 DEF Min
  <2>5. \A j \in Nat : i < j /\ j < NextDep(t, i) => j \in i + 1 .. MaxNumWaits - 1 /\ j \notin inline
    BY <2>1, <2>4
  <2> QED BY <2>4, <2>5
<1>2. CASE inline = {}
  <2>1. NextDep(t, i) = extra /\ Dep(t, extra) # NULL
    BY <1>2 DEF NextDep
  <2>2. \A j \in Nat : i < j /\ j < extra => j \in i + 1 .. MaxNumWaits - 1
    OBVIOUS
  <2> QED BY <1>2, <2>1, <2>2
<1> QED BY <1>1, <1>2

\* When it finds no future, a task with usable futures has none left.
LEMMA NextDepNone ==
    ASSUME NEW t \in Tasks, UsableFutures(t), NEW i \in Nat \cup {-1}, NextDep(t, i) = NoDep
    PROVE  \A j \in Nat : i < j => Dep(t, j) = NULL
<1> DEFINE inline == {j \in i + 1 .. MaxNumWaits - 1 : Dep(t, j) # NULL}
           extra == (IF i < MaxNumWaits THEN MaxNumWaits - 1 ELSE i) + 1
<1> USE PromiseAssumption
<1>1. inline = {}
  <2> SUFFICES ASSUME inline # {} PROVE FALSE
    OBVIOUS
  <2>1. inline \in SUBSET Nat
    OBVIOUS
  <2>2. \E x \in inline : \A y \in inline : x <= y
    BY <2>1, LeastExists
  <2>3. NextDep(t, i) = Min(inline)
    BY DEF NextDep
  <2>4. NextDep(t, i) \in inline
    BY <2>2, <2>3 DEF Min
  <2> QED BY <2>1, <2>4 DEF NoDep
<1>2. extra \in Nat /\ extra >= MaxNumWaits /\ Dep(t, extra) = NULL
  BY <1>1 DEF NextDep, NoDep
<1>3. Len(Deps[t]) \in Nat
  BY DepType
<1>4. extra >= Len(Deps[t])
  BY <1>2, <1>3 DEF UsableFutures
<1>5. \A j \in Nat : i < j => j \in i + 1 .. MaxNumWaits - 1 \/ j >= extra
  OBVIOUS
<1> QED BY <1>1, <1>2, <1>3, <1>4, <1>5 DEF Dep

-----------------------------------------------------------------------------
(* Lemmas about the lists *)

\* The nodes of the lists are tasks.
LEMMA ChainTasks ==
    ASSUME TypeOK, NEW x
    PROVE  Chain(nextWaiter, x) \subseteq Tasks /\ DOMAIN nextWaiter = Tasks
BY ChainClosed DEF TypeOK

\* A task that a worker holds is nowhere else.
LEMMA HandsAlone ==
    ASSUME IInv, NEW w \in Workers, pc[w] \in {"register", "registerCas"}
    PROVE  /\ task[w] \in Tasks
           /\ task[w] \in spawned
           /\ scheduled[task[w]] = 0
           /\ ~Waiting(task[w])
           /\ \A v \in Workers : InHands(task[w], v) => v = w
<1>1. task[w] \in Tasks /\ InHands(task[w], w)
  BY DEF IInv, WorkerInv, InHands
<1> QED BY <1>1 DEF IInv, PlaceInv

\* The first task of the closed list a worker walks is on that list only.
LEMMA WalkAlone ==
    ASSUME IInv, NEW w \in Workers, pc[w] = "walk"
    PROVE  /\ walk[w] \in Tasks
           /\ walk[w] \in spawned
           /\ scheduled[walk[w]] = 0
           /\ OnWalk(walk[w], w)
           /\ \A v \in Workers : ~InHands(walk[w], v)
           /\ \A v \in Workers : OnWalk(walk[w], v) => v = w
           /\ \A p \in Promises : ~OnList(walk[w], p)
<1>1. walk[w] \in Tasks
  BY DEF IInv, WorkerInv
<1>2. OnWalk(walk[w], w)
  BY <1>1, ChainClosed, ChainTasks DEF IInv, OnWalk
<1>3. Waiting(walk[w])
  BY <1>2 DEF Waiting
<1> QED BY <1>1, <1>2, <1>3 DEF IInv, PlaceInv

-----------------------------------------------------------------------------
(* The invariant is inductive *)

\* Promises without waiters and tasks that are not spawned satisfy it.
LEMMA InitIInv == Init => IInv
<1> SUFFICES ASSUME Init PROVE IInv
  OBVIOUS
<1> USE PromiseAssumption DEF Init
<1>1. TypeOK
  BY DEF TypeOK, Pointers
<1>2. \A t \in Tasks : ~Waiting(t)
  BY <1>1, ChainTasks, ChainEmpty DEF Waiting, OnList, OnWalk
<1>3. PlaceInv
  BY <1>2 DEF PlaceInv, InHands, Waiting
<1>4. ChainInv /\ IndexInv /\ ClosedInv
  BY <1>2 DEF ChainInv, IndexInv, ClosedInv
<1>5. WorkerInv
  BY DEF WorkerInv, Putting
<1> QED BY <1>1, <1>3, <1>4, <1>5 DEF IInv

\* A step that moves no task and closes no list keeps every task where it is.
LEMMA LeaveTasks ==
    ASSUME IInv, UNCHANGED <<nextWaiter, waitList, walk, taskVars>>,
           \A t \in Tasks, w \in Workers : InHands(t, w)' <=> InHands(t, w)
    PROVE  PlaceInv' /\ ChainInv' /\ IndexInv'
<1> USE DEF taskVars
<1>1. \A t \in Tasks : /\ \A p \in Promises : OnList(t, p)' <=> OnList(t, p)
                       /\ \A w \in Workers : OnWalk(t, w)' <=> OnWalk(t, w)
  BY DEF OnList, OnWalk
<1>2. \A t \in Tasks : Waiting(t)' <=> Waiting(t)
  BY <1>1 DEF Waiting
<1>3. PlaceInv'
  BY <1>1, <1>2 DEF IInv, PlaceInv
<1>4. ChainInv'
  BY <1>2 DEF IInv, ChainInv
<1>5. IndexInv'
  <2>1. spawned \subseteq Tasks
    BY DEF IInv, TypeOK
  <2> QED BY <1>1, <2>1 DEF IInv, IndexInv, Dep
<1> QED BY <1>3, <1>4, <1>5

\* The steps of a put up to its CAS, and the read of a registration.
LEMMA PutIInv ==
    ASSUME IInv, NEW w \in Workers,
           \/ \E p \in Promises : PutRead(w, p)
           \/ PutDatum(w) \/ PutSatisfied(w) \/ PutFail(w) \/ PutReread(w) \/ RegisterRead(w)
    PROVE  IInv'
<1> USE PromiseAssumption
<1>a. TypeOK /\ ClosedInv /\ WorkerInv
  BY DEF IInv
<1>b. UNCHANGED <<nextWaiter, waitList, walk, taskVars, task>>
  BY DEF PutRead, PutDatum, PutSatisfied, PutFail, PutReread, RegisterRead,
     promiseVars, taskVars, workerVars
<1>c. \A v \in Workers : pc'[v] \in {"register", "registerCas"} <=> pc[v] \in {"register", "registerCas"}
  BY <1>a DEF PutRead, PutDatum, PutSatisfied, PutFail, PutReread, RegisterRead,
     workerVars, TypeOK
<1>d. PlaceInv' /\ ChainInv' /\ IndexInv'
  BY <1>b, <1>c, LeaveTasks DEF InHands
<1>1. CASE \E p \in Promises : PutRead(w, p)
  <2> PICK p \in Promises : PutRead(w, p)
    BY <1>1
  <2> USE DEF PutRead, promiseVars, taskVars
  <2>1. waitList[p] # SATISFIED /\ waitList[p] \in Tasks \cup {SENTINEL}
    BY <1>a DEF ClosedInv, TypeOK
  <2>2. \A v \in Workers : pc[v] \in Putting => prom[v] # p
    BY <1>a DEF WorkerInv, Putting
  <2>3. TypeOK'
    BY <1>a DEF TypeOK, Pointers
  <2>4. ClosedInv'
    BY <1>a DEF ClosedInv
  <2>5. /\ pc'[w] = "putDatum" /\ prom'[w] = p /\ head'[w] = waitList[p]
        /\ \A v \in Workers : v # w => pc'[v] = pc[v] /\ prom'[v] = prom[v] /\ head'[v] = head[v]
    BY <1>a DEF TypeOK
  <2>6. WorkerInv'
    BY <1>a, <2>1, <2>2, <2>5 DEF WorkerInv, Putting
  <2> QED BY <1>d, <2>3, <2>4, <2>6 DEF IInv
<1>2. CASE PutDatum(w)
  <2> USE <1>2 DEF PutDatum, taskVars
  <2>1. prom[w] \in Promises
    BY <1>a DEF WorkerInv, Putting
  <2>2. TypeOK'
    BY <1>a, <2>1 DEF TypeOK
  <2>3. ClosedInv'
    BY <1>a, <2>1 DEF ClosedInv, TypeOK
  <2>4. WorkerInv'
    <3>1. pc'[w] = "putSatisfied" /\ \A v \in Workers : v # w => pc'[v] = pc[v]
      BY <1>a DEF TypeOK
    <3>2. datum'[prom[w]] /\ \A p \in Promises : datum[p] => datum'[p]
      BY <1>a, <2>1 DEF TypeOK
    <3> QED BY <1>a, <3>1, <3>2 DEF WorkerInv, Putting
  <2> QED BY <1>d, <2>2, <2>3, <2>4 DEF IInv
<1>3. CASE PutSatisfied(w)
  <2> USE <1>3 DEF PutSatisfied, taskVars
  <2>1. prom[w] \in Promises /\ datum[prom[w]]
    BY <1>a DEF WorkerInv, Putting
  <2>2. TypeOK'
    BY <1>a, <2>1 DEF TypeOK
  <2>3. ClosedInv'
    BY <1>a, <2>1 DEF ClosedInv, TypeOK
  <2>4. WorkerInv'
    <3>1. pc'[w] = "putCas" /\ \A v \in Workers : v # w => pc'[v] = pc[v]
      BY <1>a DEF TypeOK
    <3>2. satisfied'[prom[w]] /\ \A p \in Promises : p # prom[w] => satisfied'[p] = satisfied[p]
      BY <1>a, <2>1 DEF TypeOK
    <3>3. \A v \in Workers : v # w /\ pc[v] \in Putting => prom[v] # prom[w]
      BY <1>a DEF WorkerInv, Putting
    <3> QED BY <1>a, <3>1, <3>2, <3>3 DEF WorkerInv, Putting
  <2> QED BY <1>d, <2>2, <2>3, <2>4 DEF IInv
<1>4. CASE PutFail(w)
  <2> USE <1>4 DEF PutFail, taskVars, promiseVars
  <2>1. TypeOK' /\ ClosedInv'
    BY <1>a DEF TypeOK, ClosedInv
  <2>2. pc'[w] = "putReread" /\ \A v \in Workers : v # w => pc'[v] = pc[v]
    BY <1>a DEF TypeOK
  <2>3. WorkerInv'
    BY <1>a, <2>2 DEF WorkerInv, Putting
  <2> QED BY <1>d, <2>1, <2>3 DEF IInv
<1>5. CASE PutReread(w)
  <2> USE <1>5 DEF PutReread, taskVars, promiseVars
  <2>1. prom[w] \in Promises /\ waitList[prom[w]] \in Tasks \cup {SENTINEL}
    BY <1>a DEF WorkerInv, Putting, TypeOK
  <2>2. TypeOK' /\ ClosedInv'
    BY <1>a, <2>1 DEF TypeOK, ClosedInv, Pointers
  <2>3. /\ pc'[w] = "putCas" /\ head'[w] = waitList[prom[w]]
        /\ \A v \in Workers : v # w => pc'[v] = pc[v] /\ head'[v] = head[v]
    BY <1>a DEF TypeOK
  <2>4. WorkerInv'
    BY <1>a, <2>1, <2>3 DEF WorkerInv, Putting
  <2> QED BY <1>d, <2>2, <2>4 DEF IInv
<1>6. CASE RegisterRead(w)
  <2> USE <1>6 DEF RegisterRead, taskVars, promiseVars
  <2>1. Current(w) \in Promises
    <3>1. task[w] \in Tasks /\ task[w] \in spawned /\ scheduled[task[w]] = 0
      BY HandsAlone
    <3> QED BY <3>1, DepType DEF IInv, IndexInv, Current
  <2>2. waitList[Current(w)] \in Tasks \cup {SENTINEL}
    BY <1>a, <2>1 DEF TypeOK
  <2>3. TypeOK' /\ ClosedInv'
    BY <1>a, <2>2 DEF TypeOK, ClosedInv, Pointers
  <2>4. /\ pc'[w] = "registerCas" /\ head'[w] = waitList[Current(w)]
        /\ \A v \in Workers : v # w => pc'[v] = pc[v] /\ head'[v] = head[v]
    BY <1>a DEF TypeOK
  <2>5. WorkerInv'
    BY <1>a, <2>2, <2>4 DEF WorkerInv, Putting
  <2> QED BY <1>d, <2>3, <2>5 DEF IInv
<1> QED BY <1>1, <1>2, <1>3, <1>4, <1>5, <1>6

\* Taking a task from one future to the next, or to a deque, preserves the
\* invariant: the task was with the worker only, which goes on with the rest of
\* the closed list it walks, and the lists of the futures up to here are closed.
LEMMA AdvanceIInv ==
    ASSUME IInv, NEW w \in Workers, NEW t \in Tasks, NEW rest \in Tasks \cup {SENTINEL},
           Advance(w, t, rest), spawned' = spawned \cup {t},
           UNCHANGED <<promiseVars, nextWaiter, prom, head>>,
           scheduled[t] = 0,
           \A v \in Workers : v # w => ~InHands(t, v) /\ ~OnWalk(t, v),
           \A p \in Promises : ~OnList(t, p),
           Chain(nextWaiter, rest) = Chain(nextWaiter, walk[w]) \ {t},
           pc[w] \in {"register", "registerCas"} => task[w] = t,
           pc[w] \notin Putting,
           \A j \in 0 .. index[t] : Dep(t, j) # NULL => waitList[Dep(t, j)] = SATISFIED
    PROVE  IInv'
<1> DEFINE i == NextDep(t, index[t])
<1> USE PromiseAssumption DEF promiseVars
<1>a. TypeOK /\ PlaceInv /\ ChainInv /\ IndexInv /\ ClosedInv /\ WorkerInv
  BY DEF IInv
<1>b. index[t] \in Nat \cup {-1}
  BY <1>a DEF TypeOK
<1>c. i # NoDep => /\ i \in Nat /\ Dep(t, i) # NULL
                   /\ \A j \in Nat : index[t] < j /\ j < i => Dep(t, j) = NULL
  BY <1>b, NextDepLater
<1>d. /\ walk' = [walk EXCEPT ![w] = rest]
      /\ i = NoDep =>
            /\ scheduled' = [scheduled EXCEPT ![t] = 1]
            /\ pc' = [pc EXCEPT ![w] = After(rest)]
            /\ task' = [task EXCEPT ![w] = NULL]
            /\ index' = index
      /\ i # NoDep =>
            /\ index' = [index EXCEPT ![t] = i]
            /\ task' = [task EXCEPT ![w] = t]
            /\ pc' = [pc EXCEPT ![w] = "register"]
            /\ scheduled' = scheduled
  BY <1>a DEF Advance, Schedule, Forget, TypeOK
<1> HIDE DEF i
<1>e. After(rest) \in {"idle", "walk"}
  BY DEF After
<1>1. TypeOK'
  <2>1. pc' \in [Workers -> {"idle", "register", "registerCas", "putDatum",
                             "putSatisfied", "putCas", "putReread", "walk"}]
    BY <1>a, <1>d, <1>e DEF TypeOK
  <2>2. /\ task' \in [Workers -> Tasks \cup {NULL}]
        /\ walk' \in [Workers -> Tasks \cup {SENTINEL}]
    <3>1. walk' \in [Workers -> Tasks \cup {SENTINEL}]
      BY ONLY <1>a, <1>d, rest \in Tasks \cup {SENTINEL} DEF TypeOK
    <3>2. task' \in [Workers -> Tasks \cup {NULL}]
      BY ONLY <1>a, <1>d, t \in Tasks DEF TypeOK
    <3> QED BY <3>1, <3>2
  <2>3. index' \in [Tasks -> Nat \cup {-1}] /\ scheduled' \in [Tasks -> Nat]
    <3>1. scheduled' \in [Tasks -> Nat]
      BY ONLY <1>a, <1>d DEF TypeOK
    <3>2. index' \in [Tasks -> Nat \cup {-1}]
      BY ONLY <1>a, <1>c, <1>d DEF TypeOK
    <3> QED BY <3>1, <3>2
  <2> QED BY <1>a, <2>1, <2>2, <2>3 DEF TypeOK, Pointers
<1>2. \A u \in Tasks :
        /\ \A p \in Promises : OnList(u, p)' <=> OnList(u, p)
        /\ \A v \in Workers : OnWalk(u, v)' <=> OnWalk(u, v) /\ u # t
  <2>1. walk'[w] = rest /\ \A v \in Workers : v # w => walk'[v] = walk[v]
    BY <1>a, <1>d DEF TypeOK
  <2> QED BY <2>1 DEF OnList, OnWalk
<1>3. ~Waiting(t)' /\ \A u \in Tasks : u # t => (Waiting(u)' <=> Waiting(u))
  BY <1>2 DEF Waiting
<1>4. /\ \A u \in Tasks, v \in Workers : u # t => (InHands(u, v)' <=> InHands(u, v))
      /\ \A v \in Workers : InHands(t, v)' <=> v = w /\ i # NoDep
  <2>1. \A v \in Workers : v # w => pc'[v] = pc[v] /\ task'[v] = task[v]
    BY <1>a, <1>d DEF TypeOK
  <2>2. i = NoDep => pc'[w] = After(rest)
    BY <1>a, <1>d DEF TypeOK
  <2>3. i # NoDep => pc'[w] = "register" /\ task'[w] = t
    BY <1>a, <1>d DEF TypeOK
  <2> QED BY <1>e, <2>1, <2>2, <2>3 DEF InHands
<1>5. /\ \A u \in Tasks : u # t => scheduled'[u] = scheduled[u] /\ index'[u] = index[u]
      /\ scheduled'[t] = IF i = NoDep THEN 1 ELSE 0
      /\ i # NoDep => index'[t] = i
  BY <1>a, <1>d DEF TypeOK
<1>6. PlaceInv'
  <2> SUFFICES ASSUME NEW u \in Tasks PROVE PlaceInv!(u)'
    BY DEF PlaceInv
  <2>1. CASE u = t
    BY <1>2, <1>3, <1>4, <1>5, <2>1 DEF PlaceInv, Waiting
  <2>2. CASE u # t
    BY <1>a, <1>2, <1>3, <1>4, <1>5, <2>2 DEF PlaceInv
  <2> QED BY <2>1, <2>2
<1>7. ChainInv'
  BY <1>a, <1>3 DEF ChainInv
<1>8. IndexInv'
  <2>1. spawned \subseteq Tasks
    BY <1>a DEF TypeOK
  <2>2. \A u \in Tasks \ spawned' : index'[u] = -1
    BY <1>a, <1>5 DEF IndexInv
  <2> SUFFICES ASSUME NEW u \in spawned', scheduled'[u] = 0
               PROVE  /\ index'[u] \in Nat
                      /\ Dep(u, index'[u]) # NULL
                      /\ \A j \in 0 .. index'[u] - 1 :
                            Dep(u, j) # NULL => waitList'[Dep(u, j)] = SATISFIED
                      /\ \A p \in Promises : OnList(u, p)' => Dep(u, index'[u]) = p
                      /\ \A v \in Workers : OnWalk(u, v)' => waitList'[Dep(u, index'[u])] = SATISFIED
    BY <2>2 DEF IndexInv, Dep
  <2>3. CASE u = t
    <3>1. i # NoDep /\ index'[t] = i /\ i \in Nat /\ Dep(t, i) # NULL
      BY <1>c, <1>5, <2>3
    <3>2. \A j \in 0 .. i - 1 : Dep(t, j) # NULL => j \in 0 .. index[t]
      BY <1>b, <1>c, <3>1
    <3> QED BY <1>2, <2>3, <3>1, <3>2
  <2>4. CASE u # t
    BY <1>a, <1>2, <1>5, <2>1, <2>4 DEF IndexInv
  <2> QED BY <2>3, <2>4
<1>9. ClosedInv'
  BY <1>a DEF ClosedInv
<1>10. WorkerInv'
  <2>1. \A v \in Workers : v # w => pc'[v] = pc[v] /\ task'[v] = task[v] /\ walk'[v] = walk[v]
    BY <1>a, <1>d DEF TypeOK
  <2>2. walk'[w] = rest
    BY <1>a, <1>d DEF TypeOK
  <2>3. i = NoDep => pc'[w] = After(rest)
    BY <1>a, <1>d DEF TypeOK
  <2>4. i # NoDep => pc'[w] = "register" /\ task'[w] = t
    BY <1>a, <1>d DEF TypeOK
  <2>5. pc'[w] \notin Putting \cup {"registerCas"}
    BY <1>e, <2>3, <2>4 DEF Putting
  <2>6. /\ pc'[w] \in {"register", "registerCas"} => task'[w] \in Tasks
        /\ pc'[w] = "walk" => walk'[w] \in Tasks
        /\ walk'[w] # SENTINEL => pc'[w] \in {"walk", "register", "registerCas"}
    BY <1>e, <2>2, <2>3, <2>4 DEF After
  <2> QED BY <1>a, <2>1, <2>5, <2>6 DEF WorkerInv
<1> QED BY <1>1, <1>6, <1>7, <1>8, <1>9, <1>10 DEF IInv

\* Spawning a task with futures preserves the invariant.
LEMMA SpawnAwaitIInv ==
    ASSUME IInv, NEW w \in Workers, NEW t \in Tasks, SpawnAwait(w, t)
    PROVE  IInv'
<1> USE DEF SpawnAwait
<1>1. /\ scheduled[t] = 0 /\ ~Waiting(t)
      /\ \A v \in Workers : ~InHands(t, v)
  BY DEF IInv, PlaceInv
<1>2. walk[w] = SENTINEL
  BY DEF IInv, WorkerInv
<1>3. t \notin Chain(nextWaiter, walk[w])
  BY <1>1 DEF Waiting, OnWalk
<1>4. index[t] = -1
  BY DEF IInv, IndexInv
<1>5. /\ \A v \in Workers : ~OnWalk(t, v)
      /\ \A p \in Promises : ~OnList(t, p)
      /\ pc[w] \notin Putting /\ pc[w] \notin {"register", "registerCas"}
      /\ \A j \in 0 .. index[t] : FALSE
      /\ Chain(nextWaiter, SENTINEL) = Chain(nextWaiter, walk[w]) \ {t}
  BY <1>1, <1>2, <1>3, <1>4 DEF Waiting, Putting
<1> QED BY <1>1, <1>5, AdvanceIInv

\* So does going on from a future that is found satisfied.
LEMMA RegisterSatisfiedIInv ==
    ASSUME IInv, NEW w \in Workers, RegisterSatisfied(w)
    PROVE  IInv'
<1> USE DEF RegisterSatisfied
<1>1. /\ task[w] \in Tasks /\ task[w] \in spawned /\ scheduled[task[w]] = 0
      /\ ~Waiting(task[w])
      /\ \A v \in Workers : InHands(task[w], v) => v = w
  BY HandsAlone
<1>2. /\ \A v \in Workers : ~OnWalk(task[w], v)
      /\ \A p \in Promises : ~OnList(task[w], p)
  BY <1>1 DEF Waiting
<1>3. Chain(nextWaiter, walk[w]) = Chain(nextWaiter, walk[w]) \ {task[w]}
  BY <1>2 DEF OnWalk
<1>4. index[task[w]] \in Nat
      /\ \A j \in 0 .. index[task[w]] - 1 :
            Dep(task[w], j) # NULL => waitList[Dep(task[w], j)] = SATISFIED
  BY <1>1 DEF IInv, IndexInv
<1>5. \A j \in 0 .. index[task[w]] :
            Dep(task[w], j) # NULL => waitList[Dep(task[w], j)] = SATISFIED
  BY <1>4 DEF Current
<1>6. walk[w] \in Tasks \cup {SENTINEL} /\ pc[w] \notin Putting /\ spawned' = spawned \cup {task[w]}
  BY <1>1 DEF IInv, TypeOK, Putting
<1> QED BY <1>1, <1>2, <1>3, <1>5, <1>6, AdvanceIInv

\* So does taking the next task of a closed list.
LEMMA PutWalkIInv ==
    ASSUME IInv, NEW w \in Workers, PutWalk(w)
    PROVE  IInv'
<1> USE DEF PutWalk
<1> DEFINE t == walk[w]
<1>1. /\ t \in Tasks /\ t \in spawned /\ scheduled[t] = 0 /\ OnWalk(t, w)
      /\ \A v \in Workers : ~InHands(t, v)
      /\ \A v \in Workers : OnWalk(t, v) => v = w
      /\ \A p \in Promises : ~OnList(t, p)
  BY WalkAlone
<1>2. Waiting(t)
  BY <1>1 DEF Waiting
<1>3. t \notin Chain(nextWaiter, nextWaiter[t]) /\ nextWaiter[t] \in Tasks \cup {SENTINEL}
  BY <1>1, <1>2 DEF IInv, ChainInv
<1>4. Chain(nextWaiter, nextWaiter[t]) = Chain(nextWaiter, walk[w]) \ {t}
  BY <1>1, <1>3, ChainUnfold, ChainTasks DEF IInv
<1>5. /\ index[t] \in Nat
      /\ \A j \in 0 .. index[t] - 1 : Dep(t, j) # NULL => waitList[Dep(t, j)] = SATISFIED
      /\ waitList[Dep(t, index[t])] = SATISFIED
  BY <1>1 DEF IInv, IndexInv
<1>6. \A j \in 0 .. index[t] : Dep(t, j) # NULL => waitList[Dep(t, j)] = SATISFIED
  BY <1>5
<1>7. /\ pc[w] \notin Putting /\ pc[w] \notin {"register", "registerCas"}
      /\ spawned' = spawned \cup {t}
  BY <1>1 DEF Putting
<1>8. Advance(w, t, nextWaiter[t]) /\ UNCHANGED <<promiseVars, nextWaiter, prom, head>>
  OBVIOUS
<1> HIDE DEF t
<1> QED BY <1>1, <1>3, <1>4, <1>6, <1>7, <1>8, AdvanceIInv DEF t

\* Spawning a task without futures preserves the invariant.
LEMMA SpawnReadyIInv ==
    ASSUME IInv, NEW w \in Workers, NEW t \in Tasks, SpawnReady(w, t)
    PROVE  IInv'
<1> USE DEF SpawnReady, promiseVars, workerVars
<1>1. /\ scheduled[t] = 0 /\ ~Waiting(t)
      /\ \A v \in Workers : ~InHands(t, v)
  BY DEF IInv, PlaceInv
<1>2. scheduled'[t] = 1 /\ \A u \in Tasks : u # t => scheduled'[u] = scheduled[u]
  BY <1>1 DEF IInv, TypeOK, Schedule
<1>3. TypeOK'
  BY DEF IInv, TypeOK, Schedule
<1>4. \A u \in Tasks :
        /\ \A p \in Promises : OnList(u, p)' <=> OnList(u, p)
        /\ \A v \in Workers : OnWalk(u, v)' <=> OnWalk(u, v)
        /\ \A v \in Workers : InHands(u, v)' <=> InHands(u, v)
        /\ Waiting(u)' <=> Waiting(u)
  BY DEF OnList, OnWalk, InHands, Waiting
<1>5. PlaceInv'
  <2> SUFFICES ASSUME NEW u \in Tasks PROVE PlaceInv!(u)'
    BY DEF PlaceInv
  <2>1. CASE u = t
    BY <1>1, <1>2, <1>4, <2>1 DEF PlaceInv, IInv
  <2>2. CASE u # t
    BY <1>2, <1>4, <2>2 DEF PlaceInv, IInv
  <2> QED BY <2>1, <2>2
<1>6. ChainInv'
  BY <1>4 DEF IInv, ChainInv
<1>7. IndexInv'
  <2>1. spawned \subseteq Tasks
    BY DEF IInv, TypeOK
  <2> QED BY <1>2, <1>4, <2>1 DEF IInv, IndexInv, Dep
<1>8. ClosedInv' /\ WorkerInv'
  BY DEF IInv, ClosedInv, WorkerInv
<1> QED BY <1>3, <1>5, <1>6, <1>7, <1>8 DEF IInv

\* A registration that loses its CAS has written next_waiter of a task that is
\* on no list: nothing moves.
LEMMA RegisterFailIInv ==
    ASSUME IInv, NEW w \in Workers, RegisterFail(w)
    PROVE  IInv'
<1> USE DEF RegisterFail, promiseVars, Forget
<1>a. TypeOK /\ PlaceInv /\ ChainInv /\ IndexInv /\ ClosedInv /\ WorkerInv
  BY DEF IInv
<1>1. task[w] \in Tasks /\ ~Waiting(task[w])
  BY HandsAlone
<1>2. head[w] \in Tasks \cup {SENTINEL}
  BY <1>a DEF WorkerInv
<1>3. TypeOK'
  BY <1>a, <1>1, <1>2 DEF TypeOK, Pointers
<1>4. \A u \in Tasks :
        /\ \A p \in Promises : OnList(u, p)' <=> OnList(u, p)
        /\ \A v \in Workers : OnWalk(u, v)' <=> OnWalk(u, v)
  <2>0. nextWaiter' = [nextWaiter EXCEPT ![task[w]] = head[w]]
    OBVIOUS
  <2>1. \A p \in Promises : Chain(nextWaiter', waitList[p]) = Chain(nextWaiter, waitList[p])
    <3> SUFFICES ASSUME NEW p \in Promises
                 PROVE  Chain(nextWaiter', waitList[p]) = Chain(nextWaiter, waitList[p])
      OBVIOUS
    <3>1. task[w] \notin Chain(nextWaiter, waitList[p])
      BY <1>1 DEF Waiting, OnList
    <3>2. Chain([nextWaiter EXCEPT ![task[w]] = head[w]], waitList[p]) = Chain(nextWaiter, waitList[p])
      BY ONLY <3>1, ChainElsewhere
    <3> QED BY ONLY <2>0, <3>2, Zenon
  <2>2. \A v \in Workers : Chain(nextWaiter', walk[v]) = Chain(nextWaiter, walk[v])
    <3> SUFFICES ASSUME NEW v \in Workers
                 PROVE  Chain(nextWaiter', walk[v]) = Chain(nextWaiter, walk[v])
      OBVIOUS
    <3>1. task[w] \notin Chain(nextWaiter, walk[v])
      BY <1>1 DEF Waiting, OnWalk
    <3>2. Chain([nextWaiter EXCEPT ![task[w]] = head[w]], walk[v]) = Chain(nextWaiter, walk[v])
      BY ONLY <3>1, ChainElsewhere
    <3> QED BY ONLY <2>0, <3>2, Zenon
  <2> QED BY <2>1, <2>2 DEF OnList, OnWalk
<1>5. \A u \in Tasks : Waiting(u)' <=> Waiting(u)
  BY <1>4 DEF Waiting
<1>6. \A v \in Workers :
        v # w => pc'[v] = pc[v] /\ head'[v] = head[v]
  BY <1>a DEF TypeOK
<1>7. pc'[w] = "register"
  BY <1>a DEF TypeOK
<1>8. \A u \in Tasks, v \in Workers : InHands(u, v)' <=> InHands(u, v)
  BY <1>6, <1>7 DEF InHands
<1>9. PlaceInv'
  BY <1>a, <1>4, <1>5, <1>8 DEF PlaceInv
<1>10. ChainInv'
  <2> SUFFICES ASSUME NEW u \in Tasks, Waiting(u)
               PROVE  /\ u \notin Chain(nextWaiter', nextWaiter'[u])
                      /\ nextWaiter'[u] \in Tasks \cup {SENTINEL}
    BY <1>5 DEF ChainInv
  <2>1. u # task[w] /\ nextWaiter'[u] = nextWaiter[u]
    BY <1>a, <1>1 DEF TypeOK
  <2>2. \A v \in Chain(nextWaiter, nextWaiter[u]) : Waiting(v)
    <3>1. \A p \in Promises : OnList(u, p) =>
             Chain(nextWaiter, nextWaiter[u]) \subseteq Chain(nextWaiter, waitList[p])
      BY ChainTail, ChainClosed DEF OnList, Closed
    <3>2. \A v \in Workers : OnWalk(u, v) =>
             Chain(nextWaiter, nextWaiter[u]) \subseteq Chain(nextWaiter, walk[v])
      BY ChainTail, ChainClosed DEF OnWalk, Closed
    <3> QED BY <3>1, <3>2 DEF Waiting, OnList, OnWalk
  <2>3. Chain(nextWaiter', nextWaiter[u]) = Chain(nextWaiter, nextWaiter[u])
    <3>0. ~Waiting(task[w])
      BY ONLY <1>1, Zenon
    <3>1. task[w] \notin Chain(nextWaiter, nextWaiter[u])
      BY ONLY <2>2, <3>0, Zenon
    <3>2. nextWaiter' = [nextWaiter EXCEPT ![task[w]] = head[w]]
      OBVIOUS
    <3>3. Chain([nextWaiter EXCEPT ![task[w]] = head[w]], nextWaiter[u]) = Chain(nextWaiter, nextWaiter[u])
      BY ONLY <3>1, ChainElsewhere
    <3> QED BY ONLY <3>2, <3>3, Zenon
  <2> QED BY <1>a, <2>1, <2>3 DEF ChainInv
<1>11. IndexInv'
  <2>1. spawned \subseteq Tasks
    BY <1>a DEF TypeOK
  <2> QED BY <1>a, <1>4, <2>1 DEF IndexInv, Dep
<1>12. ClosedInv' /\ WorkerInv'
  BY <1>a, <1>1, <1>6, <1>7 DEF ClosedInv, WorkerInv, Putting
<1> QED BY <1>3, <1>9, <1>10, <1>11, <1>12 DEF IInv

\* The CAS of a registration puts the task in front of the list of its future.
LEMMA RegisterLinkIInv ==
    ASSUME IInv, NEW w \in Workers, RegisterLink(w)
    PROVE  IInv'
<1> USE PromiseAssumption DEF RegisterLink, Forget
<1>a. TypeOK /\ PlaceInv /\ ChainInv /\ IndexInv /\ ClosedInv /\ WorkerInv
  BY DEF IInv
<1>b. PICK t \in Tasks : t = task[w]
  BY HandsAlone
<1>1. /\ t \in Tasks /\ t \in spawned /\ scheduled[t] = 0 /\ ~Waiting(t)
      /\ \A v \in Workers : InHands(t, v) => v = w
  BY <1>b, HandsAlone
<1>c. PICK p \in Promises : p = Current(w)
  BY <1>a, <1>b, <1>1, DepType DEF IndexInv, Current
<1>2. p \in Promises /\ p = Dep(t, index[t])
  BY <1>b, <1>c DEF Current
<1>3. /\ head[w] \in Tasks \cup {SENTINEL} /\ head[w] = waitList[p]
      /\ nextWaiter' = [nextWaiter EXCEPT ![t] = head[w]]
      /\ waitList' = [waitList EXCEPT ![p] = t]
  BY <1>a, <1>b, <1>c DEF WorkerInv
<1>4. /\ pc' = [pc EXCEPT ![w] = After(walk[w])]
      /\ head' = [head EXCEPT ![w] = NULL]
      /\ task' = [task EXCEPT ![w] = NULL]
      /\ UNCHANGED <<satisfied, datum, freed, index, spawned, scheduled, prom, walk>>
      /\ pc[w] = "registerCas"
  OBVIOUS
<1>5. After(walk[w]) \in {"idle", "walk"}
  BY DEF After
<1> HIDE DEF RegisterLink, Forget
<1>6. TypeOK'
  <2>1. /\ waitList' \in [Promises -> Tasks \cup {SENTINEL, SATISFIED}]
        /\ nextWaiter' \in [Tasks -> Tasks \cup {NULL, SENTINEL}]
    BY <1>a, <1>1, <1>2, <1>3 DEF TypeOK
  <2>2. pc' \in [Workers -> {"idle", "register", "registerCas", "putDatum",
                             "putSatisfied", "putCas", "putReread", "walk"}]
    BY <1>a, <1>4, <1>5 DEF TypeOK
  <2>3. head' \in [Workers -> Pointers] /\ task' \in [Workers -> Tasks \cup {NULL}]
    BY <1>a, <1>4 DEF TypeOK, Pointers
  <2> QED BY <1>a, <1>4, <2>1, <2>2, <2>3 DEF TypeOK
<1>7. /\ waitList'[p] = t /\ \A q \in Promises : q # p => waitList'[q] = waitList[q]
      /\ nextWaiter'[t] = head[w] /\ \A u \in Tasks : u # t => nextWaiter'[u] = nextWaiter[u]
  BY <1>a, <1>1, <1>2, <1>3 DEF TypeOK
<1>8. \A x : t \notin Chain(nextWaiter, x) => Chain(nextWaiter', x) = Chain(nextWaiter, x)
  BY <1>3, ChainElsewhere
<1>9. /\ \A q \in Promises : t \notin Chain(nextWaiter, waitList[q])
      /\ \A v \in Workers : t \notin Chain(nextWaiter, walk[v])
  BY <1>1 DEF Waiting, OnList, OnWalk
<1>10. Chain(nextWaiter', t) = {t} \cup Chain(nextWaiter, head[w])
  <2>1. DOMAIN nextWaiter = Tasks
    BY <1>a DEF TypeOK
  <2> QED BY <1>1, <1>2, <1>3, <1>9, <2>1, ChainPush
<1>11. \A u \in Tasks :
        /\ u # t => \A q \in Promises : OnList(u, q)' <=> OnList(u, q)
        /\ \A q \in Promises : OnList(t, q)' <=> q = p
        /\ \A v \in Workers : OnWalk(u, v)' <=> OnWalk(u, v)
  BY <1>2, <1>3, <1>4, <1>7, <1>8, <1>9, <1>10 DEF OnList, OnWalk
<1>12. /\ Waiting(t)'
       /\ \A v \in Workers : ~OnWalk(t, v)'
       /\ \A u \in Tasks : u # t => (Waiting(u)' <=> Waiting(u))
  BY <1>1, <1>2, <1>11 DEF Waiting
<1>13. /\ \A v \in Workers : v # w => pc'[v] = pc[v] /\ task'[v] = task[v] /\ head'[v] = head[v]
       /\ pc'[w] = After(walk[w])
  BY <1>a, <1>4 DEF TypeOK
<1>14. /\ \A u \in Tasks, v \in Workers : u # t => (InHands(u, v)' <=> InHands(u, v))
       /\ \A v \in Workers : ~InHands(t, v)'
  BY <1>1, <1>4, <1>5, <1>13, <1>b DEF InHands
<1>15. PlaceInv'
  <2> SUFFICES ASSUME NEW u \in Tasks PROVE PlaceInv!(u)'
    BY DEF PlaceInv
  <2>1. CASE u = t
    BY <1>1, <1>4, <1>11, <1>12, <1>14, <2>1
  <2>2. CASE u # t
    BY <1>a, <1>4, <1>11, <1>12, <1>14, <2>2 DEF PlaceInv
  <2> QED BY <2>1, <2>2
<1>16. ChainInv'
  <2> SUFFICES ASSUME NEW u \in Tasks, Waiting(u)'
               PROVE  /\ u \notin Chain(nextWaiter', nextWaiter'[u])
                      /\ nextWaiter'[u] \in Tasks \cup {SENTINEL}
    BY DEF ChainInv
  <2>1. CASE u = t
    BY <1>2, <1>3, <1>7, <1>8, <1>9, <2>1
  <2>2. CASE u # t
    <3>1. Waiting(u) /\ nextWaiter'[u] = nextWaiter[u]
      BY <1>7, <1>12, <2>2
    <3>2. t \notin Chain(nextWaiter, nextWaiter[u])
      <4>1. \A q \in Promises : OnList(u, q) =>
               Chain(nextWaiter, nextWaiter[u]) \subseteq Chain(nextWaiter, waitList[q])
        BY ChainTail, ChainClosed DEF OnList, Closed
      <4>2. \A v \in Workers : OnWalk(u, v) =>
               Chain(nextWaiter, nextWaiter[u]) \subseteq Chain(nextWaiter, walk[v])
        BY ChainTail, ChainClosed DEF OnWalk, Closed
      <4> QED BY <1>9, <3>1, <4>1, <4>2 DEF Waiting
    <3> QED BY <1>a, <1>8, <3>1, <3>2 DEF ChainInv
  <2> QED BY <2>1, <2>2
<1>17. waitList[p] # SATISFIED
  BY <1>3
<1>18. \A q \in Promises : waitList'[q] = SATISFIED <=> waitList[q] = SATISFIED
  BY <1>1, <1>7, <1>17
<1>19. IndexInv'
  <2>1. spawned \subseteq Tasks /\ \A u \in Tasks, j \in Nat : Dep(u, j) \in Promises \cup {NULL}
    BY <1>a, DepType DEF TypeOK
  <2> SUFFICES ASSUME NEW u \in spawned, scheduled[u] = 0
               PROVE  /\ index[u] \in Nat
                      /\ Dep(u, index[u]) # NULL
                      /\ \A j \in 0 .. index[u] - 1 :
                            Dep(u, j) # NULL => waitList'[Dep(u, j)] = SATISFIED
                      /\ \A q \in Promises : OnList(u, q)' => Dep(u, index[u]) = q
                      /\ \A v \in Workers : OnWalk(u, v)' => waitList'[Dep(u, index[u])] = SATISFIED
    BY <1>a, <1>4 DEF IndexInv, Dep
  <2>2. /\ index[u] \in Nat
        /\ Dep(u, index[u]) # NULL
        /\ \A j \in 0 .. index[u] - 1 : Dep(u, j) # NULL => waitList[Dep(u, j)] = SATISFIED
    BY <1>a DEF IndexInv
  <2>3. \A j \in 0 .. index[u] - 1 : Dep(u, j) # NULL => waitList'[Dep(u, j)] = SATISFIED
    BY <1>18, <2>1, <2>2
  <2>4. \A q \in Promises : OnList(u, q)' => Dep(u, index[u]) = q
    BY <1>a, <1>2, <1>11, <2>1 DEF IndexInv
  <2>5. \A v \in Workers : OnWalk(u, v)' => waitList'[Dep(u, index[u])] = SATISFIED
    BY <1>a, <1>11, <1>18, <2>1, <2>2 DEF IndexInv
  <2> QED BY <2>2, <2>3, <2>4, <2>5
<1>20. ClosedInv'
  BY <1>a, <1>4, <1>18 DEF ClosedInv
<1>21. WorkerInv'
  <2>1. /\ pc'[w] \notin Putting \cup {"register", "registerCas"}
        /\ pc'[w] = "walk" => walk[w] \in Tasks
        /\ walk[w] # SENTINEL => pc'[w] = "walk"
    BY <1>a, <1>13 DEF After, Putting, TypeOK
  <2> QED BY <1>a, <1>4, <1>13, <1>18, <2>1 DEF WorkerInv
<1> QED BY <1>6, <1>15, <1>16, <1>19, <1>20, <1>21 DEF IInv

\* The CAS of a put hands the tasks of the list to the worker, all at once.
LEMMA PutCloseIInv ==
    ASSUME IInv, NEW w \in Workers, PutClose(w)
    PROVE  IInv'
<1> DEFINE p == prom[w]
<1> USE PromiseAssumption DEF PutClose, Forget, taskVars
<1>a. TypeOK /\ PlaceInv /\ ChainInv /\ IndexInv /\ ClosedInv /\ WorkerInv
  BY DEF IInv
<1>1. /\ p \in Promises /\ satisfied[p] /\ walk[w] = SENTINEL
      /\ head[w] = waitList[p] /\ head[w] \in Tasks \cup {SENTINEL}
      /\ \A v \in Workers : pc[v] \in Putting /\ prom[v] = p => v = w
  BY <1>a DEF WorkerInv, Putting
<1>2. /\ waitList' = [waitList EXCEPT ![p] = SATISFIED]
      /\ walk' = [walk EXCEPT ![w] = head[w]]
      /\ prom' = [prom EXCEPT ![w] = NULL]
      /\ head' = [head EXCEPT ![w] = NULL]
      /\ pc' = [pc EXCEPT ![w] = After(head[w])]
      /\ pc[w] = "putCas"
      /\ UNCHANGED <<satisfied, datum, freed, nextWaiter, index, spawned, scheduled, task>>
  OBVIOUS
<1>3. After(head[w]) \in {"idle", "walk"}
  BY DEF After
<1> HIDE DEF p, PutClose, Forget, taskVars
<1>4. TypeOK'
  <2>1. /\ waitList' \in [Promises -> Tasks \cup {SENTINEL, SATISFIED}]
        /\ walk' \in [Workers -> Tasks \cup {SENTINEL}]
    BY <1>a, <1>1, <1>2 DEF TypeOK
  <2>2. pc' \in [Workers -> {"idle", "register", "registerCas", "putDatum",
                             "putSatisfied", "putCas", "putReread", "walk"}]
    BY <1>a, <1>2, <1>3 DEF TypeOK
  <2>3. head' \in [Workers -> Pointers] /\ prom' \in [Workers -> Promises \cup {NULL}]
    BY <1>a, <1>2 DEF TypeOK, Pointers
  <2> QED BY <1>a, <1>2, <2>1, <2>2, <2>3 DEF TypeOK
<1>5. /\ waitList'[p] = SATISFIED /\ \A q \in Promises : q # p => waitList'[q] = waitList[q]
      /\ walk'[w] = waitList[p] /\ \A v \in Workers : v # w => walk'[v] = walk[v]
  BY <1>a, <1>1, <1>2 DEF TypeOK
<1>6. Chain(nextWaiter, SATISFIED) = {} /\ Chain(nextWaiter, SENTINEL) = {}
  BY <1>a, ChainTasks, ChainEmpty
<1>7. \A u \in Tasks :
        /\ \A q \in Promises : OnList(u, q)' <=> OnList(u, q) /\ q # p
        /\ \A v \in Workers : OnWalk(u, v)' <=> IF v = w THEN OnList(u, p) ELSE OnWalk(u, v)
        /\ ~OnWalk(u, w)
  BY <1>1, <1>2, <1>5, <1>6 DEF OnList, OnWalk
<1>8. \A u \in Tasks : Waiting(u)' <=> Waiting(u)
  BY <1>1, <1>7 DEF Waiting
<1>9. /\ \A v \in Workers : v # w => pc'[v] = pc[v] /\ head'[v] = head[v] /\ prom'[v] = prom[v]
      /\ pc'[w] = After(head[w])
  BY <1>a, <1>2 DEF TypeOK
<1>10. \A u \in Tasks, v \in Workers : InHands(u, v)' <=> InHands(u, v)
  BY <1>2, <1>3, <1>9 DEF InHands
<1>11. PlaceInv'
  BY <1>a, <1>1, <1>2, <1>7, <1>8, <1>10 DEF PlaceInv
<1>12. ChainInv'
  BY <1>a, <1>2, <1>8 DEF ChainInv
<1>13. \A q \in Promises : waitList'[q] = SATISFIED <=> waitList[q] = SATISFIED \/ q = p
  BY <1>5
<1>14. IndexInv'
  <2>1. spawned \subseteq Tasks /\ \A u \in Tasks, j \in Nat : Dep(u, j) \in Promises \cup {NULL}
    BY <1>a, DepType DEF TypeOK
  <2> SUFFICES ASSUME NEW u \in spawned, scheduled[u] = 0
               PROVE  /\ index[u] \in Nat
                      /\ Dep(u, index[u]) # NULL
                      /\ \A j \in 0 .. index[u] - 1 :
                            Dep(u, j) # NULL => waitList'[Dep(u, j)] = SATISFIED
                      /\ \A q \in Promises : OnList(u, q)' => Dep(u, index[u]) = q
                      /\ \A v \in Workers : OnWalk(u, v)' => waitList'[Dep(u, index[u])] = SATISFIED
    BY <1>a, <1>2 DEF IndexInv, Dep
  <2>2. /\ index[u] \in Nat
        /\ Dep(u, index[u]) # NULL
        /\ \A j \in 0 .. index[u] - 1 : Dep(u, j) # NULL => waitList[Dep(u, j)] = SATISFIED
    BY <1>a DEF IndexInv
  <2>3. \A j \in 0 .. index[u] - 1 : Dep(u, j) # NULL => waitList'[Dep(u, j)] = SATISFIED
    BY <1>13, <2>1, <2>2
  <2>4. \A q \in Promises : OnList(u, q)' => Dep(u, index[u]) = q
    BY <1>a, <1>7, <2>1 DEF IndexInv
  <2>5. \A v \in Workers : OnWalk(u, v)' => waitList'[Dep(u, index[u])] = SATISFIED
    BY <1>a, <1>1, <1>7, <1>13, <2>1, <2>2 DEF IndexInv
  <2> QED BY <2>2, <2>3, <2>4, <2>5
<1>15. ClosedInv'
  BY <1>a, <1>1, <1>2, <1>13 DEF ClosedInv
<1>16. WorkerInv'
  <2>1. /\ pc'[w] \notin Putting \cup {"register", "registerCas"}
        /\ pc'[w] = "walk" => walk'[w] \in Tasks
        /\ walk'[w] # SENTINEL => pc'[w] = "walk"
    BY <1>a, <1>1, <1>5, <1>9 DEF After, Putting, TypeOK
  <2> QED BY <1>a, <1>1, <1>2, <1>5, <1>9, <1>13, <2>1 DEF WorkerInv
<1> QED BY <1>4, <1>11, <1>12, <1>14, <1>15, <1>16 DEF IInv

\* Every step preserves the invariant.
LEMMA NextIInv == IInv /\ [Next]_vars => IInv'
<1> SUFFICES ASSUME IInv, [Next]_vars PROVE IInv'
  OBVIOUS
<1>1. CASE UNCHANGED vars
  BY <1>1 DEF vars, promiseVars, taskVars, workerVars, IInv, TypeOK, PlaceInv, ChainInv, IndexInv,
     ClosedInv, WorkerInv, OnList, OnWalk, InHands, Waiting, Dep
<1>2. ASSUME NEW p \in Promises, FreeInTask(p) PROVE IInv'
  <2>1. UNCHANGED <<nextWaiter, waitList, walk, taskVars, workerVars, satisfied, datum>>
    BY <1>2 DEF FreeInTask, taskVars, workerVars
  <2>2. PlaceInv' /\ ChainInv' /\ IndexInv'
    BY <2>1, LeaveTasks DEF InHands, workerVars
  <2> QED BY <1>2, <2>1, <2>2 DEF FreeInTask, IInv, TypeOK, ClosedInv, WorkerInv, taskVars, workerVars
<1> QED
  BY <1>1, <1>2, PutIInv, SpawnAwaitIInv, SpawnReadyIInv, RegisterSatisfiedIInv, PutWalkIInv,
     RegisterFailIInv, RegisterLinkIInv, PutCloseIInv
  DEF Next, Register, PutRest

\* The invariant holds in every reachable state.
LEMMA InvariantHolds == Spec => []IInv
BY InitIInv, NextIInv, PTL DEF Spec

-----------------------------------------------------------------------------
(* The theorems *)

\* Whatever the interleaving of registrations and puts, a spawned task is in
\* exactly one place: no task is lost, and none is run twice.
THEOREM OnePlaceHolds == Spec => []OnePlace
<1>1. IInv => OnePlace
  <2> SUFFICES ASSUME IInv, NEW t \in Tasks
               PROVE  Cardinality(Places(t)) = IF t \in spawned THEN 1 ELSE 0
    BY DEF OnePlace, IInv
  <2> DEFINE lists == {p \in Promises : OnList(t, p)}
             walks == {w \in Workers : OnWalk(t, w)}
             hands == {w \in Workers : InHands(t, w)}
  <2>1. Places(t) = {<<"list", p>> : p \in lists} \cup {<<"walk", w>> : w \in walks}
                    \cup {<<"hands", w>> : w \in hands}
                    \cup {<<"deque", n>> : n \in 1 .. scheduled[t]}
    BY DEF Places, OnList, OnWalk, InHands
  <2>2. scheduled[t] \in {0, 1}
    BY DEF IInv, PlaceInv
  <2>3. Waiting(t) <=> lists # {} \/ walks # {}
    BY DEF Waiting
  <2>4. CASE t \notin spawned
    <3>1. lists = {} /\ walks = {} /\ hands = {} /\ 1 .. scheduled[t] = {}
      BY <2>2, <2>3, <2>4 DEF IInv, PlaceInv
    <3>2. Places(t) = {}
      BY <2>1, <3>1
    <3> QED BY <2>4, <3>2, FS_EmptySet
  <2>5. CASE t \in spawned
    <3>1. CASE scheduled[t] = 1
      <4>1. lists = {} /\ walks = {} /\ hands = {} /\ 1 .. scheduled[t] = {1}
        BY <2>3, <3>1 DEF IInv, PlaceInv
      <4>2. Places(t) = {<<"deque", 1>>}
        BY <2>1, <4>1
      <4> QED BY <2>5, <4>2, FS_Singleton
    <3>2. CASE scheduled[t] = 0
      <4>1. 1 .. scheduled[t] = {}
        BY <3>2
      <4>2. CASE hands # {}
        <5>1. PICK w \in Workers : hands = {w}
          BY <4>2 DEF IInv, PlaceInv
        <5>2. lists = {} /\ walks = {}
          BY <2>3, <4>2 DEF IInv, PlaceInv
        <5>3. Places(t) = {<<"hands", w>>}
          BY <2>1, <4>1, <5>1, <5>2
        <5> QED BY <2>5, <5>3, FS_Singleton
      <4>3. CASE walks # {}
        <5>1. PICK w \in Workers : walks = {w}
          BY <4>3 DEF IInv, PlaceInv
        <5>2. lists = {} /\ hands = {}
          BY <2>3, <4>3 DEF IInv, PlaceInv
        <5>3. Places(t) = {<<"walk", w>>}
          BY <2>1, <4>1, <5>1, <5>2
        <5> QED BY <2>5, <5>3, FS_Singleton
      <4>4. CASE lists # {}
        <5>1. PICK p \in Promises : lists = {p}
          BY <4>4 DEF IInv, PlaceInv
        <5>2. walks = {} /\ hands = {}
          BY <2>3, <4>4 DEF IInv, PlaceInv
        <5>3. Places(t) = {<<"list", p>>}
          BY <2>1, <4>1, <5>1, <5>2
        <5> QED BY <2>5, <5>3, FS_Singleton
      <4> QED BY <2>3, <2>5, <3>2, <4>2, <4>3, <4>4 DEF IInv, PlaceInv
    <3> QED BY <2>2, <3>1, <3>2
  <2> QED BY <2>4, <2>5
<1> QED BY <1>1, InvariantHolds, PTL

\* The futures of a task, counted as the source counts them and as TLA+ does.
LEMMA DepsAreDeps ==
    ASSUME NEW t \in Tasks, NEW i \in DOMAIN Deps[t]
    PROVE  /\ i - 1 \in 0 .. Len(Deps[t]) - 1
           /\ Dep(t, i - 1) = Deps[t][i]
           /\ Deps[t][i] \in Promises \cup {NULL}
<1>1. Deps[t] \in Seq(Promises \cup {NULL})
  BY PromiseAssumption
<1>2. Len(Deps[t]) \in Nat /\ DOMAIN Deps[t] = 1 .. Len(Deps[t])
  BY <1>1
<1> QED BY <1>1, <1>2 DEF Dep

\* A closed list stays closed.
LEMMA StaysClosed ==
    ASSUME IInv, [Next]_vars, NEW p \in Promises, waitList[p] = SATISFIED
    PROVE  waitList'[p] = SATISFIED
<1> USE PromiseAssumption
<1>1. CASE UNCHANGED waitList
  BY <1>1
<1>2. ASSUME NEW w \in Workers, RegisterLink(w) PROVE waitList'[p] = SATISFIED
  <2>1. head[w] # SATISFIED
    BY <1>2 DEF IInv, WorkerInv, RegisterLink
  <2> QED BY <1>2, <2>1 DEF RegisterLink, IInv, TypeOK
<1>3. ASSUME NEW w \in Workers, PutClose(w) PROVE waitList'[p] = SATISFIED
  BY <1>3 DEF PutClose, IInv, TypeOK
<1> QED
  BY <1>1, <1>2, <1>3 DEF Next, Register, PutRest, SpawnReady, SpawnAwait, PutRead,
     RegisterSatisfied, RegisterRead, RegisterFail, PutDatum, PutSatisfied, PutFail, PutReread,
     PutWalk, FreeInTask, promiseVars, vars

\* Taking a task to its next future schedules it only after the last one.
LEMMA AdvanceSchedules ==
    ASSUME TypeOK, NEW w, NEW t \in Tasks, UsableFutures(t), NEW rest, Advance(w, t, rest),
           \A j \in 0 .. index[t] : Dep(t, j) # NULL => waitList[Dep(t, j)] = SATISFIED
    PROVE  \A u \in Tasks :
                scheduled'[u] = scheduled[u] \/ (scheduled'[u] = scheduled[u] + 1 /\ AllClosed(u))
<1>1. CASE NextDep(t, index[t]) # NoDep
  BY <1>1 DEF Advance
<1>2. CASE NextDep(t, index[t]) = NoDep
  <2>1. index[t] \in Nat \cup {-1}
    BY DEF TypeOK
  <2>2. \A j \in Nat : index[t] < j => Dep(t, j) = NULL
    BY <1>2, <2>1, NextDepNone
  <2>3. \A j \in Nat : Dep(t, j) # NULL => waitList[Dep(t, j)] = SATISFIED
    BY <2>1, <2>2
  <2>4. Len(Deps[t]) \in Nat
    BY DepType
  <2>5. \A i \in DOMAIN Deps[t] : i - 1 \in Nat /\ Dep(t, i - 1) = Deps[t][i]
    BY <2>4, DepsAreDeps
  <2>6. AllClosed(t)
    BY <2>3, <2>5 DEF AllClosed
  <2>7. scheduled' = [scheduled EXCEPT ![t] = @ + 1]
    BY <1>2 DEF Advance, Schedule
  <2> QED BY <2>6, <2>7 DEF TypeOK
<1> QED BY <1>1, <1>2

\* With futures that the code can use, every step that schedules a task finds
\* the lists of all of them closed.
LEMMA SchedulesClosed ==
    ASSUME \A t \in Tasks : UsableFutures(t), IInv, [Next]_vars
    PROVE  \A t \in Tasks :
                scheduled'[t] = scheduled[t] \/ (scheduled'[t] = scheduled[t] + 1 /\ AllClosed(t))
<1> DEFINE Fine == \A t \in Tasks :
                scheduled'[t] = scheduled[t] \/ (scheduled'[t] = scheduled[t] + 1 /\ AllClosed(t))
<1>a. TypeOK
  BY DEF IInv
<1>1. ASSUME NEW w \in Workers, NEW t \in Tasks, SpawnReady(w, t) PROVE Fine
  <2>1. \A i \in DOMAIN Deps[t] : Deps[t][i] = NULL
    BY <1>1, DepsAreDeps DEF SpawnReady, UsableFutures
  <2>2. AllClosed(t) /\ scheduled' = [scheduled EXCEPT ![t] = @ + 1]
    BY <1>1, <2>1 DEF AllClosed, SpawnReady, Schedule
  <2> QED BY <1>a, <2>2 DEF TypeOK
<1>2. ASSUME NEW w \in Workers, NEW t \in Tasks, SpawnAwait(w, t) PROVE Fine
  <2>1. index[t] = -1
    BY <1>2 DEF SpawnAwait, IInv, IndexInv
  <2>2. Advance(w, t, SENTINEL)
    BY <1>2 DEF SpawnAwait
  <2> QED BY <1>a, <2>1, <2>2, AdvanceSchedules
<1>3. ASSUME NEW w \in Workers, RegisterSatisfied(w) PROVE Fine
  <2>1. /\ pc[w] = "register" /\ waitList[Dep(task[w], index[task[w]])] = SATISFIED
        /\ Advance(w, task[w], walk[w])
    BY <1>3 DEF RegisterSatisfied, Current
  <2>2. task[w] \in Tasks /\ task[w] \in spawned /\ scheduled[task[w]] = 0
    BY <2>1, HandsAlone
  <2>3. \A j \in 0 .. index[task[w]] :
            Dep(task[w], j) # NULL => waitList[Dep(task[w], j)] = SATISFIED
    BY <2>1, <2>2 DEF IInv, IndexInv
  <2> QED BY <1>a, <2>1, <2>2, <2>3, AdvanceSchedules
<1>4. ASSUME NEW w \in Workers, PutWalk(w) PROVE Fine
  <2>1. pc[w] = "walk" /\ Advance(w, walk[w], nextWaiter[walk[w]])
    BY <1>4 DEF PutWalk
  <2>2. walk[w] \in Tasks /\ walk[w] \in spawned /\ scheduled[walk[w]] = 0 /\ OnWalk(walk[w], w)
    BY <2>1, WalkAlone
  <2>3. \A j \in 0 .. index[walk[w]] :
            Dep(walk[w], j) # NULL => waitList[Dep(walk[w], j)] = SATISFIED
    BY <2>2 DEF IInv, IndexInv
  <2> QED BY <1>a, <2>1, <2>2, <2>3, AdvanceSchedules
<1>5. CASE UNCHANGED scheduled
  BY <1>5
<1> QED
  BY <1>1, <1>2, <1>3, <1>4, <1>5 DEF Next, Register, PutRest, PutRead, RegisterLink,
     RegisterRead, RegisterFail, PutDatum, PutSatisfied, PutClose, PutFail, PutReread,
     FreeInTask, taskVars, vars

\* So a scheduled task has only closed futures, and a freed promise only
\* scheduled users.
LEMMA ClosedBeforeRunHolds ==
    ASSUME \A t \in Tasks : UsableFutures(t)
    PROVE  Spec => [](IInv /\ ClosedBeforeRun /\ FreedInv)
<1>1. Init => ClosedBeforeRun /\ FreedInv
  BY DEF Init, ClosedBeforeRun, FreedInv
<1>2. IInv /\ ClosedBeforeRun /\ FreedInv /\ [Next]_vars => ClosedBeforeRun' /\ FreedInv'
  <2> SUFFICES ASSUME IInv, ClosedBeforeRun, FreedInv, [Next]_vars
               PROVE  ClosedBeforeRun' /\ FreedInv'
    OBVIOUS
  <2>1. \A t \in Tasks :
            scheduled'[t] = scheduled[t] \/ (scheduled'[t] = scheduled[t] + 1 /\ AllClosed(t))
    BY SchedulesClosed
  <2>2. \A t \in Tasks : scheduled[t] \in Nat
    BY DEF IInv, TypeOK
  <2>3. \A t \in Tasks : AllClosed(t) => AllClosed(t)'
    BY DepsAreDeps, StaysClosed DEF AllClosed
  <2>4. ClosedBeforeRun'
    BY <2>1, <2>2, <2>3 DEF ClosedBeforeRun
  <2>5. FreedInv'
    <3>1. \A p \in freed' : p \in freed \/ (Users(p) # {} /\ \A t \in Users(p) : scheduled[t] > 0)
      BY DEF Next, Register, PutRest, SpawnReady, SpawnAwait, PutRead, RegisterSatisfied,
         RegisterLink, RegisterRead, RegisterFail, PutDatum, PutSatisfied, PutClose, PutFail,
         PutReread, PutWalk, FreeInTask, promiseVars, vars
    <3>2. \A p \in freed' : Users(p) # {} /\ \A t \in Users(p) : t \in Tasks /\ scheduled[t] > 0
      BY <3>1 DEF FreedInv, Users
    <3> QED BY <2>1, <2>2, <3>2 DEF FreedInv, Users
  <2> QED BY <2>4, <2>5
<1> QED BY <1>1, <1>2, InvariantHolds, PTL DEF Spec

\* A task runs only once every future it was spawned with holds its datum,
\* provided its futures are ones the code can use (the comment in
\* is_eligible_to_schedule).
THEOREM DepsBeforeRunHolds ==
    ASSUME \A t \in Tasks : UsableFutures(t)
    PROVE  Spec => []DepsBeforeRun
<1>1. IInv /\ ClosedBeforeRun => DepsBeforeRun
  <2> SUFFICES ASSUME IInv, ClosedBeforeRun PROVE DepsBeforeRun
    OBVIOUS
  <2>1. \A p \in Promises : (waitList[p] = SATISFIED => satisfied[p]) /\ (satisfied[p] => datum[p])
    BY DEF IInv, ClosedInv
  <2>2. \A t \in Tasks : \A i \in DOMAIN Deps[t] : Deps[t][i] \in Promises \cup {NULL}
    BY DepsAreDeps
  <2> QED BY <2>1, <2>2 DEF ClosedBeforeRun, AllClosed, DepsBeforeRun, DatumBeforeSatisfied
<1> QED BY <1>1, ClosedBeforeRunHolds, PTL

\* The worker that puts a promise, and one that registers a task on it, are
\* done with it before the last task that awaits it frees it.
THEOREM NoUseAfterFreeHolds ==
    ASSUME \A t \in Tasks : UsableFutures(t)
    PROVE  Spec => []NoUseAfterFree
<1>1. IInv /\ ClosedBeforeRun /\ FreedInv => NoUseAfterFree
  <2> SUFFICES ASSUME IInv, ClosedBeforeRun, FreedInv, NEW w \in Workers
               PROVE  Touched(w) \cap freed = {}
    BY DEF NoUseAfterFree
  <2>1. \A p \in freed : waitList[p] = SATISFIED /\ \A t \in Users(p) : scheduled[t] > 0
    <3> SUFFICES ASSUME NEW p \in freed
                 PROVE  waitList[p] = SATISFIED /\ \A t \in Users(p) : scheduled[t] > 0
      OBVIOUS
    <3>1. p # NULL
      BY PromiseAssumption DEF IInv, TypeOK
    <3>2. PICK t \in Users(p) : TRUE
      BY DEF FreedInv
    <3>3. t \in Tasks /\ scheduled[t] > 0 /\ \E i \in DOMAIN Deps[t] : Deps[t][i] = p
      BY <3>2 DEF FreedInv, Users
    <3> QED BY <3>1, <3>3 DEF FreedInv, ClosedBeforeRun, AllClosed
  <2>2. CASE pc[w] \in Putting
    <3>1. prom[w] \notin freed
      BY <2>1, <2>2 DEF IInv, WorkerInv
    <3> QED BY <2>2, <3>1 DEF Touched, Putting
  <2>3. CASE pc[w] \in {"register", "registerCas"}
    <3>1. task[w] \in Tasks /\ task[w] \in spawned /\ scheduled[task[w]] = 0
      BY <2>3, HandsAlone
    <3>2. index[task[w]] \in Nat /\ Current(w) # NULL
      BY <3>1 DEF IInv, IndexInv, Current
    <3>3. /\ Deps[task[w]] \in Seq(Promises \cup {NULL})
          /\ index[task[w]] < Len(Deps[task[w]])
          /\ Current(w) = Deps[task[w]][index[task[w]] + 1]
      BY <3>1, <3>2, DepType, PromiseAssumption DEF Current
    <3>4. index[task[w]] + 1 \in DOMAIN Deps[task[w]]
      BY <3>2, <3>3
    <3>5. task[w] \in Users(Current(w))
      BY <3>1, <3>3, <3>4 DEF Users
    <3>6. Current(w) \notin freed
      BY <2>1, <3>1, <3>5
    <3> QED BY <2>3, <3>6 DEF Touched
  <2>4. CASE pc[w] \notin Putting \cup {"register", "registerCas"}
    BY <2>4 DEF Touched, Putting
  <2> QED BY <2>2, <2>3, <2>4
<1> QED BY <1>1, ClosedBeforeRunHolds, PTL

=============================================================================
