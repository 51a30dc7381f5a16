------------------------------ MODULE Locality ------------------------------
(***************************************************************************)
(* The locality graph (src/src/hclib-locality-graph.c): locales and worker *)
(* paths from a locality file or generated, the pinning of workers         *)
(* (create_hwloc_cpusets, src/src/hclib-runtime.c), the placement of tasks *)
(* in the deques of locales, and the walks of the workers that look for    *)
(* them.                                                                   *)
(*                                                                         *)
(* A label is a sequence of strings, a digit being one of them.  A step of *)
(* a walk looks at one deque, through its abstract operations (TaskDeque). *)
(* Locales are numbered from 1, workers from 0.                            *)
(***************************************************************************)
EXTENDS Integers, Sequences, FiniteSets, SequencesExt

CONSTANTS
    Envs,           \* the environments considered: file, workers, cores and NUMA nodes
    KnownTypes,     \* known_locale_types, in the order of registration
    Special,        \* the type of locale that a module marks special, an index
    Tasks,
    MaxWorkers,     \* the most workers of an environment
    NULL

VARIABLES
    env,        \* the environment of the process
    phase,      \* start, loaded, run or aborted
    nworkers,
    locales,    \* the locales of the graph, [lbl, type]
    edges,      \* graph->edges, a set of pairs
    pop,        \* pop_path->locales of each worker
    steal,      \* steal_path->locales of each worker
    special,    \* locales whose special_type is set
    range,      \* base_intra_socket_workers and limit_intra_socket_workers
    last,       \* last_successful_steal_locale of each worker
    deque,      \* deque[l][w]: the tasks of worker w at locale l, oldest first
    search,     \* where each worker is in its walk
    placed,     \* the locale each task was pushed at
    taken       \* the worker that took each task

graph == <<env, nworkers, locales, edges, pop, steal>>
runtime == <<last, deque, search, placed, taken>>
vars == <<graph, phase, special, range, runtime>>

Workers == 0 .. nworkers - 1
Locales == DOMAIN locales

Init ==
    /\ env \in Envs
    /\ phase = "start"
    /\ nworkers = 0
    /\ locales = << >> /\ edges = {}
    /\ pop = << >> /\ steal = << >>
    /\ special = {}
    /\ range = << >> /\ last = << >>
    /\ deque = << >>
    /\ search = << >>
    /\ placed = [t \in Tasks |-> NULL]
    /\ taken = [t \in Tasks |-> NULL]

Abort == phase' = "aborted" /\ UNCHANGED <<graph, special, range, runtime>>

-----------------------------------------------------------------------------
(* Labels *)

Digit == <<"0", "1", "2", "3", "4", "5", "6", "7", "8", "9">>
itoa[n \in Nat] == IF n < 10 THEN <<Digit[n + 1]>> ELSE Append(itoa[n \div 10], Digit[(n % 10) + 1])

\* "$(id / 6 % 2)" is <<"id", <<"/", 6>>, <<"%", 2>>>>; other parts are strings.
Value(ops, id) ==
    FoldLeft(LAMBDA v, o : IF o[1] = "/" THEN v \div o[2] ELSE v % o[2], id, ops)
interpret_locale(name, id) ==
    FlattenSeq([k \in DOMAIN name |->
        IF name[k][1] = "lit" THEN <<name[k][2]>> ELSE itoa[Value(Tail(name[k]), id)]])

First(n, P(_)) == CHOOSE k \in 1 .. n : P(k) /\ \A j \in 1 .. k - 1 : ~P(j)

\* The first locale that a name matches: a name in a reachability edge also
\* matches a label that it is a prefix of.
find_matching_locale(lbls, name) == First(Len(lbls), LAMBDA k : IsPrefix(name, lbls[k]))
find_matching_locale_by_str(lbls, name) == First(Len(lbls), LAMBDA k : name = lbls[k])

\* The type of a locale is the first known one that its label starts with.
TypeKnown(lbl) == \E k \in DOMAIN KnownTypes : IsPrefix(KnownTypes[k], lbl)
locale_type(lbl) == First(Len(KnownTypes), LAMBDA k : IsPrefix(KnownTypes[k], lbl))

-----------------------------------------------------------------------------
(* hclib_global_init: the graph and the paths *)

\* Each locale gets a deque for each worker; worker 0 runs the program, the
\* others look for tasks.
initialize_locale(lbls, n) ==
    /\ locales' = [k \in DOMAIN lbls |-> [lbl |-> lbls[k], type |-> locale_type(lbls[k])]]
    /\ deque' = [k \in DOMAIN lbls |-> [w \in 0 .. n - 1 |-> << >>]]
    /\ last' = [w \in 0 .. n - 1 |-> 0]
    /\ search' = [w \in 0 .. n - 1 |-> [mode |-> IF w = 0 THEN "none" ELSE "pop", i |-> 0, j |-> 0]]
    /\ UNCHANGED <<env, placed, taken, special, range>>

parse_locality_path_from_array(lbls, path, id) ==
    [k \in DOMAIN path |-> find_matching_locale_by_str(lbls, interpret_locale(path[k], id))]
PathDeclared(lbls, path, id) ==
    path # << >> /\ \A k \in DOMAIN path : interpret_locale(path[k], id) \in Range(lbls)

\* paths.own is a sequence of paths of single workers, [id, path].  A path for
\* a worker beyond n is stored outside the array.
PathsParsed(lbls, paths, n) ==
    /\ paths.default # NULL
    /\ \A k \in DOMAIN paths.own :
        /\ PathDeclared(lbls, paths.own[k].path, paths.own[k].id)
        /\ \A j \in 1 .. k - 1 : paths.own[j].id # paths.own[k].id
    /\ \A w \in 0 .. n - 1 :
        (\E k \in DOMAIN paths.own : paths.own[k].id = w) \/ PathDeclared(lbls, paths.default, w)
InBounds(paths, n) == \A k \in DOMAIN paths.own : paths.own[k].id < n

parse_paths(lbls, paths, n) ==
    [w \in 0 .. n - 1 |->
        LET own == {k \in DOMAIN paths.own : paths.own[k].id = w}
        IN  parse_locality_path_from_array(lbls,
                IF own = {} THEN paths.default ELSE paths.own[CHOOSE k \in own : TRUE].path, w)]

\* The asserts and exits of the parser.
FileValid(f, n) ==
    LET lbls == f.declarations IN
    /\ \A k \in DOMAIN lbls : TypeKnown(lbls[k])
    /\ \A j, k \in DOMAIN lbls : lbls[j] = lbls[k] => j = k
    /\ \A e \in f.reachability : \A name \in Range(e) :
            \E k \in DOMAIN lbls : IsPrefix(name, lbls[k])
    /\ PathsParsed(lbls, f.pop_paths, n) /\ PathsParsed(lbls, f.steal_paths, n)

load_locality_info ==
    LET f == env.file
        lbls == f.declarations
        n == IF env.workers = NULL THEN f.nworkers ELSE env.workers
        valid == FileValid(f, n)
        inside == InBounds(f.pop_paths, n) /\ InBounds(f.steal_paths, n)
    IN  /\ phase = "start" /\ f # NULL
        /\ \/ /\ valid
              /\ nworkers' = n
              /\ initialize_locale(lbls, n)
              /\ edges' = UNION {{<<find_matching_locale(lbls, e[1]), find_matching_locale(lbls, e[2])>>,
                                  <<find_matching_locale(lbls, e[2]), find_matching_locale(lbls, e[1])>>}
                                 : e \in f.reachability}
              /\ pop' = parse_paths(lbls, f.pop_paths, n)
              /\ steal' = parse_paths(lbls, f.steal_paths, n)
              /\ phase' = "loaded"
           \/ ~(valid /\ inside) /\ Abort

\* The matrix of the edges is not cleared: the entries that are not set hold
\* anything.
generate_locality_info ==
    LET n == IF env.workers = NULL THEN env.online ELSE env.workers
        star == UNION {{<<1, k>>, <<k, 1>>} : k \in 2 .. n + 1}
        path == [w \in 0 .. n - 1 |-> <<w + 2, 1>>]
    IN  /\ phase = "start" /\ env.file = NULL
        /\ initialize_locale(<<<<"sysmem">>>> \o [k \in 1 .. n |-> <<"L1">> \o itoa[k - 1]], n)
        /\ nworkers' = n
        /\ \E garbage \in SUBSET (((1 .. n + 1) \X (1 .. n + 1)) \ star) : edges' = star \cup garbage
        /\ pop' = path /\ steal' = path
        /\ phase' = "loaded"

\* check_locality_graph: the locales on some path.
reachable(l) == \E w \in Workers : l \in Range(pop[w]) \cup Range(steal[w])

hclib_get_all_locales_of_type(type) ==
    SelectSeq([k \in Locales |-> k], LAMBDA k : locales[k].type = type)

\* A module marks the one locale of its type (mpi_post_initialize).
hclib_locale_mark_special(l) ==
    /\ phase = "loaded"
    /\ hclib_get_all_locales_of_type(Special) = <<l>>
    /\ l \notin special
    /\ special' = special \cup {l}
    /\ UNCHANGED <<graph, phase, range, runtime>>

-----------------------------------------------------------------------------
(* create_hwloc_cpusets *)

\* env.pus gives the NUMA node of each processing unit in the mask.
Available == Len(env.pus)
Cpuset(w) ==
    IF env.affinity = "strided"
    THEN {k \in 1 .. Available : (k - 1) % nworkers = w}
    ELSE {k \in 1 .. Available : (k - 1) \div ((Available + nworkers - 1) \div nworkers) = w}
Nodeset(w) == {env.pus[k] : k \in Cpuset(w)}
Shares(w, j) == Nodeset(w) \cap Nodeset(j) # {}

\* The first workers that share a node with w, up to one that does not.
Base(w) == CHOOSE j \in Workers : Shares(w, j) /\ \A k \in 0 .. j - 1 : ~Shares(w, k)

Limit(w) ==
    CHOOSE j \in Base(w) + 1 .. nworkers :
        /\ j = nworkers \/ ~Shares(w, j)
        /\ \A k \in Base(w) .. j - 1 : Shares(w, k)
Contiguous(w) == \A j \in Limit(w) .. nworkers - 1 : ~Shares(w, j)

\* Once a worker has no contiguous range, it and those after it take all.
Naive(w) == \E v \in 0 .. w : Nodeset(v) # {} /\ ~Contiguous(v)

Pinned ==
    [w \in Workers |-> IF Naive(w) THEN [base |-> 0, limit |-> nworkers]
                       ELSE [base |-> Base(w), limit |-> Limit(w)]]

\* Without hwloc the ranges stay zero.
create_hwloc_cpusets ==
    /\ phase = "loaded"
    /\ \/ /\ env.affinity = NULL
          /\ range' = [w \in Workers |-> [base |-> 0, limit |-> 0]]
          /\ phase' = "run"
          /\ UNCHANGED <<graph, special, runtime>>
       \/ /\ env.affinity # NULL
          /\ IF \/ env.affinity = "strided" /\ Available < nworkers
                \/ \E w \in Workers : Nodeset(w) = {} /\ ~Naive(w)
             THEN Abort
             ELSE /\ range' = Pinned
                  /\ phase' = "run"
                  /\ UNCHANGED <<graph, special, runtime>>

-----------------------------------------------------------------------------
(* Tasks *)

\* rt_schedule_async and deque_push_locale: at the locale of the task, or at
\* the first one.  A worker that runs a task may push others.
rt_schedule_async(w, t, l) ==
    LET at == IF l = NULL THEN 1 ELSE l IN
    /\ phase = "run" /\ search[w].mode = "none" /\ placed[t] = NULL
    /\ IF reachable(at)
       THEN /\ deque' = [deque EXCEPT ![at][w] = Append(@, t)]
            /\ placed' = [placed EXCEPT ![t] = at]
            /\ UNCHANGED <<graph, phase, special, range, last, search, taken>>
       ELSE Abort

At(mode, i, j) == [mode |-> mode, i |-> i, j |-> j]

\* The worker stops running a task and looks for another (find_and_run_task).
find_and_run_task(w) ==
    /\ phase = "run" /\ search[w].mode = "none"
    /\ search' = [search EXCEPT ![w] = At("pop", 0, 0)]
    /\ UNCHANGED <<graph, phase, special, range, last, deque, placed, taken>>

\* The worker takes task t and runs it; d is the deque it leaves at locale l.
Takes(w, t, l, v, d) ==
    /\ deque' = [deque EXCEPT ![l][v] = d]
    /\ taken' = [taken EXCEPT ![t] = w]
    /\ search' = [search EXCEPT ![w] = At("none", 0, 0)]
    /\ UNCHANGED <<graph, phase, special, range, placed>>

Goes(w, to) ==
    /\ search' = [search EXCEPT ![w] = to]
    /\ UNCHANGED <<graph, phase, special, range, last, deque, placed, taken>>

\* One turn of the loop over the pop path.
locale_pop_task(w) ==
    LET i == search[w].i
        l == pop[w][i + 1]
        d == deque[l][w]
    IN  /\ phase = "run" /\ search[w].mode = "pop"
        /\ \/ d # << >> /\ Takes(w, Last(d), l, w, Front(d)) /\ UNCHANGED last
           \/ d = << >> /\ i + 1 < Len(pop[w]) /\ Goes(w, At("pop", i + 1, 0))
           \/ d = << >> /\ i + 1 = Len(pop[w]) /\ Goes(w, At("steal", 0, 0))

\* Mutant of Victim: the workers outside the range are left out.
VictimNear(w, j) ==
    LET near == range[w].limit - range[w].base
    IN  IF near = 0 THEN j ELSE range[w].base + (j % near)

\* The victims: the workers of the range, then the others in a circle.
Victim(w, j) ==
    LET near == range[w].limit - range[w].base
    IN  IF j < near THEN range[w].base + j ELSE (range[w].limit + (j - near)) % nworkers

\* One turn of the loops over the steal path and the victims; the walk begins
\* again when it has found nothing.
locale_steal_task(w) ==
    LET s == search[w]
        index == (last[w] + s.i) % Len(steal[w])
        l == steal[w][index + 1]
        v == Victim(w, s.j)
        d == deque[l][v]
    IN  /\ phase = "run" /\ s.mode = "steal"
        /\ \/ /\ d # << >>
              /\ Takes(w, Head(d), l, v, Tail(d))
              /\ last' = [last EXCEPT ![w] = index]
           \/ d = << >> /\ s.j + 1 < nworkers /\ Goes(w, At("steal", s.i, s.j + 1))
           \/ d = << >> /\ s.j + 1 = nworkers /\ Goes(w, At("steal", (s.i + 1) % Len(steal[w]), 0))

-----------------------------------------------------------------------------
(* Queries *)

\* Mutant of OthersPaths: only the workers after w are looked at.
PathsAfter(w) == UNION {Range(pop[v]) \cup Range(steal[v]) : v \in w + 1 .. nworkers - 1}

\* The locales on the paths of the other workers.
OthersPaths(w) == UNION {Range(pop[v]) \cup Range(steal[v]) : v \in Workers \ {w}}

\* Locales on both paths of w and on no path of another, not marked special:
\* the first on the steal path.
hclib_get_thread_private_locales(w) ==
    LET cands == SelectSeq(steal[w], LAMBDA l :
                    l \in Range(pop[w]) /\ l \notin OthersPaths(w) /\ l \notin special)
    IN  IF cands = << >> THEN NULL ELSE Head(cands)

keep_duplicates(l, path) == SelectSeq(l, LAMBDA x : x \in Range(path))

hclib_get_central_place ==
    LET common[w \in Workers] ==
            keep_duplicates(keep_duplicates(IF w = 0 THEN steal[0] ELSE common[w - 1], steal[w]), pop[w])
        cands == common[nworkers - 1]
    IN  IF cands = << >> THEN NULL ELSE Head(cands)

\* Mutant of Visited: the locales in the order of their numbers.
VisitedInOrder(l) == [k \in Locales |-> k]

\* to_visit, breadth first from locale l, after as many turns of the loop as
\* there are locales.
Visited(l) ==
    LET n == Len(locales)
        Fresh(q, k) == SelectSeq([i \in 1 .. n |-> i], LAMBDA i :
                            <<q[k], i>> \in edges /\ i \notin Range(q))
        visit[k \in 0 .. n] ==
            IF k = 0 THEN <<l>>
            ELSE LET q == visit[k - 1] IN IF k <= Len(q) THEN q \o Fresh(q, k) ELSE q
    IN  visit[n]

\* The results that are possible: the loop reads what was not written when the
\* part of the graph around l is smaller than the graph.
hclib_get_closest_locale_of_types(l, types) ==
    LET found == SelectSeq(Visited(l), LAMBDA k : locales[k].type \in types)
    IN  IF found # << >> THEN {Head(found)}
        ELSE IF Len(Visited(l)) = Len(locales) THEN {NULL} ELSE Locales \cup {NULL}

-----------------------------------------------------------------------------
WalkStep(w) == find_and_run_task(w) \/ locale_pop_task(w) \/ locale_steal_task(w)


Next ==
    \/ load_locality_info \/ generate_locality_info
    \/ \E l \in Locales : hclib_locale_mark_special(l)
    \/ create_hwloc_cpusets
    \/ \E w \in Workers : WalkStep(w) \/ \E t \in Tasks, l \in Locales \cup {NULL} : rt_schedule_async(w, t, l)
    \/ phase = "aborted" /\ UNCHANGED vars

Spec == Init /\ [][Next]_vars

\* A worker keeps walking along its paths: each is a thread of its own, and a
\* task it runs returns.
FairSpec == Spec /\ \A w \in 0 .. MaxWorkers - 1 : WF_vars(w \in Workers /\ WalkStep(w))

-----------------------------------------------------------------------------
(* Properties *)

\* Types, and the bounds of the walks: the paths lead to locales of the graph,
\* and no walk leaves a path or the workers (locale_pop_task,
\* locale_steal_task).
TypeOK ==
    /\ phase \in {"start", "loaded", "run", "aborted"}
    /\ \A w \in DOMAIN pop : Range(pop[w]) \cup Range(steal[w]) \subseteq Locales
    /\ \A w \in DOMAIN range : 0 <= range[w].base /\ range[w].base <= range[w].limit /\ range[w].limit <= nworkers
    /\ \A w \in DOMAIN search :
        /\ search[w].mode = "pop" => search[w].i < Len(pop[w])
        /\ search[w].mode = "steal" => search[w].i < Len(steal[w]) /\ search[w].j < nworkers

\* A task placed at the private locale of a worker is only run by that worker,
\* whoever pushed it ("the thread which must execute a task"); no worker's walk
\* leaves its paths (TypeOK).
PrivateTasks ==
    /\ TypeOK
    /\ phase = "run" =>
        \A t \in Tasks, w \in Workers :
            placed[t] # NULL /\ taken[t] # NULL /\ placed[t] = hclib_get_thread_private_locales(w)
                => taken[t] = w

\* The locales within k edges of l.
Within(l, k) == {i \in Locales : \E p \in [0 .. k -> Locales] :
                    p[0] = l /\ p[k] = i /\ \A m \in 0 .. k - 1 : p[m] = p[m + 1] \/ <<p[m], p[m + 1]>> \in edges}

\* The closest locale of a type is one that no other of the type is nearer
\* than, and is missing only when none can be reached.  Distances count the
\* edges that the matrix holds: in a generated graph also those that
\* generate_locality_info leaves in it, whichever they are.
ClosestIsNearest ==
    phase = "loaded" =>
        \A l \in Locales, type \in DOMAIN KnownTypes :
            LET ofType == {i \in Locales : locales[i].type = type}
                near(k) == Within(l, k) \cap ofType
            IN  \A r \in hclib_get_closest_locale_of_types(l, {type}) :
                    IF r = NULL THEN near(Len(locales)) = {}
                    ELSE \E k \in 0 .. Len(locales) : r \in near(k) /\ (k > 0 => near(k - 1) = {})

\* A task at the central place is found by the walk of any worker.
CentralIsCommon ==
    phase = "run" /\ hclib_get_central_place # NULL =>
        \A w \in Workers : hclib_get_central_place \in Range(pop[w]) \cap Range(steal[w])

\* The queries of locales return what their names say, on graphs from files
\* and generated ones.
LocaleQueries == ClosestIsNearest /\ CentralIsCommon

\* Every task that is pushed is taken in the end, by some worker on whose path
\* its locale is.
EveryTaskTaken == \A t \in Tasks : (placed[t] # NULL) ~> (taken[t] # NULL \/ phase = "aborted")
=============================================================================
