------------------------------- MODULE CppApi -------------------------------
(***************************************************************************)
(* The C++ interface: asynchronous tasks (src/inc/hclib-async.h) and the   *)
(* parallel loops built on them (src/inc/hclib-forasync.h), next to the C  *)
(* interface of Forasync.  One call is made; fut is the sequence of the    *)
(* futures it is given, NULLs among them.                                  *)
(***************************************************************************)
EXTENDS Forasync, SequencesExt

CONSTANTS
    Promises,
    NDistFuncs,     \* n_registered_dist_funcs
    Central         \* the locale of the default distribution function

ASSUME CppApiAssumption == NULL \notin Promises /\ NDistFuncs \in Nat \ {0}

-----------------------------------------------------------------------------
(* hclib-async.h: how a lambda becomes a task *)

Deps(futures) == Range(futures) \ {NULL}

MAX_NUM_WAITS == 4

\* register_on_all_promise_dependencies: a NULL is skipped among the first
\* MAX_NUM_WAITS futures, which are kept in the task, and ends the others.
Registered(futures) ==
    {futures[i] : i \in {j \in DOMAIN futures : \A n \in MAX_NUM_WAITS + 1 .. j : futures[n] # NULL}} \ {NULL}

\* What a task waits for that is spawned with an array of futures: of the first
\* one is_eligible_to_schedule only asks whether it is NULL, and then the task
\* is scheduled at once.
Awaited(futures) ==
    IF futures = << >> \/ futures[1] = NULL THEN {} ELSE Registered(futures)

\* A task that calls a lambda; the lambda is known by the iterations it runs.
initialize_task(fp, lambda) == Task(fp, lambda, {}, FALSE, NULL)

\* The lambda is wrapped so that its result is put in the event.
Wrapped(lambda) == initialize_task("call_and_put", lambda)

async(t) == t
async_at(t, locale) == [t EXCEPT !.at = locale]
async_nb(t) == [t EXCEPT !.nb = TRUE]
async_nb_at(t, locale) == [t EXCEPT !.nb = TRUE, !.at = locale]

\* A NULL pointer stands for no future, and none is handed on.
async_nb_await(t, future) == [t EXCEPT !.nb = TRUE, !.waits = Deps(<<future>>)]
async_nb_await_at(t, future, locale) ==
    [t EXCEPT !.nb = TRUE, !.waits = Deps(<<future>>), !.at = locale]

\* Mutant of async_await: the future is not passed on.
async_await_none(t, future) == t

async_await(t, future) == [t EXCEPT !.waits = Deps(<<future>>)]
async_await_at(t, future, locale) == [t EXCEPT !.waits = Deps(<<future>>), !.at = locale]

\* Two or four futures, of which any may be NULL: the others are put in an
\* array without gaps, no longer than MAX_NUM_WAITS.
async_await_2(t, f1, f2) == [t EXCEPT !.waits = Deps(<<f1, f2>>)]
async_await_4(t, f1, f2, f3, f4) == [t EXCEPT !.waits = Deps(<<f1, f2, f3, f4>>)]
async_await_at_2(t, f1, f2, locale) == [t EXCEPT !.waits = Deps(<<f1, f2>>), !.at = locale]

\* An array of futures, which is handed on as it is, NULLs included.
async_await_at_helper(t, futures, locale, non_blocking) ==
    [t EXCEPT !.waits = Awaited(futures), !.at = locale, !.nb = non_blocking]
async_await_vector(t, futures) == async_await_at_helper(t, futures, NULL, FALSE)
async_await_at_vector(t, futures, locale) == async_await_at_helper(t, futures, locale, FALSE)
async_nb_await_vector(t, futures) == async_await_at_helper(t, futures, NULL, TRUE)
async_nb_await_at_vector(t, futures, locale) == async_await_at_helper(t, futures, locale, TRUE)

\* The functions that return the event of the lambda.
async_future(l) == async(Wrapped(l))
async_nb_future(l) == async_nb(Wrapped(l))
async_future_await(l, future) == async_await(Wrapped(l), future)
async_future_await_at_helper(l, futures, locale, non_blocking) ==
    async_await_at_helper(Wrapped(l), futures, locale, non_blocking)
async_future_await_vector(l, futures) == async_future_await_at_helper(l, futures, NULL, FALSE)
async_nb_future_await(l, future) == async_future_await_at_helper(l, <<future>>, NULL, TRUE)
async_nb_future_await_vector(l, futures) == async_future_await_at_helper(l, futures, NULL, TRUE)
async_future_await_at_vector(l, futures, locale) ==
    async_future_await_at_helper(l, futures, locale, FALSE)
async_future_at_helper(l, locale, nb) == [Wrapped(l) EXCEPT !.at = locale, !.nb = nb]
async_future_at(l, locale) == async_future_at_helper(l, locale, FALSE)
async_nb_future_at(l, locale) == async_future_at_helper(l, locale, TRUE)
async_future_await_at(l, future, locale) == async_await_at(Wrapped(l), future, locale)

\* The functions by the futures they take.
NoFuture ==
    {"async", "async_at", "async_nb", "async_nb_at", "async_future", "async_nb_future", "async_future_at",
     "async_nb_future_at"}
OneFuture ==
    {"async_nb_await", "async_nb_await_at", "async_await", "async_await_at", "async_future_await",
     "async_nb_future_await", "async_future_await_at"}
TwoFutures == {"async_await_2", "async_await_at_2"}
FutureVector ==
    {"async_await_vector", "async_await_at_vector", "async_nb_await_vector", "async_nb_await_at_vector",
     "async_future_await_vector", "async_nb_future_await_vector", "async_future_await_at_vector"}

\* A call passes the futures that the signature of its function allows; the
\* loops take one.
ASSUME CallsAssumption ==
    \A c \in Calls :
        /\ c.api \in {"c", "cpp", "async"} /\ c.nb \in BOOLEAN
        /\ c.fut \in Seq(Promises \cup {NULL})
        /\ c.api = "cpp" => Len(c.fut) <= 1
        /\ c.api = "async" =>
            \/ c.fn \in NoFuture /\ Len(c.fut) = 0
            \/ c.fn \in OneFuture /\ Len(c.fut) = 1
            \/ c.fn \in TwoFutures /\ Len(c.fut) = 2
            \/ c.fn = "async_await_4" /\ Len(c.fut) <= 4
            \/ c.fn \in FutureVector

Fut(n) == IF n <= Len(call.fut) THEN call.fut[n] ELSE NULL

\* The task that each of the functions makes of lambda l.
AsyncTask(l) ==
    LET t == initialize_task("runner", l) IN
    CASE call.fn = "async"                 -> async(t)
      [] call.fn = "async_at"              -> async_at(t, call.at)
      [] call.fn = "async_nb"              -> async_nb(t)
      [] call.fn = "async_nb_at"           -> async_nb_at(t, call.at)
      [] call.fn = "async_nb_await"        -> async_nb_await(t, Fut(1))
      [] call.fn = "async_nb_await_at"     -> async_nb_await_at(t, Fut(1), call.at)
      [] call.fn = "async_await"           -> async_await(t, Fut(1))
      [] call.fn = "async_await_at"        -> async_await_at(t, Fut(1), call.at)
      [] call.fn = "async_await_2"         -> async_await_2(t, Fut(1), Fut(2))
      [] call.fn = "async_await_4"         -> async_await_4(t, Fut(1), Fut(2), Fut(3), Fut(4))
      [] call.fn = "async_await_at_2"      -> async_await_at_2(t, Fut(1), Fut(2), call.at)
      [] call.fn = "async_await_vector"    -> async_await_vector(t, call.fut)
      [] call.fn = "async_await_at_vector" -> async_await_at_vector(t, call.fut, call.at)
      [] call.fn = "async_nb_await_vector" -> async_nb_await_vector(t, call.fut)
      [] call.fn = "async_nb_await_at_vector" -> async_nb_await_at_vector(t, call.fut, call.at)
      [] call.fn = "async_future"          -> async_future(l)
      [] call.fn = "async_nb_future"       -> async_nb_future(l)
      [] call.fn = "async_future_await"    -> async_future_await(l, Fut(1))
      [] call.fn = "async_future_await_vector" -> async_future_await_vector(l, call.fut)
      [] call.fn = "async_nb_future_await" -> async_nb_future_await(l, Fut(1))
      [] call.fn = "async_nb_future_await_vector" -> async_nb_future_await_vector(l, call.fut)
      [] call.fn = "async_future_at"       -> async_future_at(l, call.at)
      [] call.fn = "async_nb_future_at"    -> async_nb_future_at(l, call.at)
      [] call.fn = "async_future_await_at" -> async_future_await_at(l, Fut(1), call.at)
      [] call.fn = "async_future_await_at_vector" -> async_future_await_at_vector(l, call.fut, call.at)

\* The caller spawns the task and goes on.
SpawnAsync ==
    /\ call.api = "async" /\ task = << >>
    /\ task' = <<[initialize_task("caller", Nothing(domain)) EXCEPT !.done = TRUE],
                 AsyncTask(domain)>>
    /\ UNCHANGED <<call, domain, counter, event, satisfied, aborted>>

\* lambda_wrapper and call_lambda: the lambda is called and deleted.
call_lambda(k) ==
    /\ call.api \in {"async", "cpp"} /\ Runs(k, "runner")
    /\ Return(k, Box(k), << >>)

\* Mutant of call_and_put_wrapper: the event is put when the task is spawned.
PutBeforeCall(k) ==
    /\ Runs(k, "call_and_put")
    /\ event' = TRUE
    /\ IF event THEN task' = [task EXCEPT ![k].done = TRUE] /\ counter' = counter - 1
       ELSE UNCHANGED <<task, counter>>
    /\ UNCHANGED <<call, domain, satisfied, aborted>>

call_and_put_wrapper(k) ==
    /\ Runs(k, "call_and_put")
    /\ task' = [task EXCEPT ![k].done = TRUE]
    /\ counter' = counter - 1
    /\ event' = TRUE
    /\ UNCHANGED <<call, domain, satisfied, aborted>>

-----------------------------------------------------------------------------
(* hclib-forasync.h: loop domains *)

loop_domain_1d(low, high, nchunks, stride) ==
    LET l == Loop(low, high, stride, 0)
    IN  <<[l EXCEPT !.tile = default_tile_size(l, nchunks)]>>
loop_domain_2d(low1, high1, low2, high2) ==
    loop_domain_1d(low1, high1, NWorkers, 1) \o loop_domain_1d(low2, high2, NWorkers, 1)
loop_domain_3d(low1, high1, tile1, low2, high2, tile2, low3, high3, tile3) ==
    <<Loop(low1, high1, 1, tile1), Loop(low2, high2, 1, tile2), Loop(low3, high3, 1, tile3)>>

\* hclib_lookup_dist_func and default_dist_func; a function other than the
\* default one may choose any locale.
hclib_lookup_dist_func(id) == id < NDistFuncs
default_dist_func == Central

-----------------------------------------------------------------------------
(* forasync1D, forasync2D, forasync3D and their _nb and _future forms *)

\* The caller runs fp in a finish scope, whose event the _future forms return.
Enter(fp) ==
    /\ task' = <<initialize_task(fp, domain)>>
    /\ UNCHANGED <<call, domain, counter, event, satisfied, aborted>>

forasync1D_internal ==
    IF call.mode = "flat" THEN IF hclib_lookup_dist_func(call.dist) THEN Enter("flat") ELSE Abort
    ELSE IF call.dist = 0 /\ ~call.nb THEN Enter("recursive") ELSE Abort
forasync2D_internal ==
    IF call.mode = "flat" \/ ~call.nb THEN Enter(call.mode) ELSE Abort
forasync3D_internal ==
    IF call.mode = "flat" \/ ~call.nb THEN Enter(call.mode) ELSE Abort

forasync1D ==
    /\ call.api = "cpp" /\ call.dim = 1 /\ task = << >> /\ ~aborted
    /\ IF call.seq THEN Enter("seq") ELSE forasync1D_internal
forasync2D ==
    /\ call.api = "cpp" /\ call.dim = 2 /\ task = << >> /\ ~aborted
    /\ IF call.seq THEN Enter("seq") ELSE forasync2D_internal
forasync3D ==
    /\ call.api = "cpp" /\ call.dim = 3 /\ task = << >> /\ ~aborted
    /\ IF call.seq THEN Abort ELSE forasync3D_internal

CppBody(k, fp, dim) == call.api = "cpp" /\ call.dim = dim /\ Runs(k, fp)

\* The whole loop in the caller.
forasync1D_seq(k) == CppBody(k, "seq", 1) /\ Return(k, Box(k), << >>)
forasync2D_seq(k) == CppBody(k, "seq", 2) /\ Return(k, Box(k), << >>)

\* The caller, too, runs a chunk, but without waiting for the future.
CppHalve(k, d) ==
    Spawn(k, LowerHalf(Box(k), d),
          <<async_await(initialize_task("recursive", UpperHalf(Box(k), d)), Fut(1))>>)

cpp_forasync1D_recursive(k) ==
    /\ CppBody(k, "recursive", 1)
    /\ \/ Long(Box(k)[1]) /\ CppHalve(k, 1)
       \/ ~Long(Box(k)[1]) /\ Return(k, Box(k), << >>)

cpp_forasync2D_recursive(k) ==
    /\ CppBody(k, "recursive", 2)
    /\ \/ Long(Box(k)[1]) /\ CppHalve(k, 1)
       \/ ~Long(Box(k)[1]) /\ Long(Box(k)[2]) /\ CppHalve(k, 2)
       \/ ~Long(Box(k)[1]) /\ ~Long(Box(k)[2]) /\ Return(k, Box(k), << >>)

cpp_forasync3D_recursive(k) ==
    /\ CppBody(k, "recursive", 3)
    /\ \/ Long(Box(k)[1]) /\ CppHalve(k, 1)
       \/ ~Long(Box(k)[1]) /\ Long(Box(k)[2]) /\ CppHalve(k, 2)
       \/ ~Long(Box(k)[1]) /\ ~Long(Box(k)[2]) /\ Long(Box(k)[3]) /\ CppHalve(k, 3)
       \/ (\A d \in 1 .. 3 : ~Long(Box(k)[d])) /\ Return(k, Box(k), << >>)

\* The task of a chunk: at the locale the distribution function chooses (one
\* dimension) or none.
CppChunk(box, locale) ==
    LET t == initialize_task("runner", box)
    IN  IF call.nb THEN async_nb_await_at(t, Fut(1), locale) ELSE async_await_at(t, Fut(1), locale)
CppChunks(boxes) ==
    [n \in DOMAIN boxes |->
        LET t == initialize_task("runner", boxes[n])
        IN  IF call.nb THEN async_nb_await(t, Fut(1)) ELSE async_await(t, Fut(1))]

cpp_forasync1D_flat(k) ==
    /\ CppBody(k, "flat", 1)
    /\ FlatTurn(k, CppChunk(Box(k), default_dist_func))

cpp_forasync2D_flat(k) ==
    /\ CppBody(k, "flat", 2)
    /\ IF Box(k)[1].low < Box(k)[1].high
       THEN Spawn(k, BehindSlab(Box(k)), CppChunks(Slab2D(Box(k))))
       ELSE Return(k, Box(k), << >>)

cpp_forasync3D_flat(k) ==
    /\ CppBody(k, "flat", 3)
    /\ IF Box(k)[1].low < Box(k)[1].high
       THEN Spawn(k, BehindSlab(Box(k)), CppChunks(Slab3D(Box(k))))
       ELSE Return(k, Box(k), << >>)

-----------------------------------------------------------------------------
\* The rest of the program puts a promise that the call waits for.
PutPromise(p) ==
    /\ p \notin satisfied
    /\ satisfied' = satisfied \cup {p}
    /\ UNCHANGED <<call, domain, task, counter, event, aborted>>

CppStep(k) ==
    \/ call_lambda(k) \/ call_and_put_wrapper(k)
    \/ forasync1D_seq(k) \/ forasync2D_seq(k)
    \/ cpp_forasync1D_recursive(k) \/ cpp_forasync2D_recursive(k) \/ cpp_forasync3D_recursive(k)
    \/ cpp_forasync1D_flat(k) \/ cpp_forasync2D_flat(k) \/ cpp_forasync3D_flat(k)

Call == hclib_forasync \/ SpawnAsync \/ forasync1D \/ forasync2D \/ forasync3D

CppNext ==
    \/ Call
    \/ \E k \in DOMAIN task : TaskStep(k) \/ CppStep(k)
    \/ \E p \in Deps(call.fut) : PutPromise(p)
    \/ (event \/ aborted) /\ UNCHANGED vars

CppSpec == Init /\ [][CppNext]_vars

\* The program makes the call and puts what it waits for, and a task that can
\* run is run in the end (Terminates of Runtime).
FairSpec ==
    /\ CppSpec
    /\ WF_vars(Call)
    /\ WF_vars(\E k \in DOMAIN task : TaskStep(k) \/ CppStep(k))
    /\ WF_vars(\E p \in Deps(call.fut) : PutPromise(p))

-----------------------------------------------------------------------------
(* Properties *)

\* Types; locales and flags reach the tasks the functions make.
TypeOK ==
    /\ call.api \in {"c", "cpp", "async"}
    /\ \A k \in DOMAIN task :
        /\ DOMAIN Box(k) = 1 .. call.dim
        /\ task[k].waits \subseteq Promises
        /\ task[k].nb \in BOOLEAN /\ task[k].done \in BOOLEAN
        /\ task[k].at \in {NULL, Central, call.at}
    /\ counter \in Nat
    /\ event \in BOOLEAN /\ aborted \in BOOLEAN
    /\ satisfied \subseteq Promises

\* The iterations that were run.
Iterations(box) ==
    LET some == {i \in Coords : \E d \in DOMAIN box : InLoop(i, box[d])}
    IN  {p \in [DOMAIN box -> some] : InBox(p, box)}
Executed == UNION {Iterations(Box(k)) : k \in {j \in DOMAIN task : task[j].done}}

\* What the runtime takes for granted of the futures of a task ("If any futures
\* are non-null, the first must be non-null", is_eligible_to_schedule), and of
\* those behind the first MAX_NUM_WAITS, whose list ends with a NULL.  The
\* functions that take single futures see to it; a vector is not looked at.
WellPassed(futures) ==
    /\ (\E i \in DOMAIN futures : futures[i] # NULL) => futures[1] # NULL
    /\ \A i \in DOMAIN futures : i > MAX_NUM_WAITS => futures[i] # NULL

\* A call that is given futures runs none of its lambdas before each of them
\* that is not NULL is satisfied.  The functions that take one, two or four
\* futures allow NULLs anywhere, those that take a vector only where the
\* runtime does (WellPassed); the chunk that the caller of a recursive or
\* sequential loop runs itself waits for none.  The tasks are those the call
\* asks for (TypeOK).
AwaitsAll ==
    /\ TypeOK
    /\ (call.api = "async" /\ call.fn \in FutureVector => WellPassed(call.fut)) =>
        \A k \in DOMAIN task :
            task[k].done /\ Iterations(Box(k)) # {} /\ call.api # "c"
                => Deps(call.fut) \subseteq satisfied
                   \/ (k = 1 /\ task[k].fp \in {"recursive", "seq"})

Loop_ == INSTANCE ParallelFor
            WITH loop <- Iterations(domain), ran <- Executed, over <- event

\* The detailed loop keeps the promise of ParallelFor: every iteration is run
\* once and only then is the event put, in the end, for every mode, dimension
\* and interface.
ImplementsParallelFor == Loop_!Spec
=============================================================================
