----------------------------- MODULE MCRuntime -----------------------------
(* Families of small programs for the scheduler, for TLC. *)
EXTENDS Runtime, SequencesExt, TLC

CONSTANTS a, b, c, d, e, p, q

\* The ways to interleave two instruction sequences.
Shuffles(s, u) ==
    {[i \in 1 .. Len(s) + Len(u) |->
        IF i \in at THEN s[Cardinality({j \in at : j <= i})]
        ELSE u[i - Cardinality({j \in at : j <= i})]]
     : at \in {x \in SUBSET (1 .. Len(s) + Len(u)) : Cardinality(x) = Len(s)}}

On(n, nonblocking, codes) == {[nworkers |-> n, nonblocking |-> nonblocking, code |-> code] : code \in codes}

\* Programs that only spawn and join: tasks with scopes of their own inside
\* the scope of another, scopes that follow one another, an empty scope.
FinishPrograms ==
    {Entry :> entry @@ a :> aa @@ b :> <<StartFinish, EndFinish>>
        @@ c :> << >> @@ d :> << >> @@ e :> << >>
     : entry \in Shuffles(<<StartFinish, Async(a), EndFinish>>, <<Async(b), Async(e)>>),
       aa \in Shuffles(<<StartFinish, EndFinish>>, <<Async(c), Async(d)>>)}

ASSUME FinishProgramsAssumption ==
    \A prog \in Programs \cap On(2, {a, b, c, d, e}, FinishPrograms) : SpawnJoin(prog)

\* Programs in which one task blocks: it waits for p and yields among tasks
\* that put p, await p and run without blocking, inside and outside a scope.
WaitPrograms ==
    {Entry :> entry \o <<Wait(q)>> @@ a :> aa @@ b :> << >> @@ c :> << >> @@ d :> << >> @@ e :> << >>
     : entry \in Shuffles(<<StartFinish, Async(a), Await(b, p), EndFinishNB(q)>>,
                          <<Async(c), Yield>>)
                 \cup Shuffles(<<StartFinish, EndFinish, StartFinish, Async(a), Await(b, p), EndFinishNB(q)>>,
                          <<Yield>>),
       aa \in Shuffles(<<Put(p)>>, <<Async(e), Async(d)>>)}

\* Programs in which a task waits while workers run non-blocking tasks only,
\* so that no context has to be set aside.
PollPrograms ==
    {Entry :> entry @@ a :> aa @@ b :> << >> @@ c :> <<Put(p)>> @@ d :> << >> @@ e :> << >>
     : entry \in {s \o u : s \in Shuffles(<<StartFinish, Async(a), EndFinishNB(q)>>, <<Async(c)>>),
                           u \in {<<Wait(p), Async(d), Wait(q), Async(e)>>,
                                  <<StartFinish, Wait(q), Async(d), EndFinish, Wait(p), Async(e)>>}},
       aa \in {<<Async(b)>>}}

\* Two workers where nothing sets a context aside, and one where contexts are
\* set aside and resumed.
JoinAndWait ==
    On(2, {a, b, c, d, e}, FinishPrograms \cup PollPrograms) \cup On(1, {e}, WaitPrograms)

\* A task waits for a promise that another task puts.
OneWait == On(2, {}, {Entry :> <<Async(a), Async(b)>> @@ a :> <<Wait(p)>> @@ b :> <<Put(p)>>})

\* As above, and there is more work once the wait is over.
WaitThenWork ==
    On(2, {}, {Entry :> <<Async(a), Async(b), Async(c)>> @@ a :> <<Wait(p)>> @@ b :> <<Put(p)>> @@ c :> << >>})
=============================================================================
