----------------------------- MODULE MCCppApi -----------------------------
(* The calls of the C and C++ interfaces that TLC considers. *)
EXTENDS CppApi

CONSTANTS p, q, here

CallOf(api, fn, loops, mode) ==
    [api |-> api, fn |-> fn, dim |-> Len(loops), domain |-> loops, mode |-> mode,
     fut |-> << >>, nb |-> FALSE, at |-> NULL, seq |-> FALSE, dist |-> 0]

Modes == {"recursive", "flat"}

\* Loops of one dimension: any bounds for recursive chunking; flat chunking
\* starts at a multiple of the tile, and with another stride than 1 the tiles
\* or halves are multiples of it.
Loops1D(mode) ==
    {<<Loop(low, high, 1, tile)>> :
        low \in {x \in {-3, -2, 0, 1} : mode = "recursive" \/ x = 0}, high \in -1 .. 5, tile \in {-1, 1, 2}}
    \cup {<<Loop(0, high, 2, 2)>> : high \in {x \in 1 .. 6 : mode = "flat" \/ x = 4}}
    \cup {<<Loop(3, 5, 1, 3)>>, <<Loop(2, 5, 1, 2)>>}

\* A tile of its own for each dimension.
Loops2D(tiles) ==
    {<<Loop(low, 3, 1, t), Loop(-1, high, 1, u)>> : low \in {0, 1}, high \in {-1, 1}, t, u \in tiles}
Loops3D(tiles) ==
    {<<Loop(0, 2, 1, t), Loop(1, high, 1, u), Loop(-1, 1, 1, v)>> :
        high \in {1, 2, 3}, t, u, v \in tiles}

\* Loops with few enough chunks for all their interleavings.
Few(box) == LET b == WithTiles(box) IN NTiles(b[1]) * NTiles(b[2]) * NTiles(b[3]) <= 4

CLoops(mode) == Loops1D(mode) \cup Loops2D({1, 2}) \cup {b \in Loops3D({-1, 1, 2}) : Few(b)}

CCalls == UNION {{CallOf("c", "forasync", l, mode) : l \in CLoops(mode)} : mode \in Modes}

CppLoops(mode) ==
    {loop_domain_1d(low, high, n, 1) :
        low \in {x \in {0, -2} : mode = "recursive" \/ x = 0}, high \in {0, 3, 5}, n \in {NWorkers, 3}}
    \cup {loop_domain_2d(0, 2, -1, 2)}
    \cup {loop_domain_3d(0, 2, 1, 1, 3, 2, -1, 1, 1), loop_domain_3d(0, 2, 2, 1, 3, 1, -1, 1, 1)}

CppCalls ==
    UNION {{[CallOf("cpp", "forasync", l, mode) EXCEPT !.fut = fut, !.nb = nb, !.seq = seq, !.dist = dist] :
                l \in CppLoops(mode), fut \in {<<p>>, <<NULL>>}, nb \in BOOLEAN,
                seq \in BOOLEAN, dist \in {0, 1}}
           : mode \in Modes}

AsyncCallsOf(fns, futs) ==
    {[CallOf("async", fn, <<Loop(0, 1, 1, 1)>>, "flat") EXCEPT !.fut = fut, !.at = here] :
        fn \in fns, fut \in futs}

\* Vectors the runtime allows, one of them with more futures than a task holds,
\* and two it does not: of the fourth no future is awaited, of the last all but
\* p.
Vectors ==
    {<< >>, <<q, NULL, p>>, <<q, q, NULL, q, p>>, <<NULL, q, NULL, p>>, <<q, q, q, q, NULL, p>>}

AsyncCalls ==
    AsyncCallsOf(NoFuture, {<< >>}) \cup AsyncCallsOf(OneFuture, {<<p>>, <<NULL>>})
    \cup AsyncCallsOf(TwoFutures, {<<p, NULL>>, <<q, p>>})
    \cup AsyncCallsOf({"async_await_4"}, {<<q, p>>, <<NULL, q, NULL, p>>})
    \cup AsyncCallsOf(FutureVector, Vectors)

MCCoords == -3 .. 6

AllCalls == CCalls \cup CppCalls \cup AsyncCalls
=============================================================================
