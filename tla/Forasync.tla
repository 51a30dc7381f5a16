------------------------------ MODULE Forasync ------------------------------
(***************************************************************************)
(* hclib_forasync (src/src/hclib.c): one call of a parallel loop, the      *)
(* tasks it spawns, and the finish scope they belong to.  A task is what   *)
(* is left for it to do, a box of iterations; the frame of the caller is   *)
(* the first task.  Tasks run in any order, as the scheduler lets them     *)
(* (Runtime); the scope counts them and its event is put at zero.          *)
(***************************************************************************)
EXTENDS LoopDomain, Sequences, FiniteSets

CONSTANTS
    Calls,      \* the calls considered
    NWorkers,   \* hclib_get_num_workers()
    Coords,     \* the integers among which iterations are looked for
    NULL

ASSUME ForasyncAssumption ==
    /\ NWorkers \in Nat \ {0}
    /\ Coords \subseteq Int
    /\ \A c \in Calls :
        /\ c.dim \in 1 .. 3 /\ c.mode \in {"recursive", "flat"}
        /\ c.domain \in [1 .. c.dim -> [low : Int, high : Int, stride : Int, tile : Int]]

VARIABLES
    call,       \* the arguments of the call
    domain,     \* the array of loop domains that the caller passes
    task,       \* the tasks of the call, in the order they were spawned
    counter,    \* the counter of the finish scope around the call
    event,      \* the event of that scope has been put
    satisfied,  \* promises put by the rest of the program
    aborted     \* an assertion failed or the program trapped

vars == <<call, domain, task, counter, event, satisfied, aborted>>

Task(fp, loop, waits, nb, at) ==
    [fp |-> fp, loop |-> loop, waits |-> waits, nb |-> nb, at |-> at, done |-> FALSE]

Init ==
    /\ call \in Calls
    /\ domain = call.domain
    /\ task = << >>
    /\ counter = 1
    /\ event = FALSE
    /\ satisfied = {}
    /\ aborted = FALSE

\* What task k still has to run or to hand on.
Box(k) == task[k].loop

\* Task k may take a step of function fp.
Runs(k, fp) == ~aborted /\ ~task[k].done /\ task[k].fp = fp /\ task[k].waits \subseteq satisfied

\* Task k spawns tasks and keeps box.
Spawn(k, box, new) ==
    /\ task' = [task EXCEPT ![k].loop = box] \o new
    /\ counter' = counter + Len(new)
    /\ UNCHANGED <<call, domain, event, satisfied, aborted>>

\* Task k returns after it has spawned tasks, and checks out of the scope; box
\* is what it ran itself.
Return(k, box, new) ==
    /\ task' = [task EXCEPT ![k] = [@ EXCEPT !.done = TRUE, !.loop = box]] \o new
    /\ counter' = counter + Len(new) - 1
    /\ event' = (counter' = 0)
    /\ UNCHANGED <<call, domain, satisfied, aborted>>

Abort ==
    /\ aborted' = TRUE
    /\ UNCHANGED <<call, domain, task, counter, event, satisfied>>

-----------------------------------------------------------------------------
(* hclib_forasync and forasync_internal *)

\* The array of the caller is changed where it asks for the default tile.
WithTiles(loops) ==
    [d \in DOMAIN loops |->
        IF loops[d].tile = -1
        THEN [loops[d] EXCEPT !.tile = default_tile_size(loops[d], NWorkers)]
        ELSE loops[d]]

forasync_internal(loops, mode) == task' = <<Task(mode, loops, {}, FALSE, NULL)>>

hclib_forasync ==
    /\ call.api = "c" /\ task = << >>
    /\ domain' = WithTiles(domain)
    /\ forasync_internal(domain', call.mode)
    /\ UNCHANGED <<call, counter, event, satisfied, aborted>>

\* hclib_forasync_future puts the call in a scope of its own, whose event it
\* returns; hclib_forasync leaves it in the scope of the caller.
Body(k, fp, dim) == call.api = "c" /\ call.dim = dim /\ Runs(k, fp)

(* The loops over a chunk; the iterations are InBox(_, Box(k)). *)
forasync1D_runner(k) == Body(k, "runner", 1) /\ Return(k, Box(k), << >>)
forasync2D_runner(k) == Body(k, "runner", 2) /\ Return(k, Box(k), << >>)
forasync3D_runner(k) == Body(k, "runner", 3) /\ Return(k, Box(k), << >>)

-----------------------------------------------------------------------------
(* FORASYNC_MODE_RECURSIVE *)

\* Mutant of Halve: the halves overlap.
HalveOverlaps(k, d) ==
    Spawn(k, [LowerHalf(Box(k), d) EXCEPT ![d].high = @ + 1],
          <<[task[k] EXCEPT !.loop = UpperHalf(Box(k), d)]>>)

\* The upper half becomes a task, task k goes on with the lower half.
Halve(k, d) ==
    Spawn(k, LowerHalf(Box(k), d), <<[task[k] EXCEPT !.loop = UpperHalf(Box(k), d)]>>)

forasync1D_recursive(k) ==
    /\ Body(k, "recursive", 1)
    /\ \/ Long(Box(k)[1]) /\ Halve(k, 1)
       \/ ~Long(Box(k)[1]) /\ Return(k, Box(k), << >>)

forasync2D_recursive(k) ==
    /\ Body(k, "recursive", 2)
    /\ \/ Long(Box(k)[1]) /\ Halve(k, 1)
       \/ ~Long(Box(k)[1]) /\ Long(Box(k)[2]) /\ Halve(k, 2)
       \/ ~Long(Box(k)[1]) /\ ~Long(Box(k)[2]) /\ Return(k, Box(k), << >>)

forasync3D_recursive(k) ==
    /\ Body(k, "recursive", 3)
    /\ \/ Long(Box(k)[1]) /\ Halve(k, 1)
       \/ ~Long(Box(k)[1]) /\ Long(Box(k)[2]) /\ Halve(k, 2)
       \/ ~Long(Box(k)[1]) /\ ~Long(Box(k)[2]) /\ Long(Box(k)[3]) /\ Halve(k, 3)
       \/ (\A d \in 1 .. 3 : ~Long(Box(k)[d])) /\ Return(k, Box(k), << >>)

-----------------------------------------------------------------------------
(* FORASYNC_MODE_FLAT *)

Chunk(k, box) == [task[k] EXCEPT !.fp = "runner", !.loop = box]
Chunks(k, boxes) == [n \in DOMAIN boxes |-> Chunk(k, boxes[n])]

\* One turn of the loop over whole tiles, or what follows it; the bound of
\* the loop is a multiple of the tile, computed from high alone.  Each turn
\* spawns a copy of new for a chunk.
FlatTurn(k, new) ==
    LET l == Box(k)[1]
        size == l.tile * Quot(l.high, l.tile)
        tile == <<Loop(l.low, l.low + l.tile, l.stride, l.tile)>>
    IN  \/ l.tile # 0 /\ l.low < size /\ Spawn(k, BehindSlab(Box(k)), <<[new EXCEPT !.loop = tile]>>)
        \/ l.tile # 0 /\ l.low >= size /\ size < l.high /\ Return(k, Nothing(Box(k)), <<new>>)
        \/ l.tile # 0 /\ l.low >= size /\ size >= l.high /\ Return(k, Box(k), << >>)
        \/ l.tile = 0 /\ Abort

forasync1D_flat(k) ==
    /\ Body(k, "flat", 1)
    /\ FlatTurn(k, Chunk(k, Box(k)))

\* One turn of the outermost loop.
forasync2D_flat(k) ==
    /\ Body(k, "flat", 2)
    /\ IF Box(k)[1].low < Box(k)[1].high
       THEN Spawn(k, BehindSlab(Box(k)), Chunks(k, Slab2D(Box(k))))
       ELSE Return(k, Box(k), << >>)

forasync3D_flat(k) ==
    /\ Body(k, "flat", 3)
    /\ IF Box(k)[1].low < Box(k)[1].high
       THEN Spawn(k, BehindSlab(Box(k)), Chunks(k, Slab3D(Box(k))))
       ELSE Return(k, Box(k), << >>)

-----------------------------------------------------------------------------
TaskStep(k) ==
    \/ forasync1D_runner(k) \/ forasync2D_runner(k) \/ forasync3D_runner(k)
    \/ forasync1D_recursive(k) \/ forasync2D_recursive(k) \/ forasync3D_recursive(k)
    \/ forasync1D_flat(k) \/ forasync2D_flat(k) \/ forasync3D_flat(k)

Next == hclib_forasync \/ \E k \in DOMAIN task : TaskStep(k)

Spec == Init /\ [][Next]_vars

-----------------------------------------------------------------------------
(* Properties *)

Points == [1 .. call.dim -> Coords]

\* An iteration of the loop is in the hands of one task, any other of none.
OneHolder(p) ==
    /\ InBox(p, domain) => \E k \in DOMAIN task : \A j \in DOMAIN task : InBox(p, Box(j)) <=> j = k
    /\ ~InBox(p, domain) => \A k \in DOMAIN task : ~InBox(p, Box(k))

\* Whatever order the tasks run in, an iteration of the loop is in the hands
\* of exactly one task, so it is run once, and nothing outside the loop is in
\* the hands of any: the chunks of forasync*_recursive and forasync*_flat
\* partition the domain.
Partition == task # << >> => \A p \in Points : OneHolder(p)
=============================================================================
