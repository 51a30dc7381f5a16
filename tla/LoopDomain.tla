----------------------------- MODULE LoopDomain -----------------------------
(***************************************************************************)
(* Loop domains (hclib_loop_domain_t, src/inc/hclib-task.h) and the ways   *)
(* the forasync functions cut them into chunks.  A box is a sequence of    *)
(* domains, one per dimension.                                             *)
(***************************************************************************)
EXTENDS Integers

Loop(low, high, stride, tile) ==
    [low |-> low, high |-> high, stride |-> stride, tile |-> tile]

\* Division of a C int by a positive one: it truncates towards zero.
Quot(a, b) == IF a >= 0 THEN a \div b ELSE -((-a) \div b)

\* The iterations of for (i = low; i < high; i += stride).
InLoop(i, l) == l.low <= i /\ i < l.high /\ (i - l.low) % l.stride = 0

\* The iterations of the nested loops over a box.
InBox(p, box) == \A d \in DOMAIN box : InLoop(p[d], box[d])

\* The tile size that gives each of n chunks a part of the loop.
default_tile_size(l, n) == Quot(l.high - l.low + n - 1, n)

\* Recursive chunking: a loop longer than its tile is cut in the middle.
Long(l) == l.high - l.low > l.tile
Mid(l) == Quot(l.high + l.low, 2)
LowerHalf(box, d) == [box EXCEPT ![d].high = Mid(box[d])]
UpperHalf(box, d) == [box EXCEPT ![d].low = Mid(box[d])]

\* Flat chunking: the n-th tile of a loop, and how many it has.
Tile(l, n) ==
    LET low == l.low + (n - 1) * l.tile
    IN  Loop(low, IF low + l.tile > l.high THEN l.high ELSE low + l.tile, l.stride, l.tile)
NTiles(l) == IF l.low < l.high THEN (l.high - l.low + l.tile - 1) \div l.tile ELSE 0

\* The chunks of the first slab of a box, in the order of the nested loops.
Slab2D(box) ==
    [n \in 1 .. NTiles(box[2]) |-> <<Tile(box[1], 1), Tile(box[2], n)>>]
Slab3D(box) ==
    [n \in 1 .. NTiles(box[2]) * NTiles(box[3]) |->
        <<Tile(box[1], 1),
          Tile(box[2], ((n - 1) \div NTiles(box[3])) + 1),
          Tile(box[3], ((n - 1) % NTiles(box[3])) + 1)>>]
BehindSlab(box) == [box EXCEPT ![1].low = @ + box[1].tile]
Nothing(box) == [box EXCEPT ![1].low = box[1].high]
=============================================================================
