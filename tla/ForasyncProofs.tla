--------------------------- MODULE ForasyncProofs ---------------------------
(***************************************************************************)
(* Parallel loops, of the C and of the C++ interface, for any bounds, any  *)
(* tiles, up to three dimensions and any order of the tasks: the chunks    *)
(* partition the domain, a task waits for the futures of the call, and the *)
(* iterations and the event are those of ParallelFor.  The calls these are *)
(* about are those whose loops the functions are written for: see Tiled    *)
(* and Whole.                                                              *)
(***************************************************************************)
EXTENDS CppApi, FiniteSetTheorems, SequenceTheorems, TLAPS

-----------------------------------------------------------------------------
(* Tiles of a loop *)

\* One dimension of a loop domain.
LoopType == [low : Int, high : Int, stride : Int, tile : Int]

\* Multiples of a positive number keep their order.
LEMMA MultiplesOrdered ==
    ASSUME NEW t \in Nat \ {0}, NEW a \in Int, NEW b \in Int, a < b
    PROVE  a * t \in Int /\ b * t \in Int /\ a * t + t <= b * t
<1>1. PICK c \in Nat : b = a + 1 + c
  <2>1. b - a - 1 \in Nat /\ b = a + 1 + (b - a - 1)
    OBVIOUS
  <2> QED BY <2>1
<1>2. b * t = a * t + t + c * t
  BY <1>1
<1>3. c * t \in Nat
  OBVIOUS
<1> QED BY <1>2, <1>3

\* The quotient by a positive number.
LEMMA Quotients ==
    ASSUME NEW t \in Nat \ {0}, NEW a \in Nat
    PROVE  LET q == a \div t IN q \in Nat /\ q * t <= a /\ a < q * t + t /\ a % t = a - q * t
OBVIOUS

\* The quotient is the only number between whose multiples the dividend lies.
LEMMA QuotientUnique ==
    ASSUME NEW t \in Nat \ {0}, NEW a \in Nat, NEW q \in Int, q * t <= a, a < q * t + t
    PROVE  a \div t = q /\ a % t = a - q * t
<1>1. PICK r : r = a \div t
  OBVIOUS
<1>2. r \in Nat /\ r * t <= a /\ a < r * t + t /\ a % t = a - r * t
  BY <1>1, Quotients
<1>3. q * t \in Int /\ r * t \in Int
  BY <1>2
<1>4. ~(q < r)
  BY <1>2, <1>3, MultiplesOrdered
<1>5. ~(r < q)
  BY <1>2, <1>3, MultiplesOrdered
<1>6. q = r
  BY <1>2, <1>4, <1>5
<1> QED BY <1>1, <1>2, <1>6

\* The tiles of a loop.
LEMMA TileFacts ==
    ASSUME NEW l \in LoopType, NEW n \in Int
    PROVE  LET low == l.low + (n - 1) * l.tile IN
           /\ Tile(l, n) \in LoopType /\ Tile(l, n).stride = l.stride /\ Tile(l, n).low = low
           /\ Tile(l, n).high = IF low + l.tile > l.high THEN l.high ELSE low + l.tile
<1>1. PICK low : low = l.low + (n - 1) * l.tile
  OBVIOUS
<1>2. l.low \in Int /\ l.high \in Int /\ l.tile \in Int /\ l.stride \in Int
  BY DEF LoopType
<1>3. low \in Int
  <2>1. (n - 1) * l.tile \in Int
    BY <1>2
  <2> QED BY <1>1, <1>2, <2>1
<1>4. Tile(l, n) = Loop(low, IF low + l.tile > l.high THEN l.high ELSE low + l.tile, l.stride, l.tile)
  BY ONLY <1>1 DEF Tile
<1>5. PICK h : h = IF low + l.tile > l.high THEN l.high ELSE low + l.tile
  OBVIOUS
<1>6. h \in Int
  BY <1>2, <1>3, <1>5
<1>7. Tile(l, n) = Loop(low, h, l.stride, l.tile)
  BY ONLY <1>4, <1>5
<1>8. /\ Tile(l, n) \in LoopType /\ Tile(l, n).stride = l.stride /\ Tile(l, n).low = low /\ Tile(l, n).high = h
  BY ONLY <1>2, <1>3, <1>6, <1>7 DEF Loop, LoopType
<1> QED BY ONLY <1>1, <1>5, <1>8

\* The iterations of a loop of stride 1.
UnitLoop(i, l) == l.low <= i /\ i < l.high

\* A loop of stride 1 has every integer from low to high.
LEMMA UnitLoops ==
    ASSUME NEW l \in LoopType, l.stride = 1, NEW i \in Int
    PROVE  InLoop(i, l) <=> UnitLoop(i, l)
<1>1. \A a, b \in Int : (a - b) % 1 = 0
  OBVIOUS
<1>2. l.low \in Int
  BY DEF LoopType
<1> QED BY <1>1, <1>2 DEF InLoop, UnitLoop

\* An iteration is in one tile of the loop, and the tiles hold no other.
LEMMA TilesOfLoop ==
    ASSUME NEW l \in LoopType, l.stride = 1, l.tile >= 0, l.low < l.high => l.tile > 0
    PROVE  /\ NTiles(l) \in Nat
           /\ \A i \in Int :
                /\ InLoop(i, l) => \E n \in 1 .. NTiles(l) : \A m \in 1 .. NTiles(l) : InLoop(i, Tile(l, m)) <=> m = n
                /\ ~InLoop(i, l) => \A m \in 1 .. NTiles(l) : ~InLoop(i, Tile(l, m))
<1>1. PICK low, high, t : low = l.low /\ high = l.high /\ t = l.tile
  OBVIOUS
<1>2. low \in Int /\ high \in Int /\ t \in Int
  BY <1>1 DEF LoopType
<1>3. CASE ~(low < high)
  <2>1. NTiles(l) = 0
    BY <1>1, <1>3 DEF NTiles
  <2>2. \A i \in Int : ~InLoop(i, l)
    BY <1>1, <1>2, <1>3, UnitLoops DEF UnitLoop
  <2> QED BY <2>1, <2>2
<1>4. CASE low < high
  <2>1. PICK N : N = (high - low + t - 1) \div t
    OBVIOUS
  <2>2. t \in Nat \ {0} /\ high - low + t - 1 \in Nat /\ NTiles(l) = N
    BY <1>1, <1>2, <1>4, <2>1 DEF NTiles
  <2>3. N \in Nat /\ N * t <= high - low + t - 1 /\ high - low + t - 1 < N * t + t
    BY ONLY <2>1, <2>2, Quotients
  <2>4. ASSUME NEW m \in 1 .. N, NEW i \in Int
        PROVE  LET lm == low + (m - 1) * t IN
               InLoop(i, Tile(l, m)) <=> lm <= i /\ i < lm + t /\ i < high
    <3>1. PICK lm : lm = low + (m - 1) * t
      OBVIOUS
    <3>2. lm \in Int
      <4>1. (m - 1) * t \in Int
        BY <2>2
      <4> QED BY <1>2, <3>1, <4>1
    <3>3. /\ Tile(l, m) \in LoopType /\ Tile(l, m).stride = 1 /\ Tile(l, m).low = lm
          /\ Tile(l, m).high = IF lm + t > high THEN high ELSE lm + t
      <4>1. m \in Int /\ lm = l.low + (m - 1) * l.tile
        BY ONLY <1>1, <3>1, m \in 1 .. N
      <4>2. /\ Tile(l, m) \in LoopType /\ Tile(l, m).stride = l.stride /\ Tile(l, m).low = lm
            /\ Tile(l, m).high = IF lm + l.tile > l.high THEN l.high ELSE lm + l.tile
        BY ONLY <4>1, l \in LoopType, TileFacts
      <4> QED BY <1>1, <4>2
    <3>4. InLoop(i, Tile(l, m)) <=> Tile(l, m).low <= i /\ i < Tile(l, m).high
      BY <3>3, UnitLoops DEF UnitLoop
    <3>5. InLoop(i, Tile(l, m)) <=> lm <= i /\ i < lm + t /\ i < high
      BY ONLY <1>2, <2>2, <3>2, <3>3, <3>4, i \in Int
    <3> QED BY ONLY <3>1, <3>5
  <2>5. ASSUME NEW m \in 1 .. N PROVE (m - 1) * t \in Nat
    BY <2>2, <2>3
  <2>6. ASSUME NEW i \in Int, ~InLoop(i, l), NEW m \in 1 .. N PROVE ~InLoop(i, Tile(l, m))
    <3>1. ~(low <= i /\ i < high)
      BY <1>1, <2>6, UnitLoops DEF UnitLoop
    <3>2. (m - 1) * t \in Nat
      BY <2>5
    <3>3. ~(low + (m - 1) * t <= i /\ i < high)
      BY ONLY <1>2, <3>1, <3>2, i \in Int
    <3> QED BY <2>4, <3>3
  <2>7. ASSUME NEW i \in Int, InLoop(i, l)
        PROVE  \E n \in 1 .. N : \A m \in 1 .. N : InLoop(i, Tile(l, m)) <=> m = n
    <3>1. low <= i /\ i < high
      BY <1>1, <2>7, UnitLoops DEF UnitLoop
    <3>2. i - low \in Nat
      BY ONLY <1>2, <3>1, i \in Int
    <3>3. PICK q : q = (i - low) \div t
      OBVIOUS
    <3>4. q \in Nat /\ q * t <= i - low /\ i - low < q * t + t
      BY ONLY <2>2, <3>2, <3>3, Quotients
    <3>5. q < N
      <4>1. q * t \in Int /\ N * t \in Int
        BY ONLY <2>2, <2>3, <3>4
      <4>2. CASE N < q
        <5>1. N * t + t <= q * t
          BY ONLY <2>2, <2>3, <3>4, <4>2, MultiplesOrdered
        <5> QED BY ONLY <1>2, <2>2, <2>3, <3>1, <3>4, <4>1, <5>1, i \in Int
      <4>3. CASE N = q
        BY ONLY <1>2, <2>2, <2>3, <3>1, <3>4, <4>1, <4>3, i \in Int
      <4> QED BY ONLY <2>3, <3>4, <4>2, <4>3
    <3>6. q + 1 \in 1 .. N
      BY ONLY <2>3, <3>4, <3>5
    <3>7. ASSUME NEW m \in 1 .. N PROVE InLoop(i, Tile(l, m)) <=> m = q + 1
      <4>1. PICK c : c = m - 1
        OBVIOUS
      <4>2. c \in Int /\ c * t \in Int /\ q * t \in Int
        BY ONLY <2>2, <3>4, <4>1, m \in 1 .. N, <2>3
      <4>3. InLoop(i, Tile(l, m)) <=> low + c * t <= i /\ i < low + c * t + t
        BY <2>4, <3>1, <4>1
      <4>4. CASE c < q
        <5>1. c * t + t <= q * t
          BY ONLY <2>2, <3>4, <4>2, <4>4, MultiplesOrdered
        <5>2. ~(i < low + c * t + t)
          BY ONLY <1>2, <2>2, <3>4, <4>2, <5>1, i \in Int
        <5> QED BY ONLY <2>3, <3>4, <4>1, <4>3, <4>4, <5>2, m \in 1 .. N
      <4>5. CASE q < c
        <5>1. q * t + t <= c * t
          BY ONLY <2>2, <3>4, <4>2, <4>5, MultiplesOrdered
        <5>2. ~(low + c * t <= i)
          BY ONLY <1>2, <2>2, <3>4, <4>2, <5>1, i \in Int
        <5> QED BY ONLY <2>3, <3>4, <4>1, <4>3, <4>5, <5>2, m \in 1 .. N
      <4>6. CASE c = q
        <5>1. low + c * t <= i /\ i < low + c * t + t
          BY ONLY <1>2, <2>2, <3>4, <4>2, <4>6, i \in Int
        <5> QED BY ONLY <2>3, <3>4, <4>1, <4>3, <4>6, <5>1, m \in 1 .. N
      <4> QED BY ONLY <3>4, <4>2, <4>4, <4>5, <4>6
    <3> QED BY <3>6, <3>7
  <2> QED BY <2>2, <2>3, <2>6, <2>7
<1> QED BY <1>2, <1>3, <1>4

\* The loop domains of a number of dimensions.
BoxType(dim) == [1 .. dim -> LoopType]

\* An iteration of a box is in one of the boxes that it is cut into.
Parted(p, old, box, boxes) ==
    /\ InBox(p, old) <=> (InBox(p, box) \/ \E n \in DOMAIN boxes : InBox(p, boxes[n]))
    /\ \A n \in DOMAIN boxes : InBox(p, boxes[n]) =>
            ~InBox(p, box) /\ \A m \in DOMAIN boxes : InBox(p, boxes[m]) => m = n

\* A loop that is not empty has a positive tile.
Spaced(l) == l.tile >= 0 /\ (l.low < l.high => l.tile > 0)

\* The number of tiles of a loop.
LEMMA NTilesNat ==
    ASSUME NEW l \in LoopType, Spaced(l)
    PROVE  NTiles(l) \in Nat
<1>1. PICK low, high, t : low = l.low /\ high = l.high /\ t = l.tile
  OBVIOUS
<1>2. low \in Int /\ high \in Int /\ t \in Int /\ t >= 0 /\ (low < high => t > 0)
  BY <1>1 DEF LoopType, Spaced
<1>3. CASE low < high
  <2>1. t \in Nat \ {0} /\ high - low + t - 1 \in Nat
    BY ONLY <1>2, <1>3
  <2>2. (high - low + t - 1) \div t \in Nat
    BY ONLY <2>1, Quotients
  <2> QED BY <1>1, <1>3, <2>2 DEF NTiles
<1>4. CASE ~(low < high)
  BY <1>1, <1>4 DEF NTiles
<1> QED BY <1>3, <1>4

\* The first tile and what is behind it.
LEMMA FirstTile ==
    ASSUME NEW l \in LoopType, l.stride = 1, l.tile > 0, NEW i \in Int
    PROVE  LET behind == [l EXCEPT !.low = @ + l.tile] IN
           /\ InLoop(i, l) <=> (InLoop(i, Tile(l, 1)) \/ InLoop(i, behind))
           /\ ~(InLoop(i, Tile(l, 1)) /\ InLoop(i, behind))
<1>1. PICK low, high, t, behind : low = l.low /\ high = l.high /\ t = l.tile /\ behind = [l EXCEPT !.low = @ + l.tile]
  OBVIOUS
<1>2. low \in Int /\ high \in Int /\ t \in Int /\ t > 0
  BY <1>1 DEF LoopType
<1>3. behind \in LoopType /\ behind.stride = 1 /\ behind.low = low + t /\ behind.high = high
  BY <1>1 DEF LoopType
<1>4. /\ Tile(l, 1) \in LoopType /\ Tile(l, 1).stride = 1 /\ Tile(l, 1).low = low
      /\ Tile(l, 1).high = IF low + t > high THEN high ELSE low + t
  <2>1. l.low + (1 - 1) * l.tile = low
    BY <1>1, <1>2
  <2>2. 1 \in Int
    OBVIOUS
  <2>3. /\ Tile(l, 1) \in LoopType /\ Tile(l, 1).stride = l.stride /\ Tile(l, 1).low = l.low + (1 - 1) * l.tile
        /\ Tile(l, 1).high = IF l.low + (1 - 1) * l.tile + l.tile > l.high
                             THEN l.high ELSE l.low + (1 - 1) * l.tile + l.tile
    BY ONLY <2>2, l \in LoopType, TileFacts
  <2> QED BY <1>1, <2>1, <2>3
<1>5. /\ InLoop(i, l) <=> low <= i /\ i < high
      /\ InLoop(i, behind) <=> low + t <= i /\ i < high
      /\ InLoop(i, Tile(l, 1)) <=> low <= i /\ i < (IF low + t > high THEN high ELSE low + t)
  BY <1>1, <1>3, <1>4, UnitLoops DEF UnitLoop
<1>6. /\ InLoop(i, l) <=> (InLoop(i, Tile(l, 1)) \/ InLoop(i, behind))
      /\ ~(InLoop(i, Tile(l, 1)) /\ InLoop(i, behind))
  BY ONLY <1>2, <1>5, i \in Int
<1> QED BY ONLY <1>1, <1>6

\* What is behind the first slab of a box.
LEMMA BehindShape ==
    ASSUME NEW dim \in 1 .. 3, NEW box \in BoxType(dim)
    PROVE  /\ BehindSlab(box) \in BoxType(dim)
           /\ BehindSlab(box)[1] = [box[1] EXCEPT !.low = @ + box[1].tile]
           /\ \A d \in 1 .. dim : d # 1 => BehindSlab(box)[d] = box[d]
           /\ \A d \in 1 .. dim : BehindSlab(box)[d].stride = box[d].stride
<1>1. box[1] \in LoopType /\ DOMAIN box = 1 .. dim /\ 1 \in 1 .. dim
  BY DEF BoxType
<1>2. PICK b : b = [box[1] EXCEPT !.low = @ + box[1].tile]
  OBVIOUS
<1>3. b \in LoopType /\ b.stride = box[1].stride
  BY <1>1, <1>2 DEF LoopType
<1>4. BehindSlab(box) = [box EXCEPT ![1] = b]
  BY <1>2 DEF BehindSlab
<1> QED BY <1>1, <1>2, <1>3, <1>4 DEF BoxType

\* The box a flat loop is left with at its end.
LEMMA NothingShape ==
    ASSUME NEW dim \in 1 .. 3, NEW box \in BoxType(dim)
    PROVE  /\ Nothing(box) \in BoxType(dim)
           /\ Nothing(box)[1].low = Nothing(box)[1].high
           /\ \A d \in 1 .. dim : Nothing(box)[d].stride = box[d].stride
<1>1. box[1] \in LoopType /\ DOMAIN box = 1 .. dim /\ 1 \in 1 .. dim
  BY DEF BoxType
<1>2. PICK b : b = [box[1] EXCEPT !.low = box[1].high]
  OBVIOUS
<1>3. b \in LoopType /\ b.stride = box[1].stride /\ b.low = b.high
  BY <1>1, <1>2 DEF LoopType
<1>4. Nothing(box) = [box EXCEPT ![1] = b]
  BY <1>2 DEF Nothing
<1> QED BY <1>1, <1>3, <1>4 DEF BoxType

\* A box whose first loop is empty has no iteration.
LEMMA NoIteration ==
    ASSUME NEW dim \in 1 .. 3, NEW box \in BoxType(dim), box[1].high <= box[1].low,
           NEW p \in [1 .. dim -> Int]
    PROVE  ~InBox(p, box)
<1>1. 1 \in DOMAIN box /\ box[1] \in LoopType /\ p[1] \in Int
  BY DEF BoxType
<1>2. ~InLoop(p[1], box[1])
  BY <1>1 DEF InLoop, LoopType
<1> QED BY <1>1, <1>2 DEF InBox

\* Two dimensions.
LEMMA SlabShape2D ==
    ASSUME NEW box \in BoxType(2), Spaced(box[2])
    PROVE  /\ Slab2D(box) \in Seq(BoxType(2)) /\ DOMAIN Slab2D(box) = 1 .. NTiles(box[2])
           /\ \A n \in DOMAIN Slab2D(box) :
                /\ Slab2D(box)[n] = <<Tile(box[1], 1), Tile(box[2], n)>>
                /\ Slab2D(box)[n] \in BoxType(2)
                /\ Slab2D(box)[n][1] = Tile(box[1], 1) /\ Slab2D(box)[n][2] = Tile(box[2], n)
                /\ \A d \in 1 .. 2 : Slab2D(box)[n][d].stride = box[d].stride
<1>1. box[1] \in LoopType /\ box[2] \in LoopType
  BY DEF BoxType
<1>2. PICK N : N = NTiles(box[2])
  OBVIOUS
<1>3. N \in Nat
  BY <1>1, <1>2, NTilesNat
<1>4. Slab2D(box) = [n \in 1 .. N |-> <<Tile(box[1], 1), Tile(box[2], n)>>]
  BY <1>2 DEF Slab2D
<1>5. ASSUME NEW n \in 1 .. N
      PROVE  LET b == <<Tile(box[1], 1), Tile(box[2], n)>> IN
             /\ b \in BoxType(2) /\ b[1] = Tile(box[1], 1) /\ b[2] = Tile(box[2], n)
             /\ \A d \in 1 .. 2 : b[d].stride = box[d].stride
  <2>1. PICK s, t : s = Tile(box[1], 1) /\ t = Tile(box[2], n)
    OBVIOUS
  <2>2. s \in LoopType /\ t \in LoopType /\ s.stride = box[1].stride /\ t.stride = box[2].stride
    <3>1. 1 \in Int /\ n \in Int
      OBVIOUS
    <3> QED BY ONLY <1>1, <2>1, <3>1, TileFacts
  <2>3. <<s, t>> \in BoxType(2) /\ <<s, t>>[1] = s /\ <<s, t>>[2] = t
    BY ONLY <2>2 DEF BoxType
  <2>4. \A d \in 1 .. 2 : <<s, t>>[d].stride = box[d].stride
    BY ONLY <2>2
  <2> QED BY ONLY <2>1, <2>3, <2>4
<1> QED BY <1>2, <1>3, <1>4, <1>5

\* A slab of Slab2D and what is behind it hold the iterations of the box.
LEMMA SlabParts2D ==
    ASSUME NEW box \in BoxType(2), Spaced(box[1]), Spaced(box[2]), box[1].low < box[1].high,
           \A d \in 1 .. 2 : box[d].stride = 1,
           NEW p \in [1 .. 2 -> Int]
    PROVE  Parted(p, box, BehindSlab(box), Slab2D(box))
<1>1. PICK N, new, behind : N = NTiles(box[2]) /\ new = Slab2D(box) /\ behind = BehindSlab(box)
  OBVIOUS
<1>2. box[1] \in LoopType /\ box[2] \in LoopType /\ p[1] \in Int /\ p[2] \in Int
  BY DEF BoxType
<1>3. DOMAIN box = 1 .. 2 /\ DOMAIN behind = 1 .. 2 /\ behind[2] = box[2]
      /\ behind[1] = [box[1] EXCEPT !.low = @ + box[1].tile]
  BY <1>1, BehindShape DEF BoxType
<1>4. /\ DOMAIN new = 1 .. N
      /\ \A n \in 1 .. N : DOMAIN new[n] = 1 .. 2 /\ new[n][1] = Tile(box[1], 1) /\ new[n][2] = Tile(box[2], n)
  BY <1>1, SlabShape2D DEF BoxType
<1>5. 1 .. 2 = {1, 2}
  OBVIOUS
<1>6. /\ InBox(p, box) <=> InLoop(p[1], box[1]) /\ InLoop(p[2], box[2])
      /\ InBox(p, behind) <=> InLoop(p[1], behind[1]) /\ InLoop(p[2], box[2])
      /\ \A n \in 1 .. N : InBox(p, new[n]) <=> InLoop(p[1], Tile(box[1], 1)) /\ InLoop(p[2], Tile(box[2], n))
  BY <1>3, <1>4, <1>5 DEF InBox
<1>7. /\ InLoop(p[1], box[1]) <=> (InLoop(p[1], Tile(box[1], 1)) \/ InLoop(p[1], behind[1]))
      /\ ~(InLoop(p[1], Tile(box[1], 1)) /\ InLoop(p[1], behind[1]))
  BY <1>2, <1>3, FirstTile DEF Spaced
<1>8. /\ InLoop(p[2], box[2]) => \E n \in 1 .. N : \A m \in 1 .. N : InLoop(p[2], Tile(box[2], m)) <=> m = n
      /\ ~InLoop(p[2], box[2]) => \A m \in 1 .. N : ~InLoop(p[2], Tile(box[2], m))
  BY <1>1, <1>2, TilesOfLoop DEF Spaced
<1> QED BY ONLY <1>1, <1>4, <1>6, <1>7, <1>8 DEF Parted

-----------------------------------------------------------------------------
(* The chunks of a slab in three dimensions *)

Row(n, B) == ((n - 1) \div B) + 1
Column(n, B) == ((n - 1) % B) + 1

\* The numbers of a table of A rows and B columns, row by row.
LEMMA Table ==
    ASSUME NEW A \in Nat, NEW B \in Nat
    PROVE  /\ A * B \in Nat
           /\ \A n \in 1 .. A * B : Row(n, B) \in 1 .. A /\ Column(n, B) \in 1 .. B
           /\ \A a \in 1 .. A, b \in 1 .. B : \E n \in 1 .. A * B :
                \A m \in 1 .. A * B : (Row(m, B) = a /\ Column(m, B) = b) <=> m = n
<1>1. PICK N : N = A * B
  OBVIOUS
<1>2. N \in Nat
  BY <1>1
<1>3. ASSUME NEW n \in 1 .. N
      PROVE  /\ B \in Nat \ {0} /\ n - 1 \in Nat
             /\ Row(n, B) \in 1 .. A /\ Column(n, B) \in 1 .. B
             /\ n = (Row(n, B) - 1) * B + Column(n, B)
  <2>1. B \in Nat \ {0}
    <3>1. CASE B = 0
      <4>1. N = 0
        BY ONLY <1>1, <3>1, A \in Nat
      <4> QED BY ONLY <4>1, n \in 1 .. N
    <3> QED BY <3>1
  <2>2. n - 1 \in Nat /\ n - 1 < N /\ n \in Nat
    BY ONLY <1>2, n \in 1 .. N
  <2>3. PICK q, r : q = (n - 1) \div B /\ r = (n - 1) % B
    OBVIOUS
  <2>4. q \in Nat /\ q * B <= n - 1 /\ n - 1 < q * B + B /\ r = n - 1 - q * B
    BY ONLY <2>1, <2>2, <2>3, Quotients
  <2>5. q * B \in Nat
    BY ONLY <2>1, <2>4
  <2>6. q < A
    <3>1. CASE A < q
      <4>1. A * B + B <= q * B /\ A * B \in Int
        BY ONLY <2>1, <2>4, <3>1, A \in Nat, MultiplesOrdered
      <4> QED BY ONLY <1>1, <1>2, <2>1, <2>2, <2>4, <2>5, <4>1
    <3>2. CASE A = q
      BY ONLY <1>1, <1>2, <2>2, <2>4, <2>5, <3>2
    <3> QED BY ONLY <2>4, <3>1, <3>2, A \in Nat
  <2>7. Row(n, B) = q + 1 /\ Column(n, B) = r + 1
    BY ONLY <2>3 DEF Row, Column
  <2>8. r + 1 \in 1 .. B /\ n = q * B + (r + 1)
    BY ONLY <2>1, <2>2, <2>4, <2>5
  <2>9. q + 1 \in 1 .. A /\ (q + 1) - 1 = q
    BY ONLY <2>4, <2>6, A \in Nat
  <2> QED BY ONLY <2>1, <2>2, <2>7, <2>8, <2>9
<1>4. ASSUME NEW a \in 1 .. A, NEW b \in 1 .. B
      PROVE  \E n \in 1 .. N : \A m \in 1 .. N : (Row(m, B) = a /\ Column(m, B) = b) <=> m = n
  <2>1. PICK c : c = (a - 1) * B
    OBVIOUS
  <2>2. B \in Nat \ {0} /\ a - 1 \in Nat /\ b \in Nat /\ a \in Nat /\ a - 1 < A
    BY ONLY a \in 1 .. A, b \in 1 .. B, A \in Nat, B \in Nat
  <2>3. c \in Nat
    BY ONLY <2>1, <2>2
  <2>4. c + B <= N
    BY ONLY <1>1, <2>1, <2>2, A \in Nat, MultiplesOrdered
  <2>5. c + b \in 1 .. N
    BY ONLY <1>2, <2>2, <2>3, <2>4, b \in 1 .. B
  <2>6. Row(c + b, B) = a /\ Column(c + b, B) = b
    <3>1. c + b - 1 \in Nat /\ (a - 1) * B <= c + b - 1 /\ c + b - 1 < (a - 1) * B + B
      BY ONLY <2>1, <2>2, <2>3, b \in 1 .. B
    <3>2. a - 1 \in Int
      BY ONLY <2>2
    <3>3. PICK x, y, z : x = c + b - 1 /\ y = x \div B /\ z = x % B
      OBVIOUS
    <3>4. y = a - 1 /\ z = x - (a - 1) * B
      BY ONLY <2>2, <3>1, <3>2, <3>3, QuotientUnique
    <3>5. z = x - c
      BY ONLY <2>1, <3>4
    <3>6. z = b - 1
      BY ONLY <2>2, <2>3, <3>3, <3>5
    <3>7. Row(c + b, B) = ((c + b - 1) \div B) + 1 /\ Column(c + b, B) = ((c + b - 1) % B) + 1
      BY ONLY <2>2, <2>3, <3>2 DEF Row, Column
    <3>8. Row(c + b, B) = y + 1 /\ Column(c + b, B) = z + 1
      BY ONLY <3>3, <3>7, Zenon
    <3> QED BY ONLY <2>2, <3>4, <3>6, <3>8
  <2>7. ASSUME NEW m \in 1 .. N, Row(m, B) = a, Column(m, B) = b PROVE m = c + b
    BY ONLY <1>3, <2>1, <2>7
  <2> QED BY <2>5, <2>6, <2>7
<1> QED BY ONLY <1>1, <1>2, <1>3, <1>4

\* The chunks of Slab3D are boxes, with the strides of the box they are cut
\* from.
LEMMA SlabShape3D ==
    ASSUME NEW box \in BoxType(3), Spaced(box[2]), Spaced(box[3])
    PROVE  LET N == NTiles(box[2]) * NTiles(box[3]) IN
           /\ Slab3D(box) \in Seq(BoxType(3)) /\ DOMAIN Slab3D(box) = 1 .. N
           /\ \A n \in DOMAIN Slab3D(box) :
                /\ Slab3D(box)[n] \in BoxType(3)
                /\ Slab3D(box)[n][1] = Tile(box[1], 1)
                /\ Slab3D(box)[n][2] = Tile(box[2], Row(n, NTiles(box[3])))
                /\ Slab3D(box)[n][3] = Tile(box[3], Column(n, NTiles(box[3])))
                /\ \A d \in 1 .. 3 : Slab3D(box)[n][d].stride = box[d].stride
<1>1. box[1] \in LoopType /\ box[2] \in LoopType /\ box[3] \in LoopType
  BY DEF BoxType
<1>2. PICK A, B, N : A = NTiles(box[2]) /\ B = NTiles(box[3]) /\ N = A * B
  OBVIOUS
<1>3. A \in Nat /\ B \in Nat
  BY <1>1, <1>2, NTilesNat
<1>4. N \in Nat /\ \A n \in 1 .. N : Row(n, B) \in 1 .. A /\ Column(n, B) \in 1 .. B
  BY ONLY <1>2, <1>3, Table
<1>5. Slab3D(box) = [n \in 1 .. N |-> <<Tile(box[1], 1), Tile(box[2], Row(n, B)), Tile(box[3], Column(n, B))>>]
  BY <1>2 DEF Slab3D, Row, Column
<1>6. ASSUME NEW n \in 1 .. N
      PROVE  LET b == <<Tile(box[1], 1), Tile(box[2], Row(n, B)), Tile(box[3], Column(n, B))>> IN
             /\ b \in BoxType(3) /\ b[1] = Tile(box[1], 1)
             /\ b[2] = Tile(box[2], Row(n, B)) /\ b[3] = Tile(box[3], Column(n, B))
             /\ \A d \in 1 .. 3 : b[d].stride = box[d].stride
  <2>1. PICK s, t, u : s = Tile(box[1], 1) /\ t = Tile(box[2], Row(n, B)) /\ u = Tile(box[3], Column(n, B))
    OBVIOUS
  <2>a. 1 \in Int /\ Row(n, B) \in Int /\ Column(n, B) \in Int
    BY <1>3, <1>4
  <2>2. /\ s \in LoopType /\ t \in LoopType /\ u \in LoopType
        /\ s.stride = box[1].stride /\ t.stride = box[2].stride /\ u.stride = box[3].stride
    BY ONLY <1>1, <2>a, <2>1, TileFacts
  <2>3. <<s, t, u>> \in BoxType(3) /\ <<s, t, u>>[1] = s /\ <<s, t, u>>[2] = t /\ <<s, t, u>>[3] = u
    BY ONLY <2>2 DEF BoxType
  <2>4. \A d \in 1 .. 3 : <<s, t, u>>[d].stride = box[d].stride
    BY ONLY <2>2
  <2> QED BY ONLY <2>1, <2>3, <2>4
<1>7. DOMAIN Slab3D(box) = 1 .. N /\ Slab3D(box) \in Seq(BoxType(3))
  BY <1>4, <1>5, <1>6
<1>8. ASSUME NEW n \in 1 .. N
      PROVE  /\ Slab3D(box)[n] \in BoxType(3)
             /\ Slab3D(box)[n][1] = Tile(box[1], 1)
             /\ Slab3D(box)[n][2] = Tile(box[2], Row(n, B))
             /\ Slab3D(box)[n][3] = Tile(box[3], Column(n, B))
             /\ \A d \in 1 .. 3 : Slab3D(box)[n][d].stride = box[d].stride
  <2>1. Slab3D(box)[n] = <<Tile(box[1], 1), Tile(box[2], Row(n, B)), Tile(box[3], Column(n, B))>>
    BY ONLY <1>5, n \in 1 .. N
  <2> QED BY ONLY <1>6, <2>1, n \in 1 .. N, Zenon
<1> QED BY ONLY <1>2, <1>7, <1>8, Zenon

\* A slab of Slab3D and what is behind it hold the iterations of the box.
LEMMA SlabParts3D ==
    ASSUME NEW box \in BoxType(3), Spaced(box[1]), Spaced(box[2]), Spaced(box[3]), box[1].low < box[1].high,
           \A d \in 1 .. 3 : box[d].stride = 1,
           NEW p \in [1 .. 3 -> Int]
    PROVE  Parted(p, box, BehindSlab(box), Slab3D(box))
<1>1. PICK A, B, N, new, behind :
         A = NTiles(box[2]) /\ B = NTiles(box[3]) /\ N = A * B /\ new = Slab3D(box) /\ behind = BehindSlab(box)
  OBVIOUS
<1>2. box[1] \in LoopType /\ box[2] \in LoopType /\ box[3] \in LoopType /\ p[1] \in Int /\ p[2] \in Int /\ p[3] \in Int
  BY DEF BoxType
<1>3. DOMAIN box = 1 .. 3 /\ DOMAIN behind = 1 .. 3 /\ behind[2] = box[2] /\ behind[3] = box[3]
      /\ behind[1] = [box[1] EXCEPT !.low = @ + box[1].tile]
  BY <1>1, BehindShape DEF BoxType
<1>4. /\ DOMAIN new = 1 .. N
      /\ \A n \in 1 .. N : /\ DOMAIN new[n] = 1 .. 3 /\ new[n][1] = Tile(box[1], 1)
                           /\ new[n][2] = Tile(box[2], Row(n, B)) /\ new[n][3] = Tile(box[3], Column(n, B))
  BY <1>1, SlabShape3D DEF BoxType
<1>5. 1 .. 3 = {1, 2, 3}
  OBVIOUS
<1> DEFINE In2(n) == InLoop(p[2], Tile(box[2], n))
           In3(n) == InLoop(p[3], Tile(box[3], n))
<1>6. /\ InBox(p, box) <=> InLoop(p[1], box[1]) /\ InLoop(p[2], box[2]) /\ InLoop(p[3], box[3])
      /\ InBox(p, behind) <=> InLoop(p[1], behind[1]) /\ InLoop(p[2], box[2]) /\ InLoop(p[3], box[3])
      /\ \A n \in 1 .. N : InBox(p, new[n]) <=> InLoop(p[1], Tile(box[1], 1)) /\ In2(Row(n, B)) /\ In3(Column(n, B))
  <2>1. InBox(p, box) <=> InLoop(p[1], box[1]) /\ InLoop(p[2], box[2]) /\ InLoop(p[3], box[3])
    BY ONLY <1>3, <1>5 DEF InBox
  <2>2. InBox(p, behind) <=> InLoop(p[1], behind[1]) /\ InLoop(p[2], box[2]) /\ InLoop(p[3], box[3])
    BY ONLY <1>3, <1>5 DEF InBox
  <2>3. \A n \in 1 .. N : InBox(p, new[n]) <=> InLoop(p[1], Tile(box[1], 1)) /\ In2(Row(n, B)) /\ In3(Column(n, B))
    BY ONLY <1>4, <1>5 DEF InBox
  <2> QED BY <2>1, <2>2, <2>3
<1>7. /\ InLoop(p[1], box[1]) <=> (InLoop(p[1], Tile(box[1], 1)) \/ InLoop(p[1], behind[1]))
      /\ ~(InLoop(p[1], Tile(box[1], 1)) /\ InLoop(p[1], behind[1]))
  BY <1>2, <1>3, FirstTile DEF Spaced
<1>8. /\ A \in Nat
      /\ InLoop(p[2], box[2]) => \E n \in 1 .. A : \A m \in 1 .. A : In2(m) <=> m = n
      /\ ~InLoop(p[2], box[2]) => \A m \in 1 .. A : ~In2(m)
  BY <1>1, <1>2, TilesOfLoop DEF Spaced
<1>9. /\ B \in Nat
      /\ InLoop(p[3], box[3]) => \E n \in 1 .. B : \A m \in 1 .. B : In3(m) <=> m = n
      /\ ~InLoop(p[3], box[3]) => \A m \in 1 .. B : ~In3(m)
  BY <1>1, <1>2, TilesOfLoop DEF Spaced
<1>10. /\ \A n \in 1 .. N : Row(n, B) \in 1 .. A /\ Column(n, B) \in 1 .. B
       /\ \A a \in 1 .. A, b \in 1 .. B : \E n \in 1 .. N :
                \A m \in 1 .. N : (Row(m, B) = a /\ Column(m, B) = b) <=> m = n
  <2>1. A \in Nat /\ B \in Nat
    BY ONLY <1>8, <1>9, Zenon
  <2>2. /\ \A n \in 1 .. A * B : Row(n, B) \in 1 .. A /\ Column(n, B) \in 1 .. B
        /\ \A a \in 1 .. A, b \in 1 .. B : \E n \in 1 .. A * B :
                \A m \in 1 .. A * B : (Row(m, B) = a /\ Column(m, B) = b) <=> m = n
    BY ONLY <2>1, Table
  <2>3. A * B = N
    BY ONLY <1>1
  <2> QED BY ONLY <2>2, <2>3
<1> HIDE DEF In2, In3
<1>11. /\ InLoop(p[2], box[2]) /\ InLoop(p[3], box[3]) =>
            \E n \in 1 .. N : \A m \in 1 .. N : In2(Row(m, B)) /\ In3(Column(m, B)) <=> m = n
       /\ ~(InLoop(p[2], box[2]) /\ InLoop(p[3], box[3])) =>
            \A m \in 1 .. N : ~(In2(Row(m, B)) /\ In3(Column(m, B)))
  <2>1. ASSUME InLoop(p[2], box[2]), InLoop(p[3], box[3])
        PROVE  \E n \in 1 .. N : \A m \in 1 .. N : In2(Row(m, B)) /\ In3(Column(m, B)) <=> m = n
    <3>1. PICK a \in 1 .. A : \A m \in 1 .. A : In2(m) <=> m = a
      BY ONLY <1>8, <2>1
    <3>2. PICK b \in 1 .. B : \A m \in 1 .. B : In3(m) <=> m = b
      BY ONLY <1>9, <2>1
    <3>3. PICK n \in 1 .. N : \A m \in 1 .. N : (Row(m, B) = a /\ Column(m, B) = b) <=> m = n
      BY ONLY <1>10, a \in 1 .. A, b \in 1 .. B
    <3>4. \A m \in 1 .. N : In2(Row(m, B)) /\ In3(Column(m, B)) <=> m = n
      BY ONLY <1>10, <3>1, <3>2, <3>3, Zenon
    <3> QED BY <3>4
  <2>2. ASSUME ~(InLoop(p[2], box[2]) /\ InLoop(p[3], box[3])), NEW m \in 1 .. N
        PROVE  ~(In2(Row(m, B)) /\ In3(Column(m, B)))
    BY ONLY <1>8, <1>9, <1>10, <2>2, m \in 1 .. N, Zenon
  <2> QED BY ONLY <2>1, <2>2, Zenon
<1> QED BY ONLY <1>1, <1>4, <1>6, <1>7, <1>11 DEF Parted

-----------------------------------------------------------------------------
(* Halves of a loop *)

\* Between the bounds of a loop, in whichever order they are.
Between(m, l) == (l.low <= m /\ m <= l.high) \/ (l.high <= m /\ m <= l.low)

\* The middle of a loop lies between its bounds.
LEMMA MidInside ==
    ASSUME NEW l \in LoopType
    PROVE  Mid(l) \in Int /\ Between(Mid(l), l)
  <1> DEFINE s == l.high + l.low
  <1>1. l.low \in Int /\ l.high \in Int /\ s \in Int
    BY DEF LoopType
  <1>2. CASE s >= 0
    <2>1. Mid(l) = s \div 2
      BY <1>2 DEF Mid, Quot
    <2> QED BY <1>1, <1>2, <2>1 DEF Between
  <1>3. CASE ~(s >= 0)
    <2>1. Mid(l) = -((-s) \div 2)
      BY <1>3 DEF Mid, Quot
    <2> QED BY <1>1, <1>3, <2>1 DEF Between
  <1> QED BY <1>2, <1>3

\* An iteration of a loop is in one of its halves and not in both.
LEMMA HalvesOfLoop ==
    ASSUME NEW l \in LoopType, l.stride = 1, NEW i \in Int,
           NEW m \in Int, Between(m, l)
    PROVE  LET lower == [l EXCEPT !.high = m]
               upper == [l EXCEPT !.low = m]
           IN  /\ InLoop(i, l) <=> (InLoop(i, lower) \/ InLoop(i, upper))
               /\ ~(InLoop(i, lower) /\ InLoop(i, upper))
  <1> DEFINE lower == [l EXCEPT !.high = m]
             upper == [l EXCEPT !.low = m]
  <1>1. \A a, b \in Int : (a - b) % 1 = 0
    OBVIOUS
  <1>2. l.low \in Int /\ l.high \in Int
    BY DEF LoopType
  <1>3. InLoop(i, l) <=> l.low <= i /\ i < l.high
    BY <1>1, <1>2 DEF InLoop
  <1>4. InLoop(i, lower) <=> l.low <= i /\ i < m
    <2>1. lower.low = l.low /\ lower.high = m /\ lower.stride = 1
      BY DEF LoopType
    <2> QED BY <1>1, <1>2, <2>1 DEF InLoop
  <1>5. InLoop(i, upper) <=> m <= i /\ i < l.high
    <2>1. upper.low = m /\ upper.high = l.high /\ upper.stride = 1
      BY DEF LoopType
    <2> QED BY <1>1, <1>2, <2>1 DEF InLoop
  <1> QED BY <1>2, <1>3, <1>4, <1>5 DEF Between

\* The halves of a box have its shape, its strides, and its iterations between them.
LEMMA HalvesOfBox ==
    ASSUME NEW dim \in 1 .. 3, NEW box \in BoxType(dim), NEW d \in 1 .. dim,
           \A e \in 1 .. dim : box[e].stride = 1,
           NEW p \in [1 .. dim -> Int]
    PROVE  /\ InBox(p, box) <=> (InBox(p, LowerHalf(box, d)) \/ InBox(p, UpperHalf(box, d)))
           /\ ~(InBox(p, LowerHalf(box, d)) /\ InBox(p, UpperHalf(box, d)))
  <1> DEFINE lower == [box[d] EXCEPT !.high = Mid(box[d])]
             upper == [box[d] EXCEPT !.low = Mid(box[d])]
  <1>1. box[d] \in LoopType /\ p[d] \in Int /\ DOMAIN box = 1 .. dim
    BY DEF BoxType
  <1>2. Mid(box[d]) \in Int /\ Between(Mid(box[d]), box[d])
    BY <1>1, MidInside
  <1>3. /\ InLoop(p[d], box[d]) <=> (InLoop(p[d], lower) \/ InLoop(p[d], upper))
        /\ ~(InLoop(p[d], lower) /\ InLoop(p[d], upper))
    BY <1>1, <1>2, HalvesOfLoop
  <1>4. LowerHalf(box, d) = [box EXCEPT ![d] = lower]
    BY DEF LowerHalf
  <1>5. UpperHalf(box, d) = [box EXCEPT ![d] = upper]
    BY DEF UpperHalf
  <1> HIDE DEF lower, upper
  <1>6. /\ DOMAIN LowerHalf(box, d) = 1 .. dim
        /\ LowerHalf(box, d)[d] = lower
        /\ \A e \in 1 .. dim : e # d => LowerHalf(box, d)[e] = box[e]
    BY <1>4, <1>1
  <1>7. /\ DOMAIN UpperHalf(box, d) = 1 .. dim
        /\ UpperHalf(box, d)[d] = upper
        /\ \A e \in 1 .. dim : e # d => UpperHalf(box, d)[e] = box[e]
    BY <1>5, <1>1
  <1> QED BY <1>1, <1>3, <1>6, <1>7 DEF InBox

\* The halves of a box are boxes with the strides of that box.
LEMMA HalvesShape ==
    ASSUME NEW dim \in 1 .. 3, NEW box \in BoxType(dim), NEW d \in 1 .. dim
    PROVE  /\ LowerHalf(box, d) \in BoxType(dim) /\ UpperHalf(box, d) \in BoxType(dim)
           /\ \A e \in 1 .. dim : /\ LowerHalf(box, d)[e].stride = box[e].stride
                                 /\ UpperHalf(box, d)[e].stride = box[e].stride
  <1> DEFINE lower == [box[d] EXCEPT !.high = Mid(box[d])]
             upper == [box[d] EXCEPT !.low = Mid(box[d])]
  <1>1. box[d] \in LoopType /\ DOMAIN box = 1 .. dim
    BY DEF BoxType
  <1>2. Mid(box[d]) \in Int
    BY <1>1, MidInside
  <1>3. lower \in LoopType /\ upper \in LoopType
        /\ lower.stride = box[d].stride /\ upper.stride = box[d].stride
    BY <1>1, <1>2 DEF LoopType
  <1>4. LowerHalf(box, d) = [box EXCEPT ![d] = lower] /\ UpperHalf(box, d) = [box EXCEPT ![d] = upper]
    BY DEF LowerHalf, UpperHalf
  <1> HIDE DEF lower, upper
  <1> QED BY <1>1, <1>3, <1>4 DEF BoxType

-----------------------------------------------------------------------------
(* The inductive invariant *)

\* The records of tasks.
Records ==
    [fp : {"recursive", "flat", "runner", "seq", "call_and_put", "caller"}, loop : BoxType(call.dim),
     waits : SUBSET Promises, nb : BOOLEAN, at : {NULL, Central, call.at}, done : BOOLEAN]

\* The domain that is cut into chunks: the C interface replaces a tile of -1.
Chunked == IF call.api = "c" THEN WithTiles(call.domain) ELSE call.domain

\* A flat loop that is not empty has positive tiles ...
Tiled == call.mode = "flat" => \A d \in 1 .. call.dim : Spaced(Chunked[d])

\* ... and one of a single dimension starts on a multiple of its tile.
Aligned ==
    call.mode = "flat" /\ call.dim = 1 =>
        Chunked[1].low >= 0 /\ (Chunked[1].tile > 0 => Chunked[1].low % Chunked[1].tile = 0)

\* The loops whose iterations the chunks hand out in full.
Whole == Tiled /\ Aligned /\ \A d \in 1 .. call.dim : Chunked[d].stride = 1

\* The tasks that have not returned.
Undone == {k \in DOMAIN task : ~task[k].done}

\* The type of the variables that do not depend on the tiles.
Shape ==
    /\ call \in Calls
    /\ satisfied \subseteq Promises /\ aborted \in BOOLEAN /\ event \in BOOLEAN

\* The counter is the number of tasks that have not returned.
TaskInv ==
    /\ task \in Seq(Records)
    /\ task = << >> => domain = call.domain /\ counter = 1 /\ ~event
    /\ task # << >> => domain = Chunked /\ counter = Cardinality(Undone) /\ (event <=> counter = 0)

\* No slab is left to cut off.
Empty(box) == box[1].high <= box[1].low

\* What is left of the domain when slabs were cut off.
Rest(box) ==
    /\ box[1] = [domain[1] EXCEPT !.low = box[1].low] /\ domain[1].low <= box[1].low
    /\ \A d \in 1 .. call.dim : d # 1 => box[d] = domain[d]
    /\ Aligned /\ call.dim = 1 /\ domain[1].tile > 0 => box[1].low % domain[1].tile = 0

\* The task that cuts a flat loop keeps the rest, in the end nothing; the
\* caller of a function of hclib-async.h runs nothing.
FlatInv ==
    \A k \in DOMAIN task :
        /\ task[k].fp = "flat" => call.mode = "flat" /\ (~task[k].done => Rest(Box(k)))
        /\ task[k].fp \in {"flat", "caller"} /\ task[k].done => Empty(Box(k))
        /\ task[k].fp = "caller" => task[k].done

\* What the task of a call waits for: a vector of futures is handed on as it is.
Waited ==
    IF call.api = "async" /\ call.fn \in FutureVector THEN Awaited(call.fut) ELSE Deps(call.fut)

\* A task waits for the futures of the call, unless it is the caller itself.
Awaits(t, k) ==
    \/ t.waits = Waited
    \/ call.api = "c"
    \/ t.fp \in {"flat", "caller"}
    \/ k = 1 /\ t.fp \in {"recursive", "seq"}

\* A task that has returned had its futures satisfied.
WaitInv ==
    \A k \in DOMAIN task : Awaits(task[k], k) /\ (task[k].done => task[k].waits \subseteq satisfied)

\* The functions of hclib-async.h spawn one task.
AsyncInv ==
    /\ \A k \in DOMAIN task : task[k].fp = "call_and_put" => call.api = "async"
    /\ call.api = "async" => Undone \subseteq {2}

\* The boxes of the tasks keep the strides of the loop.
UnitInv == \A k \in DOMAIN task : \A d \in 1 .. call.dim : Box(k)[d].stride = 1

\* The inductive invariant.
IInv ==
    /\ Shape
    /\ Tiled => TaskInv /\ FlatInv /\ WaitInv /\ AsyncInv
    /\ Whole => UnitInv /\ Partition

\* A call that is well formed.
LEMMA CallFacts ==
    ASSUME Shape
    PROVE  /\ call.dim \in 1 .. 3 /\ call.mode \in {"recursive", "flat"} /\ call.domain \in BoxType(call.dim)
           /\ call.api \in {"c", "cpp", "async"} /\ call.nb \in BOOLEAN
           /\ call.fut \in Seq(Promises \cup {NULL}) /\ Len(call.fut) \in Nat
           /\ Deps(call.fut) \subseteq Promises
           /\ Chunked \in BoxType(call.dim)
           /\ \A d \in 1 .. call.dim : /\ Chunked[d].low = call.domain[d].low
                                      /\ Chunked[d].high = call.domain[d].high
                                      /\ Chunked[d].stride = call.domain[d].stride
<1>0. call \in Calls
  BY DEF Shape
<1>1. /\ call.dim \in 1 .. 3 /\ call.mode \in {"recursive", "flat"} /\ call.domain \in BoxType(call.dim)
  BY <1>0, ForasyncAssumption DEF LoopType, BoxType
<1>2. /\ call.api \in {"c", "cpp", "async"} /\ call.nb \in BOOLEAN
      /\ call.fut \in Seq(Promises \cup {NULL})
  BY <1>0, CallsAssumption
<1>3. Deps(call.fut) \subseteq Promises
  BY <1>2 DEF Deps, Range
<1> DEFINE loops == WithTiles(call.domain)
<1>4. ASSUME NEW d \in 1 .. call.dim
      PROVE  /\ call.domain[d] \in LoopType /\ loops[d] \in LoopType
             /\ loops[d].low = call.domain[d].low /\ loops[d].high = call.domain[d].high
             /\ loops[d].stride = call.domain[d].stride
  <2>1. call.domain[d] \in LoopType /\ DOMAIN call.domain = 1 .. call.dim
    BY <1>1 DEF BoxType
  <2>2. default_tile_size(call.domain[d], NWorkers) \in Int
    <3>1. PICK l, n, x : l = call.domain[d] /\ n = NWorkers /\ x = l.high - l.low + n - 1
      OBVIOUS
    <3>2. l \in LoopType /\ n \in Nat \ {0}
      BY ONLY <2>1, <3>1, ForasyncAssumption
    <3>3. l.high \in Int /\ l.low \in Int
      BY ONLY <3>2 DEF LoopType
    <3>4. x \in Int
      BY ONLY <3>1, <3>2, <3>3
    <3>5. x \div n \in Int /\ -((-x) \div n) \in Int
      BY ONLY <3>2, <3>4
    <3>6. default_tile_size(call.domain[d], NWorkers) = IF x >= 0 THEN x \div n ELSE -((-x) \div n)
      BY ONLY <3>1 DEF default_tile_size, Quot
    <3> QED BY ONLY <3>5, <3>6
  <2>3. CASE call.domain[d].tile = -1
    <3>1. loops[d] = [call.domain[d] EXCEPT !.tile = default_tile_size(call.domain[d], NWorkers)]
      BY <2>1, <2>3 DEF WithTiles
    <3> QED BY <2>1, <2>2, <3>1 DEF LoopType
  <2>4. CASE call.domain[d].tile # -1
    BY <2>1, <2>4 DEF WithTiles
  <2> QED BY <2>3, <2>4
<1>5. loops \in BoxType(call.dim)
  <2>1. loops = [d \in 1 .. call.dim |-> loops[d]]
    BY <1>1 DEF WithTiles, BoxType
  <2> HIDE DEF loops
  <2> QED BY <1>4, <2>1 DEF BoxType
<1>6. Chunked = loops \/ Chunked = call.domain
  BY DEF Chunked
<1> HIDE DEF loops
<1> QED BY <1>1, <1>2, <1>3, <1>4, <1>5, <1>6

\* A task is replaced and others are appended: n tasks became n + m.
Spawned(n, m, k, r, new) ==
    /\ n \in Nat /\ m \in Nat /\ DOMAIN task = 1 .. n /\ DOMAIN new = 1 .. m
    /\ Records' = Records /\ task' \in Seq(Records) /\ DOMAIN task' = 1 .. n + m /\ task' # << >>
    /\ task'[k] = r
    /\ \A j \in 1 .. n : j \in 1 .. n + m /\ (j # k => task'[j] = task[j])
    /\ \A i \in 1 .. m : n + i \in 1 .. n + m /\ n + i \notin 1 .. n /\ task'[n + i] = new[i]
    /\ \A j \in 1 .. n + m : j \in 1 .. n \/ \E i \in 1 .. m : j = n + i

\* A step that replaces task k and appends new does so.
LEMMA Spawning ==
    ASSUME task \in Seq(Records), NEW k \in DOMAIN task, NEW r \in Records, NEW new \in Seq(Records),
           call' = call, task' = [task EXCEPT ![k] = r] \o new
    PROVE  Spawned(Len(task), Len(new), k, r, new)
<1>0. PICK n, m : n = Len(task) /\ m = Len(new)
  OBVIOUS
<1>1. n \in Nat /\ m \in Nat /\ DOMAIN task = 1 .. n /\ DOMAIN new = 1 .. m
  BY <1>0
<1>2. PICK old : old = [task EXCEPT ![k] = r]
  OBVIOUS
<1> HIDE DEF Records
<1>3. old \in Seq(Records) /\ Len(old) = n /\ old[k] = r /\ \A j \in 1 .. n : j # k => old[j] = task[j]
  BY <1>1, <1>2
<1>4. /\ task' \in Seq(Records) /\ Len(task') = n + m
      /\ \A j \in 1 .. n + m : task'[j] = IF j <= n THEN old[j] ELSE new[j - n]
  BY <1>0, <1>1, <1>2, <1>3, ConcatProperties
<1>5. Records' = Records
  BY DEF Records
<1>6. /\ \A j \in 1 .. n : j \in 1 .. n + m /\ j <= n
      /\ \A i \in 1 .. m : n + i \in 1 .. n + m /\ n + i \notin 1 .. n /\ ~(n + i <= n) /\ (n + i) - n = i
  BY ONLY <1>1
<1>7. \A j \in 1 .. n + m : j \in 1 .. n \/ \E i \in 1 .. m : j = n + i
  <2> SUFFICES ASSUME NEW j \in 1 .. n + m, j \notin 1 .. n PROVE \E i \in 1 .. m : j = n + i
    OBVIOUS
  <2>1. j - n \in 1 .. m /\ j = n + (j - n)
    BY ONLY <1>1, j \in 1 .. n + m, j \notin 1 .. n
  <2> QED BY <2>1
<1>8. DOMAIN task' = 1 .. n + m /\ task' # << >>
  <2>1. k \in 1 .. n + m
    BY <1>1, <1>6
  <2>2. DOMAIN task' = 1 .. n + m
    BY <1>1, <1>4
  <2> QED BY <2>1, <2>2
<1>9. \A j \in 1 .. n : task'[j] = old[j]
  BY ONLY <1>4, <1>6, Zenon
<1>10. \A i \in 1 .. m : task'[n + i] = new[i]
  BY ONLY <1>4, <1>6
<1>11. Spawned(n, m, k, r, new)
  BY ONLY <1>1, <1>3, <1>4, <1>5, <1>6, <1>7, <1>8, <1>9, <1>10 DEF Spawned
<1> QED BY ONLY <1>0, <1>11

\* The counter of the scope.
LEMMA Counting ==
    ASSUME task \in Seq(Records), NEW k \in DOMAIN task, NEW r \in Records, NEW new \in Seq(Records),
           call' = call, task' = [task EXCEPT ![k] = r] \o new,
           ~task[k].done, \A i \in DOMAIN new : ~new[i].done
    PROVE  /\ Cardinality(Undone) \in Nat /\ Cardinality(Undone) > 0
           /\ Cardinality(Undone)' = Cardinality(Undone) + Len(new) - (IF r.done THEN 1 ELSE 0)
<1>1. PICK n, m : n = Len(task) /\ m = Len(new)
  OBVIOUS
<1>2. /\ n \in Nat /\ m \in Nat /\ DOMAIN task = 1 .. n /\ DOMAIN new = 1 .. m
      /\ DOMAIN task' = 1 .. n + m /\ task'[k] = r
      /\ \A j \in 1 .. n : j \in 1 .. n + m /\ (j # k => task'[j] = task[j])
      /\ \A i \in 1 .. m : n + i \in 1 .. n + m /\ n + i \notin 1 .. n /\ task'[n + i] = new[i]
      /\ \A j \in 1 .. n + m : j \in 1 .. n \/ \E i \in 1 .. m : j = n + i
  <2>1. Spawned(Len(task), Len(new), k, r, new)
    BY Spawning, Zenon
  <2>2. Spawned(n, m, k, r, new)
    BY ONLY <1>1, <2>1
  <2> QED BY ONLY <2>2 DEF Spawned
<1> DEFINE S == n + 1 .. n + m
           T == IF r.done THEN Undone \ {k} ELSE Undone
<1>3. \A j : j \in S <=> \E i \in 1 .. m : j = n + i
  <2>1. ASSUME NEW j \in S PROVE \E i \in 1 .. m : j = n + i
    <3>0. n \in Nat /\ m \in Nat /\ j \in n + 1 .. n + m
      BY ONLY <1>2, j \in S
    <3>1. j - n \in 1 .. m /\ j = n + (j - n)
      BY ONLY <3>0
    <3> QED BY <3>1
  <2>2. ASSUME NEW i \in 1 .. m PROVE n + i \in S
    BY ONLY <1>2, i \in 1 .. m
  <2> QED BY <2>1, <2>2
<1>4. Undone' = T \cup S
  <2>1. ASSUME NEW j \in 1 .. n PROVE j \in Undone' <=> j \in T \cup S
    <3>1. j \in 1 .. n + m /\ j \notin S
      BY ONLY <1>2, j \in 1 .. n
    <3>2. CASE j = k
      BY <1>2, <3>1, <3>2 DEF Undone
    <3>3. CASE j # k
      BY <1>2, <3>1, <3>3 DEF Undone
    <3> QED BY <3>2, <3>3
  <2>2. ASSUME NEW i \in 1 .. m PROVE n + i \in Undone' /\ n + i \in S
    BY <1>2, <1>3 DEF Undone
  <2>3. Undone' \subseteq 1 .. n + m /\ T \subseteq 1 .. n
    BY <1>2 DEF Undone
  <2> HIDE DEF S, T
  <2>4. ASSUME NEW j \in Undone' PROVE j \in T \cup S
    <3>1. CASE j \in 1 .. n
      BY ONLY <2>1, <3>1, j \in Undone'
    <3>2. ASSUME NEW i \in 1 .. m, j = n + i PROVE j \in T \cup S
      BY ONLY <2>2, <3>2
    <3> QED BY ONLY <1>2, <2>3, <3>1, <3>2, j \in Undone'
  <2>5. ASSUME NEW j \in T \cup S PROVE j \in Undone'
    <3>1. CASE j \in 1 .. n
      BY ONLY <2>1, <3>1, j \in T \cup S
    <3>2. ASSUME NEW i \in 1 .. m, j = n + i PROVE j \in Undone'
      BY ONLY <2>2, <3>2
    <3> QED BY ONLY <1>3, <2>3, <3>1, <3>2, j \in T \cup S
  <2> QED BY <2>4, <2>5
<1>5. IsFiniteSet(Undone) /\ IsFiniteSet(T) /\ IsFiniteSet(S) /\ Cardinality(S) = m
  <2>1. IsFiniteSet(1 .. n)
    BY <1>2, FS_Interval
  <2>2. IsFiniteSet(Undone)
    BY <1>2, <2>1, FS_Subset DEF Undone
  <2>3. T \subseteq Undone
    OBVIOUS
  <2>4. IsFiniteSet(S) /\ Cardinality(S) = IF n + 1 > n + m THEN 0 ELSE n + m - (n + 1) + 1
    <3>1. n + 1 \in Int /\ n + m \in Int
      BY <1>2
    <3>2. PICK a, b : a = n + 1 /\ b = n + m
      OBVIOUS
    <3>3. IsFiniteSet(a .. b) /\ Cardinality(a .. b) = IF a > b THEN 0 ELSE b - a + 1
      BY <3>1, <3>2, FS_Interval
    <3>4. S = a .. b
      BY <3>2
    <3>5. a \in Int /\ b \in Int
      BY <3>1, <3>2
    <3> HIDE DEF S
    <3>6. Cardinality(S) = IF a > b THEN 0 ELSE b - a + 1
      BY ONLY <3>3, <3>4, Zenon
    <3> QED BY ONLY <1>2, <3>2, <3>3, <3>4, <3>5, <3>6
  <2>5. Cardinality(S) = m
    BY ONLY <1>2, <2>4
  <2> QED BY <2>2, <2>3, <2>4, <2>5, FS_Subset
<1>6. Cardinality(T \cup S) = Cardinality(T) + Cardinality(S) - Cardinality(T \cap S)
  BY <1>5, FS_Union
<1>7. T \cap S = {}
  <2>1. T \subseteq 1 .. n
    BY <1>2 DEF Undone
  <2> QED BY ONLY <1>2, <2>1
<1>8. k \in Undone
  BY DEF Undone
<1>9. Cardinality(T) = Cardinality(Undone) - (IF r.done THEN 1 ELSE 0)
  <2>1. Cardinality(Undone \ {k}) = Cardinality(Undone) - 1
    BY <1>5, <1>8, FS_RemoveElement
  <2>2. Cardinality(Undone) \in Nat
    BY <1>5, FS_CardinalityType
  <2> QED BY <2>1, <2>2
<1>10. Cardinality(Undone) \in Nat /\ Cardinality(T) \in Nat /\ Cardinality({}) = 0 /\ Cardinality(Undone) # 0
  BY <1>5, <1>8, FS_CardinalityType, FS_EmptySet
<1>11. Cardinality(Undone)' = Cardinality(T \cup S)
  BY <1>4
<1> HIDE DEF S, T
<1>12. Cardinality(T \cup S) = Cardinality(T) + m
  <2>1. Cardinality(T \cap S) = 0
    BY ONLY <1>7, <1>10, Zenon
  <2> QED BY ONLY <1>2, <1>5, <1>6, <1>10, <2>1
<1>13. PICK u, b : u = Cardinality(Undone) /\ b = IF r.done THEN 1 ELSE 0
  OBVIOUS
<1>14. Cardinality(Undone)' = u - b + m /\ u \in Nat /\ b \in Int /\ u # 0
  BY ONLY <1>9, <1>10, <1>11, <1>12, <1>13
<1>15. Cardinality(Undone)' = u + m - b /\ u > 0
  BY ONLY <1>2, <1>14
<1> QED BY ONLY <1>1, <1>10, <1>13, <1>15

\* The boxes of a sequence of tasks.
Loops(new) == [i \in DOMAIN new |-> new[i].loop]

\* The iterations of a box that is cut into boxes stay in the hands of one task.
LEMMA PartitionStep ==
    ASSUME task \in Seq(Records), NEW k \in DOMAIN task, NEW r \in Records, NEW new \in Seq(Records),
           call' = call, domain' = domain, task' = [task EXCEPT ![k] = r] \o new, Partition,
           \A p \in Points : Parted(p, Box(k), r.loop, Loops(new))
    PROVE  Partition'
<1>1. PICK n, m : n = Len(task) /\ m = Len(new)
  OBVIOUS
<1>2. /\ n \in Nat /\ m \in Nat /\ DOMAIN task = 1 .. n /\ DOMAIN new = 1 .. m
      /\ DOMAIN task' = 1 .. n + m /\ task'[k] = r
      /\ \A j \in 1 .. n : j \in 1 .. n + m /\ (j # k => task'[j] = task[j])
      /\ \A i \in 1 .. m : n + i \in 1 .. n + m /\ n + i \notin 1 .. n /\ task'[n + i] = new[i]
      /\ \A j \in 1 .. n + m : j \in 1 .. n \/ \E i \in 1 .. m : j = n + i
  <2>1. Spawned(Len(task), Len(new), k, r, new)
    BY Spawning, Zenon
  <2>2. Spawned(n, m, k, r, new)
    BY ONLY <1>1, <2>1
  <2> QED BY ONLY <2>2 DEF Spawned
<1>3. Points' = Points
  BY DEF Points
<1> SUFFICES ASSUME NEW p \in Points PROVE OneHolder(p)'
  BY <1>3 DEF Partition
<1> DEFINE In(j) == InBox(p, Box(j))
           Now(j) == InBox(p, task'[j].loop)
           New(i) == InBox(p, new[i].loop)
<1>4. /\ InBox(p, domain) => \E h \in 1 .. n : \A j \in 1 .. n : In(j) <=> j = h
      /\ ~InBox(p, domain) => \A h \in 1 .. n : ~In(h)
  <2>1. OneHolder(p)
    BY <1>2 DEF Partition
  <2> QED BY ONLY <1>2, <2>1 DEF OneHolder
<1>5. /\ In(k) <=> (InBox(p, r.loop) \/ \E i \in 1 .. m : New(i))
      /\ \A i \in 1 .. m : New(i) => ~InBox(p, r.loop) /\ \A j \in 1 .. m : New(j) => j = i
  <2>1. Parted(p, Box(k), r.loop, Loops(new))
    OBVIOUS
  <2>2. DOMAIN Loops(new) = 1 .. m /\ \A i \in 1 .. m : Loops(new)[i] = new[i].loop
    BY <1>2 DEF Loops
  <2> QED BY ONLY <2>1, <2>2 DEF Parted
<1>6. /\ Now(k) <=> InBox(p, r.loop)
      /\ \A j \in 1 .. n : j # k => (Now(j) <=> In(j))
      /\ \A i \in 1 .. m : Now(n + i) <=> New(i)
  BY ONLY <1>2 DEF Box
<1>7. k \in 1 .. n
  BY <1>2
<1> HIDE DEF In, Now, New
<1>8. ASSUME ~InBox(p, domain), NEW j \in 1 .. n + m PROVE ~Now(j)
  <2>1. \A i \in 1 .. n : ~In(i)
    BY ONLY <1>4, <1>8
  <2>2. ~Now(k) /\ \A i \in 1 .. m : ~New(i)
    BY ONLY <1>5, <1>6, <1>7, <2>1
  <2>3. CASE j \in 1 .. n
    BY ONLY <1>6, <2>1, <2>2, <2>3
  <2>4. CASE \E i \in 1 .. m : j = n + i
    BY ONLY <1>6, <2>2, <2>4
  <2> QED BY ONLY <1>2, <1>8, <2>3, <2>4
<1>9. ASSUME InBox(p, domain)
      PROVE  \E h \in 1 .. n + m : \A j \in 1 .. n + m : Now(j) <=> j = h
  <2>1. PICK h \in 1 .. n : \A j \in 1 .. n : In(j) <=> j = h
    BY ONLY <1>4, <1>9
  <2>2. CASE \E i \in 1 .. m : New(i)
    <3>1. PICK i \in 1 .. m : New(i)
      BY ONLY <2>2
    <3>2. h = k /\ ~Now(k) /\ \A j \in 1 .. m : New(j) <=> j = i
      BY ONLY <1>5, <1>6, <1>7, <2>1, <3>1
    <3>3. \A j \in 1 .. n : ~Now(j)
      BY ONLY <1>6, <2>1, <3>2
    <3>4. ASSUME NEW j \in 1 .. n + m PROVE Now(j) <=> j = n + i
      <4>1. CASE j \in 1 .. n
        BY ONLY <1>2, <3>3, <4>1, i \in 1 .. m
      <4>2. ASSUME NEW g \in 1 .. m, j = n + g PROVE Now(j) <=> j = n + i
        <5>1. n + g = n + i <=> g = i
          BY ONLY <1>2, g \in 1 .. m, i \in 1 .. m
        <5>2. Now(n + g) <=> New(g)
          BY ONLY <1>6, g \in 1 .. m
        <5> QED BY ONLY <3>2, <4>2, <5>1, <5>2, g \in 1 .. m
      <4> QED BY ONLY <1>2, <4>1, <4>2, j \in 1 .. n + m
    <3>5. n + i \in 1 .. n + m
      BY ONLY <1>2, i \in 1 .. m
    <3> QED BY ONLY <3>4, <3>5
  <2>3. CASE ~\E i \in 1 .. m : New(i)
    <3>1. Now(k) <=> In(k)
      BY ONLY <1>5, <1>6, <2>3
    <3>2. \A j \in 1 .. n : Now(j) <=> j = h
      BY ONLY <1>6, <2>1, <3>1
    <3>3. ASSUME NEW j \in 1 .. n + m PROVE Now(j) <=> j = h
      <4>1. CASE j \in 1 .. n
        BY ONLY <3>2, <4>1
      <4>2. CASE \E i \in 1 .. m : j = n + i
        BY ONLY <1>2, <1>6, <2>1, <2>3, <4>2, h \in 1 .. n
      <4> QED BY ONLY <1>2, <4>1, <4>2, j \in 1 .. n + m
    <3>4. h \in 1 .. n + m
      BY ONLY <1>2, h \in 1 .. n
    <3> QED BY ONLY <3>3, <3>4
  <2> QED BY <2>2, <2>3
<1>10. DOMAIN task' = 1 .. n + m /\ domain' = domain
  BY <1>2
<1>11. /\ InBox(p, domain) => \E h \in DOMAIN task' : \A j \in DOMAIN task' : Now(j) <=> j = h
       /\ ~InBox(p, domain) => \A h \in DOMAIN task' : ~Now(h)
  BY ONLY <1>8, <1>9, <1>10
<1> QED BY ONLY <1>10, <1>11, Zenon DEF Now, OneHolder, Box

-----------------------------------------------------------------------------
(* A step of a task *)

\* A task that may take a step.
Ready(k) == k \in DOMAIN task /\ ~task[k].done /\ task[k].waits \subseteq satisfied

\* What a task may keep and hand on: box is what it keeps, or what it ran
\* itself if it returns, new are the tasks it spawns.
Handed(k, done, box, new) ==
    /\ box \in BoxType(call.dim) /\ new \in Seq(Records)
    /\ \A i \in DOMAIN new : ~new[i].done /\ new[i].fp \in {"runner", "recursive"} /\ Awaits(new[i], 2)
    /\ task[k].fp = "flat" => IF done THEN Empty(box) ELSE Rest(box)
    /\ call.api = "async" => done /\ new = << >>
    /\ Whole => /\ \A d \in 1 .. call.dim : box[d].stride = 1
                /\ \A i \in DOMAIN new : \A d \in 1 .. call.dim : new[i].loop[d].stride = 1
                /\ \A p \in Points : Parted(p, Box(k), box, Loops(new))

\* What the invariant says of such a task.
LEMMA ReadyFacts ==
    ASSUME IInv, Tiled, NEW k, Ready(k)
    PROVE  /\ Shape /\ TaskInv /\ FlatInv /\ WaitInv /\ AsyncInv
           /\ task \in Seq(Records) /\ task # << >> /\ task[k] \in Records /\ Box(k) \in BoxType(call.dim)
           /\ domain = Chunked /\ counter = Cardinality(Undone) /\ (event <=> counter = 0)
           /\ Whole => UnitInv /\ Partition /\ \A d \in 1 .. call.dim : Box(k)[d].stride = 1
           /\ task[k].fp = "flat" => call.mode = "flat" /\ Rest(Box(k))
           /\ Points \subseteq [1 .. call.dim -> Int]
<1>1. Shape /\ TaskInv /\ FlatInv /\ WaitInv /\ AsyncInv /\ (Whole => UnitInv /\ Partition)
  BY DEF IInv
<1>2. k \in DOMAIN task /\ ~task[k].done
  BY DEF Ready
<1>3. task \in Seq(Records) /\ task # << >>
  <2>1. task \in Seq(Records)
    BY ONLY <1>1 DEF TaskInv
  <2> HIDE DEF Records
  <2>2. task # << >>
    BY ONLY <1>2
  <2> QED BY ONLY <2>1, <2>2
<1>4. task[k] \in Records
  BY ONLY <1>2, <1>3
<1>5. Box(k) \in BoxType(call.dim)
  BY ONLY <1>4 DEF Records, Box
<1>6. domain = Chunked /\ counter = Cardinality(Undone) /\ (event <=> counter = 0)
  BY ONLY <1>1, <1>3 DEF TaskInv
<1>7. Whole => \A d \in 1 .. call.dim : Box(k)[d].stride = 1
  BY ONLY <1>1, <1>2 DEF UnitInv
<1>8. task[k].fp = "flat" => call.mode = "flat" /\ Rest(Box(k))
  BY ONLY <1>1, <1>2 DEF FlatInv
<1>9. Points \subseteq [1 .. call.dim -> Int]
  <2>1. Coords \subseteq Int
    BY ForasyncAssumption
  <2> QED BY ONLY <2>1 DEF Points
<1> QED BY ONLY <1>1, <1>3, <1>4, <1>5, <1>6, <1>7, <1>8, <1>9

\* The definitions that depend on the call alone.
LEMMA SameCall ==
    ASSUME call' = call
    PROVE  /\ Records' = Records /\ Chunked' = Chunked /\ Tiled' = Tiled /\ Aligned' = Aligned /\ Whole' = Whole
           /\ Points' = Points
           /\ Waited' = Waited
           /\ \A t, j : Awaits(t, j)' = Awaits(t, j)
           /\ domain' = domain => \A box : Rest(box)' = Rest(box)
<1>1. Records' = Records
  BY DEF Records
<1>2. Chunked' = Chunked
  BY DEF Chunked
<1>3. Tiled' = Tiled /\ Aligned' = Aligned
  BY <1>2 DEF Tiled, Aligned
<1>4. Whole' = Whole
  BY <1>2, <1>3 DEF Whole
<1>5. Points' = Points
  BY DEF Points
<1>6. Waited' = Waited /\ \A t, j : Awaits(t, j)' = Awaits(t, j)
  BY DEF Awaits, Waited
<1>7. domain' = domain => \A box : Rest(box)' = Rest(box)
  BY <1>3 DEF Rest
<1> QED BY ONLY <1>1, <1>2, <1>3, <1>4, <1>5, <1>6, <1>7

\* A step of a task keeps the invariant.
LEMMA StepKeeps ==
    ASSUME IInv, Tiled, NEW k, Ready(k), NEW r \in Records, NEW new, Handed(k, r.done, r.loop, new),
           r.fp = task[k].fp, r.waits = task[k].waits,
           UNCHANGED <<call, domain, satisfied, aborted>>,
           task' = [task EXCEPT ![k] = r] \o new,
           counter' = counter + Len(new) - (IF r.done THEN 1 ELSE 0),
           event' = IF r.done THEN counter' = 0 ELSE event
    PROVE  IInv'
<1>1. /\ Shape /\ FlatInv /\ WaitInv /\ AsyncInv
      /\ task \in Seq(Records) /\ task[k] \in Records
      /\ domain = Chunked /\ counter = Cardinality(Undone) /\ (event <=> counter = 0)
      /\ Whole => UnitInv /\ Partition
  BY ReadyFacts, Zenon
<1>2. k \in DOMAIN task /\ ~task[k].done /\ task[k].waits \subseteq satisfied
  BY DEF Ready
<1>3. /\ new \in Seq(Records) /\ r.loop \in BoxType(call.dim)
      /\ \A i \in DOMAIN new : ~new[i].done /\ new[i].fp \in {"runner", "recursive"} /\ Awaits(new[i], 2)
      /\ task[k].fp = "flat" => IF r.done THEN Empty(r.loop) ELSE Rest(r.loop)
      /\ call.api = "async" => r.done /\ new = << >>
      /\ Whole => /\ \A d \in 1 .. call.dim : r.loop[d].stride = 1
                  /\ \A i \in DOMAIN new : \A d \in 1 .. call.dim : new[i].loop[d].stride = 1
                  /\ \A p \in Points : Parted(p, Box(k), r.loop, Loops(new))
  BY DEF Handed
<1>4. call' = call /\ domain' = domain /\ satisfied' = satisfied /\ aborted' = aborted
  OBVIOUS
<1>5. Spawned(Len(task), Len(new), k, r, new)
  BY ONLY <1>1, <1>2, <1>3, <1>4, r \in Records, task' = [task EXCEPT ![k] = r] \o new, Spawning, Zenon
<1>6. PICK n, m : n = Len(task) /\ m = Len(new)
  OBVIOUS
<1>7. /\ n \in Nat /\ m \in Nat /\ DOMAIN task = 1 .. n /\ DOMAIN new = 1 .. m
      /\ task' \in Seq(Records) /\ DOMAIN task' = 1 .. n + m /\ task' # << >>
      /\ task'[k] = r
      /\ \A j \in 1 .. n : j \in 1 .. n + m /\ (j # k => task'[j] = task[j])
      /\ \A i \in 1 .. m : n + i \in 1 .. n + m /\ n + i \notin 1 .. n /\ task'[n + i] = new[i]
      /\ \A j \in 1 .. n + m : j \in 1 .. n \/ \E i \in 1 .. m : j = n + i
  <2>1. Spawned(n, m, k, r, new)
    BY ONLY <1>5, <1>6
  <2> QED BY ONLY <2>1 DEF Spawned
<1>8. /\ Records' = Records /\ Chunked' = Chunked /\ Tiled' = Tiled /\ Aligned' = Aligned /\ Whole' = Whole
      /\ Points' = Points
      /\ \A t, j : Awaits(t, j)' = Awaits(t, j)
      /\ \A box : Rest(box)' = Rest(box)
  BY <1>4, SameCall
<1>9. /\ Cardinality(Undone) \in Nat /\ Cardinality(Undone) > 0
      /\ Cardinality(Undone)' = Cardinality(Undone) + Len(new) - (IF r.done THEN 1 ELSE 0)
  <2>1. \A i \in DOMAIN new : ~new[i].done
    BY ONLY <1>3
  <2> QED BY ONLY <1>1, <1>2, <1>3, <1>4, <2>1, r \in Records, task' = [task EXCEPT ![k] = r] \o new, Counting, Zenon
<1>10. counter' = Cardinality(Undone)'
  BY ONLY <1>1, <1>9, counter' = counter + Len(new) - (IF r.done THEN 1 ELSE 0), Zenon
<1>11. event' \in BOOLEAN /\ (event' <=> counter' = 0)
  <2>1. CASE r.done
    BY ONLY <2>1, event' = IF r.done THEN counter' = 0 ELSE event
  <2>2. CASE ~r.done
    <3>1. PICK c : c = counter
      OBVIOUS
    <3>2. counter' = c + m /\ c \in Nat /\ c > 0 /\ m \in Nat
      BY ONLY <1>1, <1>6, <1>7, <1>9, <2>2, <3>1, counter' = counter + Len(new) - (IF r.done THEN 1 ELSE 0)
    <3>3. counter' # 0 /\ c # 0
      BY ONLY <3>2
    <3>4. event \in BOOLEAN
      BY ONLY <1>1 DEF Shape
    <3> QED BY ONLY <1>1, <2>2, <3>1, <3>3, <3>4, event' = IF r.done THEN counter' = 0 ELSE event
  <2> QED BY ONLY <2>1, <2>2
<1>12. Shape'
  BY ONLY <1>1, <1>4, <1>11 DEF Shape
<1>13. TaskInv'
  <2>1. task' \in Seq(Records')
    BY ONLY <1>7, <1>8
  <2>2. domain' = Chunked'
    BY ONLY <1>1, <1>4, <1>8
  <2> HIDE DEF Records
  <2> QED BY ONLY <1>7, <1>10, <1>11, <2>1, <2>2, Zenon DEF TaskInv
<1>14. ASSUME NEW j \in DOMAIN task'
       PROVE  \/ j \in DOMAIN task /\ j # k /\ task'[j] = task[j]
              \/ j = k /\ task'[j] = r
              \/ j \notin DOMAIN task /\ \E i \in DOMAIN new : task'[j] = new[i]
  <2>1. CASE j \in 1 .. n
    BY ONLY <1>7, <2>1
  <2>2. ASSUME NEW i \in 1 .. m, j = n + i PROVE j \notin DOMAIN task /\ task'[j] = new[i]
    BY ONLY <1>7, <2>2
  <2> QED BY ONLY <1>7, <2>1, <2>2, j \in DOMAIN task'
<1>15. FlatInv'
  <2> SUFFICES ASSUME NEW j \in DOMAIN task'
               PROVE  /\ task'[j].fp = "flat" => call.mode = "flat" /\ (~task'[j].done => Rest(task'[j].loop))
                      /\ task'[j].fp \in {"flat", "caller"} /\ task'[j].done => Empty(task'[j].loop)
                      /\ task'[j].fp = "caller" => task'[j].done
    <3>1. ASSUME NEW j \in DOMAIN task'
          PROVE  /\ task'[j].fp = "flat" => call'.mode = "flat" /\ (~task'[j].done => Rest(task[j].loop)')
                 /\ task'[j].fp \in {"flat", "caller"} /\ task'[j].done => Empty(task[j].loop)'
                 /\ task'[j].fp = "caller" => task'[j].done
      <4>1. /\ task'[j].fp = "flat" => call.mode = "flat" /\ (~task'[j].done => Rest(task'[j].loop))
            /\ task'[j].fp \in {"flat", "caller"} /\ task'[j].done => Empty(task'[j].loop)
            /\ task'[j].fp = "caller" => task'[j].done
        BY <3>1
      <4>2. Empty(task[j].loop)' <=> Empty(task'[j].loop)
        BY ONLY DEF Empty
      <4>3. Rest(task[j].loop)' <=> Rest(task'[j].loop)
        BY ONLY <1>4, <1>8 DEF Rest
      <4> QED BY ONLY <1>4, <4>1, <4>2, <4>3
    <3> QED BY ONLY <3>1 DEF FlatInv, Box
  <2>0. \A i \in DOMAIN task :
           /\ task[i].fp = "flat" => call.mode = "flat" /\ (~task[i].done => Rest(task[i].loop))
           /\ task[i].fp \in {"flat", "caller"} /\ task[i].done => Empty(task[i].loop)
           /\ task[i].fp = "caller" => task[i].done
    BY ONLY <1>1 DEF FlatInv, Box
  <2>1. CASE j \in DOMAIN task /\ j # k /\ task'[j] = task[j]
    BY ONLY <2>0, <2>1
  <2>2. CASE j = k /\ task'[j] = r
    BY ONLY <1>2, <1>3, <2>0, <2>2, r.fp = task[k].fp
  <2>3. ASSUME NEW i \in DOMAIN new, task'[j] = new[i]
        PROVE  task'[j].fp \notin {"flat", "caller"}
    BY ONLY <1>3, <2>3
  <2> QED BY ONLY <1>14, <2>1, <2>2, <2>3, j \in DOMAIN task'
<1>16. WaitInv'
  <2> SUFFICES ASSUME NEW j \in DOMAIN task'
               PROVE  Awaits(task'[j], j) /\ (task'[j].done => task'[j].waits \subseteq satisfied)
    BY <1>4, SameCall DEF WaitInv, Awaits
  <2>0. \A i \in DOMAIN task : Awaits(task[i], i) /\ (task[i].done => task[i].waits \subseteq satisfied)
    BY ONLY <1>1 DEF WaitInv
  <2>1. CASE j \in DOMAIN task /\ j # k /\ task'[j] = task[j]
    BY ONLY <2>0, <2>1
  <2>2. CASE j = k /\ task'[j] = r
    BY ONLY <1>2, <2>0, <2>2, r.fp = task[k].fp, r.waits = task[k].waits DEF Awaits
  <2>3. ASSUME NEW i \in DOMAIN new, task'[j] = new[i]
        PROVE  Awaits(task'[j], j) /\ ~task'[j].done
    <3>1. Awaits(new[i], 2) /\ ~new[i].done
      BY ONLY <1>3, i \in DOMAIN new
    <3>2. 2 # 1
      OBVIOUS
    <3> QED BY ONLY <2>3, <3>1, <3>2, Zenon DEF Awaits
  <2> QED BY ONLY <1>14, <2>1, <2>2, <2>3, j \in DOMAIN task'
<1>17. AsyncInv'
  <2>1. ASSUME NEW j \in DOMAIN task', task'[j].fp = "call_and_put" PROVE call.api = "async"
    <3>0. \A i \in DOMAIN task : task[i].fp = "call_and_put" => call.api = "async"
      BY ONLY <1>1 DEF AsyncInv
    <3>1. CASE j \in DOMAIN task /\ j # k /\ task'[j] = task[j]
      BY ONLY <2>1, <3>0, <3>1
    <3>2. CASE j = k /\ task'[j] = r
      BY ONLY <1>2, <2>1, <3>0, <3>2, r.fp = task[k].fp
    <3>3. ASSUME NEW i \in DOMAIN new, task'[j] = new[i] PROVE FALSE
      BY ONLY <1>3, <2>1, <3>3
    <3> QED BY ONLY <1>14, <3>1, <3>2, <3>3, j \in DOMAIN task'
  <2>2. ASSUME call.api = "async" PROVE Undone' \subseteq {2}
    <3> SUFFICES ASSUME NEW j \in DOMAIN task', ~task'[j].done PROVE j \in {2}
      BY DEF Undone
    <3>0. \A i \in DOMAIN task : ~task[i].done => i \in {2}
      BY ONLY <1>1, <2>2 DEF AsyncInv, Undone
    <3>1. CASE j \in DOMAIN task /\ j # k /\ task'[j] = task[j]
      BY ONLY <3>0, <3>1, ~task'[j].done
    <3>2. CASE j = k /\ task'[j] = r
      BY ONLY <1>3, <2>2, <3>2, ~task'[j].done
    <3>3. ASSUME NEW i \in DOMAIN new PROVE FALSE
      BY ONLY <1>3, <2>2, i \in DOMAIN new
    <3> QED BY ONLY <1>14, <3>1, <3>2, <3>3, j \in DOMAIN task'
  <2> QED BY ONLY <1>4, <2>1, <2>2 DEF AsyncInv
<1>18. ASSUME Whole PROVE UnitInv' /\ Partition'
  <2>1. UnitInv'
    <3> SUFFICES ASSUME NEW j \in DOMAIN task', NEW d \in 1 .. call.dim PROVE task'[j].loop[d].stride = 1
      BY <1>4 DEF UnitInv, Box
    <3>1. CASE j \in DOMAIN task /\ j # k /\ task'[j] = task[j]
      BY ONLY <1>1, <1>18, <3>1, d \in 1 .. call.dim DEF UnitInv, Box
    <3>2. CASE j = k /\ task'[j] = r
      BY ONLY <1>3, <1>18, <3>2, d \in 1 .. call.dim
    <3>3. ASSUME NEW i \in DOMAIN new, task'[j] = new[i] PROVE task'[j].loop[d].stride = 1
      BY ONLY <1>3, <1>18, <3>3, d \in 1 .. call.dim
    <3> QED BY ONLY <1>14, <3>1, <3>2, <3>3, j \in DOMAIN task'
  <2>2. Partition'
    <3>1. Partition /\ \A p \in Points : Parted(p, Box(k), r.loop, Loops(new))
      BY ONLY <1>1, <1>3, <1>18
    <3> QED BY ONLY <1>1, <1>2, <1>3, <1>4, <3>1, r \in Records, task' = [task EXCEPT ![k] = r] \o new,
               PartitionStep, Zenon
  <2> QED BY ONLY <2>1, <2>2
<1>19. Whole' => Whole
  BY ONLY <1>8
<1> QED BY ONLY <1>12, <1>13, <1>15, <1>16, <1>17, <1>18, <1>19, Zenon DEF IInv

\* A task that spawns what it may hand on keeps the invariant (Spawn) ...
LEMMA SpawnKeeps ==
    ASSUME IInv, Tiled, NEW k, Ready(k), NEW box, NEW new, Handed(k, FALSE, box, new), Spawn(k, box, new)
    PROVE  IInv'
<1>1. task \in Seq(Records) /\ task[k] \in Records /\ ~task[k].done /\ k \in DOMAIN task
  BY ReadyFacts, Zenon DEF Ready
<1>2. box \in BoxType(call.dim)
  BY DEF Handed
<1>3. PICK r : r = [task[k] EXCEPT !.loop = box]
  OBVIOUS
<1>4. /\ r \in Records /\ r.done = FALSE /\ r.loop = box /\ r.fp = task[k].fp /\ r.waits = task[k].waits
  BY ONLY <1>1, <1>2, <1>3 DEF Records
<1>5. Handed(k, r.done, r.loop, new)
  BY ONLY <1>4, Handed(k, FALSE, box, new)
<1>6. /\ UNCHANGED <<call, domain, satisfied, aborted>>
      /\ task' = [task EXCEPT ![k] = r] \o new
      /\ counter' = counter + Len(new) /\ event' = event
  BY <1>3 DEF Spawn
<1>7. /\ counter' = counter + Len(new) - (IF r.done THEN 1 ELSE 0)
      /\ event' = IF r.done THEN counter' = 0 ELSE event
  <2>1. counter \in Int /\ Len(new) \in Int
    <3>1. new \in Seq(Records) /\ \A i \in DOMAIN new : ~new[i].done
      BY DEF Handed
    <3>2. call' = call /\ counter = Cardinality(Undone)
      BY <1>6, ReadyFacts
    <3>3. Cardinality(Undone) \in Nat
      BY ONLY <1>1, <1>4, <1>6, <3>1, <3>2, Counting, Zenon
    <3> HIDE DEF Records
    <3>4. Len(new) \in Nat
      BY ONLY <3>1
    <3> QED BY ONLY <3>2, <3>3, <3>4
  <2> QED BY ONLY <1>4, <1>6, <2>1
<1> QED BY ONLY IInv, Tiled, Ready(k), <1>4, <1>5, <1>6, <1>7, StepKeeps, Zenon

\* ... and so does one that returns (Return).
LEMMA ReturnKeeps ==
    ASSUME IInv, Tiled, NEW k, Ready(k), NEW box, NEW new, Handed(k, TRUE, box, new), Return(k, box, new)
    PROVE  IInv'
<1>1. task \in Seq(Records) /\ task[k] \in Records /\ k \in DOMAIN task
  BY ReadyFacts, Zenon DEF Ready
<1>2. box \in BoxType(call.dim)
  BY DEF Handed
<1>3. PICK r : r = [task[k] EXCEPT !.done = TRUE, !.loop = box]
  OBVIOUS
<1>4. /\ r \in Records /\ r.done = TRUE /\ r.loop = box /\ r.fp = task[k].fp /\ r.waits = task[k].waits
  BY ONLY <1>1, <1>2, <1>3 DEF Records
<1>5. Handed(k, r.done, r.loop, new)
  BY ONLY <1>4, Handed(k, TRUE, box, new)
<1>6. /\ UNCHANGED <<call, domain, satisfied, aborted>>
      /\ task' = [task EXCEPT ![k] = r] \o new
      /\ counter' = counter + Len(new) - 1 /\ event' = (counter' = 0)
  BY <1>3 DEF Return
<1>7. /\ counter' = counter + Len(new) - (IF r.done THEN 1 ELSE 0)
      /\ event' = IF r.done THEN counter' = 0 ELSE event
  BY ONLY <1>4, <1>6
<1> QED BY ONLY IInv, Tiled, Ready(k), <1>4, <1>5, <1>6, <1>7, StepKeeps, Zenon

\* A task that returns without handing anything on.
LEMMA LastHanded ==
    ASSUME IInv, Tiled, NEW k, Ready(k), task[k].fp = "flat" => Empty(Box(k))
    PROVE  Handed(k, TRUE, Box(k), << >>)
<1>1. Box(k) \in BoxType(call.dim) /\ (Whole => \A d \in 1 .. call.dim : Box(k)[d].stride = 1)
  BY ReadyFacts
<1>2. << >> \in Seq(Records) /\ DOMAIN << >> = {}
  OBVIOUS
<1>3. Loops(<< >>) = << >>
  BY <1>2 DEF Loops
<1>4. \A p \in Points : Parted(p, Box(k), Box(k), << >>)
  BY ONLY <1>2 DEF Parted
<1> HIDE DEF Records
<1> QED BY <1>1, <1>2, <1>3, <1>4 DEF Handed

\* A task that keeps the lower half of a loop.
LEMMA HalfHanded ==
    ASSUME IInv, Tiled, NEW k, Ready(k), task[k].fp = "recursive", call.api # "async",
           NEW d \in 1 .. call.dim, NEW t \in Records, ~t.done, t.fp = "recursive", Awaits(t, 2),
           t.loop = UpperHalf(Box(k), d)
    PROVE  Handed(k, FALSE, LowerHalf(Box(k), d), <<t>>)
<1>1. /\ Box(k) \in BoxType(call.dim) /\ (Whole => \A e \in 1 .. call.dim : Box(k)[e].stride = 1)
      /\ Points \subseteq [1 .. call.dim -> Int]
      /\ Shape
  BY ReadyFacts
<1>2. call.dim \in 1 .. 3
  BY <1>1, CallFacts
<1>3. PICK lower, upper : lower = LowerHalf(Box(k), d) /\ upper = UpperHalf(Box(k), d)
  OBVIOUS
<1>4. /\ lower \in BoxType(call.dim)
      /\ \A e \in 1 .. call.dim : lower[e].stride = Box(k)[e].stride /\ upper[e].stride = Box(k)[e].stride
  BY ONLY <1>1, <1>2, <1>3, d \in 1 .. call.dim, HalvesShape
<1>5. PICK new : new = <<t>>
  OBVIOUS
<1>6. new \in Seq(Records) /\ DOMAIN new = {1} /\ new[1] = t
  <2> HIDE DEF Records
  <2> QED BY ONLY <1>5, t \in Records
<1>7. DOMAIN Loops(new) = {1} /\ Loops(new)[1] = upper
  BY ONLY <1>3, <1>6, t.loop = UpperHalf(Box(k), d) DEF Loops
<1>8. ASSUME Whole, NEW p \in Points PROVE Parted(p, Box(k), lower, Loops(new))
  <2>1. p \in [1 .. call.dim -> Int] /\ \A e \in 1 .. call.dim : Box(k)[e].stride = 1
    BY ONLY <1>1, <1>8
  <2>2. /\ InBox(p, Box(k)) <=> (InBox(p, lower) \/ InBox(p, upper))
        /\ ~(InBox(p, lower) /\ InBox(p, upper))
    BY ONLY <1>1, <1>2, <1>3, <2>1, d \in 1 .. call.dim, HalvesOfBox
  <2> QED BY ONLY <1>7, <2>2 DEF Parted
<1>9. \A i \in DOMAIN new : ~new[i].done /\ new[i].fp \in {"runner", "recursive"} /\ Awaits(new[i], 2)
  BY ONLY <1>6, ~t.done, t.fp = "recursive", Awaits(t, 2)
<1>10. Whole => \A i \in DOMAIN new : \A e \in 1 .. call.dim : new[i].loop[e].stride = 1
  BY ONLY <1>1, <1>3, <1>4, <1>6, t.loop = UpperHalf(Box(k), d)
<1>11. Whole => \A e \in 1 .. call.dim : lower[e].stride = 1
  BY ONLY <1>1, <1>4
<1>12. task[k].fp # "flat" /\ call.api # "async"
  OBVIOUS
<1>13. Handed(k, FALSE, lower, new)
  BY ONLY <1>4, <1>6, <1>8, <1>9, <1>10, <1>11, <1>12 DEF Handed
<1> QED BY ONLY <1>3, <1>5, <1>13

-----------------------------------------------------------------------------
(* Flat loops *)

\* The next multiple of the tile.
LEMMA NextMultiple ==
    ASSUME NEW t \in Nat \ {0}, NEW a \in Nat, a % t = 0
    PROVE  (a + t) % t = 0
<1>1. PICK q : q = a \div t
  OBVIOUS
<1>2. q \in Nat /\ q * t <= a /\ a < q * t + t /\ a % t = a - q * t
  BY ONLY <1>1, t \in Nat \ {0}, a \in Nat, Quotients
<1>3. q * t = a
  BY ONLY <1>2, a % t = 0, t \in Nat \ {0}, a \in Nat
<1>4. q + 1 \in Int /\ a + t \in Nat /\ (q + 1) * t = a + t
  BY ONLY <1>2, <1>3, t \in Nat \ {0}, a \in Nat
<1>5. (q + 1) * t <= a + t /\ a + t < (q + 1) * t + t
  BY ONLY <1>4, t \in Nat \ {0}, a \in Nat
<1>6. (a + t) % t = a + t - (q + 1) * t
  <2>1. PICK x, y : x = a + t /\ y = q + 1
    OBVIOUS
  <2>2. x \in Nat /\ y \in Int /\ y * t <= x /\ x < y * t + t
    BY ONLY <1>4, <1>5, <2>1
  <2>3. x % t = x - y * t
    BY ONLY <2>2, t \in Nat \ {0}, QuotientUnique
  <2> QED BY ONLY <1>2, <2>1, <2>2, <2>3, t \in Nat \ {0}, a \in Nat
<1> QED BY ONLY <1>4, <1>6, t \in Nat \ {0}, a \in Nat

\* A tile that starts at a multiple of its size below a bound that is one ends
\* within it.
LEMMA WithinBound ==
    ASSUME NEW t \in Nat \ {0}, NEW a \in Nat, NEW h \in Int, a % t = 0, a < t * Quot(h, t)
    PROVE  a + t <= h
<1>1. PICK q : q = a \div t
  OBVIOUS
<1>2. q \in Nat /\ q * t <= a /\ a < q * t + t /\ a % t = a - q * t
  BY ONLY <1>1, t \in Nat \ {0}, a \in Nat, Quotients
<1>3. q * t = a
  BY ONLY <1>2, a % t = 0, t \in Nat \ {0}, a \in Nat
<1>4. CASE h >= 0
  <2>1. PICK b : b = h \div t
    OBVIOUS
  <2>2. b \in Nat /\ b * t <= h
    BY ONLY <1>4, <2>1, h \in Int, t \in Nat \ {0}, Quotients
  <2>3. q * t < b * t
    <3>1. Quot(h, t) = b
      BY ONLY <1>4, <2>1 DEF Quot
    <3>2. t * b = b * t
      BY ONLY <2>2, t \in Nat \ {0}
    <3> QED BY ONLY <1>3, <3>1, <3>2, a < t * Quot(h, t)
  <2>4. q < b
    <3> SUFFICES ASSUME b <= q PROVE FALSE
      BY <1>2, <2>2
    <3>1. CASE b = q
      BY ONLY <1>2, <2>3, <3>1, t \in Nat \ {0}
    <3>2. CASE b < q
      BY ONLY <1>2, <2>2, <2>3, <3>2, t \in Nat \ {0}, MultiplesOrdered
    <3> QED BY ONLY <1>2, <2>2, <3>1, <3>2, b <= q
  <2>5. q * t + t <= b * t /\ b * t \in Int
    BY ONLY <1>2, <2>2, <2>4, t \in Nat \ {0}, MultiplesOrdered
  <2> QED BY ONLY <1>3, <2>2, <2>5, h \in Int, t \in Nat \ {0}, a \in Nat
<1>5. CASE h < 0
  <2>1. PICK b : b = (-h) \div t
    OBVIOUS
  <2>2. b \in Nat
    <3>1. -h \in Nat
      BY ONLY <1>5, h \in Int
    <3> QED BY ONLY <2>1, <3>1, t \in Nat \ {0}, Quotients
  <2>3. Quot(h, t) = -b
    BY ONLY <1>5, <2>1, h \in Int DEF Quot
  <2>4. t * (-b) <= 0
    BY ONLY <2>2, t \in Nat \ {0}
  <2>5. t * (-b) \in Int
    BY ONLY <2>2, t \in Nat \ {0}
  <2> QED BY ONLY <2>3, <2>4, <2>5, a < t * Quot(h, t), a \in Nat
<1> QED BY ONLY <1>4, <1>5, h \in Int

\* The loops of what a flat loop has left.
LEMMA RestFacts ==
    ASSUME IInv, Tiled, NEW k, Ready(k), task[k].fp = "flat"
    PROVE  /\ call.dim \in 1 .. 3 /\ Box(k) \in BoxType(call.dim)
           /\ \A d \in 1 .. call.dim : Box(k)[d] \in LoopType /\ Spaced(Box(k)[d])
           /\ Rest(Box(k)) /\ call.mode = "flat"
           /\ domain \in BoxType(call.dim) /\ Box(k)[1].tile = domain[1].tile
           /\ Aligned /\ call.dim = 1 => Box(k)[1].low \in Nat
<1>1. /\ Box(k) \in BoxType(call.dim) /\ Rest(Box(k)) /\ call.mode = "flat"
      /\ Shape /\ domain = Chunked
  BY ReadyFacts
<1>2. call.dim \in 1 .. 3 /\ domain \in BoxType(call.dim)
  BY <1>1, CallFacts
<1>3. ASSUME NEW d \in 1 .. call.dim
      PROVE  Box(k)[d] \in LoopType /\ domain[d] \in LoopType /\ Spaced(domain[d])
  BY <1>1, <1>2 DEF BoxType, Tiled
<1>4. 1 \in 1 .. call.dim
  BY ONLY <1>2
<1>5. /\ Box(k)[1] = [domain[1] EXCEPT !.low = Box(k)[1].low] /\ domain[1].low <= Box(k)[1].low
      /\ \A d \in 1 .. call.dim : d # 1 => Box(k)[d] = domain[d]
  BY ONLY <1>1 DEF Rest
<1>6. PICK b, c : b = Box(k)[1] /\ c = domain[1]
  OBVIOUS
<1>7. b \in LoopType /\ c \in LoopType /\ Spaced(c) /\ b = [c EXCEPT !.low = b.low] /\ c.low <= b.low
  BY ONLY <1>3, <1>4, <1>5, <1>6
<1>8. b.tile = c.tile /\ b.high = c.high
  BY ONLY <1>7 DEF LoopType
<1>9. Spaced(b)
  BY ONLY <1>7, <1>8 DEF Spaced, LoopType
<1>10. \A d \in 1 .. call.dim : Spaced(Box(k)[d])
  BY ONLY <1>3, <1>5, <1>6, <1>9
<1>11. Aligned /\ call.dim = 1 => Box(k)[1].low \in Nat
  <2>1. Aligned /\ call.dim = 1 => c.low >= 0
    BY ONLY <1>1, <1>6 DEF Aligned
  <2> QED BY ONLY <1>6, <1>7, <2>1 DEF LoopType
<1> QED BY ONLY <1>1, <1>2, <1>3, <1>6, <1>8, <1>10, <1>11

\* What is behind a slab of the rest is the rest.
LEMMA BehindRest ==
    ASSUME IInv, Tiled, NEW k, Ready(k), task[k].fp = "flat", Box(k)[1].tile > 0
    PROVE  BehindSlab(Box(k)) \in BoxType(call.dim) /\ Rest(BehindSlab(Box(k)))
<1>1. /\ call.dim \in 1 .. 3 /\ Box(k) \in BoxType(call.dim)
      /\ Rest(Box(k)) /\ call.mode = "flat" /\ domain \in BoxType(call.dim) /\ Box(k)[1].tile = domain[1].tile
      /\ Aligned /\ call.dim = 1 => Box(k)[1].low \in Nat
  BY RestFacts
<1>2. PICK behind, b, c, e : behind = BehindSlab(Box(k)) /\ b = Box(k)[1] /\ c = domain[1] /\ e = behind[1]
  OBVIOUS
<1>3. /\ behind \in BoxType(call.dim) /\ e = [b EXCEPT !.low = @ + b.tile]
      /\ \A d \in 1 .. call.dim : d # 1 => behind[d] = Box(k)[d]
  BY ONLY <1>1, <1>2, BehindShape
<1>4. b = [c EXCEPT !.low = b.low] /\ c.low <= b.low /\ b \in LoopType /\ c \in LoopType /\ b.tile = c.tile
  <2>1. 1 \in 1 .. call.dim
    BY ONLY <1>1
  <2> QED BY ONLY <1>1, <1>2, <2>1 DEF Rest, BoxType
<1>5. e = [c EXCEPT !.low = e.low] /\ c.low <= e.low /\ e.low = b.low + b.tile
  <2>1. e.low = b.low + b.tile /\ e.high = b.high /\ e.stride = b.stride /\ e.tile = b.tile /\ e \in LoopType
    BY ONLY <1>3, <1>4 DEF LoopType
  <2>2. b.high = c.high /\ b.stride = c.stride
    BY ONLY <1>4 DEF LoopType
  <2>3. e = [c EXCEPT !.low = e.low]
    BY ONLY <1>4, <2>1, <2>2 DEF LoopType
  <2>4. c.low \in Int /\ b.low \in Int /\ b.tile \in Int /\ b.tile > 0
    BY <1>2, <1>4 DEF LoopType
  <2> QED BY ONLY <1>4, <2>1, <2>3, <2>4
<1>6. \A d \in 1 .. call.dim : d # 1 => behind[d] = domain[d]
  BY ONLY <1>1, <1>3 DEF Rest
<1>7. ASSUME Aligned, call.dim = 1, c.tile > 0 PROVE e.low % c.tile = 0
  <2>1. PICK a, t : a = b.low /\ t = c.tile
    OBVIOUS
  <2>2. a \in Nat /\ t \in Nat \ {0} /\ a % t = 0
    <3>1. t \in Int /\ a \in Nat
      BY ONLY <1>1, <1>2, <1>4, <1>7, <2>1 DEF LoopType
    <3>2. a % t = 0
      BY ONLY <1>1, <1>2, <1>7, <2>1 DEF Rest
    <3> QED BY ONLY <1>7, <2>1, <3>1, <3>2
  <2>3. (a + t) % t = 0
    BY ONLY <2>2, NextMultiple
  <2> QED BY ONLY <1>4, <1>5, <2>1, <2>3
<1>8. Rest(behind)
  BY ONLY <1>2, <1>5, <1>6, <1>7 DEF Rest
<1> QED BY ONLY <1>2, <1>3, <1>8

\* A task for a box, that waits as the call asks for.
ChunkOf(t, box) ==
    t \in Records /\ ~t.done /\ t.fp \in {"runner", "recursive"} /\ Awaits(t, 2) /\ t.loop = box

\* The tasks of a sequence of boxes.
ChunksOf(new, boxes) ==
    /\ new \in Seq(Records) /\ DOMAIN new = DOMAIN boxes
    /\ \A i \in DOMAIN boxes : ChunkOf(new[i], boxes[i])

\* A sequence of one task.
LEMMA OneChunk ==
    ASSUME NEW t, NEW box, ChunkOf(t, box)
    PROVE  ChunksOf(<<t>>, <<box>>)
<1>1. PICK new, boxes : new = <<t>> /\ boxes = <<box>>
  OBVIOUS
<1>2. t \in Records
  BY DEF ChunkOf
<1> HIDE DEF Records
<1>3. new \in Seq(Records) /\ DOMAIN new = {1} /\ DOMAIN boxes = {1} /\ new[1] = t /\ boxes[1] = box
  BY ONLY <1>1, <1>2
<1>4. ChunksOf(new, boxes)
  BY <1>3 DEF ChunksOf
<1> QED BY ONLY <1>1, <1>4

\* A sequence of tasks, one for each box.
LEMMA ManyChunks ==
    ASSUME NEW S, NEW boxes \in Seq(S), NEW new, DOMAIN new = DOMAIN boxes,
           new = [i \in DOMAIN boxes |-> new[i]],
           \A i \in DOMAIN boxes : ChunkOf(new[i], boxes[i])
    PROVE  ChunksOf(new, boxes)
<1>1. PICK n : n = Len(boxes)
  OBVIOUS
<1>2. n \in Nat /\ DOMAIN boxes = 1 .. n
  BY <1>1
<1>3. \A i \in 1 .. n : new[i] \in Records
  BY <1>2 DEF ChunkOf
<1> HIDE DEF Records
<1>4. new \in [1 .. n -> Records]
  BY <1>2, <1>3
<1>5. new \in Seq(Records)
  BY ONLY <1>2, <1>4
<1> QED BY <1>5 DEF ChunksOf

\* What the chunks hold: the same loops as the boxes.
LEMMA HandedOn ==
    ASSUME IInv, Tiled, NEW k, Ready(k), call.api # "async", NEW done \in BOOLEAN, NEW box \in BoxType(call.dim),
           task[k].fp = "flat" => IF done THEN Empty(box) ELSE Rest(box),
           NEW new, NEW boxes, ChunksOf(new, boxes),
           Whole => /\ \A d \in 1 .. call.dim : box[d].stride = 1
                    /\ \A i \in DOMAIN boxes : \A d \in 1 .. call.dim : boxes[i][d].stride = 1
                    /\ \A p \in Points : Parted(p, Box(k), box, boxes)
    PROVE  Handed(k, done, box, new)
<1>1. /\ new \in Seq(Records) /\ DOMAIN new = DOMAIN boxes
      /\ \A i \in DOMAIN boxes : /\ ~new[i].done /\ new[i].fp \in {"runner", "recursive"}
                                /\ Awaits(new[i], 2) /\ new[i].loop = boxes[i]
  BY DEF ChunksOf, ChunkOf
<1>2. DOMAIN Loops(new) = DOMAIN boxes /\ \A i \in DOMAIN boxes : Loops(new)[i] = boxes[i]
  BY ONLY <1>1 DEF Loops
<1>3. ASSUME NEW p, Parted(p, Box(k), box, boxes) PROVE Parted(p, Box(k), box, Loops(new))
  BY ONLY <1>2, <1>3 DEF Parted
<1>4. Whole => /\ \A d \in 1 .. call.dim : box[d].stride = 1
               /\ \A i \in DOMAIN new : \A d \in 1 .. call.dim : new[i].loop[d].stride = 1
               /\ \A p \in Points : Parted(p, Box(k), box, Loops(new))
  BY <1>1, <1>3
<1>5. \A i \in DOMAIN new : ~new[i].done /\ new[i].fp \in {"runner", "recursive"} /\ Awaits(new[i], 2)
  BY ONLY <1>1
<1>6. call.api = "async" => done /\ new = << >>
  OBVIOUS
<1> QED BY ONLY <1>1, <1>4, <1>5, <1>6, box \in BoxType(call.dim),
           task[k].fp = "flat" => IF done THEN Empty(box) ELSE Rest(box) DEF Handed

\* One turn of the outermost loop.
LEMMA SlabHanded ==
    ASSUME IInv, Tiled, NEW k, Ready(k), task[k].fp = "flat", call.api # "async",
           Box(k)[1].low < Box(k)[1].high, NEW new, NEW boxes, ChunksOf(new, boxes),
           \/ call.dim = 2 /\ boxes = Slab2D(Box(k))
           \/ call.dim = 3 /\ boxes = Slab3D(Box(k))
    PROVE  Handed(k, FALSE, BehindSlab(Box(k)), new)
<1>1. /\ call.dim \in 1 .. 3 /\ Box(k) \in BoxType(call.dim)
      /\ \A d \in 1 .. call.dim : Box(k)[d] \in LoopType /\ Spaced(Box(k)[d])
  BY RestFacts
<1>2. /\ Whole => \A d \in 1 .. call.dim : Box(k)[d].stride = 1
      /\ Points \subseteq [1 .. call.dim -> Int]
  BY ReadyFacts
<1>3. Box(k)[1].tile > 0
  <2>1. Spaced(Box(k)[1])
    BY ONLY <1>1
  <2> QED BY ONLY <2>1, Box(k)[1].low < Box(k)[1].high DEF Spaced
<1>4. BehindSlab(Box(k)) \in BoxType(call.dim) /\ Rest(BehindSlab(Box(k)))
  BY <1>3, BehindRest
<1>5. \A d \in 1 .. call.dim : BehindSlab(Box(k))[d].stride = Box(k)[d].stride
  BY ONLY <1>1, BehindShape
<1>6. PICK b, behind : b = Box(k) /\ behind = BehindSlab(Box(k))
  OBVIOUS
<1>7. ASSUME Whole
      PROVE  /\ \A i \in DOMAIN boxes : \A d \in 1 .. call.dim : boxes[i][d].stride = 1
             /\ \A p \in Points : Parted(p, b, behind, boxes)
  <2>1. CASE call.dim = 2 /\ boxes = Slab2D(Box(k))
    <3>1. /\ b \in BoxType(2) /\ Spaced(b[1]) /\ Spaced(b[2]) /\ (\A d \in 1 .. 2 : b[d].stride = 1)
          /\ \A p \in Points : p \in [1 .. 2 -> Int]
      BY ONLY <1>1, <1>2, <1>6, <1>7, <2>1
    <3>2. b[1].low < b[1].high
      BY <1>6
    <3>3. \A i \in DOMAIN Slab2D(b) : \A d \in 1 .. 2 : Slab2D(b)[i][d].stride = b[d].stride
      BY ONLY <3>1, SlabShape2D
    <3>4. \A p \in Points : Parted(p, b, BehindSlab(b), Slab2D(b))
      BY ONLY <3>1, <3>2, SlabParts2D
    <3> QED BY ONLY <1>6, <2>1, <3>1, <3>3, <3>4
  <2>2. CASE call.dim = 3 /\ boxes = Slab3D(Box(k))
    <3>1. /\ b \in BoxType(3) /\ Spaced(b[1]) /\ Spaced(b[2]) /\ Spaced(b[3])
          /\ \A d \in 1 .. 3 : b[d].stride = 1
          /\ \A p \in Points : p \in [1 .. 3 -> Int]
      BY ONLY <1>1, <1>2, <1>6, <1>7, <2>2
    <3>2. b[1].low < b[1].high
      BY <1>6
    <3>3. \A i \in DOMAIN Slab3D(b) : \A d \in 1 .. 3 : Slab3D(b)[i][d].stride = b[d].stride
      BY ONLY <3>1, SlabShape3D
    <3>4. \A p \in Points : Parted(p, b, BehindSlab(b), Slab3D(b))
      BY ONLY <3>1, <3>2, SlabParts3D
    <3> QED BY ONLY <1>6, <2>2, <3>1, <3>3, <3>4
  <2> QED BY <2>1, <2>2
<1>8. Whole => /\ \A d \in 1 .. call.dim : behind[d].stride = 1
               /\ \A i \in DOMAIN boxes : \A d \in 1 .. call.dim : boxes[i][d].stride = 1
               /\ \A p \in Points : Parted(p, Box(k), behind, boxes)
  BY ONLY <1>2, <1>5, <1>6, <1>7
<1>9. behind \in BoxType(call.dim) /\ (task[k].fp = "flat" => IF FALSE THEN Empty(behind) ELSE Rest(behind))
  BY ONLY <1>4, <1>6
<1>10. Handed(k, FALSE, behind, new)
  BY ONLY <1>8, <1>9, IInv, Tiled, Ready(k), call.api # "async", ChunksOf(new, boxes), FALSE \in BOOLEAN,
          HandedOn, Zenon
<1> QED BY ONLY <1>6, <1>10

\* What a step of a task comes to.
Outcome(k) ==
    \/ \E box, new : Handed(k, FALSE, box, new) /\ Spawn(k, box, new)
    \/ \E box, new : Handed(k, TRUE, box, new) /\ Return(k, box, new)
    \/ Abort

\* A tile of a single loop that ends within the loop, and what is behind it.
LEMMA TilePart ==
    ASSUME NEW box \in BoxType(1), box[1].stride = 1, box[1].tile > 0, box[1].low + box[1].tile <= box[1].high,
           NEW p \in [1 .. 1 -> Int], NEW boxes,
           boxes = <<<<Loop(box[1].low, box[1].low + box[1].tile, box[1].stride, box[1].tile)>>>>
    PROVE  Parted(p, box, BehindSlab(box), boxes)
<1>1. PICK l, behind, b, low, high, t :
        l = box[1] /\ behind = BehindSlab(box) /\ b = <<Loop(low, low + t, 1, t)>>
        /\ low = l.low /\ high = l.high /\ t = l.tile
  OBVIOUS
<1>2. l \in LoopType /\ p[1] \in Int /\ low \in Int /\ high \in Int /\ t \in Int /\ t > 0 /\ low + t <= high
      /\ l.stride = 1
  BY <1>1 DEF BoxType, LoopType
<1>3. behind \in BoxType(1) /\ behind[1] = [l EXCEPT !.low = @ + l.tile]
  <2>1. 1 \in 1 .. 3
    OBVIOUS
  <2> QED BY ONLY <1>1, <2>1, box \in BoxType(1), BehindShape
<1>4. /\ behind[1] \in LoopType /\ behind[1].stride = 1 /\ behind[1].low = low + t /\ behind[1].high = high
  BY ONLY <1>1, <1>2, <1>3 DEF LoopType
<1>5. b \in BoxType(1) /\ b[1] \in LoopType /\ b[1].stride = 1 /\ b[1].low = low /\ b[1].high = low + t
  BY ONLY <1>1, <1>2 DEF LoopType, BoxType, Loop
<1>6. DOMAIN boxes = {1} /\ boxes[1] = b
  BY <1>1
<1>7. 1 .. 1 = {1} /\ DOMAIN box = 1 .. 1 /\ DOMAIN behind = 1 .. 1 /\ DOMAIN b = 1 .. 1
  BY <1>3, <1>5 DEF BoxType
<1>8. /\ InBox(p, box) <=> InLoop(p[1], l)
      /\ InBox(p, behind) <=> InLoop(p[1], behind[1])
      /\ InBox(p, b) <=> InLoop(p[1], b[1])
  BY ONLY <1>1, <1>7 DEF InBox
<1>9. /\ InLoop(p[1], l) <=> low <= p[1] /\ p[1] < high
      /\ InLoop(p[1], behind[1]) <=> low + t <= p[1] /\ p[1] < high
      /\ InLoop(p[1], b[1]) <=> low <= p[1] /\ p[1] < low + t
  BY ONLY <1>1, <1>2, <1>4, <1>5, UnitLoops DEF UnitLoop
<1>10. /\ InBox(p, box) <=> (InBox(p, behind) \/ InBox(p, b))
       /\ ~(InBox(p, behind) /\ InBox(p, b))
  BY ONLY <1>2, <1>8, <1>9
<1>11. Parted(p, box, behind, boxes)
  BY ONLY <1>6, <1>10 DEF Parted
<1> QED BY ONLY <1>1, <1>11

\* One turn of the loop over whole tiles.
LEMMA TileHanded ==
    ASSUME IInv, Tiled, NEW k, Ready(k), task[k].fp = "flat", call.api # "async", call.dim = 1,
           Box(k)[1].tile # 0, Box(k)[1].low < Box(k)[1].tile * Quot(Box(k)[1].high, Box(k)[1].tile),
           NEW boxes, NEW new, ChunksOf(new, boxes),
           boxes = <<<<Loop(Box(k)[1].low, Box(k)[1].low + Box(k)[1].tile, Box(k)[1].stride, Box(k)[1].tile)>>>>
    PROVE  Handed(k, FALSE, BehindSlab(Box(k)), new)
<1>1. /\ Box(k) \in BoxType(1) /\ Box(k)[1] \in LoopType /\ Spaced(Box(k)[1])
      /\ Rest(Box(k)) /\ Box(k)[1].tile = domain[1].tile
      /\ Aligned => Box(k)[1].low \in Nat
  <2>1. 1 \in 1 .. 1
    OBVIOUS
  <2> QED BY <2>1, RestFacts
<1>2. /\ Whole => \A d \in 1 .. call.dim : Box(k)[d].stride = 1
      /\ Points \subseteq [1 .. 1 -> Int]
  BY ReadyFacts
<1>3. PICK b, behind, low, high, t : /\ b = Box(k) /\ behind = BehindSlab(Box(k))
                                     /\ low = b[1].low /\ high = b[1].high /\ t = b[1].tile
  OBVIOUS
<1>4. low \in Int /\ high \in Int /\ t \in Nat \ {0}
  <2>1. t \in Int /\ t # 0 /\ t >= 0 /\ low \in Int /\ high \in Int
    BY <1>1, <1>3 DEF Spaced, LoopType
  <2> QED BY ONLY <2>1
<1>5. behind \in BoxType(1) /\ Rest(behind)
  <2>1. Box(k)[1].tile > 0
    BY ONLY <1>3, <1>4
  <2> QED BY <1>3, <2>1, BehindRest
<1>6. b \in BoxType(1) /\ \A d \in 1 .. 1 : behind[d].stride = b[d].stride
  <2>1. 1 \in 1 .. 3
    OBVIOUS
  <2> QED BY ONLY <1>1, <1>3, <2>1, BehindShape
<1>7. ASSUME Whole
      PROVE  /\ b[1].stride = 1 /\ behind[1].stride = 1
             /\ low + t <= high
  <2>1. 1 \in 1 .. 1
    OBVIOUS
  <2>2. b[1].stride = 1 /\ behind[1].stride = 1
    BY <1>2, <1>3, <1>6, <1>7, <2>1
  <2>3. Aligned
    BY <1>7 DEF Whole
  <2>4. low \in Nat /\ low % t = 0
    BY <1>1, <1>3, <1>4, <2>3 DEF Rest
  <2>5. low < t * Quot(high, t)
    BY <1>3
  <2>6. low + t <= high
    BY ONLY <1>4, <2>4, <2>5, WithinBound
  <2> QED BY ONLY <2>2, <2>6
<1>8. ASSUME Whole, NEW p \in Points PROVE Parted(p, b, behind, boxes)
  <2>1. /\ b[1].tile > 0 /\ b[1].low + b[1].tile <= b[1].high /\ b[1].stride = 1
        /\ p \in [1 .. 1 -> Int]
    BY ONLY <1>2, <1>3, <1>4, <1>7, <1>8
  <2>2. boxes = <<<<Loop(b[1].low, b[1].low + b[1].tile, b[1].stride, b[1].tile)>>>> /\ behind = BehindSlab(b)
    BY <1>3
  <2> QED BY ONLY <1>6, <2>1, <2>2, TilePart
<1>9. ASSUME Whole, NEW i \in DOMAIN boxes, NEW d \in 1 .. 1 PROVE boxes[i][d].stride = 1
  <2>1. PICK x : x = Loop(Box(k)[1].low, Box(k)[1].low + Box(k)[1].tile, Box(k)[1].stride, Box(k)[1].tile)
    OBVIOUS
  <2>2. x.stride = 1
    BY ONLY <1>3, <1>7, <1>9, <2>1 DEF Loop
  <2>3. boxes = <<<<x>>>>
    BY ONLY <2>1, boxes = <<<<Loop(Box(k)[1].low, Box(k)[1].low + Box(k)[1].tile, Box(k)[1].stride, Box(k)[1].tile)>>>>
  <2> QED BY ONLY <2>2, <2>3, i \in DOMAIN boxes, d \in 1 .. 1
<1>10. Whole => /\ \A d \in 1 .. call.dim : behind[d].stride = 1
                /\ \A i \in DOMAIN boxes : \A d \in 1 .. call.dim : boxes[i][d].stride = 1
                /\ \A p \in Points : Parted(p, Box(k), behind, boxes)
  <2>1. 1 .. call.dim = {1} /\ 1 .. 1 = {1}
    BY call.dim = 1
  <2> QED BY ONLY <1>3, <1>7, <1>8, <1>9, <2>1
<1>11. behind \in BoxType(call.dim) /\ (task[k].fp = "flat" => IF FALSE THEN Empty(behind) ELSE Rest(behind))
  BY ONLY <1>5, call.dim = 1
<1>12. Handed(k, FALSE, behind, new)
  BY ONLY <1>10, <1>11, IInv, Tiled, Ready(k), call.api # "async", ChunksOf(new, boxes), FALSE \in BOOLEAN,
          HandedOn, Zenon
<1> QED BY ONLY <1>3, <1>12

\* What follows the loop over whole tiles: one chunk for all that is left.
LEMMA RestHanded ==
    ASSUME IInv, Tiled, NEW k, Ready(k), task[k].fp = "flat", call.api # "async",
           NEW t, ChunkOf(t, Box(k))
    PROVE  Handed(k, TRUE, Nothing(Box(k)), <<t>>)
<1>1. call.dim \in 1 .. 3 /\ Box(k) \in BoxType(call.dim)
  BY RestFacts
<1>2. /\ Whole => \A d \in 1 .. call.dim : Box(k)[d].stride = 1
      /\ Points \subseteq [1 .. call.dim -> Int]
  BY ReadyFacts
<1>3. PICK box, boxes, b : box = Nothing(Box(k)) /\ boxes = <<Box(k)>> /\ b = Box(k)
  OBVIOUS
<1>4. /\ box \in BoxType(call.dim) /\ box[1].low = box[1].high
      /\ \A d \in 1 .. call.dim : box[d].stride = Box(k)[d].stride
  BY ONLY <1>1, <1>3, NothingShape
<1>5. ChunksOf(<<t>>, boxes)
  BY <1>3, OneChunk
<1>6. box[1] \in LoopType /\ box[1].high <= box[1].low
  <2>1. 1 \in 1 .. call.dim
    BY ONLY <1>1
  <2>2. box[1] \in LoopType
    BY ONLY <1>4, <2>1 DEF BoxType
  <2> QED BY ONLY <1>4, <2>2 DEF LoopType
<1>7. DOMAIN boxes = {1} /\ boxes[1] = b
  BY ONLY <1>3
<1>8. ASSUME NEW p \in Points PROVE Parted(p, b, box, boxes)
  <2>1. ~InBox(p, box)
    <3>1. p \in [1 .. call.dim -> Int]
      BY ONLY <1>2, p \in Points
    <3> QED BY ONLY <1>1, <1>4, <1>6, <3>1, NoIteration
  <2> QED BY ONLY <1>7, <2>1 DEF Parted
<1>9. Whole => /\ \A d \in 1 .. call.dim : box[d].stride = 1
               /\ \A i \in DOMAIN boxes : \A d \in 1 .. call.dim : boxes[i][d].stride = 1
               /\ \A p \in Points : Parted(p, Box(k), box, boxes)
  BY ONLY <1>2, <1>3, <1>4, <1>7, <1>8
<1>10. task[k].fp = "flat" => IF TRUE THEN Empty(box) ELSE Rest(box)
  BY ONLY <1>6 DEF Empty
<1>11. Handed(k, TRUE, box, <<t>>)
  BY ONLY <1>4, <1>5, <1>9, <1>10, IInv, Tiled, Ready(k), call.api # "async", TRUE \in BOOLEAN, HandedOn, Zenon
<1> QED BY ONLY <1>3, <1>11

\* A turn of forasync1D_flat, of either interface.
LEMMA FlatTurnOutcome ==
    ASSUME IInv, Tiled, NEW k, Ready(k), task[k].fp = "flat", call.api # "async", call.dim = 1,
           NEW t, ChunkOf(t, Box(k)), FlatTurn(k, t)
    PROVE  Outcome(k)
<1>1. PICK l, size, b : l = Box(k)[1] /\ size = l.tile * Quot(l.high, l.tile)
                        /\ b = <<Loop(l.low, l.low + l.tile, l.stride, l.tile)>>
  OBVIOUS
<1>2. \/ l.tile # 0 /\ l.low < size /\ Spawn(k, BehindSlab(Box(k)), <<[t EXCEPT !.loop = b]>>)
      \/ l.tile # 0 /\ l.low >= size /\ size < l.high /\ Return(k, Nothing(Box(k)), <<t>>)
      \/ l.tile # 0 /\ l.low >= size /\ size >= l.high /\ Return(k, Box(k), << >>)
      \/ l.tile = 0 /\ Abort
  BY <1>1 DEF FlatTurn
<1>3. l \in LoopType /\ (l.tile # 0 => size \in Int)
  <2>1. Spaced(l) /\ l \in LoopType
    <3>1. 1 \in 1 .. call.dim
      BY call.dim = 1
    <3> QED BY <1>1, <3>1, RestFacts
  <2>2. ASSUME l.tile # 0 PROVE size \in Int
    <3>1. PICK h, u, q : h = l.high /\ u = l.tile /\ q = Quot(h, u)
      OBVIOUS
    <3>2. u \in Nat \ {0} /\ h \in Int
      BY <2>1, <2>2, <3>1 DEF LoopType, Spaced
    <3>3. q \in Int
      BY ONLY <3>1, <3>2 DEF Quot
    <3>4. size = u * q
      BY ONLY <1>1, <3>1, Zenon
    <3> QED BY ONLY <3>2, <3>3, <3>4
  <2> QED BY ONLY <2>1, <2>2
<1>4. CASE l.tile # 0 /\ l.low < size /\ Spawn(k, BehindSlab(Box(k)), <<[t EXCEPT !.loop = b]>>)
  <2>1. b \in BoxType(1)
    BY ONLY <1>1, <1>3 DEF LoopType, BoxType, Loop
  <2>2. ChunkOf([t EXCEPT !.loop = b], b)
    BY <2>1 DEF ChunkOf, Records, Awaits
  <2>3. ChunksOf(<<[t EXCEPT !.loop = b]>>, <<b>>)
    BY ONLY <2>2, OneChunk
  <2>4. PICK new, boxes : new = <<[t EXCEPT !.loop = b]>> /\ boxes = <<b>>
    OBVIOUS
  <2>5. /\ Box(k)[1].tile # 0 /\ Box(k)[1].low < Box(k)[1].tile * Quot(Box(k)[1].high, Box(k)[1].tile)
        /\ boxes = <<<<Loop(Box(k)[1].low, Box(k)[1].low + Box(k)[1].tile, Box(k)[1].stride, Box(k)[1].tile)>>>>
    BY ONLY <1>1, <1>4, <2>4
  <2>6. Handed(k, FALSE, BehindSlab(Box(k)), new)
    BY <2>3, <2>4, <2>5, TileHanded, Zenon
  <2> QED BY ONLY <1>4, <2>4, <2>6 DEF Outcome
<1>5. CASE Return(k, Nothing(Box(k)), <<t>>)
  <2>1. Handed(k, TRUE, Nothing(Box(k)), <<t>>)
    BY RestHanded, Zenon
  <2> QED BY ONLY <1>5, <2>1 DEF Outcome
<1>6. CASE l.tile # 0 /\ l.low >= size /\ size >= l.high /\ Return(k, Box(k), << >>)
  <2>1. Empty(Box(k))
    BY ONLY <1>1, <1>3, <1>6 DEF Empty, LoopType
  <2>2. Handed(k, TRUE, Box(k), << >>)
    BY <2>1, LastHanded
  <2> QED BY ONLY <1>6, <2>2 DEF Outcome
<1>7. CASE Abort
  BY ONLY <1>7 DEF Outcome
<1> QED BY ONLY <1>2, <1>4, <1>5, <1>6, <1>7

-----------------------------------------------------------------------------
(* The tasks that are spawned *)

\* The tasks of the C interface.
LEMMA CChunk ==
    ASSUME IInv, Tiled, NEW k, Ready(k), call.api = "c", NEW box \in BoxType(call.dim)
    PROVE  ChunkOf(Chunk(k, box), box)
<1>1. task[k] \in Records /\ ~task[k].done
  BY ReadyFacts DEF Ready
<1>2. PICK r, t : r = task[k] /\ t = [r EXCEPT !.fp = "runner", !.loop = box]
  OBVIOUS
<1>3. t \in Records /\ ~t.done /\ t.fp = "runner" /\ t.loop = box
  BY ONLY <1>1, <1>2, box \in BoxType(call.dim) DEF Records
<1>4. Awaits(t, 2)
  BY DEF Awaits
<1>5. Chunk(k, box) = t
  BY ONLY <1>2, Zenon DEF Chunk
<1> QED BY ONLY <1>3, <1>4, <1>5 DEF ChunkOf

\* The chunks of forasync2D_flat and forasync3D_flat.
LEMMA CChunks ==
    ASSUME IInv, Tiled, NEW k, Ready(k), call.api = "c", NEW boxes \in Seq(BoxType(call.dim))
    PROVE  ChunksOf(Chunks(k, boxes), boxes)
<1>1. PICK new : new = Chunks(k, boxes)
  OBVIOUS
<1>2. new = [n \in DOMAIN boxes |-> Chunk(k, boxes[n])]
  BY ONLY <1>1 DEF Chunks
<1>3. DOMAIN new = DOMAIN boxes /\ new = [i \in DOMAIN boxes |-> new[i]]
  BY ONLY <1>2
<1>4. ASSUME NEW i \in DOMAIN boxes PROVE ChunkOf(new[i], boxes[i])
  <2>1. boxes[i] \in BoxType(call.dim)
    BY ONLY boxes \in Seq(BoxType(call.dim)), i \in DOMAIN boxes
  <2>2. ChunkOf(Chunk(k, boxes[i]), boxes[i])
    BY <2>1, CChunk
  <2>3. new[i] = Chunk(k, boxes[i])
    BY ONLY <1>2, i \in DOMAIN boxes
  <2> QED BY ONLY <2>2, <2>3
<1>5. ChunksOf(new, boxes)
  BY ONLY <1>3, <1>4, boxes \in Seq(BoxType(call.dim)), ManyChunks, Zenon
<1> QED BY ONLY <1>1, <1>5

\* The futures of the call, padded with NULLs, stand for the same promises.
LEMMA PaddedDeps ==
    ASSUME Shape, NEW n \in Nat, Len(call.fut) <= n, NEW s, DOMAIN s = 1 .. n, \A i \in 1 .. n : s[i] = Fut(i)
    PROVE  Deps(s) = Deps(call.fut)
<1>1. PICK f, m : f = call.fut /\ m = Len(f)
  OBVIOUS
<1>2. m \in Nat /\ DOMAIN f = 1 .. m /\ m <= n
  <2>1. f \in Seq(Promises \cup {NULL})
    BY <1>1, CallFacts
  <2> QED BY <1>1, <2>1
<1>3. \A i \in 1 .. n : s[i] = IF i <= m THEN f[i] ELSE NULL
  BY <1>1 DEF Fut
<1>4. ASSUME NEW x \in Deps(s) PROVE x \in Deps(f)
  <2>1. PICK i \in 1 .. n : x = s[i] /\ x # NULL
    BY DEF Deps, Range
  <2>2. i <= m /\ x = f[i]
    BY ONLY <1>3, <2>1, i \in 1 .. n
  <2>3. i \in 1 .. m
    BY ONLY <1>2, <2>2, i \in 1 .. n
  <2> QED BY ONLY <1>2, <2>1, <2>2, <2>3 DEF Deps, Range
<1>5. ASSUME NEW x \in Deps(f) PROVE x \in Deps(s)
  <2>1. PICK i \in 1 .. m : x = f[i] /\ x # NULL
    BY <1>2 DEF Deps, Range
  <2>2. i \in 1 .. n /\ i <= m
    BY ONLY <1>2, i \in 1 .. m
  <2>3. x = s[i]
    BY ONLY <1>3, <2>1, <2>2
  <2> QED BY ONLY <2>1, <2>2, <2>3, DOMAIN s = 1 .. n DEF Deps, Range
<1> QED BY <1>1, <1>4, <1>5

\* A vector: no more is awaited than it holds, and all of it if it is passed the
\* way the runtime wants it.
LEMMA AwaitedDeps ==
    ASSUME NEW f \in Seq(Promises \cup {NULL})
    PROVE  /\ Awaited(f) \subseteq Deps(f)
           /\ WellPassed(f) => Awaited(f) = Deps(f)
<1>1. Awaited(f) \subseteq Deps(f)
  BY DEF Awaited, Registered, Deps, Range
<1>2. ASSUME WellPassed(f), NEW x \in Deps(f) PROVE x \in Awaited(f)
  <2>1. PICK i \in DOMAIN f : x = f[i] /\ x # NULL
    BY DEF Deps, Range
  <2>2. f # << >> /\ f[1] # NULL /\ i \in Nat \ {0} /\ DOMAIN f = 1 .. Len(f) /\ Len(f) \in Nat
    BY <1>2, <2>1 DEF WellPassed
  <2>3. ASSUME NEW n \in MAX_NUM_WAITS + 1 .. i PROVE f[n] # NULL
    <3>1. n \in DOMAIN f /\ n > MAX_NUM_WAITS
      BY <2>2, <2>3 DEF MAX_NUM_WAITS
    <3> QED BY ONLY <1>2, <3>1 DEF WellPassed
  <2>4. x \in Registered(f)
    BY ONLY <2>1, <2>3, i \in DOMAIN f DEF Registered
  <2> QED BY ONLY <2>2, <2>4 DEF Awaited
<1> QED BY ONLY <1>1, <1>2

\* A single future in an array is awaited.
LEMMA AwaitedOne ==
    ASSUME NEW x
    PROVE  Awaited(<<x>>) = Deps(<<x>>)
<1>1. PICK f : f = <<x>>
  OBVIOUS
<1>2. DOMAIN f = {1} /\ f[1] = x /\ f # << >>
  BY ONLY <1>1
<1>3. \A n \in MAX_NUM_WAITS + 1 .. 1 : f[n] # NULL
  BY DEF MAX_NUM_WAITS
<1>4. Registered(f) = Deps(f)
  BY ONLY <1>2, <1>3 DEF Registered, Deps, Range
<1>5. x = NULL => Deps(f) = {}
  BY ONLY <1>2 DEF Deps, Range
<1> QED BY ONLY <1>1, <1>2, <1>4, <1>5 DEF Awaited

\* What a task waits for are promises.
LEMMA WaitedPromises ==
    ASSUME Shape
    PROVE  Waited \subseteq Deps(call.fut) /\ Waited \subseteq Promises
<1>1. call.fut \in Seq(Promises \cup {NULL}) /\ Deps(call.fut) \subseteq Promises
  BY CallFacts
<1>2. Awaited(call.fut) \subseteq Deps(call.fut)
  BY ONLY <1>1, AwaitedDeps
<1> QED BY ONLY <1>1, <1>2 DEF Waited

\* The loops of the C++ interface take at most one future.
LEMMA CppWaits ==
    ASSUME Shape, call.api = "cpp"
    PROVE  Deps(<<Fut(1)>>) = Deps(call.fut)
<1>1. Len(call.fut) <= 1 /\ 1 \in Nat
  <2>1. call \in Calls
    BY DEF Shape
  <2> QED BY <2>1, CallsAssumption
<1>2. PICK s : s = <<Fut(1)>>
  OBVIOUS
<1>3. DOMAIN s = 1 .. 1 /\ \A i \in 1 .. 1 : s[i] = Fut(i)
  BY ONLY <1>2
<1>4. Deps(s) = Deps(call.fut)
  BY ONLY Shape, <1>1, <1>3, PaddedDeps
<1> QED BY ONLY <1>2, <1>4

\* A task of the C++ loops waits for the future of the call.
LEMMA CppTask ==
    ASSUME Shape, call.api = "cpp", NEW fp \in {"runner", "recursive"}, NEW box \in BoxType(call.dim),
           NEW nb \in BOOLEAN, NEW at \in {NULL, Central}, NEW t,
           t = [fp |-> fp, loop |-> box, waits |-> Deps(<<Fut(1)>>), nb |-> nb, at |-> at, done |-> FALSE]
    PROVE  ChunkOf(t, box)
<1>1. PICK w : w = Deps(<<Fut(1)>>)
  OBVIOUS
<1>2. w = Waited /\ w \subseteq Promises
  BY <1>1, CppWaits, CallFacts DEF Waited
<1>3. t \in Records /\ ~t.done /\ t.fp = fp /\ t.loop = box /\ t.waits = w
  BY <1>1, <1>2 DEF Records
<1>4. Awaits(t, 2)
  BY ONLY <1>2, <1>3 DEF Awaits
<1> QED BY ONLY <1>3, <1>4, fp \in {"runner", "recursive"} DEF ChunkOf

\* The chunk of a one-dimensional flat loop and the upper half of a recursive
\* one.
LEMMA CppOneChunk ==
    ASSUME Shape, call.api = "cpp", NEW box \in BoxType(call.dim)
    PROVE  /\ ChunkOf(CppChunk(box, default_dist_func), box)
           /\ ChunkOf(async_await(initialize_task("recursive", box), Fut(1)), box)
<1>1. call.nb \in BOOLEAN
  BY CallFacts
<1>2. CppChunk(box, default_dist_func)
        = [fp |-> "runner", loop |-> box, waits |-> Deps(<<Fut(1)>>), nb |-> call.nb, at |-> Central, done |-> FALSE]
  <2>1. CppChunk(box, default_dist_func)
          = IF call.nb THEN async_nb_await_at(initialize_task("runner", box), Fut(1), Central)
            ELSE async_await_at(initialize_task("runner", box), Fut(1), Central)
    BY ONLY DEF CppChunk, default_dist_func
  <2> QED BY ONLY <1>1, <2>1 DEF initialize_task, Task, async_nb_await_at, async_await_at
<1>3. async_await(initialize_task("recursive", box), Fut(1))
        = [fp |-> "recursive", loop |-> box, waits |-> Deps(<<Fut(1)>>), nb |-> FALSE, at |-> NULL, done |-> FALSE]
  <2>1. PICK w : w = Deps(<<Fut(1)>>)
    OBVIOUS
  <2>2. async_await(initialize_task("recursive", box), Fut(1))
          = [initialize_task("recursive", box) EXCEPT !.waits = w]
    BY ONLY <2>1 DEF async_await
  <2> QED BY ONLY <2>1, <2>2 DEF initialize_task, Task
<1>4. ChunkOf(CppChunk(box, default_dist_func), box)
  BY <1>1, <1>2, CppTask
<1>5. ChunkOf(async_await(initialize_task("recursive", box), Fut(1)), box)
  BY <1>3, CppTask
<1> QED BY ONLY <1>4, <1>5

\* The chunks of the flat loops of two and three dimensions.
LEMMA CppManyChunks ==
    ASSUME Shape, call.api = "cpp", NEW boxes \in Seq(BoxType(call.dim))
    PROVE  ChunksOf(CppChunks(boxes), boxes)
<1>1. PICK new : new = CppChunks(boxes)
  OBVIOUS
<1>2. call.nb \in BOOLEAN
  BY CallFacts
<1>3. new = [n \in DOMAIN boxes |->
                IF call.nb THEN async_nb_await(initialize_task("runner", boxes[n]), Fut(1))
                ELSE async_await(initialize_task("runner", boxes[n]), Fut(1))]
  BY ONLY <1>1 DEF CppChunks
<1>4. DOMAIN new = DOMAIN boxes /\ new = [i \in DOMAIN boxes |-> new[i]]
  BY ONLY <1>3
<1>5. ASSUME NEW i \in DOMAIN boxes PROVE ChunkOf(new[i], boxes[i])
  <2>1. PICK box : box = boxes[i]
    OBVIOUS
  <2>2. box \in BoxType(call.dim)
    BY ONLY <2>1, boxes \in Seq(BoxType(call.dim)), i \in DOMAIN boxes
  <2>3. new[i] = IF call.nb THEN async_nb_await(initialize_task("runner", box), Fut(1))
                 ELSE async_await(initialize_task("runner", box), Fut(1))
    BY ONLY <1>3, <2>1, i \in DOMAIN boxes
  <2>4. new[i] = [fp |-> "runner", loop |-> box, waits |-> Deps(<<Fut(1)>>),
                  nb |-> call.nb, at |-> NULL, done |-> FALSE]
    BY ONLY <1>2, <2>3 DEF initialize_task, Task, async_nb_await, async_await
  <2>5. "runner" \in {"runner", "recursive"} /\ NULL \in {NULL, Central}
    OBVIOUS
  <2>6. ChunkOf(new[i], box)
    BY ONLY <1>2, <2>2, <2>4, <2>5, Shape, call.api = "cpp", CppTask, Zenon
  <2> QED BY ONLY <2>1, <2>6
<1>6. ChunksOf(new, boxes)
  BY ONLY <1>4, <1>5, boxes \in Seq(BoxType(call.dim)), ManyChunks, Zenon
<1> QED BY ONLY <1>1, <1>6

-----------------------------------------------------------------------------
(* Every step of a task *)

\* A task that may run is ready.
LEMMA ReadyToRun ==
    ASSUME NEW k \in DOMAIN task, NEW fp, Runs(k, fp)
    PROVE  Ready(k) /\ ~aborted /\ task[k].fp = fp
BY DEF Runs, Ready

\* A task that runs its box and returns.
LEMMA LastOutcome ==
    ASSUME IInv, Tiled, NEW k, Ready(k), task[k].fp # "flat" \/ Empty(Box(k)), Return(k, Box(k), << >>)
    PROVE  Outcome(k)
<1>1. Handed(k, TRUE, Box(k), << >>)
  BY LastHanded
<1> QED BY ONLY <1>1, Return(k, Box(k), << >>) DEF Outcome

\* A task that hands on the upper half of a loop.
LEMMA HalveOutcome ==
    ASSUME IInv, Tiled, NEW k, Ready(k), task[k].fp = "recursive", NEW d \in 1 .. call.dim,
           \/ call.api = "c" /\ Halve(k, d)
           \/ call.api = "cpp" /\ CppHalve(k, d)
    PROVE  Outcome(k)
<1>1. Shape /\ task[k] \in Records /\ ~task[k].done /\ Box(k) \in BoxType(call.dim)
  BY ReadyFacts DEF Ready
<1>2. call.dim \in 1 .. 3
  BY <1>1, CallFacts
<1>3. PICK upper : upper = UpperHalf(Box(k), d)
  OBVIOUS
<1>4. upper \in BoxType(call.dim)
  BY ONLY <1>1, <1>2, <1>3, d \in 1 .. call.dim, HalvesShape
<1>5. PICK t : t = IF call.api = "c" THEN [task[k] EXCEPT !.loop = upper]
                   ELSE async_await(initialize_task("recursive", upper), Fut(1))
  OBVIOUS
<1>6. Spawn(k, LowerHalf(Box(k), d), <<t>>)
  <2>1. CASE call.api = "c" /\ Halve(k, d)
    BY ONLY <1>3, <1>5, <2>1 DEF Halve
  <2>2. CASE call.api = "cpp" /\ CppHalve(k, d)
    BY ONLY <1>3, <1>5, <2>2 DEF CppHalve
  <2> QED BY <2>1, <2>2
<1>7. t \in Records /\ ~t.done /\ t.fp = "recursive" /\ Awaits(t, 2) /\ t.loop = upper
  <2>1. CASE call.api = "c"
    <3>1. t = [task[k] EXCEPT !.loop = upper]
      BY ONLY <1>5, <2>1
    <3>2. t \in Records /\ ~t.done /\ t.fp = "recursive" /\ t.loop = upper
      BY ONLY <1>1, <1>4, <3>1, task[k].fp = "recursive" DEF Records
    <3> QED BY ONLY <2>1, <3>2 DEF Awaits
  <2>2. CASE call.api = "cpp"
    <3>1. t = async_await(initialize_task("recursive", upper), Fut(1))
      BY ONLY <1>5, <2>2
    <3>2. ChunkOf(t, upper)
      BY ONLY <1>1, <1>4, <2>2, <3>1, CppOneChunk, Zenon
    <3>3. t.fp = "recursive"
      BY ONLY <3>1 DEF async_await, initialize_task, Task
    <3> QED BY ONLY <3>2, <3>3 DEF ChunkOf
  <2> QED BY <2>1, <2>2
<1>8. t.loop = UpperHalf(Box(k), d) /\ call.api # "async"
  BY <1>3, <1>7
<1>9. Handed(k, FALSE, LowerHalf(Box(k), d), <<t>>)
  BY <1>7, <1>8, HalfHanded, Zenon
<1> QED BY ONLY <1>6, <1>9 DEF Outcome

\* A turn of the outermost loop of forasync2D_flat or forasync3D_flat.
LEMMA SlabOutcome ==
    ASSUME IInv, Tiled, NEW k, Ready(k), task[k].fp = "flat", call.api \in {"c", "cpp"}, call.dim \in {2, 3},
           NEW boxes, boxes = IF call.dim = 2 THEN Slab2D(Box(k)) ELSE Slab3D(Box(k)),
           IF Box(k)[1].low < Box(k)[1].high
           THEN Spawn(k, BehindSlab(Box(k)), IF call.api = "c" THEN Chunks(k, boxes) ELSE CppChunks(boxes))
           ELSE Return(k, Box(k), << >>)
    PROVE  Outcome(k)
<1>1. CASE Box(k)[1].low < Box(k)[1].high
  <2>1. Shape
    BY ReadyFacts
  <2>2. /\ Box(k) \in BoxType(call.dim)
        /\ \A d \in 1 .. call.dim : Spaced(Box(k)[d])
    BY RestFacts
  <2>3. boxes \in Seq(BoxType(call.dim))
    <3>1. CASE call.dim = 2
      <4>1. Box(k) \in BoxType(2) /\ Spaced(Box(k)[2]) /\ boxes = Slab2D(Box(k))
        BY <2>2, <3>1
      <4>2. boxes \in Seq(BoxType(2))
        BY ONLY <4>1, SlabShape2D
      <4> QED BY ONLY <3>1, <4>2
    <3>2. CASE call.dim = 3
      <4>1. Box(k) \in BoxType(3) /\ Spaced(Box(k)[2]) /\ Spaced(Box(k)[3]) /\ boxes = Slab3D(Box(k))
        BY <2>2, <3>2
      <4>2. boxes \in Seq(BoxType(3))
        BY ONLY <4>1, SlabShape3D
      <4> QED BY ONLY <3>2, <4>2
    <3> QED BY <3>1, <3>2
  <2>4. PICK new : new = IF call.api = "c" THEN Chunks(k, boxes) ELSE CppChunks(boxes)
    OBVIOUS
  <2>5. ChunksOf(new, boxes)
    <3>1. CASE call.api = "c"
      <4>1. ChunksOf(Chunks(k, boxes), boxes)
        BY <2>3, <3>1, CChunks
      <4> QED BY ONLY <2>4, <3>1, <4>1
    <3>2. CASE call.api = "cpp"
      <4>1. ChunksOf(CppChunks(boxes), boxes)
        BY <2>1, <2>3, <3>2, CppManyChunks
      <4> QED BY ONLY <2>4, <3>2, <4>1
    <3> QED BY <3>1, <3>2
  <2>6. \/ call.dim = 2 /\ boxes = Slab2D(Box(k))
        \/ call.dim = 3 /\ boxes = Slab3D(Box(k))
    OBVIOUS
  <2>7. call.api # "async"
    OBVIOUS
  <2>8. Handed(k, FALSE, BehindSlab(Box(k)), new)
    BY ONLY IInv, Tiled, Ready(k), task[k].fp = "flat", <1>1, <2>5, <2>6, <2>7, SlabHanded, Zenon
  <2>9. Spawn(k, BehindSlab(Box(k)), new)
    BY <1>1, <2>4
  <2> QED BY ONLY <2>8, <2>9 DEF Outcome
<1>2. CASE ~(Box(k)[1].low < Box(k)[1].high)
  <2>1. Box(k)[1] \in LoopType
    <3>1. 1 \in 1 .. call.dim
      OBVIOUS
    <3> QED BY <3>1, RestFacts
  <2>2. Empty(Box(k))
    BY ONLY <1>2, <2>1 DEF Empty, LoopType
  <2>3. Return(k, Box(k), << >>)
    BY <1>2
  <2> QED BY <2>2, <2>3, LastOutcome
<1> QED BY <1>1, <1>2

\* The wrapper of a lambda with a result returns as any task does.
LEMMA PutReturns ==
    ASSUME IInv, Tiled, NEW k \in DOMAIN task, call_and_put_wrapper(k)
    PROVE  Ready(k) /\ ~aborted /\ task[k].fp = "call_and_put" /\ Return(k, Box(k), << >>)
<1>1. Ready(k) /\ ~aborted /\ task[k].fp = "call_and_put"
  BY ReadyToRun DEF call_and_put_wrapper
<1>2. task \in Seq(Records) /\ task[k] \in Records /\ counter = Cardinality(Undone) /\ AsyncInv
  BY <1>1, ReadyFacts
<1>3. Undone = {2}
  <2>1. k \in Undone
    BY <1>1 DEF Ready, Undone
  <2>2. Undone \subseteq {2}
    BY <1>1, <1>2 DEF AsyncInv
  <2> QED BY ONLY <2>1, <2>2
<1>4. counter = 1
  <2>1. Cardinality({2}) = 1
    BY FS_Singleton
  <2> QED BY ONLY <1>2, <1>3, <2>1, Zenon
<1>5. task' = [task EXCEPT ![k].done = TRUE] /\ counter' = counter - 1 /\ event' = TRUE
      /\ UNCHANGED <<call, domain, satisfied, aborted>>
  BY DEF call_and_put_wrapper
<1>6. counter' = counter + Len(<< >>) - 1 /\ event' = (counter' = 0)
  <2>1. Len(<< >>) = 0
    OBVIOUS
  <2>2. counter' = 0
    BY ONLY <1>4, <1>5
  <2>3. counter' = counter + Len(<< >>) - 1
    BY ONLY <1>4, <1>5, <2>1
  <2>4. event' = (counter' = 0)
    BY ONLY <1>5, <2>2
  <2> QED BY ONLY <2>3, <2>4
<1>7. PICK r, old : /\ r = [task[k] EXCEPT !.done = TRUE, !.loop = Box(k)] /\ old = [task EXCEPT ![k] = r]
  OBVIOUS
<1>8. r = [task[k] EXCEPT !.done = TRUE] /\ r \in Records
  BY ONLY <1>2, <1>7 DEF Records, Box
<1> HIDE DEF Records
<1>9. old \in Seq(Records) /\ task' = old
  <2>1. task' = [task EXCEPT ![k] = [task[k] EXCEPT !.done = TRUE]]
    BY ONLY <1>5
  <2>2. task' = [task EXCEPT ![k] = r]
    BY ONLY <1>8, <2>1
  <2>3. old \in Seq(Records)
    BY ONLY <1>2, <1>7, <1>8, k \in DOMAIN task
  <2> QED BY ONLY <1>7, <2>2, <2>3
<1>10. old \o << >> = old
  BY ONLY <1>9
<1>11. task' = [task EXCEPT ![k] = r] \o << >>
  BY ONLY <1>7, <1>9, <1>10
<1>12. task' = [task EXCEPT ![k] = [@ EXCEPT !.done = TRUE, !.loop = Box(k)]] \o << >>
  BY ONLY <1>7, <1>11
<1>13. Return(k, Box(k), << >>)
  BY <1>5, <1>6, <1>12 DEF Return
<1> QED BY ONLY <1>1, <1>13

\* Every step of a task of the C interface ...
LEMMA TaskStepOutcome ==
    ASSUME IInv, Tiled, NEW k \in DOMAIN task, TaskStep(k)
    PROVE  Ready(k) /\ ~aborted /\ Outcome(k)
<1>1. PICK fp, dim : Body(k, fp, dim)
  BY DEF TaskStep, forasync1D_runner, forasync2D_runner, forasync3D_runner, forasync1D_recursive,
         forasync2D_recursive, forasync3D_recursive, forasync1D_flat, forasync2D_flat, forasync3D_flat
<1>2. Ready(k) /\ ~aborted /\ call.api = "c" /\ call.api # "async"
  BY <1>1, ReadyToRun DEF Body
<1>3. call.dim \in 1 .. 3 /\ Box(k) \in BoxType(call.dim)
  BY <1>2, ReadyFacts, CallFacts
<1>4. CASE \/ forasync1D_runner(k) \/ forasync2D_runner(k) \/ forasync3D_runner(k)
  <2>1. Return(k, Box(k), << >>) /\ task[k].fp # "flat"
    BY <1>4 DEF forasync1D_runner, forasync2D_runner, forasync3D_runner, Body, Runs
  <2> QED BY <1>2, <2>1, LastOutcome
<1>5. CASE \/ forasync1D_recursive(k) \/ forasync2D_recursive(k) \/ forasync3D_recursive(k)
  <2>1. task[k].fp = "recursive"
    BY <1>5 DEF forasync1D_recursive, forasync2D_recursive, forasync3D_recursive, Body, Runs
  <2>2. Return(k, Box(k), << >>) \/ \E d \in 1 .. call.dim : Halve(k, d)
    BY <1>5 DEF forasync1D_recursive, forasync2D_recursive, forasync3D_recursive, Body
  <2>3. CASE Return(k, Box(k), << >>)
    BY <1>2, <2>1, <2>3, LastOutcome
  <2>4. ASSUME NEW d \in 1 .. call.dim, Halve(k, d) PROVE Outcome(k)
    BY <1>2, <2>1, <2>4, HalveOutcome
  <2> QED BY <1>2, <2>2, <2>3, <2>4
<1>6. CASE forasync1D_flat(k)
  <2>1. task[k].fp = "flat" /\ call.dim = 1 /\ FlatTurn(k, Chunk(k, Box(k)))
    BY <1>6 DEF forasync1D_flat, Body, Runs
  <2>2. ChunkOf(Chunk(k, Box(k)), Box(k))
    BY <1>2, <1>3, CChunk
  <2> QED BY <1>2, <2>1, <2>2, FlatTurnOutcome
<1>7. CASE forasync2D_flat(k) \/ forasync3D_flat(k)
  <2>1. task[k].fp = "flat" /\ call.dim \in {2, 3}
    BY <1>7 DEF forasync2D_flat, forasync3D_flat, Body, Runs
  <2>2. PICK boxes : boxes = IF call.dim = 2 THEN Slab2D(Box(k)) ELSE Slab3D(Box(k))
    OBVIOUS
  <2>3. IF Box(k)[1].low < Box(k)[1].high THEN Spawn(k, BehindSlab(Box(k)), Chunks(k, boxes))
        ELSE Return(k, Box(k), << >>)
    <3>1. CASE forasync2D_flat(k)
      <4>1. call.dim = 2
        BY <3>1 DEF forasync2D_flat, Body
      <4>2. boxes = Slab2D(Box(k))
        BY ONLY <2>2, <4>1
      <4> QED BY ONLY <3>1, <4>2 DEF forasync2D_flat
    <3>2. CASE forasync3D_flat(k)
      <4>1. call.dim = 3
        BY <3>2 DEF forasync3D_flat, Body
      <4>2. boxes = Slab3D(Box(k))
        BY ONLY <2>2, <4>1
      <4> QED BY ONLY <3>2, <4>2 DEF forasync3D_flat
    <3> QED BY <1>7, <3>1, <3>2
  <2>4. IF Box(k)[1].low < Box(k)[1].high
        THEN Spawn(k, BehindSlab(Box(k)), IF call.api = "c" THEN Chunks(k, boxes) ELSE CppChunks(boxes))
        ELSE Return(k, Box(k), << >>)
    BY ONLY <1>2, <2>3
  <2> QED BY <1>2, <2>1, <2>2, <2>4, SlabOutcome
<1> QED BY <1>2, <1>4, <1>5, <1>6, <1>7 DEF TaskStep

\* ... and of the C++ interface.
LEMMA CppStepOutcome ==
    ASSUME IInv, Tiled, NEW k \in DOMAIN task, CppStep(k)
    PROVE  Ready(k) /\ ~aborted /\ Outcome(k)
<1>0. CASE call_and_put_wrapper(k)
  <2>1. Ready(k) /\ ~aborted /\ task[k].fp = "call_and_put" /\ Return(k, Box(k), << >>)
    BY <1>0, PutReturns
  <2>2. task[k].fp # "flat"
    BY <2>1
  <2> QED BY <2>1, <2>2, LastOutcome
<1>1. CASE call_lambda(k) \/ forasync1D_seq(k) \/ forasync2D_seq(k)
  <2>1. PICK fp \in {"runner", "seq"} : Runs(k, fp) /\ Return(k, Box(k), << >>)
    BY <1>1 DEF call_lambda, forasync1D_seq, forasync2D_seq, CppBody
  <2>2. Ready(k) /\ ~aborted /\ task[k].fp # "flat"
    BY <2>1, ReadyToRun
  <2> QED BY <2>1, <2>2, LastOutcome
<1>2. CASE \/ cpp_forasync1D_recursive(k) \/ cpp_forasync2D_recursive(k) \/ cpp_forasync3D_recursive(k)
  <2>1. call.api = "cpp" /\ Runs(k, "recursive")
    BY <1>2 DEF cpp_forasync1D_recursive, cpp_forasync2D_recursive, cpp_forasync3D_recursive, CppBody
  <2>2. Ready(k) /\ ~aborted /\ task[k].fp = "recursive"
    BY <2>1, ReadyToRun
  <2>3. Return(k, Box(k), << >>) \/ \E d \in 1 .. call.dim : CppHalve(k, d)
    BY <1>2 DEF cpp_forasync1D_recursive, cpp_forasync2D_recursive, cpp_forasync3D_recursive, CppBody
  <2>4. CASE Return(k, Box(k), << >>)
    BY <2>2, <2>4, LastOutcome
  <2>5. ASSUME NEW d \in 1 .. call.dim, CppHalve(k, d) PROVE Outcome(k)
    BY <2>1, <2>2, <2>5, HalveOutcome
  <2> QED BY <2>2, <2>3, <2>4, <2>5
<1>3. CASE \/ cpp_forasync1D_flat(k) \/ cpp_forasync2D_flat(k) \/ cpp_forasync3D_flat(k)
  <2>1. call.api = "cpp" /\ Runs(k, "flat")
    BY <1>3 DEF cpp_forasync1D_flat, cpp_forasync2D_flat, cpp_forasync3D_flat, CppBody
  <2>2. Ready(k) /\ ~aborted /\ task[k].fp = "flat" /\ call.api # "async"
    BY <2>1, ReadyToRun
  <2>3. Shape /\ Box(k) \in BoxType(call.dim)
    BY <2>2, ReadyFacts
  <2>4. CASE cpp_forasync1D_flat(k)
    <3>1. call.dim = 1 /\ FlatTurn(k, CppChunk(Box(k), default_dist_func))
      BY <2>4 DEF cpp_forasync1D_flat, CppBody
    <3>2. ChunkOf(CppChunk(Box(k), default_dist_func), Box(k))
      BY <2>1, <2>3, CppOneChunk
    <3> QED BY <2>2, <3>1, <3>2, FlatTurnOutcome
  <2>5. CASE cpp_forasync2D_flat(k) \/ cpp_forasync3D_flat(k)
    <3>1. call.dim \in {2, 3}
      BY <2>5 DEF cpp_forasync2D_flat, cpp_forasync3D_flat, CppBody
    <3>2. PICK boxes : boxes = IF call.dim = 2 THEN Slab2D(Box(k)) ELSE Slab3D(Box(k))
      OBVIOUS
    <3>3. IF Box(k)[1].low < Box(k)[1].high THEN Spawn(k, BehindSlab(Box(k)), CppChunks(boxes))
          ELSE Return(k, Box(k), << >>)
      <4>1. CASE cpp_forasync2D_flat(k)
        <5>1. call.dim = 2
          BY <4>1 DEF cpp_forasync2D_flat, CppBody
        <5>2. boxes = Slab2D(Box(k))
          BY ONLY <3>2, <5>1
        <5> QED BY ONLY <4>1, <5>2 DEF cpp_forasync2D_flat
      <4>2. CASE cpp_forasync3D_flat(k)
        <5>1. call.dim = 3
          BY <4>2 DEF cpp_forasync3D_flat, CppBody
        <5>2. boxes = Slab3D(Box(k))
          BY ONLY <3>2, <5>1
        <5> QED BY ONLY <4>2, <5>2 DEF cpp_forasync3D_flat
      <4> QED BY <2>5, <4>1, <4>2
    <3>4. IF Box(k)[1].low < Box(k)[1].high
          THEN Spawn(k, BehindSlab(Box(k)), IF call.api = "c" THEN Chunks(k, boxes) ELSE CppChunks(boxes))
          ELSE Return(k, Box(k), << >>)
      BY ONLY <2>1, <3>3
    <3> QED BY <2>1, <2>2, <3>1, <3>2, <3>4, SlabOutcome
  <2> QED BY <1>3, <2>2, <2>4, <2>5
<1> QED BY <1>0, <1>1, <1>2, <1>3 DEF CppStep

-----------------------------------------------------------------------------
(* hclib-async.h *)

\* A task that a function of hclib-async.h makes of lambda l.
Made(t, l, w) ==
    \E fp \in {"runner", "call_and_put"}, nb \in BOOLEAN, at \in {NULL, call.at} :
        t = [fp |-> fp, loop |-> l, waits |-> w, nb |-> nb, at |-> at, done |-> FALSE]

\* The functions that take no future ...
LEMMA MadeWithNone ==
    ASSUME NEW l, call.fn \in NoFuture
    PROVE  Made(AsyncTask(l), l, {})
<1>0. PICK w : w = {}
  OBVIOUS
<1>1. CASE call.fn = "async"
  <2>1. AsyncTask(l) = async(initialize_task("runner", l))
    BY ONLY <1>1 DEF AsyncTask
  <2>2. async(initialize_task("runner", l)) = initialize_task("runner", l)
    BY ONLY <1>0 DEF async
  <2>3. async(initialize_task("runner", l))
          = [fp |-> "runner", loop |-> l, waits |-> w, nb |-> FALSE, at |-> NULL, done |-> FALSE]
    BY ONLY <1>0, <2>2 DEF initialize_task, Task
  <2> QED BY ONLY <1>0, <2>1, <2>3 DEF Made
<1>2. CASE call.fn = "async_at"
  <2>1. AsyncTask(l) = async_at(initialize_task("runner", l), call.at)
    BY ONLY <1>2 DEF AsyncTask
  <2>2. async_at(initialize_task("runner", l), call.at) = [initialize_task("runner", l) EXCEPT !.at = call.at]
    BY ONLY <1>0 DEF async_at
  <2>3. async_at(initialize_task("runner", l), call.at)
          = [fp |-> "runner", loop |-> l, waits |-> w, nb |-> FALSE, at |-> call.at, done |-> FALSE]
    BY ONLY <1>0, <2>2 DEF initialize_task, Task
  <2> QED BY ONLY <1>0, <2>1, <2>3 DEF Made
<1>3. CASE call.fn = "async_nb"
  <2>1. AsyncTask(l) = async_nb(initialize_task("runner", l))
    BY ONLY <1>3 DEF AsyncTask
  <2>2. async_nb(initialize_task("runner", l)) = [initialize_task("runner", l) EXCEPT !.nb = TRUE]
    BY ONLY <1>0 DEF async_nb
  <2>3. async_nb(initialize_task("runner", l))
          = [fp |-> "runner", loop |-> l, waits |-> w, nb |-> TRUE, at |-> NULL, done |-> FALSE]
    BY ONLY <1>0, <2>2 DEF initialize_task, Task
  <2> QED BY ONLY <1>0, <2>1, <2>3 DEF Made
<1>4. CASE call.fn = "async_nb_at"
  <2>1. AsyncTask(l) = async_nb_at(initialize_task("runner", l), call.at)
    BY ONLY <1>4 DEF AsyncTask
  <2>2. async_nb_at(initialize_task("runner", l), call.at)
          = [initialize_task("runner", l) EXCEPT !.nb = TRUE, !.at = call.at]
    BY ONLY <1>0 DEF async_nb_at
  <2>3. async_nb_at(initialize_task("runner", l), call.at)
          = [fp |-> "runner", loop |-> l, waits |-> w, nb |-> TRUE, at |-> call.at, done |-> FALSE]
    BY ONLY <1>0, <2>2 DEF initialize_task, Task
  <2> QED BY ONLY <1>0, <2>1, <2>3 DEF Made
<1>5. CASE call.fn = "async_future"
  <2>1. AsyncTask(l) = async_future(l)
    BY ONLY <1>5 DEF AsyncTask
  <2>2. async_future(l) = Wrapped(l)
    BY ONLY <1>0 DEF async_future, async
  <2>3. async_future(l)
          = [fp |-> "call_and_put", loop |-> l, waits |-> w, nb |-> FALSE, at |-> NULL, done |-> FALSE]
    BY ONLY <1>0, <2>2 DEF initialize_task, Task, Wrapped
  <2> QED BY ONLY <1>0, <2>1, <2>3 DEF Made
<1>6. CASE call.fn = "async_nb_future"
  <2>1. AsyncTask(l) = async_nb_future(l)
    BY ONLY <1>6 DEF AsyncTask
  <2>2. async_nb_future(l) = [Wrapped(l) EXCEPT !.nb = TRUE]
    BY ONLY <1>0 DEF async_nb_future, async_nb
  <2>3. async_nb_future(l)
          = [fp |-> "call_and_put", loop |-> l, waits |-> w, nb |-> TRUE, at |-> NULL, done |-> FALSE]
    BY ONLY <1>0, <2>2 DEF initialize_task, Task, Wrapped
  <2> QED BY ONLY <1>0, <2>1, <2>3 DEF Made
<1>7. CASE call.fn = "async_future_at"
  <2>1. AsyncTask(l) = async_future_at(l, call.at)
    BY ONLY <1>7 DEF AsyncTask
  <2>2. async_future_at(l, call.at) = [Wrapped(l) EXCEPT !.at = call.at, !.nb = FALSE]
    BY ONLY <1>0 DEF async_future_at, async_future_at_helper
  <2>3. async_future_at(l, call.at)
          = [fp |-> "call_and_put", loop |-> l, waits |-> w, nb |-> FALSE, at |-> call.at, done |-> FALSE]
    BY ONLY <1>0, <2>2 DEF initialize_task, Task, Wrapped
  <2> QED BY ONLY <1>0, <2>1, <2>3 DEF Made
<1>8. CASE call.fn = "async_nb_future_at"
  <2>1. AsyncTask(l) = async_nb_future_at(l, call.at)
    BY ONLY <1>8 DEF AsyncTask
  <2>2. async_nb_future_at(l, call.at) = [Wrapped(l) EXCEPT !.at = call.at, !.nb = TRUE]
    BY ONLY <1>0 DEF async_nb_future_at, async_future_at_helper
  <2>3. async_nb_future_at(l, call.at)
          = [fp |-> "call_and_put", loop |-> l, waits |-> w, nb |-> TRUE, at |-> call.at, done |-> FALSE]
    BY ONLY <1>0, <2>2 DEF initialize_task, Task, Wrapped
  <2> QED BY ONLY <1>0, <2>1, <2>3 DEF Made
<1> QED BY <1>1, <1>2, <1>3, <1>4, <1>5, <1>6, <1>7, <1>8 DEF NoFuture

\* ... one future ...
LEMMA MadeWithOne ==
    ASSUME NEW l, call.fn \in OneFuture
    PROVE  Made(AsyncTask(l), l, Deps(<<Fut(1)>>))
<1>0. PICK w : w = Deps(<<Fut(1)>>)
  OBVIOUS
<1>1. CASE call.fn = "async_nb_await"
  <2>1. AsyncTask(l) = async_nb_await(initialize_task("runner", l), Fut(1))
    BY ONLY <1>1 DEF AsyncTask
  <2>2. async_nb_await(initialize_task("runner", l), Fut(1))
          = [initialize_task("runner", l) EXCEPT !.nb = TRUE, !.waits = w]
    BY ONLY <1>0 DEF async_nb_await
  <2>3. async_nb_await(initialize_task("runner", l), Fut(1))
          = [fp |-> "runner", loop |-> l, waits |-> w, nb |-> TRUE, at |-> NULL, done |-> FALSE]
    BY ONLY <1>0, <2>2 DEF initialize_task, Task
  <2> QED BY ONLY <1>0, <2>1, <2>3 DEF Made
<1>2. CASE call.fn = "async_nb_await_at"
  <2>1. AsyncTask(l) = async_nb_await_at(initialize_task("runner", l), Fut(1), call.at)
    BY ONLY <1>2 DEF AsyncTask
  <2>2. async_nb_await_at(initialize_task("runner", l), Fut(1), call.at)
          = [initialize_task("runner", l) EXCEPT !.nb = TRUE, !.waits = w, !.at = call.at]
    BY ONLY <1>0 DEF async_nb_await_at
  <2>3. async_nb_await_at(initialize_task("runner", l), Fut(1), call.at)
          = [fp |-> "runner", loop |-> l, waits |-> w, nb |-> TRUE, at |-> call.at, done |-> FALSE]
    BY ONLY <1>0, <2>2 DEF initialize_task, Task
  <2> QED BY ONLY <1>0, <2>1, <2>3 DEF Made
<1>3. CASE call.fn = "async_await"
  <2>1. AsyncTask(l) = async_await(initialize_task("runner", l), Fut(1))
    BY ONLY <1>3 DEF AsyncTask
  <2>2. async_await(initialize_task("runner", l), Fut(1)) = [initialize_task("runner", l) EXCEPT !.waits = w]
    BY ONLY <1>0 DEF async_await
  <2>3. async_await(initialize_task("runner", l), Fut(1))
          = [fp |-> "runner", loop |-> l, waits |-> w, nb |-> FALSE, at |-> NULL, done |-> FALSE]
    BY ONLY <1>0, <2>2 DEF initialize_task, Task
  <2> QED BY ONLY <1>0, <2>1, <2>3 DEF Made
<1>4. CASE call.fn = "async_await_at"
  <2>1. AsyncTask(l) = async_await_at(initialize_task("runner", l), Fut(1), call.at)
    BY ONLY <1>4 DEF AsyncTask
  <2>2. async_await_at(initialize_task("runner", l), Fut(1), call.at)
          = [initialize_task("runner", l) EXCEPT !.waits = w, !.at = call.at]
    BY ONLY <1>0 DEF async_await_at
  <2>3. async_await_at(initialize_task("runner", l), Fut(1), call.at)
          = [fp |-> "runner", loop |-> l, waits |-> w, nb |-> FALSE, at |-> call.at, done |-> FALSE]
    BY ONLY <1>0, <2>2 DEF initialize_task, Task
  <2> QED BY ONLY <1>0, <2>1, <2>3 DEF Made
<1>5. CASE call.fn = "async_future_await"
  <2>1. AsyncTask(l) = async_future_await(l, Fut(1))
    BY ONLY <1>5 DEF AsyncTask
  <2>2. async_future_await(l, Fut(1)) = [Wrapped(l) EXCEPT !.waits = w]
    BY ONLY <1>0 DEF async_future_await, async_await
  <2>3. async_future_await(l, Fut(1))
          = [fp |-> "call_and_put", loop |-> l, waits |-> w, nb |-> FALSE, at |-> NULL, done |-> FALSE]
    BY ONLY <1>0, <2>2 DEF initialize_task, Task, Wrapped
  <2> QED BY ONLY <1>0, <2>1, <2>3 DEF Made
<1>6. CASE call.fn = "async_nb_future_await"
  <2>1. AsyncTask(l) = async_nb_future_await(l, Fut(1))
    BY ONLY <1>6 DEF AsyncTask
  <2>2. async_nb_future_await(l, Fut(1)) = [Wrapped(l) EXCEPT !.waits = w, !.at = NULL, !.nb = TRUE]
    BY ONLY <1>0, AwaitedOne DEF async_nb_future_await, async_future_await_at_helper, async_await_at_helper
  <2>3. async_nb_future_await(l, Fut(1))
          = [fp |-> "call_and_put", loop |-> l, waits |-> w, nb |-> TRUE, at |-> NULL, done |-> FALSE]
    BY ONLY <1>0, <2>2 DEF initialize_task, Task, Wrapped
  <2> QED BY ONLY <1>0, <2>1, <2>3 DEF Made
<1>7. CASE call.fn = "async_future_await_at"
  <2>1. AsyncTask(l) = async_future_await_at(l, Fut(1), call.at)
    BY ONLY <1>7 DEF AsyncTask
  <2>2. async_future_await_at(l, Fut(1), call.at) = [Wrapped(l) EXCEPT !.waits = w, !.at = call.at]
    BY ONLY <1>0 DEF async_future_await_at, async_await_at
  <2>3. async_future_await_at(l, Fut(1), call.at)
          = [fp |-> "call_and_put", loop |-> l, waits |-> w, nb |-> FALSE, at |-> call.at, done |-> FALSE]
    BY ONLY <1>0, <2>2 DEF initialize_task, Task, Wrapped
  <2> QED BY ONLY <1>0, <2>1, <2>3 DEF Made
<1> QED BY <1>1, <1>2, <1>3, <1>4, <1>5, <1>6, <1>7 DEF OneFuture

\* ... two futures ...
LEMMA MadeWithTwo ==
    ASSUME NEW l, call.fn \in TwoFutures
    PROVE  Made(AsyncTask(l), l, Deps(<<Fut(1), Fut(2)>>))
<1>0. PICK w : w = Deps(<<Fut(1), Fut(2)>>)
  OBVIOUS
<1>1. CASE call.fn = "async_await_2"
  <2>1. AsyncTask(l) = async_await_2(initialize_task("runner", l), Fut(1), Fut(2))
    BY ONLY <1>1 DEF AsyncTask
  <2>2. async_await_2(initialize_task("runner", l), Fut(1), Fut(2))
          = [initialize_task("runner", l) EXCEPT !.waits = w]
    BY ONLY <1>0 DEF async_await_2
  <2>3. async_await_2(initialize_task("runner", l), Fut(1), Fut(2))
          = [fp |-> "runner", loop |-> l, waits |-> w, nb |-> FALSE, at |-> NULL, done |-> FALSE]
    BY ONLY <1>0, <2>2 DEF initialize_task, Task
  <2> QED BY ONLY <1>0, <2>1, <2>3 DEF Made
<1>2. CASE call.fn = "async_await_at_2"
  <2>1. AsyncTask(l) = async_await_at_2(initialize_task("runner", l), Fut(1), Fut(2), call.at)
    BY ONLY <1>2 DEF AsyncTask
  <2>2. async_await_at_2(initialize_task("runner", l), Fut(1), Fut(2), call.at)
          = [initialize_task("runner", l) EXCEPT !.waits = w, !.at = call.at]
    BY ONLY <1>0 DEF async_await_at_2
  <2>3. async_await_at_2(initialize_task("runner", l), Fut(1), Fut(2), call.at)
          = [fp |-> "runner", loop |-> l, waits |-> w, nb |-> FALSE, at |-> call.at, done |-> FALSE]
    BY ONLY <1>0, <2>2 DEF initialize_task, Task
  <2> QED BY ONLY <1>0, <2>1, <2>3 DEF Made
<1> QED BY <1>1, <1>2 DEF TwoFutures

\* ... four futures ...
LEMMA MadeWithFour ==
    ASSUME NEW l, call.fn = "async_await_4"
    PROVE  Made(AsyncTask(l), l, Deps(<<Fut(1), Fut(2), Fut(3), Fut(4)>>))
<1>0. PICK w : w = Deps(<<Fut(1), Fut(2), Fut(3), Fut(4)>>)
  OBVIOUS
<1>1. CASE call.fn = "async_await_4"
  <2>1. AsyncTask(l) = async_await_4(initialize_task("runner", l), Fut(1), Fut(2), Fut(3), Fut(4))
    BY ONLY <1>1 DEF AsyncTask
  <2>2. async_await_4(initialize_task("runner", l), Fut(1), Fut(2), Fut(3), Fut(4))
          = [initialize_task("runner", l) EXCEPT !.waits = w]
    BY ONLY <1>0 DEF async_await_4
  <2>3. async_await_4(initialize_task("runner", l), Fut(1), Fut(2), Fut(3), Fut(4))
          = [fp |-> "runner", loop |-> l, waits |-> w, nb |-> FALSE, at |-> NULL, done |-> FALSE]
    BY ONLY <1>0, <2>2 DEF initialize_task, Task
  <2> QED BY ONLY <1>0, <2>1, <2>3 DEF Made
<1> QED BY <1>1

\* ... and a vector of futures.
LEMMA MadeWithVector ==
    ASSUME NEW l, call.fn \in FutureVector
    PROVE  Made(AsyncTask(l), l, Awaited(call.fut))
<1>0. PICK w : w = Awaited(call.fut)
  OBVIOUS
<1>1. CASE call.fn = "async_await_vector"
  <2>1. AsyncTask(l) = async_await_vector(initialize_task("runner", l), call.fut)
    BY ONLY <1>1 DEF AsyncTask
  <2>2. async_await_vector(initialize_task("runner", l), call.fut)
          = [initialize_task("runner", l) EXCEPT !.waits = w, !.at = NULL, !.nb = FALSE]
    BY ONLY <1>0 DEF async_await_vector, async_await_at_helper
  <2>3. async_await_vector(initialize_task("runner", l), call.fut)
          = [fp |-> "runner", loop |-> l, waits |-> w, nb |-> FALSE, at |-> NULL, done |-> FALSE]
    BY ONLY <1>0, <2>2 DEF initialize_task, Task
  <2> QED BY ONLY <1>0, <2>1, <2>3 DEF Made
<1>2. CASE call.fn = "async_await_at_vector"
  <2>1. AsyncTask(l) = async_await_at_vector(initialize_task("runner", l), call.fut, call.at)
    BY ONLY <1>2 DEF AsyncTask
  <2>2. async_await_at_vector(initialize_task("runner", l), call.fut, call.at)
          = [initialize_task("runner", l) EXCEPT !.waits = w, !.at = call.at, !.nb = FALSE]
    BY ONLY <1>0 DEF async_await_at_vector, async_await_at_helper
  <2>3. async_await_at_vector(initialize_task("runner", l), call.fut, call.at)
          = [fp |-> "runner", loop |-> l, waits |-> w, nb |-> FALSE, at |-> call.at, done |-> FALSE]
    BY ONLY <1>0, <2>2 DEF initialize_task, Task
  <2> QED BY ONLY <1>0, <2>1, <2>3 DEF Made
<1>3. CASE call.fn = "async_nb_await_vector"
  <2>1. AsyncTask(l) = async_nb_await_vector(initialize_task("runner", l), call.fut)
    BY ONLY <1>3 DEF AsyncTask
  <2>2. async_nb_await_vector(initialize_task("runner", l), call.fut)
          = [initialize_task("runner", l) EXCEPT !.waits = w, !.at = NULL, !.nb = TRUE]
    BY ONLY <1>0 DEF async_nb_await_vector, async_await_at_helper
  <2>3. async_nb_await_vector(initialize_task("runner", l), call.fut)
          = [fp |-> "runner", loop |-> l, waits |-> w, nb |-> TRUE, at |-> NULL, done |-> FALSE]
    BY ONLY <1>0, <2>2 DEF initialize_task, Task
  <2> QED BY ONLY <1>0, <2>1, <2>3 DEF Made
<1>4. CASE call.fn = "async_nb_await_at_vector"
  <2>1. AsyncTask(l) = async_nb_await_at_vector(initialize_task("runner", l), call.fut, call.at)
    BY ONLY <1>4 DEF AsyncTask
  <2>2. async_nb_await_at_vector(initialize_task("runner", l), call.fut, call.at)
          = [initialize_task("runner", l) EXCEPT !.waits = w, !.at = call.at, !.nb = TRUE]
    BY ONLY <1>0 DEF async_nb_await_at_vector, async_await_at_helper
  <2>3. async_nb_await_at_vector(initialize_task("runner", l), call.fut, call.at)
          = [fp |-> "runner", loop |-> l, waits |-> w, nb |-> TRUE, at |-> call.at, done |-> FALSE]
    BY ONLY <1>0, <2>2 DEF initialize_task, Task
  <2> QED BY ONLY <1>0, <2>1, <2>3 DEF Made
<1>5. CASE call.fn = "async_future_await_vector"
  <2>1. AsyncTask(l) = async_future_await_vector(l, call.fut)
    BY ONLY <1>5 DEF AsyncTask
  <2>2. async_future_await_vector(l, call.fut) = [Wrapped(l) EXCEPT !.waits = w, !.at = NULL, !.nb = FALSE]
    BY ONLY <1>0 DEF async_future_await_vector, async_future_await_at_helper, async_await_at_helper
  <2>3. async_future_await_vector(l, call.fut)
          = [fp |-> "call_and_put", loop |-> l, waits |-> w, nb |-> FALSE, at |-> NULL, done |-> FALSE]
    BY ONLY <1>0, <2>2 DEF initialize_task, Task, Wrapped
  <2> QED BY ONLY <1>0, <2>1, <2>3 DEF Made
<1>6. CASE call.fn = "async_nb_future_await_vector"
  <2>1. AsyncTask(l) = async_nb_future_await_vector(l, call.fut)
    BY ONLY <1>6 DEF AsyncTask
  <2>2. async_nb_future_await_vector(l, call.fut) = [Wrapped(l) EXCEPT !.waits = w, !.at = NULL, !.nb = TRUE]
    BY ONLY <1>0 DEF async_nb_future_await_vector, async_future_await_at_helper, async_await_at_helper
  <2>3. async_nb_future_await_vector(l, call.fut)
          = [fp |-> "call_and_put", loop |-> l, waits |-> w, nb |-> TRUE, at |-> NULL, done |-> FALSE]
    BY ONLY <1>0, <2>2 DEF initialize_task, Task, Wrapped
  <2> QED BY ONLY <1>0, <2>1, <2>3 DEF Made
<1>7. CASE call.fn = "async_future_await_at_vector"
  <2>1. AsyncTask(l) = async_future_await_at_vector(l, call.fut, call.at)
    BY ONLY <1>7 DEF AsyncTask
  <2>2. async_future_await_at_vector(l, call.fut, call.at)
          = [Wrapped(l) EXCEPT !.waits = w, !.at = call.at, !.nb = FALSE]
    BY ONLY <1>0 DEF async_future_await_at_vector, async_future_await_at_helper, async_await_at_helper
  <2>3. async_future_await_at_vector(l, call.fut, call.at)
          = [fp |-> "call_and_put", loop |-> l, waits |-> w, nb |-> FALSE, at |-> call.at, done |-> FALSE]
    BY ONLY <1>0, <2>2 DEF initialize_task, Task, Wrapped
  <2> QED BY ONLY <1>0, <2>1, <2>3 DEF Made
<1> QED BY <1>1, <1>2, <1>3, <1>4, <1>5, <1>6, <1>7 DEF FutureVector

\* The task of a function of hclib-async.h waits for what it was passed.
LEMMA AsyncFacts ==
    ASSUME Shape, call.api = "async", NEW l \in BoxType(call.dim), NEW t, t = AsyncTask(l)
    PROVE  /\ t \in Records /\ ~t.done /\ t.loop = l /\ t.waits = Waited
           /\ t.fp \in {"runner", "call_and_put"}
<1>1. call.fut \in Seq(Promises \cup {NULL}) /\ Len(call.fut) \in Nat /\ Waited \subseteq Promises
  BY CallFacts, WaitedPromises
<1>0. \/ call.fn \in FutureVector /\ Waited = Awaited(call.fut)
      \/ call.fn \notin FutureVector /\ Waited = Deps(call.fut)
  BY ONLY call.api = "async" DEF Waited
<1>2. \/ call.fn \in NoFuture /\ Len(call.fut) = 0
      \/ call.fn \in OneFuture /\ Len(call.fut) = 1
      \/ call.fn \in TwoFutures /\ Len(call.fut) = 2
      \/ call.fn = "async_await_4" /\ Len(call.fut) <= 4
      \/ call.fn \in FutureVector
  <2>1. call \in Calls
    BY DEF Shape
  <2> QED BY <2>1, CallsAssumption
<1>3. Made(t, l, Waited)
  <2>1. CASE call.fn \in NoFuture /\ Len(call.fut) = 0
    <3>0. Waited = Deps(call.fut)
      BY ONLY <1>0, <2>1 DEF NoFuture, FutureVector
    <3>1. PICK s : s = << >>
      OBVIOUS
    <3>2. DOMAIN s = 1 .. 0 /\ (\A i \in 1 .. 0 : s[i] = Fut(i)) /\ 0 \in Nat /\ Len(call.fut) <= 0
      BY ONLY <2>1, <3>1
    <3>3. Deps(s) = Deps(call.fut)
      BY ONLY <3>2, Shape, PaddedDeps
    <3>4. Deps(s) = {}
      BY ONLY <3>1 DEF Deps, Range
    <3>5. Made(AsyncTask(l), l, {})
      BY ONLY <2>1, MadeWithNone
    <3> QED BY ONLY <3>0, <3>3, <3>4, <3>5, t = AsyncTask(l)
  <2>2. CASE call.fn \in OneFuture /\ Len(call.fut) = 1
    <3>0. Waited = Deps(call.fut)
      BY ONLY <1>0, <2>2 DEF OneFuture, FutureVector
    <3>1. PICK s : s = <<Fut(1)>>
      OBVIOUS
    <3>2. DOMAIN s = 1 .. 1 /\ (\A i \in 1 .. 1 : s[i] = Fut(i)) /\ 1 \in Nat /\ Len(call.fut) <= 1
      BY ONLY <2>2, <3>1
    <3>3. Deps(s) = Deps(call.fut)
      BY ONLY <3>2, Shape, PaddedDeps
    <3>4. Made(AsyncTask(l), l, Deps(<<Fut(1)>>))
      BY ONLY <2>2, MadeWithOne
    <3> QED BY ONLY <3>0, <3>1, <3>3, <3>4, t = AsyncTask(l)
  <2>3. CASE call.fn \in TwoFutures /\ Len(call.fut) = 2
    <3>0. Waited = Deps(call.fut)
      BY ONLY <1>0, <2>3 DEF TwoFutures, FutureVector
    <3>1. PICK s : s = <<Fut(1), Fut(2)>>
      OBVIOUS
    <3>2. DOMAIN s = 1 .. 2 /\ (\A i \in 1 .. 2 : s[i] = Fut(i)) /\ 2 \in Nat /\ Len(call.fut) <= 2
      BY ONLY <2>3, <3>1
    <3>3. Deps(s) = Deps(call.fut)
      BY ONLY <3>2, Shape, PaddedDeps
    <3>4. Made(AsyncTask(l), l, Deps(<<Fut(1), Fut(2)>>))
      BY ONLY <2>3, MadeWithTwo
    <3> QED BY ONLY <3>0, <3>1, <3>3, <3>4, t = AsyncTask(l)
  <2>4. CASE call.fn = "async_await_4" /\ Len(call.fut) <= 4
    <3>0. Waited = Deps(call.fut)
      BY ONLY <1>0, <2>4 DEF FutureVector
    <3>1. PICK s : s = <<Fut(1), Fut(2), Fut(3), Fut(4)>>
      OBVIOUS
    <3>2. DOMAIN s = 1 .. 4 /\ (\A i \in 1 .. 4 : s[i] = Fut(i)) /\ 4 \in Nat /\ Len(call.fut) <= 4
      BY ONLY <2>4, <3>1
    <3>3. Deps(s) = Deps(call.fut)
      BY ONLY <3>2, Shape, PaddedDeps
    <3>4. Made(AsyncTask(l), l, Deps(<<Fut(1), Fut(2), Fut(3), Fut(4)>>))
      BY ONLY <2>4, MadeWithFour
    <3> QED BY ONLY <3>0, <3>1, <3>3, <3>4, t = AsyncTask(l)
  <2>5. CASE call.fn \in FutureVector
    <3>1. Waited = Awaited(call.fut)
      BY ONLY <1>0, <2>5
    <3>2. Made(AsyncTask(l), l, Awaited(call.fut))
      BY ONLY <2>5, MadeWithVector
    <3> QED BY ONLY <3>1, <3>2, t = AsyncTask(l)
  <2> QED BY ONLY <1>2, <2>1, <2>2, <2>3, <2>4, <2>5
<1>4. PICK w : w = Waited
  OBVIOUS
<1>5. PICK fp \in {"runner", "call_and_put"}, nb \in BOOLEAN, at \in {NULL, call.at} :
        t = [fp |-> fp, loop |-> l, waits |-> w, nb |-> nb, at |-> at, done |-> FALSE]
  BY ONLY <1>3, <1>4 DEF Made
<1>6. t \in Records /\ ~t.done /\ t.loop = l /\ t.waits = w /\ t.fp = fp
  BY <1>1, <1>4, <1>5 DEF Records
<1> QED BY ONLY <1>4, <1>6, fp \in {"runner", "call_and_put"}

-----------------------------------------------------------------------------
(* The calls *)

\* The caller runs the loop as the first task.
LEMMA EnterKeeps ==
    ASSUME IInv, Tiled, task = << >>, NEW t \in Records, ~t.done, t.fp \in {"recursive", "flat", "seq"},
           t.fp = "flat" => call.mode = "flat", t.loop = Chunked, call.api # "async",
           task' = <<t>>, domain' = Chunked, UNCHANGED <<call, counter, event, satisfied, aborted>>
    PROVE  IInv'
<1>1. /\ Shape /\ counter = 1 /\ ~event
  BY DEF IInv, TaskInv
<1>2. call' = call /\ counter' = counter /\ event' = event /\ satisfied' = satisfied /\ aborted' = aborted
  OBVIOUS
<1>3. /\ Records' = Records /\ Chunked' = Chunked /\ Tiled' = Tiled /\ Aligned' = Aligned /\ Whole' = Whole
      /\ Points' = Points
  BY <1>2, SameCall
<1>4. call.dim \in 1 .. 3 /\ Chunked \in BoxType(call.dim)
  BY <1>1, CallFacts
<1>5. task' \in Seq(Records) /\ DOMAIN task' = {1} /\ task'[1] = t /\ task' # << >>
  <2> HIDE DEF Records
  <2> QED BY ONLY t \in Records, task' = <<t>>
<1>6. Undone' = {1}
  BY <1>5 DEF Undone
<1>7. Shape'
  BY ONLY <1>1, <1>2 DEF Shape
<1>8. TaskInv'
  <2>1. Cardinality({1}) = 1
    BY FS_Singleton
  <2>2. counter' = Cardinality(Undone)'
    BY ONLY <1>1, <1>2, <1>6, <2>1
  <2>3. task' \in Seq(Records')
    BY ONLY <1>3, <1>5
  <2>4. domain' = Chunked' /\ counter' # 0 /\ ~event'
    BY <1>1, <1>2, <1>3
  <2> HIDE DEF Records
  <2> QED BY ONLY <1>5, <2>2, <2>3, <2>4, Zenon DEF TaskInv
<1>9. ASSUME t.fp = "flat" PROVE Rest(t.loop)'
  <2>1. PICK l : l = Chunked[1]
    OBVIOUS
  <2>2. l \in LoopType
    BY ONLY <1>4, <2>1 DEF BoxType
  <2>3. l = [l EXCEPT !.low = l.low] /\ l.low <= l.low
    BY ONLY <2>2 DEF LoopType
  <2>4. domain' = Chunked /\ t.loop = Chunked /\ call' = call /\ call.mode = "flat"
    BY <1>9
  <2>5. Aligned /\ call.dim = 1 /\ l.tile > 0 => l.low % l.tile = 0
    BY ONLY <2>1, <2>4 DEF Aligned
  <2> QED BY ONLY <1>3, <2>1, <2>3, <2>4, <2>5 DEF Rest
<1>10. FlatInv'
  <2>1. t.fp = "flat" => Rest(task[1].loop)'
    BY ONLY <1>5, <1>9
  <2> QED BY <1>2, <1>5, <2>1 DEF FlatInv, Box
<1>11. WaitInv'
  BY <1>5 DEF WaitInv, Awaits
<1>12. AsyncInv'
  <2>1. \A k \in DOMAIN task' : task'[k].fp # "call_and_put"
    BY ONLY <1>5, t.fp \in {"recursive", "flat", "seq"}
  <2>2. call.api # "async"
    OBVIOUS
  <2> QED BY ONLY <1>2, <2>1, <2>2 DEF AsyncInv
<1>13. ASSUME Whole PROVE UnitInv' /\ Partition'
  <2>1. UnitInv'
    BY <1>2, <1>5, <1>13 DEF UnitInv, Box, Whole
  <2>2. ASSUME NEW p PROVE OneHolder(p)'
    BY <1>5 DEF OneHolder, Box
  <2> QED BY ONLY <2>1, <2>2 DEF Partition
<1> QED BY ONLY <1>3, <1>7, <1>8, <1>10, <1>11, <1>12, <1>13, Zenon DEF IInv

\* A function of hclib-async.h spawns its task.
LEMMA AsyncKeeps ==
    ASSUME IInv, Tiled, SpawnAsync
    PROVE  IInv'
<1>1. Shape /\ task = << >> /\ call.api = "async" /\ domain = call.domain /\ counter = 1 /\ ~event
  BY DEF IInv, TaskInv, SpawnAsync
<1>2. /\ call' = call /\ domain' = domain /\ counter' = counter /\ event' = event
      /\ satisfied' = satisfied /\ aborted' = aborted
  BY DEF SpawnAsync
<1>3. /\ Records' = Records /\ Chunked' = Chunked /\ Tiled' = Tiled /\ Aligned' = Aligned /\ Whole' = Whole
      /\ Points' = Points
  BY <1>2, SameCall
<1>4. call.dim \in 1 .. 3 /\ domain \in BoxType(call.dim) /\ domain = Chunked
  <2>1. call.dim \in 1 .. 3 /\ call.domain \in BoxType(call.dim)
    BY <1>1, CallFacts
  <2>2. Chunked = call.domain
    BY <1>1 DEF Chunked
  <2> QED BY ONLY <1>1, <2>1, <2>2
<1>5. PICK none, c, t : /\ none = Nothing(domain) /\ t = AsyncTask(domain)
                        /\ c = [initialize_task("caller", none) EXCEPT !.done = TRUE]
  OBVIOUS
<1>6. task' = <<c, t>>
  BY <1>5 DEF SpawnAsync
<1>7. /\ none \in BoxType(call.dim) /\ none[1].low = none[1].high
      /\ \A d \in 1 .. call.dim : none[d].stride = domain[d].stride
  BY ONLY <1>4, <1>5, NothingShape
<1>8. none[1].high <= none[1].low
  <2>1. none[1] \in LoopType
    BY ONLY <1>4, <1>7 DEF BoxType
  <2> QED BY ONLY <1>7, <2>1 DEF LoopType
<1>9. c = [fp |-> "caller", loop |-> none, waits |-> {}, nb |-> FALSE, at |-> NULL, done |-> TRUE]
  BY ONLY <1>5 DEF initialize_task, Task
<1>10. c \in Records /\ c.done /\ c.loop = none /\ c.waits = {} /\ c.fp = "caller"
  BY ONLY <1>7, <1>9 DEF Records
<1>11. /\ t \in Records /\ ~t.done /\ t.loop = domain /\ t.waits = Waited /\ Waited' = Waited
       /\ t.fp \in {"runner", "call_and_put"}
  BY ONLY <1>1, <1>2, <1>4, <1>5, AsyncFacts, SameCall
<1>12. task' \in Seq(Records) /\ DOMAIN task' = {1, 2} /\ task'[1] = c /\ task'[2] = t /\ task' # << >>
  <2> HIDE DEF Records
  <2> QED BY ONLY <1>6, <1>10, <1>11
<1>13. Undone' = {2}
  BY ONLY <1>10, <1>11, <1>12 DEF Undone
<1>14. Shape'
  BY ONLY <1>1, <1>2 DEF Shape
<1>15. TaskInv'
  <2>1. Cardinality({2}) = 1
    BY FS_Singleton
  <2>2. counter' = Cardinality(Undone)'
    BY ONLY <1>1, <1>2, <1>13, <2>1
  <2>3. task' \in Seq(Records')
    BY ONLY <1>3, <1>12
  <2>4. domain' = Chunked' /\ counter' # 0 /\ ~event'
    BY <1>1, <1>2, <1>3, <1>4
  <2> HIDE DEF Records
  <2> QED BY ONLY <1>12, <2>2, <2>3, <2>4, Zenon DEF TaskInv
<1>16. FlatInv'
  BY ONLY <1>2, <1>8, <1>10, <1>11, <1>12 DEF FlatInv, Box, Empty
<1>17. WaitInv'
  BY ONLY <1>2, <1>10, <1>11, <1>12 DEF WaitInv, Awaits
<1>18. AsyncInv'
  BY ONLY <1>1, <1>2, <1>13 DEF AsyncInv
<1>19. ASSUME Whole PROVE UnitInv' /\ Partition'
  <2>1. \A d \in 1 .. call.dim : domain[d].stride = 1
    BY ONLY <1>4, <1>19 DEF Whole
  <2>2. UnitInv'
    BY ONLY <1>2, <1>7, <1>10, <1>11, <1>12, <2>1 DEF UnitInv, Box
  <2>3. ASSUME NEW p \in Points PROVE OneHolder(p)'
    <3>1. p \in [1 .. call.dim -> Int]
      BY ForasyncAssumption DEF Points
    <3>2. ~InBox(p, none)
      BY ONLY <1>4, <1>7, <1>8, <3>1, NoIteration
    <3> QED BY ONLY <1>2, <1>10, <1>11, <1>12, <3>2 DEF OneHolder, Box
  <2> QED BY ONLY <1>3, <2>2, <2>3 DEF Partition
<1> QED BY ONLY <1>3, <1>14, <1>15, <1>16, <1>17, <1>18, <1>19, Zenon DEF IInv

\* The end of the program by an assertion or a trap.
LEMMA AbortKeeps ==
    ASSUME IInv, Abort
    PROVE  IInv'
<1>1. UNCHANGED <<call, domain, task, counter, event, satisfied>> /\ aborted' = TRUE
  BY DEF Abort
<1>2. Shape'
  BY <1>1 DEF IInv, Shape
<1>3. (Tiled => TaskInv /\ FlatInv /\ WaitInv /\ AsyncInv)'
      /\ (Whole => UnitInv /\ Partition)'
  BY <1>1 DEF IInv, Tiled, TaskInv, FlatInv, WaitInv, AsyncInv, Whole, UnitInv, Partition, Chunked, Aligned,
        Records, Undone, Rest, Awaits, Waited, Empty, Box, Points, OneHolder
<1> QED BY ONLY <1>2, <1>3 DEF IInv

\* A promise that is put releases tasks and changes none.
LEMMA PutKeeps ==
    ASSUME IInv, NEW p \in Deps(call.fut), PutPromise(p)
    PROVE  IInv'
<1>1. UNCHANGED <<call, domain, task, counter, event, aborted>> /\ satisfied' = satisfied \cup {p}
  BY DEF PutPromise
<1>2. Shape
  BY DEF IInv
<1>3. p \in Promises
  BY <1>2, CallFacts
<1>4. Shape'
  BY ONLY <1>1, <1>2, <1>3 DEF Shape
<1>5. (Tiled => TaskInv /\ FlatInv /\ AsyncInv)'
      /\ (Whole => UnitInv /\ Partition)'
  BY <1>1 DEF IInv, Tiled, TaskInv, FlatInv, AsyncInv, Whole, UnitInv, Partition, Chunked, Aligned,
        Records, Undone, Rest, Empty, Box, Points, OneHolder
<1>6. (Tiled => WaitInv)'
  <2>1. Tiled' => Tiled
    BY <1>1, SameCall
  <2>2. WaitInv => WaitInv'
    BY <1>1, SameCall DEF WaitInv, Awaits
  <2> QED BY ONLY <2>1, <2>2, IInv DEF IInv
<1> QED BY ONLY <1>4, <1>5, <1>6 DEF IInv

\* A step that changes nothing.
LEMMA StutterKeeps ==
    ASSUME IInv, UNCHANGED vars
    PROVE  IInv'
<1>1. UNCHANGED <<call, domain, task, counter, event, satisfied, aborted>>
  BY DEF vars
<1> QED BY <1>1 DEF IInv, Shape, Tiled, TaskInv, FlatInv, WaitInv, AsyncInv, Whole, UnitInv, Partition, Chunked,
        Aligned, Records, Undone, Rest, Awaits, Waited, Empty, Box, Points, OneHolder

\* Whatever the tiles are, a step of a task spawns, returns or aborts.
LEMMA StepForms ==
    ASSUME NEW k \in DOMAIN task, TaskStep(k) \/ CppStep(k)
    PROVE  \/ \E box, new : Spawn(k, box, new) \/ Return(k, box, new)
           \/ Abort
           \/ call_and_put_wrapper(k)
<1>1. CASE TaskStep(k)
  BY <1>1 DEF TaskStep, forasync1D_runner, forasync2D_runner, forasync3D_runner, forasync1D_recursive,
      forasync2D_recursive, forasync3D_recursive, forasync1D_flat, forasync2D_flat, forasync3D_flat, FlatTurn, Halve
<1>2. CASE CppStep(k)
  BY <1>2 DEF CppStep, call_lambda, forasync1D_seq, forasync2D_seq, cpp_forasync1D_recursive,
      cpp_forasync2D_recursive, cpp_forasync3D_recursive, cpp_forasync1D_flat, cpp_forasync2D_flat,
      cpp_forasync3D_flat, FlatTurn, CppHalve
<1> QED BY <1>1, <1>2

\* No step changes the call or the types of the other variables.
LEMMA ShapeKeeps ==
    ASSUME Shape, CppNext
    PROVE  Shape' /\ call' = call
<1>1. CASE Call
  <2>1. UNCHANGED <<call, event, satisfied>> /\ (aborted' = aborted \/ aborted' = TRUE)
    BY <1>1 DEF Call, hclib_forasync, SpawnAsync, forasync1D, forasync2D, forasync3D, forasync1D_internal,
           forasync2D_internal, forasync3D_internal, Enter, Abort
  <2> QED BY <2>1 DEF Shape
<1>2. ASSUME NEW k \in DOMAIN task, TaskStep(k) \/ CppStep(k) PROVE Shape' /\ call' = call
  <2>1. \/ \E box, new : Spawn(k, box, new) \/ Return(k, box, new)
        \/ Abort
        \/ call_and_put_wrapper(k)
    BY <1>2, StepForms
  <2>2. call' = call /\ satisfied' = satisfied /\ event' \in BOOLEAN /\ (aborted' = aborted \/ aborted' = TRUE)
    BY <2>1 DEF Spawn, Return, Abort, call_and_put_wrapper, Shape
  <2> QED BY <2>2 DEF Shape
<1>3. ASSUME NEW p \in Deps(call.fut), PutPromise(p) PROVE Shape' /\ call' = call
  <2>1. p \in Promises
    BY CallFacts
  <2> QED BY <1>3, <2>1 DEF Shape, PutPromise
<1>4. CASE UNCHANGED vars
  BY <1>4 DEF Shape, vars
<1> QED BY <1>1, <1>2, <1>3, <1>4 DEF CppNext

\* The calls.
LEMMA CallKeeps ==
    ASSUME IInv, Tiled, Call
    PROVE  IInv'
<1>1. Shape /\ task = << >>
  BY DEF IInv, Call, hclib_forasync, SpawnAsync, forasync1D, forasync2D, forasync3D
<1>2. domain = call.domain
  BY <1>1 DEF IInv, TaskInv
<1>3. /\ call.mode \in {"recursive", "flat"} /\ Chunked \in BoxType(call.dim) /\ {} \subseteq Promises
  BY <1>1, CallFacts
<1>4. PICK loops : loops = Chunked
  OBVIOUS
<1>5. ASSUME NEW fp \in {"recursive", "flat", "seq"}, NEW t, t = Task(fp, loops, {}, FALSE, NULL)
      PROVE  t \in Records /\ ~t.done /\ t.fp = fp /\ t.loop = Chunked
  BY ONLY <1>3, <1>4, <1>5 DEF Task, Records
<1>6. CASE hclib_forasync
  <2>1. call.api = "c" /\ domain' = WithTiles(domain) /\ task' = <<Task(call.mode, domain', {}, FALSE, NULL)>>
        /\ UNCHANGED <<call, counter, event, satisfied, aborted>>
    BY <1>6 DEF hclib_forasync, forasync_internal
  <2>2. domain' = Chunked
    BY ONLY <1>2, <2>1 DEF Chunked
  <2>3. PICK t : t = Task(call.mode, loops, {}, FALSE, NULL)
    OBVIOUS
  <2>4. task' = <<t>> /\ call.api # "async" /\ call.mode \in {"recursive", "flat", "seq"}
    BY ONLY <1>3, <1>4, <2>1, <2>2, <2>3
  <2>5. t \in Records /\ ~t.done /\ t.fp = call.mode /\ t.loop = Chunked
    BY ONLY <1>5, <2>3, <2>4
  <2> QED BY <1>1, <2>1, <2>2, <2>4, <2>5, EnterKeeps
<1>7. ASSUME NEW fp \in {"recursive", "flat", "seq"}, fp = "flat" => call.mode = "flat", call.api = "cpp", Enter(fp)
      PROVE  IInv'
  <2>1. domain = Chunked /\ call.api # "async"
    BY <1>2, <1>7 DEF Chunked
  <2>2. PICK t : t = Task(fp, loops, {}, FALSE, NULL)
    OBVIOUS
  <2>3. t \in Records /\ ~t.done /\ t.fp = fp /\ t.loop = Chunked
    BY ONLY <1>5, <2>2, fp \in {"recursive", "flat", "seq"}
  <2>4. task' = <<t>> /\ domain' = Chunked /\ UNCHANGED <<call, counter, event, satisfied, aborted>>
    BY <1>4, <1>7, <2>1, <2>2 DEF Enter, initialize_task
  <2> QED BY <1>1, <1>7, <2>1, <2>3, <2>4, EnterKeeps
<1>8. CASE forasync1D \/ forasync2D \/ forasync3D
  <2>1. call.api = "cpp"
    BY <1>8 DEF forasync1D, forasync2D, forasync3D
  <2>2. \/ Abort
        \/ Enter("seq")
        \/ Enter("recursive")
        \/ call.mode = "flat" /\ Enter("flat")
    BY <1>3, <1>8 DEF forasync1D, forasync2D, forasync3D, forasync1D_internal, forasync2D_internal,
           forasync3D_internal
  <2>3. CASE Abort
    BY <2>3, AbortKeeps
  <2>4. CASE Enter("seq")
    BY <1>7, <2>1, <2>4
  <2>5. CASE Enter("recursive")
    BY <1>7, <2>1, <2>5
  <2>6. CASE call.mode = "flat" /\ Enter("flat")
    BY <1>7, <2>1, <2>6
  <2> QED BY <2>2, <2>3, <2>4, <2>5, <2>6
<1>9. CASE SpawnAsync
  BY <1>9, AsyncKeeps
<1> QED BY <1>6, <1>8, <1>9 DEF Call

\* A step of a task keeps the invariant.
LEMMA TaskKeeps ==
    ASSUME IInv, Tiled, NEW k \in DOMAIN task, TaskStep(k) \/ CppStep(k)
    PROVE  IInv'
<1>1. Ready(k) /\ Outcome(k)
  BY TaskStepOutcome, CppStepOutcome
<1>2. ASSUME NEW box, NEW new, Handed(k, FALSE, box, new), Spawn(k, box, new) PROVE IInv'
  BY <1>1, <1>2, SpawnKeeps
<1>3. ASSUME NEW box, NEW new, Handed(k, TRUE, box, new), Return(k, box, new) PROVE IInv'
  BY <1>1, <1>3, ReturnKeeps
<1>4. CASE Abort
  BY <1>4, AbortKeeps
<1> QED BY <1>1, <1>2, <1>3, <1>4 DEF Outcome

\* The invariant holds before the call ...
LEMMA InitInvariant ==
    ASSUME Init
    PROVE  IInv
<1>1. Shape /\ task = << >> /\ domain = call.domain /\ counter = 1 /\ ~event
  BY DEF Init, Shape
<1>2. DOMAIN task = {} /\ task \in Seq(Records)
  BY <1>1
<1>3. TaskInv /\ FlatInv /\ WaitInv /\ AsyncInv
  <2> HIDE DEF Records
  <2> QED BY ONLY <1>1, <1>2 DEF TaskInv, FlatInv, WaitInv, AsyncInv, Undone
<1>4. UnitInv /\ Partition
  BY ONLY <1>1, <1>2 DEF UnitInv, Partition
<1> QED BY ONLY <1>1, <1>3, <1>4 DEF IInv

\* ... and every step keeps it.
LEMMA NextInvariant ==
    ASSUME IInv, [CppNext]_vars
    PROVE  IInv'
<1>1. CASE UNCHANGED vars
  BY <1>1, StutterKeeps
<1>2. CASE CppNext /\ ~Tiled
  <2>1. Shape' /\ call' = call
    BY <1>2, ShapeKeeps DEF IInv
  <2>2. ~Tiled' /\ ~Whole'
    BY <1>2, <2>1, SameCall DEF Whole
  <2> QED BY ONLY <2>1, <2>2 DEF IInv
<1>3. CASE CppNext /\ Tiled
  <2>1. CASE Call
    BY <1>3, <2>1, CallKeeps
  <2>2. ASSUME NEW k \in DOMAIN task, TaskStep(k) \/ CppStep(k) PROVE IInv'
    BY <1>3, <2>2, TaskKeeps
  <2>3. ASSUME NEW p \in Deps(call.fut), PutPromise(p) PROVE IInv'
    BY <2>3, PutKeeps
  <2> QED BY <1>1, <1>3, <2>1, <2>2, <2>3 DEF CppNext
<1> QED BY <1>1, <1>2, <1>3

-----------------------------------------------------------------------------
(* ParallelFor *)

\* The iterations of a box.
LEMMA IterationsOf ==
    ASSUME NEW dim, NEW box \in BoxType(dim)
    PROVE  Iterations(box) = {p \in [1 .. dim -> Coords] : InBox(p, box)}
<1>1. DOMAIN box = 1 .. dim
  BY DEF BoxType
<1>2. PICK some : some = {i \in Coords : \E d \in DOMAIN box : InLoop(i, box[d])}
  OBVIOUS
<1>3. Iterations(box) = {p \in [1 .. dim -> some] : InBox(p, box)}
  BY ONLY <1>1, <1>2 DEF Iterations
<1>4. some \subseteq Coords
  BY ONLY <1>2
<1>5. ASSUME NEW p \in [1 .. dim -> some] PROVE p \in [1 .. dim -> Coords]
  BY ONLY <1>4, <1>5
<1>6. ASSUME NEW p \in [1 .. dim -> Coords], InBox(p, box) PROVE p \in [1 .. dim -> some]
  <2>1. \A d \in 1 .. dim : p[d] \in Coords /\ InLoop(p[d], box[d])
    BY ONLY <1>1, <1>6 DEF InBox
  <2>2. \A d \in 1 .. dim : p[d] \in some
    BY ONLY <1>1, <1>2, <2>1
  <2> QED BY ONLY <1>6, <2>2
<1> QED BY ONLY <1>3, <1>5, <1>6

\* The chunks that were run are part of the loop, and at the event all of it.
LEMMA RanInLoop ==
    ASSUME IInv, Whole
    PROVE  /\ Executed \subseteq Iterations(domain)
           /\ event => Executed = Iterations(domain)
<1>1. Shape /\ TaskInv /\ Partition
  BY DEF IInv, Whole
<1>2. task \in Seq(Records)
  BY ONLY <1>1 DEF TaskInv
<1>3. CASE task = << >>
  <2>1. Executed = {}
    BY ONLY <1>3 DEF Executed
  <2>2. ~event
    BY ONLY <1>1, <1>3 DEF TaskInv
  <2> QED BY ONLY <2>1, <2>2
<1>4. CASE task # << >>
  <2>1. domain = Chunked /\ counter = Cardinality(Undone) /\ (event <=> counter = 0)
    BY ONLY <1>1, <1>4 DEF TaskInv
  <2>2. domain \in BoxType(call.dim)
    BY <1>1, <2>1, CallFacts
  <2>3. Iterations(domain) = {p \in Points : InBox(p, domain)}
    BY ONLY <2>2, IterationsOf DEF Points
  <2>4. ASSUME NEW k \in DOMAIN task PROVE Iterations(Box(k)) = {p \in Points : InBox(p, Box(k))}
    <3>1. task[k] \in Records
      BY ONLY <1>2, k \in DOMAIN task
    <3>2. Box(k) \in BoxType(call.dim)
      BY ONLY <3>1 DEF Records, Box
    <3> QED BY ONLY <3>2, IterationsOf DEF Points
  <2>5. \A p \in Points : OneHolder(p)
    BY ONLY <1>1, <1>4 DEF Partition
  <2>6. ASSUME NEW p \in Executed PROVE p \in Iterations(domain)
    <3>1. PICK k \in DOMAIN task : p \in Iterations(Box(k))
      BY DEF Executed
    <3>2. p \in Points /\ InBox(p, Box(k))
      BY ONLY <2>4, <3>1
    <3> QED BY ONLY <2>3, <2>5, <3>2 DEF OneHolder
  <2>7. ASSUME event, NEW p \in Iterations(domain) PROVE p \in Executed
    <3>1. p \in Points /\ InBox(p, domain)
      BY ONLY <2>3, p \in Iterations(domain)
    <3>2. PICK k \in DOMAIN task : InBox(p, Box(k))
      BY ONLY <2>5, <3>1 DEF OneHolder
    <3>3. p \in Iterations(Box(k))
      BY ONLY <2>4, <3>1, <3>2
    <3>4. task[k].done
      <4>1. Cardinality(Undone) = 0
        BY ONLY <2>1, <2>7
      <4>2. IsFiniteSet(Undone)
        <5>1. PICK n : n = Len(task)
          OBVIOUS
        <5>2. n \in Nat /\ DOMAIN task = 1 .. n
          BY ONLY <1>2, <5>1
        <5>3. IsFiniteSet(1 .. n)
          <6>1. 1 \in Int /\ n \in Int
            BY ONLY <5>2
          <6> QED BY ONLY <6>1, FS_Interval
        <5>4. Undone \subseteq 1 .. n
          BY ONLY <5>2 DEF Undone
        <5> QED BY ONLY <5>3, <5>4, FS_Subset
      <4>3. Undone = {}
        BY ONLY <4>1, <4>2, FS_EmptySet
      <4> QED BY ONLY <4>3, k \in DOMAIN task DEF Undone
    <3> QED BY ONLY <3>3, <3>4, k \in DOMAIN task DEF Executed
  <2> QED BY <2>6, <2>7
<1> QED BY <1>3, <1>4

\* A task that has returned stays as it is.
LEMMA RanStays ==
    ASSUME IInv, Tiled, NEW k, Ready(k), Outcome(k)
    PROVE  /\ Executed \subseteq Executed'
           /\ domain' = domain /\ ~event
           /\ Abort \/ aborted' = aborted
<1>1. task \in Seq(Records) /\ task # << >> /\ k \in DOMAIN task /\ ~task[k].done
  BY ReadyFacts DEF Ready
<1>2. ~event
  <2>1. counter = Cardinality(Undone) /\ (event <=> counter = 0)
    BY ReadyFacts
  <2>2. k \in Undone
    BY ONLY <1>1 DEF Undone
  <2>3. IsFiniteSet(Undone)
    <3>1. PICK n : n = Len(task)
      OBVIOUS
    <3>2. n \in Nat /\ DOMAIN task = 1 .. n
      BY ONLY <1>1, <3>1
    <3>3. IsFiniteSet(1 .. n)
      <4>1. 1 \in Int /\ n \in Int
        BY ONLY <3>2
      <4> QED BY ONLY <4>1, FS_Interval
    <3>4. Undone \subseteq 1 .. n
      BY ONLY <3>2 DEF Undone
    <3> QED BY ONLY <3>3, <3>4, FS_Subset
  <2>4. Cardinality(Undone) # 0
    BY ONLY <2>2, <2>3, FS_EmptySet
  <2> QED BY ONLY <2>1, <2>4
<1>3. ASSUME NEW r \in Records, NEW new \in Seq(Records), task' = [task EXCEPT ![k] = r] \o new, call' = call
      PROVE  Executed \subseteq Executed'
  <2>1. Spawned(Len(task), Len(new), k, r, new)
    BY ONLY <1>1, <1>3, Spawning, Zenon
  <2>2. \A j \in DOMAIN task : j \in DOMAIN task' /\ (j # k => task'[j] = task[j])
    BY ONLY <2>1 DEF Spawned
  <2> SUFFICES ASSUME NEW p \in Executed PROVE p \in Executed'
    OBVIOUS
  <2>3. PICK j \in DOMAIN task : task[j].done /\ p \in Iterations(Box(j))
    BY DEF Executed
  <2>4. j \in DOMAIN task' /\ task'[j] = task[j]
    BY ONLY <1>1, <2>2, <2>3
  <2>5. p \in Iterations(Box(j))'
    BY ONLY <2>3, <2>4 DEF Iterations, Box
  <2> QED BY ONLY <2>3, <2>4, <2>5 DEF Executed
<1>4. ASSUME NEW box, NEW new, NEW done, Handed(k, done, box, new), Spawn(k, box, new) \/ Return(k, box, new)
      PROVE  Executed \subseteq Executed' /\ domain' = domain /\ aborted' = aborted
  <2>1. task[k] \in Records
    BY ONLY <1>1
  <2>2. box \in BoxType(call.dim) /\ new \in Seq(Records)
    BY ONLY <1>4 DEF Handed
  <2>3. PICK r : r = IF Spawn(k, box, new) THEN [task[k] EXCEPT !.loop = box]
                     ELSE [task[k] EXCEPT !.done = TRUE, !.loop = box]
    OBVIOUS
  <2>4. r \in Records
    <3>1. [task[k] EXCEPT !.loop = box] \in Records /\ [task[k] EXCEPT !.done = TRUE, !.loop = box] \in Records
      BY ONLY <2>1, <2>2 DEF Records
    <3> QED BY ONLY <2>3, <3>1
  <2>5. task' = [task EXCEPT ![k] = r] \o new /\ call' = call /\ domain' = domain /\ aborted' = aborted
    <3>1. CASE Spawn(k, box, new)
      BY ONLY <2>3, <3>1 DEF Spawn
    <3>2. CASE ~Spawn(k, box, new)
      <4>1. Return(k, box, new) /\ r = [task[k] EXCEPT !.done = TRUE, !.loop = box]
        BY ONLY <1>4, <2>3, <3>2
      <4> QED BY ONLY <4>1 DEF Return
    <3> QED BY ONLY <3>1, <3>2
  <2> QED BY ONLY <1>3, <2>2, <2>4, <2>5
<1>5. CASE Abort
  <2>1. UNCHANGED <<task, domain>>
    BY <1>5 DEF Abort
  <2>2. Executed' = Executed
    BY ONLY <2>1 DEF Executed, Iterations, Box
  <2> QED BY <1>2, <1>5, <2>1, <2>2
<1> QED BY <1>2, <1>4, <1>5 DEF Outcome

\* The types, and that the tasks of a call wait for its futures.
LEMMA AwaitsAllHolds ==
    ASSUME IInv, Tiled
    PROVE  AwaitsAll
<1>1. Shape /\ TaskInv /\ FlatInv /\ WaitInv /\ task \in Seq(Records)
  BY DEF IInv, TaskInv
<1>2. /\ call.api \in {"c", "cpp", "async"} /\ call.dim \in 1 .. 3
  BY <1>1, CallFacts
<1>3. counter \in Nat
  <2>1. CASE task = << >>
    BY ONLY <1>1, <2>1 DEF TaskInv
  <2>2. CASE task # << >>
    <3>1. counter = Cardinality(Undone)
      BY ONLY <1>1, <2>2 DEF TaskInv
    <3>2. IsFiniteSet(Undone)
      <4>1. PICK n : n = Len(task)
        OBVIOUS
      <4>2. n \in Nat /\ DOMAIN task = 1 .. n
        BY ONLY <1>1, <4>1
      <4>3. IsFiniteSet(1 .. n)
        <5>1. 1 \in Int /\ n \in Int
          BY ONLY <4>2
        <5> QED BY ONLY <5>1, FS_Interval
      <4>4. Undone \subseteq 1 .. n
        BY ONLY <4>2 DEF Undone
      <4> QED BY ONLY <4>3, <4>4, FS_Subset
    <3> QED BY ONLY <3>1, <3>2, FS_CardinalityType
  <2> QED BY ONLY <2>1, <2>2
<1>4. ASSUME NEW k \in DOMAIN task
      PROVE  /\ DOMAIN Box(k) = 1 .. call.dim /\ Box(k) \in BoxType(call.dim)
             /\ task[k].waits \subseteq Promises
             /\ task[k].nb \in BOOLEAN /\ task[k].done \in BOOLEAN
             /\ task[k].at \in {NULL, Central, call.at}
  <2>1. task[k] \in Records
    BY ONLY <1>1, k \in DOMAIN task
  <2> QED BY ONLY <2>1 DEF Records, Box, BoxType
<1>5. TypeOK
  BY ONLY <1>1, <1>2, <1>3, <1>4 DEF TypeOK, Shape
<1>6. ASSUME call.api = "async" /\ call.fn \in FutureVector => WellPassed(call.fut),
             NEW k \in DOMAIN task, task[k].done, Iterations(Box(k)) # {}, call.api # "c"
      PROVE  Deps(call.fut) \subseteq satisfied \/ (k = 1 /\ task[k].fp \in {"recursive", "seq"})
  <2>1. Awaits(task[k], k) /\ task[k].waits \subseteq satisfied
    BY ONLY <1>1, <1>6 DEF WaitInv
  <2>2. task[k].fp \notin {"flat", "caller"}
    <3> SUFFICES ASSUME task[k].fp \in {"flat", "caller"} PROVE FALSE
      OBVIOUS
    <3>1. Empty(Box(k))
      BY ONLY <1>1, <1>6, task[k].fp \in {"flat", "caller"} DEF FlatInv
    <3>2. Iterations(Box(k)) = {p \in [1 .. call.dim -> Coords] : InBox(p, Box(k))}
      BY ONLY <1>4, k \in DOMAIN task, IterationsOf
    <3>3. PICK p \in [1 .. call.dim -> Coords] : InBox(p, Box(k))
      BY ONLY <1>6, <3>2
    <3>4. p \in [1 .. call.dim -> Int]
      BY ForasyncAssumption
    <3>5. Box(k)[1].high <= Box(k)[1].low
      BY ONLY <3>1 DEF Empty
    <3> QED BY ONLY <1>2, <1>4, <3>3, <3>4, <3>5, k \in DOMAIN task, NoIteration
  <2>3. Waited = Deps(call.fut)
    <3>1. call.fut \in Seq(Promises \cup {NULL})
      BY <1>1, CallFacts
    <3> QED BY ONLY <1>6, <3>1, AwaitedDeps DEF Waited
  <2> QED BY ONLY <1>6, <2>1, <2>2, <2>3 DEF Awaits
<1> QED BY ONLY <1>5, <1>6 DEF AwaitsAll

\* The inductive invariant of the loops.
LEMMA Invariant == CppSpec => []IInv
<1>1. Init => IInv
  BY InitInvariant
<1>2. IInv /\ [CppNext]_vars => IInv'
  BY NextInvariant
<1> QED BY <1>1, <1>2, PTL DEF CppSpec

\* The C interface alone is part of it.
LEMMA CInterface == Spec => CppSpec
<1>1. [Next]_vars => [CppNext]_vars
  BY DEF Next, CppNext, Call
<1> QED BY <1>1, PTL DEF Spec, CppSpec

\* forasync1D, 2D and 3D, recursive and flat, of the C and the C++ interface:
\* in every state each iteration of the loop is in the hands of exactly one
\* task and nothing outside it of any, whatever order the tasks run in, for
\* loops of stride 1, with positive tiles in flat mode, that in one flat
\* dimension start at a multiple of the tile.
THEOREM LoopPartition == CppSpec => [](Whole => Partition)
<1>1. IInv => (Whole => Partition)
  BY DEF IInv
<1> QED BY <1>1, Invariant, PTL

\* No function of hclib-async.h or hclib-forasync.h runs a lambda before the
\* futures of the call that are not NULL are satisfied: NULLs may stand anywhere
\* among single futures, in a vector neither first, unless all are NULL, nor
\* behind the first MAX_NUM_WAITS.  The exception is the chunk that the caller
\* of a recursive or sequential loop runs itself; strides and alignment play no
\* part.
THEOREM LoopAwaitsAll == CppSpec => [](Tiled => AwaitsAll)
<1>1. IInv => (Tiled => AwaitsAll)
  BY AwaitsAllHolds
<1> QED BY <1>1, Invariant, PTL

\* The abstract steps.
LEMMA RunsOrEnds ==
    ASSUME IInv, Shape', event' \in BOOLEAN, ~event, ~aborted, aborted' = aborted, domain' = domain,
           Executed \subseteq Executed', Executed' \subseteq Iterations(domain),
           event' => Executed' = Iterations(domain)
    PROVE  [Loop_!Next]_(Loop_!vars)
<1>1. Iterations(domain)' = Iterations(domain)
  BY DEF Iterations
<1>2. event \in BOOLEAN
  BY DEF IInv, Shape
<1>3. CASE Executed' # Executed
  <2>1. Loop_!Run
    BY <1>1, <1>3 DEF Loop_!Run
  <2> QED BY ONLY <2>1 DEF Loop_!Next
<1>4. CASE Executed' = Executed /\ event'
  <2>1. Loop_!End
    BY <1>1, <1>4 DEF Loop_!End
  <2> QED BY ONLY <2>1 DEF Loop_!Next
<1>5. CASE Executed' = Executed /\ ~event'
  <2>1. event' = event
    BY <1>2, <1>5
  <2> QED BY <1>1, <1>5, <2>1 DEF Loop_!vars
<1> QED BY <1>3, <1>4, <1>5

\* What was run is in the loop, and is the whole of it once the event is put.
RanInv == Whole => Executed \subseteq Iterations(domain) /\ (event => Executed = Iterations(domain))

\* An assertion that fails, or a division by a tile of 0, before the event.
LEMMA AbortRefines ==
    ASSUME ~event, ~aborted, Abort
    PROVE  [Loop_!Next]_(Loop_!vars)
<1>1. UNCHANGED <<call, domain, task, event>> /\ aborted' = TRUE
  BY DEF Abort
<1>2. Executed' = Executed /\ Iterations(domain)' = Iterations(domain)
  BY ONLY <1>1 DEF Executed, Iterations, Box
<1>3. Loop_!Abort
  BY <1>1, <1>2 DEF Loop_!Abort
<1> QED BY ONLY <1>3 DEF Loop_!Next

\* The call runs no iteration yet.
LEMMA CallRefines ==
    ASSUME IInv, Whole, Call
    PROVE  [Loop_!Next]_(Loop_!vars)
<1>1. Shape /\ TaskInv /\ task = << >>
  BY DEF IInv, Whole, Call, hclib_forasync, SpawnAsync, forasync1D, forasync2D, forasync3D
<1>2. domain = call.domain /\ ~event
  BY ONLY <1>1 DEF TaskInv
<1>3. Executed = {}
  BY ONLY <1>1 DEF Executed
<1>4. ASSUME Executed' = {}, Iterations(domain)' = Iterations(domain), UNCHANGED <<event, aborted>>
      PROVE  [Loop_!Next]_(Loop_!vars)
  BY <1>3, <1>4 DEF Loop_!vars
<1>5. ASSUME NEW t, task' = <<t>>, ~t.done PROVE Executed' = {}
  <2>1. DOMAIN task' = {1} /\ task'[1] = t
    BY ONLY <1>5
  <2>2. {j \in DOMAIN task' : task'[j].done} = {}
    BY ONLY <1>5, <2>1
  <2> QED BY ONLY <2>2 DEF Executed
<1>6. CASE hclib_forasync
  <2>1. call.api = "c" /\ domain' = WithTiles(domain) /\ task' = <<Task(call.mode, domain', {}, FALSE, NULL)>>
        /\ UNCHANGED <<event, aborted>>
    BY <1>6 DEF hclib_forasync, forasync_internal
  <2>2. Executed' = {}
    <3>1. ~Task(call.mode, domain', {}, FALSE, NULL).done
      BY DEF Task
    <3> QED BY ONLY <1>5, <2>1, <3>1
  <2>3. domain' = Chunked
    BY ONLY <1>2, <2>1 DEF Chunked
  <2>4. Iterations(domain)' = Iterations(domain)
    <3>1. PICK old, new : old = domain /\ new = domain'
      OBVIOUS
    <3>2. /\ old \in BoxType(call.dim) /\ new \in BoxType(call.dim)
          /\ \A d \in 1 .. call.dim :
                /\ new[d].low = old[d].low /\ new[d].high = old[d].high
                /\ new[d].stride = old[d].stride
      <4>1. call.domain \in BoxType(call.dim) /\ Chunked \in BoxType(call.dim)
            /\ \A d \in 1 .. call.dim : /\ Chunked[d].low = call.domain[d].low
                                       /\ Chunked[d].high = call.domain[d].high
                                       /\ Chunked[d].stride = call.domain[d].stride
        BY <1>1, CallFacts
      <4> QED BY ONLY <1>2, <2>3, <3>1, <4>1
    <3>3. DOMAIN old = 1 .. call.dim /\ DOMAIN new = 1 .. call.dim
      BY ONLY <3>2 DEF BoxType
    <3>4. \A p : InBox(p, old) <=> InBox(p, new)
      BY ONLY <3>2, <3>3 DEF InBox, InLoop
    <3>5. /\ Iterations(old) = {p \in [1 .. call.dim -> Coords] : InBox(p, old)}
          /\ Iterations(new) = {p \in [1 .. call.dim -> Coords] : InBox(p, new)}
      BY ONLY <3>2, IterationsOf
    <3>6. Iterations(new) = Iterations(old)
      BY ONLY <3>4, <3>5
    <3> QED BY ONLY <3>1, <3>6 DEF Iterations
  <2> QED BY ONLY <1>4, <2>1, <2>2, <2>4
<1>7. ASSUME NEW fp, Enter(fp) PROVE [Loop_!Next]_(Loop_!vars)
  <2>1. task' = <<initialize_task(fp, domain)>> /\ UNCHANGED <<domain, event, aborted>>
    BY ONLY <1>7 DEF Enter
  <2>2. Executed' = {}
    <3>1. ~initialize_task(fp, domain).done
      BY DEF initialize_task, Task
    <3> QED BY ONLY <1>5, <2>1, <3>1
  <2>3. Iterations(domain)' = Iterations(domain)
    BY ONLY <2>1 DEF Iterations
  <2> QED BY ONLY <1>4, <2>1, <2>2, <2>3
<1>8. CASE forasync1D \/ forasync2D \/ forasync3D
  <2>1. ~aborted
    BY <1>8 DEF forasync1D, forasync2D, forasync3D
  <2>2. Abort \/ \E fp : Enter(fp)
    BY <1>8 DEF forasync1D, forasync2D, forasync3D, forasync1D_internal, forasync2D_internal,
           forasync3D_internal
  <2>3. CASE Abort
    BY ONLY <1>2, <2>1, <2>3, AbortRefines
  <2> QED BY ONLY <1>7, <2>2, <2>3
<1>9. CASE SpawnAsync
  <2>1. PICK none, c, t : /\ none = Nothing(domain) /\ t = AsyncTask(domain)
                          /\ c = [initialize_task("caller", none) EXCEPT !.done = TRUE]
    OBVIOUS
  <2>2. call.api = "async" /\ task' = <<c, t>> /\ UNCHANGED <<domain, event, aborted>>
    BY <1>9, <2>1 DEF SpawnAsync
  <2>3. call.dim \in 1 .. 3 /\ domain \in BoxType(call.dim)
    BY <1>1, <1>2, CallFacts
  <2>4. ~t.done
    BY ONLY <1>1, <2>1, <2>2, <2>3, AsyncFacts
  <2>5. c.loop = none
    BY ONLY <2>1 DEF initialize_task, Task
  <2>6. none \in BoxType(call.dim) /\ none[1].low = none[1].high
    BY ONLY <2>1, <2>3, NothingShape
  <2>7. none[1].high <= none[1].low
    <3>1. none[1] \in LoopType
      BY ONLY <2>3, <2>6 DEF BoxType
    <3> QED BY ONLY <2>6, <3>1 DEF LoopType
  <2>8. Iterations(none) = {}
    <3>1. Iterations(none) = {p \in [1 .. call.dim -> Coords] : InBox(p, none)}
      BY ONLY <2>6, IterationsOf
    <3>2. Coords \subseteq Int
      BY ForasyncAssumption
    <3>3. ASSUME NEW p \in [1 .. call.dim -> Coords] PROVE ~InBox(p, none)
      <4>1. p \in [1 .. call.dim -> Int]
        BY ONLY <3>2, <3>3
      <4> QED BY ONLY <2>3, <2>6, <2>7, <4>1, NoIteration
    <3> QED BY ONLY <3>1, <3>3
  <2>9. DOMAIN task' = {1, 2} /\ task'[1] = c /\ task'[2] = t
    BY ONLY <2>2
  <2>10. ASSUME NEW j \in DOMAIN task', task'[j].done PROVE Iterations(Box(j))' = {}
    <3>1. task'[j].loop = none
      BY ONLY <2>4, <2>5, <2>9, <2>10
    <3> QED BY ONLY <2>8, <3>1 DEF Iterations, Box
  <2>11. Executed' = {}
    BY <2>10 DEF Executed
  <2>12. Iterations(domain)' = Iterations(domain)
    BY ONLY <2>2 DEF Iterations
  <2> QED BY ONLY <1>4, <2>2, <2>11, <2>12
<1> QED BY <1>6, <1>8, <1>9 DEF Call

\* Every step is one of ParallelFor or changes nothing that it speaks of.
LEMMA NextRefines ==
    ASSUME IInv, IInv', RanInv', Whole, [CppNext]_vars
    PROVE  [Loop_!Next]_(Loop_!vars) /\ Whole'
<1>1. Tiled /\ Shape /\ Shape' /\ event' \in BOOLEAN
  BY DEF IInv, Whole, Shape
<1>2. call' = call
  BY <1>1, ShapeKeeps DEF vars
<1>3. Whole'
  BY <1>2, SameCall
<1>4. Executed' \subseteq Iterations(domain') /\ (event' => Executed' = Iterations(domain'))
  BY <1>3 DEF RanInv, Iterations
<1>5. ASSUME UNCHANGED <<domain, task, event, aborted>> PROVE [Loop_!Next]_(Loop_!vars)
  <2>1. Executed' = Executed /\ Iterations(domain)' = Iterations(domain)
    BY ONLY <1>5 DEF Executed, Iterations, Box
  <2> QED BY <1>5, <2>1 DEF Loop_!vars
<1>6. ASSUME NEW k \in DOMAIN task, TaskStep(k) \/ CppStep(k) PROVE [Loop_!Next]_(Loop_!vars)
  <2>1. Ready(k) /\ ~aborted /\ Outcome(k)
    BY <1>1, <1>6, TaskStepOutcome, CppStepOutcome
  <2>2. /\ Executed \subseteq Executed' /\ domain' = domain /\ ~event
        /\ Abort \/ aborted' = aborted
    BY <1>1, <2>1, RanStays
  <2>3. CASE Abort
    BY ONLY <2>1, <2>2, <2>3, AbortRefines
  <2>4. CASE aborted' = aborted
    <3>1. Executed' \subseteq Iterations(domain) /\ (event' => Executed' = Iterations(domain))
      BY ONLY <1>4, <2>2
    <3> QED BY ONLY IInv, <1>1, <2>1, <2>2, <2>4, <3>1, RunsOrEnds
  <2> QED BY ONLY <2>2, <2>3, <2>4
<1>7. CASE Call
  BY <1>3, <1>7, CallRefines
<1>8. ASSUME NEW p, PutPromise(p) PROVE [Loop_!Next]_(Loop_!vars)
  BY <1>5, <1>8 DEF PutPromise
<1>9. CASE UNCHANGED vars
  BY <1>3, <1>5, <1>9 DEF vars
<1>10. [Loop_!Next]_(Loop_!vars)
  BY <1>6, <1>7, <1>8, <1>9 DEF CppNext
<1> QED BY ONLY <1>3, <1>10

\* The loops keep the safety part of ParallelFor: iterations are run once, and
\* the event is put when the last of them was run, not before; the program is
\* aborted only before that.
THEOREM LoopImplements == CppSpec /\ Whole => Loop_!Init /\ [][Loop_!Next]_(Loop_!vars)
<1>1. Init => Loop_!Init
  BY DEF Init, Loop_!Init, Executed
<1>2. IInv => RanInv
  BY RanInLoop DEF RanInv
<1>3. IInv /\ IInv' /\ RanInv' /\ Whole /\ [CppNext]_vars => [Loop_!Next]_(Loop_!vars) /\ Whole'
  BY NextRefines
<1> QED BY <1>1, <1>2, <1>3, Invariant, PTL DEF CppSpec
=============================================================================
