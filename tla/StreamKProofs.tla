----------------------------- MODULE StreamKProofs -----------------------------
(***************************************************************************)
(* StreamK for every shape, depth of the tiles, occupancy, residency,      *)
(* number of warps and number of calls.                                    *)
(***************************************************************************)
EXTENDS StreamK, TLAPS

-------------------------------------------------------------------------------
(* The plan.                                                               *)

\* The grid of a shape: the stream-K tiles are some of the tiles, their CTAs
\* come first and none of them is without an iteration.
LEMMA PlanFacts ==
  ASSUME tiles \in Shapes
  PROVE  /\ tiles \in Nat /\ SkTiles \in Nat /\ DpTiles \in Nat /\ DpTiles + SkTiles = tiles
         /\ SkIters \in Nat /\ SkIters = SkTiles * Iters
         /\ SkBlocks \in Nat /\ SkBlocks <= SkIters /\ (SkIters > 0 => SkBlocks > 0)
         /\ SkTiles > 0 <=> SkIters > 0
         /\ SkBlocks <= Occ
<1>1. tiles \in Nat \ {0} /\ Occ \in Nat \ {0} /\ Iters \in Nat \ {0}
  BY ShapesAssumption, OccAssumption, ItersAssumption
<1> DEFINE q == tiles \div Occ
           r == tiles % Occ
<1>2. q \in Nat /\ r \in Nat /\ tiles = Occ * q + r /\ r < Occ
  BY <1>1
<1>3. SkTiles \in Nat /\ SkTiles <= tiles
  <2>1. tiles > Occ => q # 0
    BY <1>1, <1>2
  <2> HIDE DEF q, r
  <2>2. q # 0 => Occ * q >= Occ
    BY <1>1, <1>2
  <2>3. SkTiles = IF r = 0 THEN 0 ELSE IF tiles > Occ THEN r + Occ ELSE tiles
    BY DEF SkTiles, r
  <2> QED
    BY <1>1, <1>2, <2>1, <2>2, <2>3
<1>4. SkIters \in Nat /\ (SkTiles > 0 <=> SkIters > 0)
  BY <1>1, <1>3 DEF SkIters
<1> QED
  BY <1>1, <1>3, <1>4 DEF SkIters, SkBlocks, DpTiles, AtMost

\* The CTAs of a shape are among those of any shape.
LEMMA GridFacts ==
  ASSUME tiles \in Shapes
  PROVE  SkCta \subseteq Grid /\ Grid \subseteq Cta /\ Cta \subseteq Nat
<1> DEFINE largest == CHOOSE n \in Shapes : \A m \in Shapes : m <= n
<1>1. largest \in Shapes /\ tiles <= largest /\ largest \in Nat
  BY ShapesAssumption
<1> HIDE DEF largest
<1>2. Cta = 0 .. Occ + largest - 1
  BY DEF Cta, largest
<1> QED
  BY <1>1, <1>2, PlanFacts, OccAssumption DEF SkCta, Grid

\* The shares begin at 0, are not empty, abut and end with the last iteration.
LEMMA ShareFacts ==
  ASSUME tiles \in Shapes, SkBlocks > 0
  PROVE  /\ \A x \in 0 .. SkBlocks : ShareBegin(x) \in 0 .. SkIters
         /\ \A x \in 0 .. SkBlocks - 1 : ShareBegin(x) < ShareBegin(x + 1)
         /\ \A x, y \in 0 .. SkBlocks : x <= y => ShareBegin(x) <= ShareBegin(y)
         /\ ShareBegin(0) = 0 /\ ShareBegin(SkBlocks) = SkIters
<1> DEFINE q == SkIters \div SkBlocks
           r == SkIters % SkBlocks
<1>1. SkBlocks \in Nat \ {0} /\ SkIters \in Nat /\ SkBlocks <= SkIters
  BY PlanFacts
<1>2. q \in Nat /\ r \in Nat /\ r < SkBlocks /\ SkIters = SkBlocks * q + r
  BY <1>1
<1>3. q # 0
  BY <1>1, <1>2
<1>4. \A x : ShareBegin(x) = x * q + (IF x < r THEN x ELSE r)
  BY DEF ShareBegin, AtMost
<1> HIDE DEF q, r
<1>5. \A x \in Nat : x * q \in Nat /\ (x + 1) * q = x * q + q
  BY <1>2
<1>6. \A x, y \in Nat : x <= y => x * q <= y * q
  BY <1>2
<1>7. 0 * q = 0 /\ SkBlocks * q \in Nat
  BY <1>1, <1>2
<1>8. ShareBegin(0) = 0 /\ ShareBegin(SkBlocks) = SkIters
  BY <1>1, <1>2, <1>4, <1>7
<1>9. \A x, y \in 0 .. SkBlocks : x <= y => ShareBegin(x) <= ShareBegin(y)
  BY <1>1, <1>2, <1>4, <1>5, <1>6
<1>10. \A x \in 0 .. SkBlocks : ShareBegin(x) \in Nat
  BY <1>1, <1>2, <1>4, <1>5
<1>11. \A x \in 0 .. SkBlocks - 1 : ShareBegin(x) < ShareBegin(x + 1)
  BY <1>1, <1>2, <1>3, <1>4, <1>5
<1> QED
  BY <1>1, <1>8, <1>9, <1>10, <1>11

LEMMA Monotone ==
  ASSUME NEW x \in Nat, NEW y \in Nat, NEW e \in Nat, x <= y
  PROVE  x * e <= y * e
BY SMT

\* Every iteration is in a share.
LEMMA ShareOf ==
  ASSUME tiles \in Shapes, NEW i \in 0 .. SkIters - 1
  PROVE  \E x \in SkCta : ShareBegin(x) <= i /\ i < ShareBegin(x + 1)
<1> DEFINE q == SkIters \div SkBlocks
           r == SkIters % SkBlocks
           j == i \div (q + 1)
           k == (i - r * (q + 1)) \div q
<1>1. SkBlocks \in Nat \ {0} /\ SkIters \in Nat /\ SkBlocks <= SkIters /\ i \in Nat /\ i < SkIters
  BY PlanFacts
<1>2. q \in Nat \ {0} /\ r \in Nat /\ r < SkBlocks
  BY <1>1
<1>3. \A x : ShareBegin(x) = x * q + (IF x < r THEN x ELSE r)
  BY DEF ShareBegin, AtMost
<1>4. CASE i < r * (q + 1)
  <2> HIDE DEF q, r
  <2>1. j \in Nat /\ (q + 1) * j <= i /\ i < (q + 1) * j + (q + 1)
    <3>1. q + 1 \in Nat \ {0}
      BY <1>2
    <3> QED
      BY <1>1, <3>1, SMT
  <2> HIDE DEF j
  <2>2. j < r
    <3>1. SUFFICES ASSUME r <= j PROVE FALSE
      BY <1>2, <2>1
    <3>2. r * (q + 1) <= j * (q + 1)
      BY <1>2, <2>1, <3>1, Monotone
    <3> QED
      BY <1>2, <1>4, <2>1, <3>2
  <2>3. ShareBegin(j) = j * q + j /\ ShareBegin(j + 1) = (j + 1) * q + (j + 1)
    BY <1>2, <1>3, <2>1, <2>2
  <2>4. ShareBegin(j) <= i /\ i < ShareBegin(j + 1)
    BY <1>1, <1>2, <2>1, <2>3
  <2> QED
    BY <1>1, <1>2, <2>1, <2>2, <2>4 DEF SkCta
<1>5. CASE r * (q + 1) <= i
  <2>1. i - r * (q + 1) \in Nat
    BY <1>1, <1>2, <1>5
  <2> HIDE DEF q, r
  <2>2. k \in Nat /\ q * k <= i - r * (q + 1) /\ i - r * (q + 1) < q * k + q
    BY <1>2, <2>1
  <2> HIDE DEF k
  <2>3. /\ ShareBegin(r + k) = (r + k) * q + r
        /\ ShareBegin(r + k + 1) = (r + k + 1) * q + r
    BY <1>2, <1>3, <2>2
  <2>4. ShareBegin(r + k) <= i /\ i < ShareBegin(r + k + 1)
    BY <1>1, <1>2, <2>2, <2>3
  <2>5. r + k < SkBlocks
    <3>1. SUFFICES ASSUME SkBlocks <= r + k PROVE FALSE
      BY <1>1, <1>2, <2>2
    <3>2. SkBlocks * q <= (r + k) * q
      BY <1>1, <1>2, <2>2, <3>1, Monotone
    <3>3. SkIters = SkBlocks * q + r
      BY <1>1 DEF q, r
    <3> QED
      BY <1>1, <1>2, <2>2, <2>3, <2>4, <3>2, <3>3
  <2> QED
    BY <1>1, <1>2, <2>2, <2>4, <2>5 DEF SkCta
<1> QED
  BY <1>1, <1>2, <1>4, <1>5

TileEnd(i) == TileBegin(i) + Iters

LEMMA TileFacts ==
  ASSUME NEW i \in Nat
  PROVE  /\ LocalTile(i) \in Nat /\ TileBegin(i) \in Nat
         /\ TileBegin(i) = LocalTile(i) * Iters
         /\ TileBegin(i) + Iters = (LocalTile(i) + 1) * Iters
         /\ TileBegin(i) <= i /\ i < TileBegin(i) + Iters
<1>1. LocalTile(i) \in Nat /\ Iters * LocalTile(i) <= i /\ i < Iters * LocalTile(i) + Iters
  BY ItersAssumption DEF LocalTile
<1> HIDE DEF LocalTile
<1> QED
  BY <1>1, ItersAssumption DEF TileBegin

LEMMA TileRange ==
  ASSUME NEW i \in Nat
  PROVE  /\ TileBegin(i) \in Nat /\ TileEnd(i) \in Nat /\ TileEnd(i) = TileBegin(i) + Iters
         /\ TileBegin(i) <= i /\ i < TileEnd(i)
<1>1. TileBegin(i) \in Nat /\ TileBegin(i) <= i /\ i < TileBegin(i) + Iters
  BY TileFacts
<1> QED
  BY <1>1, ItersAssumption DEF TileEnd

\* The tiles that end by iteration i are those before the tile of i.
LEMMA TileEnds ==
  ASSUME NEW i \in Nat, NEW T \in Nat
  PROVE  /\ T * Iters \in Nat /\ (T + 1) * Iters = T * Iters + Iters
         /\ (T + 1) * Iters <= i <=> T < LocalTile(i)
         /\ T = LocalTile(i) <=> T * Iters <= i /\ i < (T + 1) * Iters
<1>1. /\ LocalTile(i) \in Nat
      /\ LocalTile(i) * Iters <= i /\ i < (LocalTile(i) + 1) * Iters
  BY TileFacts
<1> HIDE DEF LocalTile
<1>2. T * Iters \in Nat /\ (T + 1) * Iters = T * Iters + Iters /\ Iters \in Nat \ {0}
  BY ItersAssumption
<1>3. T < LocalTile(i) => (T + 1) * Iters <= LocalTile(i) * Iters
  BY <1>1, <1>2, Monotone
<1>4. LocalTile(i) < T => (LocalTile(i) + 1) * Iters <= T * Iters
  BY <1>1, <1>2, Monotone
<1>5. LocalTile(i) * Iters \in Nat /\ (LocalTile(i) + 1) * Iters \in Nat
  BY <1>1, <1>2
<1> QED
  BY <1>1, <1>2, <1>3, <1>4, <1>5
-------------------------------------------------------------------------------
(* The inductive invariant.                                                *)

\* The slice CTA x has in the last tile its share reaches, and whether it
\* leaves the end of that tile to others.
LastSlice(x) ==
  LET stop == ShareBegin(x + 1)
      tile == TileBegin(stop - 1) IN
    Sum(call, IF ShareBegin(x) < tile THEN tile ELSE ShareBegin(x), stop)
EndsShort(x) == ShareBegin(x + 1) < TileEnd(ShareBegin(x + 1) - 1)

\* What the phase says of the call, the flags and C.
HostInv ==
  /\ phase # "idle" => call > 0
  /\ phase \notin {"idle", "free"} => result = "ok"
  /\ phase \in {"alloc", "flags", "launch"} => c = NoC
  /\ phase = "free" => \/ (c = NoC /\ result = "error")
                       \/ (Written = Fragment /\ result = "ok")
  /\ phase = "flags" => scratch # "none"
  /\ phase = "launch" => /\ \A x \in SkCta : flag[x] = 0
                         /\ SkBlocks > 0 => scratch # "none"

\* Only the CTAs of the grid run, only while the kernel does, and each the part
\* of it that is its own.
RoleOf(x, w) ==
  /\ pc[x][w] # "retired" => phase = "kernel" /\ x \in Grid
  /\ x \notin SkCta => pc[x][w] \in {"queued", "dp", "retired"}
  /\ x \in SkCta => pc[x][w] # "dp"
RoleInv == \A x \in Cta : \A w \in Warp : RoleOf(x, w)

\* A warp at work is in the share of its CTA, at its beginning or at that of a
\* tile; one that is done with it has come to the tile the share ends in.
ShareInv(x, w) ==
  /\ pc[x][w] \in {"top", "tile", "store", "fence", "sync", "wait", "add"} =>
       /\ ShareBegin(x) <= iter[x][w] /\ iter[x][w] < ShareBegin(x + 1)
       /\ iter[x][w] = ShareBegin(x) \/ iter[x][w] = TileBegin(iter[x][w])
  /\ pc[x][w] \in {"store", "fence", "sync", "raise"} \/ (pc[x][w] = "retired" /\ phase = "kernel") =>
       ShareBegin(x + 1) < TileEnd(iter[x][w])

\* The peer's sum, on its way into the plane.
PeerInv(x, w) ==
  /\ pc[x][w] \in {"store", "fence"} => acc[x][w] = Sum(call, iter[x][w], ShareBegin(x + 1))
  /\ pending[x][w] => pc[x][w] = "fence"
  /\ (pc[x][w] = "fence" /\ ~pending[x][w]) \/ pc[x][w] = "sync" =>
       plane[x][w] = Sum(call, iter[x][w], ShareBegin(x + 1))
  /\ pc[x][w] = "raise" => w = 0

\* The owner's, and the peer it turns to.
OwnerInv(x, w) ==
  /\ pc[x][w] \in {"wait", "add"} =>
       TileEnd(iter[x][w]) <= ShareBegin(x + 1) /\ peer[x][w] \in -1 .. x - 1
  /\ pc[x][w] = "add" => Awaits(x, w) /\ flag[peer[x][w]] = 1

WarpInv == \A x \in SkCta : \A w \in Warp : ShareInv(x, w) /\ PeerInv(x, w) /\ OwnerInv(x, w)

\* From the barrier behind the fences on, all of the plane is out and no warp
\* touches it again.
PlaneOf(x) ==
  pc[x][0] = "raise" \/ (phase = "kernel" /\ flag[x] = 1) =>
    /\ EndsShort(x)
    /\ \A w \in Warp : plane[x][w] = LastSlice(x) /\ pc[x][w] \in {"raise", "retired"}
PlaneInv == \A x \in SkCta : PlaneOf(x)

\* The CTA in whose share a stream-K tile ends writes it, once it gets there,
\* and a data parallel CTA its tile as it retires.
Owns(x, T) == ShareBegin(x) < (T + 1) * Iters /\ (T + 1) * Iters <= ShareBegin(x + 1)
SkOutputOf(x, w) ==
  \A T \in 0 .. SkTiles - 1 : Owns(x, T) =>
    c[DpTiles + T][w] = IF pc[x][w] # "queued" /\ (T + 1) * Iters <= iter[x][w]
                          THEN Whole(call, DpTiles + T) ELSE NoValue
SkOutput == \A x \in SkCta : \A w \in Warp : SkOutputOf(x, w)
DpOutput ==
  \A t \in 0 .. DpTiles - 1 : \A w \in Warp :
    c[t][w] = IF pc[SkBlocks + t][w] = "retired" THEN Whole(call, t) ELSE NoValue
OutputInv == phase = "kernel" => SkOutput /\ DpOutput

IInv ==
  /\ TypeOK /\ ScratchBalanced /\ OwnerIsContiguous
  /\ HostInv /\ RoleInv /\ WarpInv /\ PlaneInv /\ OutputInv

-------------------------------------------------------------------------------
(* Facts about single definitions.                                         *)

\* The shape never changes, and so neither does the plan.
LEMMA Static ==
  ASSUME tiles' = tiles
  PROVE  /\ SkTiles' = SkTiles /\ SkIters' = SkIters /\ SkBlocks' = SkBlocks
         /\ DpTiles' = DpTiles /\ SkCta' = SkCta /\ Grid' = Grid /\ Tile' = Tile
         /\ Value' = Value /\ NoC' = NoC /\ Fragment' = Fragment
         /\ \A x : ShareBegin(x)' = ShareBegin(x)
         /\ \A k, t : Whole(k, t)' = Whole(k, t)
<1>1. SkTiles' = SkTiles
  BY DEF SkTiles
<1>2. SkIters' = SkIters
  BY <1>1 DEF SkIters
<1>3. SkBlocks' = SkBlocks /\ DpTiles' = DpTiles
  BY <1>1, <1>2 DEF SkBlocks, DpTiles
<1>4. SkCta' = SkCta /\ Grid' = Grid /\ Tile' = Tile /\ Value' = Value
  BY <1>2, <1>3 DEF SkCta, Grid, Tile, Value
<1>5. NoC' = NoC /\ Fragment' = Fragment
  BY <1>4 DEF NoC, Fragment
<1>6. \A x : ShareBegin(x)' = ShareBegin(x)
  BY <1>2, <1>3 DEF ShareBegin
<1>7. \A k, t : Whole(k, t)' = Whole(k, t)
  BY <1>3 DEF Whole
<1> QED
  BY <1>1, <1>2, <1>3, <1>4, <1>5, <1>6, <1>7

LEMMA CtaFacts ==
  ASSUME tiles \in Shapes, NEW x \in SkCta
  PROVE  /\ x \in Nat /\ x + 1 \in Nat /\ x < SkBlocks /\ SkBlocks \in Nat /\ SkIters \in Nat
         /\ ShareBegin(x) \in Nat /\ ShareBegin(x + 1) \in Nat
         /\ ShareBegin(x) < ShareBegin(x + 1) /\ ShareBegin(x + 1) <= SkIters
         /\ x \in Grid /\ x \in Cta
<1>1. x \in Nat /\ x < SkBlocks /\ SkBlocks \in Nat /\ SkIters \in Nat
  BY PlanFacts DEF SkCta
<1>2. x \in 0 .. SkBlocks - 1 /\ x \in 0 .. SkBlocks /\ x + 1 \in 0 .. SkBlocks
  BY <1>1
<1>3. ShareBegin(x) \in 0 .. SkIters /\ ShareBegin(x + 1) \in 0 .. SkIters
  BY <1>1, <1>2, ShareFacts
<1>4. ShareBegin(x) < ShareBegin(x + 1)
  BY <1>1, <1>2, ShareFacts
<1> QED
  BY <1>1, <1>3, <1>4, GridFacts

\* A warp in the tile its share stops short in holds the last slice.
LEMMA LastSliceOf ==
  ASSUME tiles \in Shapes, NEW x \in SkCta, NEW i \in Nat,
         ShareBegin(x) <= i, i < ShareBegin(x + 1),
         i = ShareBegin(x) \/ i = TileBegin(i),
         ShareBegin(x + 1) < TileEnd(i)
  PROVE  EndsShort(x) /\ LastSlice(x) = Sum(call, i, ShareBegin(x + 1))
<1> DEFINE j == ShareBegin(x + 1) - 1
<1>0. ShareBegin(x) \in Nat /\ ShareBegin(x + 1) \in Nat
  BY CtaFacts
<1>1. j \in Nat /\ i <= j /\ j < TileEnd(i) /\ ShareBegin(x) \in Nat
  BY <1>0, TileRange
<1>2. /\ TileBegin(i) \in Nat /\ TileBegin(i) <= i
      /\ TileBegin(i) = LocalTile(i) * Iters /\ TileEnd(i) = (LocalTile(i) + 1) * Iters
      /\ LocalTile(i) \in Nat
  BY TileFacts DEF TileEnd
<1>3. LocalTile(j) = LocalTile(i)
  BY <1>1, <1>2, TileEnds
<1>4. TileBegin(j) = TileBegin(i)
  BY <1>3 DEF TileBegin
<1> QED
  BY <1>1, <1>2, <1>4 DEF EndsShort, LastSlice, TileEnd

LEMMA SumParts ==
  ASSUME NEW k, NEW a, NEW b, NEW l, NEW d, NEW e
  PROVE  Sum(k, a, b) = Sum(l, d, e) <=> k = l /\ a = d /\ b = e
BY DEF Sum

LEMMA WholeSk ==
  ASSUME tiles \in Shapes, NEW T \in Nat, NEW k
  PROVE  Whole(k, DpTiles + T) = Sum(k, T * Iters, (T + 1) * Iters)
<1>1. DpTiles \in Nat
  BY PlanFacts
<1>2. ~(DpTiles + T < DpTiles) /\ (DpTiles + T) - DpTiles = T
  BY <1>1
<1> QED
  BY <1>2 DEF Whole

\* A result is no other result, no fresh fragment and no fault.
LEMMA WholeDistinct ==
  ASSUME NEW k \in Nat, NEW t
  PROVE  Whole(k, t) # NoValue
BY DEF Whole, Sum, NoValue

LEMMA SumType ==
  ASSUME NEW k \in -1 .. Calls, NEW a \in 0 .. SkIters, NEW b \in 0 .. SkIters
  PROVE  Sum(k, a, b) \in Value
BY DEF Sum, Value

LEMMA ValueTypes ==
  ASSUME tiles \in Shapes
  PROVE  /\ Garbage \in Value /\ NoValue \in Value
         /\ \A k \in 0 .. Calls : \A t \in Tile : Whole(k, t) \in Value
         /\ NoC \in [Tile -> [Warp -> Value]]
<1>1. SkIters \in Nat /\ 0 \in 0 .. SkIters
  BY PlanFacts
<1>2. Garbage \in Value /\ NoValue \in Value
  BY <1>1, SumType, CallsAssumption DEF Garbage, NoValue
<1>3. ASSUME NEW k \in 0 .. Calls, NEW t \in Tile PROVE Whole(k, t) \in Value
  <2>1. CASE t < DpTiles
    BY <1>1, <2>1, SumType DEF Whole
  <2>2. CASE ~(t < DpTiles)
    <3> DEFINE T == t - DpTiles
    <3>1. T \in Nat /\ T + 1 <= SkTiles /\ SkTiles \in Nat /\ T + 1 \in Nat
      BY <2>2, PlanFacts DEF Tile
    <3>2. /\ T * Iters \in Nat /\ (T + 1) * Iters \in Nat /\ T * Iters <= (T + 1) * Iters
          /\ (T + 1) * Iters <= SkTiles * Iters
      BY <3>1, Monotone, ItersAssumption
    <3>3. (T + 1) * Iters \in 0 .. SkIters /\ T * Iters \in 0 .. SkIters
      BY <3>2, PlanFacts
    <3> QED
      BY <2>2, <3>3, SumType DEF Whole
  <2> QED
    BY <2>1, <2>2
<1> QED
  BY <1>2, <1>3 DEF NoC

LEMMA AddType ==
  ASSUME tiles \in Shapes, NEW u \in Value, NEW v \in Value PROVE Add(u, v) \in Value
BY ValueTypes DEF Add, Value, Sum

\* Folding into C is exact only where nothing has been written.
LEMMA FoldFresh == ASSUME NEW v PROVE Fold(NoValue, v) = v
BY DEF Fold

\* Before a call's first write C holds none of its results.
Fresh == call \in Nat /\ c = NoC

LEMMA Nothing == Fresh => (Written = {})
<1> SUFFICES ASSUME Fresh PROVE Written = {}
  OBVIOUS
<1> USE DEF Fresh
<1>1. \A f \in Fragment : c[f[1]][f[2]] = NoValue
  BY DEF Fragment, NoC
<1> QED
  BY <1>1, WholeDistinct DEF Written

LEMMA WarpFacts == 0 \in Warp /\ Warp \subseteq Nat
BY WarpsAssumption DEF Warp

-------------------------------------------------------------------------------
(* The steps on the host keep the invariant.                               *)

LEMMA InitInv == Init => IInv
<1> SUFFICES ASSUME Init PROVE IInv
  OBVIOUS
<1> USE DEF Init
<1>1. tiles \in Shapes /\ SkIters \in Nat /\ SkBlocks \in Nat
  BY PlanFacts
<1>2. TypeOK
  BY <1>1, ValueTypes, CallsAssumption DEF TypeOK, Phase, PC
<1>3. AllRetired /\ \A x \in Cta : \A w \in Warp : pc[x][w] = "retired"
  BY DEF AllRetired
<1>4. \A x \in SkCta : x \in Cta
  BY <1>1, CtaFacts
<1>5. RoleInv
  BY <1>3 DEF RoleInv, RoleOf
<1>6. WarpInv
  BY <1>3, <1>4 DEF WarpInv, ShareInv, PeerInv, OwnerInv
<1>7. PlaneInv
  BY <1>3, <1>4, WarpFacts DEF PlaneInv, PlaneOf
<1>8. OwnerIsContiguous
  BY <1>3, <1>4 DEF OwnerIsContiguous
<1> QED
  BY <1>2, <1>5, <1>6, <1>7, <1>8 DEF IInv, ScratchBalanced, HostInv, OutputInv

\* Before and after the kernel no CTA runs, and nothing else is asked of them.
Quiet ==
  /\ tiles \in Shapes /\ phase # "kernel" /\ AllRetired
  /\ \A x \in SkCta : \A w \in Warp : ~pending[x][w]

LEMMA AtRest == Quiet => OwnerIsContiguous /\ RoleInv /\ WarpInv /\ PlaneInv /\ OutputInv
<1> SUFFICES ASSUME Quiet PROVE OwnerIsContiguous /\ RoleInv /\ WarpInv /\ PlaneInv /\ OutputInv
  OBVIOUS
<1> USE DEF Quiet
<1>1. \A x \in Cta : \A w \in Warp : pc[x][w] = "retired"
  BY DEF AllRetired
<1>2. \A x \in SkCta : x \in Cta
  BY CtaFacts
<1>3. RoleInv
  BY <1>1 DEF RoleInv, RoleOf
<1>4. WarpInv
  BY <1>1, <1>2 DEF WarpInv, ShareInv, PeerInv, OwnerInv
<1>5. PlaneInv
  BY <1>1, <1>2, WarpFacts DEF PlaneInv, PlaneOf
<1>6. OwnerIsContiguous
  BY <1>1, <1>2 DEF OwnerIsContiguous
<1> QED
  BY <1>3, <1>4, <1>5, <1>6 DEF OutputInv

LEMMA Retired ==
  ASSUME IInv, phase # "kernel"
  PROVE  Quiet
<1>1. \A x \in Cta : \A w \in Warp : pc[x][w] = "retired"
  BY DEF IInv, RoleInv, RoleOf
<1>2. \A x \in SkCta : x \in Cta
  BY CtaFacts DEF IInv, TypeOK
<1> QED
  BY <1>1, <1>2 DEF Quiet, AllRetired, IInv, TypeOK, WarpInv, PeerInv

LEMMA CallStep ==
  ASSUME IInv, NEW workspace \in {"null", "enough", "small"}, Call(workspace)
  PROVE  IInv'
<1>1. /\ tiles' = tiles /\ call' = call + 1 /\ call < Calls /\ c' = NoC /\ phase = "idle"
      /\ UNCHANGED <<flag, plane, pending, pc, iter, peer, acc>>
      /\ phase' \in {"launch", "alloc", "flags", "free"}
      /\ scratch' \in {"caller", "none"} /\ result' \in {"ok", "error"}
      /\ phase' # "free" => result' = "ok"
      /\ phase' = "free" => result' = "error"
      /\ phase' = "flags" => scratch' # "none"
      /\ phase' = "launch" => SkTiles = 0
  BY DEF Call
<1>2. tiles \in Shapes /\ call \in Nat /\ TypeOK
  BY CallsAssumption DEF IInv, TypeOK
<1>3. TypeOK'
  BY <1>1, <1>2, Static, ValueTypes, CallsAssumption DEF TypeOK, Phase
<1>4. phase' = "launch" => SkBlocks = 0 /\ SkCta = {}
  BY <1>1, <1>2, PlanFacts DEF SkCta
<1>5. HostInv'
  BY <1>1, <1>2, <1>4, Static DEF HostInv
<1>6. Quiet'
  BY <1>1, <1>2, Retired, Static DEF Quiet, AllRetired
<1>7. (OwnerIsContiguous /\ RoleInv /\ WarpInv /\ PlaneInv /\ OutputInv)'
  BY <1>6, AtRest, PTL
<1> QED
  BY <1>1, <1>3, <1>5, <1>7 DEF IInv, ScratchBalanced

LEMMA StreamStepRest ==
  ASSUME IInv, Allocate \/ ClearFlags \/ Free \/ Rest \/ UNCHANGED vars, phase # "kernel"
  PROVE  IInv'
<1>1. tiles \in Shapes /\ TypeOK /\ HostInv /\ ScratchBalanced /\ Quiet
  BY Retired DEF IInv, TypeOK
<1>2. CASE Allocate
  <2>1. /\ UNCHANGED <<call, tiles, pending, pc, iter, peer, acc, c>> /\ phase = "alloc"
        /\ \/ /\ phase' = "flags" /\ scratch' = "owned" /\ result' = result
              /\ flag' = [x \in SkCta |-> 1]
              /\ plane' = [x \in SkCta |-> [w \in Warp |-> Garbage]]
           \/ phase' = "free" /\ result' = "error" /\ UNCHANGED <<scratch, flag, plane>>
    BY <1>2 DEF Allocate
  <2>2. TypeOK'
    BY <1>1, <2>1, Static, ValueTypes DEF TypeOK, Phase
  <2>3. HostInv' /\ ScratchBalanced'
    BY <1>1, <2>1, Static DEF HostInv, ScratchBalanced
  <2>4. Quiet'
    BY <1>1, <2>1, Static DEF Quiet, AllRetired
  <2>5. (OwnerIsContiguous /\ RoleInv /\ WarpInv /\ PlaneInv /\ OutputInv)'
    BY <2>4, AtRest, PTL
  <2> QED
    BY <2>2, <2>3, <2>5 DEF IInv
<1>3. CASE ClearFlags
  <2>1. /\ UNCHANGED <<call, tiles, scratch, plane, pending, pc, iter, peer, acc, c>>
        /\ phase = "flags"
        /\ \/ phase' = "launch" /\ flag' = [x \in SkCta |-> 0] /\ result' = result
           \/ phase' = "free" /\ result' = "error" /\ flag' = flag
    BY <1>3 DEF ClearFlags
  <2>2. TypeOK'
    BY <1>1, <2>1, Static DEF TypeOK, Phase
  <2>3. HostInv' /\ ScratchBalanced'
    BY <1>1, <2>1, Static DEF HostInv, ScratchBalanced
  <2>4. Quiet'
    BY <1>1, <2>1, Static DEF Quiet, AllRetired
  <2>5. (OwnerIsContiguous /\ RoleInv /\ WarpInv /\ PlaneInv /\ OutputInv)'
    BY <2>4, AtRest, PTL
  <2> QED
    BY <2>2, <2>3, <2>5 DEF IInv
<1>4. CASE Free \/ Rest \/ UNCHANGED vars
  <2>1. /\ UNCHANGED <<call, tiles, flag, plane, pending, pc, iter, peer, acc, c>>
        /\ \/ UNCHANGED <<phase, scratch, result>>
           \/ /\ phase = "free" /\ phase' = "idle" /\ scratch' = "none"
              /\ result' = result \/ result' = "error"
    BY <1>4 DEF Free, Rest, vars, stream
  <2>2. TypeOK'
    BY <1>1, <2>1, Static DEF TypeOK, Phase
  <2>3. Written' = Written
    BY <2>1, Static DEF Written
  <2>4. HostInv' /\ ScratchBalanced'
    BY <1>1, <2>1, <2>3, Static DEF HostInv, ScratchBalanced
  <2>5. Quiet'
    BY <1>1, <2>1, Static DEF Quiet, AllRetired
  <2>6. (OwnerIsContiguous /\ RoleInv /\ WarpInv /\ PlaneInv /\ OutputInv)'
    BY <2>5, AtRest, PTL
  <2> QED
    BY <2>2, <2>4, <2>6 DEF IInv
<1> QED
  BY <1>2, <1>3, <1>4

LEMMA LaunchStep == ASSUME IInv, Launch PROVE IInv'
<1>1. tiles \in Shapes /\ TypeOK /\ HostInv /\ ScratchBalanced /\ phase = "launch" /\ Quiet
  BY Retired DEF IInv, TypeOK, Launch
<1>2. UNCHANGED <<call, tiles, scratch, flag, plane, pending, iter, peer, acc, c>>
  BY DEF Launch
<1>3. CASE phase' = "free" /\ result' = "error" /\ pc' = pc
  <2>1. TypeOK'
    BY <1>1, <1>2, <1>3, Static DEF TypeOK, Phase
  <2>2. HostInv' /\ ScratchBalanced'
    BY <1>1, <1>2, <1>3, Static DEF HostInv, ScratchBalanced
  <2>3. Quiet'
    BY <1>1, <1>2, <1>3, Static DEF Quiet, AllRetired
  <2>4. (OwnerIsContiguous /\ RoleInv /\ WarpInv /\ PlaneInv /\ OutputInv)'
    BY <2>3, AtRest, PTL
  <2> QED
    BY <2>1, <2>2, <2>4 DEF IInv
<1>4. CASE /\ phase' = "kernel" /\ result' = result
           /\ pc' = [x \in Cta |-> [w \in Warp |-> IF x \in Grid THEN "queued" ELSE "retired"]]
  <2>1. TypeOK'
    BY <1>1, <1>2, <1>4, Static DEF TypeOK, Phase, PC
  <2>2. HostInv' /\ ScratchBalanced'
    BY <1>1, <1>2, <1>4, Static DEF HostInv, ScratchBalanced
  <2>3. \A x \in Cta : \A w \in Warp : pc'[x][w] = IF x \in Grid THEN "queued" ELSE "retired"
    BY <1>4
  <2>4. \A x \in SkCta : x \in Grid /\ x \in Cta
    BY <1>1, CtaFacts
  <2>5. OwnerIsContiguous'
    BY <1>2, <2>3, <2>4, Static DEF OwnerIsContiguous
  <2>6. RoleInv'
    BY <1>2, <1>4, <2>3, Static DEF RoleInv, RoleOf
  <2>7. WarpInv'
    BY <1>1, <1>2, <2>3, <2>4, Static DEF WarpInv, ShareInv, PeerInv, OwnerInv, Quiet
  <2>8. PlaneInv'
    BY <1>1, <1>2, <2>3, <2>4, Static, WarpFacts DEF PlaneInv, PlaneOf, HostInv
  <2>9. SkOutput'
    <3>1. \A T \in 0 .. SkTiles - 1 : DpTiles + T \in Tile
      BY <1>1, PlanFacts DEF Tile
    <3>2. c = NoC
      BY <1>1 DEF HostInv
    <3> QED
      BY <1>2, <2>3, <2>4, <3>1, <3>2, Static DEF SkOutput, SkOutputOf, NoC
  <2>10. DpOutput'
    <3>1. \A t \in 0 .. DpTiles - 1 : t \in Tile /\ SkBlocks + t \in Grid /\ SkBlocks + t \in Cta
      BY <1>1, PlanFacts, GridFacts DEF Tile, Grid
    <3>2. c = NoC
      BY <1>1 DEF HostInv
    <3> QED
      BY <1>2, <2>3, <3>1, <3>2, Static DEF DpOutput, NoC
  <2> QED
    BY <2>1, <2>2, <2>5, <2>6, <2>7, <2>8, <2>9, <2>10 DEF IInv, OutputInv
<1> QED
  BY <1>3, <1>4 DEF Launch

\* When every CTA has retired each fragment has been written.
LEMMA AllWritten == ASSUME IInv, phase = "kernel", AllRetired PROVE Written = Fragment
<1>1. /\ tiles \in Shapes /\ SkOutput /\ DpOutput /\ TypeOK
      /\ \A x \in Cta : \A w \in Warp : pc[x][w] = "retired"
  BY DEF IInv, OutputInv, AllRetired, TypeOK
<1>2. ASSUME NEW t \in Tile, NEW w \in Warp PROVE c[t][w] = Whole(call, t)
  <2>1. /\ t \in Nat /\ t < tiles /\ DpTiles \in Nat /\ SkTiles \in Nat
        /\ DpTiles + SkTiles = tiles /\ SkBlocks \in Nat
    BY <1>1, PlanFacts DEF Tile
  <2>2. CASE t < DpTiles
    <3>1. t \in 0 .. DpTiles - 1 /\ SkBlocks + t \in Cta
      BY <1>1, <2>1, <2>2, GridFacts DEF Grid
    <3> QED
      BY <1>1, <3>1 DEF DpOutput
  <2>3. CASE ~(t < DpTiles)
    <3> DEFINE T == t - DpTiles
               i == (T + 1) * Iters - 1
    <3>1. T \in 0 .. SkTiles - 1 /\ T \in Nat /\ t = DpTiles + T
      BY <2>1, <2>3
    <3> HIDE DEF T
    <3>2. (T + 1) * Iters \in Nat \ {0} /\ (T + 1) * Iters <= SkTiles * Iters
      BY <2>1, <3>1, ItersAssumption, Monotone
    <3>3. i \in 0 .. SkIters - 1 /\ i + 1 = (T + 1) * Iters
      BY <1>1, <3>2, PlanFacts
    <3>4. PICK x \in SkCta : ShareBegin(x) <= i /\ i < ShareBegin(x + 1)
      BY <1>1, <3>3, ShareOf
    <3> HIDE DEF i
    <3>5. /\ ShareBegin(x) \in Nat /\ ShareBegin(x + 1) \in Nat /\ SkIters \in Nat
          /\ x \in Cta
      BY <1>1, CtaFacts
    <3>6. i \in Nat
      BY <3>3, <3>5
    <3>7. Owns(x, T)
      BY <3>2, <3>3, <3>4, <3>5, <3>6 DEF Owns
    <3>8. ShareBegin(x + 1) < TileEnd(iter[x][w]) /\ iter[x][w] \in Nat
      BY <1>1, <3>5 DEF IInv, WarpInv, ShareInv, TypeOK
    <3>9. (T + 1) * Iters <= iter[x][w]
      <4> DEFINE L == LocalTile(iter[x][w])
      <4>1. L \in Nat /\ TileEnd(iter[x][w]) = (L + 1) * Iters
        BY <3>8, TileFacts DEF TileEnd
      <4>2. (T + 1) * Iters <= iter[x][w] <=> T < L
        BY <3>1, <3>8, TileEnds
      <4> HIDE DEF L
      <4>3. L <= T => (L + 1) * Iters <= (T + 1) * Iters
        BY <3>1, <4>1, Monotone, ItersAssumption
      <4>4. (L + 1) * Iters \in Nat
        BY <4>1, ItersAssumption
      <4> QED
        BY <3>1, <3>2, <3>3, <3>4, <3>5, <3>6, <3>8, <4>1, <4>2, <4>3, <4>4
    <3> QED
      BY <1>1, <3>1, <3>5, <3>7, <3>9 DEF SkOutput, SkOutputOf
  <2> QED
    BY <2>2, <2>3
<1> QED
  BY <1>2 DEF Written, Fragment

LEMMA KernelEndStep == ASSUME IInv, KernelEnd PROVE IInv'
<1>1. /\ tiles \in Shapes /\ TypeOK /\ HostInv /\ phase = "kernel" /\ phase' = "free"
      /\ AllRetired
      /\ UNCHANGED <<call, tiles, result, scratch, flag, plane, pending, pc, iter, peer, acc, c>>
  BY DEF IInv, TypeOK, KernelEnd
<1>2. TypeOK'
  BY <1>1, Static DEF TypeOK, Phase
<1>3. Written' = Written /\ Written = Fragment
  BY <1>1, AllWritten, Static DEF Written
<1>4. HostInv' /\ ScratchBalanced'
  BY <1>1, <1>3, Static DEF HostInv, ScratchBalanced
<1>5. \A x \in SkCta : \A w \in Warp : ~pending[x][w]
  <2>1. \A x \in SkCta : x \in Cta
    BY <1>1, CtaFacts
  <2> QED
    BY <1>1, <2>1 DEF IInv, WarpInv, PeerInv, AllRetired
<1>6. Quiet'
  BY <1>1, <1>5, Static DEF Quiet, AllRetired
<1>7. (OwnerIsContiguous /\ RoleInv /\ WarpInv /\ PlaneInv /\ OutputInv)'
  BY <1>6, AtRest, PTL
<1> QED
  BY <1>2, <1>4, <1>7 DEF IInv

-------------------------------------------------------------------------------
(* The steps of the kernel keep the invariant.                             *)

\* None of them reaches the host's variables.
LEMMA HostFrame ==
  ASSUME HostInv, ScratchBalanced, phase = "kernel", UNCHANGED stream
  PROVE  HostInv' /\ ScratchBalanced'
BY Static DEF HostInv, ScratchBalanced, stream

\* A warp past the dispatch and short of its end is one of a stream-K CTA.
LEMMA Working ==
  ASSUME IInv, NEW x \in Cta, NEW w \in Warp, pc[x][w] \notin {"queued", "dp", "retired"}
  PROVE  /\ x \in SkCta /\ phase = "kernel" /\ tiles \in Shapes /\ TypeOK
         /\ x \in Nat /\ x < SkBlocks /\ SkBlocks \in Nat /\ call \in Nat /\ call > 0
         /\ iter[x][w] \in Nat /\ SkIters \in Nat
         /\ ShareBegin(x) \in Nat /\ ShareBegin(x + 1) \in Nat
         /\ ShareBegin(x) < ShareBegin(x + 1) /\ ShareBegin(x + 1) <= SkIters
         /\ ShareInv(x, w) /\ PeerInv(x, w) /\ OwnerInv(x, w)
<1>1. x \in SkCta /\ phase = "kernel" /\ tiles \in Shapes /\ TypeOK
  BY DEF IInv, RoleInv, RoleOf, TypeOK
<1>2. call \in Nat /\ call > 0 /\ iter[x][w] \in Nat
  BY <1>1, CallsAssumption, PlanFacts DEF IInv, HostInv, TypeOK
<1>3. ShareInv(x, w) /\ PeerInv(x, w) /\ OwnerInv(x, w)
  BY <1>1 DEF IInv, WarpInv
<1> QED
  BY <1>1, <1>2, <1>3, CtaFacts

\* No warp of a CTA with a complete plane is at work.
LEMMA PlaneDone ==
  ASSUME IInv, NEW x \in SkCta, NEW w \in Warp, pc[x][w] \notin {"raise", "retired"}
  PROVE  pc[x][0] # "raise" /\ (phase = "kernel" => flag[x] # 1)
BY DEF IInv, PlaneInv, PlaneOf

Active == {"top", "tile", "store", "fence", "sync", "wait", "add"}

\* What an owner has summed up, for one warp.
Contiguous(x, w) ==
  pc[x][w] \in {"wait", "add"} =>
    LET tile == TileBegin(iter[x][w])
        from == IF peer[x][w] = x - 1 THEN iter[x][w] ELSE ShareBegin(peer[x][w] + 1) IN
      acc[x][w] = Sum(call, IF from < tile THEN tile ELSE from, tile + Iters)

\* A step of one warp inside its share concerns that warp alone: its own part
\* of the invariant is all there is to show.
LEMMA WarpFrame ==
  ASSUME IInv, NEW x \in SkCta, NEW w \in Warp, phase = "kernel", tiles \in Shapes,
         UNCHANGED stream, UNCHANGED <<flag, iter, c>>,
         \A y \in Cta : \A v \in Warp : y # x \/ v # w =>
           pc'[y][v] = pc[y][v] /\ acc'[y][v] = acc[y][v] /\ peer'[y][v] = peer[y][v],
         \A y \in SkCta : \A v \in Warp : y # x \/ v # w =>
           plane'[y][v] = plane[y][v] /\ pending'[y][v] = pending[y][v],
         pc[x][w] \in Active, pc'[x][w] \in Active,
         ShareInv(x, w)', PeerInv(x, w)', OwnerInv(x, w)', Contiguous(x, w)'
  PROVE  /\ HostInv' /\ ScratchBalanced' /\ OwnerIsContiguous'
         /\ RoleInv' /\ WarpInv' /\ PlaneInv' /\ OutputInv'
<1>1. UNCHANGED <<call, tiles, phase, result, scratch>>
  BY DEF stream
<1>2. \A y \in SkCta : y \in Cta /\ y \in Grid
  BY CtaFacts
<1>3. HostInv' /\ ScratchBalanced'
  BY HostFrame DEF IInv
<1>4. OwnerIsContiguous'
  <2>1. SUFFICES ASSUME NEW y \in SkCta, NEW v \in Warp PROVE Contiguous(y, v)'
    BY <1>1, Static DEF OwnerIsContiguous, Contiguous
  <2>2. CASE y # x \/ v # w
    BY <1>1, <1>2, <2>2, Static DEF IInv, OwnerIsContiguous, Contiguous
  <2> QED
    BY <2>2
<1>5. RoleInv'
  BY <1>1, <1>2, Static DEF IInv, RoleInv, RoleOf, Active
<1>6. WarpInv'
  <2>1. SUFFICES ASSUME NEW y \in SkCta, NEW v \in Warp
        PROVE  (ShareInv(y, v) /\ PeerInv(y, v) /\ OwnerInv(y, v))'
    BY <1>1, Static DEF WarpInv
  <2>2. CASE y # x \/ v # w
    <3>1. ShareInv(y, v) /\ PeerInv(y, v) /\ OwnerInv(y, v)
      BY DEF IInv, WarpInv
    <3> QED
      BY <1>1, <1>2, <2>2, <3>1, Static DEF ShareInv, PeerInv, OwnerInv, Awaits
  <2> QED
    BY <2>2
<1>7. PlaneInv'
  <2>1. pc[x][0] # "raise" /\ flag[x] # 1
    BY PlaneDone DEF Active
  <2> QED
    BY <1>1, <1>2, <2>1, Static, WarpFacts DEF IInv, PlaneInv, PlaneOf, EndsShort, LastSlice, Active
<1>8. OutputInv'
  <2>1. \A y \in Cta : \A v \in Warp :
          (pc'[y][v] = "queued" <=> pc[y][v] = "queued") /\ (pc'[y][v] = "retired" <=> pc[y][v] = "retired")
    BY DEF Active
  <2>2. SkOutput'
    BY <1>1, <1>2, <2>1, Static DEF IInv, OutputInv, SkOutput, SkOutputOf, Owns
  <2>3. \A t \in 0 .. DpTiles - 1 : SkBlocks + t \in Cta
    BY PlanFacts, GridFacts DEF Grid
  <2>4. DpOutput'
    BY <1>1, <2>1, <2>3, Static DEF IInv, OutputInv, DpOutput
  <2> QED
    BY <2>2, <2>4 DEF OutputInv
<1> QED
  BY <1>3, <1>4, <1>5, <1>6, <1>7, <1>8

LEMMA AccumulateStep ==
  ASSUME IInv, NEW x \in Cta, NEW w \in Warp, Accumulate(x, w)
  PROVE  IInv'
<1> DEFINE i == iter[x][w]
           owner == StopIn(x, i) = TileEnd(i)
<1>1. /\ pc[x][w] = "tile"
      /\ acc' = [acc EXCEPT ![x][w] = Sum(call, i, StopIn(x, i))]
      /\ pc' = [pc EXCEPT ![x][w] = IF owner THEN "wait" ELSE "store"]
      /\ peer' = [peer EXCEPT ![x][w] = x - 1]
      /\ UNCHANGED stream /\ UNCHANGED <<flag, plane, pending, iter, c>>
      /\ UNCHANGED <<call, tiles, phase, result, scratch>>
  BY DEF Accumulate, Goto, KernelOnly, TileEnd, stream
<1>2. /\ x \in SkCta /\ phase = "kernel" /\ tiles \in Shapes /\ TypeOK
      /\ x \in Nat /\ x < SkBlocks /\ SkBlocks \in Nat /\ call \in Nat /\ call > 0
      /\ i \in Nat /\ SkIters \in Nat
      /\ ShareBegin(x) \in Nat /\ ShareBegin(x + 1) \in Nat
      /\ ShareBegin(x) < ShareBegin(x + 1) /\ ShareBegin(x + 1) <= SkIters
      /\ ShareInv(x, w) /\ PeerInv(x, w) /\ OwnerInv(x, w)
  BY <1>1, Working
<1>3. /\ ShareBegin(x) <= i /\ i < ShareBegin(x + 1)
      /\ i = ShareBegin(x) \/ i = TileBegin(i)
      /\ TileBegin(i) \in Nat /\ TileEnd(i) \in Nat /\ TileEnd(i) = TileBegin(i) + Iters
      /\ TileBegin(i) <= i /\ i < TileEnd(i)
  BY <1>1, <1>2, TileRange DEF ShareInv
<1>4. /\ StopIn(x, i) \in 0 .. SkIters /\ i \in 0 .. SkIters
      /\ owner => TileEnd(i) <= ShareBegin(x + 1)
      /\ ~owner => StopIn(x, i) = ShareBegin(x + 1) /\ ShareBegin(x + 1) < TileEnd(i)
  BY <1>2, <1>3 DEF StopIn, AtMost, TileEnd
<1>5. Sum(call, i, StopIn(x, i)) \in Value
  BY <1>2, <1>4, SumType DEF TypeOK
<1> HIDE DEF owner
<1>6. /\ pc'[x][w] = IF owner THEN "wait" ELSE "store"
      /\ acc'[x][w] = Sum(call, i, StopIn(x, i)) /\ peer'[x][w] = x - 1
      /\ \A y \in Cta : \A v \in Warp : y # x \/ v # w =>
           pc'[y][v] = pc[y][v] /\ acc'[y][v] = acc[y][v] /\ peer'[y][v] = peer[y][v]
  BY <1>1, <1>2 DEF TypeOK
<1>7. TypeOK'
  <2>1. acc' \in [Cta -> [Warp -> Value]]
    BY <1>1, <1>2, <1>5 DEF TypeOK
  <2>2. pc' \in [Cta -> [Warp -> PC]]
    BY <1>1, <1>2 DEF TypeOK, PC
  <2>3. x - 1 \in -1 .. SkBlocks
    BY <1>2
  <2>4. peer' \in [Cta -> [Warp -> -1 .. SkBlocks]]
    BY <1>1, <1>2, <2>3 DEF TypeOK
  <2> QED
    BY <1>1, <1>2, <2>1, <2>2, <2>4, Static DEF TypeOK
<1>8. Contiguous(x, w)'
  BY <1>1, <1>2, <1>3, <1>6, Static DEF Contiguous, owner, TileEnd
<1>9. ShareInv(x, w)' /\ PeerInv(x, w)' /\ OwnerInv(x, w)'
  BY <1>1, <1>2, <1>3, <1>4, <1>6, Static DEF ShareInv, PeerInv, OwnerInv
<1> QED
  BY <1>1, <1>2, <1>6, <1>7, <1>8, <1>9, WarpFrame DEF IInv, Active

LEMMA StorePartialStep ==
  ASSUME IInv, NEW x \in Cta, NEW w \in Warp, StorePartial(x, w)
  PROVE  IInv'
<1>1. /\ pc[x][w] = "store"
      /\ pending' = [pending EXCEPT ![x][w] = TRUE]
      /\ pc' = [pc EXCEPT ![x][w] = "fence"]
      /\ UNCHANGED stream /\ UNCHANGED <<flag, plane, iter, peer, acc, c>>
      /\ UNCHANGED <<call, tiles, phase, result, scratch>>
  BY DEF StorePartial, Goto, KernelOnly, stream
<1>2. /\ x \in SkCta /\ phase = "kernel" /\ tiles \in Shapes /\ TypeOK
      /\ ShareInv(x, w) /\ PeerInv(x, w) /\ OwnerInv(x, w)
  BY <1>1, Working
<1>3. /\ pc'[x][w] = "fence" /\ pending'[x][w] = TRUE
      /\ \A y \in Cta : \A v \in Warp : y # x \/ v # w => pc'[y][v] = pc[y][v]
      /\ \A y \in SkCta : \A v \in Warp : y # x \/ v # w => pending'[y][v] = pending[y][v]
  BY <1>1, <1>2 DEF TypeOK
<1>4. TypeOK'
  BY <1>1, <1>2, Static DEF TypeOK, PC
<1>5. ShareInv(x, w)' /\ PeerInv(x, w)' /\ OwnerInv(x, w)' /\ Contiguous(x, w)'
  BY <1>1, <1>2, <1>3, Static DEF ShareInv, PeerInv, OwnerInv, Contiguous
<1> QED
  BY <1>1, <1>2, <1>3, <1>4, <1>5, WarpFrame DEF IInv, Active

LEMMA DrainStep ==
  ASSUME IInv, NEW x \in Cta, NEW w \in Warp, Drain(x, w)
  PROVE  IInv'
<1>1. /\ x \in SkCta /\ pending[x][w]
      /\ plane' = [plane EXCEPT ![x][w] = acc[x][w]]
      /\ pending' = [pending EXCEPT ![x][w] = FALSE]
      /\ UNCHANGED stream /\ UNCHANGED <<flag, pc, iter, peer, acc, c>>
      /\ UNCHANGED <<call, tiles, phase, result, scratch>>
  BY DEF Drain, KernelOnly, stream
<1>2. pc[x][w] = "fence"
  BY <1>1 DEF IInv, WarpInv, PeerInv
<1>3. /\ phase = "kernel" /\ tiles \in Shapes /\ TypeOK
      /\ ShareInv(x, w) /\ PeerInv(x, w) /\ OwnerInv(x, w)
  BY <1>2, Working
<1>4. /\ plane'[x][w] = acc[x][w] /\ pending'[x][w] = FALSE
      /\ \A y \in SkCta : \A v \in Warp : y # x \/ v # w =>
           plane'[y][v] = plane[y][v] /\ pending'[y][v] = pending[y][v]
  BY <1>1, <1>3 DEF TypeOK
<1>5. TypeOK'
  BY <1>1, <1>3, Static DEF TypeOK
<1>6. ShareInv(x, w)' /\ PeerInv(x, w)' /\ OwnerInv(x, w)' /\ Contiguous(x, w)'
  BY <1>1, <1>2, <1>3, <1>4, Static DEF ShareInv, PeerInv, OwnerInv, Contiguous
<1> QED
  BY <1>1, <1>2, <1>3, <1>4, <1>5, <1>6, WarpFrame DEF IInv, Active

LEMMA FenceStep ==
  ASSUME IInv, NEW x \in Cta, NEW w \in Warp, Fence(x, w)
  PROVE  IInv'
<1>1. /\ pc[x][w] = "fence" /\ ~pending[x][w]
      /\ pc' = [pc EXCEPT ![x][w] = "sync"]
      /\ UNCHANGED stream /\ UNCHANGED <<flag, plane, pending, iter, peer, acc, c>>
      /\ UNCHANGED <<call, tiles, phase, result, scratch>>
  BY DEF Fence, Goto, KernelOnly, stream
<1>2. /\ x \in SkCta /\ phase = "kernel" /\ tiles \in Shapes /\ TypeOK
      /\ ShareInv(x, w) /\ PeerInv(x, w) /\ OwnerInv(x, w)
  BY <1>1, Working
<1>3. /\ pc'[x][w] = "sync"
      /\ \A y \in Cta : \A v \in Warp : y # x \/ v # w => pc'[y][v] = pc[y][v]
  BY <1>1, <1>2 DEF TypeOK
<1>4. TypeOK'
  BY <1>1, <1>2, Static DEF TypeOK, PC
<1>5. ShareInv(x, w)' /\ PeerInv(x, w)' /\ OwnerInv(x, w)' /\ Contiguous(x, w)'
  BY <1>1, <1>2, <1>3, Static DEF ShareInv, PeerInv, OwnerInv, Contiguous
<1> QED
  BY <1>1, <1>2, <1>3, <1>4, <1>5, WarpFrame DEF IInv, Active

LEMMA SeePeerStep ==
  ASSUME IInv, NEW x \in Cta, NEW w \in Warp, SeePeer(x, w)
  PROVE  IInv'
<1>1. /\ pc[x][w] = "wait" /\ Awaits(x, w) /\ flag[peer[x][w]] = 1
      /\ pc' = [pc EXCEPT ![x][w] = "add"]
      /\ UNCHANGED stream /\ UNCHANGED <<flag, plane, pending, iter, peer, acc, c>>
      /\ UNCHANGED <<call, tiles, phase, result, scratch>>
  BY DEF SeePeer, Goto, KernelOnly, stream
<1>2. /\ x \in SkCta /\ phase = "kernel" /\ tiles \in Shapes /\ TypeOK
      /\ ShareInv(x, w) /\ PeerInv(x, w) /\ OwnerInv(x, w)
  BY <1>1, Working
<1>3. /\ pc'[x][w] = "add"
      /\ \A y \in Cta : \A v \in Warp : y # x \/ v # w => pc'[y][v] = pc[y][v]
  BY <1>1, <1>2 DEF TypeOK
<1>4. TypeOK'
  BY <1>1, <1>2, Static DEF TypeOK, PC
<1>5. ShareInv(x, w)' /\ PeerInv(x, w)'
  BY <1>1, <1>2, <1>3, Static DEF ShareInv, PeerInv
<1>6. OwnerInv(x, w)'
  BY <1>1, <1>2, <1>3, Static DEF OwnerInv, Awaits
<1>7. Contiguous(x, w)'
  BY <1>1, <1>2, <1>3, Static DEF Contiguous, IInv, OwnerIsContiguous
<1> QED
  BY <1>1, <1>2, <1>3, <1>4, <1>5, <1>6, <1>7, WarpFrame DEF IInv, Active

LEMMA AddPeerStep ==
  ASSUME IInv, NEW x \in Cta, NEW w \in Warp, AddPeer(x, w)
  PROVE  IInv'
<1> DEFINE i == iter[x][w]
           p == peer[x][w]
           lo == IF ShareBegin(p) < TileBegin(i) THEN TileBegin(i) ELSE ShareBegin(p)
<1>1. /\ pc[x][w] = "add"
      /\ acc' = [acc EXCEPT ![x][w] = Add(acc[x][w], plane[p][w])]
      /\ peer' = [peer EXCEPT ![x][w] = p - 1]
      /\ pc' = [pc EXCEPT ![x][w] = "wait"]
      /\ UNCHANGED stream /\ UNCHANGED <<flag, plane, pending, iter, c>>
      /\ UNCHANGED <<call, tiles, phase, result, scratch>>
  BY DEF AddPeer, Goto, KernelOnly, stream
<1>2. /\ x \in SkCta /\ phase = "kernel" /\ tiles \in Shapes /\ TypeOK
      /\ x \in Nat /\ x < SkBlocks /\ SkBlocks \in Nat /\ call \in Nat /\ call > 0
      /\ i \in Nat /\ SkIters \in Nat
      /\ ShareBegin(x) \in Nat /\ ShareBegin(x + 1) \in Nat
      /\ ShareBegin(x) < ShareBegin(x + 1) /\ ShareBegin(x + 1) <= SkIters
      /\ ShareInv(x, w) /\ PeerInv(x, w) /\ OwnerInv(x, w)
  BY <1>1, Working
<1>3. /\ ShareBegin(x) <= i /\ i < ShareBegin(x + 1)
      /\ i = ShareBegin(x) \/ i = TileBegin(i)
      /\ TileBegin(i) \in Nat /\ TileEnd(i) \in Nat /\ TileEnd(i) = TileBegin(i) + Iters
      /\ TileBegin(i) <= i /\ i < TileEnd(i) /\ TileEnd(i) <= ShareBegin(x + 1)
  BY <1>1, <1>2, TileRange DEF ShareInv, OwnerInv
<1>4. /\ p \in Nat /\ p < x /\ flag[p] = 1 /\ ShareBegin(p + 1) > TileBegin(i)
  BY <1>1, <1>2 DEF OwnerInv, Awaits
<1>5. p \in SkCta /\ p \in Cta
  BY <1>2, <1>4, CtaFacts DEF SkCta
<1>6. /\ ShareBegin(p) \in Nat /\ ShareBegin(p + 1) \in Nat /\ ShareBegin(p) < ShareBegin(p + 1)
      /\ ShareBegin(p + 1) <= ShareBegin(x) /\ ShareBegin(p + 1) <= SkIters
  <2>1. p + 1 \in 0 .. SkBlocks /\ x \in 0 .. SkBlocks /\ p + 1 <= x /\ SkBlocks > 0
    BY <1>2, <1>4
  <2>2. ShareBegin(p + 1) <= ShareBegin(x)
    BY <1>2, <2>1, ShareFacts
  <2> QED
    BY <1>2, <1>5, <2>2, CtaFacts
<1> HIDE DEF p
<1>7. plane[p][w] = Sum(call, lo, ShareBegin(p + 1))
  <2> DEFINE j == ShareBegin(p + 1) - 1
  <2>1. j \in Nat /\ TileBegin(i) <= j /\ j < TileEnd(i)
    BY <1>2, <1>3, <1>4, <1>6
  <2>2. TileBegin(i) = LocalTile(i) * Iters /\ TileEnd(i) = (LocalTile(i) + 1) * Iters /\ LocalTile(i) \in Nat
    BY <1>2, TileFacts DEF TileEnd
  <2>3. LocalTile(j) = LocalTile(i)
    BY <2>1, <2>2, TileEnds
  <2>4. TileBegin(j) = TileBegin(i)
    BY <2>3 DEF TileBegin
  <2>5. plane[p][w] = LastSlice(p)
    BY <1>2, <1>4, <1>5 DEF IInv, PlaneInv, PlaneOf
  <2> QED
    BY <2>4, <2>5 DEF LastSlice
<1>8. acc[x][w] = Sum(call, ShareBegin(p + 1), TileEnd(i))
  <2>1. Contiguous(x, w)
    BY <1>2 DEF IInv, OwnerIsContiguous, Contiguous
  <2>2. p = x - 1 => i = ShareBegin(p + 1)
    BY <1>2, <1>3, <1>4
  <2> QED
    BY <1>1, <1>3, <1>4, <1>6, <2>1, <2>2 DEF Contiguous, TileEnd, p
<1>9. Add(acc[x][w], plane[p][w]) = Sum(call, lo, TileEnd(i))
  BY <1>2, <1>7, <1>8 DEF Add, Sum, Garbage
<1> HIDE DEF lo
<1>10. /\ pc'[x][w] = "wait" /\ acc'[x][w] = Sum(call, lo, TileEnd(i)) /\ peer'[x][w] = p - 1
       /\ \A y \in Cta : \A v \in Warp : y # x \/ v # w =>
            pc'[y][v] = pc[y][v] /\ acc'[y][v] = acc[y][v] /\ peer'[y][v] = peer[y][v]
  BY <1>1, <1>2, <1>9 DEF TypeOK
<1>11. TypeOK'
  <2>1. Add(acc[x][w], plane[p][w]) \in Value
    BY <1>2, <1>5, AddType DEF TypeOK
  <2>2. acc' \in [Cta -> [Warp -> Value]]
    BY <1>1, <1>2, <2>1 DEF TypeOK
  <2>3. pc' \in [Cta -> [Warp -> PC]]
    BY <1>1, <1>2 DEF TypeOK, PC
  <2>4. p - 1 \in -1 .. SkBlocks
    BY <1>2, <1>4
  <2>5. peer' \in [Cta -> [Warp -> -1 .. SkBlocks]]
    BY <1>1, <1>2, <2>4 DEF TypeOK
  <2> QED
    BY <1>1, <1>2, <2>2, <2>3, <2>5, Static DEF TypeOK
<1>12. Contiguous(x, w)'
  <2>1. p - 1 # x - 1 /\ p - 1 + 1 = p
    BY <1>2, <1>4
  <2> QED
    BY <1>1, <1>10, <2>1, Static DEF Contiguous, TileEnd, lo
<1>13. ShareInv(x, w)' /\ PeerInv(x, w)' /\ OwnerInv(x, w)'
  BY <1>1, <1>2, <1>3, <1>4, <1>10, Static DEF ShareInv, PeerInv, OwnerInv
<1> QED
  BY <1>1, <1>2, <1>10, <1>11, <1>12, <1>13, WarpFrame DEF IInv, Active

\* A step of a whole CTA concerns that CTA alone.
LEMMA CtaFrame ==
  ASSUME IInv, NEW x \in Cta, phase = "kernel", tiles \in Shapes,
         UNCHANGED stream, UNCHANGED <<plane, pending, peer, acc, c>>,
         \A y \in Cta : \A v \in Warp : y # x => pc'[y][v] = pc[y][v] /\ iter'[y][v] = iter[y][v],
         \A y \in SkCta : (y # x => flag'[y] = flag[y]) /\ (flag[y] = 1 => flag'[y] = 1),
         \A v \in Warp : RoleOf(x, v)',
         x \notin SkCta => \A v \in Warp : pc'[x][v] = "retired" <=> pc[x][v] = "retired",
         x \in SkCta => PlaneOf(x)',
         x \in SkCta => \A v \in Warp : ShareInv(x, v)' /\ PeerInv(x, v)' /\ OwnerInv(x, v)',
         x \in SkCta => \A v \in Warp : Contiguous(x, v)' /\ SkOutputOf(x, v)'
  PROVE  /\ HostInv' /\ ScratchBalanced' /\ OwnerIsContiguous'
         /\ RoleInv' /\ WarpInv' /\ PlaneInv' /\ OutputInv'
<1>1. UNCHANGED <<call, tiles, phase, result, scratch>>
  BY DEF stream
<1>2. \A y \in SkCta : y \in Cta /\ y \in Grid
  BY CtaFacts
<1>3. HostInv' /\ ScratchBalanced'
  BY HostFrame DEF IInv
<1>4. OwnerIsContiguous'
  <2>1. SUFFICES ASSUME NEW y \in SkCta, NEW v \in Warp PROVE Contiguous(y, v)'
    BY <1>1, Static DEF OwnerIsContiguous, Contiguous
  <2>2. CASE y # x
    BY <1>1, <1>2, <2>2, Static DEF IInv, OwnerIsContiguous, Contiguous
  <2> QED
    BY <2>2
<1>5. RoleInv'
  <2>1. SUFFICES ASSUME NEW y \in Cta, NEW v \in Warp PROVE RoleOf(y, v)'
    BY DEF RoleInv
  <2>2. CASE y # x
    BY <1>1, <2>2, Static DEF IInv, RoleInv, RoleOf
  <2> QED
    BY <2>2
<1>6. WarpInv'
  <2>1. SUFFICES ASSUME NEW y \in SkCta, NEW v \in Warp
        PROVE  (ShareInv(y, v) /\ PeerInv(y, v) /\ OwnerInv(y, v))'
    BY <1>1, Static DEF WarpInv
  <2>2. CASE y # x
    <3>1. ShareInv(y, v) /\ PeerInv(y, v) /\ OwnerInv(y, v)
      BY DEF IInv, WarpInv
    <3>2. pc[y][v] = "add" => peer[y][v] \in SkCta
      <4>1. SUFFICES ASSUME pc[y][v] = "add" PROVE peer[y][v] \in SkCta
        OBVIOUS
      <4>2. peer[y][v] \in -1 .. y - 1 /\ peer[y][v] >= 0
        BY <3>1, <4>1 DEF OwnerInv, Awaits
      <4> QED
        BY <4>2, CtaFacts DEF SkCta
    <3> QED
      BY <1>1, <1>2, <2>2, <3>1, <3>2, Static DEF ShareInv, PeerInv, OwnerInv, Awaits
  <2> QED
    BY <2>2
<1>7. PlaneInv'
  <2>1. SUFFICES ASSUME NEW y \in SkCta PROVE PlaneOf(y)'
    BY <1>1, Static DEF PlaneInv
  <2>2. CASE y # x
    BY <1>1, <1>2, <2>2, Static, WarpFacts DEF IInv, PlaneInv, PlaneOf, EndsShort, LastSlice
  <2> QED
    BY <2>2
<1>8. OutputInv'
  <2>1. SkOutput /\ DpOutput
    BY DEF IInv, OutputInv
  <2>2. SkOutput'
    <3>1. SUFFICES ASSUME NEW y \in SkCta, NEW v \in Warp PROVE SkOutputOf(y, v)'
      BY <1>1, Static DEF SkOutput
    <3>2. CASE y # x
      BY <1>1, <1>2, <2>1, <3>2, Static DEF SkOutput, SkOutputOf, Owns
    <3> QED
      BY <3>2
  <2>3. \A t \in 0 .. DpTiles - 1 : SkBlocks + t \in Cta /\ SkBlocks + t \notin SkCta
    BY PlanFacts, GridFacts DEF Grid, SkCta
  <2>4. DpOutput'
    BY <1>1, <2>1, <2>3, Static DEF DpOutput
  <2> QED
    BY <2>2, <2>4 DEF OutputInv
<1> QED
  BY <1>3, <1>4, <1>5, <1>6, <1>7, <1>8

LEMMA BarrierStep == ASSUME IInv, NEW x \in Cta, Barrier(x) PROVE IInv'
<1>1. /\ \A w \in Warp : pc[x][w] = "top"
      /\ pc' = [pc EXCEPT ![x] = [w \in Warp |-> "tile"]]
      /\ UNCHANGED stream /\ UNCHANGED <<flag, plane, pending, iter, peer, acc, c>>
      /\ UNCHANGED <<call, tiles, phase, result, scratch>>
  BY DEF Barrier, KernelOnly, stream
<1>2. /\ x \in SkCta /\ phase = "kernel" /\ tiles \in Shapes /\ TypeOK
      /\ \A w \in Warp : ShareInv(x, w) /\ PeerInv(x, w) /\ OwnerInv(x, w)
  BY <1>1, Working, WarpFacts
<1>3. /\ \A w \in Warp : pc'[x][w] = "tile"
      /\ \A y \in Cta : \A v \in Warp : y # x => pc'[y][v] = pc[y][v]
  BY <1>1, <1>2 DEF TypeOK
<1>4. TypeOK'
  BY <1>1, <1>2, Static DEF TypeOK, PC
<1>5. ASSUME NEW w \in Warp
      PROVE  ShareInv(x, w)' /\ PeerInv(x, w)' /\ OwnerInv(x, w)' /\ Contiguous(x, w)' /\ RoleOf(x, w)'
  BY <1>1, <1>2, <1>3, Static, CtaFacts DEF ShareInv, PeerInv, OwnerInv, Contiguous, RoleOf
<1>6. PlaneOf(x)'
  <2>1. flag[x] # 1
    BY <1>1, <1>2, PlaneDone, WarpFacts
  <2> QED
    BY <1>1, <1>3, <2>1, WarpFacts DEF PlaneOf
<1>7. ASSUME NEW w \in Warp PROVE SkOutputOf(x, w)'
  <2>1. SkOutputOf(x, w)
    BY <1>2 DEF IInv, OutputInv, SkOutput
  <2> QED
    BY <1>1, <1>3, <2>1, Static DEF SkOutputOf, Owns
<1> QED
  BY <1>1, <1>2, <1>3, <1>4, <1>5, <1>6, <1>7, CtaFrame DEF IInv

LEMMA SyncStep == ASSUME IInv, NEW x \in Cta, Sync(x) PROVE IInv'
<1>1. /\ \A w \in Warp : pc[x][w] = "sync"
      /\ pc' = [pc EXCEPT ![x] = [w \in Warp |-> IF w = 0 THEN "raise" ELSE "retired"]]
      /\ UNCHANGED stream /\ UNCHANGED <<flag, plane, pending, iter, peer, acc, c>>
      /\ UNCHANGED <<call, tiles, phase, result, scratch>>
  BY DEF Sync, KernelOnly, stream
<1>2. /\ x \in SkCta /\ phase = "kernel" /\ tiles \in Shapes /\ TypeOK
      /\ \A w \in Warp : /\ ShareInv(x, w) /\ PeerInv(x, w) /\ OwnerInv(x, w)
                         /\ iter[x][w] \in Nat
  BY <1>1, Working, WarpFacts
<1>3. /\ \A w \in Warp : pc'[x][w] = IF w = 0 THEN "raise" ELSE "retired"
      /\ \A y \in Cta : \A v \in Warp : y # x => pc'[y][v] = pc[y][v]
  BY <1>1, <1>2 DEF TypeOK
<1>4. TypeOK'
  BY <1>1, <1>2, Static DEF TypeOK, PC
<1>5. ASSUME NEW w \in Warp
      PROVE  ShareInv(x, w)' /\ PeerInv(x, w)' /\ OwnerInv(x, w)' /\ Contiguous(x, w)' /\ RoleOf(x, w)'
  BY <1>1, <1>2, <1>3, Static, CtaFacts DEF ShareInv, PeerInv, OwnerInv, Contiguous, RoleOf
<1>6. ASSUME NEW w \in Warp PROVE EndsShort(x) /\ plane[x][w] = LastSlice(x)
  <2>1. plane[x][w] = Sum(call, iter[x][w], ShareBegin(x + 1))
    BY <1>1, <1>2 DEF PeerInv
  <2>2. /\ ShareBegin(x) <= iter[x][w] /\ iter[x][w] < ShareBegin(x + 1)
        /\ iter[x][w] = ShareBegin(x) \/ iter[x][w] = TileBegin(iter[x][w])
        /\ ShareBegin(x + 1) < TileEnd(iter[x][w])
    BY <1>1, <1>2 DEF ShareInv
  <2> QED
    BY <1>2, <2>1, <2>2, LastSliceOf
<1>7. PlaneOf(x)'
  BY <1>1, <1>2, <1>3, <1>6, Static, WarpFacts DEF PlaneOf, EndsShort, LastSlice
<1>8. ASSUME NEW w \in Warp PROVE SkOutputOf(x, w)'
  <2>1. SkOutputOf(x, w)
    BY <1>2 DEF IInv, OutputInv, SkOutput
  <2> QED
    BY <1>1, <1>3, <2>1, Static DEF SkOutputOf, Owns
<1> QED
  BY <1>1, <1>2, <1>3, <1>4, <1>5, <1>7, <1>8, CtaFrame DEF IInv

LEMMA RaiseStep == ASSUME IInv, NEW x \in Cta, Raise(x) PROVE IInv'
<1>1. /\ pc[x][0] = "raise"
      /\ flag' = [flag EXCEPT ![x] = 1]
      /\ pc' = [pc EXCEPT ![x][0] = "retired"]
      /\ UNCHANGED stream /\ UNCHANGED <<plane, pending, iter, peer, acc, c>>
      /\ UNCHANGED <<call, tiles, phase, result, scratch>>
  BY DEF Raise, Goto, KernelOnly, stream
<1>2. x \in SkCta /\ phase = "kernel" /\ tiles \in Shapes /\ TypeOK
  BY <1>1, Working, WarpFacts
<1>3. /\ EndsShort(x)
      /\ \A w \in Warp : plane[x][w] = LastSlice(x) /\ pc[x][w] \in {"raise", "retired"}
  BY <1>1, <1>2 DEF IInv, PlaneInv, PlaneOf
<1>4. \A w \in Warp : ShareInv(x, w) /\ PeerInv(x, w) /\ OwnerInv(x, w)
  BY <1>2 DEF IInv, WarpInv
<1>5. /\ \A w \in Warp : pc'[x][w] = "retired"
      /\ \A y \in Cta : \A v \in Warp : y # x => pc'[y][v] = pc[y][v]
      /\ flag'[x] = 1 /\ \A y \in SkCta : y # x => flag'[y] = flag[y]
  BY <1>1, <1>2, <1>3, <1>4, WarpFacts DEF TypeOK, PeerInv
<1>6. TypeOK'
  BY <1>1, <1>2, Static, WarpFacts DEF TypeOK, PC
<1>7. ASSUME NEW w \in Warp
      PROVE  ShareInv(x, w)' /\ PeerInv(x, w)' /\ OwnerInv(x, w)' /\ Contiguous(x, w)' /\ RoleOf(x, w)'
  BY <1>1, <1>2, <1>3, <1>4, <1>5, Static, CtaFacts DEF ShareInv, PeerInv, OwnerInv, Contiguous, RoleOf
<1>8. PlaneOf(x)'
  BY <1>1, <1>2, <1>3, <1>5, Static, WarpFacts DEF PlaneOf, EndsShort, LastSlice
<1>9. ASSUME NEW w \in Warp PROVE SkOutputOf(x, w)'
  <2>1. SkOutputOf(x, w)
    BY <1>2 DEF IInv, OutputInv, SkOutput
  <2> QED
    BY <1>1, <1>3, <1>5, <2>1, Static DEF SkOutputOf, Owns
<1> QED
  BY <1>1, <1>2, <1>5, <1>6, <1>7, <1>8, <1>9, CtaFrame DEF IInv

LEMMA DispatchStep == ASSUME IInv, NEW x \in Cta, Dispatch(x) PROVE IInv'
<1> DEFINE first == IF x \in SkCta THEN "top" ELSE "dp"
           begin == IF x \in SkCta THEN ShareBegin(x) ELSE 0
<1>1. /\ phase = "kernel" /\ x \in Grid
      /\ \A y \in Grid : (\A w \in Warp : pc[y][w] = "queued") <=> y >= x
      /\ pc' = [pc EXCEPT ![x] = [w \in Warp |-> first]]
      /\ iter' = [iter EXCEPT ![x] = [w \in Warp |-> begin]]
      /\ UNCHANGED stream /\ UNCHANGED <<flag, plane, pending, peer, acc, c>>
      /\ UNCHANGED <<call, tiles, phase, result, scratch>>
  BY DEF Dispatch, KernelOnly, stream
<1>2. tiles \in Shapes /\ TypeOK /\ SkIters \in Nat /\ x \in Nat
  BY PlanFacts, GridFacts DEF IInv, TypeOK
<1>3. \A w \in Warp : pc[x][w] = "queued"
  BY <1>1, <1>2
<1>4. begin \in 0 .. SkIters
  BY <1>2, CtaFacts
<1>5. x \in SkCta => /\ ShareBegin(x) \in Nat /\ ShareBegin(x + 1) \in Nat
                     /\ ShareBegin(x) < ShareBegin(x + 1)
  BY <1>2, CtaFacts
<1>6. /\ \A w \in Warp : pc'[x][w] = first /\ iter'[x][w] = begin
      /\ \A y \in Cta : \A v \in Warp : y # x => pc'[y][v] = pc[y][v] /\ iter'[y][v] = iter[y][v]
  BY <1>1, <1>2 DEF TypeOK
<1>7. TypeOK'
  <2>1. pc' \in [Cta -> [Warp -> PC]]
    BY <1>1, <1>2 DEF TypeOK, PC
  <2>2. iter' \in [Cta -> [Warp -> 0 .. SkIters]]
    BY <1>1, <1>2, <1>4 DEF TypeOK
  <2> QED
    BY <1>1, <1>2, <2>1, <2>2, Static DEF TypeOK
<1>8. ASSUME x \in SkCta, NEW w \in Warp
      PROVE  ShareInv(x, w)' /\ PeerInv(x, w)' /\ OwnerInv(x, w)' /\ Contiguous(x, w)'
  <2>1. ~pending[x][w]
    BY <1>3, <1>8 DEF IInv, WarpInv, PeerInv
  <2> QED
    BY <1>1, <1>5, <1>6, <1>8, <2>1, Static DEF ShareInv, PeerInv, OwnerInv, Contiguous
<1>9. ASSUME NEW w \in Warp PROVE RoleOf(x, w)'
  BY <1>1, <1>6, Static DEF RoleOf
<1>10. ASSUME x \in SkCta PROVE PlaneOf(x)'
  <2>1. flag[x] # 1
    BY <1>1, <1>3, <1>10, PlaneDone, WarpFacts
  <2> QED
    BY <1>1, <1>6, <1>10, <2>1, WarpFacts DEF PlaneOf
<1>11. ASSUME x \in SkCta, NEW w \in Warp PROVE SkOutputOf(x, w)'
  <2>1. SkOutputOf(x, w)
    BY <1>1, <1>11 DEF IInv, OutputInv, SkOutput
  <2>2. ASSUME NEW T \in 0 .. SkTiles - 1, Owns(x, T) PROVE ~((T + 1) * Iters <= ShareBegin(x))
    <3>1. T \in Nat
      BY <1>2, PlanFacts
    <3>2. (T + 1) * Iters \in Nat
      BY <3>1, ItersAssumption
    <3> QED
      BY <1>5, <1>11, <2>2, <3>2 DEF Owns
  <2>3. iter'[x][w] = ShareBegin(x)
    BY <1>6, <1>11
  <2>4. SUFFICES ASSUME NEW T \in 0 .. SkTiles - 1, Owns(x, T) PROVE c[DpTiles + T][w] = NoValue
    BY <1>1, <2>2, <2>3, Static DEF SkOutputOf, Owns
  <2> QED
    BY <1>3, <2>1, <2>4 DEF SkOutputOf
<1>12. x \notin SkCta => \A v \in Warp : pc'[x][v] = "retired" <=> pc[x][v] = "retired"
  BY <1>3, <1>6
<1> QED
  BY <1>1, <1>2, <1>6, <1>7, <1>8, <1>9, <1>10, <1>11, <1>12, CtaFrame DEF IInv

\* A step that writes C concerns one warp, which leaves its tile, and the tile.
LEMMA WriteFrame ==
  ASSUME IInv, NEW x \in Cta, NEW w \in Warp, phase = "kernel", tiles \in Shapes,
         UNCHANGED stream, UNCHANGED <<flag, plane, pending, peer, acc>>,
         \A y \in Cta : \A v \in Warp : y # x \/ v # w =>
           pc'[y][v] = pc[y][v] /\ iter'[y][v] = iter[y][v],
         pc[x][w] \in {"dp", "wait"}, pc'[x][w] \in {"top", "retired"},
         x \notin SkCta => pc'[x][w] = "retired",
         x \in SkCta => ShareInv(x, w)'
  PROVE  /\ HostInv' /\ ScratchBalanced' /\ OwnerIsContiguous'
         /\ RoleInv' /\ WarpInv' /\ PlaneInv'
<1>1. UNCHANGED <<call, tiles, phase, result, scratch>>
  BY DEF stream
<1>2. \A y \in SkCta : y \in Cta /\ y \in Grid
  BY CtaFacts
<1>3. HostInv' /\ ScratchBalanced'
  BY HostFrame DEF IInv
<1>4. OwnerIsContiguous'
  <2>1. SUFFICES ASSUME NEW y \in SkCta, NEW v \in Warp PROVE Contiguous(y, v)'
    BY <1>1, Static DEF OwnerIsContiguous, Contiguous
  <2>2. CASE y # x \/ v # w
    BY <1>1, <1>2, <2>2, Static DEF IInv, OwnerIsContiguous, Contiguous
  <2>3. CASE y = x /\ v = w
    BY <2>3 DEF Contiguous
  <2> QED
    BY <2>2, <2>3
<1>5. RoleInv'
  <2>1. SUFFICES ASSUME NEW y \in Cta, NEW v \in Warp PROVE RoleOf(y, v)'
    BY DEF RoleInv
  <2>2. CASE y # x \/ v # w
    BY <1>1, <2>2, Static DEF IInv, RoleInv, RoleOf
  <2>3. CASE y = x /\ v = w
    BY <1>1, <1>2, <2>3, Static DEF IInv, RoleInv, RoleOf
  <2> QED
    BY <2>2, <2>3
<1>6. WarpInv'
  <2>1. SUFFICES ASSUME NEW y \in SkCta, NEW v \in Warp
        PROVE  (ShareInv(y, v) /\ PeerInv(y, v) /\ OwnerInv(y, v))'
    BY <1>1, Static DEF WarpInv
  <2>2. ShareInv(y, v) /\ PeerInv(y, v) /\ OwnerInv(y, v)
    BY DEF IInv, WarpInv
  <2>3. CASE y # x \/ v # w
    BY <1>1, <1>2, <2>2, <2>3, Static DEF ShareInv, PeerInv, OwnerInv, Awaits
  <2>4. CASE y = x /\ v = w
    BY <1>1, <2>2, <2>4 DEF PeerInv, OwnerInv
  <2> QED
    BY <2>3, <2>4
<1>7. PlaneInv'
  <2>1. SUFFICES ASSUME NEW y \in SkCta PROVE PlaneOf(y)'
    BY <1>1, Static DEF PlaneInv
  <2>2. CASE y # x
    BY <1>1, <1>2, <2>2, Static, WarpFacts DEF IInv, PlaneInv, PlaneOf, EndsShort, LastSlice
  <2>3. CASE y = x
    BY <1>1, <2>3, PlaneDone, WarpFacts DEF PlaneOf
  <2> QED
    BY <2>2, <2>3
<1> QED
  BY <1>3, <1>4, <1>5, <1>6, <1>7

LEMMA WriteTileStep ==
  ASSUME IInv, NEW x \in Cta, NEW w \in Warp, WriteTile(x, w)
  PROVE  IInv'
<1> DEFINE t == x - SkBlocks
<1>1. /\ pc[x][w] = "dp"
      /\ c' = [c EXCEPT ![t][w] = Fold(c[t][w], Whole(call, t))]
      /\ pc' = [pc EXCEPT ![x][w] = "retired"]
      /\ UNCHANGED stream /\ UNCHANGED <<flag, plane, pending, iter, peer, acc>>
      /\ UNCHANGED <<call, tiles, phase, result, scratch>>
  BY DEF WriteTile, Goto, KernelOnly, stream
<1>2. /\ tiles \in Shapes /\ TypeOK /\ phase = "kernel" /\ x \in Grid /\ x \notin SkCta
      /\ SkOutput /\ DpOutput
  BY <1>1 DEF IInv, TypeOK, RoleInv, RoleOf, OutputInv
<1>3. /\ SkBlocks \in Nat /\ DpTiles \in Nat /\ SkTiles \in Nat /\ DpTiles + SkTiles = tiles
      /\ call \in 0 .. Calls
  BY <1>2, PlanFacts DEF TypeOK
<1>4. t \in 0 .. DpTiles - 1 /\ x = SkBlocks + t /\ t \in Tile /\ t \in Nat
  BY <1>2, <1>3 DEF Grid, SkCta, Tile
<1> HIDE DEF t
<1>5. c[t][w] = NoValue
  BY <1>1, <1>2, <1>4 DEF DpOutput
<1>6. c' = [c EXCEPT ![t][w] = Whole(call, t)]
  BY <1>1, <1>5, FoldFresh
<1>7. TypeOK'
  <2>1. Whole(call, t) \in Value
    BY <1>2, <1>3, <1>4, ValueTypes
  <2>2. c' \in [Tile -> [Warp -> Value]]
    BY <1>2, <1>6, <2>1 DEF TypeOK
  <2>3. pc' \in [Cta -> [Warp -> PC]]
    BY <1>1, <1>2 DEF TypeOK, PC
  <2> QED
    BY <1>1, <1>2, <2>2, <2>3, Static DEF TypeOK
<1>8. /\ pc'[x][w] = "retired"
      /\ \A y \in Cta : \A v \in Warp : y # x \/ v # w => pc'[y][v] = pc[y][v]
  BY <1>1, <1>2 DEF TypeOK
<1>9. /\ c'[t][w] = Whole(call, t)
      /\ \A u \in Tile : \A v \in Warp : u # t \/ v # w => c'[u][v] = c[u][v]
  BY <1>2, <1>4, <1>6 DEF TypeOK
<1>10. SkOutput'
  <2>1. \A T \in 0 .. SkTiles - 1 : DpTiles + T \in Tile /\ DpTiles + T # t
    BY <1>2, <1>3, <1>4, PlanFacts DEF Tile
  <2>2. \A y \in SkCta : y \in Cta /\ y # x
    BY <1>2, CtaFacts
  <2> QED
    BY <1>1, <1>2, <1>8, <1>9, <2>1, <2>2, Static DEF SkOutput, SkOutputOf, Owns
<1>11. DpOutput'
  <2>1. \A u \in 0 .. DpTiles - 1 : /\ u \in Tile /\ SkBlocks + u \in Cta
                                    /\ SkBlocks + u = x <=> u = t
    BY <1>2, <1>3, <1>4, PlanFacts, GridFacts DEF Tile, Grid
  <2> QED
    BY <1>1, <1>2, <1>8, <1>9, <2>1, Static DEF DpOutput
<1>12. /\ HostInv' /\ ScratchBalanced' /\ OwnerIsContiguous'
       /\ RoleInv' /\ WarpInv' /\ PlaneInv'
  BY <1>1, <1>2, <1>8, WriteFrame
<1> QED
  BY <1>7, <1>10, <1>11, <1>12 DEF IInv, OutputInv

\* A tile ends in one share only.
LEMMA OwnsOnce ==
  ASSUME tiles \in Shapes, NEW x \in SkCta, NEW y \in SkCta, NEW T \in Nat,
         Owns(x, T), Owns(y, T)
  PROVE  x = y
<1> DEFINE e == (T + 1) * Iters
<1>1. /\ x \in Nat /\ y \in Nat /\ x < SkBlocks /\ y < SkBlocks /\ SkBlocks \in Nat
      /\ ShareBegin(x) \in Nat /\ ShareBegin(x + 1) \in Nat
      /\ ShareBegin(y) \in Nat /\ ShareBegin(y + 1) \in Nat
  BY CtaFacts
<1>2. e \in Nat /\ ShareBegin(x) < e /\ e <= ShareBegin(x + 1) /\ ShareBegin(y) < e /\ e <= ShareBegin(y + 1)
  BY ItersAssumption DEF Owns
<1> HIDE DEF e
<1>3. CASE x < y
  <2>1. ShareBegin(x + 1) <= ShareBegin(y)
    BY <1>1, <1>3, ShareFacts
  <2> QED
    BY <1>1, <1>2, <2>1
<1>4. CASE y < x
  <2>1. ShareBegin(y + 1) <= ShareBegin(x)
    BY <1>1, <1>4, ShareFacts
  <2> QED
    BY <1>1, <1>2, <2>1
<1> QED
  BY <1>1, <1>3, <1>4

\* An owner with nobody left to wait for holds all of a tile that ends in its
\* share and that nobody has written.
LEMMA OwnedTile ==
  ASSUME IInv, NEW x \in Cta, NEW w \in Warp, pc[x][w] = "wait", ~Awaits(x, w)
  PROVE  LET T == LocalTile(iter[x][w]) IN
           /\ T \in 0 .. SkTiles - 1 /\ T \in Nat /\ DpTiles + T \in Tile /\ Owns(x, T)
           /\ acc[x][w] = Whole(call, DpTiles + T) /\ c[DpTiles + T][w] = NoValue
<1> DEFINE i == iter[x][w]
           p == peer[x][w]
           T == LocalTile(i)
<1>1. /\ x \in SkCta /\ phase = "kernel" /\ tiles \in Shapes /\ TypeOK
      /\ x \in Nat /\ x < SkBlocks /\ SkBlocks \in Nat
      /\ i \in Nat /\ SkIters \in Nat
      /\ ShareBegin(x) \in Nat /\ ShareBegin(x + 1) \in Nat
      /\ ShareBegin(x) < ShareBegin(x + 1) /\ ShareBegin(x + 1) <= SkIters
      /\ ShareInv(x, w) /\ PeerInv(x, w) /\ OwnerInv(x, w)
  BY Working
<1>2. /\ ShareBegin(x) <= i /\ i < ShareBegin(x + 1)
      /\ i = ShareBegin(x) \/ i = TileBegin(i)
      /\ TileEnd(i) <= ShareBegin(x + 1) /\ p \in -1 .. x - 1
  BY <1>1 DEF ShareInv, OwnerInv
<1>3. /\ TileBegin(i) \in Nat /\ TileEnd(i) \in Nat /\ TileEnd(i) = TileBegin(i) + Iters
      /\ TileBegin(i) <= i /\ i < TileEnd(i)
  BY <1>1, TileRange
<1>4. p >= 0 => ShareBegin(p + 1) <= TileBegin(i)
  <2>1. p >= 0 => ShareBegin(p + 1) \in 0 .. SkIters
    <3>1. p >= 0 => p + 1 \in 0 .. SkBlocks /\ SkBlocks > 0
      BY <1>1, <1>2
    <3> QED
      BY <1>1, <3>1, ShareFacts
  <2> QED
    BY <1>1, <1>2, <1>3, <2>1 DEF Awaits
<1>5. SkBlocks > 0 => ShareBegin(0) = 0
  BY <1>1, ShareFacts
<1>6. T \in Nat /\ TileBegin(i) = T * Iters /\ TileEnd(i) = (T + 1) * Iters
  BY <1>1, TileFacts DEF TileEnd
<1>7. Contiguous(x, w)
  BY <1>1 DEF IInv, OwnerIsContiguous, Contiguous
<1> HIDE DEF T
<1>8. acc[x][w] = Sum(call, TileBegin(i), TileEnd(i))
  <2> DEFINE from == IF p = x - 1 THEN i ELSE ShareBegin(p + 1)
  <2>1. acc[x][w] = Sum(call, IF from < TileBegin(i) THEN TileBegin(i) ELSE from, TileEnd(i))
    BY <1>7 DEF Contiguous, TileEnd
  <2>2. CASE p = x - 1
    <3>1. p >= 0 => i = TileBegin(i)
      BY <1>1, <1>2, <1>3, <1>4, <2>2
    <3>2. p = -1 => i = TileBegin(i)
      BY <1>1, <1>2, <1>3, <1>5, <2>2
    <3> QED
      BY <1>1, <1>2, <1>3, <2>1, <2>2, <3>1, <3>2
  <2>3. CASE p # x - 1
    <3>1. p = -1 => from = 0
      BY <1>1, <1>5, <2>3
    <3>2. p >= 0 => from <= TileBegin(i) /\ from = ShareBegin(p + 1)
      BY <1>4, <2>3
    <3>3. p >= 0 => from \in Nat
      <4>1. p >= 0 => p + 1 \in 0 .. SkBlocks /\ SkBlocks > 0
        BY <1>1, <1>2
      <4> QED
        BY <1>1, <3>2, <4>1, ShareFacts
    <3> HIDE DEF from
    <3> QED
      BY <1>2, <1>3, <2>1, <3>1, <3>2, <3>3
  <2> QED
    BY <2>2, <2>3
<1>9. T < SkTiles /\ SkTiles \in Nat /\ DpTiles \in Nat
  <2>1. SkTiles \in Nat /\ DpTiles \in Nat /\ SkIters = SkTiles * Iters
    BY <1>1, PlanFacts
  <2>2. SkTiles <= T => SkTiles * Iters <= T * Iters
    BY <1>6, <2>1, Monotone, ItersAssumption
  <2> QED
    BY <1>1, <1>2, <1>3, <1>6, <2>1, <2>2, ItersAssumption
<1>10. DpTiles + T \in Tile /\ T \in 0 .. SkTiles - 1
  BY <1>1, <1>6, <1>9, PlanFacts DEF Tile
<1>11. Owns(x, T)
  BY <1>1, <1>2, <1>3, <1>6 DEF Owns
<1>12. acc[x][w] = Whole(call, DpTiles + T)
  BY <1>1, <1>6, <1>8, WholeSk
<1>13. c[DpTiles + T][w] = NoValue
  <2>1. SkOutputOf(x, w)
    BY <1>1 DEF IInv, OutputInv, SkOutput
  <2>2. ~((T + 1) * Iters <= i)
    BY <1>1, <1>3, <1>6
  <2> QED
    BY <1>10, <1>11, <2>1, <2>2 DEF SkOutputOf
<1> QED
  BY <1>6, <1>10, <1>11, <1>12, <1>13 DEF T

LEMMA WriteCStep ==
  ASSUME IInv, NEW x \in Cta, NEW w \in Warp, WriteC(x, w)
  PROVE  IInv'
<1> DEFINE i == iter[x][w]
           T == LocalTile(i)
           next == TileEnd(i)
<1>1. /\ pc[x][w] = "wait" /\ ~Awaits(x, w)
      /\ c' = [c EXCEPT ![DpTiles + T][w] = Fold(c[DpTiles + T][w], acc[x][w])]
      /\ iter' = [iter EXCEPT ![x][w] = next]
      /\ pc' = [pc EXCEPT ![x][w] = IF next < ShareBegin(x + 1) THEN "top" ELSE "retired"]
      /\ UNCHANGED stream /\ UNCHANGED <<flag, plane, pending, peer, acc>>
      /\ UNCHANGED <<call, tiles, phase, result, scratch>>
  BY DEF WriteC, Goto, KernelOnly, stream, TileEnd
<1>2. /\ x \in SkCta /\ phase = "kernel" /\ tiles \in Shapes /\ TypeOK
      /\ i \in Nat /\ SkIters \in Nat
      /\ ShareBegin(x) \in Nat /\ ShareBegin(x + 1) \in Nat
      /\ ShareBegin(x) < ShareBegin(x + 1) /\ ShareBegin(x + 1) <= SkIters
      /\ ShareInv(x, w) /\ PeerInv(x, w) /\ OwnerInv(x, w)
  BY <1>1, Working
<1>3. /\ T \in 0 .. SkTiles - 1 /\ T \in Nat /\ DpTiles + T \in Tile /\ Owns(x, T)
      /\ acc[x][w] = Whole(call, DpTiles + T) /\ c[DpTiles + T][w] = NoValue
  BY <1>1, OwnedTile
<1>4. /\ ShareBegin(x) <= i /\ i < next /\ next <= ShareBegin(x + 1) /\ next \in Nat
      /\ next = (T + 1) * Iters
  BY <1>1, <1>2, TileRange, TileFacts DEF ShareInv, OwnerInv, TileEnd
<1>5. c' = [c EXCEPT ![DpTiles + T][w] = Whole(call, DpTiles + T)]
  BY <1>1, <1>3, FoldFresh
<1> HIDE DEF T, next
<1>6. LocalTile(next) = T + 1 /\ TileBegin(next) = next /\ next < TileEnd(next)
  <2>1. T + 1 \in Nat /\ (T + 1 + 1) * Iters = (T + 1) * Iters + Iters
    BY <1>3, TileEnds
  <2>2. LocalTile(next) = T + 1
    BY <1>4, <2>1, TileEnds, ItersAssumption
  <2> QED
    BY <1>4, <2>2, TileRange DEF TileBegin
<1>7. TypeOK'
  <2>1. Whole(call, DpTiles + T) \in Value
    BY <1>2, <1>3, ValueTypes DEF TypeOK
  <2>2. c' \in [Tile -> [Warp -> Value]]
    BY <1>2, <1>5, <2>1 DEF TypeOK
  <2>3. pc' \in [Cta -> [Warp -> PC]]
    BY <1>1, <1>2 DEF TypeOK, PC
  <2>4. next \in 0 .. SkIters
    BY <1>2, <1>4
  <2>5. iter' \in [Cta -> [Warp -> 0 .. SkIters]]
    BY <1>1, <1>2, <2>4 DEF TypeOK
  <2> QED
    BY <1>1, <1>2, <2>2, <2>3, <2>5, Static DEF TypeOK
<1>8. /\ pc'[x][w] = IF next < ShareBegin(x + 1) THEN "top" ELSE "retired"
      /\ iter'[x][w] = next
      /\ \A y \in Cta : \A v \in Warp : y # x \/ v # w =>
           pc'[y][v] = pc[y][v] /\ iter'[y][v] = iter[y][v]
  BY <1>1, <1>2 DEF TypeOK
<1>9. /\ c'[DpTiles + T][w] = Whole(call, DpTiles + T)
      /\ \A t \in Tile : \A v \in Warp : t # DpTiles + T \/ v # w => c'[t][v] = c[t][v]
  BY <1>2, <1>3, <1>5 DEF TypeOK
<1>10. ShareInv(x, w)'
  BY <1>1, <1>2, <1>4, <1>6, <1>8, Static DEF ShareInv, TileEnd
<1>11. /\ SkTiles \in Nat /\ DpTiles \in Nat /\ SkBlocks \in Nat /\ DpTiles + SkTiles = tiles
  BY <1>2, PlanFacts
<1>12. SkOutput'
  <2>1. SUFFICES ASSUME NEW y \in SkCta, NEW v \in Warp, NEW U \in 0 .. SkTiles - 1, Owns(y, U)
        PROVE  c'[DpTiles + U][v] = IF pc'[y][v] # "queued" /\ (U + 1) * Iters <= iter'[y][v]
                                      THEN Whole(call, DpTiles + U) ELSE NoValue
    BY <1>1, Static DEF SkOutput, SkOutputOf, Owns
  <2>2. c[DpTiles + U][v] = IF pc[y][v] # "queued" /\ (U + 1) * Iters <= iter[y][v]
                              THEN Whole(call, DpTiles + U) ELSE NoValue
    BY <1>2, <2>1 DEF IInv, OutputInv, SkOutput, SkOutputOf
  <2>3. U \in Nat /\ DpTiles + U \in Tile /\ (U # T => DpTiles + U # DpTiles + T)
    BY <1>2, <1>3, <1>11 DEF Tile
  <2>4. y \in Cta
    BY <1>2, CtaFacts
  <2>5. CASE v # w
    BY <1>8, <1>9, <2>2, <2>3, <2>4, <2>5
  <2>6. CASE v = w /\ y # x
    <3>1. U # T
      BY <1>2, <1>3, <2>1, <2>6, OwnsOnce
    <3> QED
      BY <1>8, <1>9, <2>2, <2>3, <2>4, <2>6, <3>1
  <2>7. CASE v = w /\ y = x /\ U = T
    <3>1. (U + 1) * Iters <= iter'[y][v]
      BY <1>4, <1>8, <2>7
    <3> QED
      BY <1>8, <1>9, <2>7, <3>1
  <2>8. CASE v = w /\ y = x /\ U # T
    <3>1. (U + 1) * Iters <= next <=> U < T + 1
      BY <1>4, <1>6, <2>3, TileEnds
    <3>2. (U + 1) * Iters <= i <=> U < T
      BY <1>2, <2>3, TileEnds DEF T
    <3>3. U < T + 1 <=> U < T
      BY <1>3, <2>3, <2>8
    <3> QED
      BY <1>1, <1>8, <1>9, <2>2, <2>3, <2>8, <3>1, <3>2, <3>3
  <2> QED
    BY <2>5, <2>6, <2>7, <2>8
<1>13. DpOutput'
  <2>1. \A t \in 0 .. DpTiles - 1 : /\ t \in Tile /\ t # DpTiles + T
                                    /\ SkBlocks + t \in Cta /\ SkBlocks + t # x
    BY <1>2, <1>3, <1>11, GridFacts DEF Tile, Grid, SkCta
  <2> QED
    BY <1>1, <1>2, <1>8, <1>9, <2>1, Static DEF IInv, OutputInv, DpOutput
<1>14. /\ HostInv' /\ ScratchBalanced' /\ OwnerIsContiguous'
       /\ RoleInv' /\ WarpInv' /\ PlaneInv'
  BY <1>1, <1>2, <1>8, <1>10, WriteFrame
<1> QED
  BY <1>7, <1>12, <1>13, <1>14 DEF IInv, OutputInv

LEMMA StutterStep == ASSUME IInv, UNCHANGED vars PROVE IInv'
<1>1. UNCHANGED <<call, tiles, phase, result, scratch, flag, plane, pending, pc, iter, peer, acc, c>>
  BY DEF vars, stream
<1>2. tiles \in Shapes
  BY DEF IInv, TypeOK
<1>3. TypeOK' /\ OwnerIsContiguous' /\ RoleInv' /\ PlaneInv'
  BY <1>1, Static DEF IInv, TypeOK, OwnerIsContiguous, RoleInv, RoleOf, PlaneInv, PlaneOf, EndsShort, LastSlice
<1>4. HostInv' /\ ScratchBalanced'
  <2>1. Written' = Written
    BY <1>1, Static DEF Written
  <2> QED
    BY <1>1, <2>1, Static DEF IInv, HostInv, ScratchBalanced
<1>5. WarpInv' /\ OutputInv'
  BY <1>1, Static DEF IInv, WarpInv, ShareInv, PeerInv, OwnerInv, Awaits, OutputInv, SkOutput, SkOutputOf, Owns, DpOutput
<1> QED
  BY <1>3, <1>4, <1>5 DEF IInv

-------------------------------------------------------------------------------
(* The theorems.                                                           *)

LEMMA StepInv == IInv /\ [Next]_vars => IInv'
<1> SUFFICES ASSUME IInv, [Next]_vars PROVE IInv'
  OBVIOUS
<1>1. CASE \E workspace \in {"null", "enough", "small"} : Call(workspace)
  BY <1>1, CallStep
<1>2. CASE StreamStep
  <2>1. CASE Allocate \/ ClearFlags \/ Free
    <3>1. phase # "kernel"
      BY <2>1 DEF Allocate, ClearFlags, Free
    <3> QED
      BY <2>1, <3>1, StreamStepRest
  <2> QED
    BY <1>2, <2>1, LaunchStep, KernelEndStep DEF StreamStep
<1>3. CASE Rest \/ UNCHANGED vars
  BY <1>3, StutterStep DEF Rest
<1>4. ASSUME NEW x \in Cta, Dispatch(x) \/ Barrier(x) \/ Sync(x) \/ Raise(x) PROVE IInv'
  BY <1>4, DispatchStep, BarrierStep, SyncStep, RaiseStep
<1>5. ASSUME NEW x \in Cta, NEW w \in Warp, WarpStep(x, w) \/ Drain(x, w) PROVE IInv'
  BY <1>5, WriteTileStep, AccumulateStep, StorePartialStep, DrainStep, FenceStep,
     SeePeerStep, AddPeerStep, WriteCStep DEF WarpStep
<1> QED
  BY <1>1, <1>2, <1>3, <1>4, <1>5 DEF Next, CtaStep

LEMMA Invariance == Spec => []IInv
BY InitInv, StepInv, PTL DEF Spec

\* Every variable has its type, a peer below the first CTA and an iteration
\* past the stream-K region excluded; the kernel never runs on a workspace
\* nobody holds and every call gives back what it allocated.
THEOREM ConsistentHolds == Spec => []Consistent
<1>1. IInv => Consistent
  BY DEF IInv, Consistent
<1> QED
  BY <1>1, Invariance, PTL

\* A flag a stream-K CTA has raised is one of this call, every warp's part of
\* the plane it advertises is out, and it is the slice an owner will ask for.
THEOREM PublishedCorrect == Spec => []PublishedPlane
<1>1. IInv => PublishedPlane
  BY DEF IInv, PlaneInv, PlaneOf, EndsShort, LastSlice, TileEnd, PublishedPlane
<1> QED
  BY <1>1, Invariance, PTL

\* What an owner holds is at all times the end of its tile without a gap, down
\* to the share of the peer it turns to next.
THEOREM OwnerCorrect == Spec => []OwnerIsContiguous
<1>1. IInv => OwnerIsContiguous
  BY DEF IInv
<1> QED
  BY <1>1, Invariance, PTL

\* A write puts the whole sum into a fragment nobody has written.
LEMMA WriteWhole ==
  ASSUME IInv, NEW x \in Cta, NEW w \in Warp, WriteTile(x, w) \/ WriteC(x, w)
  PROVE  \E t \in Tile : c[t][w] = NoValue /\ c' = [c EXCEPT ![t][w] = Whole(call, t)]
<1>1. CASE WriteTile(x, w)
  <2> DEFINE t == x - SkBlocks
  <2>1. pc[x][w] = "dp" /\ c' = [c EXCEPT ![t][w] = Fold(c[t][w], Whole(call, t))]
    BY <1>1 DEF WriteTile
  <2>2. tiles \in Shapes /\ phase = "kernel" /\ x \in Grid /\ x \notin SkCta /\ DpOutput
    BY <2>1 DEF IInv, TypeOK, RoleInv, RoleOf, OutputInv
  <2>3. t \in 0 .. DpTiles - 1 /\ x = SkBlocks + t /\ t \in Tile
    BY <2>2, PlanFacts DEF Grid, SkCta, Tile
  <2> HIDE DEF t
  <2>4. c[t][w] = NoValue
    BY <2>1, <2>2, <2>3 DEF DpOutput
  <2> QED
    BY <2>1, <2>3, <2>4, FoldFresh
<1>2. CASE WriteC(x, w)
  <2> DEFINE t == DpTiles + LocalTile(iter[x][w])
  <2>1. /\ pc[x][w] = "wait" /\ ~Awaits(x, w)
        /\ c' = [c EXCEPT ![t][w] = Fold(c[t][w], acc[x][w])]
    BY <1>2 DEF WriteC
  <2>2. t \in Tile /\ acc[x][w] = Whole(call, t) /\ c[t][w] = NoValue
    BY <2>1, OwnedTile
  <2> HIDE DEF t
  <2> QED
    BY <2>1, <2>2, FoldFresh
<1> QED
  BY <1>1, <1>2

\* Stream-K keeps the promise of a GEMM rung on every shape: a call writes each
\* fragment of C once, with all of K, or fails with C left alone or wholly written.
THEOREM Implements == Spec => ImplementsGemm
<1>1. Init => Promise!Init
  <2> SUFFICES ASSUME Init PROVE Promise!Init
    OBVIOUS
  <2>1. tiles \in Shapes /\ call = 0 /\ phase = "idle" /\ result = "ok" /\ c = NoC
    BY DEF Init
  <2>2. Fragment \in {(0 .. n - 1) \X Warp : n \in Shapes}
    BY <2>1 DEF Fragment, Tile
  <2>3. Written = {}
    BY <2>1, Nothing DEF Fresh
  <2> QED
    BY <2>1, <2>2, <2>3 DEF Promise!Init
<1>2. IInv /\ IInv' /\ [Next]_vars => [Promise!Next]_(Promise!specVars)
  <2> SUFFICES ASSUME IInv, IInv', [Next]_vars PROVE [Promise!Next]_(Promise!specVars)
    OBVIOUS
  <2> USE DEF Promise!specVars
  <2>1. call \in Nat /\ call' \in Nat /\ tiles \in Shapes /\ TypeOK
    BY CallsAssumption DEF IInv, TypeOK
  <2>2. CASE \E workspace \in {"null", "enough", "small"} : Call(workspace)
    <3>1. /\ phase = "idle" /\ phase' # "idle" /\ call < Calls /\ call' = call + 1
          /\ c' = NoC /\ tiles' = tiles
      BY <2>2 DEF Call
    <3>2. result # "busy"
      BY <2>1 DEF TypeOK
    <3>3. NoC' = NoC /\ Fragment' = Fragment
      BY <3>1, Static
    <3>4. (Written = {})'
      <4>1. Fresh'
        BY <2>1, <3>1, <3>3 DEF Fresh
      <4> QED
        BY <4>1, Nothing, PTL
    <3> QED
      BY <2>1, <3>1, <3>2, <3>3, <3>4 DEF Promise!Next, Promise!Begin
  <2>3. ASSUME UNCHANGED <<call, tiles, result, phase, c>> PROVE UNCHANGED Promise!specVars
    BY <2>3, Static DEF Written
  <2>4. CASE Allocate \/ ClearFlags \/ Launch \/ KernelEnd
    <3>1. phase # "idle" /\ phase' # "idle" /\ UNCHANGED <<call, tiles, c>>
      BY <2>4 DEF Allocate, ClearFlags, Launch, KernelEnd
    <3> QED
      BY <3>1, Static DEF Written
  <2>5. CASE Free
    <3>1. /\ phase = "free" /\ phase' = "idle" /\ UNCHANGED <<call, tiles, c>>
          /\ result' = result \/ result' = "error"
      BY <2>5 DEF Free
    <3>2. Written' = Written /\ Fragment' = Fragment
      BY <3>1, Static DEF Written
    <3>3. CASE c = NoC /\ result = "error"
      BY <2>1, <3>1, <3>2, <3>3, Nothing DEF Fresh, Promise!Next, Promise!Fail
    <3>4. CASE Written = Fragment /\ result = "ok"
      BY <3>1, <3>2, <3>4 DEF Promise!Next, Promise!Succeed, Promise!Fail
    <3> QED
      BY <3>1, <3>3, <3>4 DEF IInv, HostInv
  <2>6. CASE Rest \/ UNCHANGED vars
    BY <2>3, <2>6 DEF Rest, vars, stream
  <2>7. ASSUME NEW x \in Cta, Dispatch(x) \/ Barrier(x) \/ Sync(x) \/ Raise(x)
        PROVE  UNCHANGED Promise!specVars
    BY <2>3, <2>7 DEF Dispatch, Barrier, Sync, Raise, KernelOnly, stream
  <2>8. ASSUME NEW x \in Cta, NEW w \in Warp,
               \/ Accumulate(x, w) \/ StorePartial(x, w) \/ Drain(x, w) \/ Fence(x, w)
               \/ SeePeer(x, w) \/ AddPeer(x, w)
        PROVE  UNCHANGED Promise!specVars
    BY <2>3, <2>8 DEF Accumulate, StorePartial, Drain, Fence, SeePeer, AddPeer, KernelOnly, stream
  <2>9. ASSUME NEW x \in Cta, NEW w \in Warp, WriteTile(x, w) \/ WriteC(x, w)
        PROVE  Promise!Next
    <3>1. UNCHANGED <<call, tiles, phase, result>>
      BY <2>9 DEF WriteTile, WriteC, KernelOnly, stream
    <3>2. phase = "kernel"
      BY <2>9 DEF WriteTile, WriteC, IInv, RoleInv, RoleOf
    <3>3. PICK t \in Tile : c[t][w] = NoValue /\ c' = [c EXCEPT ![t][w] = Whole(call, t)]
      BY <2>9, WriteWhole
    <3>4. <<t, w>> \in Fragment /\ <<t, w>> \notin Written
      BY <2>1, <3>3, WholeDistinct DEF Fragment, Written
    <3>5. Written' = Written \cup {<<t, w>>} /\ Fragment' = Fragment
      <4>1. /\ c'[t][w] = Whole(call, t)
            /\ \A u \in Tile : \A v \in Warp : u # t \/ v # w => c'[u][v] = c[u][v]
        BY <2>1, <3>3 DEF TypeOK
      <4>2. Written' = {f \in Fragment : c'[f[1]][f[2]] = Whole(call, f[1])}
        BY <3>1, Static DEF Written
      <4>3. ASSUME NEW f \in Fragment
            PROVE  f \in Written' <=> f \in Written \/ f = <<t, w>>
        <5>1. f[1] \in Tile /\ f[2] \in Warp /\ f = <<f[1], f[2]>>
          BY DEF Fragment
        <5> QED
          BY <4>1, <4>2, <5>1 DEF Written
      <4> QED
        BY <3>1, <3>4, <4>2, <4>3, Static DEF Written
    <3> QED
      BY <3>1, <3>2, <3>4, <3>5 DEF Promise!Next, Promise!Write
  <2> QED
    BY <2>2, <2>4, <2>5, <2>6, <2>7, <2>8, <2>9 DEF Next, StreamStep, CtaStep, WarpStep
<1> QED
  BY <1>1, <1>2, Invariance, PTL DEF Spec, ImplementsGemm, Promise!Spec
===============================================================================
