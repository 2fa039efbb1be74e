------------------------------- MODULE ScanLevels -------------------------------
(***************************************************************************)
(* The scans that recurse over levels (s0 to s3 of src/scan), with the     *)
(* block scans they are made of, and what ScanPlan refuses and chooses.    *)
(* The other rungs a ScanPlan serves are ReduceLadder and LookbackScan:    *)
(* here they are one kernel each.                                          *)
(*                                                                         *)
(* An element is a word and the operator is concatenation, the operator    *)
(* that is associative and nothing more: a result says of which elements   *)
(* it was made, and in which order.  The identity is the empty word.       *)
(***************************************************************************)
EXTENDS StreamCalls

CONSTANTS
  LogWarp, LogBlock,   \* 2^LogWarp lanes to a warp (32), 2^LogBlock threads to a block (256)
  WideItems,           \* items of a thread in the wide tile, TileShape<T>::kItems
  LevelAlign           \* kLevelAlign

ScanWarp == 2 ^ LogWarp
Block == 2 ^ LogBlock
Thread == 0 .. Block - 1
Lane == 0 .. ScanWarp - 1
BlockWarps == Block \div ScanWarp

\* A warp's shuffles scan the totals of the other warps.
ASSUME ScanAssumption ==
  /\ LogWarp \in Nat \ {0} /\ LogBlock \in Nat /\ LogWarp <= LogBlock /\ LogBlock <= 2 * LogWarp
  /\ WideItems \in Nat \ {0} /\ LevelAlign \in Nat \ {0}

Apply(first, second) == first \o second
Identity == <<>>
Unwritten == <<-1>>     \* what a buffer holds that nobody has written

\* f[lo] o ... o f[hi], f[lo] first: serial_reduce.
Fold(f, lo, hi) ==
  LET fold[i \in lo - 1 .. hi] == IF i < lo THEN Identity ELSE Apply(fold[i - 1], f[i])
  IN  IF hi < lo THEN Identity ELSE fold[hi]

-------------------------------------------------------------------------------
(* The primitives of a warp and of a block.                                *)

\* The shuffles go up in offset; a lane past the end reads its own value.
WarpReduce(v) ==
  LET down[k \in 0 .. LogWarp] ==
        IF k = 0 THEN v
        ELSE [l \in Lane |-> LET from == l + 2 ^ (k - 1)
                             IN  Apply(down[k - 1][l], down[k - 1][IF from \in Lane THEN from ELSE l])]
  IN  down[LogWarp][0]

WarpInclusive(v) ==
  LET up[k \in 0 .. LogWarp] ==
        IF k = 0 THEN v
        ELSE [l \in Lane |-> IF l >= 2 ^ (k - 1) THEN Apply(up[k - 1][l - 2 ^ (k - 1)], up[k - 1][l])
                                                 ELSE up[k - 1][l]]
  IN  up[LogWarp]

InWarp(v, w) == [l \in Lane |-> v[w * ScanWarp + l]]
WarpTotals(total(_)) == [l \in Lane |-> IF l < BlockWarps THEN total(l) ELSE Identity]

BlockReduce(v) == WarpReduce(WarpTotals(LAMBDA w : WarpReduce(InWarp(v, w))))

\* Each of the three gives the exclusive prefix of every thread, and the total.
HillisSteele(v) ==
  LET pass[k \in 0 .. LogBlock] ==
        IF k = 0 THEN v
        ELSE [t \in Thread |-> IF t >= 2 ^ (k - 1) THEN Apply(pass[k - 1][t - 2 ^ (k - 1)], pass[k - 1][t])
                                                   ELSE pass[k - 1][t]]
  IN  [prefix |-> [t \in Thread |-> IF t > 0 THEN pass[LogBlock][t - 1] ELSE Identity],
       total |-> pass[LogBlock][Block - 1]]

\* At level k the nodes are the multiples of 2^k; b is the right end of one, a
\* that of its left half.
Blelloch(v) ==
  LET up[k \in 0 .. LogBlock] ==
        IF k = 0 THEN v
        ELSE [b \in Thread |-> IF (b + 1) % 2 ^ k = 0 THEN Apply(up[k - 1][b - 2 ^ (k - 1)], up[k - 1][b])
                                                      ELSE up[k - 1][b]]
      down[k \in 0 .. LogBlock] ==
        IF k = LogBlock THEN [up[LogBlock] EXCEPT ![Block - 1] = Identity]
        ELSE LET half == 2 ^ k IN
             [t \in Thread |->
               IF (t + 1) % (2 * half) = 0 THEN Apply(down[k + 1][t], down[k + 1][t - half])
               ELSE IF (t + 1) % half = 0 THEN down[k + 1][t + half]
               ELSE down[k + 1][t]]
  IN  [prefix |-> down[0], total |-> up[LogBlock][Block - 1]]

WarpBlockScan(v) ==
  LET inclusive == [w \in 0 .. BlockWarps - 1 |-> WarpInclusive(InWarp(v, w))]
      scanned == WarpInclusive(WarpTotals(LAMBDA w : inclusive[w][ScanWarp - 1]))
      before(w) == IF w = 0 THEN Identity ELSE scanned[w - 1]
      within(t) == IF t % ScanWarp = 0 THEN Identity ELSE inclusive[t \div ScanWarp][(t % ScanWarp) - 1]
  IN  [prefix |-> [t \in Thread |-> Apply(before(t \div ScanWarp), within(t))],
       total |-> scanned[BlockWarps - 1]]

BlockScan(flavor, v) ==
  CASE flavor = "hillis_steele" -> HillisSteele(v)
    [] flavor = "blelloch" -> Blelloch(v)
    [] OTHER -> WarpBlockScan(v)

-------------------------------------------------------------------------------
(* The plan: what it holds, what it refuses, what it chooses.              *)

Narrow == Block                 \* kNarrowTile, the tile of the two naive rungs
Wide == Block * WideItems
TileOf(algo) == IF algo \in {"hillis_steele", "blelloch"} THEN Narrow ELSE Wide
ItemsOf(algo) == TileOf(algo) \div Block
RoundUp(v) == CeilDiv(v, LevelAlign) * LevelAlign

\* Without the room that aligning a level takes.
CapacityUnaligned(n, tile) ==
  LET need[count \in 0 .. n] ==
        IF count <= tile THEN 0 ELSE CeilDiv(count, tile) + need[CeilDiv(count, tile)]
  IN  need[n]

\* levels_capacity_for
LevelsCapacity(n, tile) ==
  LET need[count \in 0 .. n] ==
        IF count <= tile THEN 0
        ELSE RoundUp(CeilDiv(count, tile)) + need[CeilDiv(count, tile)]
  IN  need[n]

BuildScan ==
  /\ input.family = "scan"
  /\ LET capacity == IF input.n = 0 THEN 0 ELSE LevelsCapacity(input.n, Narrow) IN
     Construct([family |-> "scan", deterministic |-> input.deterministic, cub_ready |-> input.build_cub,
                capacity |-> capacity],
               [levels |-> [i \in 0 .. capacity - 1 |-> Unwritten]])

QueryReduce == IF plan.deterministic THEN "deterministic" ELSE "single_pass"
QueryScan ==
  IF plan.deterministic THEN "deterministic"
  ELSE IF input.n <= Wide THEN "three_kernel" ELSE "lookback"

\* What both ladders refuse: an operator other than the sum on a type that is not
\* 32 bit float, and the baseline when the plan holds no storage for it.
ScanRefusal(algo, op) ==
  \/ input.dtype # "f32" /\ op # "sum"
  \/ algo = "cub" /\ ~plan.cub_ready
\* The reductions also refuse the operator that does not commute, and the
\* compensated one all but the sum.
ReduceRefusal(algo, op) ==
  \/ op = "last_non_zero"
  \/ algo = "kahan" /\ op # "sum"
  \/ ScanRefusal(algo, op)

-------------------------------------------------------------------------------
(* The launches of a rung.  A pointer is a buffer and a place in it.       *)

At(buf, place) == [buf |-> buf, at |-> place]
Nowhere == At("none", 0)
ScanTile(flavor, items, src, dst, sums, n, exclusive) ==
  [kernel |-> "tile_scan", flavor |-> flavor, items |-> items, src |-> src, dst |-> dst,
   sums |-> sums, n |-> n, exclusive |-> exclusive]

\* LevelDriver::run: one tile, or a scan of the tiles, the recursion on their
\* totals in place, and the propagation of what that gives.
LevelRun(flavor, items, src, dst, n, exclusive) ==
  LET tile == Block * items
      below[count \in 0 .. n, at \in 0 .. plan.capacity + RoundUp(n)] ==
        LET here == At("levels", at) IN
        IF count <= tile THEN <<ScanTile(flavor, items, here, here, Nowhere, count, TRUE)>>
        ELSE LET next == at + RoundUp(count) IN
             <<ScanTile(flavor, items, here, here, At("levels", next), count, TRUE)>>
               \o below[CeilDiv(count, tile), next]
               \o <<[kernel |-> "propagate", items |-> items, dst |-> here, n |-> count,
                     sums |-> At("levels", next)]>>
  IN  IF n <= tile THEN <<ScanTile(flavor, items, src, dst, Nowhere, n, exclusive)>>
      ELSE <<ScanTile(flavor, items, src, dst, At("levels", 0), n, exclusive)>>
             \o below[CeilDiv(n, tile), 0]
             \o <<[kernel |-> "propagate", items |-> items, dst |-> dst, n |-> n,
                   sums |-> At("levels", 0)]>>

\* The totals of the tiles are scanned like any other level.
LevelsBelow(items, n) ==
  LET run == LevelRun("warp", items, At("in", 0), At("in", 0), n, FALSE)
  IN  SubSeq(run, 2, Len(run) - 1)

\* reduce_then_scan: the totals first, and the input read a second time.
ReduceThenScan(src, dst, n, exclusive) ==
  IF n <= Wide THEN <<ScanTile("warp", WideItems, src, dst, Nowhere, n, exclusive)>>
  ELSE <<[kernel |-> "tile_reduce", src |-> src, n |-> n, sums |-> At("levels", 0)]>>
         \o LevelsBelow(WideItems, n)
         \o <<[kernel |-> "tile_apply", src |-> src, dst |-> dst, n |-> n, exclusive |-> exclusive,
               sums |-> At("levels", 0)]>>

\* A level is refused when its slice passes the end of the buffer.
Overruns(n, tile) ==
  LET over[count \in 0 .. n, left \in 0 .. plan.capacity] ==
        /\ count > tile
        /\ LET used == RoundUp(CeilDiv(count, tile))
           IN  used > left \/ over[CeilDiv(count, tile), left - used]
  IN  over[n, plan.capacity]

ScanLaunches(algo, src, dst, exclusive) ==
  CASE algo \in {"hillis_steele", "blelloch", "three_kernel"} ->
         LevelRun(algo, ItemsOf(algo), src, dst, input.n, exclusive)
    [] algo \in {"reduce_then_scan", "deterministic"} -> ReduceThenScan(src, dst, input.n, exclusive)
    [] OTHER -> <<[kernel |-> "whole_scan", src |-> src, dst |-> dst, exclusive |-> exclusive]>>

Given(place) == <<place>>
Elements == [i \in 0 .. input.n - 1 |-> Given(i)]
ScanOperands(req) ==
  [in |-> Elements, out |-> [i \in 0 .. input.n - 1 |-> IF req.in_place THEN Given(i) ELSE Unwritten]]

\* scan
CallScan(req) ==
  LET algo == IF req.algo = "auto" THEN QueryScan ELSE req.algo
      src == At(IF req.in_place THEN "out" ELSE "in", 0)
      answer == IF input.n = 0 THEN "success"
                ELSE IF req.null THEN "invalid_value"
                ELSE IF ScanRefusal(algo, req.op) THEN "not_supported"
                ELSE IF algo \notin {"lookback", "cub"} /\ Overruns(input.n, TileOf(algo)) THEN "internal"
                ELSE "success"
  IN  /\ input.family = "scan" /\ req.what = "scan"
      /\ Serve(req, algo, answer,
               IF input.n = 0 THEN <<>> ELSE ScanLaunches(algo, src, At("out", 0), req.exclusive),
               ScanOperands(req))

\* reduce: an empty input has a result, the identity.
CallReduce(req) ==
  LET algo == IF req.algo = "auto" THEN QueryReduce ELSE req.algo
      answer == IF req.null THEN "invalid_value"
                ELSE IF ReduceRefusal(algo, req.op) THEN "not_supported" ELSE "success"
  IN  /\ input.family = "scan" /\ req.what = "reduce"
      /\ Serve(req, algo, answer, <<[kernel |-> "whole_reduce"]>>, ScanOperands(req))

-------------------------------------------------------------------------------
(* The kernels.                                                            *)

\* What the threads of tile b load: the identity past the end.
Loaded(p, b, items, n) ==
  [t \in Thread |-> [i \in 0 .. items - 1 |->
     LET e == (b * Block + t) * items + i IN IF e < n THEN dev[p.buf][p.at + e] ELSE Identity]]
TotalsOf(loaded, items) == [t \in Thread |-> Fold(loaded[t], 0, items - 1)]

\* serial_scan from what comes before the thread.
SerialScan(before, mine, i, exclusive) == Apply(before, Fold(mine, 0, IF exclusive THEN i - 1 ELSE i))

Tiles(k) == CeilDiv(k.n, Block * k.items)

\* The elements a kernel writes at p, the rest of the buffer as it was.
Stored(buf, p, n, value(_)) ==
  [e \in DOMAIN buf |-> IF e - p.at \in 0 .. n - 1 THEN value(e - p.at) ELSE buf[e]]

TileScanKernel ==
  /\ Launched("tile_scan")
  /\ LET k == Head(program)
         size == Block * k.items
         loaded == [b \in 0 .. Tiles(k) - 1 |-> Loaded(k.src, b, k.items, k.n)]
         scan == [b \in DOMAIN loaded |-> BlockScan(k.flavor, TotalsOf(loaded[b], k.items))]
         value(e) == LET b == e \div size
                         t == (e % size) \div k.items
                     IN  SerialScan(scan[b].prefix[t], loaded[b][t], e % k.items, k.exclusive)
         out == Stored(dev[k.dst.buf], k.dst, k.n, value)
     IN  IF k.sums = Nowhere THEN Execute(k.dst.buf :> out)
         ELSE LET old == IF k.dst.buf = "levels" THEN out ELSE dev.levels
              IN  Execute(("levels" :> Stored(old, k.sums, Tiles(k), LAMBDA b : scan[b].total))
                            @@ (k.dst.buf :> out))

\* Every tile but the first, which has nothing before it.
PropagateKernel ==
  /\ Launched("propagate")
  /\ LET k == Head(program)
         size == Block * k.items
         value(e) == LET old == dev[k.dst.buf][k.dst.at + e]
                     IN  IF e < size THEN old ELSE Apply(dev.levels[k.sums.at + (e \div size)], old)
     IN  Execute(k.dst.buf :> Stored(dev[k.dst.buf], k.dst, k.n, value))

TileReduceKernel ==
  /\ Launched("tile_reduce")
  /\ LET k == Head(program)
         total(b) == BlockReduce(TotalsOf(Loaded(k.src, b, WideItems, k.n), WideItems))
     IN  Execute("levels" :> Stored(dev.levels, k.sums, CeilDiv(k.n, Wide), total))

TileApplyKernel ==
  /\ Launched("tile_apply")
  /\ LET k == Head(program)
         value(e) ==
           LET b == e \div Wide
               t == (e % Wide) \div WideItems
               loaded == Loaded(k.src, b, WideItems, k.n)
               before == Apply(dev.levels[k.sums.at + b],
                               WarpBlockScan(TotalsOf(loaded, WideItems)).prefix[t])
           IN  SerialScan(before, loaded[t], e % WideItems, k.exclusive)
     IN  Execute(k.dst.buf :> Stored(dev[k.dst.buf], k.dst, k.n, value))

\* The rungs that are modelled elsewhere, and the vendor's.
WholeScanKernel ==
  /\ Launched("whole_scan")
  /\ LET k == Head(program)
     IN  Execute("out" :> [e \in 0 .. input.n - 1 |->
                             Fold(dev[k.src.buf], 0, IF k.exclusive THEN e - 1 ELSE e)])
WholeReduceKernel ==
  /\ Launched("whole_reduce")
  /\ Execute("out" :> (0 :> Fold(dev.in, 0, input.n - 1)))

ScanKernel ==
  \/ TileScanKernel \/ PropagateKernel \/ TileReduceKernel \/ TileApplyKernel
  \/ WholeScanKernel \/ WholeReduceKernel

-------------------------------------------------------------------------------
(* Properties.                                                             *)

\* Every rung leaves at each place the elements up to it, all of them, once and
\* in order, in place or not, whatever an earlier call left in the levels; and no
\* recursion asks for more levels than the plan sized.
ScanExact ==
  input.family = "scan" =>
    /\ status # "internal"
    /\ status = "success" /\ request.what = "scan" =>
         \A i \in 0 .. input.n - 1 :
           dev.out[i] = [j \in 1 .. IF request.exclusive THEN i ELSE i + 1 |-> j - 1]
===============================================================================
