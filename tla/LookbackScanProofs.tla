-------------------------- MODULE LookbackScanProofs --------------------------
(***************************************************************************)
(* LookbackScan for every number of tiles, every window and every number   *)
(* of resident blocks.                                                     *)
(***************************************************************************)
EXTENDS LookbackScan, FiniteSetTheorems, FunctionTheorems, TLAPS

-------------------------------------------------------------------------------
(* The inductive invariant.                                                *)

Claimed(b) == pc[b] \notin {"queued", "claim"}
ClaimedBlocks == {b \in Block : Claimed(b)}

\* The counter hands out each tile below it to one block.
CounterInv ==
  /\ phase # "kernel" => \A b \in Block : pc[b] = "retired"
  /\ phase = "kernel" =>
       /\ counter = Cardinality(ClaimedBlocks)
       /\ \A b \in Block : Claimed(b) => tile[b] < counter
       /\ \A a, b \in Block : Claimed(a) /\ Claimed(b) /\ tile[a] = tile[b] => a = b

\* Only a claimed tile has a flag, and tile 0 never publishes an aggregate.
FlagInv ==
  /\ phase = "counter" => \A t \in Tile : flag[t] = "Invalid"
  /\ phase = "kernel" => \A t \in Tile : flag[t] # "Invalid" => t < counter
  /\ phase = "kernel" => flag[0] # "Aggregate"

\* The flag and the payloads of a tile follow the pc of the block that owns it.
Stage(b) ==
  /\ pc[b] = "aggregate" => flag[tile[b]] = "Invalid"
  /\ pc[b] = "publish" =>
       /\ flag[tile[b]] = "Invalid"
       /\ tile[b] = 0 => inclusive[0] = Aggregate(0)
       /\ tile[b] # 0 => aggregate[tile[b]] = Aggregate(tile[b])
  /\ pc[b] \in {"look", "include", "announce"} =>
       tile[b] # 0 /\ flag[tile[b]] = "Aggregate"
  /\ pc[b] = "announce" => inclusive[tile[b]] = Product(call, 0, tile[b] + 1)
  /\ pc[b] \in {"announce", "store"} => prefix[b] = Product(call, 0, tile[b])
  /\ pc[b] \in {"store", "retired"} => flag[tile[b]] = "Inclusive"

StageInv == phase = "kernel" => \A b \in Block : Stage(b)

\* What the lanes of a walking block hold of the window before it.
Walking(b) ==
  /\ look[b] < tile[b]
  /\ \A l \in Lane :
       /\ value[b][l] # NoValue => seen[b][l] # "Invalid"
       /\ seen[b][l] # "Invalid" =>
            /\ look[b] - l >= 0
            /\ flag[look[b] - l] # "Invalid"
            /\ seen[b][l] = "Aggregate" => look[b] - l # 0
            /\ seen[b][l] = "Inclusive" => flag[look[b] - l] = "Inclusive"
            /\ value[b][l] # NoValue =>
                 value[b][l] = IF seen[b][l] = "Inclusive"
                                 THEN Product(call, 0, look[b] - l + 1)
                                 ELSE Aggregate(look[b] - l)

LaneInv == \A b \in Block : pc[b] = "look" => Walking(b)

\* A tile is stored exactly when its block has retired.
OutInv ==
  /\ phase \in {"status", "counter"} => \A t \in Tile : out[t] = NoValue
  /\ phase = "kernel" =>
       /\ \A t \in Tile : out[t] # NoValue => t < counter
       /\ \A b \in Block : Claimed(b) => (out[tile[b]] = NoValue <=> pc[b] # "retired")

IInv ==
  /\ TypeOK /\ CounterInv /\ FlagInv /\ StageInv /\ LaneInv /\ OutInv
  /\ PublishedPayloads /\ WalkIsContiguous /\ PrefixExact

-------------------------------------------------------------------------------
(* The values: the free monoid, as far as the proof looks into it.         *)

LEMMA ValueTypes ==
  /\ \A c \in 0 .. Calls, lo, hi \in 0 .. Tiles : Product(c, lo, hi) \in Value
  /\ \A x, y \in Value : Apply(x, y) \in Value
  /\ \A v \in [Lane -> Value], s \in Lane : WindowReduce(v, s) \in Value
  /\ Identity \in Value /\ Garbage \in Value /\ NoValue \in Value
<1> USE TilesAssumption, WindowAssumption, CallsAssumption
<1>0. Identity \in Value /\ Garbage \in Value /\ NoValue \in Value
  BY DEF Identity, Garbage, NoValue, Value
<1>1. ASSUME NEW c \in 0 .. Calls, NEW lo \in 0 .. Tiles, NEW hi \in 0 .. Tiles
      PROVE  Product(c, lo, hi) \in Value
  BY <1>0 DEF Product, Value
<1>2. ASSUME NEW x \in Value, NEW y \in Value
      PROVE  Apply(x, y) \in Value
  BY <1>0 DEF Apply, Value
<1>3. ASSUME NEW v \in [Lane -> Value], NEW s \in Lane
      PROVE  WindowReduce(v, s) \in Value
  <2>1. 0 \in Lane
    BY DEF Lane
  <2>2. v[0] \in Value /\ v[s] \in Value
    BY <2>1
  <2>3. [call |-> v[0].call, lo |-> v[s].lo, hi |-> v[0].hi] \in Value
    BY <2>2 DEF Value
  <2> QED
    BY <1>0, <2>3 DEF WindowReduce
<1> QED
  BY <1>0, <1>1, <1>2, <1>3

\* A product of one tile or more is a record of its bounds.
LEMMA ProductFields ==
  ASSUME NEW c, NEW lo \in Nat, NEW hi \in Nat, lo < hi
  PROVE  /\ Product(c, lo, hi).call = c
         /\ Product(c, lo, hi).lo = lo
         /\ Product(c, lo, hi).hi = hi
BY DEF Product

\* Combining two adjacent products, earlier one on the left, gives the
\* product of the two ranges together.
LEMMA ApplyProduct ==
  ASSUME NEW c, NEW lo \in Nat, NEW mid \in Nat, NEW hi \in Nat, lo <= mid, mid <= hi
  PROVE  Apply(Product(c, lo, mid), Product(c, mid, hi)) = Product(c, lo, hi)
<1>1. CASE lo = mid
  BY <1>1 DEF Apply, Product, Identity
<1>2. CASE lo # mid /\ mid = hi
  BY <1>2 DEF Apply, Product, Identity
<1>3. CASE lo # mid /\ mid # hi
  <2>1. Product(c, lo, mid) = [call |-> c, lo |-> lo, hi |-> mid]
    BY <1>3 DEF Product
  <2>2. Product(c, mid, hi) = [call |-> c, lo |-> mid, hi |-> hi]
    BY <1>3 DEF Product
  <2>3. Product(c, lo, hi) = [call |-> c, lo |-> lo, hi |-> hi]
    BY <1>3 DEF Product
  <2>4. Product(c, lo, mid) # Identity
    <3>1. Product(c, lo, mid).hi = mid /\ Identity.hi = 0
      BY <2>1 DEF Identity
    <3> QED
      BY <3>1, <1>3
  <2>5. Product(c, mid, hi) # Identity
    <3>1. Product(c, mid, hi).hi = hi /\ Identity.hi = 0
      BY <2>2 DEF Identity
    <3> QED
      BY <3>1, <1>3
  <2> QED
    BY <2>1, <2>2, <2>3, <2>4, <2>5 DEF Apply
<1> QED
  BY <1>1, <1>2, <1>3

\* The window of the lanes 0 .. s: every lane before lane s holds the
\* aggregate of its tile, lane s holds a product that ends on its tile.
LEMMA WindowProduct ==
  ASSUME NEW c, NEW k \in Nat, NEW s \in Nat, NEW lo \in Nat, NEW v,
         s <= k, lo <= k - s,
         v[s] = Product(c, lo, k - s + 1),
         \A l \in 0 .. s - 1 : v[l] = Product(c, k - l, k - l + 1)
  PROVE  WindowReduce(v, s) = Product(c, lo, k + 1)
<1>1. v[s].call = c /\ v[s].lo = lo /\ v[s].hi = k - s + 1
  <2>1. k - s + 1 \in Nat /\ lo < k - s + 1
    OBVIOUS
  <2> QED
    BY <2>1, ProductFields
<1>2. ASSUME NEW l \in 0 .. s - 1
      PROVE  v[l].call = c /\ v[l].lo = k - l /\ v[l].hi = k - l + 1
  <2>1. k - l \in Nat /\ k - l + 1 \in Nat /\ k - l < k - l + 1
    OBVIOUS
  <2> QED
    BY <2>1, ProductFields
<1>3. v[0].call = c /\ v[0].hi = k + 1
  <2>1. CASE s = 0
    BY <1>1, <2>1
  <2>2. CASE s # 0
    <3>1. 0 \in 0 .. s - 1
      BY <2>2
    <3> QED
      BY <1>2, <3>1
  <2> QED
    BY <2>1, <2>2
<1>4. ASSUME NEW l \in 1 .. s
      PROVE  v[l].call = c /\ v[l].hi = v[l - 1].lo
  <2>1. l - 1 \in 0 .. s - 1
    OBVIOUS
  <2>2. v[l - 1].lo = k - l + 1
    BY <1>2, <2>1
  <2>3. CASE l = s
    BY <1>1, <2>2, <2>3
  <2>4. CASE l # s
    <3>1. l \in 0 .. s - 1
      BY <2>4
    <3> QED
      BY <1>2, <3>1, <2>2
  <2> QED
    BY <2>3, <2>4
<1>5. WindowReduce(v, s) = [call |-> c, lo |-> lo, hi |-> k + 1]
  BY <1>1, <1>3, <1>4 DEF WindowReduce
<1>6. lo # k + 1
  OBVIOUS
<1> QED
  BY <1>5, <1>6 DEF Product

-------------------------------------------------------------------------------
(* The initial state and the commands of the stream.                       *)

LEMMA InitInv == Init => IInv
<1> SUFFICES ASSUME Init PROVE IInv
  OBVIOUS
<1> USE TilesAssumption, WindowAssumption, CallsAssumption DEF Init
<1>1. TypeOK
  <2>1. 0 \in Tile /\ 0 \in 0 .. Calls /\ counter \in 0 .. Tiles
    BY DEF Tile
  <2>2. NoValues \in [Lane -> Value] /\ NoWindow \in [Lane -> Flag]
    BY ValueTypes DEF NoValues, NoWindow, Flag
  <2> QED
    BY <2>1, <2>2, ValueTypes DEF TypeOK, Phase, PC
<1>2. CounterInv /\ FlagInv /\ StageInv /\ OutInv /\ PublishedPayloads
  BY DEF CounterInv, FlagInv, StageInv, OutInv, PublishedPayloads
<1>3. LaneInv /\ WalkIsContiguous
  BY DEF LaneInv, Walking, WalkIsContiguous
<1>4. PrefixExact
  BY DEF PrefixExact
<1> QED
  BY <1>1, <1>2, <1>3, <1>4 DEF IInv

LEMMA StreamInv == IInv /\ StreamStep => IInv'
<1> SUFFICES ASSUME IInv, StreamStep PROVE IInv'
  OBVIOUS
<1> USE TilesAssumption, CallsAssumption DEF IInv
<1>0. \A b \in Block : pc[b] = "retired"
  BY DEF StreamStep, Call, ClearStatus, ClearCounter, Complete, CounterInv
<1>1. CASE Call
  <2> USE <1>1 DEF Call, status, walk
  <2>1. TypeOK'
    BY ValueTypes DEF TypeOK, Phase
  <2>2. (CounterInv /\ FlagInv /\ StageInv /\ OutInv /\ PublishedPayloads)'
    BY <1>0 DEF CounterInv, FlagInv, StageInv, OutInv, PublishedPayloads
  <2>3. (LaneInv /\ WalkIsContiguous /\ PrefixExact)'
    BY <1>0 DEF LaneInv, Walking, WalkIsContiguous, PrefixExact
  <2> QED
    BY <2>1, <2>2, <2>3
<1>2. CASE ClearStatus
  <2> USE <1>2 DEF ClearStatus, walk
  <2>1. TypeOK'
    BY ValueTypes DEF TypeOK, Phase, Flag
  <2>2. (CounterInv /\ FlagInv /\ StageInv /\ OutInv /\ PublishedPayloads)'
    BY <1>0 DEF CounterInv, FlagInv, StageInv, OutInv, PublishedPayloads
  <2>3. (LaneInv /\ WalkIsContiguous /\ PrefixExact)'
    BY <1>0 DEF LaneInv, Walking, WalkIsContiguous, PrefixExact
  <2> QED
    BY <2>1, <2>2, <2>3
<1>3. CASE ClearCounter
  <2> USE <1>3 DEF ClearCounter, status, walk
  <2>1. TypeOK'
    BY DEF TypeOK, Phase, PC
  <2>2. \A b \in Block : ~ Claimed(b)'
    BY DEF Claimed
  <2>3. ClaimedBlocks' = {}
    BY <2>2 DEF ClaimedBlocks
  <2>4. CounterInv'
    BY <2>2, <2>3, FS_EmptySet DEF CounterInv
  <2>5. 0 \in Tile
    BY DEF Tile
  <2>6. FlagInv'
    BY <2>5 DEF FlagInv
  <2>7. PublishedPayloads'
    BY DEF FlagInv, PublishedPayloads
  <2>8. StageInv'
    BY DEF StageInv, Stage
  <2>9. OutInv'
    BY <2>2 DEF OutInv
  <2>10. (LaneInv /\ WalkIsContiguous /\ PrefixExact)'
    BY DEF LaneInv, Walking, WalkIsContiguous, PrefixExact
  <2> QED
    BY <2>1, <2>4, <2>6, <2>7, <2>8, <2>9, <2>10
<1>4. CASE Complete
  <2> USE <1>4 DEF Complete, status, walk
  <2>1. TypeOK'
    BY DEF TypeOK, Phase
  <2>2. (CounterInv /\ FlagInv /\ StageInv /\ OutInv /\ PublishedPayloads)'
    BY <1>0 DEF CounterInv, FlagInv, StageInv, OutInv, PublishedPayloads
  <2>3. (LaneInv /\ WalkIsContiguous /\ PrefixExact)'
    BY <1>0 DEF LaneInv, Walking, WalkIsContiguous, PrefixExact
  <2> QED
    BY <2>1, <2>2, <2>3
<1> QED
  BY <1>1, <1>2, <1>3, <1>4 DEF StreamStep

-------------------------------------------------------------------------------
(* Claiming a tile.                                                        *)

LEMMA BlockCount == IsFiniteSet(Block) /\ Cardinality(Block) = Tiles
BY FS_Interval, TilesAssumption DEF Block

\* A block that has not claimed leaves a tile below Tiles to claim.
LEMMA RoomToClaim ==
  ASSUME IInv, phase = "kernel", NEW b \in Block, ~ Claimed(b)
  PROVE  counter < Tiles
<1>1. ClaimedBlocks \in SUBSET Block /\ ClaimedBlocks # Block
  BY DEF ClaimedBlocks
<1>2. Cardinality(ClaimedBlocks) <= Tiles /\ Cardinality(ClaimedBlocks) # Tiles
  BY <1>1, BlockCount, FS_Subset
<1>3. counter = Cardinality(ClaimedBlocks)
  BY DEF IInv, CounterInv
<1>4. counter \in 0 .. Tiles
  BY DEF IInv, TypeOK
<1> QED
  BY <1>2, <1>3, <1>4, TilesAssumption

LEMMA DispatchInv ==
  ASSUME IInv, NEW b \in Block, Dispatch(b)
  PROVE  IInv'
<1> USE DEF IInv, Dispatch, Goto, status, walk
<1>1. TypeOK'
  BY DEF TypeOK, PC
<1>2. \A a \in Block : Claimed(a)' <=> Claimed(a)
  BY DEF Claimed, TypeOK
<1>3. ClaimedBlocks' = ClaimedBlocks
  BY <1>2 DEF ClaimedBlocks
<1>4. CounterInv'
  BY <1>2, <1>3 DEF CounterInv
<1>5. FlagInv' /\ PublishedPayloads' /\ PrefixExact'
  BY DEF FlagInv, PublishedPayloads, PrefixExact, Aggregate
<1>6. StageInv'
  BY DEF StageInv, Stage, TypeOK, Aggregate
<1>7. LaneInv' /\ WalkIsContiguous'
  BY DEF LaneInv, Walking, WalkIsContiguous, TypeOK, Aggregate
<1>8. OutInv'
  BY <1>2 DEF OutInv, TypeOK, Claimed
<1> QED
  BY <1>1, <1>4, <1>5, <1>6, <1>7, <1>8

LEMMA ClaimInv ==
  ASSUME IInv, NEW b \in Block, Claim(b)
  PROVE  IInv'
<1> USE TilesAssumption DEF IInv, Claim, Goto, status, walk
<1>0. phase = "kernel" /\ ~ Claimed(b)
  BY DEF CounterInv, Claimed
<1>1. counter \in Tile
  BY <1>0, RoomToClaim DEF TypeOK, Tile
<1>2. TypeOK'
  BY <1>1 DEF TypeOK, PC, Tile
<1>3. \A a \in Block : Claimed(a)' <=> (Claimed(a) \/ a = b)
  BY DEF Claimed, TypeOK
<1>4. Claimed(b)' /\ tile'[b] = counter /\ counter' = counter + 1
  BY <1>3 DEF TypeOK
<1>5. \A a \in Block : a # b => tile'[a] = tile[a] /\ pc'[a] = pc[a]
  BY DEF TypeOK
<1>6. CounterInv'
  <2>1. ClaimedBlocks' = ClaimedBlocks \cup {b}
    BY <1>3 DEF ClaimedBlocks
  <2>2. b \notin ClaimedBlocks /\ IsFiniteSet(ClaimedBlocks)
    BY <1>0, BlockCount, FS_Subset DEF ClaimedBlocks
  <2>3. counter' = Cardinality(ClaimedBlocks')
    BY <2>1, <2>2, <1>0, FS_AddElement DEF CounterInv
  <2>4. \A a \in Block : Claimed(a)' => tile'[a] < counter'
    BY <1>0, <1>1, <1>3, <1>4, <1>5 DEF CounterInv, TypeOK, Tile
  <2>5. ASSUME NEW a1 \in Block, NEW a2 \in Block,
               Claimed(a1)', Claimed(a2)', tile'[a1] = tile'[a2]
        PROVE  a1 = a2
    <3>1. \A a \in Block : Claimed(a) => tile[a] \in Int /\ tile[a] # counter
      BY <1>0, <1>1 DEF CounterInv, TypeOK, Tile
    <3> QED
      BY <3>1, <2>5, <1>0, <1>3, <1>4, <1>5 DEF CounterInv
  <2> QED
    BY <2>3, <2>4, <2>5, <1>0 DEF CounterInv
<1>7. flag[counter] = "Invalid" /\ out[counter] = NoValue
  BY <1>0, <1>1 DEF FlagInv, OutInv, Tile
<1>8. FlagInv' /\ PublishedPayloads' /\ PrefixExact'
  BY <1>0, <1>1 DEF FlagInv, PublishedPayloads, PrefixExact, Tile, Aggregate
<1>9. StageInv'
  BY <1>0, <1>4, <1>5, <1>7 DEF StageInv, Stage, TypeOK, Aggregate
<1>10. LaneInv' /\ WalkIsContiguous'
  BY <1>5 DEF LaneInv, Walking, WalkIsContiguous, TypeOK, Aggregate
<1>11. OutInv'
  BY <1>0, <1>1, <1>3, <1>4, <1>5, <1>7 DEF OutInv, TypeOK, Tile
<1> QED
  BY <1>2, <1>6, <1>8, <1>9, <1>10, <1>11

-------------------------------------------------------------------------------
(* The steps of a block that owns a tile.                                  *)

\* A block whose pc is not retired runs inside the kernel.
LEMMA KernelRuns ==
  ASSUME IInv, NEW b \in Block, pc[b] # "retired"
  PROVE  phase = "kernel"
BY DEF IInv, CounterInv

\* A step of a claimed block that stays claimed leaves CounterInv alone.
LEMMA CounterKept ==
  ASSUME IInv, NEW b \in Block, Claimed(b), phase = "kernel",
         UNCHANGED <<phase, counter, tile>>,
         NEW l \in PC \ {"queued", "claim"}, Goto(b, l)
  PROVE  /\ CounterInv'
         /\ \A a \in Block : Claimed(a)' <=> Claimed(a)
         /\ \A a \in Block : a # b /\ Claimed(a) => tile[a] # tile[b]
         /\ tile[b] \in Tile /\ tile[b] < counter
<1>1. \A a \in Block : Claimed(a)' <=> Claimed(a)
  BY DEF Claimed, Goto, IInv, TypeOK
<1>2. ClaimedBlocks' = ClaimedBlocks
  BY <1>1 DEF ClaimedBlocks
<1>3. CounterInv'
  BY <1>1, <1>2 DEF IInv, CounterInv
<1> QED
  BY <1>1, <1>3 DEF IInv, CounterInv, TypeOK

LEMMA WriteAggregateInv ==
  ASSUME IInv, NEW b \in Block, WriteAggregate(b)
  PROVE  IInv'
<1> USE TilesAssumption DEF IInv
<1>0. phase = "kernel" /\ Claimed(b) /\ pc[b] = "aggregate"
  BY KernelRuns DEF Claimed, WriteAggregate
<1>1. /\ Goto(b, "publish")
      /\ UNCHANGED <<call, phase, counter, flag, tile, look, seen, value, running, prefix, out>>
  BY DEF WriteAggregate, walk
<1>2. /\ inclusive' = IF tile[b] = 0 THEN [inclusive EXCEPT ![0] = Aggregate(0)] ELSE inclusive
      /\ aggregate' = IF tile[b] = 0 THEN aggregate
                                     ELSE [aggregate EXCEPT ![tile[b]] = Aggregate(tile[b])]
  BY DEF WriteAggregate
<1>3. /\ CounterInv'
      /\ \A a \in Block : Claimed(a)' <=> Claimed(a)
      /\ \A a \in Block : a # b /\ Claimed(a) => tile[a] # tile[b]
      /\ tile[b] \in Tile /\ tile[b] < counter
  <2>1. "publish" \in PC \ {"queued", "claim"}
    BY DEF PC
  <2> QED
    BY <1>0, <1>1, <2>1, CounterKept
<1>4. TypeOK'
  <2>1. Aggregate(tile[b]) \in Value
    BY <1>3, ValueTypes DEF Aggregate, TypeOK, Tile
  <2>2. inclusive' \in [Tile -> Value] /\ aggregate' \in [Tile -> Value]
    BY <1>2, <1>3, <2>1 DEF TypeOK
  <2>3. pc' \in [Block -> PC]
    BY <1>1 DEF TypeOK, Goto, PC
  <2> QED
    BY <1>1, <2>2, <2>3 DEF TypeOK
<1>5. flag[tile[b]] = "Invalid"
  BY <1>0 DEF StageInv, Stage
<1>6. FlagInv' /\ PrefixExact'
  BY <1>1 DEF FlagInv, PrefixExact
<1>7. PublishedPayloads'
  BY <1>1, <1>2, <1>3, <1>5 DEF PublishedPayloads, Aggregate, TypeOK
<1>8. StageInv'
  <2> SUFFICES ASSUME NEW a \in Block PROVE Stage(a)'
    BY DEF StageInv
  <2>1. CASE a = b
    BY <1>0, <1>1, <1>2, <1>3, <1>5, <2>1 DEF Stage, TypeOK, Aggregate, Goto
  <2>2. CASE a # b
    BY <1>0, <1>1, <1>2, <1>3, <2>2 DEF StageInv, Stage, TypeOK, Aggregate, Goto, Claimed
  <2> QED
    BY <2>1, <2>2
<1>9. LaneInv' /\ WalkIsContiguous'
  BY <1>1 DEF LaneInv, Walking, WalkIsContiguous, TypeOK, Aggregate, Goto
<1>10. OutInv'
  BY <1>0, <1>1, <1>3 DEF OutInv, TypeOK, Goto
<1> QED
  BY <1>3, <1>4, <1>6, <1>7, <1>8, <1>9, <1>10

LEMMA PublishAggregateInv ==
  ASSUME IInv, NEW b \in Block, PublishAggregate(b)
  PROVE  IInv'
<1> USE TilesAssumption DEF IInv
<1>0. phase = "kernel" /\ Claimed(b) /\ pc[b] = "publish"
  BY KernelRuns DEF Claimed, PublishAggregate
<1> DEFINE next == IF tile[b] = 0 THEN "store" ELSE "look"
<1>1. Goto(b, next) /\ UNCHANGED <<call, phase, counter, aggregate, inclusive, tile, out>>
  BY DEF PublishAggregate
<1>2. /\ tile[b] = 0 =>
           /\ flag' = [flag EXCEPT ![0] = "Inclusive"]
           /\ prefix' = [prefix EXCEPT ![b] = Identity]
           /\ UNCHANGED <<look, seen, value, running>>
      /\ tile[b] # 0 =>
           /\ flag' = [flag EXCEPT ![tile[b]] = "Aggregate"]
           /\ running' = [running EXCEPT ![b] = Identity]
           /\ look' = [look EXCEPT ![b] = tile[b] - 1]
           /\ seen' = [seen EXCEPT ![b] = NoWindow]
           /\ value' = [value EXCEPT ![b] = NoValues]
           /\ UNCHANGED prefix
  BY DEF PublishAggregate, walk
<1>3. /\ CounterInv'
      /\ \A a \in Block : Claimed(a)' <=> Claimed(a)
      /\ \A a \in Block : a # b /\ Claimed(a) => tile[a] # tile[b]
      /\ tile[b] \in Tile /\ tile[b] < counter
  <2>1. next \in PC \ {"queued", "claim"}
    BY DEF PC
  <2> QED
    BY <1>0, <1>1, <2>1, CounterKept
<1>4. /\ flag[tile[b]] = "Invalid"
      /\ tile[b] = 0 => inclusive[0] = Aggregate(0)
      /\ tile[b] # 0 => aggregate[tile[b]] = Aggregate(tile[b])
  BY <1>0 DEF StageInv, Stage
<1>5. \A t \in Tile : flag'[t] = IF t # tile[b] THEN flag[t]
                                 ELSE IF t = 0 THEN "Inclusive" ELSE "Aggregate"
  BY <1>2, <1>3 DEF TypeOK
<1>6. TypeOK'
  <2>1. NoWindow \in [Lane -> Flag] /\ NoValues \in [Lane -> Value]
    BY ValueTypes DEF NoWindow, NoValues, Flag
  <2>2. flag' \in [Tile -> Flag]
    BY <1>2, <1>3 DEF TypeOK, Flag
  <2>3. pc' \in [Block -> PC]
    BY <1>1 DEF TypeOK, Goto, PC
  <2>4. /\ look' \in [Block -> Tile]
        /\ running' \in [Block -> Value] /\ prefix' \in [Block -> Value]
        /\ seen' \in [Block -> [Lane -> Flag]] /\ value' \in [Block -> [Lane -> Value]]
    <3>1. CASE tile[b] = 0
      <4>1. UNCHANGED <<look, seen, value, running>> /\ prefix' = [prefix EXCEPT ![b] = Identity]
        BY <1>2, <3>1
      <4>2. prefix' \in [Block -> Value]
        BY <4>1, ValueTypes DEF TypeOK
      <4> QED
        BY <4>1, <4>2 DEF TypeOK
    <3>2. CASE tile[b] # 0
      <4>1. tile[b] - 1 \in Tile
        BY <1>3, <3>2 DEF Tile
      <4>2. look' \in [Block -> Tile]
        BY <1>2, <3>2, <4>1 DEF TypeOK
      <4>3. running' \in [Block -> Value] /\ prefix' \in [Block -> Value]
        BY <1>2, <3>2, ValueTypes DEF TypeOK
      <4>4. seen' \in [Block -> [Lane -> Flag]]
        BY <1>2, <2>1, <3>2 DEF TypeOK
      <4>5. value' \in [Block -> [Lane -> Value]]
        BY <1>2, <2>1, <3>2 DEF TypeOK
      <4> QED
        BY <4>2, <4>3, <4>4, <4>5
    <3> QED
      BY <3>1, <3>2
  <2> QED
    BY <1>1, <2>2, <2>3, <2>4 DEF TypeOK
<1>7. FlagInv' /\ PrefixExact'
  <2>1. 0 \in Tile
    BY DEF Tile
  <2> QED
    BY <1>0, <1>1, <1>3, <1>5, <2>1 DEF FlagInv, PrefixExact
<1>8. PublishedPayloads'
  <2>1. Aggregate(0) = Product(call, 0, 0 + 1)
    BY DEF Aggregate
  <2> QED
    BY <1>0, <1>1, <1>4, <1>5, <2>1 DEF PublishedPayloads, Aggregate
<1>9. StageInv'
  <2> SUFFICES ASSUME NEW a \in Block PROVE Stage(a)'
    BY DEF StageInv
  <2>1. CASE a = b /\ tile[b] = 0
    <3>1. pc'[b] = "store" /\ flag'[tile'[b]] = "Inclusive" /\ prefix'[b] = Product(call', 0, tile'[b])
      BY <1>1, <1>2, <1>3, <1>5, <2>1 DEF TypeOK, Goto, Product
    <3> QED
      BY <3>1, <2>1 DEF Stage
  <2>2. CASE a = b /\ tile[b] # 0
    <3>1. pc'[b] = "look" /\ flag'[tile'[b]] = "Aggregate" /\ tile'[b] # 0
      BY <1>1, <1>2, <1>3, <1>5, <2>2 DEF TypeOK, Goto
    <3> QED
      BY <3>1, <2>2 DEF Stage
  <2>3. CASE a # b
    <3>1. pc'[a] = pc[a] /\ tile'[a] = tile[a] /\ tile[a] \in Tile /\ prefix'[a] = prefix[a]
      BY <1>1, <1>2, <2>3 DEF TypeOK, Goto
    <3>2. Claimed(a) => flag'[tile[a]] = flag[tile[a]]
      BY <1>3, <1>5, <3>1, <2>3
    <3> QED
      BY <1>0, <1>1, <3>1, <3>2 DEF StageInv, Stage, Claimed, Aggregate
  <2> QED
    BY <2>1, <2>2, <2>3
<1>10. ASSUME NEW a \in Block, pc'[a] = "look"
       PROVE  Walking(a)' /\ running'[a] = Product(call', look'[a] + 1, tile'[a])
  <2>1. CASE a = b
    <3>1. tile[b] # 0
      BY <1>1, <1>10, <2>1 DEF TypeOK, Goto
    <3>2. /\ look'[b] = tile[b] - 1 /\ running'[b] = Identity
          /\ seen'[b] = NoWindow /\ value'[b] = NoValues
      BY <1>2, <3>1 DEF TypeOK
    <3>3. tile[b] - 1 < tile[b] /\ tile[b] - 1 + 1 = tile[b]
      BY <1>3 DEF Tile
    <3> QED
      BY <1>1, <2>1, <3>2, <3>3 DEF Walking, NoWindow, NoValues, Product
  <2>2. CASE a # b
    <3>1. /\ pc[a] = "look" /\ tile'[a] = tile[a] /\ look'[a] = look[a]
          /\ seen'[a] = seen[a] /\ value'[a] = value[a] /\ running'[a] = running[a]
      BY <1>1, <1>2, <1>10, <2>2 DEF TypeOK, Goto
    <3>2. Walking(a) /\ running[a] = Product(call, look[a] + 1, tile[a])
      BY <3>1 DEF LaneInv, WalkIsContiguous
    <3>3. ASSUME NEW l \in Lane, seen[a][l] # "Invalid"
          PROVE  flag'[look[a] - l] = flag[look[a] - l]
      <4>1. look[a] - l \in Tile /\ flag[look[a] - l] # "Invalid"
        BY <3>2, <3>3, WindowAssumption DEF Walking, TypeOK, Tile, Lane
      <4> QED
        BY <4>1, <1>4, <1>5
    <3> QED
      BY <1>1, <3>1, <3>2, <3>3 DEF Walking, Aggregate
  <2> QED
    BY <2>1, <2>2
<1>11. LaneInv'
  BY <1>10 DEF LaneInv
<1>12. WalkIsContiguous'
  <2>1. ASSUME NEW a \in Block, pc'[a] = "include"
        PROVE  running'[a] = Product(call', 0, tile'[a])
    BY <1>0, <1>1, <1>2, <2>1 DEF WalkIsContiguous, TypeOK, Goto
  <2> QED
    BY <1>10, <2>1 DEF WalkIsContiguous
<1>13. OutInv'
  BY <1>0, <1>1, <1>3 DEF OutInv, TypeOK, Goto
<1> QED
  BY <1>3, <1>6, <1>7, <1>8, <1>9, <1>11, <1>12, <1>13

-------------------------------------------------------------------------------
(* The walk.                                                               *)

LEMMA AcquireFlagInv ==
  ASSUME IInv, NEW b \in Block, NEW l \in Lane, AcquireFlag(b, l)
  PROVE  IInv'
<1> USE DEF IInv
<1>0. phase = "kernel" /\ pc[b] = "look"
  BY KernelRuns DEF AcquireFlag
<1>1. /\ UNCHANGED <<call, phase, counter, flag, aggregate, inclusive, pc, tile>>
      /\ UNCHANGED <<look, value, running, prefix, out>>
  BY DEF AcquireFlag, status
<1>2. look[b] - l \in Tile /\ flag[look[b] - l] \in Flag \ {"Invalid"}
  BY TilesAssumption, WindowAssumption DEF AcquireFlag, InWindow, TypeOK, Tile, Lane
<1>3. /\ seen[b][l] = "Invalid"
      /\ seen' = [seen EXCEPT ![b][l] = flag[look[b] - l]]
  BY DEF AcquireFlag
<1>4. TypeOK'
  <2>1. seen' \in [Block -> [Lane -> Flag]]
    BY <1>2, <1>3 DEF TypeOK
  <2> QED
    BY <1>1, <2>1 DEF TypeOK
<1>5. CounterInv' /\ OutInv' /\ FlagInv'
  <2>1. ClaimedBlocks' = ClaimedBlocks /\ \A a \in Block : Claimed(a)' <=> Claimed(a)
    BY <1>1 DEF ClaimedBlocks, Claimed
  <2> QED
    BY <1>1, <2>1 DEF CounterInv, OutInv, FlagInv
<1>6. StageInv' /\ PublishedPayloads' /\ WalkIsContiguous' /\ PrefixExact'
  BY <1>1 DEF StageInv, Stage, PublishedPayloads, WalkIsContiguous, PrefixExact, Aggregate
<1>7. LaneInv'
  <2> SUFFICES ASSUME NEW a \in Block, pc'[a] = "look" PROVE Walking(a)'
    BY DEF LaneInv
  <2>1. Walking(a)
    BY <1>1 DEF LaneInv
  <2>2. ASSUME NEW k \in Lane
        PROVE  seen'[a][k] = IF a = b /\ k = l THEN flag[look[b] - l] ELSE seen[a][k]
    BY <1>3 DEF TypeOK
  <2>3. value[b][l] = NoValue
    BY <1>0, <1>3 DEF LaneInv, Walking
  <2>4. look[b] - l = 0 => flag[look[b] - l] # "Aggregate"
    BY <1>0 DEF FlagInv
  <2>5. look[b] - l >= 0
    BY <1>2, TilesAssumption DEF Tile
  <2> QED
    BY <1>1, <1>2, <2>1, <2>2, <2>3, <2>4, <2>5 DEF Walking, Aggregate
<1> QED
  BY <1>4, <1>5, <1>6, <1>7

LEMMA ReadPayloadInv ==
  ASSUME IInv, NEW b \in Block, NEW l \in Lane, ReadPayload(b, l)
  PROVE  IInv'
<1> USE DEF IInv
<1>0. phase = "kernel" /\ pc[b] = "look"
  BY KernelRuns DEF ReadPayload
<1>1. /\ UNCHANGED <<call, phase, counter, flag, aggregate, inclusive, pc, tile>>
      /\ UNCHANGED <<look, seen, running, prefix, out>>
  BY DEF ReadPayload, status
<1> DEFINE t == look[b] - l
           read == IF seen[b][l] = "Inclusive" THEN inclusive[t] ELSE aggregate[t]
<1>2. value' = [value EXCEPT ![b][l] = read] /\ seen[b][l] # "Invalid"
  BY DEF ReadPayload
<1>3. /\ t \in Tile /\ flag[t] # "Invalid"
      /\ seen[b][l] = "Aggregate" => t # 0
      /\ seen[b][l] = "Inclusive" => flag[t] = "Inclusive"
  BY <1>0, <1>2, TilesAssumption, WindowAssumption DEF LaneInv, Walking, TypeOK, Tile, Lane
<1>4. read = IF seen[b][l] = "Inclusive" THEN Product(call, 0, t + 1) ELSE Aggregate(t)
  <2>1. seen[b][l] \in {"Aggregate", "Inclusive"}
    BY <1>2 DEF TypeOK, Flag
  <2> QED
    BY <1>0, <1>3, <2>1 DEF PublishedPayloads
<1>5. TypeOK'
  <2>1. read \in Value
    BY <1>3 DEF TypeOK
  <2>2. value' \in [Block -> [Lane -> Value]]
    BY <1>2, <2>1 DEF TypeOK
  <2> QED
    BY <1>1, <2>2 DEF TypeOK
<1>6. CounterInv' /\ OutInv' /\ FlagInv'
  <2>1. ClaimedBlocks' = ClaimedBlocks /\ \A a \in Block : Claimed(a)' <=> Claimed(a)
    BY <1>1 DEF ClaimedBlocks, Claimed
  <2> QED
    BY <1>1, <2>1 DEF CounterInv, OutInv, FlagInv
<1>7. StageInv' /\ PublishedPayloads' /\ WalkIsContiguous' /\ PrefixExact'
  BY <1>1 DEF StageInv, Stage, PublishedPayloads, WalkIsContiguous, PrefixExact, Aggregate
<1>8. LaneInv'
  <2> SUFFICES ASSUME NEW a \in Block, pc'[a] = "look" PROVE Walking(a)'
    BY DEF LaneInv
  <2>1. Walking(a)
    BY <1>1 DEF LaneInv
  <2>2. ASSUME NEW k \in Lane
        PROVE  value'[a][k] = IF a = b /\ k = l THEN read ELSE value[a][k]
    BY <1>2 DEF TypeOK
  <2> HIDE DEF read
  <2> QED
    BY <1>1, <1>2, <1>4, <2>1, <2>2 DEF Walking, Aggregate
<1> QED
  BY <1>5, <1>6, <1>7, <1>8

\* When every lane of the window has read, the window's product reaches from
\* the tile below the stopping lane's product up to the tile looked at; and a
\* window that sees no inclusive prefix lies wholly above tile 0.
LEMMA WindowResult ==
  ASSUME IInv, NEW b \in Block, pc[b] = "look",
         \A l \in ValidLanes(b) : value[b][l] # NoValue,
         NEW s \in Lane, IsStop(b, s)
  PROVE  /\ InclusiveLanes(b) # {} =>
              WindowReduce(value[b], s) = Product(call, 0, look[b] + 1)
         /\ InclusiveLanes(b) = {} =>
              /\ look[b] - Window >= 0
              /\ WindowReduce(value[b], s) = Product(call, look[b] - Window + 1, look[b] + 1)
<1> USE TilesAssumption, WindowAssumption DEF IInv
<1>1. /\ look[b] \in Nat /\ s \in Nat /\ Walking(b)
      /\ seen[b] \in [Lane -> Flag]
  BY DEF TypeOK, Tile, Lane, LaneInv
<1>2. ASSUME NEW l \in Lane, look[b] - l >= 0
      PROVE  /\ seen[b][l] \in {"Aggregate", "Inclusive"}
             /\ seen[b][l] = "Aggregate" => look[b] - l # 0
             /\ value[b][l] = IF seen[b][l] = "Inclusive"
                                THEN Product(call, 0, look[b] - l + 1)
                                ELSE Product(call, look[b] - l, look[b] - l + 1)
  <2>1. value[b][l] # NoValue
    BY <1>2 DEF ValidLanes, InWindow
  <2> QED
    BY <1>1, <1>2, <2>1 DEF Walking, Flag, Aggregate
<1>3. CASE InclusiveLanes(b) # {}
  <2>1. look[b] - s >= 0 /\ seen[b][s] = "Inclusive"
    BY <1>3 DEF IsStop, InclusiveLanes, InWindow
  <2>2. value[b][s] = Product(call, 0, look[b] - s + 1)
    BY <1>2, <2>1
  <2>3. ASSUME NEW l \in 0 .. s - 1
        PROVE  value[b][l] = Product(call, look[b] - l, look[b] - l + 1)
    <3>1. l \in Lane /\ look[b] - l >= 0 /\ l < s
      BY <1>1, <2>1 DEF Lane
    <3>2. seen[b][l] # "Inclusive"
      BY <1>1, <1>3, <3>1 DEF IsStop, InclusiveLanes, InWindow, Lane
    <3> QED
      BY <1>2, <3>1, <3>2
  <2>4. WindowReduce(value[b], s) = Product(call, 0, look[b] + 1)
    BY <1>1, <2>1, <2>2, <2>3, WindowProduct
  <2> QED
    BY <1>3, <2>4
<1>4. CASE InclusiveLanes(b) = {}
  <2>1. look[b] - s >= 0 /\ \A l \in Lane : look[b] - l >= 0 => l <= s
    BY <1>4 DEF IsStop, ValidLanes, InWindow
  <2>2. ASSUME NEW l \in Lane, look[b] - l >= 0
        PROVE  /\ seen[b][l] = "Aggregate" /\ look[b] - l # 0
               /\ value[b][l] = Product(call, look[b] - l, look[b] - l + 1)
    BY <1>2, <1>4, <2>2 DEF InclusiveLanes, InWindow
  <2>3. s = Window - 1
    <3> SUFFICES ASSUME s # Window - 1 PROVE FALSE
      OBVIOUS
    <3>1. s + 1 \in Lane
      BY <1>1 DEF Lane
    <3>2. look[b] - (s + 1) < 0
      BY <1>1, <2>1, <3>1
    <3>3. look[b] - s = 0
      BY <1>1, <2>1, <3>2
    <3> QED
      BY <2>2, <3>3
  <2>4. look[b] - Window >= 0
    <3>1. look[b] - s # 0
      BY <2>1, <2>2
    <3> QED
      BY <1>1, <2>1, <2>3, <3>1
  <2>5. ASSUME NEW l \in 0 .. s
        PROVE  value[b][l] = Product(call, look[b] - l, look[b] - l + 1)
    <3>1. l \in Lane /\ look[b] - l >= 0
      BY <1>1, <2>1 DEF Lane
    <3> QED
      BY <2>2, <3>1
  <2>6. WindowReduce(value[b], s) = Product(call, look[b] - s, look[b] + 1)
    <3>1. look[b] - s \in Nat /\ s <= look[b] /\ s \in 0 .. s
      BY <1>1, <2>1
    <3>2. value[b][s] = Product(call, look[b] - s, look[b] - s + 1)
      BY <2>5, <3>1
    <3>3. \A l \in 0 .. s - 1 : value[b][l] = Product(call, look[b] - l, look[b] - l + 1)
      BY <1>1, <2>5
    <3> QED
      BY <1>1, <3>1, <3>2, <3>3, WindowProduct
  <2>7. look[b] - s = look[b] - Window + 1
    BY <1>1, <2>3
  <2> QED
    BY <1>4, <2>4, <2>6, <2>7
<1> QED
  BY <1>3, <1>4

LEMMA CombineWindowInv ==
  ASSUME IInv, NEW b \in Block, CombineWindow(b)
  PROVE  IInv'
<1> USE TilesAssumption, WindowAssumption DEF IInv
<1>0. phase = "kernel" /\ Claimed(b) /\ pc[b] = "look"
  BY KernelRuns DEF Claimed, CombineWindow
<1> DEFINE next == IF InclusiveLanes(b) # {} \/ look[b] - Window < 0 THEN "include" ELSE "look"
<1>1. /\ Goto(b, next)
      /\ UNCHANGED <<call, phase, counter, flag, aggregate, inclusive, tile, prefix, out>>
  BY DEF CombineWindow, status
<1>2. PICK s \in Lane :
        /\ IsStop(b, s)
        /\ running' = [running EXCEPT ![b] = Apply(WindowReduce(value[b], s), @)]
  BY DEF CombineWindow
<1>3. /\ look' = IF InclusiveLanes(b) # {} THEN look ELSE [look EXCEPT ![b] = @ - Window]
      /\ seen' = [seen EXCEPT ![b] = NoWindow]
      /\ value' = [value EXCEPT ![b] = NoValues]
  BY DEF CombineWindow
<1>4. /\ InclusiveLanes(b) # {} =>
           WindowReduce(value[b], s) = Product(call, 0, look[b] + 1)
      /\ InclusiveLanes(b) = {} =>
           /\ look[b] - Window >= 0
           /\ WindowReduce(value[b], s) = Product(call, look[b] - Window + 1, look[b] + 1)
  <2>1. \A l \in ValidLanes(b) : value[b][l] # NoValue
    BY DEF CombineWindow
  <2> QED
    BY <1>0, <1>2, <2>1, WindowResult
<1>5. /\ CounterInv'
      /\ \A a \in Block : Claimed(a)' <=> Claimed(a)
      /\ \A a \in Block : a # b /\ Claimed(a) => tile[a] # tile[b]
      /\ tile[b] \in Tile /\ tile[b] < counter
  <2>1. next \in PC \ {"queued", "claim"}
    BY DEF PC
  <2> QED
    BY <1>0, <1>1, <2>1, CounterKept
<1>6. /\ look[b] \in Nat /\ tile[b] \in Nat /\ look[b] < tile[b] /\ call \in 0 .. Calls
      /\ running[b] = Product(call, look[b] + 1, tile[b])
  BY <1>0 DEF LaneInv, Walking, WalkIsContiguous, TypeOK, Tile
<1>7. pc'[b] = next /\ \A a \in Block : a # b => pc'[a] = pc[a]
  BY <1>1 DEF TypeOK, Goto
<1>8. running'[b] = Apply(WindowReduce(value[b], s), running[b])
  BY <1>2 DEF TypeOK
<1>9. \A a \in Block : a # b =>
        /\ running'[a] = running[a] /\ look'[a] = look[a]
        /\ seen'[a] = seen[a] /\ value'[a] = value[a]
  BY <1>2, <1>3 DEF TypeOK
<1>10. CASE InclusiveLanes(b) # {}
  <2>1. pc'[b] = "include" /\ look' = look
    BY <1>3, <1>7, <1>10
  <2>2. running'[b] = Product(call, 0, tile[b])
    BY <1>4, <1>6, <1>8, <1>10, ApplyProduct
  <2> QED
    <3>1. TypeOK'
      BY <1>1, <1>2, <1>3, <1>5, <2>1, ValueTypes, <1>6 DEF TypeOK, Goto, PC, Flag, NoWindow, NoValues
    <3>2. FlagInv' /\ PrefixExact' /\ PublishedPayloads'
      BY <1>1 DEF FlagInv, PrefixExact, PublishedPayloads, Aggregate
    <3>3. StageInv'
      BY <1>0, <1>1, <1>7, <2>1 DEF StageInv, Stage, Aggregate
    <3>4. LaneInv'
      BY <1>1, <1>7, <1>9, <2>1 DEF LaneInv, Walking, Aggregate
    <3>5. WalkIsContiguous'
      BY <1>1, <1>7, <1>9, <2>1, <2>2 DEF WalkIsContiguous
    <3>6. OutInv'
      BY <1>0, <1>1, <1>5, <1>7, <2>1 DEF OutInv
    <3> QED
      BY <1>5, <3>1, <3>2, <3>3, <3>4, <3>5, <3>6
<1>11. CASE InclusiveLanes(b) = {}
  <2>1. pc'[b] = "look" /\ look' = [look EXCEPT ![b] = @ - Window]
    BY <1>3, <1>4, <1>6, <1>7, <1>11
  <2>2. look'[b] = look[b] - Window /\ look'[b] \in Tile /\ look'[b] < tile[b]
    BY <1>4, <1>5, <1>6, <1>11, <2>1 DEF TypeOK, Tile
  <2>3. running'[b] = Product(call, look'[b] + 1, tile[b])
    BY <1>4, <1>6, <1>8, <1>11, <2>2, ApplyProduct
  <2>4. seen'[b] = NoWindow /\ value'[b] = NoValues
    BY <1>3 DEF TypeOK
  <2> QED
    <3>1. TypeOK'
      <4>1. look' \in [Block -> Tile]
        BY <2>1, <2>2 DEF TypeOK
      <4>2. running' \in [Block -> Value]
        <5>1. WindowReduce(value[b], s) \in Value
          BY ValueTypes DEF TypeOK
        <5>2. Apply(WindowReduce(value[b], s), running[b]) \in Value
          BY <5>1, ValueTypes DEF TypeOK
        <5> QED
          BY <1>2, <5>2 DEF TypeOK
      <4>3. seen' \in [Block -> [Lane -> Flag]] /\ value' \in [Block -> [Lane -> Value]]
        BY <1>3, ValueTypes DEF TypeOK, Flag, NoWindow, NoValues
      <4>4. pc' \in [Block -> PC]
        BY <1>1 DEF TypeOK, Goto, PC
      <4> QED
        BY <1>1, <4>1, <4>2, <4>3, <4>4 DEF TypeOK
    <3>2. FlagInv' /\ PrefixExact' /\ PublishedPayloads'
      BY <1>1 DEF FlagInv, PrefixExact, PublishedPayloads, Aggregate
    <3>3. StageInv'
      BY <1>0, <1>1, <1>7, <2>1 DEF StageInv, Stage, Aggregate
    <3>4. LaneInv'
      <4>1. Walking(b)'
        BY <1>1, <2>2, <2>4 DEF Walking, NoWindow, NoValues
      <4>2. ASSUME NEW a \in Block, a # b, pc'[a] = "look" PROVE Walking(a)'
        BY <1>1, <1>7, <1>9, <4>2 DEF LaneInv, Walking, Aggregate
      <4> QED
        BY <4>1, <4>2 DEF LaneInv
    <3>5. WalkIsContiguous'
      BY <1>1, <1>7, <1>9, <2>1, <2>3 DEF WalkIsContiguous
    <3>6. OutInv'
      BY <1>0, <1>1, <1>5, <1>7, <2>1 DEF OutInv
    <3> QED
      BY <1>5, <3>1, <3>2, <3>3, <3>4, <3>5, <3>6
<1> QED
  BY <1>10, <1>11

LEMMA WriteInclusiveInv ==
  ASSUME IInv, NEW b \in Block, WriteInclusive(b)
  PROVE  IInv'
<1> USE TilesAssumption DEF IInv
<1>0. phase = "kernel" /\ Claimed(b) /\ pc[b] = "include"
  BY KernelRuns DEF Claimed, WriteInclusive
<1>1. /\ Goto(b, "announce")
      /\ UNCHANGED <<call, phase, counter, flag, aggregate, tile, look, seen, value, running, out>>
      /\ prefix' = [prefix EXCEPT ![b] = running[b]]
      /\ inclusive' = [inclusive EXCEPT ![tile[b]] = Apply(running[b], Aggregate(tile[b]))]
  BY DEF WriteInclusive, walk
<1>2. /\ CounterInv'
      /\ \A a \in Block : Claimed(a)' <=> Claimed(a)
      /\ \A a \in Block : a # b /\ Claimed(a) => tile[a] # tile[b]
      /\ tile[b] \in Tile /\ tile[b] < counter
  <2>1. "announce" \in PC \ {"queued", "claim"}
    BY DEF PC
  <2> QED
    BY <1>0, <1>1, <2>1, CounterKept
<1>3. running[b] = Product(call, 0, tile[b])
  BY <1>0 DEF WalkIsContiguous
<1>4. Apply(running[b], Aggregate(tile[b])) = Product(call, 0, tile[b] + 1)
  BY <1>2, <1>3, ApplyProduct DEF Aggregate, Tile
<1>5. tile[b] # 0 /\ flag[tile[b]] = "Aggregate"
  BY <1>0 DEF StageInv, Stage
<1>6. /\ pc'[b] = "announce" /\ \A a \in Block : a # b => pc'[a] = pc[a]
      /\ prefix'[b] = Product(call, 0, tile[b])
      /\ \A a \in Block : a # b => prefix'[a] = prefix[a]
      /\ inclusive'[tile[b]] = Product(call, 0, tile[b] + 1)
      /\ \A t \in Tile : t # tile[b] => inclusive'[t] = inclusive[t]
  BY <1>1, <1>2, <1>3, <1>4 DEF TypeOK, Goto
<1>7. TypeOK'
  <2>1. Product(call, 0, tile[b] + 1) \in Value
    BY <1>2, ValueTypes DEF TypeOK, Tile
  <2>2. inclusive' \in [Tile -> Value]
    BY <1>1, <1>4, <2>1 DEF TypeOK
  <2>3. prefix' \in [Block -> Value] /\ pc' \in [Block -> PC]
    BY <1>1 DEF TypeOK, Goto, PC
  <2> QED
    BY <1>1, <2>2, <2>3 DEF TypeOK
<1>8. FlagInv' /\ PrefixExact'
  BY <1>1 DEF FlagInv, PrefixExact
<1>9. PublishedPayloads'
  BY <1>1, <1>5, <1>6 DEF PublishedPayloads, Aggregate
<1>10. StageInv'
  <2> SUFFICES ASSUME NEW a \in Block PROVE Stage(a)'
    BY DEF StageInv
  <2>1. CASE a = b
    BY <1>1, <1>5, <1>6, <2>1 DEF Stage
  <2>2. CASE a # b
    <3>1. tile[a] \in Tile /\ 0 \in Tile
      BY DEF TypeOK, Tile
    <3> QED
      BY <1>0, <1>1, <1>2, <1>5, <1>6, <2>2, <3>1 DEF StageInv, Stage, Claimed, Aggregate
  <2> QED
    BY <2>1, <2>2
<1>11. LaneInv' /\ WalkIsContiguous'
  BY <1>1, <1>6 DEF LaneInv, Walking, WalkIsContiguous, Aggregate
<1>12. OutInv'
  BY <1>0, <1>1, <1>2, <1>6 DEF OutInv
<1> QED
  BY <1>2, <1>7, <1>8, <1>9, <1>10, <1>11, <1>12

LEMMA PublishInclusiveInv ==
  ASSUME IInv, NEW b \in Block, PublishInclusive(b)
  PROVE  IInv'
<1> USE TilesAssumption DEF IInv
<1>0. phase = "kernel" /\ Claimed(b) /\ pc[b] = "announce"
  BY KernelRuns DEF Claimed, PublishInclusive
<1>1. /\ Goto(b, "store")
      /\ UNCHANGED <<call, phase, counter, aggregate, inclusive, tile, prefix, out>>
      /\ UNCHANGED <<look, seen, value, running>>
      /\ flag' = [flag EXCEPT ![tile[b]] = "Inclusive"]
  BY DEF PublishInclusive, walk
<1>2. /\ CounterInv'
      /\ \A a \in Block : Claimed(a)' <=> Claimed(a)
      /\ \A a \in Block : a # b /\ Claimed(a) => tile[a] # tile[b]
      /\ tile[b] \in Tile /\ tile[b] < counter
  <2>1. "store" \in PC \ {"queued", "claim"}
    BY DEF PC
  <2> QED
    BY <1>0, <1>1, <2>1, CounterKept
<1>3. /\ tile[b] # 0 /\ flag[tile[b]] = "Aggregate"
      /\ inclusive[tile[b]] = Product(call, 0, tile[b] + 1)
      /\ prefix[b] = Product(call, 0, tile[b])
  BY <1>0 DEF StageInv, Stage
<1>4. /\ pc'[b] = "store" /\ \A a \in Block : a # b => pc'[a] = pc[a]
      /\ \A t \in Tile : flag'[t] = IF t = tile[b] THEN "Inclusive" ELSE flag[t]
  BY <1>1 DEF TypeOK, Goto
<1>5. TypeOK'
  <2>1. flag' \in [Tile -> Flag] /\ pc' \in [Block -> PC]
    BY <1>1 DEF TypeOK, Goto, PC, Flag
  <2> QED
    BY <1>1, <2>1 DEF TypeOK
<1>6. FlagInv' /\ PrefixExact'
  <2>1. 0 \in Tile
    BY DEF Tile
  <2> QED
    BY <1>0, <1>1, <1>2, <1>4, <2>1 DEF FlagInv, PrefixExact
<1>7. PublishedPayloads'
  BY <1>1, <1>3, <1>4 DEF PublishedPayloads, Aggregate
<1>8. StageInv'
  <2> SUFFICES ASSUME NEW a \in Block PROVE Stage(a)'
    BY DEF StageInv
  <2>1. CASE a = b
    BY <1>1, <1>2, <1>3, <1>4, <2>1 DEF Stage
  <2>2. CASE a # b
    <3>1. tile[a] \in Tile
      BY DEF TypeOK
    <3> QED
      BY <1>0, <1>1, <1>2, <1>4, <2>2, <3>1 DEF StageInv, Stage, Claimed, Aggregate
  <2> QED
    BY <2>1, <2>2
<1>9. LaneInv'
  <2> SUFFICES ASSUME NEW a \in Block, pc'[a] = "look" PROVE Walking(a)'
    BY DEF LaneInv
  <2>1. Walking(a) /\ look[a] \in Tile
    BY <1>4 DEF LaneInv, TypeOK
  <2>2. ASSUME NEW l \in Lane, seen[a][l] # "Invalid"
        PROVE  flag'[look[a] - l] \in {flag[look[a] - l], "Inclusive"}
    <3>1. look[a] - l \in Tile
      BY <2>1, <2>2, WindowAssumption DEF Walking, Tile, Lane
    <3> QED
      BY <1>4, <3>1
  <2> QED
    BY <1>1, <2>1, <2>2 DEF Walking, Aggregate
<1>10. WalkIsContiguous'
  BY <1>1, <1>4 DEF WalkIsContiguous
<1>11. OutInv'
  BY <1>0, <1>1, <1>2, <1>4 DEF OutInv
<1> QED
  BY <1>2, <1>5, <1>6, <1>7, <1>8, <1>9, <1>10, <1>11

LEMMA StoreInv ==
  ASSUME IInv, NEW b \in Block, Store(b)
  PROVE  IInv'
<1> USE TilesAssumption DEF IInv
<1>0. phase = "kernel" /\ Claimed(b) /\ pc[b] = "store"
  BY KernelRuns DEF Claimed, Store
<1>1. /\ Goto(b, "retired")
      /\ UNCHANGED <<call, phase, counter, flag, aggregate, inclusive, tile, prefix>>
      /\ UNCHANGED <<look, seen, value, running>>
      /\ out' = [out EXCEPT ![tile[b]] = prefix[b]]
  BY DEF Store, walk, status
<1>2. /\ CounterInv'
      /\ \A a \in Block : Claimed(a)' <=> Claimed(a)
      /\ \A a \in Block : a # b /\ Claimed(a) => tile[a] # tile[b]
      /\ tile[b] \in Tile /\ tile[b] < counter
  <2>1. "retired" \in PC \ {"queued", "claim"}
    BY DEF PC
  <2> QED
    BY <1>0, <1>1, <2>1, CounterKept
<1>3. flag[tile[b]] = "Inclusive" /\ prefix[b] = Product(call, 0, tile[b])
  BY <1>0 DEF StageInv, Stage
<1>4. prefix[b] # NoValue
  <2>1. call # -1
    BY CallsAssumption DEF TypeOK
  <2> QED
    BY <1>3, <2>1 DEF Product, NoValue, Identity
<1>5. /\ pc'[b] = "retired" /\ \A a \in Block : a # b => pc'[a] = pc[a]
      /\ \A t \in Tile : out'[t] = IF t = tile[b] THEN prefix[b] ELSE out[t]
  BY <1>1 DEF TypeOK, Goto
<1>6. TypeOK'
  <2>1. out' \in [Tile -> Value] /\ pc' \in [Block -> PC]
    BY <1>1 DEF TypeOK, Goto, PC
  <2> QED
    BY <1>1, <2>1 DEF TypeOK
<1>7. FlagInv' /\ PublishedPayloads'
  BY <1>1 DEF FlagInv, PublishedPayloads, Aggregate
<1>8. PrefixExact'
  BY <1>1, <1>3, <1>5 DEF PrefixExact
<1>9. StageInv'
  BY <1>0, <1>1, <1>3, <1>5 DEF StageInv, Stage, Aggregate
<1>10. LaneInv' /\ WalkIsContiguous'
  BY <1>1, <1>5 DEF LaneInv, Walking, WalkIsContiguous, Aggregate
<1>11. OutInv'
  <2>1. \A a \in Block : tile[a] \in Tile
    BY DEF TypeOK
  <2> QED
    BY <1>0, <1>1, <1>2, <1>4, <1>5, <2>1 DEF OutInv
<1> QED
  BY <1>2, <1>6, <1>7, <1>8, <1>9, <1>10, <1>11

-------------------------------------------------------------------------------
(* The invariant, and what follows from it.                                *)

LEMMA StutterInv == IInv /\ UNCHANGED vars => IInv'
<1> SUFFICES ASSUME IInv, UNCHANGED vars PROVE IInv'
  OBVIOUS
<1>1. /\ UNCHANGED <<call, phase, counter, flag, aggregate, inclusive, pc, tile>>
      /\ UNCHANGED <<look, seen, value, running, prefix, out>>
  BY DEF vars, status, walk
<1> QED
  BY <1>1 DEF IInv, TypeOK, CounterInv, ClaimedBlocks, Claimed, FlagInv, StageInv, Stage,
              LaneInv, Walking, OutInv, PublishedPayloads, WalkIsContiguous, PrefixExact,
              Aggregate

LEMMA NextInv == IInv /\ [Next]_vars => IInv'
<1> SUFFICES ASSUME IInv, [Next]_vars PROVE IInv'
  OBVIOUS
<1>1. CASE StreamStep
  BY <1>1, StreamInv
<1>2. ASSUME NEW b \in Block, Dispatch(b) PROVE IInv'
  BY <1>2, DispatchInv
<1>3. ASSUME NEW b \in Block, BlockStep(b) PROVE IInv'
  BY <1>3, ClaimInv, WriteAggregateInv, PublishAggregateInv, CombineWindowInv,
     WriteInclusiveInv, PublishInclusiveInv, StoreInv DEF BlockStep
<1>4. ASSUME NEW b \in Block, NEW l \in Lane, LaneStep(b, l) PROVE IInv'
  BY <1>4, AcquireFlagInv, ReadPayloadInv DEF LaneStep
<1>5. CASE Rest \/ UNCHANGED vars
  BY <1>5, StutterInv DEF Rest
<1> QED
  BY <1>1, <1>2, <1>3, <1>4, <1>5 DEF Next

THEOREM Invariance == Spec => []IInv
<1>1. Init => IInv
  BY InitInv
<1>2. IInv /\ [Next]_vars => IInv'
  BY NextInv
<1> QED
  BY <1>1, <1>2, PTL DEF Spec

\* Every variable keeps its type: in particular the counter never hands out a
\* tile past the end and the walk never looks below the first tile.
THEOREM TypeCorrect == Spec => []TypeOK
BY Invariance, PTL DEF IInv

\* No lane ever acquires a flag whose payload is not there.
THEOREM PublishedCorrect == Spec => []PublishedPayloads
BY Invariance, PTL DEF IInv

\* Whatever the window width, the walk combines the predecessors of a tile in
\* order and once each.
THEOREM WalkCorrect == Spec => []WalkIsContiguous
BY Invariance, PTL DEF IInv

\* Every tile is scanned with exactly its exclusive prefix.
THEOREM PrefixCorrect == Spec => []PrefixExact
BY Invariance, PTL DEF IInv

\* A published record is final while the kernel runs.
THEOREM PublishedFinal == Spec => PublishedIsFinal
<1> DEFINE Final == phase = "kernel" /\ phase' = "kernel" =>
                      \A t \in Tile :
                        /\ flag[t] # "Invalid" => flag'[t] \in {flag[t], "Inclusive"}
                        /\ flag[t] # "Invalid" => aggregate'[t] = aggregate[t]
                        /\ flag[t] = "Inclusive" => inclusive'[t] = inclusive[t]
<1>1. IInv /\ [Next]_vars => [Final]_vars
  <2> SUFFICES ASSUME IInv, Next, phase = "kernel", phase' = "kernel", NEW t \in Tile
               PROVE  /\ flag[t] # "Invalid" => flag'[t] \in {flag[t], "Inclusive"}
                      /\ flag[t] # "Invalid" => aggregate'[t] = aggregate[t]
                      /\ flag[t] = "Inclusive" => inclusive'[t] = inclusive[t]
    OBVIOUS
  <2>0. CASE UNCHANGED status
    BY <2>0 DEF status
  <2>1. CASE StreamStep
    BY <2>1 DEF StreamStep, Call, ClearStatus, ClearCounter, Complete
  <2>2. ASSUME NEW b \in Block, WriteAggregate(b) PROVE UNCHANGED flag /\ flag[tile[b]] = "Invalid"
    BY <2>2 DEF WriteAggregate, IInv, StageInv, Stage
  <2>3. ASSUME NEW b \in Block, WriteAggregate(b)
        PROVE  \A u \in Tile : u # tile[b] => aggregate'[u] = aggregate[u] /\ inclusive'[u] = inclusive[u]
    BY <2>3 DEF WriteAggregate, IInv, TypeOK
  <2>4. ASSUME NEW b \in Block, PublishAggregate(b)
        PROVE  /\ UNCHANGED <<aggregate, inclusive>>
               /\ \A u \in Tile : u # tile[b] => flag'[u] = flag[u]
               /\ flag[tile[b]] = "Invalid"
    BY <2>4 DEF PublishAggregate, IInv, TypeOK, StageInv, Stage
  <2>5. ASSUME NEW b \in Block, WriteInclusive(b)
        PROVE  /\ UNCHANGED <<flag, aggregate>>
               /\ \A u \in Tile : u # tile[b] => inclusive'[u] = inclusive[u]
               /\ flag[tile[b]] = "Aggregate"
    BY <2>5 DEF WriteInclusive, IInv, TypeOK, StageInv, Stage
  <2>6. ASSUME NEW b \in Block, PublishInclusive(b)
        PROVE  /\ UNCHANGED <<aggregate, inclusive>>
               /\ \A u \in Tile : flag'[u] \in {flag[u], "Inclusive"}
    BY <2>6 DEF PublishInclusive, IInv, TypeOK
  <2>7. ASSUME NEW b \in Block, Dispatch(b) \/ Claim(b) \/ CombineWindow(b) \/ Store(b)
        PROVE  UNCHANGED status
    BY <2>7 DEF Dispatch, Claim, CombineWindow, Store
  <2>8. ASSUME NEW b \in Block, NEW l \in Lane, LaneStep(b, l) PROVE UNCHANGED status
    BY <2>8 DEF LaneStep, AcquireFlag, ReadPayload
  <2>9. CASE Rest
    BY <2>9 DEF Rest, vars, status
  <2> QED
    BY <2>0, <2>1, <2>2, <2>3, <2>4, <2>5, <2>6, <2>7, <2>8, <2>9 DEF Next, BlockStep
<1>2. Spec => [][Final]_vars
  BY <1>1, Invariance, PTL DEF Spec
<1> QED
  BY <1>2 DEF PublishedIsFinal

\* The rung implements ScanSpec: every step of the stream or of a block is a
\* step of the promise, or leaves the caller's view alone.
THEOREM Implements == Spec => ImplementsScan
<1>1. Init => Promise!Init
  BY DEF Init, Promise!Init, Promise!NoValue, NoValue, Promise!Tile, Tile
<1>2. IInv /\ [Next]_vars => [Promise!Next]_(Promise!specVars)
  <2> SUFFICES ASSUME IInv, [Next]_vars PROVE [Promise!Next]_(Promise!specVars)
    OBVIOUS
  <2> DEFINE view == UNCHANGED <<call, phase, out>>
  <2>0. Promise!NoValue = NoValue /\ Promise!Tile = Tile
    BY DEF Promise!NoValue, NoValue, Promise!Tile, Tile
  <2>1. CASE view
    BY <2>1 DEF Promise!specVars
  <2>2. CASE Call
    BY <2>0, <2>2 DEF Call, Promise!Next, Promise!Begin
  <2>3. CASE ClearStatus \/ ClearCounter
    BY <2>3 DEF ClearStatus, ClearCounter, Promise!specVars
  <2>4. CASE Complete
    <3>1. phase = "kernel" /\ \A b \in Block : pc[b] = "retired"
      BY <2>4 DEF Complete
    <3>2. tile \in [Block -> Tile] /\ \A a, b \in Block : tile[a] = tile[b] => a = b
      BY <3>1 DEF IInv, CounterInv, TypeOK, Claimed
    <3>3. tile \in Surjection(Block, Tile)
      <4>1. tile \in Injection(Block, Tile)
        BY <3>2, Fun_IsInj
      <4>2. Tile = Block
        BY DEF Tile, Block
      <4> QED
        BY <4>1, <4>2, BlockCount, FS_Injection
    <3>4. ASSUME NEW t \in Tile PROVE out[t] # NoValue
      <4>1. PICK b \in Block : tile[b] = t
        BY <3>3, Fun_SurjectionProperties
      <4> QED
        BY <3>1, <4>1 DEF IInv, OutInv, Claimed
    <3>5. Promise!Finish
      BY <2>0, <2>4, <3>1, <3>4 DEF Complete, Promise!Finish
    <3> QED
      BY <3>5 DEF Promise!Next
  <2>5. ASSUME NEW b \in Block, Store(b) PROVE Promise!Next
    <3>1. phase = "kernel" /\ pc[b] = "store"
      BY <2>5, KernelRuns DEF Store
    <3>2. /\ tile[b] \in Tile /\ out[tile[b]] = NoValue
          /\ prefix[b] = Product(call, 0, tile[b])
      BY <3>1 DEF IInv, TypeOK, OutInv, StageInv, Stage, Claimed
    <3>3. Promise!Product(call, 0, tile[b]) = prefix[b]
      BY <3>2 DEF Promise!Product, Product, Promise!Identity, Identity
    <3>4. Promise!Deliver(tile[b])
      BY <2>0, <2>5, <3>1, <3>2, <3>3 DEF Store, Promise!Deliver
    <3> QED
      BY <2>0, <3>2, <3>4 DEF Promise!Next
  <2>6. ASSUME NEW b \in Block,
               Dispatch(b) \/ Claim(b) \/ WriteAggregate(b) \/ PublishAggregate(b)
               \/ CombineWindow(b) \/ WriteInclusive(b) \/ PublishInclusive(b)
        PROVE  view
    BY <2>6 DEF Dispatch, Claim, WriteAggregate, PublishAggregate, CombineWindow,
                WriteInclusive, PublishInclusive
  <2>7. ASSUME NEW b \in Block, NEW l \in Lane, LaneStep(b, l) PROVE view
    BY <2>7 DEF LaneStep, AcquireFlag, ReadPayload
  <2>8. CASE Rest \/ UNCHANGED vars
    BY <2>8 DEF Rest, vars, Promise!specVars
  <2> QED
    BY <2>1, <2>2, <2>3, <2>4, <2>5, <2>6, <2>7, <2>8 DEF Next, StreamStep, BlockStep
<1> QED
  BY <1>1, <1>2, Invariance, PTL DEF Spec, ImplementsScan, Promise!Spec
===============================================================================
