----------------------------- MODULE LookbackScan -----------------------------
(***************************************************************************)
(* Scan rung s4, the single pass decoupled look-back of                    *)
(* src/scan/scan_lookback.cu: scan_lookback_launch on the host and         *)
(* lookback_kernel on the device.                                          *)
(*                                                                         *)
(* A block is one CTA of the grid.  It is queued until the hardware makes  *)
(* it resident, at most Residency blocks are resident at once, and they    *)
(* are made resident in any order.  Inside a block only the first warp     *)
(* talks to other blocks, so a block has one pc; the lanes of that warp    *)
(* spin and read independently and meet at the ballot.  A payload and the  *)
(* flag that advertises it are separate words, written and read in         *)
(* separate steps.                                                         *)
(*                                                                         *)
(* Tile sums are products in the free monoid over the tiles of a call (see *)
(* ScanSpec), which is what the non commutative operator of the family     *)
(* needs: Apply(x, y) is defined where x ends on the tile y begins with.   *)
(***************************************************************************)
EXTENDS Integers, FiniteSets

CONSTANTS
  Tiles,      \* tiles of the input, and blocks of the grid
  Window,     \* lanes of the look-back warp (32 in the code)
  Residency,  \* blocks the device can hold at once
  Calls       \* calls made on the plan, one after another on one stream

ASSUME TilesAssumption == Tiles \in Nat \ {0}
ASSUME WindowAssumption == Window \in Nat \ {0}
ASSUME ResidencyAssumption == Residency \in Nat \ {0}
ASSUME CallsAssumption == Calls \in Nat \ {0}

Tile == 0 .. Tiles - 1
Block == 0 .. Tiles - 1
Lane == 0 .. Window - 1
Flag == {"Invalid", "Aggregate", "Inclusive"}

-------------------------------------------------------------------------------
Identity == [call |-> 0, lo |-> 0, hi |-> 0]
Product(c, lo, hi) == IF lo = hi THEN Identity ELSE [call |-> c, lo |-> lo, hi |-> hi]

\* Anything that is not a product of consecutive tiles of one call.
Garbage == [call |-> 0, lo |-> 0, hi |-> 1]
\* The output of a tile nobody has stored yet.
NoValue == [call |-> -1, lo |-> 0, hi |-> 0]

Value == [call : -1 .. Calls, lo : 0 .. Tiles, hi : 0 .. Tiles]

\* Op::apply(x, y): the operand on the left is the earlier one.
Apply(x, y) ==
  IF x = Identity THEN y
  ELSE IF y = Identity THEN x
  ELSE IF x.call = y.call /\ x.hi = y.lo
    THEN [call |-> x.call, lo |-> x.lo, hi |-> y.hi]
    ELSE Garbage

\* window_reduce over lanes 0 .. stop, lane stop the earliest: the product of
\* the lanes' values from the highest lane down.  The lanes past stop
\* contribute the identity.
WindowReduce(v, stop) ==
  IF \A l \in 1 .. stop : v[l].call = v[0].call /\ v[l].hi = v[l - 1].lo
    THEN [call |-> v[0].call, lo |-> v[stop].lo, hi |-> v[0].hi]
    ELSE Garbage

-------------------------------------------------------------------------------
VARIABLES
  call,       \* the call the stream is executing, 0 before the first one
  phase,      \* how far the stream is in the call's three commands
  counter,    \* the ticket counter the blocks draw their tile from
  flag,       \* status[t].flag
  aggregate,  \* status[t].aggregate
  inclusive,  \* status[t].inclusive
  pc,         \* where each block is
  tile,       \* s_tile of each block
  look,       \* the tile lane 0 of each block looks back at
  seen,       \* the flag each lane of each block acquired in this window
  value,      \* the payload each lane read after it, NoValue before that
  running,    \* the product of the windows combined so far
  prefix,     \* s_prefix of each block
  out         \* the prefix each tile's items were scanned with

status == <<flag, aggregate, inclusive>>
walk == <<look, seen, value, running>>
vars == <<call, phase, counter, status, pc, tile, walk, prefix, out>>

PC == {"queued", "claim", "aggregate", "publish", "look", "include",
       "announce", "store", "retired"}
Phase == {"idle", "status", "counter", "kernel"}

Resident == {b \in Block : pc[b] \notin {"queued", "retired"}}

NoWindow == [l \in Lane |-> "Invalid"]
NoValues == [l \in Lane |-> NoValue]

Init ==
  /\ call = 0 /\ phase = "idle"
  /\ counter \in {0, Tiles}
  /\ flag \in [Tile -> Flag]
  /\ aggregate = [t \in Tile |-> Garbage]
  /\ inclusive = [t \in Tile |-> Garbage]
  /\ pc = [b \in Block |-> "retired"]
  /\ tile = [b \in Block |-> 0]
  /\ look = [b \in Block |-> 0]
  /\ seen = [b \in Block |-> NoWindow]
  /\ value = [b \in Block |-> NoValues]
  /\ running = [b \in Block |-> Identity]
  /\ prefix = [b \in Block |-> Identity]
  /\ out = [t \in Tile |-> NoValue]

-------------------------------------------------------------------------------
(* Faults: forms of the definitions below with a plausible bug in them.    *)
(* Nothing refers to them; each stands in for its original in one run that *)
(* must then fail.                                                         *)

Goto(b, l) == pc' = [pc EXCEPT ![b] = l]
Aggregate(t) == Product(call, t, t + 1)
InWindow(b, l) == look[b] - l >= 0
InclusiveLanes(b) == {l \in Lane : InWindow(b, l) /\ seen[b][l] = "Inclusive"}
ValidLanes(b) == {l \in Lane : InWindow(b, l)}

\* The memset forgets the flags: they survive from the call before.
ClearStatusKeepsFlags ==
  /\ phase = "status"
  /\ phase' = "counter"
  /\ aggregate' = [t \in Tile |-> Garbage]
  /\ inclusive' = [t \in Tile |-> Garbage]
  /\ UNCHANGED <<call, counter, flag, pc, tile, walk, prefix, out>>

\* The tile index is the block index.
ClaimByBlockIndex(b) ==
  /\ pc[b] = "claim"
  /\ tile' = [tile EXCEPT ![b] = b]
  /\ counter' = counter + 1
  /\ Goto(b, "aggregate")
  /\ UNCHANGED <<call, phase, status, walk, prefix, out>>

\* The flag of a tile is raised before its inclusive payload is written.
WriteInclusiveAfterFlag(b) ==
  /\ pc[b] = "include"
  /\ prefix' = [prefix EXCEPT ![b] = running[b]]
  /\ flag' = [flag EXCEPT ![tile[b]] = "Inclusive"]
  /\ Goto(b, "announce")
  /\ UNCHANGED <<call, phase, counter, aggregate, inclusive, tile, walk, out>>

\* The inclusive prefix overwrites the aggregate a slow lane may still read.
WriteInclusiveInPlace(b) ==
  /\ pc[b] = "include"
  /\ prefix' = [prefix EXCEPT ![b] = running[b]]
  /\ inclusive' = [inclusive EXCEPT ![tile[b]] = Apply(running[b], Aggregate(tile[b]))]
  /\ aggregate' = [aggregate EXCEPT ![tile[b]] = Apply(running[b], Aggregate(tile[b]))]
  /\ Goto(b, "announce")
  /\ UNCHANGED <<call, phase, counter, flag, tile, walk, out>>

-------------------------------------------------------------------------------
(* The stream: two memsets and the kernel, one after another.              *)

Call ==
  /\ phase = "idle"
  /\ call < Calls
  /\ call' = call + 1
  /\ phase' = "status"
  /\ out' = [t \in Tile |-> NoValue]
  /\ UNCHANGED <<counter, status, pc, tile, walk, prefix>>

\* All bytes zero: an Invalid flag, and payloads that mean nothing.
ClearStatus ==
  /\ phase = "status"
  /\ phase' = "counter"
  /\ flag' = [t \in Tile |-> "Invalid"]
  /\ aggregate' = [t \in Tile |-> Garbage]
  /\ inclusive' = [t \in Tile |-> Garbage]
  /\ UNCHANGED <<call, counter, pc, tile, walk, prefix, out>>

ClearCounter ==
  /\ phase = "counter"
  /\ phase' = "kernel"
  /\ counter' = 0
  /\ pc' = [b \in Block |-> "queued"]
  /\ UNCHANGED <<call, status, tile, walk, prefix, out>>

Complete ==
  /\ phase = "kernel"
  /\ \A b \in Block : pc[b] = "retired"
  /\ phase' = "idle"
  /\ UNCHANGED <<call, counter, status, pc, tile, walk, prefix, out>>

-------------------------------------------------------------------------------
(* The blocks.                                                             *)

Dispatch(b) ==
  /\ phase = "kernel"
  /\ pc[b] = "queued"
  /\ Cardinality(Resident) < Residency
  /\ Goto(b, "claim")
  /\ UNCHANGED <<call, phase, counter, status, tile, walk, prefix, out>>

\* The tile index comes from the counter, never from the block index.
Claim(b) ==
  /\ pc[b] = "claim"
  /\ tile' = [tile EXCEPT ![b] = counter]
  /\ counter' = counter + 1
  /\ Goto(b, "aggregate")
  /\ UNCHANGED <<call, phase, status, walk, prefix, out>>

\* The block scan is done; lane 0 writes the payload it can publish.  Tile 0
\* knows its inclusive prefix without looking at anybody.
WriteAggregate(b) ==
  /\ pc[b] = "aggregate"
  /\ LET t == tile[b] IN
       IF t = 0
         THEN /\ inclusive' = [inclusive EXCEPT ![0] = Aggregate(0)]
              /\ UNCHANGED aggregate
         ELSE /\ aggregate' = [aggregate EXCEPT ![t] = Aggregate(t)]
              /\ UNCHANGED inclusive
  /\ Goto(b, "publish")
  /\ UNCHANGED <<call, phase, counter, flag, tile, walk, prefix, out>>

\* The release store on the flag, and the start of the walk.
PublishAggregate(b) ==
  /\ pc[b] = "publish"
  /\ LET t == tile[b] IN
       IF t = 0
         THEN /\ flag' = [flag EXCEPT ![0] = "Inclusive"]
              /\ prefix' = [prefix EXCEPT ![b] = Identity]
              /\ Goto(b, "store")
              /\ UNCHANGED walk
         ELSE /\ flag' = [flag EXCEPT ![t] = "Aggregate"]
              /\ running' = [running EXCEPT ![b] = Identity]
              /\ look' = [look EXCEPT ![b] = t - 1]
              /\ seen' = [seen EXCEPT ![b] = NoWindow]
              /\ value' = [value EXCEPT ![b] = NoValues]
              /\ Goto(b, "look")
              /\ UNCHANGED prefix
  /\ UNCHANGED <<call, phase, counter, aggregate, inclusive, tile, out>>

-------------------------------------------------------------------------------
(* The walk.  Lane l looks at tile look - l, if there is one.              *)

\* The spin ends on the first flag that is not Invalid.
AcquireFlag(b, l) ==
  /\ pc[b] = "look"
  /\ InWindow(b, l)
  /\ seen[b][l] = "Invalid"
  /\ flag[look[b] - l] # "Invalid"
  /\ seen' = [seen EXCEPT ![b][l] = flag[look[b] - l]]
  /\ UNCHANGED <<call, phase, counter, status, pc, tile, look, value, running, prefix, out>>

ReadPayload(b, l) ==
  /\ pc[b] = "look"
  /\ seen[b][l] # "Invalid"
  /\ value[b][l] = NoValue
  /\ value' = [value EXCEPT ![b][l] =
       IF seen[b][l] = "Inclusive" THEN inclusive[look[b] - l] ELSE aggregate[look[b] - l]]
  /\ UNCHANGED <<call, phase, counter, status, pc, tile, look, seen, running, prefix, out>>

\* The nearest predecessor that knows its inclusive prefix, or the last lane.
IsStop(b, s) ==
  IF InclusiveLanes(b) # {}
    THEN s \in InclusiveLanes(b) /\ \A l \in InclusiveLanes(b) : s <= l
    ELSE s \in ValidLanes(b) /\ \A l \in ValidLanes(b) : l <= s

\* The ballots, the ordered combine of the window, and where to go from here.
\* The branch on a negative look is the one the code calls unreachable.
CombineWindow(b) ==
  /\ pc[b] = "look"
  /\ \A l \in ValidLanes(b) : value[b][l] # NoValue
  /\ \E s \in Lane :
       /\ IsStop(b, s)
       /\ running' = [running EXCEPT ![b] = Apply(WindowReduce(value[b], s), @)]
  /\ IF InclusiveLanes(b) # {}
       THEN Goto(b, "include") /\ UNCHANGED look
       ELSE /\ look' = [look EXCEPT ![b] = @ - Window]
            /\ Goto(b, IF look[b] - Window < 0 THEN "include" ELSE "look")
  /\ seen' = [seen EXCEPT ![b] = NoWindow]
  /\ value' = [value EXCEPT ![b] = NoValues]
  /\ UNCHANGED <<call, phase, counter, status, tile, prefix, out>>

\* Lane 0 leaves the walk: s_prefix, then the inclusive payload ...
WriteInclusive(b) ==
  /\ pc[b] = "include"
  /\ prefix' = [prefix EXCEPT ![b] = running[b]]
  /\ inclusive' = [inclusive EXCEPT ![tile[b]] = Apply(running[b], Aggregate(tile[b]))]
  /\ Goto(b, "announce")
  /\ UNCHANGED <<call, phase, counter, flag, aggregate, tile, walk, out>>

\* ... then the release store that advertises it.
PublishInclusive(b) ==
  /\ pc[b] = "announce"
  /\ flag' = [flag EXCEPT ![tile[b]] = "Inclusive"]
  /\ Goto(b, "store")
  /\ UNCHANGED <<call, phase, counter, aggregate, inclusive, tile, walk, prefix, out>>

\* The barrier, the serial scan from the prefix, and the store of the items.
Store(b) ==
  /\ pc[b] = "store"
  /\ out' = [out EXCEPT ![tile[b]] = prefix[b]]
  /\ Goto(b, "retired")
  /\ UNCHANGED <<call, phase, counter, status, tile, walk, prefix>>

-------------------------------------------------------------------------------
LaneStep(b, l) == AcquireFlag(b, l) \/ ReadPayload(b, l)

BlockStep(b) ==
  \/ Claim(b) \/ WriteAggregate(b) \/ PublishAggregate(b)
  \/ CombineWindow(b) \/ WriteInclusive(b) \/ PublishInclusive(b) \/ Store(b)

StreamStep == Call \/ ClearStatus \/ ClearCounter \/ Complete

\* Nothing left to serve.
Rest == phase = "idle" /\ call = Calls /\ UNCHANGED vars

Next ==
  \/ StreamStep \/ Rest
  \/ \E b \in Block : Dispatch(b) \/ BlockStep(b) \/ \E l \in Lane : LaneStep(b, l)

\* The stream executes what is enqueued on it, a resident warp is scheduled,
\* and some queued block is made resident while there is room.
Fairness ==
  /\ WF_vars(ClearStatus \/ ClearCounter \/ Complete)
  /\ WF_vars(\E b \in Block : Dispatch(b))
  /\ \A b \in Block : WF_vars(BlockStep(b))
  /\ \A b \in Block : \A l \in Lane : WF_vars(LaneStep(b, l))

Spec == Init /\ [][Next]_vars /\ Fairness

-------------------------------------------------------------------------------
(* Properties.                                                             *)

\* Every variable has its type; look never goes below the first tile.
TypeOK ==
  /\ call \in 0 .. Calls
  /\ phase \in Phase
  /\ counter \in 0 .. Tiles
  /\ flag \in [Tile -> Flag]
  /\ aggregate \in [Tile -> Value]
  /\ inclusive \in [Tile -> Value]
  /\ pc \in [Block -> PC]
  /\ tile \in [Block -> Tile]
  /\ look \in [Block -> Tile]
  /\ seen \in [Block -> [Lane -> Flag]]
  /\ value \in [Block -> [Lane -> Value]]
  /\ running \in [Block -> Value]
  /\ prefix \in [Block -> Value]
  /\ out \in [Tile -> Value]

\* A flag a predecessor can see is never ahead of the payload it advertises,
\* and never a leftover of an earlier call (the second and third of the
\* constraints scan_lookback.cu opens with).  A tile that has moved on to
\* Inclusive keeps its aggregate, for the lanes that acquired the flag before.
PublishedPayloads ==
  phase = "kernel" =>
    \A t \in Tile :
      /\ flag[t] # "Invalid" /\ t # 0 => aggregate[t] = Aggregate(t)
      /\ flag[t] = "Inclusive" => inclusive[t] = Product(call, 0, t + 1)

\* At every window boundary a walking block has combined, in order and once
\* each, the tiles between the one it looks at next and its own; a block that
\* left the walk has combined all its predecessors.
WalkIsContiguous ==
  \A b \in Block :
    /\ pc[b] = "look" => running[b] = Product(call, look[b] + 1, tile[b])
    /\ pc[b] = "include" => running[b] = Product(call, 0, tile[b])

\* Every tile stored was scanned with exactly its exclusive prefix.
PrefixExact ==
  \A t \in Tile : out[t] # NoValue => out[t] = Product(call, 0, t)

\* While the kernel runs a published record only grows: the flag moves
\* forward, and a payload it advertises is never written again.
PublishedIsFinal ==
  [][phase = "kernel" /\ phase' = "kernel" =>
       \A t \in Tile :
         /\ flag[t] # "Invalid" => flag'[t] \in {flag[t], "Inclusive"}
         /\ flag[t] # "Invalid" => aggregate'[t] = aggregate[t]
         /\ flag[t] = "Inclusive" => inclusive'[t] = inclusive[t]]_vars

\* The rung keeps the promise made to its caller: call after call, every tile
\* is delivered its exclusive prefix once, and all are before the call ends.
Promise == INSTANCE ScanSpec WITH busy <- phase # "idle"
ImplementsScan == Promise!Spec

\* Every call ends, however few blocks the device can hold and in whatever
\* order it makes them resident: no block spins for ever on one that has not
\* started (the first constraint scan_lookback.cu opens with).
EveryCallCompletes == phase = "status" ~> phase = "idle"
===============================================================================
