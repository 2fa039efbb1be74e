-------------------------------- MODULE StreamK --------------------------------
(***************************************************************************)
(* The stream-K rung of src/gemm/gemm_streamk.cu: gemm_stream_k on the     *)
(* host, streamk_kernel on the device, calls one after another on one      *)
(* stream.                                                                 *)
(*                                                                         *)
(* A CTA is made of Warps warps.  Each owns the same fragment of every     *)
(* tile, in the accumulators, in a partial plane and in C, and the warps   *)
(* only meet at the two barriers.  A plain store sits in the warp's write  *)
(* buffer until the hardware makes it visible or the warp fences.  A sum   *)
(* is the interval of K iterations it covers, counted through all the      *)
(* stream-K tiles of one call, so a slice that is missing, taken twice or  *)
(* left over from an earlier call makes a different value.                 *)
(***************************************************************************)
EXTENDS Integers, FiniteSets

CONSTANTS
  Shapes,     \* the numbers of tiles C may have
  Iters,      \* iters_per_tile
  Occ,        \* CTAs the occupancy query says the device holds
  Residency,  \* CTAs it does hold, which a profiler may make fewer
  Warps,      \* warps of a CTA
  Calls       \* calls made, one after another on one stream

\* One of the shapes is the largest.
ASSUME ShapesAssumption ==
  Shapes \subseteq Nat \ {0} /\ \E n \in Shapes : \A m \in Shapes : m <= n
ASSUME ItersAssumption == Iters \in Nat \ {0}
ASSUME OccAssumption == Occ \in Nat \ {0}
ASSUME ResidencyAssumption == Residency \in Nat \ {0}
ASSUME WarpsAssumption == Warps \in Nat \ {0}
ASSUME CallsAssumption == Calls \in Nat \ {0}

AtMost(m, n) == IF m < n THEN m ELSE n

-------------------------------------------------------------------------------
VARIABLES
  call,      \* the call being executed, 0 before the first one
  tiles,     \* the tiles of C, the same in every call
  phase,     \* the command of the call the stream has come to
  result,    \* what the call returns, if it got no further
  scratch,   \* whose the workspace is: "none", "caller" or "owned"
  flag,      \* flags[cta]
  plane,     \* what is visible of each CTA's plane, by warp
  pending,   \* has the warp a partial stored but not yet visible?
  pc,        \* where each warp of each CTA is
  iter,      \* its iteration
  peer,      \* the peer it waits for
  acc,       \* its accumulators
  c          \* its fragment of each tile of C, NoValue until written

stream == <<call, tiles, phase, result, scratch>>
vars == <<stream, flag, plane, pending, pc, iter, peer, acc, c>>

-------------------------------------------------------------------------------
(* plan_stream_k.                                                          *)

SkTiles == IF tiles % Occ = 0 THEN 0
           ELSE IF tiles > Occ THEN (tiles % Occ) + Occ ELSE tiles
SkIters == SkTiles * Iters
SkBlocks == AtMost(Occ, SkIters)
DpTiles == tiles - SkTiles

\* The CTAs of any shape; of those, the ones in the grid, and in its stream-K part.
Cta == 0 .. Occ + (CHOOSE n \in Shapes : \A m \in Shapes : m <= n) - 1
Grid == 0 .. SkBlocks + DpTiles - 1
SkCta == 0 .. SkBlocks - 1
Warp == 0 .. Warps - 1
Tile == 0 .. tiles - 1

\* A fault for a run: the remainder goes to nobody.
ShareBeginFloor(x) == x * (SkIters \div SkBlocks)

\* The share of stream-K CTA x is ShareBegin(x) .. ShareBegin(x + 1) - 1.
ShareBegin(x) == x * (SkIters \div SkBlocks) + AtMost(x, SkIters % SkBlocks)

\* The stream-K tile an iteration belongs to, and where that tile begins.
LocalTile(i) == i \div Iters
TileBegin(i) == LocalTile(i) * Iters

\* Where CTA x stops in the tile of iteration i.
StopIn(x, i) == AtMost(ShareBegin(x + 1), TileBegin(i) + Iters)

-------------------------------------------------------------------------------
Sum(k, lo, hi) == [call |-> k, lo |-> lo, hi |-> hi]
\* What is no sum of one call, and what a fragment holds before a write.
Garbage == Sum(0, 0, 0)
NoValue == Sum(-1, 0, 0)
Value == [call : -1 .. Calls, lo : 0 .. SkIters, hi : 0 .. SkIters]

\* tile_add_partial; the slices of a tile are added from its end backwards.
Add(sum, slice) ==
  IF sum # Garbage /\ slice.call = sum.call /\ slice.hi = sum.lo
    THEN Sum(sum.call, slice.lo, sum.hi)
    ELSE Garbage

\* tile_write_c: a beta folds in what C holds, so only the first write of a
\* call leaves the result.
Fold(old, new) == IF old = NoValue THEN new ELSE Garbage

\* All of K for tile t.  A data parallel tile goes through K in one piece,
\* which no other CTA takes part in.
Whole(k, t) ==
  IF t < DpTiles THEN Sum(k, 0, 0) ELSE Sum(k, (t - DpTiles) * Iters, (t - DpTiles + 1) * Iters)

-------------------------------------------------------------------------------
Phase == {"idle", "alloc", "flags", "launch", "kernel", "free"}
PC == {"queued", "top", "tile", "store", "fence", "sync", "raise", "wait", "add", "dp", "retired"}

Resident(x) == \E w \in Warp : pc[x][w] \notin {"queued", "retired"}
AllRetired == \A x \in Cta : \A w \in Warp : pc[x][w] = "retired"

NoC == [t \in Tile |-> [w \in Warp |-> NoValue]]

Init ==
  /\ tiles \in Shapes
  /\ call = 0 /\ phase = "idle" /\ result = "ok" /\ scratch = "none"
  /\ flag \in [SkCta -> {0, 1}]
  /\ plane = [x \in SkCta |-> [w \in Warp |-> Garbage]]
  /\ pending = [x \in SkCta |-> [w \in Warp |-> FALSE]]
  /\ pc = [x \in Cta |-> [w \in Warp |-> "retired"]]
  /\ iter = [x \in Cta |-> [w \in Warp |-> 0]]
  /\ peer = [x \in Cta |-> [w \in Warp |-> 0]]
  /\ acc = [x \in Cta |-> [w \in Warp |-> Garbage]]
  /\ c = NoC

Goto(x, w, l) == pc' = [pc EXCEPT ![x][w] = l]
KernelOnly == UNCHANGED stream

-------------------------------------------------------------------------------
(* Faults: forms of the definitions below with a plausible bug in them,    *)
(* for the runs that must then fail.                                       *)

\* A failed launch returns without giving the workspace back.
LaunchLeaks ==
  /\ phase = "launch"
  /\ \/ phase' = "kernel" /\ pc' = [x \in Cta |-> [w \in Warp |-> IF x \in Grid THEN "queued" ELSE "retired"]] /\ UNCHANGED result
     \/ phase' = "idle" /\ result' = "error" /\ UNCHANGED pc
  /\ UNCHANGED <<call, tiles, scratch, flag, plane, pending, iter, peer, acc, c>>

\* The flags are cleared when the workspace is allocated, not by every call.
ClearFlagsOnce ==
  /\ phase = "flags"
  /\ phase' = "launch"
  /\ flag' = IF scratch = "owned" THEN [x \in SkCta |-> 0] ELSE flag
  /\ UNCHANGED <<call, tiles, result, scratch, plane, pending, pc, iter, peer, acc, c>>

\* The hardware makes any queued CTA resident.
DispatchAny(x) ==
  /\ phase = "kernel"
  /\ \A w \in Warp : pc[x][w] = "queued"
  /\ Cardinality({y \in Cta : Resident(y)}) < Residency
  /\ pc' = [pc EXCEPT ![x] = [w \in Warp |-> IF x \in SkCta THEN "top" ELSE "dp"]]
  /\ iter' = [iter EXCEPT ![x] = [w \in Warp |-> IF x \in SkCta THEN ShareBegin(x) ELSE 0]]
  /\ KernelOnly /\ UNCHANGED <<flag, plane, pending, peer, acc, c>>

\* The barrier between the fences and the flag is missing: the first warp
\* raises the flag when its own part of the plane is out.
SyncMissing(x) ==
  /\ x \in SkCta
  /\ pc[x][0] = "sync" \/ \A w \in Warp : pc[x][w] = "sync"
  /\ pc' = [pc EXCEPT ![x] = [w \in Warp |->
       IF w = 0 THEN "raise" ELSE IF @[w] = "sync" THEN "retired" ELSE @[w]]]
  /\ KernelOnly /\ UNCHANGED <<flag, plane, pending, iter, peer, acc, c>>

-------------------------------------------------------------------------------
(* gemm_stream_k and the commands it enqueues.                             *)

\* The call with a null workspace, one that is large enough and one that is
\* too small.  A grid of whole waves needs none and is the plain family grid.
Call(workspace) ==
  /\ phase = "idle"
  /\ call < Calls
  /\ call' = call + 1
  /\ c' = NoC
  /\ scratch' = IF SkTiles # 0 /\ workspace = "enough" THEN "caller" ELSE "none"
  /\ result' = IF SkTiles # 0 /\ workspace = "small" THEN "error" ELSE "ok"
  /\ phase' = IF SkTiles = 0 THEN "launch"
              ELSE CASE workspace = "null" -> "alloc"
                     [] workspace = "enough" -> "flags"
                     [] workspace = "small" -> "free"
  /\ UNCHANGED <<tiles, flag, plane, pending, pc, iter, peer, acc>>

\* cudaMallocAsync; fresh memory holds anything, a raised flag included.
Allocate ==
  /\ phase = "alloc"
  /\ \/ /\ phase' = "flags" /\ scratch' = "owned"
        /\ flag' = [x \in SkCta |-> 1]
        /\ plane' = [x \in SkCta |-> [w \in Warp |-> Garbage]]
        /\ UNCHANGED result
     \/ phase' = "free" /\ result' = "error" /\ UNCHANGED <<scratch, flag, plane>>
  /\ UNCHANGED <<call, tiles, pending, pc, iter, peer, acc, c>>

\* The memset ahead of the kernel.
ClearFlags ==
  /\ phase = "flags"
  /\ \/ phase' = "launch" /\ flag' = [x \in SkCta |-> 0] /\ UNCHANGED result
     \/ phase' = "free" /\ result' = "error" /\ UNCHANGED flag
  /\ UNCHANGED <<call, tiles, scratch, plane, pending, pc, iter, peer, acc, c>>

\* kStreamK[tile_index]; prepare_once and the launch itself can throw.
Launch ==
  /\ phase = "launch"
  /\ \/ phase' = "kernel" /\ pc' = [x \in Cta |-> [w \in Warp |-> IF x \in Grid THEN "queued" ELSE "retired"]] /\ UNCHANGED result
     \/ phase' = "free" /\ result' = "error" /\ UNCHANGED pc
  /\ UNCHANGED <<call, tiles, scratch, flag, plane, pending, iter, peer, acc, c>>

KernelEnd ==
  /\ phase = "kernel"
  /\ AllRetired
  /\ phase' = "free"
  /\ UNCHANGED <<call, tiles, result, scratch, flag, plane, pending, pc, iter, peer, acc, c>>

\* cudaFreeAsync, behind the kernel on the stream, if the workspace is owned; where
\* no other failure is on its way out, its own is thrown.
Free ==
  /\ phase = "free"
  /\ phase' = "idle"
  /\ scratch' = "none"
  /\ \/ UNCHANGED result
     \/ scratch = "owned" /\ result' = "error"
  /\ UNCHANGED <<call, tiles, flag, plane, pending, pc, iter, peer, acc, c>>

-------------------------------------------------------------------------------
(* streamk_kernel.  CTAs become resident in increasing index order.        *)

Dispatch(x) ==
  /\ phase = "kernel"
  /\ \A y \in Grid : (\A w \in Warp : pc[y][w] = "queued") <=> y >= x
  /\ x \in Grid
  /\ Cardinality({y \in Cta : Resident(y)}) < Residency
  /\ pc' = [pc EXCEPT ![x] = [w \in Warp |-> IF x \in SkCta THEN "top" ELSE "dp"]]
  /\ iter' = [iter EXCEPT ![x] = [w \in Warp |-> IF x \in SkCta THEN ShareBegin(x) ELSE 0]]
  /\ KernelOnly /\ UNCHANGED <<flag, plane, pending, peer, acc, c>>

\* A data parallel CTA: one whole tile, straight into C.
WriteTile(x, w) ==
  /\ pc[x][w] = "dp"
  /\ LET t == x - SkBlocks IN c' = [c EXCEPT ![t][w] = Fold(@, Whole(call, t))]
  /\ Goto(x, w, "retired")
  /\ KernelOnly /\ UNCHANGED <<flag, plane, pending, iter, peer, acc>>

\* The barrier that protects the shared tile buffers from the next tile.
Barrier(x) ==
  /\ \A w \in Warp : pc[x][w] = "top"
  /\ pc' = [pc EXCEPT ![x] = [w \in Warp |-> "tile"]]
  /\ KernelOnly /\ UNCHANGED <<flag, plane, pending, iter, peer, acc, c>>

\* tile_accumulate over the part of the tile in the CTA's share.  A share that
\* stops before the end of the tile makes a peer, any other an owner.
Accumulate(x, w) ==
  /\ pc[x][w] = "tile"
  /\ LET i == iter[x][w]
         owner == StopIn(x, i) = TileBegin(i) + Iters IN
       /\ acc' = [acc EXCEPT ![x][w] = Sum(call, i, StopIn(x, i))]
       /\ Goto(x, w, IF owner THEN "wait" ELSE "store")
       /\ peer' = [peer EXCEPT ![x][w] = x - 1]
  /\ KernelOnly /\ UNCHANGED <<flag, plane, pending, iter, c>>

\* The peer: its part of the plane, the fence, the barrier, the flag.
StorePartial(x, w) ==
  /\ pc[x][w] = "store"
  /\ pending' = [pending EXCEPT ![x][w] = TRUE]
  /\ Goto(x, w, "fence")
  /\ KernelOnly /\ UNCHANGED <<flag, plane, iter, peer, acc, c>>

Drain(x, w) ==
  /\ x \in SkCta /\ pending[x][w]
  /\ plane' = [plane EXCEPT ![x][w] = acc[x][w]]
  /\ pending' = [pending EXCEPT ![x][w] = FALSE]
  /\ KernelOnly /\ UNCHANGED <<flag, pc, iter, peer, acc, c>>

Fence(x, w) ==
  /\ pc[x][w] = "fence"
  /\ ~pending[x][w]
  /\ Goto(x, w, "sync")
  /\ KernelOnly /\ UNCHANGED <<flag, plane, pending, iter, peer, acc, c>>

\* Past the barrier the share is used up and only thread 0 has work left.
Sync(x) ==
  /\ \A w \in Warp : pc[x][w] = "sync"
  /\ pc' = [pc EXCEPT ![x] = [w \in Warp |-> IF w = 0 THEN "raise" ELSE "retired"]]
  /\ KernelOnly /\ UNCHANGED <<flag, plane, pending, iter, peer, acc, c>>

Raise(x) ==
  /\ pc[x][0] = "raise"
  /\ flag' = [flag EXCEPT ![x] = 1]
  /\ Goto(x, 0, "retired")
  /\ KernelOnly /\ UNCHANGED <<plane, pending, iter, peer, acc, c>>

\* The owner: the peers below it whose share ends inside the tile, downwards.
Awaits(x, w) == peer[x][w] >= 0 /\ ShareBegin(peer[x][w] + 1) > TileBegin(iter[x][w])

SeePeer(x, w) ==
  /\ pc[x][w] = "wait"
  /\ Awaits(x, w)
  /\ flag[peer[x][w]] = 1
  /\ Goto(x, w, "add")
  /\ KernelOnly /\ UNCHANGED <<flag, plane, pending, iter, peer, acc, c>>

AddPeer(x, w) ==
  /\ pc[x][w] = "add"
  /\ acc' = [acc EXCEPT ![x][w] = Add(@, plane[peer[x][w]][w])]
  /\ peer' = [peer EXCEPT ![x][w] = @ - 1]
  /\ Goto(x, w, "wait")
  /\ KernelOnly /\ UNCHANGED <<flag, plane, pending, iter, c>>

WriteC(x, w) ==
  /\ pc[x][w] = "wait"
  /\ ~Awaits(x, w)
  /\ LET i == iter[x][w]
         next == TileBegin(i) + Iters IN
       /\ c' = [c EXCEPT ![DpTiles + LocalTile(i)][w] = Fold(@, acc[x][w])]
       /\ iter' = [iter EXCEPT ![x][w] = next]
       /\ Goto(x, w, IF next < ShareBegin(x + 1) THEN "top" ELSE "retired")
  /\ KernelOnly /\ UNCHANGED <<flag, plane, pending, peer, acc>>

-------------------------------------------------------------------------------
WarpStep(x, w) ==
  \/ WriteTile(x, w) \/ Accumulate(x, w) \/ StorePartial(x, w) \/ Fence(x, w)
  \/ SeePeer(x, w) \/ AddPeer(x, w) \/ WriteC(x, w)

CtaStep(x) == Barrier(x) \/ Sync(x) \/ Raise(x) \/ \E w \in Warp : WarpStep(x, w)

StreamStep == Allocate \/ ClearFlags \/ Launch \/ KernelEnd \/ Free

\* Nothing left to serve.
Rest == phase = "idle" /\ call = Calls /\ UNCHANGED vars

Next ==
  \/ \E workspace \in {"null", "enough", "small"} : Call(workspace)
  \/ StreamStep \/ Rest
  \/ \E x \in Cta : Dispatch(x) \/ CtaStep(x) \/ \E w \in Warp : Drain(x, w)

\* The stream executes what is enqueued on it, the next CTA becomes resident
\* while there is room, a resident warp is scheduled and its stores drain.
Fairness ==
  /\ WF_vars(StreamStep)
  /\ WF_vars(\E x \in Cta : Dispatch(x))
  /\ \A x \in Cta : WF_vars(Barrier(x) \/ Sync(x) \/ Raise(x))
  /\ \A x \in Cta : \A w \in Warp : WF_vars(WarpStep(x, w)) /\ WF_vars(Drain(x, w))

Spec == Init /\ [][Next]_vars /\ Fairness

-------------------------------------------------------------------------------
(* Properties.                                                             *)

\* Every variable has its type; a wait never goes below the first CTA and a
\* share never leaves the stream-K region.
TypeOK ==
  /\ call \in 0 .. Calls
  /\ tiles \in Shapes
  /\ phase \in Phase
  /\ result \in {"ok", "error"}
  /\ scratch \in {"none", "caller", "owned"}
  /\ flag \in [SkCta -> {0, 1}]
  /\ plane \in [SkCta -> [Warp -> Value]]
  /\ pending \in [SkCta -> [Warp -> BOOLEAN]]
  /\ pc \in [Cta -> [Warp -> PC]]
  /\ iter \in [Cta -> [Warp -> 0 .. SkIters]]
  /\ peer \in [Cta -> [Warp -> -1 .. SkBlocks]]
  /\ acc \in [Cta -> [Warp -> Value]]
  /\ c \in [Tile -> [Warp -> Value]]

\* A raised flag is never ahead of any warp's part of the plane it advertises
\* and never a leftover, and the plane holds the slice of the last tile the
\* CTA's share reaches: one plane per CTA is enough.
PublishedPlane ==
  phase = "kernel" =>
    \A x \in SkCta : flag[x] = 1 =>
      LET stop == ShareBegin(x + 1)
          tile == TileBegin(stop - 1) IN
        /\ stop < tile + Iters
        /\ \A w \in Warp : plane[x][w] =
             Sum(call, IF ShareBegin(x) < tile THEN tile ELSE ShareBegin(x), stop)

\* What an owner has summed up is the end of its tile down to the share of the
\* peer it turns to next, and it only writes once that is the whole tile.
OwnerIsContiguous ==
  \A x \in SkCta : \A w \in Warp : pc[x][w] \in {"wait", "add"} =>
    LET tile == TileBegin(iter[x][w])
        from == IF peer[x][w] = x - 1 THEN iter[x][w] ELSE ShareBegin(peer[x][w] + 1) IN
      acc[x][w] = Sum(call, IF from < tile THEN tile ELSE from, tile + Iters)

\* The kernel never runs on a workspace nobody holds, and a workspace the call
\* allocated is given back on every way out.
ScratchBalanced ==
  /\ phase = "kernel" /\ SkBlocks > 0 => scratch # "none"
  /\ phase = "idle" => scratch = "none"

\* Types hold, and so does what a call keeps book of: its workspace.
Consistent == TypeOK /\ ScratchBalanced

\* On any shape a call of gemm_stream_k writes every fragment of C once with
\* all of K; one that fails has left C alone or, in its last step, written it all.
Fragment == Tile \X Warp
Written == {f \in Fragment : c[f[1]][f[2]] = Whole(call, f[1])}
Promise == INSTANCE GemmSpec WITH Cuts <- {(0 .. n - 1) \X Warp : n \in Shapes},
  fragment <- Fragment, written <- Written, result <- IF phase = "idle" THEN result ELSE "busy"
ImplementsGemm == Promise!Spec

\* Every call ends, even where the device holds fewer CTAs than the occupancy
\* the grid was cut for: an owner only waits for CTAs dispatched before it.
EveryCallEnds == phase \in {"alloc", "flags", "launch"} ~> phase = "idle"
===============================================================================
