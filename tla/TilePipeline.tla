------------------------------ MODULE TilePipeline ------------------------------
(***************************************************************************)
(* How the warps of one CTA bring the K stages of a tile through shared    *)
(* memory, in the three loops the GEMM rungs have.  Each warp fills its    *)
(* own part of a buffer and every warp reads all the parts.                *)
(*                                                                         *)
(*  "ring"    tile_accumulate of src/gemm/detail/gemm_tile_mainloop.cuh,   *)
(*            which the tile family, split-K and stream-K run, and the     *)
(*            loop it came from in gemm_mma_opt.cu: a ring of buffers      *)
(*            filled with asynchronous copies, one barrier an iteration.   *)
(*            A persistent CTA goes on to the next tile in the same ring.  *)
(*  "double"  gemm_cp_async.cu: two buffers, asynchronous copies, a        *)
(*            barrier before and one after the multiplication.             *)
(*  "single"  gemm_tiled.cu, gemm_register.cu, wmma_gemm.cuh,              *)
(*            gemm_mma_ptx.cu and gemm_mma_ldmatrix.cu: one buffer filled  *)
(*            by plain stores, between the same two barriers.              *)
(*                                                                         *)
(* A copy lands at any time after it is issued; a warp can wait for its    *)
(* own copies only, in groups, and learns of those of the others at a      *)
(* barrier.                                                                *)
(***************************************************************************)
EXTENDS Integers, Sequences

CONSTANTS
  Warps,    \* warps of the CTA
  Stages,   \* kStages, the buffers of the ring
  Work,     \* num_stages of each tile a persistent CTA works through, a sequence
  Depths    \* K stages of the one tile a CTA of the other loops has

ASSUME WarpsAssumption == Warps \in Nat \ {0}
ASSUME StagesAssumption == Stages \in Nat \ {0, 1}
ASSUME WorkAssumption == Work \in Seq(Nat)
ASSUME DepthsAssumption == Depths \subseteq Nat \ {0}

Warp == 0 .. Warps - 1
Buffer == 0 .. Stages - 1

VARIABLES
  loop,      \* the loop the kernel has
  work,      \* the K stages of the tiles of this CTA
  pc,        \* where each warp is
  tile,      \* the tile it works on
  s,         \* its K stage; in the prologue, the stage it fills next
  readBuf,   \* read_buf
  writeBuf,  \* write_buf
  groups,    \* the groups of copies it committed and has not waited for
  shared,    \* the stage whose data each part of each buffer holds
  unread,    \* the parts of the read buffer it has still to load
  acc        \* what it has multiplied: the parts of stages of its tile

vars == <<loop, work, pc, tile, s, readBuf, writeBuf, groups, shared, unread, acc>>

Tile == 1 .. Len(work)
Kernel == UNCHANGED <<loop, work>>

Goto(w, l) == pc' = [pc EXCEPT ![w] = l]

\* The data of K stage i of tile t, what a buffer holds at first, and the
\* accumulators once anything but the data they wait for went into them.
Data(t, i) == <<t, i>>
Junk == <<0, 0>>
Spoilt == {<<-1, -1>>}

Init ==
  /\ \/ loop = "ring" /\ work = Work
     \/ loop \in {"double", "single"} /\ work \in {<<n>> : n \in Depths}
  /\ pc = [w \in Warp |-> IF Len(work) = 0 THEN "done"
                           ELSE IF loop = "single" THEN "fill" ELSE "prologue"]
  /\ tile = [w \in Warp |-> 1]
  /\ s = [w \in Warp |-> 0]
  /\ readBuf = [w \in Warp |-> 0]
  /\ writeBuf = [w \in Warp |-> 0]
  /\ groups = [w \in Warp |-> <<>>]
  /\ shared = [b \in Buffer |-> [w \in Warp |-> Junk]]
  /\ unread = [w \in Warp |-> {}]
  /\ acc = [w \in Warp |-> {}]

-------------------------------------------------------------------------------
(* Faults: forms of the definitions below with a plausible bug in them,    *)
(* for the runs that must then fail.                                       *)

\* The barrier between two tiles is left out.
TopDropped ==
  /\ \E w \in Warp : pc[w] = "top"
  /\ pc' = [w \in Warp |-> IF pc[w] = "top" THEN "prologue" ELSE pc[w]]
  /\ Kernel /\ UNCHANGED <<tile, s, readBuf, writeBuf, groups, shared, unread, acc>>

\* The wait leaves one group more in flight.
WaitPriorOneLess(w, n) ==
  LET waited == Len(groups[w]) - n - 1 IN
  /\ \A g \in 1 .. waited : groups[w][g].landed
  /\ groups' = [groups EXCEPT ![w] = IF waited > 0 THEN SubSeq(@, waited + 1, Len(@)) ELSE @]

\* stage: the copies of K stage i into buffer b and the commit; past the last
\* stage of the tile the group is empty, and so has landed.
Stage(w, b, i) ==
  groups' = [groups EXCEPT ![w] = Append(@,
    [buf |-> b, data |-> Data(tile[w], i), landed |-> i >= work[tile[w]]])]

\* __pipeline_wait_prior(n): all but the newest n groups have landed.
WaitPrior(w, n) ==
  LET waited == Len(groups[w]) - n IN
  /\ \A g \in 1 .. waited : groups[w][g].landed
  /\ groups' = [groups EXCEPT ![w] = IF waited > 0 THEN SubSeq(@, waited + 1, Len(@)) ELSE @]

\* has_next: the tile has a K stage after this one.
HasNext(w) == s[w] + 1 < work[tile[w]]

Next1(b) == IF b + 1 = Stages THEN 0 ELSE b + 1

-------------------------------------------------------------------------------
\* The barrier of the persistent loop between one tile and the next.  (The one
\* before the first tile has nothing to separate.)
Top ==
  /\ \A w \in Warp : pc[w] = "top"
  /\ pc' = [w \in Warp |-> "prologue"]
  /\ Kernel /\ UNCHANGED <<tile, s, readBuf, writeBuf, groups, shared, unread, acc>>

\* The prologue fills all the buffers but one.
Prologue(w) ==
  /\ pc[w] = "prologue" /\ loop = "ring"
  /\ Stage(w, s[w], s[w])
  /\ IF s[w] < Stages - 2
       THEN s' = [s EXCEPT ![w] = @ + 1] /\ UNCHANGED <<pc, readBuf, writeBuf>>
       ELSE /\ s' = [s EXCEPT ![w] = 0]
            /\ readBuf' = [readBuf EXCEPT ![w] = 0]
            /\ writeBuf' = [writeBuf EXCEPT ![w] = Stages - 1]
            /\ Goto(w, IF work[tile[w]] > 0 THEN "wait" ELSE "drain")
  /\ Kernel /\ UNCHANGED <<tile, shared, unread, acc>>

\* One of the copies a warp has issued lands.
Land(w) ==
  /\ \E g \in DOMAIN groups[w] :
       /\ ~groups[w][g].landed
       /\ groups' = [groups EXCEPT ![w][g].landed = TRUE]
       /\ shared' = [shared EXCEPT ![groups[w][g].buf][w] = groups[w][g].data]
  /\ Kernel /\ UNCHANGED <<pc, tile, s, readBuf, writeBuf, unread, acc>>

Wait(w) ==
  /\ pc[w] = "wait"
  /\ WaitPrior(w, IF loop = "ring" THEN Stages - 2 ELSE IF HasNext(w) THEN 1 ELSE 0)
  /\ Goto(w, "barrier")
  /\ Kernel /\ UNCHANGED <<tile, s, readBuf, writeBuf, shared, unread, acc>>

Barrier ==
  /\ \A w \in Warp : pc[w] = "barrier"
  /\ IF loop = "ring" THEN pc' = [w \in Warp |-> "stage"] /\ UNCHANGED unread
       ELSE pc' = [w \in Warp |-> "read"] /\ unread' = [w \in Warp |-> Warp]
  /\ Kernel /\ UNCHANGED <<tile, s, readBuf, writeBuf, groups, shared, acc>>

\* The buffer read in the last iteration is filled for one still to come.
StageNext(w) ==
  /\ pc[w] = "stage"
  /\ Stage(w, writeBuf[w], s[w] + Stages - 1)
  /\ unread' = [unread EXCEPT ![w] = Warp]
  /\ Goto(w, "read")
  /\ Kernel /\ UNCHANGED <<tile, s, readBuf, writeBuf, shared, acc>>

\* The loads of the fragments another warp, or this one, has staged, and the
\* multiplications with them.
Read(w, v) ==
  /\ pc[w] = "read"
  /\ v \in unread[w]
  /\ unread' = [unread EXCEPT ![w] = @ \ {v}]
  /\ acc' = [acc EXCEPT ![w] =
       IF @ # Spoilt /\ shared[readBuf[w]][v] = Data(tile[w], s[w])
         THEN @ \cup {<<s[w], v>>} ELSE Spoilt]
  /\ Kernel /\ UNCHANGED <<pc, tile, s, readBuf, writeBuf, groups, shared>>

Rotate(w) ==
  /\ pc[w] = "read" /\ loop = "ring"
  /\ unread[w] = {}
  /\ s' = [s EXCEPT ![w] = @ + 1]
  /\ readBuf' = [readBuf EXCEPT ![w] = Next1(@)]
  /\ writeBuf' = [writeBuf EXCEPT ![w] = Next1(@)]
  /\ Goto(w, IF s[w] + 1 < work[tile[w]] THEN "wait" ELSE "drain")
  /\ Kernel /\ UNCHANGED <<tile, groups, shared, unread, acc>>

-------------------------------------------------------------------------------
(* The loop of two buffers, and the loop of one.                           *)

\* The copies of the first stage are issued ahead of the loop.
PrologueDouble(w) ==
  /\ pc[w] = "prologue" /\ loop = "double"
  /\ Stage(w, 0, 0)
  /\ Goto(w, "issue")
  /\ Kernel /\ UNCHANGED <<tile, s, readBuf, writeBuf, shared, unread, acc>>

\* The next stage goes into the other buffer, if there is one.
IssueNext(w) ==
  /\ pc[w] = "issue"
  /\ IF HasNext(w) THEN Stage(w, (s[w] + 1) % 2, s[w] + 1) ELSE UNCHANGED groups
  /\ Goto(w, "wait")
  /\ Kernel /\ UNCHANGED <<tile, s, readBuf, writeBuf, shared, unread, acc>>

\* The plain stores of the one buffer.
Fill(w) ==
  /\ pc[w] = "fill"
  /\ shared' = [shared EXCEPT ![0][w] = Data(tile[w], s[w])]
  /\ Goto(w, "barrier")
  /\ Kernel /\ UNCHANGED <<tile, s, readBuf, writeBuf, groups, unread, acc>>

\* The barrier that keeps a buffer from being written while it is read.
ReadDone(w) ==
  /\ pc[w] = "read" /\ loop # "ring"
  /\ unread[w] = {}
  /\ Goto(w, "again")
  /\ Kernel /\ UNCHANGED <<tile, s, readBuf, writeBuf, groups, shared, unread, acc>>

Again ==
  /\ \A w \in Warp : pc[w] = "again"
  /\ s' = [w \in Warp |-> s[w] + 1]
  /\ readBuf' = [w \in Warp |-> IF loop = "double" THEN (s[w] + 1) % 2 ELSE 0]
  /\ pc' = [w \in Warp |-> IF ~HasNext(w) THEN "drain"
                            ELSE IF loop = "double" THEN "issue" ELSE "fill"]
  /\ Kernel /\ UNCHANGED <<tile, writeBuf, groups, shared, unread, acc>>

-------------------------------------------------------------------------------
\* Every copy of this warp has landed (the loops of one tile have none left by
\* then); the sum of the tile is written, and the accumulators start over.
Drain(w) ==
  /\ pc[w] = "drain"
  /\ WaitPrior(w, 0)
  /\ tile' = [tile EXCEPT ![w] = @ + 1]
  /\ s' = [s EXCEPT ![w] = 0]
  /\ acc' = [acc EXCEPT ![w] = {}]
  /\ Goto(w, IF tile[w] = Len(work) THEN "done" ELSE "top")
  /\ Kernel /\ UNCHANGED <<readBuf, writeBuf, shared, unread>>

-------------------------------------------------------------------------------
WarpStep(w) ==
  \/ Prologue(w) \/ Wait(w) \/ StageNext(w) \/ (\E v \in Warp : Read(w, v)) \/ Rotate(w) \/ Drain(w)
  \/ PrologueDouble(w) \/ IssueNext(w) \/ Fill(w) \/ ReadDone(w)

Done == (\A w \in Warp : pc[w] = "done") /\ UNCHANGED vars

Next == Top \/ Barrier \/ Again \/ Done \/ \E w \in Warp : WarpStep(w) \/ Land(w)

Spec == Init /\ [][Next]_vars

-------------------------------------------------------------------------------
(* Properties.                                                             *)

\* What a warp has multiplied is what it has come past: every part of every
\* earlier stage of its tile and those parts of this one it has loaded.
SumExact ==
  \A w \in Warp :
    acc[w] = CASE pc[w] \in {"issue", "fill", "wait", "barrier", "stage"} -> (0 .. s[w] - 1) \X Warp
               [] pc[w] = "read" -> ((0 .. s[w]) \X Warp) \ ({s[w]} \X unread[w])
               [] pc[w] = "again" -> (0 .. s[w]) \X Warp
               [] pc[w] = "drain" -> (0 .. work[tile[w]] - 1) \X Warp
               [] OTHER -> {}

\* A copy in flight, or a store about to be made, never aims at a buffer some
\* warp has still to load from.
NoCopyUnderRead ==
  \A w, v \in Warp :
    /\ ~(pc[w] = "fill" /\ pc[v] = "read")
    /\ \A g \in DOMAIN groups[w] :
         ~groups[w][g].landed /\ pc[v] = "read" /\ w \in unread[v] =>
           groups[w][g].buf # readBuf[v]
===============================================================================
