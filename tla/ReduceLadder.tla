----------------------------- MODULE ReduceLadder -----------------------------
(***************************************************************************)
(* The reduction rungs of src/scan on one ScanPlan: calls follow one       *)
(* another on one stream, each on a rung of its own choice, and all of     *)
(* them work in the plan's one partials buffer and one ticket counter.     *)
(*                                                                         *)
(*   atomic  r0, r2  an identity fill, then every block combines its total *)
(*                   into the output with an atomic                        *)
(*   tree    r1      a kernel that leaves a partial per block, and one     *)
(*   vec4    r3      block that combines them; the rungs differ in how     *)
(*   twopass r4b     many blocks the first kernel has                      *)
(*   det     r5                                                            *)
(*   kahan   r6      the same with two words to a partial                  *)
(*   single  r4      one kernel: the block that draws the last ticket      *)
(*                   combines the partials                                 *)
(*                                                                         *)
(* A plain store sits in the block's write buffer until the hardware makes *)
(* it visible, the block fences, or the kernel ends.  A partial is modelled*)
(* by who wrote it and when, so a combine that reads a slot of an earlier  *)
(* call, or of another block, has a different value.                       *)
(***************************************************************************)
EXTENDS Integers, FiniteSets

CONSTANTS
  Tiles,       \* blocks of 256 elements in the input, 0 for an empty one
  Persistent,  \* blocks the device holds at once (persistent_blocks)
  DetBlocks,   \* the cap on the deterministic grid (kDeterministicBlocks)
  Calls        \* calls made on the plan

ASSUME TilesAssumption == Tiles \in Nat
ASSUME PersistentAssumption == Persistent \in Nat \ {0}
ASSUME DetBlocksAssumption == DetBlocks \in Nat \ {0}
ASSUME CallsAssumption == Calls \in Nat \ {0}

Rung == {"atomic", "tree", "vec4", "twopass", "det", "kahan", "single"}

AtMost(m, n) == IF m < n THEN m ELSE n
AtLeast(m, n) == IF m < n THEN n ELSE m

\* The grid of the first kernel.
Grid(r) ==
  CASE r \in {"atomic", "tree"} -> Tiles
    [] r \in {"vec4", "kahan"} -> AtMost(Persistent, Tiles)
    [] r \in {"twopass", "single"} -> AtLeast(1, AtMost(Persistent, Tiles))
    [] r = "det" -> AtLeast(1, AtMost(DetBlocks, Tiles))

\* Slots of the partials buffer: the widest demand of any rung.
Capacity == IF Tiles = 0 THEN 0
            ELSE AtLeast(Tiles, AtLeast(2 * Persistent, AtMost(DetBlocks, Tiles)))
Slot == 0 .. Capacity - 1

Block == 0 .. AtLeast(1, AtLeast(Tiles, AtLeast(Persistent, DetBlocks))) - 1

\* A fault for one run: the compensations start on the last high word.
SlotOfOverlap(r, b, w) == IF w = "hi" THEN b ELSE Grid(r) - 1 + b

\* The words of a partial and the slot each goes to.
Words(r) == IF r = "kahan" THEN {"hi", "lo"} ELSE {"hi"}
SlotOf(r, b, w) == IF w = "hi" THEN b ELSE Grid(r) + b

\* A word of block b's total in call c; call 0 is whatever the memory held.
Word == [call : 0 .. Calls, block : Block, word : {"hi", "lo"}]
Total(c, b, w) == [call |-> c, block |-> b, word |-> w]
Leftover == Total(0, 0, "hi")

\* The reduction of call c on rung r: the total of every block, once.  An
\* empty input reduces to the identity.
Exact(c, r) ==
  IF Tiles = 0 THEN {} ELSE {Total(c, b, w) : b \in 0 .. Grid(r) - 1, w \in Words(r)}

-------------------------------------------------------------------------------
VARIABLES
  call,      \* the call the stream is executing, 0 before the first one
  rung,      \* the rung it runs on
  stage,     \* the command the stream is executing, "idle" between calls
  counter,   \* the plan's ticket counter
  partials,  \* what is visible in each slot
  pending,   \* the words of its partial each block has stored, not yet visible
  pc,        \* where each block of the running kernel is
  unread,    \* the slots a combining block has still to read
  acc,       \* what it has read so far
  out        \* what the output holds

vars == <<call, rung, stage, counter, partials, pending, pc, unread, acc, out>>

Stage == {"idle", "counter", "single", "partials", "combine", "fill", "atomic"}
PC == {"partial", "fence", "ticket", "combine", "retired"}

AllRetired == \A b \in Block : pc[b] = "retired" /\ pending[b] = {}
GridPC(g, l) == [b \in Block |-> IF b < g THEN l ELSE "retired"]

\* The slots a combine reads: `count` partials, of the words of the rung.
Read(r) == {SlotOf(r, b, w) : b \in 0 .. Grid(r) - 1, w \in Words(r)}

Init ==
  /\ call = 0 /\ rung \in Rung /\ stage = "idle"
  /\ counter = 0
  /\ partials = [s \in Slot |-> Leftover]
  /\ pending = [b \in Block |-> {}]
  /\ pc = [b \in Block |-> "retired"]
  /\ unread = [b \in Block |-> {}]
  /\ acc = [b \in Block |-> {}]
  /\ out = {Leftover}

-------------------------------------------------------------------------------
(* Faults: forms of the definitions below with a plausible bug in them,    *)
(* for the runs that must then fail.                                       *)

Goto(b, l) == pc' = [pc EXCEPT ![b] = l]
StreamIdle == UNCHANGED <<call, rung, stage>>

\* The counter is cleared by the plan's constructor only.
ClearCounterOnce ==
  /\ stage = "counter"
  /\ stage' = "single"
  /\ pc' = GridPC(Grid(rung), "partial")
  /\ UNCHANGED <<call, rung, counter, partials, pending, unread, acc, out>>

-------------------------------------------------------------------------------
(* The host's launcher and the stream.                                     *)

\* reduce_*_launch: an empty input is a fill, whatever the rung.
Call(r) ==
  /\ stage = "idle"
  /\ call < Calls
  /\ call' = call + 1
  /\ rung' = r
  /\ stage' = IF Tiles = 0 \/ r = "atomic" THEN "fill"
              ELSE IF r = "single" THEN "counter" ELSE "partials"
  /\ pc' = IF stage' = "partials" THEN GridPC(Grid(r), "partial") ELSE pc
  /\ out' = {Leftover}
  /\ UNCHANGED <<counter, partials, pending, unread, acc>>

\* The memset enqueued ahead of the single pass kernel.
ClearCounter ==
  /\ stage = "counter"
  /\ counter' = 0
  /\ stage' = "single"
  /\ pc' = GridPC(Grid(rung), "partial")
  /\ UNCHANGED <<call, rung, partials, pending, unread, acc, out>>

\* reduce_fill_identity; only the atomic rungs launch blocks behind it, and
\* none for an empty input.
Fill ==
  /\ stage = "fill"
  /\ out' = {}
  /\ stage' = "atomic"
  /\ pc' = GridPC(Tiles, "partial")
  /\ UNCHANGED <<call, rung, counter, partials, pending, unread, acc>>

\* The second launch waits for the first to end, which also makes every store
\* of the first visible.
Combine ==
  /\ stage = "partials"
  /\ AllRetired
  /\ stage' = "combine"
  /\ pc' = GridPC(1, "combine")
  /\ unread' = [unread EXCEPT ![0] = Read(rung)]
  /\ acc' = [acc EXCEPT ![0] = {}]
  /\ UNCHANGED <<call, rung, counter, partials, pending, out>>

End ==
  /\ stage \in {"single", "combine", "atomic"}
  /\ AllRetired
  /\ stage' = "idle"
  /\ UNCHANGED <<call, rung, counter, partials, pending, pc, unread, acc, out>>

-------------------------------------------------------------------------------
(* The blocks.                                                             *)

\* The block's loop over the input is over and thread 0 stores the partial.
StorePartial(b) ==
  /\ stage \in {"single", "partials"}
  /\ pc[b] = "partial"
  /\ pending' = [pending EXCEPT ![b] = Words(rung)]
  /\ Goto(b, IF stage = "single" THEN "fence" ELSE "retired")
  /\ StreamIdle /\ UNCHANGED <<counter, partials, unread, acc, out>>

\* The hardware makes one word visible.
Drain(b, w) ==
  /\ w \in pending[b]
  /\ partials' = [partials EXCEPT ![SlotOf(rung, b, w)] = Total(call, b, w)]
  /\ pending' = [pending EXCEPT ![b] = @ \ {w}]
  /\ StreamIdle /\ UNCHANGED <<counter, pc, unread, acc, out>>

Fence(b) ==
  /\ pc[b] = "fence"
  /\ pending[b] = {}
  /\ Goto(b, "ticket")
  /\ StreamIdle /\ UNCHANGED <<counter, partials, pending, unread, acc, out>>

DrawTicket(b) ==
  /\ pc[b] = "ticket"
  /\ counter' = counter + 1
  /\ IF counter = Grid(rung) - 1
       THEN Goto(b, "combine") /\ unread' = [unread EXCEPT ![b] = Read(rung)]
       ELSE Goto(b, "retired") /\ UNCHANGED unread
  /\ acc' = [acc EXCEPT ![b] = {}]
  /\ StreamIdle /\ UNCHANGED <<partials, pending, out>>

\* The threads of the combining block read the slots in no common order.
ReadPartial(b, s) ==
  /\ pc[b] = "combine"
  /\ s \in unread[b]
  /\ acc' = [acc EXCEPT ![b] = @ \cup {partials[s]}]
  /\ unread' = [unread EXCEPT ![b] = @ \ {s}]
  /\ StreamIdle /\ UNCHANGED <<counter, partials, pending, pc, out>>

StoreResult(b) ==
  /\ pc[b] = "combine"
  /\ unread[b] = {}
  /\ out' = acc[b]
  /\ Goto(b, "retired")
  /\ StreamIdle /\ UNCHANGED <<counter, partials, pending, unread, acc>>

AtomicCombine(b) ==
  /\ stage = "atomic"
  /\ pc[b] = "partial"
  /\ out' = out \cup {Total(call, b, "hi")}
  /\ Goto(b, "retired")
  /\ StreamIdle /\ UNCHANGED <<counter, partials, pending, unread, acc>>

BlockStep(b) ==
  \/ StorePartial(b) \/ Fence(b) \/ DrawTicket(b) \/ StoreResult(b) \/ AtomicCombine(b)
  \/ \E w \in {"hi", "lo"} : Drain(b, w)
  \/ \E s \in Slot : ReadPartial(b, s)

\* Nothing left to serve.
Rest == stage = "idle" /\ call = Calls /\ UNCHANGED vars

Next ==
  \/ \E r \in Rung : Call(r)
  \/ ClearCounter \/ Fill \/ Combine \/ End \/ Rest
  \/ \E b \in Block : BlockStep(b)

Spec == Init /\ [][Next]_vars

-------------------------------------------------------------------------------
(* Properties.                                                             *)

\* Every variable has its type; no store or read leaves the partials buffer,
\* which is sized once for all rungs.
TypeOK ==
  /\ call \in 0 .. Calls
  /\ rung \in Rung
  /\ stage \in Stage
  /\ counter \in Nat
  /\ partials \in [Slot -> Word]
  /\ pending \in [Block -> SUBSET {"hi", "lo"}]
  /\ pc \in [Block -> PC]
  /\ unread \in [Block -> SUBSET Slot]
  /\ acc \in [Block -> SUBSET Word]
  /\ out \in SUBSET Word

\* One block combines, and when it does every partial of this call is visible
\* where it reads it (the fence reduce_single_pass.cu justifies in the kernel,
\* the launch boundary in the two launch rungs).
CombinerSeesAll ==
  \A b \in Block : pc[b] = "combine" =>
    /\ \A a \in Block : pc[a] = "combine" => a = b
    /\ \A a \in 0 .. Grid(rung) - 1 : \A w \in Words(rung) :
         partials[SlotOf(rung, a, w)] = Total(call, a, w)

\* Two words that are both on their way to memory go to different slots, and
\* every slot a block stores to or reads is inside the buffer.
SlotsDisjoint ==
  stage \in {"single", "partials", "combine"} =>
    /\ Read(rung) \subseteq Slot
    /\ \A a, b \in 0 .. Grid(rung) - 1 : \A v, w \in Words(rung) :
         SlotOf(rung, a, v) = SlotOf(rung, b, w) => a = b /\ v = w

\* When the stream is done with a call the output is exactly the reduction of
\* that call's input.
ResultExact == stage = "idle" /\ call > 0 => out = Exact(call, rung)

\* Every rung keeps the promise made to its caller.
Promise == INSTANCE ReduceSpec
  WITH busy <- stage # "idle", done <- call > 0 /\ out = Exact(call, rung)
ImplementsReduce == Promise!Spec
===============================================================================
