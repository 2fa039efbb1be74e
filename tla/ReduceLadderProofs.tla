-------------------------- MODULE ReduceLadderProofs --------------------------
(***************************************************************************)
(* ReduceLadder for every input length, device and number of calls.        *)
(***************************************************************************)
EXTENDS ReduceLadder, FiniteSetTheorems, TLAPS

-------------------------------------------------------------------------------
(* The sizes.                                                              *)

\* The blocks of the first kernel.
Team == 0 .. Grid(rung) - 1

\* Every grid is a non empty part of Block once there is input, and every
\* word of every rung has a slot of its own.
LEMMA GridBounds ==
  ASSUME Tiles # 0, NEW r \in Rung
  PROVE  /\ Grid(r) \in Nat \ {0}
         /\ 0 .. Grid(r) - 1 \subseteq Block
         /\ 0 \in Block
BY TilesAssumption, PersistentAssumption, DetBlocksAssumption
   DEF Grid, Block, AtMost, AtLeast, Rung

LEMMA TilesBlocks == 0 .. Tiles - 1 \subseteq Block /\ 0 \in Block
BY TilesAssumption, PersistentAssumption, DetBlocksAssumption DEF Block, AtLeast

LEMMA SlotBounds ==
  ASSUME Tiles # 0, NEW r \in Rung, NEW b \in 0 .. Grid(r) - 1, NEW w \in Words(r)
  PROVE  SlotOf(r, b, w) \in Slot
<1>1. CASE r = "kahan"
  BY <1>1, TilesAssumption, PersistentAssumption, DetBlocksAssumption
     DEF Grid, Slot, SlotOf, Words, Capacity, AtMost, AtLeast
<1>2. CASE r # "kahan"
  <2>1. w = "hi" /\ SlotOf(r, b, w) = b
    BY <1>2 DEF Words, SlotOf
  <2> QED
    BY <1>2, <2>1, TilesAssumption, PersistentAssumption, DetBlocksAssumption
       DEF Grid, Slot, Capacity, AtMost, AtLeast, Rung
<1> QED
  BY <1>1, <1>2

LEMMA SlotInjective ==
  ASSUME Tiles # 0, NEW r \in Rung,
         NEW a \in 0 .. Grid(r) - 1, NEW v \in Words(r),
         NEW b \in 0 .. Grid(r) - 1, NEW w \in Words(r),
         SlotOf(r, a, v) = SlotOf(r, b, w)
  PROVE  a = b /\ v = w
BY GridBounds DEF SlotOf, Words

LEMMA ReadInSlots ==
  ASSUME Tiles # 0, NEW r \in Rung
  PROVE  Read(r) \subseteq Slot
BY SlotBounds DEF Read

-------------------------------------------------------------------------------
(* The inductive invariant.                                                *)

\* Which pcs and write buffers each command of the stream allows.
ShapeInv ==
  /\ call = 0 => stage = "idle"
  /\ stage \notin {"idle", "fill", "atomic"} => Tiles # 0
  /\ stage \in {"fill", "atomic"} /\ Tiles # 0 => rung = "atomic"
  /\ stage \in {"idle", "fill", "counter"} => \A b \in Block : pc[b] = "retired"
  /\ stage \notin {"single", "partials"} => \A b \in Block : pending[b] = {}
  /\ stage = "atomic" => \A b \in Block \ (0 .. Tiles - 1) : pc[b] = "retired"
  /\ stage \in {"single", "partials"} =>
       \A b \in Block \ Team : pc[b] = "retired" /\ pending[b] = {}
  /\ stage \in {"partials", "atomic"} => \A b \in Block : pc[b] \in {"partial", "retired"}
  /\ stage = "combine" => /\ pc[0] \in {"combine", "retired"}
                          /\ \A b \in Block \ {0} : pc[b] = "retired"
  /\ \A b \in Block : /\ pending[b] \subseteq Words(rung)
                      /\ pc[b] \in {"partial", "ticket", "combine"} => pending[b] = {}
                      /\ stage = "single" /\ pc[b] = "retired" => pending[b] = {}

\* The blocks that have drawn a ticket; the counter counts them.
Drawn == {b \in Team : pc[b] \in {"combine", "retired"}}
TicketInv ==
  stage = "single" =>
    /\ counter = Cardinality(Drawn)
    /\ \A b \in Block : pc[b] = "combine" => counter = Grid(rung)
    /\ \A a, b \in Block : pc[a] = "combine" /\ pc[b] = "combine" => a = b

\* What a block has stored is visible or on its way.
VisibleInv ==
  stage \in {"single", "partials", "combine"} =>
    \A a \in Team : \A w \in Words(rung) :
      (stage = "combine" \/ pc[a] # "partial") /\ w \notin pending[a]
        => partials[SlotOf(rung, a, w)] = Total(call, a, w)

\* What a combining block has read, and what is left to read.
AccInv ==
  \A b \in Block : pc[b] = "combine" =>
    /\ unread[b] \subseteq Read(rung)
    /\ acc[b] \subseteq Exact(call, rung)
    /\ \A a \in Team : \A w \in Words(rung) :
         SlotOf(rung, a, w) \notin unread[b] => Total(call, a, w) \in acc[b]

\* The output is untouched until the one step that writes it.
OutInv ==
  /\ stage \in {"counter", "partials", "fill"} => out = {Leftover}
  /\ stage = "single" =>
       IF counter = Grid(rung) /\ \A b \in Block : pc[b] # "combine"
         THEN out = Exact(call, rung) ELSE out = {Leftover}
  /\ stage = "combine" => out = IF pc[0] = "combine" THEN {Leftover} ELSE Exact(call, rung)
  /\ stage = "atomic" =>
       out = {Total(call, b, "hi") : b \in {a \in 0 .. Tiles - 1 : pc[a] = "retired"}}
  /\ stage = "idle" /\ call > 0 => out = Exact(call, rung)

IInv == TypeOK /\ ShapeInv /\ TicketInv /\ VisibleInv /\ AccInv /\ OutInv

-------------------------------------------------------------------------------
(* Every step preserves every part of it.                                  *)

\* The combining block sees every partial of its call.
LEMMA CombinerLemma == IInv => CombinerSeesAll
<1> SUFFICES ASSUME IInv, NEW b \in Block, pc[b] = "combine"
             PROVE  /\ \A a \in Block : pc[a] = "combine" => a = b
                    /\ \A a \in Team : \A w \in Words(rung) :
                         partials[SlotOf(rung, a, w)] = Total(call, a, w)
  BY DEF CombinerSeesAll, Team
<1>1. stage \in {"single", "combine"}
  BY DEF IInv, ShapeInv, TypeOK, Stage
<1>2. Tiles # 0
  BY <1>1 DEF IInv, ShapeInv
<1>3. CASE stage = "combine"
  <2>1. Team \subseteq Block
    BY <1>2, GridBounds DEF IInv, TypeOK, Team
  <2> QED
    BY <1>3, <2>1 DEF IInv, ShapeInv, VisibleInv
<1>4. CASE stage = "single"
  <2>1. counter = Grid(rung) /\ counter = Cardinality(Drawn)
    BY <1>4 DEF IInv, TicketInv
  <2>2. Grid(rung) \in Nat \ {0} /\ Team \subseteq Block
    BY <1>2, GridBounds DEF IInv, TypeOK, Team
  <2>3. IsFiniteSet(Team) /\ Cardinality(Team) = Grid(rung)
    BY <2>2, FS_Interval DEF Team
  <2>4. Drawn = Team
    BY <2>1, <2>3, FS_Subset DEF Drawn
  <2>5. ASSUME NEW a \in Team PROVE pc[a] # "partial" /\ pending[a] = {}
    BY <2>2, <2>4, <1>4 DEF Drawn, IInv, ShapeInv
  <2> QED
    BY <1>4, <2>5 DEF IInv, TicketInv, VisibleInv
<1> QED
  BY <1>1, <1>3, <1>4

LEMMA InitLemma == Init => IInv
<1> SUFFICES ASSUME Init PROVE IInv
  OBVIOUS
<1>1. Leftover \in Word
  BY CallsAssumption, TilesAssumption, PersistentAssumption, DetBlocksAssumption
     DEF Word, Leftover, Total, Block, AtLeast
<1>2. TypeOK
  BY <1>1, CallsAssumption DEF Init, TypeOK, Stage, PC
<1>3. ShapeInv
  BY DEF Init, ShapeInv
<1>4. TicketInv /\ VisibleInv /\ AccInv
  BY DEF Init, TicketInv, VisibleInv, AccInv
<1>5. OutInv
  BY DEF Init, OutInv
<1> QED
  BY <1>2, <1>3, <1>4, <1>5 DEF IInv

LEMMA TypeStep == IInv /\ [Next]_vars => TypeOK'
<1> SUFFICES ASSUME IInv, [Next]_vars PROVE TypeOK'
  OBVIOUS
<1>0. TypeOK /\ call \in Nat /\ Leftover \in Word
  BY CallsAssumption, TilesAssumption, PersistentAssumption, DetBlocksAssumption
     DEF IInv, TypeOK, Word, Leftover, Total, Block, AtLeast
<1>1. ASSUME NEW r \in Rung, Call(r) PROVE TypeOK'
  <2>1. stage' \in Stage /\ rung' \in Rung /\ call' \in 0 .. Calls
    BY <1>0, <1>1, CallsAssumption DEF Call, TypeOK, Stage
  <2>2. pc' \in [Block -> PC]
    BY <1>0, <1>1 DEF Call, TypeOK, GridPC, PC
  <2> QED
    BY <1>0, <1>1, <2>1, <2>2 DEF Call, TypeOK
<1>2. CASE ClearCounter
  BY <1>0, <1>2 DEF ClearCounter, TypeOK, GridPC, Stage, PC
<1>3. CASE Fill
  BY <1>0, <1>3 DEF Fill, TypeOK, GridPC, Stage, PC
<1>4. CASE Combine
  <2>1. Read(rung) \subseteq Slot
    BY <1>4, ReadInSlots DEF Combine, IInv, ShapeInv, TypeOK
  <2> QED
    BY <1>0, <1>4, <2>1 DEF Combine, TypeOK, GridPC, Stage, PC
<1>5. CASE End
  BY <1>0, <1>5 DEF End, TypeOK, Stage
<1>6. ASSUME NEW b \in Block, StorePartial(b) \/ Fence(b) PROVE TypeOK'
  BY <1>0, <1>6 DEF StorePartial, Fence, Goto, StreamIdle, TypeOK, PC, Words
<1>7. ASSUME NEW b \in Block, NEW w \in {"hi", "lo"}, Drain(b, w) PROVE TypeOK'
  <2>1. Total(call, b, w) \in Word
    BY <1>0 DEF Total, Word, TypeOK
  <2> QED
    BY <1>0, <1>7, <2>1 DEF Drain, StreamIdle, TypeOK
<1>8. ASSUME NEW b \in Block, DrawTicket(b) PROVE TypeOK'
  <2>1. Read(rung) \subseteq Slot
    BY <1>8, ReadInSlots DEF DrawTicket, IInv, ShapeInv, TypeOK, Stage
  <2> QED
    BY <1>0, <1>8, <2>1 DEF DrawTicket, Goto, StreamIdle, TypeOK, PC
<1>9. ASSUME NEW b \in Block, NEW s \in Slot, ReadPartial(b, s) PROVE TypeOK'
  BY <1>0, <1>9 DEF ReadPartial, StreamIdle, TypeOK
<1>10. ASSUME NEW b \in Block, StoreResult(b) PROVE TypeOK'
  BY <1>0, <1>10 DEF StoreResult, Goto, StreamIdle, TypeOK, PC
<1>11. ASSUME NEW b \in Block, AtomicCombine(b) PROVE TypeOK'
  BY <1>0, <1>11 DEF AtomicCombine, Goto, StreamIdle, TypeOK, PC, Total, Word
<1>12. CASE Rest \/ UNCHANGED vars
  BY <1>0, <1>12 DEF Rest, vars, TypeOK
<1> QED
  BY <1>1, <1>2, <1>3, <1>4, <1>5, <1>6, <1>7, <1>8, <1>9, <1>10, <1>11, <1>12
     DEF Next, BlockStep

LEMMA ShapeStep == IInv /\ [Next]_vars => ShapeInv'
<1> SUFFICES ASSUME IInv, [Next]_vars PROVE ShapeInv'
  OBVIOUS
<1>0. TypeOK /\ ShapeInv
  BY DEF IInv
<1>1. ASSUME NEW r \in Rung, Call(r) PROVE ShapeInv'
  <2>1. /\ call' # 0 /\ rung' = r /\ stage' \in {"fill", "counter", "partials"}
        /\ \A b \in Block : pending'[b] = {} /\ pc[b] = "retired"
        /\ stage' # "fill" => Tiles # 0
        /\ stage' = "fill" /\ Tiles # 0 => r = "atomic"
        /\ pc' = IF stage' = "partials" THEN GridPC(Grid(r), "partial") ELSE pc
    BY <1>0, <1>1 DEF Call, TypeOK, ShapeInv
  <2>2. stage' = "partials" => \A b \in Block : pc'[b] = IF b \in Team' THEN "partial" ELSE "retired"
    BY <2>1, GridBounds DEF GridPC, Team, Block
  <2> QED
    BY <2>1, <2>2 DEF ShapeInv
<1>2. CASE ClearCounter
  <2>1. /\ call' = call /\ rung' = rung /\ stage' = "single" /\ Tiles # 0 /\ call # 0
        /\ \A b \in Block : pending'[b] = {}
        /\ pc' = GridPC(Grid(rung), "partial")
    BY <1>0, <1>2 DEF ClearCounter, ShapeInv
  <2>2. \A b \in Block : pc'[b] = IF b \in Team' THEN "partial" ELSE "retired"
    BY <1>0, <2>1, GridBounds DEF GridPC, Team, Block, TypeOK
  <2> QED
    BY <2>1, <2>2 DEF ShapeInv
<1>3. CASE Fill
  <2>1. /\ call' = call /\ rung' = rung /\ call # 0 /\ stage' = "atomic"
        /\ Tiles # 0 => rung = "atomic"
        /\ \A b \in Block : pending'[b] = {}
        /\ pc' = GridPC(Tiles, "partial")
    BY <1>0, <1>3 DEF Fill, ShapeInv
  <2>2. \A b \in Block : pc'[b] = IF b \in 0 .. Tiles - 1 THEN "partial" ELSE "retired"
    BY <2>1, TilesAssumption DEF GridPC, Block
  <2> QED
    BY <2>1, <2>2 DEF ShapeInv
<1>4. CASE Combine
  BY <1>0, <1>4, GridBounds DEF Combine, TypeOK, ShapeInv, GridPC, Team, AllRetired, Block
<1>5. CASE End
  BY <1>0, <1>5 DEF End, TypeOK, ShapeInv, AllRetired
<1>6. ASSUME NEW b \in Block, StorePartial(b) \/ Fence(b) PROVE ShapeInv'
  BY <1>0, <1>6 DEF StorePartial, Fence, Goto, StreamIdle, TypeOK, ShapeInv, Team
<1>7. ASSUME NEW b \in Block, NEW w \in {"hi", "lo"}, Drain(b, w) PROVE ShapeInv'
  BY <1>0, <1>7 DEF Drain, StreamIdle, TypeOK, ShapeInv, Team
<1>8. ASSUME NEW b \in Block, DrawTicket(b) PROVE ShapeInv'
  BY <1>0, <1>8 DEF DrawTicket, Goto, StreamIdle, TypeOK, ShapeInv, Team
<1>9. ASSUME NEW b \in Block, NEW s \in Slot, ReadPartial(b, s) PROVE ShapeInv'
  BY <1>0, <1>9 DEF ReadPartial, StreamIdle, TypeOK, ShapeInv, Team
<1>10. ASSUME NEW b \in Block, StoreResult(b) PROVE ShapeInv'
  BY <1>0, <1>10 DEF StoreResult, Goto, StreamIdle, TypeOK, ShapeInv, Team
<1>11. ASSUME NEW b \in Block, AtomicCombine(b) PROVE ShapeInv'
  BY <1>0, <1>11 DEF AtomicCombine, Goto, StreamIdle, TypeOK, ShapeInv, Team
<1>12. CASE Rest \/ UNCHANGED vars
  BY <1>0, <1>12 DEF Rest, vars, ShapeInv, Team
<1> QED
  BY <1>1, <1>2, <1>3, <1>4, <1>5, <1>6, <1>7, <1>8, <1>9, <1>10, <1>11, <1>12
     DEF Next, BlockStep

\* A ticket is drawn by a block of the grid that has not drawn one yet.
LEMMA DrawLemma ==
  ASSUME IInv, NEW b \in Block, DrawTicket(b)
  PROVE  /\ stage = "single" /\ Tiles # 0 /\ b \in Team /\ b \notin Drawn
         /\ counter \in Nat /\ counter < Grid(rung)
         /\ Grid(rung) \in Nat
         /\ IsFiniteSet(Drawn) /\ counter = Cardinality(Drawn)
         /\ \A a \in Block : pc[a] # "combine"
<1>1. stage = "single" /\ pc[b] = "ticket"
  BY DEF DrawTicket, IInv, ShapeInv, TypeOK, Stage
<1>2. Tiles # 0 /\ b \in Team /\ b \notin Drawn
  BY <1>1 DEF IInv, ShapeInv, Drawn
<1>3. Grid(rung) \in Nat \ {0} /\ IsFiniteSet(Team) /\ Cardinality(Team) = Grid(rung)
  BY <1>2, GridBounds, FS_Interval DEF IInv, TypeOK, Team
<1>4. IsFiniteSet(Drawn) /\ Cardinality(Drawn) < Grid(rung)
  BY <1>2, <1>3, FS_Subset, FS_CardinalityType DEF Drawn
<1>5. counter = Cardinality(Drawn) /\ counter \in Nat
  BY <1>1, <1>4, FS_CardinalityType DEF IInv, TicketInv
<1> QED
  BY <1>1, <1>2, <1>3, <1>4, <1>5 DEF IInv, TicketInv

LEMMA TicketStep == IInv /\ [Next]_vars => TicketInv'
<1> SUFFICES ASSUME IInv, [Next]_vars PROVE TicketInv'
  OBVIOUS
<1>0. TypeOK /\ ShapeInv /\ TicketInv
  BY DEF IInv
<1>1. ASSUME NEW r \in Rung, Call(r) PROVE TicketInv'
  BY <1>1 DEF Call, TicketInv
<1>2. CASE ClearCounter
  <2>1. /\ counter' = 0 /\ rung' = rung /\ Tiles # 0
        /\ pc' = GridPC(Grid(rung), "partial")
    BY <1>0, <1>2 DEF ClearCounter, ShapeInv
  <2>2. Drawn' = {} /\ \A b \in Block : pc'[b] # "combine"
    BY <1>0, <2>1, GridBounds DEF Drawn, Team, GridPC, TypeOK
  <2> QED
    BY <2>1, <2>2, FS_EmptySet DEF TicketInv
<1>3. CASE Fill \/ Combine \/ End
  BY <1>3 DEF Fill, Combine, End, TicketInv
<1>4. ASSUME NEW b \in Block, StorePartial(b) \/ Fence(b) PROVE TicketInv'
  <2> SUFFICES ASSUME stage = "single" PROVE TicketInv'
    BY <1>4 DEF StorePartial, Fence, StreamIdle, TicketInv
  <2>1. Team \subseteq Block
    BY <1>0, GridBounds DEF ShapeInv, TypeOK, Team
  <2>2. pc[b] \in {"partial", "fence"} /\ pc' = [pc EXCEPT ![b] = pc'[b]]
        /\ pc'[b] \in {"fence", "ticket"}
    BY <1>0, <1>4 DEF StorePartial, Fence, Goto, TypeOK
  <2>3. UNCHANGED <<rung, counter, stage>>
    BY <1>4 DEF StorePartial, Fence, StreamIdle
  <2>4. /\ Drawn' = Drawn
        /\ \A a \in Block : pc'[a] = "combine" => pc[a] = "combine"
    BY <1>0, <2>1, <2>2, <2>3 DEF TypeOK, Drawn, Team
  <2> QED
    BY <1>0, <2>3, <2>4 DEF TicketInv
<1>5. ASSUME NEW b \in Block, NEW w \in {"hi", "lo"}, Drain(b, w) PROVE TicketInv'
  BY <1>0, <1>5 DEF Drain, StreamIdle, TicketInv, Drawn, Team
<1>6. ASSUME NEW b \in Block, DrawTicket(b) PROVE TicketInv'
  <2>1. /\ rung' = rung /\ counter' = counter + 1
        /\ pc' = [pc EXCEPT ![b] = IF counter = Grid(rung) - 1 THEN "combine" ELSE "retired"]
    BY <1>6 DEF DrawTicket, Goto, StreamIdle
  <2>2. Drawn' = Drawn \cup {b}
    <3>1. Team' = Team /\ Team \subseteq Block /\ b \in Team
      BY <1>0, <1>6, <2>1, DrawLemma, GridBounds DEF Team, TypeOK
    <3> QED
      BY <1>0, <2>1, <3>1 DEF Drawn, TypeOK
  <2>3. Cardinality(Drawn') = counter'
    BY <1>6, <2>1, <2>2, DrawLemma, FS_AddElement
  <2>4. \A a \in Block : pc'[a] = "combine" => a = b /\ counter' = Grid(rung)
    BY <1>0, <1>6, <2>1, DrawLemma DEF TypeOK
  <2> QED
    BY <2>1, <2>3, <2>4 DEF TicketInv
<1>7. ASSUME NEW b \in Block, NEW s \in Slot, ReadPartial(b, s) PROVE TicketInv'
  BY <1>0, <1>7 DEF ReadPartial, StreamIdle, TicketInv, Drawn, Team
<1>8. ASSUME NEW b \in Block, StoreResult(b) PROVE TicketInv'
  <2>1. /\ Drawn' = Drawn
        /\ \A a \in Block : pc'[a] = "combine" => pc[a] = "combine"
    BY <1>0, <1>8 DEF StoreResult, Goto, StreamIdle, TypeOK, Drawn, Team
  <2> QED
    BY <1>0, <1>8, <2>1 DEF StoreResult, StreamIdle, TicketInv
<1>9. ASSUME NEW b \in Block, AtomicCombine(b) PROVE TicketInv'
  BY <1>9 DEF AtomicCombine, StreamIdle, TicketInv
<1>10. CASE Rest \/ UNCHANGED vars
  BY <1>0, <1>10 DEF Rest, vars, TicketInv, Drawn, Team
<1> QED
  BY <1>1, <1>2, <1>3, <1>4, <1>5, <1>6, <1>7, <1>8, <1>9, <1>10 DEF Next, BlockStep

LEMMA VisibleStep == IInv /\ [Next]_vars => VisibleInv'
<1> SUFFICES ASSUME IInv, [Next]_vars PROVE VisibleInv'
  OBVIOUS
<1>0. TypeOK /\ ShapeInv /\ VisibleInv
  BY DEF IInv
<1>t. stage \in {"single", "partials", "combine"} => Tiles # 0 /\ Team \subseteq Block
  BY <1>0, GridBounds DEF ShapeInv, TypeOK, Team
<1>1. ASSUME NEW r \in Rung, Call(r) PROVE VisibleInv'
  <2>1. /\ rung' = r /\ stage' \in {"fill", "counter", "partials"}
        /\ stage' = "partials" => pc' = GridPC(Grid(r), "partial") /\ Tiles # 0
    BY <1>1 DEF Call
  <2>2. stage' = "partials" => \A a \in Team' : pc'[a] = "partial"
    BY <2>1, GridBounds DEF GridPC, Team
  <2> QED
    BY <2>1, <2>2 DEF VisibleInv
<1>2. CASE ClearCounter
  <2>1. rung' = rung /\ stage' = "single" /\ pc' = GridPC(Grid(rung), "partial") /\ Tiles # 0
    BY <1>0, <1>2 DEF ClearCounter, ShapeInv
  <2>2. \A a \in Team' : pc'[a] = "partial"
    BY <1>0, <2>1, GridBounds DEF GridPC, Team, TypeOK
  <2> QED
    BY <2>1, <2>2 DEF VisibleInv
<1>3. CASE Fill \/ End
  BY <1>3 DEF Fill, End, VisibleInv
<1>4. CASE Combine
  BY <1>0, <1>t, <1>4 DEF Combine, AllRetired, VisibleInv, Team
<1>5. ASSUME NEW b \in Block, StorePartial(b) PROVE VisibleInv'
  BY <1>0, <1>t, <1>5 DEF StorePartial, Goto, StreamIdle, VisibleInv, TypeOK, Team
<1>6. ASSUME NEW b \in Block, Fence(b) \/ DrawTicket(b) PROVE VisibleInv'
  <2>1. /\ UNCHANGED <<call, rung, stage, partials, pending>>
        /\ \A a \in Block : pc'[a] # "partial" => pc[a] # "partial"
    BY <1>0, <1>6 DEF Fence, DrawTicket, Goto, StreamIdle, TypeOK
  <2> QED
    BY <1>0, <1>t, <2>1 DEF VisibleInv, Team
<1>7. ASSUME NEW b \in Block, NEW w \in {"hi", "lo"}, Drain(b, w) PROVE VisibleInv'
  <2>1. /\ UNCHANGED <<call, rung, stage, pc>> /\ w \in pending[b]
        /\ partials' = [partials EXCEPT ![SlotOf(rung, b, w)] = Total(call, b, w)]
        /\ pending' = [pending EXCEPT ![b] = @ \ {w}]
    BY <1>7 DEF Drain, StreamIdle
  <2>2. stage \in {"single", "partials"} /\ b \in Team /\ w \in Words(rung) /\ Tiles # 0
    BY <1>0, <2>1 DEF ShapeInv
  <2>3. SlotOf(rung, b, w) \in Slot
    BY <1>0, <2>2, SlotBounds DEF TypeOK, Team
  <2>4. ASSUME NEW a \in Team, NEW v \in Words(rung),
               pc[a] # "partial", v \notin pending'[a]
        PROVE  partials'[SlotOf(rung, a, v)] = Total(call, a, v)
    <3>1. CASE a = b /\ v = w
      BY <1>0, <2>1, <2>3, <3>1 DEF TypeOK
    <3>2. CASE ~(a = b /\ v = w)
      <4>1. SlotOf(rung, a, v) # SlotOf(rung, b, w)
        BY <1>0, <2>2, <3>2, SlotInjective DEF TypeOK, Team
      <4>2. v \notin pending[a]
        BY <1>0, <1>t, <2>1, <2>2, <2>4, <3>2 DEF TypeOK
      <4>3. partials'[SlotOf(rung, a, v)] = partials[SlotOf(rung, a, v)]
        BY <1>0, <2>1, <2>2, <4>1, SlotBounds DEF TypeOK, Team
      <4> QED
        BY <1>0, <2>2, <2>4, <4>2, <4>3 DEF VisibleInv
    <3> QED
      BY <3>1, <3>2
  <2> QED
    BY <2>1, <2>2, <2>4 DEF VisibleInv, Team
<1>8. ASSUME NEW b \in Block, NEW s \in Slot, ReadPartial(b, s) PROVE VisibleInv'
  BY <1>0, <1>8 DEF ReadPartial, StreamIdle, VisibleInv, Team
<1>9. ASSUME NEW b \in Block, StoreResult(b) \/ AtomicCombine(b) PROVE VisibleInv'
  <2>1. /\ UNCHANGED <<call, rung, stage, partials, pending>>
        /\ stage # "atomic" => \A a \in Block : pc'[a] # "partial" => pc[a] # "partial"
    BY <1>0, <1>9 DEF StoreResult, AtomicCombine, Goto, StreamIdle, TypeOK
  <2> QED
    BY <1>0, <1>t, <2>1 DEF VisibleInv, Team
<1>10. CASE Rest \/ UNCHANGED vars
  BY <1>0, <1>10 DEF Rest, vars, VisibleInv, Team
<1> QED
  BY <1>1, <1>2, <1>3, <1>4, <1>5, <1>6, <1>7, <1>8, <1>9, <1>10 DEF Next, BlockStep

LEMMA AccStep == IInv /\ [Next]_vars => AccInv'
<1> SUFFICES ASSUME IInv, [Next]_vars PROVE AccInv'
  OBVIOUS
<1>0. TypeOK /\ ShapeInv /\ AccInv
  BY DEF IInv
<1>1. ASSUME NEW r \in Rung, Call(r) PROVE AccInv'
  <2>1. \A b \in Block : pc'[b] # "combine"
    BY <1>0, <1>1 DEF Call, GridPC, ShapeInv
  <2> QED
    BY <2>1 DEF AccInv
<1>2. CASE ClearCounter \/ Fill
  <2>1. \A b \in Block : pc'[b] # "combine"
    BY <1>0, <1>2 DEF ClearCounter, Fill, GridPC, ShapeInv
  <2> QED
    BY <2>1 DEF AccInv
<1>3. CASE Combine
  <2>1. /\ UNCHANGED <<call, rung>> /\ Tiles # 0
        /\ pc' = GridPC(1, "combine")
        /\ unread' = [unread EXCEPT ![0] = Read(rung)]
        /\ acc' = [acc EXCEPT ![0] = {}]
    BY <1>0, <1>3 DEF Combine, ShapeInv
  <2>2. 0 \in Block /\ \A b \in Block : pc'[b] = "combine" => b = 0
    BY <1>0, <2>1, GridBounds DEF GridPC, TypeOK, Block
  <2>3. acc'[0] = {} /\ unread'[0] = Read(rung)
    BY <1>0, <2>1, <2>2 DEF TypeOK
  <2> QED
    BY <2>1, <2>2, <2>3 DEF AccInv, Read, Team
<1>4. CASE End
  BY <1>0, <1>4 DEF End, AllRetired, AccInv
<1>5. ASSUME NEW b \in Block, StorePartial(b) \/ Fence(b) \/ StoreResult(b) \/ AtomicCombine(b)
      PROVE  AccInv'
  <2>1. /\ UNCHANGED <<call, rung, unread, acc>>
        /\ \A a \in Block : pc'[a] = "combine" => pc[a] = "combine"
    BY <1>0, <1>5 DEF StorePartial, Fence, StoreResult, AtomicCombine, Goto, StreamIdle, TypeOK
  <2> QED
    BY <1>0, <2>1 DEF AccInv, Team
<1>6. ASSUME NEW b \in Block, NEW w \in {"hi", "lo"}, Drain(b, w) PROVE AccInv'
  BY <1>0, <1>6 DEF Drain, StreamIdle, AccInv, Team
<1>7. ASSUME NEW b \in Block, DrawTicket(b) PROVE AccInv'
  <2>1. /\ UNCHANGED <<call, rung>>
        /\ acc' = [acc EXCEPT ![b] = {}]
        /\ \A a \in Block : a # b => pc'[a] = pc[a] /\ unread'[a] = unread[a]
        /\ pc'[b] = "combine" => unread'[b] = Read(rung)
    BY <1>0, <1>7 DEF DrawTicket, Goto, StreamIdle, TypeOK
  <2>2. acc'[b] = {} /\ \A a \in Block : a # b => acc'[a] = acc[a]
    BY <1>0, <2>1 DEF TypeOK
  <2> QED
    BY <1>0, <2>1, <2>2 DEF AccInv, Read, Team
<1>8. ASSUME NEW b \in Block, NEW s \in Slot, ReadPartial(b, s) PROVE AccInv'
  <2>1. /\ UNCHANGED <<call, rung, pc>> /\ pc[b] = "combine" /\ s \in unread[b]
        /\ acc' = [acc EXCEPT ![b] = @ \cup {partials[s]}]
        /\ unread' = [unread EXCEPT ![b] = @ \ {s}]
    BY <1>8 DEF ReadPartial, StreamIdle
  <2>2. stage \in {"single", "combine"} /\ Tiles # 0
    BY <1>0, <2>1 DEF ShapeInv, TypeOK, Stage
  <2>3. \A a \in Team : \A w \in Words(rung) : partials[SlotOf(rung, a, w)] = Total(call, a, w)
    BY <2>1, CombinerLemma DEF CombinerSeesAll, Team
  <2>4. unread[b] \subseteq Read(rung)
    BY <1>0, <2>1 DEF AccInv
  <2>5. PICK a \in Team, w \in Words(rung) : s = SlotOf(rung, a, w)
    BY <2>1, <2>4 DEF Read, Team
  <2>6. partials[s] = Total(call, a, w) /\ partials[s] \in Exact(call, rung)
    BY <2>2, <2>3, <2>5 DEF Exact, Team
  <2>7. acc'[b] = acc[b] \cup {Total(call, a, w)} /\ unread'[b] = unread[b] \ {s}
    BY <1>0, <2>1, <2>6 DEF TypeOK
  <2>8. ASSUME NEW c \in Team, NEW v \in Words(rung), SlotOf(rung, c, v) \notin unread'[b]
        PROVE  Total(call, c, v) \in acc'[b]
    <3>1. CASE SlotOf(rung, c, v) = s
      BY <1>0, <2>2, <2>5, <2>7, <3>1, SlotInjective DEF TypeOK, Team
    <3>2. CASE SlotOf(rung, c, v) # s
      BY <1>0, <2>1, <2>7, <2>8, <3>2 DEF AccInv
    <3> QED
      BY <3>1, <3>2
  <2>9. acc'[b] \subseteq Exact(call, rung)
    BY <1>0, <2>1, <2>6, <2>7 DEF AccInv
  <2>10. \A a1 \in Block : a1 # b => acc'[a1] = acc[a1] /\ unread'[a1] = unread[a1]
    BY <1>0, <2>1 DEF TypeOK
  <2> QED
    BY <1>0, <2>1, <2>8, <2>9, <2>10 DEF AccInv, Team
<1>9. CASE Rest \/ UNCHANGED vars
  BY <1>0, <1>9 DEF Rest, vars, AccInv, Team
<1> QED
  BY <1>1, <1>2, <1>3, <1>4, <1>5, <1>6, <1>7, <1>8, <1>9 DEF Next, BlockStep

LEMMA OutStep == IInv /\ [Next]_vars => OutInv'
<1> SUFFICES ASSUME IInv, [Next]_vars PROVE OutInv'
  OBVIOUS
<1>0. TypeOK /\ ShapeInv /\ OutInv
  BY DEF IInv
<1>1. ASSUME NEW r \in Rung, Call(r) PROVE OutInv'
  BY <1>1 DEF Call, OutInv
<1>2. CASE ClearCounter
  <2>1. /\ counter' = 0 /\ rung' = rung /\ stage' = "single" /\ out' = out /\ out = {Leftover}
        /\ Tiles # 0
    BY <1>0, <1>2 DEF ClearCounter, ShapeInv, OutInv
  <2>2. counter' # Grid(rung')
    BY <1>0, <2>1, GridBounds DEF TypeOK
  <2> QED
    BY <2>1, <2>2 DEF OutInv
<1>3. CASE Fill
  <2>1. /\ stage' = "atomic" /\ out' = {}
        /\ pc' = GridPC(Tiles, "partial")
    BY <1>3 DEF Fill
  <2>2. \A b \in 0 .. Tiles - 1 : pc'[b] = "partial"
    BY <2>1, TilesBlocks, TilesAssumption DEF GridPC
  <2> QED
    BY <2>1, <2>2 DEF OutInv
<1>4. CASE Combine
  <2>1. /\ stage' = "combine" /\ out' = {Leftover} /\ Tiles # 0
        /\ pc' = GridPC(1, "combine")
    BY <1>0, <1>4 DEF Combine, ShapeInv, OutInv
  <2>2. pc'[0] = "combine"
    BY <1>0, <2>1, GridBounds DEF GridPC, TypeOK
  <2> QED
    BY <2>1, <2>2 DEF OutInv
<1>5. CASE End
  <2>1. /\ UNCHANGED <<call, rung, out>> /\ stage' = "idle"
        /\ \A b \in Block : pc[b] = "retired"
        /\ stage \in {"single", "combine", "atomic"}
    BY <1>0, <1>5 DEF End, AllRetired, ShapeInv
  <2>2. stage = "single" => Grid(rung) \in Nat /\ Team \subseteq Block
    BY <1>0, GridBounds DEF ShapeInv, TypeOK, Team
  <2>3. CASE stage = "single"
    <3>1. Drawn = Team
      BY <2>1, <2>2, <2>3 DEF Drawn
    <3>2. counter = Grid(rung)
      BY <2>2, <2>3, <3>1, FS_Interval DEF Team, IInv, TicketInv
    <3> QED
      BY <1>0, <2>1, <2>3, <3>2 DEF OutInv
  <2>4. CASE stage = "combine"
    BY <1>0, <2>1, <2>4, TilesBlocks DEF OutInv
  <2>5. CASE stage = "atomic"
    <3>1. out = {Total(call, b, "hi") : b \in 0 .. Tiles - 1}
      BY <1>0, <2>1, <2>5, TilesBlocks DEF OutInv
    <3>2. out = Exact(call, rung)
      <4>1. CASE Tiles = 0
        BY <3>1, <4>1 DEF Exact
      <4>2. CASE Tiles # 0
        BY <1>0, <2>5, <3>1, <4>2 DEF Exact, Words, Grid, ShapeInv
      <4> QED
        BY <4>1, <4>2
    <3> QED
      BY <2>1, <3>2 DEF OutInv
  <2> QED
    BY <2>1, <2>3, <2>4, <2>5
<1>6. ASSUME NEW b \in Block, StorePartial(b) \/ Fence(b) PROVE OutInv'
  <2>1. /\ UNCHANGED <<call, rung, counter, stage, out>> /\ stage \in {"single", "partials"}
        /\ \A a \in Block : pc'[a] = "combine" <=> pc[a] = "combine"
    BY <1>0, <1>6 DEF StorePartial, Fence, Goto, StreamIdle, TypeOK, ShapeInv, Stage
  <2> QED
    BY <1>0, <2>1 DEF OutInv
<1>7. ASSUME NEW b \in Block, NEW w \in {"hi", "lo"}, Drain(b, w) PROVE OutInv'
  BY <1>0, <1>7 DEF Drain, StreamIdle, OutInv, Team
<1>8. ASSUME NEW b \in Block, DrawTicket(b) PROVE OutInv'
  <2>1. /\ UNCHANGED <<call, rung, stage, out>> /\ counter' = counter + 1
        /\ stage = "single" /\ counter \in Nat /\ counter < Grid(rung) /\ Grid(rung) \in Nat
    BY <1>8, DrawLemma DEF DrawTicket, StreamIdle
  <2>2. out = {Leftover}
    BY <1>0, <2>1 DEF OutInv
  <2>3. counter' = Grid(rung) => pc'[b] = "combine"
    BY <1>0, <1>8, <2>1 DEF DrawTicket, Goto, TypeOK
  <2> QED
    BY <2>1, <2>2, <2>3 DEF OutInv
<1>9. ASSUME NEW b \in Block, NEW s \in Slot, ReadPartial(b, s) PROVE OutInv'
  BY <1>0, <1>9 DEF ReadPartial, StreamIdle, OutInv, Team
<1>10. ASSUME NEW b \in Block, StoreResult(b) PROVE OutInv'
  <2>1. /\ UNCHANGED <<call, rung, counter, stage>> /\ pc[b] = "combine" /\ unread[b] = {}
        /\ out' = acc[b] /\ pc' = [pc EXCEPT ![b] = "retired"]
    BY <1>10 DEF StoreResult, Goto, StreamIdle
  <2>2. stage \in {"single", "combine"} /\ Tiles # 0
    BY <1>0, <2>1 DEF ShapeInv, TypeOK, Stage
  <2>3. acc[b] = Exact(call, rung)
    BY <2>1, <2>2 DEF IInv, AccInv, Exact, Team
  <2>4. \A a \in Block : pc'[a] # "combine"
    BY <1>0, <2>1, CombinerLemma DEF CombinerSeesAll, TypeOK
  <2>5. stage = "single" => counter = Grid(rung)
    BY <2>1 DEF IInv, TicketInv
  <2>6. 0 \in Block
    BY <1>0, <2>2, GridBounds DEF TypeOK
  <2> QED
    BY <2>1, <2>2, <2>3, <2>4, <2>5, <2>6 DEF OutInv
<1>11. ASSUME NEW b \in Block, AtomicCombine(b) PROVE OutInv'
  <2>1. /\ UNCHANGED <<call, rung, stage>> /\ stage = "atomic" /\ pc[b] = "partial"
        /\ out' = out \cup {Total(call, b, "hi")} /\ pc' = [pc EXCEPT ![b] = "retired"]
    BY <1>11 DEF AtomicCombine, Goto, StreamIdle
  <2>2. b \in 0 .. Tiles - 1 /\ 0 .. Tiles - 1 \subseteq Block
    BY <1>0, <2>1, TilesBlocks DEF ShapeInv
  <2>3. {a \in 0 .. Tiles - 1 : pc'[a] = "retired"} = {a \in 0 .. Tiles - 1 : pc[a] = "retired"} \cup {b}
    BY <1>0, <2>1, <2>2 DEF TypeOK
  <2>4. out = {Total(call, a, "hi") : a \in {a \in 0 .. Tiles - 1 : pc[a] = "retired"}}
    BY <1>0, <2>1 DEF OutInv
  <2>5. out' = {Total(call', a, "hi") : a \in {a \in 0 .. Tiles - 1 : pc'[a] = "retired"}}
    BY <2>1, <2>3, <2>4
  <2> QED
    BY <2>1, <2>5 DEF OutInv
<1>12. CASE Rest \/ UNCHANGED vars
  BY <1>0, <1>12 DEF Rest, vars, OutInv, Team
<1> QED
  BY <1>1, <1>2, <1>3, <1>4, <1>5, <1>6, <1>7, <1>8, <1>9, <1>10, <1>11, <1>12
     DEF Next, BlockStep

-------------------------------------------------------------------------------
(* The theorems.                                                           *)

THEOREM Invariance == Spec => []IInv
<1>1. IInv /\ [Next]_vars => IInv'
  BY TypeStep, ShapeStep, TicketStep, VisibleStep, AccStep, OutStep DEF IInv
<1> QED
  BY <1>1, InitLemma, PTL DEF Spec

\* No store or read leaves the plan's partials buffer.
THEOREM TypeCorrect == Spec => []TypeOK
BY Invariance, PTL DEF IInv

\* One block combines, and it sees every partial of its own call.
THEOREM CombinerCorrect == Spec => []CombinerSeesAll
BY Invariance, CombinerLemma, PTL

\* The partials buffer, sized once, has a slot of its own for every word.
THEOREM SlotsCorrect == Spec => []SlotsDisjoint
<1>1. IInv => SlotsDisjoint
  <2> SUFFICES ASSUME IInv, stage \in {"single", "partials", "combine"}
               PROVE  /\ Read(rung) \subseteq Slot
                      /\ \A a, b \in 0 .. Grid(rung) - 1 : \A v, w \in Words(rung) :
                           SlotOf(rung, a, v) = SlotOf(rung, b, w) => a = b /\ v = w
    BY DEF SlotsDisjoint
  <2>1. Tiles # 0 /\ rung \in Rung
    BY DEF IInv, ShapeInv, TypeOK
  <2> QED
    BY <2>1, ReadInSlots, SlotInjective
<1> QED
  BY <1>1, Invariance, PTL

\* When a call is over the output is exactly its reduction.
THEOREM ResultCorrect == Spec => []ResultExact
<1>1. IInv => ResultExact
  BY DEF IInv, OutInv, ResultExact
<1> QED
  BY <1>1, Invariance, PTL

\* No step but the last write of the output makes it the exact reduction, and
\* none unmakes it.
THEOREM Implements == Spec => ImplementsReduce
<1> DEFINE Done == call > 0 /\ out = Exact(call, rung)
<1>0. IInv /\ stage # "idle" /\ out = {Leftover} => ~Done
  <2> SUFFICES ASSUME IInv, stage # "idle", out = {Leftover}, Done PROVE FALSE
    OBVIOUS
  <2>1. Leftover \in Exact(call, rung)
    OBVIOUS
  <2>2. Leftover.call = call
    BY <2>1 DEF Exact, Total
  <2> QED
    BY <2>2 DEF Leftover, Total, IInv, ShapeInv
<1>1. Init => Promise!Init
  BY DEF Init, Promise!Init
<1>2. IInv /\ [Next]_vars => [Promise!Next]_(Promise!specVars)
  <2> SUFFICES ASSUME IInv, [Next]_vars PROVE [Promise!Next]_(Promise!specVars)
    OBVIOUS
  <2> DEFINE view == UNCHANGED <<call, rung, out>> /\ stage # "idle" /\ stage' # "idle"
  <2>0. TypeOK /\ call \in Nat
    BY CallsAssumption DEF IInv, TypeOK
  <2>1. CASE view
    BY <2>1 DEF Promise!specVars
  <2>2. ASSUME NEW r \in Rung, Call(r) PROVE Promise!Next
    <3>1. /\ stage = "idle" /\ call < Calls /\ call' = call + 1 /\ stage' # "idle"
          /\ out' = {Leftover} /\ rung' = r
      BY <2>2 DEF Call
    <3>2. ASSUME out' = Exact(call', rung') PROVE FALSE
      <4>1. Leftover \in Exact(call', rung')
        BY <3>1, <3>2
      <4>2. Leftover.call = call'
        BY <4>1 DEF Exact, Total
      <4> QED
        BY <2>0, <3>1, <4>2 DEF Leftover, Total
    <3> QED
      BY <3>1, <3>2 DEF Promise!Next, Promise!Begin
  <2>3. CASE ClearCounter \/ Combine
    BY <2>1, <2>3 DEF ClearCounter, Combine
  <2>4. CASE Fill
    <3>1. /\ UNCHANGED <<call, rung>> /\ stage = "fill" /\ stage' = "atomic" /\ ~Done
      BY <1>0, <2>4 DEF Fill, IInv, OutInv
    <3> QED
      BY <3>1 DEF Promise!specVars, Promise!Next, Promise!Reduce
  <2>5. CASE End
    <3>1. UNCHANGED <<call, rung, out>> /\ stage' = "idle" /\ stage # "idle"
      BY <2>5 DEF End
    <3>2. call > 0
      BY <2>0, <3>1 DEF IInv, ShapeInv
    <3>3. Done
      BY <2>0, <3>1, <3>2, OutStep DEF OutInv
    <3> QED
      BY <3>1, <3>3 DEF Promise!Next, Promise!End
  <2>6. ASSUME NEW b \in Block, StorePartial(b) \/ Fence(b) \/ DrawTicket(b) PROVE view
    BY <2>6 DEF StorePartial, Fence, DrawTicket, StreamIdle, IInv, ShapeInv
  <2>7. ASSUME NEW b \in Block, NEW w \in {"hi", "lo"}, Drain(b, w) PROVE view
    BY <2>7 DEF Drain, StreamIdle, IInv, ShapeInv
  <2>8. ASSUME NEW b \in Block, NEW s \in Slot, ReadPartial(b, s) PROVE view
    BY <2>8 DEF ReadPartial, StreamIdle, IInv, ShapeInv
  <2>9. ASSUME NEW b \in Block, StoreResult(b) PROVE Promise!Next
    <3>1. /\ UNCHANGED <<call, rung, stage>> /\ pc[b] = "combine" /\ unread[b] = {}
          /\ out' = acc[b]
      BY <2>9 DEF StoreResult, StreamIdle
    <3>2. stage \in {"single", "combine"} /\ call > 0 /\ Tiles # 0
      BY <2>0, <3>1 DEF IInv, ShapeInv, TypeOK, Stage
    <3>3. out = {Leftover}
      BY <3>1, <3>2 DEF IInv, OutInv, ShapeInv
    <3>4. acc[b] = Exact(call, rung)
      BY <3>1, <3>2 DEF IInv, AccInv, Exact, Team
    <3> QED
      BY <1>0, <3>1, <3>2, <3>3, <3>4 DEF Promise!Next, Promise!Reduce
  <2>10. ASSUME NEW b \in Block, AtomicCombine(b) PROVE [Promise!Next]_(Promise!specVars)
    <3>1. /\ UNCHANGED <<call, rung, stage>> /\ stage = "atomic" /\ pc[b] = "partial"
      BY <2>10 DEF AtomicCombine, StreamIdle
    <3>2. /\ call > 0 /\ b \in 0 .. Tiles - 1
          /\ out = {Total(call, a, "hi") : a \in {a \in 0 .. Tiles - 1 : pc[a] = "retired"}}
      BY <2>0, <3>1 DEF IInv, ShapeInv, OutInv
    <3>3. rung = "atomic" /\ Tiles # 0
      BY <3>1, <3>2, TilesAssumption DEF IInv, ShapeInv
    <3>4. Total(call, b, "hi") \in Exact(call, rung)
      BY <3>2, <3>3 DEF Exact, Grid, Words
    <3>5. Total(call, b, "hi") \notin out
      BY <3>1, <3>2 DEF Total
    <3>6. ~Done
      BY <3>4, <3>5
    <3> QED
      BY <3>1, <3>6 DEF Promise!specVars, Promise!Next, Promise!Reduce
  <2>11. CASE Rest \/ UNCHANGED vars
    BY <2>11 DEF Rest, vars, Promise!specVars
  <2> QED
    BY <2>1, <2>2, <2>3, <2>4, <2>5, <2>6, <2>7, <2>8, <2>9, <2>10, <2>11 DEF Next, BlockStep
<1> QED
  BY <1>1, <1>2, Invariance, PTL DEF Spec, ImplementsReduce, Promise!Spec
===============================================================================
