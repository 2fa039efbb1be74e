--------------------------- MODULE TilePipelineProofs ---------------------------
(***************************************************************************)
(* TilePipeline for every number of warps, every depth of the ring, every  *)
(* sequence of tiles and every number of K stages.                         *)
(***************************************************************************)
EXTENDS TilePipeline, SequenceTheorems, TLAPS

-------------------------------------------------------------------------------
(* The inductive invariant.                                                *)

Places ==
  CASE loop = "ring" -> {"prologue", "wait", "barrier", "stage", "read", "drain", "top", "done"}
    [] loop = "double" -> {"prologue", "issue", "wait", "barrier", "read", "again", "drain", "done"}
    [] OTHER -> {"fill", "barrier", "read", "again", "drain", "done"}
Group == [buf : Int, data : Int \X Int, landed : BOOLEAN]

TypeInv ==
  /\ loop \in {"ring", "double", "single"} /\ work \in Seq(Nat)
  /\ loop # "ring" => Len(work) = 1 /\ work[1] > 0
  /\ pc \in [Warp -> Places]
  /\ tile \in [Warp -> Nat \ {0}] /\ s \in [Warp -> Nat]
  /\ readBuf \in [Warp -> Buffer] /\ writeBuf \in [Warp -> Buffer]
  /\ groups \in [Warp -> Seq(Group)]
  /\ shared \in [Buffer -> [Warp -> Int \X Int]]
  /\ unread \in [Warp -> SUBSET Warp]
  /\ acc \in [Warp -> SUBSET (Int \X Int)]

\* How long the ring of the loop is, the buffer after b in it, and the one k
\* buffers before.
RingLen == IF loop = "ring" THEN Stages ELSE 2
After(b) == IF b + 1 = RingLen THEN 0 ELSE b + 1
Before(b, k) == IF k <= b THEN b - k ELSE b - k + RingLen

\* The stages of its tile that a warp has issued, the buffer the next of them
\* goes to, and how many groups of copies may be in flight.
Issued(w) ==
  IF pc[w] \in {"top", "done"} \/ loop = "single" THEN 0
  ELSE IF loop = "ring"
    THEN IF pc[w] = "prologue" THEN s[w]
         ELSE IF pc[w] = "read" THEN s[w] + Stages ELSE s[w] + Stages - 1
    ELSE IF pc[w] = "prologue" THEN 0
         ELSE IF pc[w] = "issue" THEN s[w] + 1
         ELSE IF pc[w] = "drain" THEN s[w]
         ELSE IF HasNext(w) THEN s[w] + 2 ELSE s[w] + 1
NextBuf(w) ==
  IF loop = "ring"
    THEN IF pc[w] \in {"top", "done"} THEN 0
         ELSE IF pc[w] = "prologue" THEN s[w]
         ELSE IF pc[w] = "read" THEN readBuf[w] ELSE writeBuf[w]
    ELSE Issued(w) % 2
Ahead(w) ==
  IF pc[w] \in {"top", "done"} \/ loop = "single" THEN 0
  ELSE IF loop = "ring"
    THEN IF pc[w] = "prologue" THEN s[w]
         ELSE IF pc[w] \in {"barrier", "stage"} THEN Stages - 2 ELSE Stages - 1
    ELSE IF pc[w] \in {"prologue", "drain"} THEN 0
         ELSE IF pc[w] = "issue" THEN 1
         ELSE IF pc[w] = "wait" THEN 2
         ELSE IF HasNext(w) THEN 1 ELSE 0

\* With i stages issued and b the next buffer: the groups in flight are the
\* newest, each aimed at the buffer of its stage, and the other stages that the
\* ring still has room for are in theirs.
Newest(w, k) == groups[w][Len(groups[w]) + 1 - k]
Pipe(w, i, b) ==
  /\ \A k \in 1 .. Len(groups[w]) :
       Newest(w, k).buf = Before(b, k) /\ Newest(w, k).data = Data(tile[w], i - k)
  /\ \A k \in 1 .. RingLen :
       k <= i /\ i - k < work[tile[w]] /\ (k <= Len(groups[w]) => Newest(w, k).landed)
       => shared[Before(b, k)][w] = Data(tile[w], i - k)

\* Where a warp is in its tile and in its ring.
Local(w) ==
  /\ pc[w] # "done" => tile[w] <= Len(work)
  /\ pc[w] = "done" => tile[w] <= Len(work) + 1
  /\ loop = "ring" /\ pc[w] = "prologue" => s[w] <= Stages - 2
  /\ (loop = "double" /\ pc[w] = "prologue") \/ pc[w] = "top" => s[w] = 0
  /\ pc[w] \in {"issue", "fill", "wait", "barrier", "stage", "read", "again"} => s[w] < work[tile[w]]
  /\ pc[w] = "drain" => s[w] = work[tile[w]]
  /\ loop = "ring" /\ pc[w] \in {"wait", "barrier", "stage", "read", "drain"} =>
       readBuf[w] = After(writeBuf[w])
  /\ loop = "double" /\ pc[w] \notin {"drain", "done"} => readBuf[w] = s[w] % 2
  /\ loop = "single" => readBuf[w] = 0

\* What a warp has put where others may still read it: the last stage of the
\* tile it has left, and the plain stores.
Left(w) ==
  /\ loop = "ring" /\ pc[w] \in {"top", "done"} /\ tile[w] > 1 /\ work[tile[w] - 1] > 0 =>
       shared[writeBuf[w]][w] = Data(tile[w] - 1, work[tile[w] - 1] - 1)
  /\ loop = "single" /\ pc[w] \in {"barrier", "read", "again"} =>
       shared[0][w] = Data(tile[w], s[w])

\* SumExact, of one warp.
Sum(w) ==
  acc[w] = CASE pc[w] \in {"issue", "fill", "wait", "barrier", "stage"} -> (0 .. s[w] - 1) \X Warp
             [] pc[w] = "read" -> ((0 .. s[w]) \X Warp) \ ({s[w]} \X unread[w])
             [] pc[w] = "again" -> (0 .. s[w]) \X Warp
             [] pc[w] = "drain" -> (0 .. work[tile[w]] - 1) \X Warp
             [] OTHER -> {}

WarpInv(w) ==
  /\ Local(w) /\ Left(w) /\ Sum(w)
  /\ Len(groups[w]) <= Ahead(w)
  /\ Pipe(w, Issued(w), NextBuf(w))

\* The warps agree on the tile, on the barriers they have passed in it, and on
\* the buffer of the stage before the next of these in a ring.
InTile(w) == IF pc[w] \in {"top", "done"} THEN tile[w] - 1 ELSE tile[w]
Passed(w) ==
  IF pc[w] \in {"top", "done"} THEN IF loop = "ring" THEN work[tile[w] - 1] ELSE 2 * work[tile[w] - 1]
  ELSE IF loop = "ring"
    THEN IF pc[w] = "prologue" THEN 0 ELSE IF pc[w] \in {"stage", "read"} THEN s[w] + 1 ELSE s[w]
    ELSE IF pc[w] \in {"read", "again"} THEN 2 * s[w] + 1 ELSE 2 * s[w]
Current(w) ==
  IF loop # "ring" THEN 0
  ELSE IF pc[w] = "prologue" THEN Stages - 1
  ELSE IF pc[w] \in {"stage", "read"} THEN readBuf[w] ELSE writeBuf[w]
Sync == \A w, v \in Warp : InTile(w) = InTile(v) /\ Passed(w) = Passed(v) /\ Current(w) = Current(v)

IInv == TypeInv /\ Sync /\ \A w \in Warp : WarpInv(w)

-------------------------------------------------------------------------------
(* The ring.                                                               *)

LEMMA RingSize ==
  RingLen \in Nat /\ 2 <= RingLen /\ RingLen <= Stages /\ Stages \in Nat
BY StagesAssumption DEF RingLen

LEMMA RingFacts ==
  /\ (0 .. RingLen - 1) \subseteq Buffer
  /\ \A b \in 0 .. RingLen - 1 :
       /\ After(b) \in 0 .. RingLen - 1
       /\ Before(After(b), 1) = b
       /\ Before(b, RingLen) = b /\ Before(b, RingLen - 1) = After(b)
       /\ \A k \in 1 .. RingLen : Before(b, k) \in 0 .. RingLen - 1 /\ Before(b, k) \in Buffer
       /\ \A k \in 1 .. RingLen - 1 : Before(After(b), k + 1) = Before(b, k)
       /\ \A k, l \in 1 .. RingLen : k # l => Before(b, k) # Before(b, l)
BY StagesAssumption DEF RingLen, After, Before, Buffer

LEMMA Apart ==
  ASSUME NEW b \in 0 .. RingLen - 1, NEW k \in 1 .. RingLen, NEW l \in 1 .. RingLen, k # l
  PROVE  Before(b, k) # Before(b, l)
BY RingFacts

\* The queue of groups: what is appended, dropped from the front, or marked.
LEMMA GroupFacts ==
  ASSUME TypeInv, NEW w \in Warp
  PROVE  /\ groups[w] \in Seq(Group) /\ Len(groups[w]) \in Nat
         /\ DOMAIN groups[w] = 1 .. Len(groups[w])
         /\ \A k \in 1 .. Len(groups[w]) : Newest(w, k) \in Group /\ groups[w][k] \in Group
         /\ tile[w] \in Nat \ {0} /\ s[w] \in Nat
<1>1. groups[w] \in Seq(Group) /\ tile[w] \in Nat \ {0} /\ s[w] \in Nat
  BY DEF TypeInv
<1>2. Len(groups[w]) \in Nat /\ DOMAIN groups[w] = 1 .. Len(groups[w])
  BY <1>1
<1>3. \A k \in 1 .. Len(groups[w]) : groups[w][k] \in Group
  BY <1>1, <1>2
<1>4. \A k \in 1 .. Len(groups[w]) : Len(groups[w]) + 1 - k \in 1 .. Len(groups[w])
  BY <1>2
<1> QED
  BY <1>1, <1>2, <1>3, <1>4 DEF Newest

LEMMA StageKeeps ==
  ASSUME TypeInv, NEW w \in Warp, NEW i \in Nat, NEW b \in 0 .. RingLen - 1, NEW c,
         c = After(b), Pipe(w, i, b), Len(groups[w]) < RingLen, work[tile[w]] \in Nat,
         Stage(w, b, i), UNCHANGED <<loop, work, tile, shared>>
  PROVE  /\ Pipe(w, i + 1, c)'
         /\ Len(groups'[w]) = Len(groups[w]) + 1
         /\ groups' \in [Warp -> Seq(Group)]
         /\ \A v \in Warp : v # w => groups'[v] = groups[v]
<1> DEFINE q == groups[w]
           n == work[tile[w]]
           d == [buf |-> b, data |-> Data(tile[w], i), landed |-> i >= n]
<1>1. q \in Seq(Group) /\ Len(q) \in Nat /\ tile[w] \in Nat /\ n \in Nat
  BY GroupFacts
<1>2. d \in Group
  <2>1. b \in Int /\ i \in Int /\ tile[w] \in Int
    BY <1>1, RingSize
  <2>2. (i >= n) \in BOOLEAN
    BY <1>1
  <2> QED
    BY <2>1, <2>2 DEF Group, Data
<1>3. groups' = [groups EXCEPT ![w] = Append(q, d)]
  BY DEF Stage
<1>4. d.buf = b /\ d.data = Data(tile[w], i) /\ (d.landed <=> i >= n)
  OBVIOUS
<1> HIDE DEF d
<1>5. /\ Append(q, d) \in Seq(Group) /\ Len(Append(q, d)) = Len(q) + 1
      /\ Append(q, d)[Len(q) + 1] = d
      /\ \A k \in 1 .. Len(q) : Append(q, d)[k] = q[k]
  BY <1>1, <1>2, AppendProperties
<1>6. groups'[w] = Append(q, d) /\ groups' \in [Warp -> Seq(Group)]
      /\ \A v \in Warp : v # w => groups'[v] = groups[v]
  BY <1>3, <1>5 DEF TypeInv
<1>7. Newest(w, 1)' = d /\ \A l \in 1 .. Len(q) : Newest(w, l + 1)' = Newest(w, l)
  <2>1. Len(groups'[w]) + 1 - 1 = Len(q) + 1
    BY <1>1, <1>5, <1>6
  <2>2. \A l \in 1 .. Len(q) :
          Len(groups'[w]) + 1 - (l + 1) = Len(q) + 1 - l /\ Len(q) + 1 - l \in 1 .. Len(q)
    <3>1. \A m \in Nat : \A l \in 1 .. m : m + 1 + 1 - (l + 1) = m + 1 - l /\ m + 1 - l \in 1 .. m
      OBVIOUS
    <3>2. Len(groups'[w]) = Len(q) + 1
      BY <1>5, <1>6
    <3> HIDE DEF q
    <3> QED
      BY <1>1, <3>1, <3>2
  <2>3. Newest(w, 1)' = d
    BY <1>5, <1>6, <2>1 DEF Newest
  <2>4. \A l \in 1 .. Len(q) : Newest(w, l + 1)' = Newest(w, l)
    BY <1>5, <1>6, <2>2 DEF Newest
  <2> QED
    BY <2>3, <2>4
<1>8. RingLen' = RingLen /\ \A k : Before(c, k)' = Before(c, k)
  BY DEF RingLen, Before
<1>9. Before(c, 1) = b /\ \A l \in 1 .. RingLen - 1 : Before(c, l + 1) = Before(b, l)
  BY RingFacts
<1>10. RingLen \in Nat /\ Len(q) < RingLen
  BY RingSize
<1>11. /\ \A k \in 1 .. Len(q) : Newest(w, k).buf = Before(b, k) /\ Newest(w, k).data = Data(tile[w], i - k)
       /\ \A k \in 1 .. RingLen :
            k <= i /\ i - k < n /\ (k <= Len(q) => Newest(w, k).landed)
              => shared[Before(b, k)][w] = Data(tile[w], i - k)
  BY DEF Pipe
<1> HIDE DEF q, n
<1>12. \A l \in Nat : i + 1 - (l + 1) = i - l
  OBVIOUS
<1>13. ASSUME NEW k \in 1 .. Len(q) + 1
       PROVE  Newest(w, k)'.buf = Before(c, k) /\ Newest(w, k)'.data = Data(tile[w], i + 1 - k)
  <2>1. CASE k = 1
    <3>1. i + 1 - k = i
      BY <2>1
    <3> QED
      BY <1>4, <1>7, <1>9, <2>1, <3>1
  <2>2. CASE k # 1
    <3>1. PICK l \in 1 .. Len(q) : k = l + 1 /\ l \in 1 .. RingLen - 1 /\ l \in Nat
      <4>1. k - 1 \in 1 .. Len(q) /\ k - 1 \in 1 .. RingLen - 1 /\ k = (k - 1) + 1
        BY <1>1, <1>10, <2>2
      <4> QED
        BY <1>1, <4>1
    <3>2. i + 1 - k = i - l
      BY <3>1
    <3> QED
      BY <1>7, <1>9, <1>11, <3>1, <3>2
  <2> QED
    BY <2>1, <2>2
<1>14. ASSUME NEW k \in 1 .. RingLen, k <= i + 1, i + 1 - k < n,
              k <= Len(q) + 1 => Newest(w, k)'.landed
       PROVE  shared[Before(c, k)][w] = Data(tile[w], i + 1 - k)
  <2>1. CASE k = 1
    BY <1>1, <1>4, <1>7, <1>14, <2>1
  <2>2. CASE k # 1
    <3>1. PICK l \in 1 .. RingLen - 1 : k = l + 1 /\ l \in 1 .. RingLen /\ l \in Nat
      <4>1. k - 1 \in 1 .. RingLen - 1 /\ k = (k - 1) + 1 /\ k - 1 \in 1 .. RingLen
        BY <1>10, <2>2
      <4> QED
        BY <4>1
    <3>2. i + 1 - k = i - l /\ l <= i
      BY <1>14, <3>1
    <3>3. l <= Len(q) => l \in 1 .. Len(q) /\ k <= Len(q) + 1
      BY <1>1, <3>1
    <3>4. l <= Len(q) => Newest(w, l).landed
      BY <1>7, <1>14, <3>1, <3>3
    <3>5. shared[Before(b, l)][w] = Data(tile[w], i - l)
      BY <1>11, <1>14, <3>1, <3>2, <3>4
    <3> QED
      BY <1>9, <3>1, <3>2, <3>5
  <2> QED
    BY <2>1, <2>2
<1>15. Pipe(w, i + 1, c)'
  <2>1. Len(groups'[w]) = Len(q) + 1 /\ n' = n
    BY <1>5, <1>6 DEF n
  <2> QED
    BY <1>8, <1>13, <1>14, <2>1 DEF Pipe, n
<1> QED
  BY <1>5, <1>6, <1>15 DEF q

\* What is waited for has landed, and so is in its buffer.
LEMMA WaitKeeps ==
  ASSUME TypeInv, NEW w \in Warp, NEW i \in Nat, NEW b \in 0 .. RingLen - 1, NEW m \in Nat,
         Pipe(w, i, b), WaitPrior(w, m), UNCHANGED <<loop, work, tile, shared>>
  PROVE  /\ Pipe(w, i, b)'
         /\ Len(groups'[w]) <= m /\ Len(groups'[w]) <= Len(groups[w]) /\ Len(groups'[w]) \in Nat
         /\ groups' \in [Warp -> Seq(Group)]
         /\ \A v \in Warp : v # w => groups'[v] = groups[v]
<1> DEFINE q == groups[w]
           u == Len(q) - m
           r == IF u > 0 THEN SubSeq(q, u + 1, Len(q)) ELSE q
<1>1. q \in Seq(Group) /\ Len(q) \in Nat /\ u \in Int
  BY GroupFacts
<1>2. /\ groups' = [groups EXCEPT ![w] = r]
      /\ \A g \in 1 .. u : q[g].landed
  BY DEF WaitPrior
<1>3. /\ r \in Seq(Group) /\ Len(r) \in Nat /\ Len(r) <= m /\ Len(r) <= Len(q)
      /\ \A k \in 1 .. Len(r) : r[Len(r) + 1 - k] = q[Len(q) + 1 - k]
      /\ \A k \in 1 .. Len(q) : k > Len(r) => Len(q) + 1 - k \in 1 .. u
  <2>1. CASE u > 0
    <3>1. r = SubSeq(q, u + 1, Len(q))
      BY <2>1
    <3>2. u + 1 \in 1 .. Len(q) + 1 /\ Len(q) \in u .. Len(q) /\ Len(q) - (u + 1) + 1 = m
      BY <1>1, <2>1
    <3> HIDE DEF q, u, r
    <3>3. SubSeq(q, u + 1, Len(q)) = [k \in 1 .. m |-> q[u + 1 + k - 1]]
      BY <1>1, <3>2, SubSeqProperties
    <3>4. r \in Seq(Group)
      BY <1>1, <3>1, <3>2, SubSeqProperties
    <3>5. Len(r) = m /\ \A k \in 1 .. m : r[k] = q[u + 1 + k - 1]
      BY <1>1, <3>1, <3>3, <3>2, SubSeqProperties
    <3>6. \A k \in 1 .. m : m + 1 - k \in 1 .. m /\ u + 1 + (m + 1 - k) - 1 = Len(q) + 1 - k
      BY <1>1 DEF u
    <3>7. \A k \in 1 .. Len(q) : k > m => Len(q) + 1 - k \in 1 .. u
      BY <1>1 DEF u
    <3>8. m <= Len(q)
      BY <1>1, <2>1 DEF u
    <3>9. ASSUME NEW k \in 1 .. m PROVE r[m + 1 - k] = q[Len(q) + 1 - k]
      <4>1. PICK j \in 1 .. m : j = m + 1 - k /\ u + 1 + j - 1 = Len(q) + 1 - k
        BY <3>6
      <4> QED
        BY <3>5, <4>1
    <3> QED
      BY <1>1, <3>4, <3>5, <3>7, <3>8, <3>9
  <2>2. CASE ~(u > 0)
    <3>1. r = q /\ Len(q) <= m
      BY <1>1, <2>2
    <3> HIDE DEF q, u, r
    <3> QED
      BY <1>1, <3>1
  <2> QED
    BY <2>1, <2>2
<1> HIDE DEF u, r
<1>4. groups'[w] = r /\ groups' \in [Warp -> Seq(Group)] /\ \A v \in Warp : v # w => groups'[v] = groups[v]
  BY <1>2, <1>3 DEF TypeInv
<1>5. /\ \A k \in 1 .. Len(r) : Newest(w, k)' = Newest(w, k)
      /\ \A k \in 1 .. Len(q) : k > Len(r) => Newest(w, k).landed
  BY <1>2, <1>3, <1>4 DEF Newest
<1>6. RingLen' = RingLen /\ \A k : Before(b, k)' = Before(b, k)
  BY DEF RingLen, Before
<1>7. /\ \A k \in 1 .. Len(q) : Newest(w, k).buf = Before(b, k) /\ Newest(w, k).data = Data(tile[w], i - k)
      /\ \A k \in 1 .. RingLen :
           k <= i /\ i - k < work[tile[w]] /\ (k <= Len(q) => Newest(w, k).landed)
             => shared[Before(b, k)][w] = Data(tile[w], i - k)
  BY DEF Pipe
<1> HIDE DEF q
<1>8. ASSUME NEW k \in 1 .. RingLen, k <= i, i - k < work[tile[w]], k <= Len(r) => Newest(w, k)'.landed
      PROVE  shared[Before(b, k)][w] = Data(tile[w], i - k)
  <2>1. k \in Nat /\ (k <= Len(q) => k \in 1 .. Len(q)) /\ (k <= Len(r) => k \in 1 .. Len(r))
    BY <1>1, <1>3, RingSize
  <2>2. k <= Len(q) => Newest(w, k).landed
    BY <1>3, <1>5, <1>8, <2>1
  <2> QED
    BY <1>7, <1>8, <2>2
<1>9. \A k \in 1 .. Len(r) : Newest(w, k)'.buf = Before(b, k) /\ Newest(w, k)'.data = Data(tile[w], i - k)
  <2>1. \A k \in 1 .. Len(r) : k \in 1 .. Len(q)
    BY <1>1, <1>3
  <2> QED
    BY <1>5, <1>7, <2>1
<1>10. Pipe(w, i, b)'
  BY <1>4, <1>6, <1>8, <1>9 DEF Pipe
<1> QED
  BY <1>3, <1>4, <1>10 DEF q

\* A copy lands in its own buffer only.
LEMMA LandKeeps ==
  ASSUME TypeInv, NEW w \in Warp, NEW i \in Nat, NEW b \in 0 .. RingLen - 1,
         Pipe(w, i, b), Len(groups[w]) <= RingLen, Land(w)
  PROVE  /\ Pipe(w, i, b)'
         /\ Len(groups'[w]) = Len(groups[w])
         /\ groups' \in [Warp -> Seq(Group)]
         /\ shared' \in [Buffer -> [Warp -> Int \X Int]]
         /\ \A v \in Warp : v # w =>
              groups'[v] = groups[v] /\ \A c \in Buffer : shared'[c][v] = shared[c][v]
<1>1. /\ groups[w] \in Seq(Group) /\ Len(groups[w]) \in Nat /\ DOMAIN groups[w] = 1 .. Len(groups[w])
      /\ \A k \in 1 .. Len(groups[w]) : Newest(w, k) \in Group /\ groups[w][k] \in Group
  BY GroupFacts
<1>2. PICK g \in 1 .. Len(groups[w]) :
        /\ groups' = [groups EXCEPT ![w] = [groups[w] EXCEPT ![g] = [groups[w][g] EXCEPT !.landed = TRUE]]]
        /\ shared' = [shared EXCEPT ![groups[w][g].buf] =
                        [shared[groups[w][g].buf] EXCEPT ![w] = groups[w][g].data]]
        /\ UNCHANGED <<loop, work, tile>>
  BY <1>1 DEF Land, Kernel
<1> DEFINE a == Len(groups[w]) + 1 - g
           old == groups[w][g]
           new == [old EXCEPT !.landed = TRUE]
<1>3. a \in 1 .. Len(groups[w]) /\ a \in 1 .. RingLen /\ Newest(w, a) = old /\ old \in Group
  <2>1. \A m \in Nat : \A x \in 1 .. m : m + 1 - x \in 1 .. m /\ m + 1 - (m + 1 - x) = x
    OBVIOUS
  <2>2. a \in 1 .. Len(groups[w]) /\ Len(groups[w]) + 1 - a = g
    BY <1>1, <2>1
  <2>3. a \in 1 .. RingLen
    BY <1>1, <2>2, RingSize
  <2> QED
    BY <1>1, <2>2, <2>3 DEF Newest
<1>4. new \in Group /\ new.buf = old.buf /\ new.data = old.data
  BY <1>3 DEF Group
<1>5. old.buf = Before(b, a) /\ old.data = Data(tile[w], i - a) /\ Before(b, a) \in Buffer
  BY <1>3, RingFacts DEF Pipe
<1>6. old.data \in Int \X Int
  BY <1>3 DEF Group
<1>7. groups'[w] = [groups[w] EXCEPT ![g] = new] /\ \A v \in Warp : v # w => groups'[v] = groups[v]
  BY <1>2 DEF TypeInv
<1> HIDE DEF a, new, old
<1>8. [groups[w] EXCEPT ![g] = new] \in Seq(Group) /\ Len([groups[w] EXCEPT ![g] = new]) = Len(groups[w])
  BY <1>1, <1>4, ExceptSeq
<1>9. groups' \in [Warp -> Seq(Group)] /\ Len(groups'[w]) = Len(groups[w])
  BY <1>2, <1>7, <1>8 DEF TypeInv
<1>10. \A k \in 1 .. Len(groups[w]) :
         Newest(w, k)' = IF k = a THEN new ELSE Newest(w, k)
  BY <1>1, <1>7, <1>9 DEF Newest, a
<1>11. /\ shared' \in [Buffer -> [Warp -> Int \X Int]]
       /\ shared'[Before(b, a)][w] = Data(tile[w], i - a)
       /\ \A c \in Buffer, v \in Warp : c # Before(b, a) \/ v # w => shared'[c][v] = shared[c][v]
  BY <1>2, <1>5, <1>6 DEF TypeInv, old
<1>12. RingLen' = RingLen /\ \A k : Before(b, k)' = Before(b, k)
  BY <1>2 DEF RingLen, Before
<1>13. \A k \in 1 .. RingLen : Before(b, k) \in Buffer /\ (k # a => Before(b, k) # Before(b, a))
  BY <1>3, RingFacts
<1>14. \A k \in 1 .. Len(groups[w]) :
         Newest(w, k)'.buf = Before(b, k) /\ Newest(w, k)'.data = Data(tile[w], i - k)
  BY <1>4, <1>5, <1>10 DEF Pipe
<1>15. ASSUME NEW k \in 1 .. RingLen, k <= i, i - k < work[tile[w]], k <= Len(groups[w]) => Newest(w, k)'.landed
       PROVE  shared'[Before(b, k)][w] = Data(tile[w], i - k)
  <2>1. CASE k = a
    BY <1>11, <2>1
  <2>2. CASE k # a
    <3>1. k <= Len(groups[w]) => k \in 1 .. Len(groups[w])
      BY <1>1, RingSize
    <3>2. k <= Len(groups[w]) => Newest(w, k).landed
      BY <1>10, <1>15, <2>2, <3>1
    <3>3. shared[Before(b, k)][w] = Data(tile[w], i - k)
      BY <1>15, <3>2 DEF Pipe
    <3> QED
      BY <1>11, <1>13, <2>2, <3>3
  <2> QED
    BY <2>1, <2>2
<1>16. Pipe(w, i, b)'
  BY <1>2, <1>9, <1>12, <1>14, <1>15 DEF Pipe
<1> QED
  BY <1>3, <1>7, <1>9, <1>11, <1>16

-------------------------------------------------------------------------------
(* What the invariant says of a warp.                                      *)

LEMMA WarpTypes ==
  ASSUME TypeInv, NEW w \in Warp, WarpInv(w)
  PROVE  /\ Issued(w) \in Nat /\ NextBuf(w) \in 0 .. RingLen - 1
         /\ Ahead(w) \in Nat /\ Ahead(w) <= RingLen
         /\ pc[w] \in Places /\ tile[w] \in Nat \ {0} /\ s[w] \in Nat
         /\ readBuf[w] \in Buffer /\ writeBuf[w] \in Buffer
         /\ pc[w] # "done" => work[tile[w]] \in Nat /\ tile[w] \in 1 .. Len(work)
         /\ loop = "ring" => RingLen = Stages
         /\ loop # "ring" => RingLen = 2
         /\ Stages \in Nat /\ Stages >= 2
<1>1. /\ pc[w] \in Places /\ tile[w] \in Nat \ {0} /\ s[w] \in Nat
      /\ readBuf[w] \in Buffer /\ writeBuf[w] \in Buffer /\ work \in Seq(Nat)
  BY DEF TypeInv
<1>2. Stages \in Nat /\ Stages >= 2 /\ RingLen = IF loop = "ring" THEN Stages ELSE 2
  BY StagesAssumption DEF RingLen
<1>3. pc[w] # "done" => work[tile[w]] \in Nat /\ tile[w] \in 1 .. Len(work)
  BY <1>1 DEF WarpInv, Local
<1>4. loop = "ring" /\ pc[w] = "prologue" => s[w] <= Stages - 2
  BY DEF WarpInv, Local
<1>5. Issued(w) \in Nat
  <2>1. Issued(w) \in {0, s[w], s[w] + 1, s[w] + 2, s[w] + Stages, s[w] + Stages - 1}
    BY DEF Issued
  <2>2. s[w] + Stages - 1 \in Nat /\ s[w] + Stages \in Nat
    BY <1>1, <1>2
  <2> QED
    BY <1>1, <2>1, <2>2
<1>6. Ahead(w) \in Nat /\ Ahead(w) <= RingLen
  BY <1>1, <1>2, <1>4 DEF Ahead
<1>7. NextBuf(w) \in 0 .. RingLen - 1
  <2>1. CASE loop = "ring"
    BY <1>1, <1>2, <1>4, <2>1 DEF NextBuf, Buffer
  <2>2. CASE loop # "ring"
    <3>1. Issued(w) % 2 \in 0 .. 1
      BY <1>5
    <3> QED
      BY <1>2, <2>2, <3>1 DEF NextBuf
  <2> QED
    BY <2>1, <2>2
<1> QED
  BY <1>1, <1>2, <1>3, <1>5, <1>6, <1>7

\* Whoever reads finds what the others staged, and none of them aims at it.
LEMMA Readable ==
  ASSUME TypeInv, Sync, NEW w \in Warp, NEW v \in Warp, WarpInv(w), WarpInv(v), pc[v] = "read"
  PROVE  /\ pc[w] # "fill"
         /\ shared[readBuf[v]][w] = Data(tile[v], s[v])
         /\ \A g \in DOMAIN groups[w] : ~groups[w][g].landed => groups[w][g].buf # readBuf[v]
<1>1. /\ pc[w] \in Places /\ tile[w] \in Nat \ {0} /\ s[w] \in Nat /\ tile[v] \in Nat \ {0} /\ s[v] \in Nat
      /\ readBuf[w] \in Buffer /\ writeBuf[w] \in Buffer
      /\ NextBuf(w) \in 0 .. RingLen - 1 /\ Issued(w) \in Nat
      /\ loop = "ring" => RingLen = Stages
      /\ loop # "ring" => RingLen = 2
      /\ Stages \in Nat /\ Stages >= 2
      /\ pc[w] # "done" => work[tile[w]] \in Nat
      /\ work[tile[v]] \in Nat
  BY WarpTypes
<1>2. InTile(w) = tile[v]
      /\ Passed(w) = (IF loop = "ring" THEN s[v] + 1 ELSE 2 * s[v] + 1)
      /\ (loop = "ring" => Current(w) = readBuf[v])
  BY DEF Sync, InTile, Passed, Current
<1>3. s[v] < work[tile[v]] /\ (loop = "double" => readBuf[v] = s[v] % 2) /\ (loop = "single" => readBuf[v] = 0)
  BY DEF WarpInv, Local
<1>4. Len(groups[w]) \in Nat /\ DOMAIN groups[w] = 1 .. Len(groups[w]) /\ Len(groups[w]) <= Ahead(w)
  BY GroupFacts DEF WarpInv
<1>5. loop = "ring" /\ pc[w] \in {"wait", "barrier", "stage", "read", "drain"} => readBuf[w] = After(writeBuf[w])
  BY DEF WarpInv, Local
<1>6. ASSUME NEW k \in 1 .. RingLen, k <= Issued(w), Issued(w) - k = s[v], Len(groups[w]) < k,
             Before(NextBuf(w), k) = readBuf[v], tile[w] = tile[v], pc[w] # "fill"
      PROVE  /\ pc[w] # "fill"
             /\ shared[readBuf[v]][w] = Data(tile[v], s[v])
             /\ \A g \in DOMAIN groups[w] : ~groups[w][g].landed => groups[w][g].buf # readBuf[v]
  <2>1. /\ \A l \in 1 .. Len(groups[w]) : Newest(w, l).buf = Before(NextBuf(w), l)
        /\ shared[Before(NextBuf(w), k)][w] = Data(tile[w], Issued(w) - k)
    BY <1>1, <1>3, <1>4, <1>6 DEF WarpInv, Pipe
  <2>2. ASSUME NEW g \in DOMAIN groups[w] PROVE groups[w][g].buf # readBuf[v]
    <3>1. PICK l \in 1 .. Len(groups[w]) : g = Len(groups[w]) + 1 - l
      <4>1. \A m \in Nat : \A x \in 1 .. m : m + 1 - x \in 1 .. m /\ x = m + 1 - (m + 1 - x)
        OBVIOUS
      <4> QED
        BY <1>4, <4>1
    <3>2. l \in 1 .. RingLen /\ l # k
      BY <1>4, <1>6, <3>1, RingSize
    <3>3. groups[w][g].buf = Before(NextBuf(w), l)
      BY <2>1, <3>1 DEF Newest
    <3> QED
      BY <1>1, <1>6, <3>2, <3>3, Apart
  <2> QED
    BY <1>6, <2>1, <2>2
<1>7. CASE loop = "ring"
  <2>1. CASE pc[w] = "stage"
    <3>1. s[w] = s[v] /\ tile[w] = tile[v] /\ readBuf[w] = readBuf[v]
      BY <1>1, <1>2, <1>7, <2>1 DEF InTile, Passed, Current
    <3>2. /\ Issued(w) = s[w] + Stages - 1 /\ NextBuf(w) = writeBuf[w] /\ Ahead(w) = Stages - 2
      BY <1>7, <2>1 DEF Issued, NextBuf, Ahead
    <3>3. Before(NextBuf(w), Stages - 1) = readBuf[v]
      BY <1>1, <1>5, <1>7, <2>1, <3>1, <3>2, RingFacts
    <3>4. /\ Stages - 1 \in 1 .. RingLen /\ Stages - 1 <= Issued(w) /\ Issued(w) - (Stages - 1) = s[v]
          /\ Len(groups[w]) < Stages - 1
      BY <1>1, <1>4, <1>7, <3>1, <3>2
    <3> QED
      BY <1>6, <2>1, <3>1, <3>3, <3>4
  <2>2. CASE pc[w] = "read"
    <3>1. s[w] = s[v] /\ tile[w] = tile[v] /\ readBuf[w] = readBuf[v]
      BY <1>1, <1>2, <1>7, <2>2 DEF InTile, Passed, Current
    <3>2. /\ Issued(w) = s[w] + Stages /\ NextBuf(w) = readBuf[w] /\ Ahead(w) = Stages - 1
      BY <1>7, <2>2 DEF Issued, NextBuf, Ahead
    <3>3. Before(NextBuf(w), Stages) = readBuf[v]
      BY <1>1, <1>7, <3>1, <3>2, RingFacts
    <3>4. /\ Stages \in 1 .. RingLen /\ Stages <= Issued(w) /\ Issued(w) - Stages = s[v]
          /\ Len(groups[w]) < Stages
      BY <1>1, <1>4, <1>7, <3>1, <3>2
    <3> QED
      BY <1>6, <2>2, <3>1, <3>3, <3>4
  <2>3. CASE pc[w] \in {"wait", "barrier", "drain"}
    <3>1. s[w] = s[v] + 1 /\ tile[w] = tile[v] /\ writeBuf[w] = readBuf[v]
      BY <1>1, <1>2, <1>7, <2>3 DEF InTile, Passed, Current
    <3>2. /\ Issued(w) = s[w] + Stages - 1 /\ NextBuf(w) = writeBuf[w] /\ Ahead(w) <= Stages - 1
      BY <1>1, <1>7, <2>3 DEF Issued, NextBuf, Ahead
    <3>3. Before(NextBuf(w), Stages) = readBuf[v]
      BY <1>1, <1>7, <3>1, <3>2, RingFacts
    <3>4. /\ Stages \in 1 .. RingLen /\ Stages <= Issued(w) /\ Issued(w) - Stages = s[v]
          /\ Len(groups[w]) < Stages
      <4>1. Ahead(w) \in Nat
        BY WarpTypes
      <4>2. Len(groups[w]) < Stages
        BY <1>1, <1>4, <3>2, <4>1
      <4>3. Stages <= Issued(w) /\ Issued(w) - Stages = s[v]
        BY <1>1, <3>1, <3>2
      <4> QED
        BY <1>1, <1>7, <4>2, <4>3
    <3> QED
      BY <1>6, <2>3, <3>1, <3>3, <3>4
  <2>4. CASE pc[w] \in {"top", "done"}
    <3>1. tile[w] - 1 = tile[v] /\ work[tile[w] - 1] = s[v] + 1 /\ writeBuf[w] = readBuf[v]
      BY <1>1, <1>2, <1>7, <2>4 DEF InTile, Passed, Current
    <3>2. shared[writeBuf[w]][w] = Data(tile[w] - 1, work[tile[w] - 1] - 1)
      BY <1>1, <1>7, <2>4, <3>1 DEF WarpInv, Left
    <3>3. work[tile[w] - 1] - 1 = s[v]
      BY <1>1, <3>1
    <3>4. DOMAIN groups[w] = {}
      BY <1>4, <2>4 DEF Ahead
    <3> QED
      BY <2>4, <3>1, <3>2, <3>3, <3>4
  <2>5. pc[w] # "prologue"
    BY <1>1, <1>2, <1>7 DEF Passed
  <2> QED
    BY <1>1, <1>7, <2>1, <2>2, <2>3, <2>4, <2>5 DEF Places
<1>8. CASE loop # "ring"
  <2>1. pc[w] \in {"read", "again"} /\ s[w] = s[v] /\ tile[w] = tile[v]
    <3>1. CASE pc[w] = "done"
      <4>1. work[tile[w] - 1] \in Nat
        BY <1>1, <1>2, <1>8, <3>1 DEF InTile
      <4> QED
        BY <1>1, <1>2, <1>8, <3>1, <4>1 DEF Passed
    <3>2. CASE pc[w] # "done"
      BY <1>1, <1>2, <1>8, <3>2 DEF InTile, Passed, Places
    <3> QED
      BY <3>1, <3>2
  <2>2. CASE loop = "double"
    <3>1. CASE HasNext(w)
      <4>1. Issued(w) = s[w] + 2 /\ Ahead(w) = 1 /\ NextBuf(w) = (s[w] + 2) % 2
        BY <2>1, <2>2, <3>1 DEF Issued, Ahead, NextBuf
      <4>2. Before(NextBuf(w), 2) = readBuf[v]
        BY <1>1, <1>3, <1>8, <2>1, <2>2, <4>1 DEF Before
      <4>3. 2 \in 1 .. RingLen /\ 2 <= Issued(w) /\ Issued(w) - 2 = s[v] /\ Len(groups[w]) < 2
        BY <1>1, <1>4, <1>8, <2>1, <4>1
      <4> QED
        BY <1>6, <2>1, <4>2, <4>3
    <3>2. CASE ~HasNext(w)
      <4>1. Issued(w) = s[w] + 1 /\ Ahead(w) = 0 /\ NextBuf(w) = (s[w] + 1) % 2
        BY <2>1, <2>2, <3>2 DEF Issued, Ahead, NextBuf
      <4>2. Before(NextBuf(w), 1) = readBuf[v]
        BY <1>1, <1>3, <1>8, <2>1, <2>2, <4>1 DEF Before
      <4>3. 1 \in 1 .. RingLen /\ 1 <= Issued(w) /\ Issued(w) - 1 = s[v] /\ Len(groups[w]) < 1
        BY <1>1, <1>4, <1>8, <2>1, <4>1
      <4> QED
        BY <1>6, <2>1, <4>2, <4>3
    <3> QED
      BY <3>1, <3>2
  <2>3. CASE loop = "single"
    <3>1. shared[0][w] = Data(tile[w], s[w])
      BY <2>1, <2>3 DEF WarpInv, Left
    <3>2. DOMAIN groups[w] = {}
      BY <1>4, <2>3 DEF Ahead
    <3> QED
      BY <1>3, <2>1, <2>3, <3>1, <3>2
  <2> QED
    BY <1>8, <2>2, <2>3 DEF TypeInv
<1> QED
  BY <1>7, <1>8

-------------------------------------------------------------------------------
(* From one warp to the others.                                            *)

\* A step that leaves a warp alone.
Spared(v) ==
  /\ pc'[v] = pc[v] /\ tile'[v] = tile[v] /\ s'[v] = s[v]
  /\ readBuf'[v] = readBuf[v] /\ writeBuf'[v] = writeBuf[v]
  /\ groups'[v] = groups[v] /\ unread'[v] = unread[v] /\ acc'[v] = acc[v]
  /\ \A b \in Buffer : shared'[b][v] = shared[b][v]

LEMMA Frame ==
  ASSUME TypeInv, NEW v \in Warp, WarpInv(v), UNCHANGED <<loop, work>>, Spared(v)
  PROVE  WarpInv(v)' /\ InTile(v)' = InTile(v) /\ Passed(v)' = Passed(v) /\ Current(v)' = Current(v)
<1> USE DEF Spared
<1>1. InTile(v)' = InTile(v) /\ Passed(v)' = Passed(v) /\ Current(v)' = Current(v)
  BY DEF InTile, Passed, Current
<1>2. Issued(v)' = Issued(v) /\ NextBuf(v)' = NextBuf(v) /\ Ahead(v)' = Ahead(v)
  <2>1. HasNext(v)' = HasNext(v)
    BY DEF HasNext
  <2>2. Issued(v)' = Issued(v)
    BY <2>1 DEF Issued
  <2> QED
    BY <2>1, <2>2 DEF NextBuf, Ahead
<1>3. Local(v)' /\ Sum(v)'
  <2>1. RingLen' = RingLen /\ \A b : After(b)' = After(b)
    BY DEF RingLen, After
  <2>2. Local(v)'
    BY <2>1 DEF WarpInv, Local, After
  <2>3. Sum(v)'
    BY DEF WarpInv, Sum
  <2> QED
    BY <2>2, <2>3
<1>4. Left(v)'
  <2>1. writeBuf[v] \in Buffer /\ 0 \in Buffer
    BY StagesAssumption DEF TypeInv, Buffer
  <2> QED
    BY <2>1 DEF WarpInv, Left
<1>5. Pipe(v, Issued(v), NextBuf(v))'
  <2>1. \A k \in 1 .. RingLen : Before(NextBuf(v), k) \in Buffer
    BY WarpTypes, RingFacts
  <2>2. RingLen' = RingLen /\ \A b, k : Before(b, k)' = Before(b, k)
    BY DEF RingLen, Before
  <2>3. \A k : Newest(v, k)' = Newest(v, k)
    BY DEF Newest
  <2>4. Pipe(v, Issued(v), NextBuf(v))
    BY DEF WarpInv
  <2>5. \A k : (Before(NextBuf(v), k))' = Before(NextBuf(v), k)
    BY <1>2, <2>2 DEF Before
  <2> QED
    BY <1>2, <2>1, <2>2, <2>3, <2>4, <2>5 DEF Pipe
<1> QED
  BY <1>1, <1>2, <1>3, <1>4, <1>5 DEF WarpInv

LEMMA OneWarp ==
  ASSUME IInv, NEW w \in Warp, UNCHANGED <<loop, work>>, TypeInv', WarpInv(w)',
         \A v \in Warp : v # w => Spared(v),
         InTile(w)' = InTile(w), Passed(w)' = Passed(w), Current(w)' = Current(w)
  PROVE  IInv'
<1>1. \A v \in Warp : WarpInv(v)' /\ InTile(v)' = InTile(v) /\ Passed(v)' = Passed(v) /\ Current(v)' = Current(v)
  BY Frame DEF IInv
<1>2. Sync'
  BY <1>1 DEF IInv, Sync
<1> QED
  BY <1>1, <1>2 DEF IInv

LEMMA WarpInvNow ==
  ASSUME NEW w \in Warp, NEW i, NEW b, Local(w)', Left(w)', Sum(w)', Len(groups'[w]) <= Ahead(w)',
         Pipe(w, i, b)', Issued(w)' = i, NextBuf(w)' = b
  PROVE  WarpInv(w)'
<1>1. Pipe(w, Issued(w), NextBuf(w))'
  <2>1. \A k : (Before(NextBuf(w), k))' = Before(b, k)'
    BY DEF Before
  <2> QED
    BY <2>1 DEF Pipe
<1> QED
  BY <1>1 DEF WarpInv

LEMMA SumFacts ==
  ASSUME NEW m \in Nat
  PROVE  /\ (0 .. m - 1) \X Warp = ((0 .. m) \X Warp) \ ({m} \X Warp)
         /\ ((0 .. m) \X Warp) \ ({m} \X {}) = (0 .. m) \X Warp
         /\ \A U \in SUBSET Warp : \A v \in U :
              (((0 .. m) \X Warp) \ ({m} \X U)) \cup {<<m, v>>} = ((0 .. m) \X Warp) \ ({m} \X (U \ {v}))
         /\ \A U : ((0 .. m) \X Warp) \ U # Spoilt
<1>1. \A x \in Int : x \in 0 .. m - 1 <=> x \in 0 .. m /\ x # m
  OBVIOUS
<1>2. (0 .. m - 1) \X Warp = ((0 .. m) \X Warp) \ ({m} \X Warp)
  BY <1>1
<1>3. ((0 .. m) \X Warp) \ ({m} \X {}) = (0 .. m) \X Warp
  OBVIOUS
<1>4. ASSUME NEW U \in SUBSET Warp, NEW v \in U
      PROVE  (((0 .. m) \X Warp) \ ({m} \X U)) \cup {<<m, v>>} = ((0 .. m) \X Warp) \ ({m} \X (U \ {v}))
  <2>1. m \in 0 .. m
    OBVIOUS
  <2> QED
    BY <2>1
<1>5. <<-1, -1>> \notin (0 .. m) \X Warp
  OBVIOUS
<1> QED
  BY <1>2, <1>3, <1>4, <1>5 DEF Spoilt

-------------------------------------------------------------------------------
(* The steps of one warp.                                                  *)

LEMMA PrologueStep ==
  ASSUME IInv, NEW w \in Warp, Prologue(w)
  PROVE  IInv'
<1>1. /\ pc[w] = "prologue" /\ loop = "ring" /\ Stage(w, s[w], s[w])
      /\ UNCHANGED <<loop, work, tile, shared, unread, acc>>
  BY DEF Prologue, Kernel
<1>2. TypeInv /\ WarpInv(w) /\ Stages \in Nat /\ Stages >= 2 /\ RingLen = Stages
      /\ work[tile[w]] \in Nat /\ tile[w] \in Nat \ {0} /\ tile[w] <= Len(work) /\ s[w] \in Nat /\ s[w] <= Stages - 2
  BY <1>1, WarpTypes DEF IInv, WarpInv, Local
<1>3. /\ Issued(w) = s[w] /\ NextBuf(w) = s[w] /\ Ahead(w) = s[w]
      /\ s[w] \in 0 .. RingLen - 1 /\ After(s[w]) = s[w] + 1
  BY <1>1, <1>2 DEF Issued, NextBuf, Ahead, After
<1>4. Pipe(w, s[w], s[w]) /\ Len(groups[w]) <= s[w] /\ Len(groups[w]) \in Nat
  BY <1>2, <1>3, GroupFacts DEF WarpInv
<1>5. PICK i \in Nat : i = s[w]
  BY <1>2
<1>6. PICK c \in Nat : c = i + 1
  BY <1>5
<1>7. /\ Pipe(w, i + 1, c)'
      /\ Len(groups'[w]) <= i + 1 /\ Len(groups'[w]) \in Nat
      /\ groups' \in [Warp -> Seq(Group)]
      /\ \A v \in Warp : v # w => groups'[v] = groups[v]
  <2>1. i \in 0 .. RingLen - 1 /\ c = After(i) /\ Pipe(w, i, i) /\ Len(groups[w]) < RingLen /\ Stage(w, i, i)
    BY <1>1, <1>2, <1>3, <1>4, <1>5, <1>6
  <2>2. /\ Pipe(w, i + 1, c)'
        /\ Len(groups'[w]) = Len(groups[w]) + 1
        /\ groups' \in [Warp -> Seq(Group)]
        /\ \A v \in Warp : v # w => groups'[v] = groups[v]
    BY <1>1, <1>2, <2>1, StageKeeps
  <2> QED
    BY <1>4, <1>5, <2>2
<1>8. acc[w] = {}
  BY <1>1, <1>2 DEF WarpInv, Sum
<1>9. CASE s[w] < Stages - 2
  <2>1. s' = [s EXCEPT ![w] = s[w] + 1] /\ UNCHANGED <<pc, readBuf, writeBuf>>
    BY <1>9 DEF Prologue
  <2>2. s'[w] = i + 1 /\ s' \in [Warp -> Nat] /\ \A v \in Warp : v # w => s'[v] = s[v]
    BY <1>2, <1>5, <2>1 DEF TypeInv
  <2>3. TypeInv'
    BY <1>1, <1>2, <1>7, <2>1, <2>2 DEF TypeInv, Places
  <2>4. Issued(w)' = i + 1 /\ NextBuf(w)' = c /\ Ahead(w)' = i + 1
    BY <1>1, <1>6, <2>1, <2>2 DEF Issued, NextBuf, Ahead
  <2>5. Local(w)' /\ Left(w)' /\ Sum(w)'
    BY <1>1, <1>2, <1>5, <1>8, <1>9, <2>1, <2>2 DEF Local, Left, Sum
  <2>6. WarpInv(w)'
    BY <1>7, <2>4, <2>5, WarpInvNow
  <2>7. InTile(w)' = InTile(w) /\ Passed(w)' = Passed(w) /\ Current(w)' = Current(w)
    BY <1>1, <2>1 DEF InTile, Passed, Current
  <2>8. \A v \in Warp : v # w => Spared(v)
    BY <1>1, <1>7, <2>1, <2>2 DEF Spared
  <2> QED
    BY <1>1, <2>3, <2>6, <2>7, <2>8, OneWarp
<1>10. CASE ~(s[w] < Stages - 2)
  <2> DEFINE l == IF work[tile[w]] > 0 THEN "wait" ELSE "drain"
  <2>1. /\ s' = [s EXCEPT ![w] = 0] /\ readBuf' = [readBuf EXCEPT ![w] = 0]
        /\ writeBuf' = [writeBuf EXCEPT ![w] = Stages - 1] /\ pc' = [pc EXCEPT ![w] = l]
    BY <1>10 DEF Prologue, Goto
  <2>2. l \in {"wait", "drain"} /\ l \in Places
    BY <1>1 DEF Places
  <2>3. /\ s' \in [Warp -> Nat] /\ pc' \in [Warp -> Places]
        /\ readBuf' \in [Warp -> Buffer] /\ writeBuf' \in [Warp -> Buffer]
        /\ s'[w] = 0 /\ pc'[w] = l /\ readBuf'[w] = 0 /\ writeBuf'[w] = Stages - 1
        /\ \A v \in Warp : v # w =>
             s'[v] = s[v] /\ pc'[v] = pc[v] /\ readBuf'[v] = readBuf[v] /\ writeBuf'[v] = writeBuf[v]
    <3>1. 0 \in Buffer /\ Stages - 1 \in Buffer /\ 0 \in Nat
      BY <1>2 DEF Buffer
    <3> HIDE DEF l
    <3>2. s' \in [Warp -> Nat] /\ s'[w] = 0 /\ \A v \in Warp : v # w => s'[v] = s[v]
      BY <1>2, <2>1, <3>1 DEF TypeInv
    <3>3. pc' \in [Warp -> Places] /\ pc'[w] = l /\ \A v \in Warp : v # w => pc'[v] = pc[v]
      BY <1>2, <2>1, <2>2 DEF TypeInv
    <3>4. /\ readBuf' \in [Warp -> Buffer] /\ writeBuf' \in [Warp -> Buffer]
          /\ readBuf'[w] = 0 /\ writeBuf'[w] = Stages - 1
          /\ \A v \in Warp : v # w => readBuf'[v] = readBuf[v] /\ writeBuf'[v] = writeBuf[v]
      BY <1>2, <2>1, <3>1 DEF TypeInv
    <3> QED
      BY <3>2, <3>3, <3>4
  <2>4. TypeInv'
    BY <1>1, <1>2, <1>7, <2>3 DEF TypeInv, Places
  <2>5. i + 1 = Stages - 1 /\ c = Stages - 1
    BY <1>2, <1>5, <1>6, <1>10
  <2>6. Issued(w)' = i + 1 /\ NextBuf(w)' = c /\ Ahead(w)' = i + 1
    BY <1>1, <1>2, <2>2, <2>3, <2>5 DEF Issued, NextBuf, Ahead
  <2>7. After(Stages - 1) = 0
    BY <1>2 DEF After
  <2>8. Local(w)' /\ Left(w)'
    <3>1. (After(writeBuf[w]))' = 0
      BY <1>1, <1>2, <2>3 DEF After, RingLen
    <3>2. (l = "wait" => 0 < work[tile[w]]) /\ (l = "drain" => 0 = work[tile[w]])
      BY <1>2
    <3> HIDE DEF l
    <3> QED
      BY <1>1, <1>2, <2>2, <2>3, <3>1, <3>2 DEF Local, Left
  <2>9. Sum(w)'
    <3>1. (0 .. 0 - 1) \X Warp = {}
      OBVIOUS
    <3>2. l = "drain" => work[tile[w]] = 0
      BY <1>2
    <3> HIDE DEF l
    <3> QED
      BY <1>1, <1>8, <2>2, <2>3, <3>1, <3>2 DEF Sum
  <2>10. WarpInv(w)'
    BY <1>7, <2>6, <2>8, <2>9, WarpInvNow
  <2>11. InTile(w)' = InTile(w) /\ Passed(w)' = Passed(w) /\ Current(w)' = Current(w)
    BY <1>1, <2>2, <2>3 DEF InTile, Passed, Current
  <2>12. \A v \in Warp : v # w => Spared(v)
    BY <1>1, <1>7, <2>3 DEF Spared
  <2> QED
    BY <1>1, <2>4, <2>10, <2>11, <2>12, OneWarp
<1> QED
  BY <1>9, <1>10

LEMMA LandStep ==
  ASSUME IInv, NEW w \in Warp, Land(w)
  PROVE  IInv'
<1>1. UNCHANGED <<loop, work, pc, tile, s, readBuf, writeBuf, unread, acc>>
  BY DEF Land, Kernel
<1>2. TypeInv /\ WarpInv(w) /\ Ahead(w) <= RingLen /\ Ahead(w) \in Nat /\ RingLen \in Nat
  BY WarpTypes, RingSize DEF IInv
<1>3. PICK i \in Nat, b \in 0 .. RingLen - 1 : i = Issued(w) /\ b = NextBuf(w) /\ Pipe(w, i, b)
  BY <1>2, WarpTypes DEF WarpInv
<1>4. Len(groups[w]) \in Nat /\ Len(groups[w]) <= Ahead(w) /\ Len(groups[w]) <= RingLen
      /\ DOMAIN groups[w] = 1 .. Len(groups[w])
  BY <1>2, GroupFacts DEF WarpInv
<1>5. /\ Pipe(w, i, b)'
      /\ Len(groups'[w]) = Len(groups[w])
      /\ groups' \in [Warp -> Seq(Group)]
      /\ shared' \in [Buffer -> [Warp -> Int \X Int]]
      /\ \A v \in Warp : v # w =>
           groups'[v] = groups[v] /\ \A c \in Buffer : shared'[c][v] = shared[c][v]
  BY <1>2, <1>3, <1>4, LandKeeps
<1>6. TypeInv'
  BY <1>1, <1>2, <1>5 DEF TypeInv, Places
<1>7. Issued(w)' = i /\ NextBuf(w)' = b /\ Ahead(w)' = Ahead(w)
  <2>1. HasNext(w)' = HasNext(w)
    BY <1>1 DEF HasNext
  <2>2. Issued(w)' = i
    BY <1>1, <1>3, <2>1 DEF Issued
  <2> QED
    BY <1>1, <1>3, <2>1, <2>2 DEF NextBuf, Ahead
<1>8. Local(w)' /\ Sum(w)'
  <2>1. (After(writeBuf[w]))' = After(writeBuf[w])
    BY <1>1 DEF After, RingLen
  <2> QED
    BY <1>1, <1>2, <2>1 DEF WarpInv, Local, Sum
<1>9. Left(w)'
  <2>1. Ahead(w) > 0
    <3>1. DOMAIN groups[w] # {}
      BY DEF Land
    <3> QED
      BY <1>2, <1>4, <3>1
  <2>2. pc[w] \notin {"top", "done"} /\ loop # "single"
    BY <2>1 DEF Ahead
  <2> QED
    BY <1>1, <2>2 DEF Left
<1>10. WarpInv(w)'
  BY <1>4, <1>5, <1>7, <1>8, <1>9, WarpInvNow
<1>11. InTile(w)' = InTile(w) /\ Passed(w)' = Passed(w) /\ Current(w)' = Current(w)
  BY <1>1 DEF InTile, Passed, Current
<1>12. \A v \in Warp : v # w => Spared(v)
  BY <1>1, <1>5 DEF Spared
<1> QED
  BY <1>1, <1>6, <1>10, <1>11, <1>12, OneWarp

LEMMA WaitStep ==
  ASSUME IInv, NEW w \in Warp, Wait(w)
  PROVE  IInv'
<1> DEFINE m == IF loop = "ring" THEN Stages - 2 ELSE IF HasNext(w) THEN 1 ELSE 0
<1>1. /\ pc[w] = "wait" /\ WaitPrior(w, m) /\ pc' = [pc EXCEPT ![w] = "barrier"]
      /\ UNCHANGED <<loop, work, tile, s, readBuf, writeBuf, shared, unread, acc>>
  BY DEF Wait, Goto, Kernel
<1>2. TypeInv /\ WarpInv(w) /\ loop \in {"ring", "double"} /\ Stages \in Nat /\ Stages >= 2
  BY <1>1, WarpTypes DEF IInv, TypeInv, Places
<1>3. PICK i \in Nat, b \in 0 .. RingLen - 1 : i = Issued(w) /\ b = NextBuf(w) /\ Pipe(w, i, b)
  BY <1>2, WarpTypes DEF WarpInv
<1>4. m \in Nat
  BY <1>2
<1> HIDE DEF m
<1>5. /\ Pipe(w, i, b)'
      /\ Len(groups'[w]) <= m /\ Len(groups'[w]) \in Nat
      /\ groups' \in [Warp -> Seq(Group)]
      /\ \A v \in Warp : v # w => groups'[v] = groups[v]
  BY <1>1, <1>2, <1>3, <1>4, WaitKeeps
<1>6. pc' \in [Warp -> Places] /\ pc'[w] = "barrier" /\ \A v \in Warp : v # w => pc'[v] = pc[v]
  <2>1. "barrier" \in Places
    BY DEF Places
  <2> QED
    BY <1>1, <1>2, <2>1 DEF TypeInv
<1>7. TypeInv'
  BY <1>1, <1>2, <1>5, <1>6 DEF TypeInv, Places
<1>8. Issued(w)' = i /\ NextBuf(w)' = b /\ Ahead(w)' = m
  <2>1. HasNext(w)' = HasNext(w)
    BY <1>1 DEF HasNext
  <2>2. Issued(w)' = i
    BY <1>1, <1>2, <1>3, <1>6, <2>1 DEF Issued
  <2> QED
    BY <1>1, <1>2, <1>3, <1>6, <2>1, <2>2 DEF NextBuf, Ahead, m
<1>9. Local(w)' /\ Sum(w)' /\ Left(w)'
  <2>1. (After(writeBuf[w]))' = After(writeBuf[w])
    BY <1>1 DEF After, RingLen
  <2> QED
    BY <1>1, <1>2, <1>6, <2>1 DEF WarpInv, Local, Sum, Left
<1>10. WarpInv(w)'
  BY <1>5, <1>8, <1>9, WarpInvNow
<1>11. InTile(w)' = InTile(w) /\ Passed(w)' = Passed(w) /\ Current(w)' = Current(w)
  BY <1>1, <1>2, <1>6 DEF InTile, Passed, Current
<1>12. \A v \in Warp : v # w => Spared(v)
  BY <1>1, <1>5, <1>6 DEF Spared
<1> QED
  BY <1>1, <1>7, <1>10, <1>11, <1>12, OneWarp

LEMMA StageNextStep ==
  ASSUME IInv, NEW w \in Warp, StageNext(w)
  PROVE  IInv'
<1>1. /\ pc[w] = "stage" /\ Stage(w, writeBuf[w], s[w] + Stages - 1)
      /\ unread' = [unread EXCEPT ![w] = Warp] /\ pc' = [pc EXCEPT ![w] = "read"]
      /\ UNCHANGED <<loop, work, tile, s, readBuf, writeBuf, shared, acc>>
  BY DEF StageNext, Goto, Kernel
<1>2. /\ TypeInv /\ WarpInv(w) /\ loop = "ring" /\ Stages \in Nat /\ Stages >= 2 /\ RingLen = Stages
      /\ work[tile[w]] \in Nat /\ s[w] \in Nat
  BY <1>1, WarpTypes DEF IInv, TypeInv, Places
<1>3. /\ Issued(w) = s[w] + Stages - 1 /\ NextBuf(w) = writeBuf[w] /\ Ahead(w) = Stages - 2
      /\ readBuf[w] = After(writeBuf[w])
  BY <1>1, <1>2 DEF Issued, NextBuf, Ahead, WarpInv, Local
<1>4. PICK i \in Nat, b \in 0 .. RingLen - 1 : i = s[w] + Stages - 1 /\ b = writeBuf[w] /\ Pipe(w, i, b)
  BY <1>2, <1>3, WarpTypes DEF WarpInv
<1>5. PICK c : c = After(b)
  OBVIOUS
<1>6. /\ Pipe(w, i + 1, c)'
      /\ Len(groups'[w]) <= Stages - 1 /\ Len(groups'[w]) \in Nat
      /\ groups' \in [Warp -> Seq(Group)]
      /\ \A v \in Warp : v # w => groups'[v] = groups[v]
  <2>1. Len(groups[w]) \in Nat /\ Len(groups[w]) <= Stages - 2
    BY <1>2, <1>3, GroupFacts DEF WarpInv
  <2>2. Stage(w, b, i) /\ Len(groups[w]) < RingLen
    BY <1>1, <1>2, <1>4, <2>1
  <2>3. /\ Pipe(w, i + 1, c)'
        /\ Len(groups'[w]) = Len(groups[w]) + 1
        /\ groups' \in [Warp -> Seq(Group)]
        /\ \A v \in Warp : v # w => groups'[v] = groups[v]
    BY <1>1, <1>2, <1>4, <1>5, <2>2, StageKeeps
  <2> QED
    BY <1>2, <2>1, <2>3
<1>7. pc' \in [Warp -> Places] /\ pc'[w] = "read" /\ \A v \in Warp : v # w => pc'[v] = pc[v]
  <2>1. "read" \in Places
    BY DEF Places
  <2> QED
    BY <1>1, <1>2, <2>1 DEF TypeInv
<1>8. /\ unread' \in [Warp -> SUBSET Warp] /\ unread'[w] = Warp
      /\ \A v \in Warp : v # w => unread'[v] = unread[v]
  BY <1>1, <1>2 DEF TypeInv
<1>9. TypeInv'
  BY <1>1, <1>2, <1>6, <1>7, <1>8 DEF TypeInv, Places
<1>10. Issued(w)' = i + 1 /\ NextBuf(w)' = c /\ Ahead(w)' = Stages - 1
  BY <1>1, <1>2, <1>3, <1>4, <1>5, <1>7 DEF Issued, NextBuf, Ahead
<1>11. Local(w)' /\ Left(w)'
  <2>1. (After(writeBuf[w]))' = After(writeBuf[w])
    BY <1>1 DEF After, RingLen
  <2> QED
    BY <1>1, <1>2, <1>7, <2>1 DEF WarpInv, Local, Left
<1>12. Sum(w)'
  <2>1. acc[w] = (0 .. s[w] - 1) \X Warp
    BY <1>1, <1>2 DEF WarpInv, Sum
  <2> QED
    BY <1>1, <1>2, <1>7, <1>8, <2>1, SumFacts DEF Sum
<1>13. WarpInv(w)'
  BY <1>6, <1>10, <1>11, <1>12, WarpInvNow
<1>14. InTile(w)' = InTile(w) /\ Passed(w)' = Passed(w) /\ Current(w)' = Current(w)
  BY <1>1, <1>2, <1>7 DEF InTile, Passed, Current
<1>15. \A v \in Warp : v # w => Spared(v)
  BY <1>1, <1>6, <1>7, <1>8 DEF Spared
<1> QED
  BY <1>1, <1>9, <1>13, <1>14, <1>15, OneWarp

LEMMA ReadStep ==
  ASSUME IInv, NEW w \in Warp, NEW v \in Warp, Read(w, v)
  PROVE  IInv'
<1>1. /\ pc[w] = "read" /\ v \in unread[w]
      /\ unread' = [unread EXCEPT ![w] = unread[w] \ {v}]
      /\ acc' = [acc EXCEPT ![w] =
           IF acc[w] # Spoilt /\ shared[readBuf[w]][v] = Data(tile[w], s[w])
             THEN acc[w] \cup {<<s[w], v>>} ELSE Spoilt]
      /\ UNCHANGED <<loop, work, pc, tile, s, readBuf, writeBuf, groups, shared>>
  BY DEF Read, Kernel
<1>2. TypeInv /\ Sync /\ WarpInv(w) /\ WarpInv(v) /\ s[w] \in Nat /\ unread[w] \in SUBSET Warp
  BY DEF IInv, TypeInv
<1>3. shared[readBuf[w]][v] = Data(tile[w], s[w])
  BY <1>1, <1>2, Readable
<1>4. acc[w] = ((0 .. s[w]) \X Warp) \ ({s[w]} \X unread[w])
  BY <1>1, <1>2 DEF WarpInv, Sum
<1>5. acc[w] # Spoilt
  <2>1. \A U : ((0 .. s[w]) \X Warp) \ U # Spoilt
    BY <1>2, SumFacts
  <2> QED
    BY <1>4, <2>1
<1>6. acc[w] \cup {<<s[w], v>>} = ((0 .. s[w]) \X Warp) \ ({s[w]} \X (unread[w] \ {v}))
  BY <1>1, <1>2, <1>4, SumFacts
<1>7. /\ unread' \in [Warp -> SUBSET Warp] /\ unread'[w] = unread[w] \ {v}
      /\ \A u \in Warp : u # w => unread'[u] = unread[u]
  BY <1>1, <1>2 DEF TypeInv
<1>8. /\ acc' \in [Warp -> SUBSET (Int \X Int)] /\ acc'[w] = acc[w] \cup {<<s[w], v>>}
      /\ \A u \in Warp : u # w => acc'[u] = acc[u]
  <2>1. acc' = [acc EXCEPT ![w] = acc[w] \cup {<<s[w], v>>}]
    BY <1>1, <1>3, <1>5
  <2>2. acc[w] \cup {<<s[w], v>>} \in SUBSET (Int \X Int)
    <3>1. s[w] \in Int /\ v \in Int
      BY <1>2, WarpsAssumption DEF Warp
    <3>2. acc[w] \in SUBSET (Int \X Int)
      BY <1>2 DEF TypeInv
    <3> QED
      BY <3>1, <3>2
  <2> QED
    BY <1>2, <2>1, <2>2 DEF TypeInv
<1>9. TypeInv'
  BY <1>1, <1>2, <1>7, <1>8 DEF TypeInv, Places
<1>10. PICK i, b : i = Issued(w) /\ b = NextBuf(w) /\ Pipe(w, i, b)
  BY <1>2 DEF WarpInv
<1>11. Pipe(w, i, b)'
  BY <1>1, <1>10 DEF Pipe, Newest, Before, RingLen
<1>12. Issued(w)' = i /\ NextBuf(w)' = b /\ Ahead(w)' = Ahead(w)
  <2>1. HasNext(w)' = HasNext(w)
    BY <1>1 DEF HasNext
  <2>2. Issued(w)' = i
    BY <1>1, <1>10, <2>1 DEF Issued
  <2> QED
    BY <1>1, <1>10, <2>1, <2>2 DEF NextBuf, Ahead
<1>13. Local(w)' /\ Left(w)'
  <2>1. (After(writeBuf[w]))' = After(writeBuf[w])
    BY <1>1 DEF After, RingLen
  <2> QED
    BY <1>1, <1>2, <2>1 DEF WarpInv, Local, Left
<1>14. Sum(w)'
  BY <1>1, <1>6, <1>7, <1>8 DEF Sum
<1>15. WarpInv(w)'
  <2>1. Len(groups'[w]) <= Ahead(w)'
    BY <1>1, <1>2, <1>12 DEF WarpInv
  <2> QED
    BY <1>11, <1>12, <1>13, <1>14, <2>1, WarpInvNow
<1>16. InTile(w)' = InTile(w) /\ Passed(w)' = Passed(w) /\ Current(w)' = Current(w)
  BY <1>1 DEF InTile, Passed, Current
<1>17. \A u \in Warp : u # w => Spared(u)
  BY <1>1, <1>7, <1>8 DEF Spared
<1> QED
  BY <1>1, <1>9, <1>15, <1>16, <1>17, OneWarp

LEMMA RotateStep ==
  ASSUME IInv, NEW w \in Warp, Rotate(w)
  PROVE  IInv'
<1> DEFINE l == IF s[w] + 1 < work[tile[w]] THEN "wait" ELSE "drain"
<1>1. /\ pc[w] = "read" /\ loop = "ring" /\ unread[w] = {}
      /\ s' = [s EXCEPT ![w] = s[w] + 1]
      /\ readBuf' = [readBuf EXCEPT ![w] = Next1(readBuf[w])]
      /\ writeBuf' = [writeBuf EXCEPT ![w] = Next1(writeBuf[w])]
      /\ pc' = [pc EXCEPT ![w] = l]
      /\ UNCHANGED <<loop, work, tile, groups, shared, unread, acc>>
  BY DEF Rotate, Goto, Kernel
<1>2. /\ TypeInv /\ WarpInv(w) /\ Stages \in Nat /\ Stages >= 2 /\ RingLen = Stages
      /\ work[tile[w]] \in Nat /\ s[w] \in Nat /\ s[w] < work[tile[w]]
      /\ readBuf[w] \in Buffer /\ writeBuf[w] \in Buffer /\ readBuf[w] = After(writeBuf[w])
  BY <1>1, WarpTypes DEF IInv, WarpInv, Local
<1>3. /\ Issued(w) = s[w] + Stages /\ NextBuf(w) = readBuf[w] /\ Ahead(w) = Stages - 1
  BY <1>1 DEF Issued, NextBuf, Ahead
<1>4. /\ Next1(readBuf[w]) = After(readBuf[w]) /\ Next1(writeBuf[w]) = readBuf[w]
      /\ After(readBuf[w]) \in Buffer
  BY <1>2 DEF Next1, After, Buffer
<1>5. l \in {"wait", "drain"} /\ l \in Places
  BY <1>1 DEF Places
<1>6. (l = "wait" => s[w] + 1 < work[tile[w]]) /\ (l = "drain" => s[w] + 1 = work[tile[w]])
  BY <1>2
<1> HIDE DEF l
<1>7. /\ s' \in [Warp -> Nat] /\ s'[w] = s[w] + 1
      /\ pc' \in [Warp -> Places] /\ pc'[w] = l
      /\ readBuf' \in [Warp -> Buffer] /\ readBuf'[w] = After(readBuf[w])
      /\ writeBuf' \in [Warp -> Buffer] /\ writeBuf'[w] = readBuf[w]
      /\ \A v \in Warp : v # w =>
           s'[v] = s[v] /\ pc'[v] = pc[v] /\ readBuf'[v] = readBuf[v] /\ writeBuf'[v] = writeBuf[v]
  <2>1. s' \in [Warp -> Nat] /\ s'[w] = s[w] + 1 /\ \A v \in Warp : v # w => s'[v] = s[v]
    BY <1>1, <1>2 DEF TypeInv
  <2>2. pc' \in [Warp -> Places] /\ pc'[w] = l /\ \A v \in Warp : v # w => pc'[v] = pc[v]
    BY <1>1, <1>2, <1>5 DEF TypeInv
  <2>3. /\ readBuf' \in [Warp -> Buffer] /\ readBuf'[w] = After(readBuf[w])
        /\ \A v \in Warp : v # w => readBuf'[v] = readBuf[v]
    BY <1>1, <1>2, <1>4 DEF TypeInv
  <2>4. /\ writeBuf' \in [Warp -> Buffer] /\ writeBuf'[w] = readBuf[w]
        /\ \A v \in Warp : v # w => writeBuf'[v] = writeBuf[v]
    BY <1>1, <1>2, <1>4 DEF TypeInv
  <2> QED
    BY <2>1, <2>2, <2>3, <2>4
<1>8. TypeInv'
  BY <1>1, <1>2, <1>7 DEF TypeInv, Places
<1>9. PICK i, b : i = Issued(w) /\ b = NextBuf(w) /\ Pipe(w, i, b)
  BY <1>2 DEF WarpInv
<1>10. Pipe(w, i, b)'
  BY <1>1, <1>9 DEF Pipe, Newest, Before, RingLen
<1>11. Issued(w)' = i /\ NextBuf(w)' = b /\ Ahead(w)' = Stages - 1
  BY <1>1, <1>2, <1>3, <1>5, <1>7, <1>9 DEF Issued, NextBuf, Ahead
<1>12. Local(w)' /\ Left(w)'
  <2>1. (After(writeBuf[w]))' = After(readBuf[w])
    BY <1>1, <1>7 DEF After, RingLen
  <2>2. tile[w] <= Len(work)
    BY <1>1, <1>2 DEF WarpInv, Local
  <2> QED
    BY <1>1, <1>2, <1>5, <1>6, <1>7, <2>1, <2>2 DEF Local, Left
<1>13. Sum(w)'
  <2>1. acc[w] = (0 .. s[w]) \X Warp
    BY <1>1, <1>2, SumFacts DEF WarpInv, Sum
  <2>2. s'[w] - 1 = s[w] /\ (l = "drain" => work[tile[w]] - 1 = s[w])
    BY <1>2, <1>6, <1>7
  <2>3. CASE l = "wait"
    BY <1>1, <1>7, <2>1, <2>2, <2>3 DEF Sum
  <2>4. CASE l = "drain"
    BY <1>1, <1>7, <2>1, <2>2, <2>4 DEF Sum
  <2> QED
    BY <1>5, <2>3, <2>4
<1>14. WarpInv(w)'
  <2>1. Len(groups'[w]) <= Ahead(w)'
    BY <1>1, <1>2, <1>3, <1>11 DEF WarpInv
  <2> QED
    BY <1>10, <1>11, <1>12, <1>13, <2>1, WarpInvNow
<1>15. InTile(w)' = InTile(w) /\ Passed(w)' = Passed(w) /\ Current(w)' = Current(w)
  BY <1>1, <1>2, <1>5, <1>7 DEF InTile, Passed, Current
<1>16. \A v \in Warp : v # w => Spared(v)
  BY <1>1, <1>7 DEF Spared
<1> QED
  BY <1>1, <1>8, <1>14, <1>15, <1>16, OneWarp

LEMMA DrainStep ==
  ASSUME IInv, NEW w \in Warp, Drain(w)
  PROVE  IInv'
<1> DEFINE l == IF tile[w] = Len(work) THEN "done" ELSE "top"
<1>1. /\ pc[w] = "drain" /\ WaitPrior(w, 0)
      /\ tile' = [tile EXCEPT ![w] = tile[w] + 1]
      /\ s' = [s EXCEPT ![w] = 0]
      /\ acc' = [acc EXCEPT ![w] = {}]
      /\ pc' = [pc EXCEPT ![w] = l]
      /\ UNCHANGED <<loop, work, readBuf, writeBuf, shared, unread>>
  BY DEF Drain, Goto, Kernel
<1>2. /\ TypeInv /\ WarpInv(w) /\ Stages \in Nat /\ Stages >= 2
      /\ work[tile[w]] \in Nat /\ tile[w] \in Nat \ {0} /\ tile[w] <= Len(work) /\ Len(work) \in Nat
      /\ s[w] = work[tile[w]] /\ loop \in {"ring", "double", "single"}
      /\ loop # "ring" => Len(work) = 1
  <2>1. TypeInv /\ WarpInv(w)
    BY DEF IInv
  <2>2. /\ Stages \in Nat /\ Stages >= 2
        /\ work[tile[w]] \in Nat /\ tile[w] \in Nat \ {0}
    BY <1>1, <2>1, WarpTypes
  <2>3. s[w] = work[tile[w]] /\ tile[w] <= Len(work)
    BY <1>1, <2>1 DEF WarpInv, Local
  <2>4. loop \in {"ring", "double", "single"} /\ Len(work) \in Nat /\ (loop # "ring" => Len(work) = 1)
    BY <2>1 DEF TypeInv
  <2> QED
    BY <2>1, <2>2, <2>3, <2>4
<1>3. PICK i \in Nat, b \in 0 .. RingLen - 1 : i = Issued(w) /\ b = NextBuf(w) /\ Pipe(w, i, b)
  BY <1>2, WarpTypes DEF WarpInv
<1>4. l \in {"done", "top"} /\ l \in Places /\ (l = "top" => loop = "ring" /\ tile[w] < Len(work))
  <2>1. tile[w] # Len(work) => loop = "ring" /\ tile[w] < Len(work)
    <3>1. tile[w] \in Nat /\ tile[w] >= 1 /\ Len(work) \in Nat /\ tile[w] <= Len(work)
      BY <1>2
    <3>2. loop # "ring" => Len(work) = 1
      BY <1>2
    <3> HIDE DEF l
    <3>3. tile[w] < Len(work) \/ tile[w] = Len(work)
      BY <3>1
    <3>4. loop # "ring" => tile[w] = Len(work)
      <4>1. \A x, y \in Nat : x >= 1 /\ x <= y /\ y = 1 => x = y
        OBVIOUS
      <4> QED
        BY <3>1, <3>2, <4>1
    <3> QED
      BY <3>3, <3>4
  <2>2. "done" \in Places /\ (loop = "ring" => "top" \in Places)
    BY <1>2 DEF Places
  <2> QED
    BY <2>1, <2>2
<1> HIDE DEF l
<1>5. /\ Len(groups'[w]) = 0 /\ groups' \in [Warp -> Seq(Group)]
      /\ \A v \in Warp : v # w => groups'[v] = groups[v]
  <2> DEFINE q == groups[w]
             u == Len(q) - 0
             r == IF u > 0 THEN SubSeq(q, u + 1, Len(q)) ELSE q
  <2>1. groups' = [groups EXCEPT ![w] = r]
    BY <1>1 DEF WaitPrior
  <2>2. q \in Seq(Group) /\ Len(q) \in Nat /\ u = Len(q)
    BY <1>2, GroupFacts
  <2>3. r \in Seq(Group) /\ Len(r) = 0
    <3>1. CASE u > 0
      <4>1. r = SubSeq(q, u + 1, Len(q)) /\ u + 1 \in Int /\ Len(q) \in Int /\ ~(u + 1 <= Len(q))
        BY <2>2, <3>1
      <4>2. \A x \in (u + 1) .. Len(q) : q[x] \in Group
        BY <2>2, <4>1
      <4> HIDE DEF q, u, r
      <4> QED
        BY <4>1, <4>2, SubSeqProperties
    <3>2. CASE ~(u > 0)
      BY <2>2, <3>2
    <3> QED
      BY <3>1, <3>2
  <2> QED
    BY <1>2, <2>1, <2>3 DEF TypeInv
<1>6. /\ s' \in [Warp -> Nat] /\ s'[w] = 0
      /\ pc' \in [Warp -> Places] /\ pc'[w] = l
      /\ tile' \in [Warp -> Nat \ {0}] /\ tile'[w] = tile[w] + 1
      /\ acc' \in [Warp -> SUBSET (Int \X Int)] /\ acc'[w] = {}
      /\ \A v \in Warp : v # w => s'[v] = s[v] /\ pc'[v] = pc[v] /\ tile'[v] = tile[v] /\ acc'[v] = acc[v]
  <2>1. s' \in [Warp -> Nat] /\ s'[w] = 0 /\ \A v \in Warp : v # w => s'[v] = s[v]
    BY <1>1, <1>2 DEF TypeInv
  <2>2. pc' \in [Warp -> Places] /\ pc'[w] = l /\ \A v \in Warp : v # w => pc'[v] = pc[v]
    BY <1>1, <1>2, <1>4 DEF TypeInv
  <2>3. /\ tile' \in [Warp -> Nat \ {0}] /\ tile'[w] = tile[w] + 1
        /\ \A v \in Warp : v # w => tile'[v] = tile[v]
    BY <1>1, <1>2 DEF TypeInv
  <2>4. /\ acc' \in [Warp -> SUBSET (Int \X Int)] /\ acc'[w] = {}
        /\ \A v \in Warp : v # w => acc'[v] = acc[v]
    BY <1>1, <1>2 DEF TypeInv
  <2> QED
    BY <2>1, <2>2, <2>3, <2>4
<1>7. TypeInv'
  BY <1>1, <1>2, <1>5, <1>6 DEF TypeInv, Places
<1>8. Issued(w)' = 0 /\ Ahead(w)' = 0
  BY <1>4, <1>6 DEF Issued, Ahead
<1>16. PICK c : c = NextBuf(w)'
  OBVIOUS
<1>9. Pipe(w, 0, c)'
  <2>1. 1 .. Len(groups'[w]) = {}
    BY <1>5
  <2>2. \A k \in 1 .. RingLen' : ~(k <= 0)
    BY <1>1, RingSize DEF RingLen
  <2> QED
    BY <2>1, <2>2 DEF Pipe
<1>10. Local(w)'
  <2>1. loop = "single" => readBuf[w] = 0
    BY <1>2 DEF WarpInv, Local
  <2>2. tile[w] + 1 <= Len(work) + 1 /\ (l = "top" => tile[w] + 1 <= Len(work))
    BY <1>2, <1>4
  <2> QED
    BY <1>1, <1>4, <1>6, <2>1, <2>2 DEF Local
<1>11. Left(w)'
  <2>1. tile[w] + 1 - 1 = tile[w]
    BY <1>2
  <2>2. ASSUME loop = "ring", work[tile[w]] > 0
        PROVE  shared[writeBuf[w]][w] = Data(tile[w], work[tile[w]] - 1)
    <3>1. Issued(w) = s[w] + Stages - 1 /\ NextBuf(w) = writeBuf[w] /\ Ahead(w) = Stages - 1 /\ RingLen = Stages
      BY <1>1, <2>2 DEF Issued, NextBuf, Ahead, RingLen
    <3>2. Len(groups[w]) \in Nat /\ Len(groups[w]) <= Stages - 1
      BY <1>2, <3>1, GroupFacts DEF WarpInv
    <3>3. /\ Stages \in 1 .. RingLen /\ Stages <= i /\ i - Stages = work[tile[w]] - 1
          /\ i - Stages < work[tile[w]] /\ ~(Stages <= Len(groups[w]))
      BY <1>2, <1>3, <2>2, <3>1, <3>2
    <3>4. shared[Before(b, Stages)][w] = Data(tile[w], i - Stages)
      BY <1>3, <3>3 DEF Pipe
    <3>5. Before(b, Stages) = writeBuf[w]
      BY <1>3, <3>1, RingFacts
    <3> QED
      BY <3>3, <3>4, <3>5
  <2>3. tile'[w] - 1 = tile[w]
    <3>1. tile'[w] = tile[w] + 1
      BY <1>6
    <3> QED
      BY <1>2, <2>1, <3>1
  <2>4. UNCHANGED <<loop, work, writeBuf, shared>> /\ pc'[w] \in {"top", "done"}
    BY <1>1, <1>4, <1>6
  <2> QED
    BY <2>2, <2>3, <2>4 DEF Left
<1>12. Sum(w)'
  BY <1>4, <1>6 DEF Sum
<1>13. WarpInv(w)'
  <2>1. Len(groups'[w]) <= Ahead(w)'
    BY <1>5, <1>8
  <2> QED
    BY <1>8, <1>9, <1>10, <1>11, <1>12, <1>16, <2>1, WarpInvNow
<1>14. InTile(w)' = InTile(w) /\ Passed(w)' = Passed(w) /\ Current(w)' = Current(w)
  <2>1. tile[w] + 1 - 1 = tile[w]
    BY <1>2
  <2> QED
    BY <1>1, <1>2, <1>4, <1>6, <2>1 DEF InTile, Passed, Current
<1>15. \A v \in Warp : v # w => Spared(v)
  BY <1>1, <1>5, <1>6 DEF Spared
<1> QED
  BY <1>1, <1>7, <1>13, <1>14, <1>15, OneWarp

\* The loops of one tile: a tile of at least one stage, in a ring of two.
LEMMA OneTile ==
  ASSUME TypeInv, NEW w \in Warp, WarpInv(w), loop # "ring", pc[w] # "done"
  PROVE  tile[w] = 1 /\ work[tile[w]] \in Nat /\ work[tile[w]] > 0
<1>1. /\ tile[w] \in Nat /\ tile[w] >= 1 /\ tile[w] <= Len(work) /\ Len(work) = 1
      /\ work[1] > 0 /\ work[tile[w]] \in Nat
  BY WarpTypes DEF WarpInv, Local, TypeInv
<1>2. \A x, y \in Nat : x >= 1 /\ x <= y /\ y = 1 => x = 1
  OBVIOUS
<1>3. tile[w] = 1
  BY <1>1, <1>2
<1> QED
  BY <1>1, <1>3

LEMMA TwoBuffers ==
  ASSUME loop # "ring", NEW i \in Nat
  PROVE  i % 2 \in 0 .. RingLen - 1 /\ After(i % 2) = (i + 1) % 2 /\ (i + 2) % 2 = i % 2
<1>1. RingLen = 2
  BY DEF RingLen
<1>2. i % 2 \in 0 .. 1 /\ (i + 1) % 2 = (IF i % 2 = 1 THEN 0 ELSE (i % 2) + 1) /\ (i + 2) % 2 = i % 2
  OBVIOUS
<1> QED
  BY <1>1, <1>2 DEF After

LEMMA PrologueDoubleStep ==
  ASSUME IInv, NEW w \in Warp, PrologueDouble(w)
  PROVE  IInv'
<1>1. /\ pc[w] = "prologue" /\ loop = "double" /\ Stage(w, 0, 0) /\ pc' = [pc EXCEPT ![w] = "issue"]
      /\ UNCHANGED <<loop, work, tile, s, readBuf, writeBuf, shared, unread, acc>>
  BY DEF PrologueDouble, Goto, Kernel
<1>2. TypeInv /\ WarpInv(w) /\ s[w] = 0 /\ readBuf[w] = s[w] % 2 /\ tile[w] <= Len(work) /\ acc[w] = {}
  BY <1>1 DEF IInv, WarpInv, Local, Sum
<1>3. work[tile[w]] \in Nat /\ work[tile[w]] > 0
  BY <1>1, <1>2, OneTile
<1>4. Issued(w) = 0 /\ NextBuf(w) = 0 /\ Ahead(w) = 0 /\ RingLen = 2 /\ After(0) = 1
  BY <1>1 DEF Issued, NextBuf, Ahead, RingLen, After
<1>5. Pipe(w, 0, 0) /\ Len(groups[w]) = 0
  BY <1>2, <1>4, GroupFacts DEF WarpInv
<1>6. PICK i \in Nat, b \in 0 .. RingLen - 1, c \in Nat : i = 0 /\ b = 0 /\ c = 1
  BY <1>4
<1>7. /\ Pipe(w, i + 1, c)' /\ Len(groups'[w]) = 1
      /\ groups' \in [Warp -> Seq(Group)]
      /\ \A v \in Warp : v # w => groups'[v] = groups[v]
  <2>1. c = After(b) /\ Pipe(w, i, b) /\ Stage(w, b, i) /\ Len(groups[w]) < RingLen
    BY <1>1, <1>4, <1>5, <1>6
  <2>2. /\ Pipe(w, i + 1, c)'
        /\ Len(groups'[w]) = Len(groups[w]) + 1
        /\ groups' \in [Warp -> Seq(Group)]
        /\ \A v \in Warp : v # w => groups'[v] = groups[v]
    BY <1>1, <1>2, <1>3, <2>1, StageKeeps
  <2> QED
    BY <1>5, <2>2
<1>8. pc' \in [Warp -> Places] /\ pc'[w] = "issue" /\ \A v \in Warp : v # w => pc'[v] = pc[v]
  <2>1. "issue" \in Places
    BY <1>1 DEF Places
  <2> QED
    BY <1>1, <1>2, <2>1 DEF TypeInv
<1>9. TypeInv'
  BY <1>1, <1>2, <1>7, <1>8 DEF TypeInv, Places
<1>10. Issued(w)' = i + 1 /\ NextBuf(w)' = c /\ Ahead(w)' = 1
  BY <1>1, <1>2, <1>6, <1>8 DEF Issued, NextBuf, Ahead
<1>11. Local(w)' /\ Left(w)'
  BY <1>1, <1>2, <1>3, <1>8 DEF Local, Left
<1>12. Sum(w)'
  <2>1. (0 .. 0 - 1) \X Warp = {}
    OBVIOUS
  <2> QED
    BY <1>1, <1>2, <1>8, <2>1 DEF Sum
<1>13. WarpInv(w)'
  <2>1. Len(groups'[w]) <= Ahead(w)'
    BY <1>7, <1>10
  <2> QED
    BY <1>7, <1>10, <1>11, <1>12, <2>1, WarpInvNow
<1>14. InTile(w)' = InTile(w) /\ Passed(w)' = Passed(w) /\ Current(w)' = Current(w)
  BY <1>1, <1>8 DEF InTile, Passed, Current
<1>15. \A v \in Warp : v # w => Spared(v)
  BY <1>1, <1>7, <1>8 DEF Spared
<1> QED
  BY <1>1, <1>9, <1>13, <1>14, <1>15, OneWarp

LEMMA IssueNextStep ==
  ASSUME IInv, NEW w \in Warp, IssueNext(w)
  PROVE  IInv'
<1>1. /\ pc[w] = "issue" /\ pc' = [pc EXCEPT ![w] = "wait"]
      /\ IF HasNext(w) THEN Stage(w, (s[w] + 1) % 2, s[w] + 1) ELSE UNCHANGED groups
      /\ UNCHANGED <<loop, work, tile, s, readBuf, writeBuf, shared, unread, acc>>
  BY DEF IssueNext, Goto, Kernel
<1>2. TypeInv /\ WarpInv(w) /\ s[w] \in Nat
  BY DEF IInv, TypeInv
<1>3. loop = "double"
  BY <1>1, <1>2 DEF TypeInv, Places
<1>4. work[tile[w]] \in Nat /\ RingLen = 2
  BY <1>1, <1>2, <1>3, OneTile DEF RingLen
<1>5. Issued(w) = s[w] + 1 /\ NextBuf(w) = (s[w] + 1) % 2 /\ Ahead(w) = 1
  BY <1>1, <1>3 DEF Issued, NextBuf, Ahead
<1>6. PICK i \in Nat, b \in 0 .. RingLen - 1 : i = s[w] + 1 /\ b = (s[w] + 1) % 2 /\ Pipe(w, i, b)
  BY <1>2, <1>5, WarpTypes DEF WarpInv
<1>7. Len(groups[w]) <= 1 /\ Len(groups[w]) \in Nat
  BY <1>2, <1>5, GroupFacts DEF WarpInv
<1>8. pc' \in [Warp -> Places] /\ pc'[w] = "wait" /\ \A v \in Warp : v # w => pc'[v] = pc[v]
  <2>1. "wait" \in Places
    BY <1>3 DEF Places
  <2> QED
    BY <1>1, <1>2, <2>1 DEF TypeInv
<1>9. HasNext(w)' = HasNext(w)
  BY <1>1 DEF HasNext
<1>10. PICK j, c :
         /\ j = (IF HasNext(w) THEN i + 1 ELSE i) /\ c = j % 2
         /\ Pipe(w, j, c)' /\ Len(groups'[w]) <= 2
         /\ groups' \in [Warp -> Seq(Group)]
         /\ \A v \in Warp : v # w => groups'[v] = groups[v]
  <2>1. CASE HasNext(w)
    <3>1. PICK c : c = After(b)
      OBVIOUS
    <3>2. c = (i + 1) % 2
      BY <1>3, <1>6, <3>1, TwoBuffers
    <3>3. Stage(w, b, i) /\ Len(groups[w]) < RingLen
      BY <1>1, <1>4, <1>6, <1>7, <2>1
    <3>4. /\ Pipe(w, i + 1, c)'
          /\ Len(groups'[w]) = Len(groups[w]) + 1
          /\ groups' \in [Warp -> Seq(Group)]
          /\ \A v \in Warp : v # w => groups'[v] = groups[v]
      BY <1>1, <1>2, <1>4, <1>6, <3>1, <3>3, StageKeeps
    <3>5. Len(groups'[w]) <= 2
      BY <1>7, <3>4
    <3> QED
      BY <2>1, <3>2, <3>4, <3>5
  <2>2. CASE ~HasNext(w)
    <3>1. UNCHANGED groups
      BY <1>1, <2>2
    <3>2. Pipe(w, i, b)'
      BY <1>1, <1>6, <3>1 DEF Pipe, Newest, Before, RingLen
    <3>3. Len(groups'[w]) <= 2 /\ groups' \in [Warp -> Seq(Group)]
      BY <1>2, <1>7, <3>1 DEF TypeInv
    <3> QED
      BY <1>6, <2>2, <3>1, <3>2, <3>3
  <2> QED
    BY <2>1, <2>2
<1>11. TypeInv'
  BY <1>1, <1>2, <1>8, <1>10 DEF TypeInv, Places
<1>12. Issued(w)' = j /\ NextBuf(w)' = c /\ Ahead(w)' = 2
  <2>1. Issued(w)' = j
    <3>1. (HasNext(w) => j = s[w] + 2) /\ (~HasNext(w) => j = s[w] + 1)
      BY <1>2, <1>6, <1>10
    <3> QED
      BY <1>1, <1>3, <1>8, <1>9, <3>1 DEF Issued
  <2> QED
    BY <1>1, <1>3, <1>8, <1>10, <2>1 DEF NextBuf, Ahead
<1>13. Local(w)' /\ Left(w)' /\ Sum(w)'
  BY <1>1, <1>2, <1>3, <1>8 DEF WarpInv, Local, Left, Sum
<1>14. WarpInv(w)'
  BY <1>10, <1>12, <1>13, WarpInvNow
<1>15. InTile(w)' = InTile(w) /\ Passed(w)' = Passed(w) /\ Current(w)' = Current(w)
  BY <1>1, <1>3, <1>8 DEF InTile, Passed, Current
<1>16. \A v \in Warp : v # w => Spared(v)
  BY <1>1, <1>8, <1>10 DEF Spared
<1> QED
  BY <1>1, <1>11, <1>14, <1>15, <1>16, OneWarp

LEMMA FillStep ==
  ASSUME IInv, NEW w \in Warp, Fill(w)
  PROVE  IInv'
<1>1. /\ pc[w] = "fill" /\ pc' = [pc EXCEPT ![w] = "barrier"]
      /\ shared' = [shared EXCEPT ![0] = [shared[0] EXCEPT ![w] = Data(tile[w], s[w])]]
      /\ UNCHANGED <<loop, work, tile, s, readBuf, writeBuf, groups, unread, acc>>
  BY DEF Fill, Goto, Kernel
<1>2. TypeInv /\ WarpInv(w) /\ s[w] \in Nat /\ tile[w] \in Nat \ {0} /\ 0 \in Buffer
  <2>1. TypeInv /\ WarpInv(w)
    BY DEF IInv
  <2>2. 0 \in Buffer
    BY StagesAssumption DEF Buffer
  <2> QED
    BY <2>1, <2>2 DEF TypeInv
<1>3. loop = "single"
  BY <1>1, <1>2 DEF TypeInv, Places
<1>4. pc' \in [Warp -> Places] /\ pc'[w] = "barrier" /\ \A v \in Warp : v # w => pc'[v] = pc[v]
  <2>1. "barrier" \in Places
    BY DEF Places
  <2> QED
    BY <1>1, <1>2, <2>1 DEF TypeInv
<1>5. /\ shared' \in [Buffer -> [Warp -> Int \X Int]] /\ shared'[0][w] = Data(tile[w], s[w])
      /\ \A b \in Buffer, v \in Warp : v # w => shared'[b][v] = shared[b][v]
  <2>1. Data(tile[w], s[w]) \in Int \X Int
    BY <1>2 DEF Data
  <2> QED
    BY <1>1, <1>2, <2>1 DEF TypeInv
<1>6. TypeInv'
  BY <1>1, <1>2, <1>4, <1>5 DEF TypeInv, Places
<1>7. Len(groups[w]) = 0 /\ Issued(w)' = 0 /\ Ahead(w)' = 0
  BY <1>1, <1>2, <1>3, GroupFacts DEF WarpInv, Ahead, Issued
<1>8. PICK c : c = NextBuf(w)'
  OBVIOUS
<1>9. Pipe(w, 0, c)'
  <2>1. 1 .. Len(groups'[w]) = {}
    BY <1>1, <1>7
  <2>2. \A k \in 1 .. RingLen' : ~(k <= 0)
    BY <1>1, RingSize DEF RingLen
  <2> QED
    BY <2>1, <2>2 DEF Pipe
<1>10. Local(w)' /\ Left(w)' /\ Sum(w)'
  BY <1>1, <1>2, <1>3, <1>4, <1>5 DEF WarpInv, Local, Left, Sum
<1>11. WarpInv(w)'
  <2>1. Len(groups'[w]) <= Ahead(w)'
    BY <1>1, <1>7
  <2> QED
    BY <1>7, <1>8, <1>9, <1>10, <2>1, WarpInvNow
<1>12. InTile(w)' = InTile(w) /\ Passed(w)' = Passed(w) /\ Current(w)' = Current(w)
  BY <1>1, <1>3, <1>4 DEF InTile, Passed, Current
<1>13. \A v \in Warp : v # w => Spared(v)
  BY <1>1, <1>4, <1>5 DEF Spared
<1> QED
  BY <1>1, <1>6, <1>11, <1>12, <1>13, OneWarp

LEMMA ReadDoneStep ==
  ASSUME IInv, NEW w \in Warp, ReadDone(w)
  PROVE  IInv'
<1>1. /\ pc[w] = "read" /\ loop # "ring" /\ unread[w] = {} /\ pc' = [pc EXCEPT ![w] = "again"]
      /\ UNCHANGED <<loop, work, tile, s, readBuf, writeBuf, groups, shared, unread, acc>>
  BY DEF ReadDone, Goto, Kernel
<1>2. TypeInv /\ WarpInv(w) /\ s[w] \in Nat
  BY DEF IInv, TypeInv
<1>3. pc' \in [Warp -> Places] /\ pc'[w] = "again" /\ \A v \in Warp : v # w => pc'[v] = pc[v]
  <2>1. "again" \in Places
    BY <1>1, <1>2 DEF Places, TypeInv
  <2> QED
    BY <1>1, <1>2, <2>1 DEF TypeInv
<1>4. TypeInv'
  BY <1>1, <1>2, <1>3 DEF TypeInv, Places
<1>5. PICK i, b : i = Issued(w) /\ b = NextBuf(w) /\ Pipe(w, i, b)
  BY <1>2 DEF WarpInv
<1>6. Pipe(w, i, b)'
  BY <1>1, <1>5 DEF Pipe, Newest, Before, RingLen
<1>7. Issued(w)' = i /\ NextBuf(w)' = b /\ Ahead(w)' = Ahead(w)
  <2>1. HasNext(w)' = HasNext(w)
    BY <1>1 DEF HasNext
  <2>2. Issued(w)' = i
    BY <1>1, <1>3, <1>5, <2>1 DEF Issued
  <2> QED
    BY <1>1, <1>3, <1>5, <2>1, <2>2 DEF NextBuf, Ahead
<1>8. Local(w)' /\ Left(w)'
  BY <1>1, <1>2, <1>3 DEF WarpInv, Local, Left
<1>9. Sum(w)'
  <2>1. acc[w] = (0 .. s[w]) \X Warp
    BY <1>1, <1>2, SumFacts DEF WarpInv, Sum
  <2> QED
    BY <1>1, <1>3, <2>1 DEF Sum
<1>10. WarpInv(w)'
  <2>1. Len(groups'[w]) <= Ahead(w)'
    BY <1>1, <1>2, <1>7 DEF WarpInv
  <2> QED
    BY <1>6, <1>7, <1>8, <1>9, <2>1, WarpInvNow
<1>11. InTile(w)' = InTile(w) /\ Passed(w)' = Passed(w) /\ Current(w)' = Current(w)
  BY <1>1, <1>3 DEF InTile, Passed, Current
<1>12. \A v \in Warp : v # w => Spared(v)
  BY <1>1, <1>3 DEF Spared
<1> QED
  BY <1>1, <1>4, <1>10, <1>11, <1>12, OneWarp

-------------------------------------------------------------------------------
(* The steps of all the warps.                                             *)

LEMMA BarrierStep ==
  ASSUME IInv, Barrier
  PROVE  IInv'
<1> DEFINE l == IF loop = "ring" THEN "stage" ELSE "read"
<1>1. /\ \A w \in Warp : pc[w] = "barrier"
      /\ pc' = [w \in Warp |-> l]
      /\ loop = "ring" => UNCHANGED unread
      /\ loop # "ring" => unread' = [w \in Warp |-> Warp]
      /\ UNCHANGED <<loop, work, tile, s, readBuf, writeBuf, groups, shared, acc>>
  BY DEF Barrier, Kernel
<1>2. TypeInv /\ Sync /\ \A w \in Warp : WarpInv(w)
  BY DEF IInv
<1>3. l \in {"stage", "read"} /\ l \in Places /\ (l = "stage" <=> loop = "ring")
  BY <1>2 DEF Places, TypeInv
<1> HIDE DEF l
<1>4. pc' \in [Warp -> Places] /\ unread' \in [Warp -> SUBSET Warp]
  BY <1>1, <1>2, <1>3 DEF TypeInv
<1>5. TypeInv'
  BY <1>1, <1>2, <1>4 DEF TypeInv, Places
<1>6. ASSUME NEW w \in Warp PROVE WarpInv(w)'
  <2>1. /\ pc[w] = "barrier" /\ pc'[w] = l /\ WarpInv(w) /\ s[w] \in Nat
        /\ loop # "ring" => unread'[w] = Warp
    BY <1>1, <1>2 DEF TypeInv
  <2>2. PICK i, b : i = Issued(w) /\ b = NextBuf(w) /\ Pipe(w, i, b)
    BY <2>1 DEF WarpInv
  <2>3. Pipe(w, i, b)'
    BY <1>1, <2>2 DEF Pipe, Newest, Before, RingLen
  <2>4. Issued(w)' = i /\ NextBuf(w)' = b /\ Ahead(w)' = Ahead(w)
    <3>1. HasNext(w)' = HasNext(w)
      BY <1>1 DEF HasNext
    <3>2. Issued(w)' = i
      BY <1>1, <1>3, <2>1, <2>2, <3>1 DEF Issued
    <3> QED
      BY <1>1, <1>3, <2>1, <2>2, <3>1, <3>2 DEF NextBuf, Ahead
  <2>5. Local(w)' /\ Left(w)'
    <3>1. (After(writeBuf[w]))' = After(writeBuf[w])
      BY <1>1 DEF After, RingLen
    <3> QED
      BY <1>1, <1>3, <2>1, <3>1 DEF WarpInv, Local, Left
  <2>6. Sum(w)'
    <3>1. acc[w] = (0 .. s[w] - 1) \X Warp
      BY <2>1 DEF WarpInv, Sum
    <3>2. acc[w] = ((0 .. s[w]) \X Warp) \ ({s[w]} \X Warp)
      BY <2>1, <3>1, SumFacts
    <3> QED
      BY <1>1, <1>3, <2>1, <3>1, <3>2 DEF Sum
  <2>7. Len(groups'[w]) <= Ahead(w)'
    BY <1>1, <2>1, <2>4 DEF WarpInv
  <2> QED
    BY <2>3, <2>4, <2>5, <2>6, <2>7, WarpInvNow
<1>7. ASSUME NEW w \in Warp
      PROVE  /\ InTile(w)' = InTile(w)
             /\ Passed(w)' = Passed(w) + 1
             /\ Current(w)' = IF loop = "ring" THEN After(Current(w)) ELSE 0
  <2>1. pc[w] = "barrier" /\ pc'[w] = l /\ s[w] \in Nat
    BY <1>1, <1>2 DEF TypeInv
  <2>2. loop = "ring" => readBuf[w] = After(writeBuf[w])
    BY <1>2, <2>1 DEF WarpInv, Local
  <2>3. InTile(w)' = InTile(w) /\ Passed(w)' = Passed(w) + 1
    BY <1>1, <1>3, <2>1 DEF InTile, Passed
  <2>4. Current(w)' = IF loop = "ring" THEN After(Current(w)) ELSE 0
    BY <1>1, <1>3, <2>1, <2>2 DEF Current
  <2> QED
    BY <2>3, <2>4
<1>8. Sync'
  BY <1>2, <1>7 DEF Sync
<1> QED
  BY <1>5, <1>6, <1>8 DEF IInv

LEMMA TopStep ==
  ASSUME IInv, Top
  PROVE  IInv'
<1>1. /\ \A w \in Warp : pc[w] = "top"
      /\ pc' = [w \in Warp |-> "prologue"]
      /\ UNCHANGED <<loop, work, tile, s, readBuf, writeBuf, groups, shared, unread, acc>>
  BY DEF Top, Kernel
<1>2. TypeInv /\ Sync /\ \A w \in Warp : WarpInv(w)
  BY DEF IInv
<1>3. loop = "ring"
  <2>1. 0 \in Warp
    BY WarpsAssumption DEF Warp
  <2> QED
    BY <1>1, <1>2, <2>1 DEF TypeInv, Places
<1>4. pc' \in [Warp -> Places]
  BY <1>1, <1>3 DEF Places
<1>5. TypeInv'
  BY <1>1, <1>2, <1>4 DEF TypeInv, Places
<1>6. ASSUME NEW w \in Warp
      PROVE  /\ pc[w] = "top" /\ pc'[w] = "prologue" /\ WarpInv(w)
             /\ s[w] = 0 /\ tile[w] \in Nat \ {0} /\ tile[w] <= Len(work) /\ acc[w] = {}
  <2>1. pc[w] = "top" /\ pc'[w] = "prologue" /\ WarpInv(w)
    BY <1>1, <1>2
  <2>2. s[w] = 0 /\ tile[w] <= Len(work) /\ acc[w] = {}
    BY <2>1 DEF WarpInv, Local, Sum
  <2>3. tile[w] \in Nat \ {0}
    BY <1>2 DEF TypeInv
  <2> QED
    BY <2>1, <2>2, <2>3
<1>7. ASSUME NEW w \in Warp PROVE WarpInv(w)'
  <2>1. PICK i, b : i = Issued(w) /\ b = NextBuf(w) /\ Pipe(w, i, b)
    BY <1>2 DEF WarpInv
  <2>2. Pipe(w, i, b)'
    BY <1>1, <2>1 DEF Pipe, Newest, Before, RingLen
  <2>3. i = 0 /\ b = 0 /\ Ahead(w) = 0
    BY <1>3, <1>6, <2>1 DEF Issued, NextBuf, Ahead
  <2>4. Issued(w)' = i /\ NextBuf(w)' = b /\ Ahead(w)' = 0
    BY <1>1, <1>3, <1>6, <2>3 DEF Issued, NextBuf, Ahead
  <2>5. Local(w)' /\ Left(w)' /\ Sum(w)'
    <3>1. 0 <= Stages - 2
      BY StagesAssumption
    <3> QED
      BY <1>1, <1>3, <1>6, <3>1 DEF Local, Left, Sum
  <2>6. Len(groups'[w]) <= Ahead(w)'
    BY <1>1, <1>2, <2>3, <2>4 DEF WarpInv
  <2> QED
    BY <2>2, <2>4, <2>5, <2>6, WarpInvNow
<1>8. \A w, v \in Warp : tile[w] = tile[v]
  <2>1. \A w, v \in Warp : tile[w] - 1 = tile[v] - 1
    BY <1>1, <1>2 DEF Sync, InTile
  <2> QED
    BY <1>6, <2>1
<1>9. \A w \in Warp : InTile(w)' = tile[w] /\ Passed(w)' = 0 /\ Current(w)' = Stages - 1
  BY <1>1, <1>3, <1>6 DEF InTile, Passed, Current
<1>10. Sync'
  BY <1>8, <1>9 DEF Sync
<1> QED
  BY <1>5, <1>7, <1>10 DEF IInv

LEMMA AgainStep ==
  ASSUME IInv, Again
  PROVE  IInv'
<1> DEFINE l(w) == IF ~HasNext(w) THEN "drain" ELSE IF loop = "double" THEN "issue" ELSE "fill"
           r(w) == IF loop = "double" THEN (s[w] + 1) % 2 ELSE 0
<1>1. /\ \A w \in Warp : pc[w] = "again"
      /\ s' = [w \in Warp |-> s[w] + 1]
      /\ readBuf' = [w \in Warp |-> r(w)]
      /\ pc' = [w \in Warp |-> l(w)]
      /\ UNCHANGED <<loop, work, tile, writeBuf, groups, shared, unread, acc>>
  BY DEF Again, Kernel
<1>2. TypeInv /\ Sync /\ \A w \in Warp : WarpInv(w)
  BY DEF IInv
<1>3. loop \in {"double", "single"}
  <2>1. 0 \in Warp
    BY WarpsAssumption DEF Warp
  <2> QED
    BY <1>1, <1>2, <2>1 DEF TypeInv, Places
<1>4. ASSUME NEW w \in Warp
      PROVE  /\ pc[w] = "again" /\ WarpInv(w) /\ s[w] \in Nat /\ tile[w] = 1
             /\ work[tile[w]] \in Nat /\ s[w] < work[tile[w]] /\ tile[w] <= Len(work)
             /\ acc[w] = (0 .. s[w]) \X Warp
             /\ l(w) \in {"drain", "issue", "fill"} /\ l(w) \in Places
             /\ l(w) = "issue" => loop = "double"
             /\ l(w) = "fill" => loop = "single"
             /\ l(w) = "drain" => s[w] + 1 = work[tile[w]] /\ ~HasNext(w)
             /\ l(w) # "drain" => s[w] + 1 < work[tile[w]] /\ HasNext(w)
             /\ r(w) \in Buffer /\ r(w) \in {0, 1}
  <2>1. pc[w] = "again" /\ WarpInv(w) /\ s[w] \in Nat
    BY <1>1, <1>2 DEF TypeInv
  <2>2. tile[w] = 1 /\ work[tile[w]] \in Nat
    BY <1>2, <1>3, <2>1, OneTile
  <2>3. s[w] < work[tile[w]] /\ tile[w] <= Len(work) /\ acc[w] = (0 .. s[w]) \X Warp
    BY <2>1 DEF WarpInv, Local, Sum
  <2>4. l(w) \in {"drain", "issue", "fill"} /\ l(w) \in Places
        /\ (l(w) = "issue" => loop = "double") /\ (l(w) = "fill" => loop = "single")
        /\ (l(w) = "drain" <=> ~HasNext(w))
    BY <1>3 DEF Places
  <2>5. ~HasNext(w) => s[w] + 1 = work[tile[w]]
    BY <2>1, <2>2, <2>3 DEF HasNext
  <2>6. HasNext(w) => s[w] + 1 < work[tile[w]]
    BY DEF HasNext
  <2>7. r(w) \in {0, 1}
    <3>1. (s[w] + 1) % 2 \in {0, 1}
      BY <2>1
    <3> QED
      BY <3>1
  <2>8. r(w) \in Buffer
    BY <2>7, StagesAssumption DEF Buffer
  <2> HIDE DEF l, r
  <2> QED
    BY <2>1, <2>2, <2>3, <2>4, <2>5, <2>6, <2>7, <2>8
<1> HIDE DEF l
<1>5. pc' \in [Warp -> Places] /\ s' \in [Warp -> Nat] /\ readBuf' \in [Warp -> Buffer]
  <2> HIDE DEF r
  <2> QED
    BY <1>1, <1>4
<1>6. TypeInv'
  BY <1>1, <1>2, <1>5 DEF TypeInv, Places
<1>7. ASSUME NEW w \in Warp PROVE WarpInv(w)'
  <2>1. PICK i, b : i = Issued(w) /\ b = NextBuf(w) /\ Pipe(w, i, b)
    BY <1>2 DEF WarpInv
  <2>2. Pipe(w, i, b)'
    BY <1>1, <2>1 DEF Pipe, Newest, Before, RingLen
  <2>3. /\ s'[w] = s[w] + 1 /\ pc'[w] = l(w) /\ readBuf'[w] = r(w)
        /\ s[w] + 1 + 1 = s[w] + 2 /\ s[w] + 1 - 1 = s[w] /\ loop' = loop /\ loop # "ring"
    BY <1>1, <1>3, <1>4
  <2>4. Issued(w)' = i
    <3>1. CASE loop = "single"
      BY <2>1, <2>3, <3>1 DEF Issued
    <3>2. CASE loop = "double" /\ HasNext(w)
      BY <1>4, <2>1, <2>3, <3>2 DEF Issued
    <3>3. CASE loop = "double" /\ ~HasNext(w)
      BY <1>4, <2>1, <2>3, <3>3 DEF Issued
    <3> QED
      BY <1>3, <3>1, <3>2, <3>3
  <2>5. NextBuf(w)' = b
    BY <2>1, <2>3, <2>4 DEF NextBuf
  <2>6. Ahead(w)' = Ahead(w)
    BY <1>3, <1>4, <2>3 DEF Ahead
  <2>7. Local(w)'
    <3>1. s[w] + 1 < work[tile[w]] \/ pc'[w] = "drain"
      BY <1>4, <2>3
    <3>2. pc'[w] = "drain" => s[w] + 1 = work[tile[w]]
      BY <1>4, <2>3
    <3>3. pc'[w] \in {"drain", "issue", "fill"} /\ tile'[w] <= Len(work)'
      BY <1>1, <1>4, <2>3
    <3> QED
      BY <1>1, <1>3, <2>3, <3>1, <3>2, <3>3 DEF Local
  <2>8. Left(w)'
    BY <1>1, <1>4, <2>3 DEF Left
  <2>9. Sum(w)'
    <3>1. CASE pc'[w] = "drain"
      <4>1. s[w] + 1 = work[tile[w]] /\ s[w] \in Nat
        BY <1>4, <2>3, <3>1
      <4>2. work[tile[w]] - 1 = s[w]
        BY <4>1
      <4>3. acc'[w] = (0 .. work'[tile'[w]] - 1) \X Warp
        BY <1>1, <1>4, <4>2
      <4> QED
        BY <3>1, <4>3 DEF Sum
    <3>2. CASE pc'[w] \in {"issue", "fill"}
      <4>1. acc'[w] = (0 .. s'[w] - 1) \X Warp
        BY <1>1, <1>4, <2>3
      <4> QED
        BY <3>2, <4>1 DEF Sum
    <3> QED
      BY <1>4, <2>3, <3>1, <3>2
  <2>10. Len(groups'[w]) <= Ahead(w)'
    BY <1>1, <1>2, <2>6 DEF WarpInv
  <2> QED
    BY <2>2, <2>4, <2>5, <2>7, <2>8, <2>9, <2>10, WarpInvNow
<1>8. ASSUME NEW w \in Warp
      PROVE  InTile(w)' = InTile(w) /\ Passed(w)' = Passed(w) + 1 /\ Current(w)' = Current(w)
  <2>1. s'[w] = s[w] + 1 /\ pc'[w] = l(w) /\ loop' = loop /\ tile' = tile
    BY <1>1
  <2>2. Passed(w)' = Passed(w) + 1
    <3>1. Passed(w)' = 2 * (s[w] + 1) /\ Passed(w) = 2 * s[w] + 1
      BY <1>3, <1>4, <2>1 DEF Passed
    <3> QED
      BY <1>4, <3>1
  <2> QED
    BY <1>3, <1>4, <2>1, <2>2 DEF InTile, Current
<1>9. Sync'
  BY <1>2, <1>8 DEF Sync
<1> QED
  BY <1>6, <1>7, <1>9 DEF IInv

LEMMA StutterStep ==
  ASSUME IInv, UNCHANGED vars
  PROVE  IInv'
<1>1. UNCHANGED <<loop, work, pc, tile, s, readBuf, writeBuf, groups, shared, unread, acc>>
  BY DEF vars
<1>2. TypeInv'
  BY <1>1 DEF IInv, TypeInv, Places
<1>3. PICK w : w \in Warp /\ w = 0
  BY WarpsAssumption DEF Warp
<1>4. \A v \in Warp : Spared(v)
  BY <1>1 DEF Spared
<1>5. WarpInv(w)' /\ InTile(w)' = InTile(w) /\ Passed(w)' = Passed(w) /\ Current(w)' = Current(w)
  BY <1>1, <1>3, <1>4, Frame DEF IInv
<1> QED
  BY <1>1, <1>2, <1>3, <1>4, <1>5, OneWarp

-------------------------------------------------------------------------------
(* The invariant, and what follows from it.                                *)

LEMMA InitInv == Init => IInv
<1> SUFFICES ASSUME Init PROVE IInv
  OBVIOUS
<1>1. work \in Seq(Nat) /\ loop \in {"ring", "double", "single"}
      /\ (loop # "ring" => Len(work) = 1 /\ work[1] > 0)
  <2>1. CASE loop = "ring" /\ work = Work
    BY <2>1, WorkAssumption
  <2>2. CASE loop \in {"double", "single"} /\ work \in {<<n>> : n \in Depths}
    <3>1. PICK n \in Depths : work = <<n>>
      BY <2>2
    <3>2. n \in Nat /\ n > 0
      BY DepthsAssumption
    <3> QED
      BY <2>2, <3>1, <3>2
  <2> QED
    BY <2>1, <2>2 DEF Init
<1>2. Len(work) \in Nat /\ (loop # "ring" => Len(work) # 0)
  BY <1>1
<1> DEFINE l == IF Len(work) = 0 THEN "done" ELSE IF loop = "single" THEN "fill" ELSE "prologue"
<1>3. /\ pc = [w \in Warp |-> l]
      /\ tile = [w \in Warp |-> 1] /\ s = [w \in Warp |-> 0]
      /\ readBuf = [w \in Warp |-> 0] /\ writeBuf = [w \in Warp |-> 0]
      /\ groups = [w \in Warp |-> <<>>]
      /\ shared = [b \in Buffer |-> [w \in Warp |-> Junk]]
      /\ unread = [w \in Warp |-> {}] /\ acc = [w \in Warp |-> {}]
  BY DEF Init
<1>4. /\ l \in {"done", "fill", "prologue"} /\ l \in Places
      /\ l = "done" => Len(work) = 0 /\ loop = "ring"
      /\ l # "done" => Len(work) > 0
      /\ l = "fill" => loop = "single"
      /\ l = "prologue" => loop \in {"ring", "double"}
  <2>1. l \in {"done", "fill", "prologue"} /\ (l = "done" <=> Len(work) = 0)
        /\ (l = "fill" => loop = "single") /\ (l = "prologue" => loop \in {"ring", "double"})
    BY <1>1
  <2> HIDE DEF l
  <2>2. l = "done" => loop = "ring"
    BY <1>2, <2>1
  <2>3. l \in Places
    BY <2>1, <2>2 DEF Places
  <2>4. l # "done" => Len(work) > 0
    BY <1>2, <2>1
  <2> QED
    BY <2>1, <2>2, <2>3, <2>4
<1> HIDE DEF l
<1>5. 0 \in Buffer /\ 0 <= Stages - 2 /\ Junk \in Int \X Int
  BY StagesAssumption DEF Buffer, Junk
<1>6. TypeInv
  BY <1>1, <1>3, <1>4, <1>5 DEF TypeInv
<1>7. ASSUME NEW w \in Warp PROVE WarpInv(w)
  <2>1. /\ pc[w] = l /\ tile[w] = 1 /\ s[w] = 0 /\ readBuf[w] = 0 /\ Len(groups[w]) = 0 /\ acc[w] = {}
    BY <1>3
  <2>2. Issued(w) = 0 /\ Ahead(w) = 0
    BY <1>4, <2>1 DEF Issued, Ahead
  <2>3. Pipe(w, 0, NextBuf(w))
    <3>1. \A k \in 1 .. RingLen : ~(k <= 0)
      BY RingSize
    <3>2. 1 .. Len(groups[w]) = {}
      BY <2>1
    <3> QED
      BY <3>1, <3>2 DEF Pipe
  <2>4. l = "fill" => 0 < work[1]
    BY <1>1, <1>4
  <2>5. (0 .. 0 - 1) \X Warp = {}
    OBVIOUS
  <2>6. Local(w)
    BY <1>2, <1>4, <1>5, <2>1, <2>4 DEF Local
  <2>7. Left(w) /\ Sum(w)
    BY <1>4, <2>1, <2>5 DEF Left, Sum
  <2> QED
    BY <2>1, <2>2, <2>3, <2>6, <2>7 DEF WarpInv
<1>8. Sync
  <2>1. \A w \in Warp : pc[w] = l /\ tile[w] = 1 /\ s[w] = 0 /\ readBuf[w] = 0 /\ writeBuf[w] = 0
    BY <1>3
  <2> QED
    BY <2>1 DEF Sync, InTile, Passed, Current
<1> QED
  BY <1>6, <1>7, <1>8 DEF IInv

LEMMA StepInv == IInv /\ [Next]_vars => IInv'
<1> SUFFICES ASSUME IInv, [Next]_vars PROVE IInv'
  OBVIOUS
<1>1. CASE Top
  BY <1>1, TopStep
<1>2. CASE Barrier
  BY <1>2, BarrierStep
<1>3. CASE Again
  BY <1>3, AgainStep
<1>4. CASE Done \/ UNCHANGED vars
  BY <1>4, StutterStep DEF Done
<1>5. ASSUME NEW w \in Warp, WarpStep(w) PROVE IInv'
  BY <1>5, PrologueStep, WaitStep, StageNextStep, ReadStep, RotateStep, DrainStep,
     PrologueDoubleStep, IssueNextStep, FillStep, ReadDoneStep DEF WarpStep
<1>6. ASSUME NEW w \in Warp, Land(w) PROVE IInv'
  BY <1>6, LandStep
<1> QED
  BY <1>1, <1>2, <1>3, <1>4, <1>5, <1>6 DEF Next

LEMMA Invariance == Spec => []IInv
BY InitInv, StepInv, PTL DEF Spec

\* However deep the ring, however many warps and whatever tiles follow each
\* other: the sum each warp has holds every part of every stage it has come
\* past, and nothing it read before it was there.
THEOREM SumExactHolds == Spec => []SumExact
<1>1. IInv => SumExact
  BY DEF IInv, WarpInv, Sum, SumExact
<1> QED
  BY <1>1, Invariance, PTL

\* No copy in flight and no store about to be made aims at a buffer that some
\* warp of the CTA has still to load from.
THEOREM NoCopyUnderReadHolds == Spec => []NoCopyUnderRead
<1>1. IInv => NoCopyUnderRead
  <2> SUFFICES ASSUME IInv, NEW w \in Warp, NEW v \in Warp, pc[v] = "read"
               PROVE  /\ pc[w] # "fill"
                      /\ \A g \in DOMAIN groups[w] : ~groups[w][g].landed => groups[w][g].buf # readBuf[v]
    BY DEF NoCopyUnderRead
  <2> QED
    BY Readable DEF IInv
<1> QED
  BY <1>1, Invariance, PTL
===============================================================================
