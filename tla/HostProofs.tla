------------------------------- MODULE HostProofs -------------------------------
(***************************************************************************)
(* Four components whose calls the host makes one after another: SplitK,   *)
(* for every contraction length, K step, set of requests and number of     *)
(* calls; NvmlMonitor, for every set of objects and of what they hold,     *)
(* every number of windows and of samples; ConstantBank, for every set of  *)
(* plans and streams; DenseSolver, for every set of streams and of sizes.  *)
(*                                                                         *)
(* The last three are instances.  Each part is about one component: a name *)
(* two of them use, such as pc, queue or Calls, stands for that            *)
(* component's own wherever the part speaks of it.                         *)
(***************************************************************************)
EXTENDS SplitK, NvmlState, FilterSpec, SolverState, SequenceTheorems, FiniteSetTheorems, TLAPS

Nvml == INSTANCE NvmlMonitor

\* What ConstantBank keeps besides heard, built, pc and queue.
VARIABLES owner, bank, cur, calls
Bank == INSTANCE ConstantBank

Solver == INSTANCE DenseSolver

-------------------------------------------------------------------------------
(* SplitK: the slices.                                                     *)

\* The one fact about the division: the rounded quotient is the first multiple
\* that reaches a.
LEMMA CeilDivBounds ==
  ASSUME NEW a \in Nat, NEW b \in Nat \ {0}
  PROVE  /\ CeilDiv(a, b) \in Nat
         /\ a <= CeilDiv(a, b) * b
         /\ CeilDiv(a, b) * b < a + b
<1>1. /\ a + b - 1 \in Nat
      /\ b * ((a + b - 1) \div b) <= a + b - 1
      /\ a + b - 1 < b * ((a + b - 1) \div b) + b
      /\ (a + b - 1) \div b \in Nat
  BY SMT
<1> QED
  BY <1>1, SMT DEF CeilDiv

LEMMA ExtentType == ASSUME NEW n \in Int PROVE Extent(n) \in Nat \ {0}
<1>1. CASE K = 0
  BY <1>1 DEF Extent
<1>2. CASE K # 0
  <2> DEFINE m == IF n < 1 THEN 1 ELSE n
             share == CeilDiv(K, m)
  <2>1. m \in Nat \ {0}
    OBVIOUS
  <2>2. share \in Nat /\ K <= share * m
    BY <2>1, CeilDivBounds, KAssumption
  <2>3. share # 0
    BY <2>1, <2>2, <1>2, KAssumption
  <2>4. CeilDiv(share, BK) \in Nat /\ share <= CeilDiv(share, BK) * BK
    BY <2>2, CeilDivBounds, BKAssumption
  <2>5. CeilDiv(share, BK) * BK \in Nat \ {0}
    BY <2>2, <2>3, <2>4, BKAssumption
  <2> QED
    BY <1>2, <2>5 DEF Extent
<1> QED
  BY <1>1, <1>2

\* The last slice is the first that reaches K.
LEMMA UsedBounds ==
  ASSUME NEW n \in Int
  PROVE  /\ Used(n) \in Nat \ {0}
         /\ K <= Used(n) * Extent(n)
         /\ K # 0 => (Used(n) - 1) * Extent(n) < K
<1>1. Extent(n) \in Nat \ {0}
  BY ExtentType
<1>2. CASE K = 0
  BY <1>1, <1>2 DEF Used
<1>3. CASE K # 0
  <2>1. /\ Used(n) \in Nat
        /\ K <= Used(n) * Extent(n)
        /\ Used(n) * Extent(n) < K + Extent(n)
    BY <1>1, <1>3, CeilDivBounds, KAssumption DEF Used
  <2>2. Used(n) # 0
    BY <1>1, <1>3, <2>1, KAssumption
  <2>3. (Used(n) - 1) * Extent(n) = Used(n) * Extent(n) - Extent(n)
    BY <1>1, <2>1
  <2> HIDE DEF Used, Extent
  <2>4. Used(n) * Extent(n) \in Nat
    BY <1>1, <2>1
  <2> QED
    BY <1>1, <2>1, <2>2, <2>3, <2>4, KAssumption
<1> QED
  BY <1>2, <1>3

LEMMA Monotone ==
  ASSUME NEW x \in Nat, NEW y \in Nat, NEW e \in Nat, x <= y
  PROVE  x * e <= y * e
BY SMT

\* The slices of a call, first to last: they begin at 0, abut, are not empty
\* and end at K.
LEMMA SlicesAbut ==
  ASSUME NEW n \in Int, NEW i \in 0 .. Used(n) - 1
  PROVE  /\ SliceBegin(n, i) \in Nat /\ SliceEnd(n, i) \in Nat
         /\ SliceBegin(n, 0) = 0
         /\ K # 0 => SliceBegin(n, i) < SliceEnd(n, i)
         /\ SliceEnd(n, i) <= K
         /\ SliceEnd(n, i) = IF i + 1 < Used(n) THEN SliceBegin(n, i + 1) ELSE K
<1> DEFINE e == Extent(n)
           u == Used(n)
<1>1. e \in Nat \ {0} /\ u \in Nat \ {0} /\ K <= u * e /\ (K # 0 => (u - 1) * e < K)
  BY ExtentType, UsedBounds
<1>2. i \in Nat /\ i + 1 <= u /\ i <= u - 1 /\ u - 1 \in Nat
  BY <1>1
<1> HIDE DEF e, u
<1>3. i * e \in Nat /\ (i + 1) * e \in Nat /\ (i + 1) * e = i * e + e /\ 0 * e = 0
  BY <1>1, <1>2
<1>4. i * e <= (u - 1) * e
  BY <1>1, <1>2, Monotone
<1>5. K # 0 => i * e < K
  BY <1>1, <1>3, <1>4, KAssumption
<1>6. i + 1 < u => (i + 1) * e <= (u - 1) * e
  BY <1>1, <1>2, Monotone
<1>7. (u - 1) * e \in Nat /\ (K = 0 => u = 1)
  BY <1>1, <1>2 DEF u, Used
<1>8. i + 1 < u => (i + 1) * e < K
  BY <1>1, <1>2, <1>3, <1>6, <1>7, KAssumption
<1>9. ~(i + 1 < u) => i + 1 = u /\ K <= (i + 1) * e
  BY <1>1, <1>2
<1>10. SliceBegin(n, i) = i * e /\ SliceBegin(n, 0) = 0 * e /\ SliceBegin(n, i + 1) = (i + 1) * e
  BY DEF SliceBegin, e
<1>11. SliceEnd(n, i) = IF (i + 1) * e > K THEN K ELSE (i + 1) * e
  BY DEF SliceEnd, e
<1> QED
  BY <1>1, <1>2, <1>3, <1>5, <1>8, <1>9, <1>10, <1>11, KAssumption DEF u

\* Every k below K is in exactly one slice of a call, whatever the request.
THEOREM SlicesPartition ==
  ASSUME NEW n \in Int, NEW k \in 0 .. K - 1
  PROVE  \E i \in 0 .. Used(n) - 1 :
           \A j \in 0 .. Used(n) - 1 : SliceBegin(n, j) <= k /\ k < SliceEnd(n, j) <=> j = i
<1> DEFINE e == Extent(n)
           i == k \div e
<1>1. e \in Nat \ {0} /\ Used(n) \in Nat \ {0} /\ K <= Used(n) * e /\ k \in Nat /\ k < K
  BY ExtentType, UsedBounds, KAssumption
<1>2. i \in Nat /\ e * i <= k /\ k < e * i + e
  BY <1>1
<1> HIDE DEF e, i
<1>3. ASSUME NEW j \in Nat
      PROVE  j * e <= k /\ k < (j + 1) * e <=> j = i
  <2>1. CASE j < i
    <3>1. (j + 1) * e <= i * e
      BY <1>1, <1>2, <2>1, Monotone
    <3> QED
      BY <1>1, <1>2, <2>1, <3>1
  <2>2. CASE j > i
    <3>1. (i + 1) * e <= j * e
      BY <1>1, <1>2, <2>2, Monotone
    <3> QED
      BY <1>1, <1>2, <2>2, <3>1
  <2>3. CASE j = i
    BY <1>1, <1>2, <2>3
  <2> QED
    BY <1>2, <2>1, <2>2, <2>3
<1>4. i < Used(n)
  <2>1. SUFFICES ASSUME Used(n) <= i PROVE FALSE
    BY <1>1, <1>2
  <2>2. Used(n) * e <= i * e
    BY <1>1, <1>2, <2>1, Monotone
  <2> QED
    BY <1>1, <1>2, <2>2, KAssumption
<1>5. ASSUME NEW j \in 0 .. Used(n) - 1
      PROVE  SliceBegin(n, j) <= k /\ k < SliceEnd(n, j) <=> j = i
  <2>1. j \in Nat /\ (j + 1) * e \in Nat
    BY <1>1
  <2>2. SliceBegin(n, j) = j * e /\ (k < SliceEnd(n, j) <=> k < (j + 1) * e)
    BY <1>1, <2>1, KAssumption DEF SliceBegin, SliceEnd, e
  <2> QED
    BY <1>3, <2>1, <2>2
<1> QED
  BY <1>1, <1>2, <1>4, <1>5

-------------------------------------------------------------------------------
(* SplitK: its inductive invariant.                                        *)

\* What the phase says of the call and of C: nothing is written before the
\* last kernel, and a call on its way out has written everything or failed.
PhaseInv ==
  /\ phase # "idle" => call > 0
  /\ phase \notin {"idle", "free"} => result = "ok"
  /\ phase \in {"alloc", "plain", "slices", "slicing"} => c = NoC
  /\ phase \notin {"slicing", "running"} => queued = {}
  /\ phase \in {"alloc", "slices", "slicing", "fixing"} => Used(splits) > 1
  /\ phase = "free" => \/ (c = NoC /\ result = "error")
                       \/ (Written = Fragment /\ result = "ok")

\* A plane is in place once its block has run.
SlicingInv ==
  phase = "slicing" =>
    \A i \in Slice : \A f \in Fragment :
      <<i, f>> \notin queued =>
        plane[i][f] = Sum(call, SliceBegin(splits, i), SliceEnd(splits, i))

\* A fragment is written once, by its plain block or when its planes are added.
FixingInv ==
  phase = "fixing" =>
    \A f \in Fragment :
      c[f] = IF summed[f] > Used(splits) THEN Sum(call, 0, K) ELSE NoValue

RunningInv ==
  phase = "running" =>
    \A f \in Fragment : c[f] = IF <<0, f>> \in queued THEN NoValue ELSE Sum(call, 0, K)

IInv ==
  /\ TypeOK /\ PlanesComplete /\ SumSoFar /\ ScratchBalanced
  /\ PhaseInv /\ SlicingInv /\ FixingInv /\ RunningInv

LEMMA SlicesOf ==
  ASSUME TypeOK
  PROVE  /\ splits \in Int /\ Used(splits) \in Nat \ {0} /\ 0 \in Slice
         /\ Slice = 0 .. Used(splits) - 1
BY UsedBounds, RequestsAssumption DEF TypeOK, Slice

LEMMA ValueTypes ==
  /\ Garbage \in Value /\ NoValue \in Value
  /\ \A k \in 0 .. Calls : Sum(k, 0, 0) \in Value /\ Sum(k, 0, K) \in Value
  /\ NoC \in [Fragment -> Value]
BY KAssumption, CallsAssumption DEF Garbage, NoValue, Sum, Value, NoC

LEMMA SliceSumType ==
  ASSUME TypeOK, NEW i \in Slice
  PROVE  Sum(call, SliceBegin(splits, i), SliceEnd(splits, i)) \in Value
<1>1. /\ SliceBegin(splits, i) \in Nat /\ SliceEnd(splits, i) \in Nat
      /\ SliceEnd(splits, i) <= K
      /\ K # 0 => SliceBegin(splits, i) < SliceEnd(splits, i)
      /\ K = 0 => SliceBegin(splits, i) = 0
  <2>1. K = 0 => i = 0
    BY SlicesOf DEF Used
  <2> QED
    BY <2>1, SlicesOf, SlicesAbut
<1> QED
  BY <1>1, KAssumption DEF TypeOK, Value, Sum

LEMMA AddType ==
  ASSUME NEW x \in Value, NEW y \in Value PROVE Add(x, y) \in Value
BY KAssumption, CallsAssumption DEF Add, Value, Sum, Garbage

\* Folding into C is exact only where nothing has been written.
LEMMA FoldFresh ==
  ASSUME NEW v PROVE Fold(NoValue, v) = v
BY DEF Fold

LEMMA Distinct ==
  ASSUME NEW k \in Nat \ {0}
  PROVE  /\ Sum(k, 0, K) # NoValue
         /\ {f \in Fragment : NoC[f] = Sum(k, 0, K)} = {}
BY DEF Sum, NoValue, NoC

LEMMA InitInv == Init => IInv
<1> SUFFICES ASSUME Init PROVE IInv
  OBVIOUS
<1>1. splits \in Int /\ Used(splits) \in Nat \ {0}
  BY UsedBounds, RequestsAssumption DEF Init
<1>2. plane \in [Slice -> [Fragment -> Value]]
  BY <1>1, ValueTypes DEF Init, GarbagePlanes, Slice
<1>3. summed \in [Fragment -> Nat] /\ acc \in [Fragment -> Value] /\ c \in [Fragment -> Value]
  BY ValueTypes, CallsAssumption DEF Init, Start, Zero
<1> QED
  BY <1>1, <1>2, <1>3, CallsAssumption
     DEF Init, IInv, TypeOK, PlanesComplete, SumSoFar, ScratchBalanced, PhaseInv, SlicingInv,
         FixingInv, RunningInv, Phase

\* A step that touches neither the request nor the planes keeps the slices.
LEMMA StepInv == IInv /\ [Next]_vars => IInv'
<1> SUFFICES ASSUME IInv, [Next]_vars PROVE IInv'
  OBVIOUS
<1> USE DEF IInv
<1>0. /\ splits \in Int /\ Used(splits) \in Nat \ {0} /\ 0 \in Slice
      /\ Slice = 0 .. Used(splits) - 1 /\ call \in Nat
  BY SlicesOf DEF TypeOK
<1>1. ASSUME NEW n \in Requests, NEW lent \in {"null", "enough", "refused"}, Call(n, lent)
      PROVE  IInv'
  <2>1. /\ call' = call + 1 /\ splits' = n /\ plane' = GarbagePlanes(n) /\ c' = NoC
        /\ phase = "idle" /\ call < Calls /\ UNCHANGED <<queued, summed, acc>>
        /\ phase' \in {"plain", "alloc", "slices", "free"}
        /\ phase' = "slices" => scratch' = "caller"
        /\ scratch' \in {"none", "caller"}
        /\ IF phase' = "free" THEN result' = "error" ELSE result' = "ok"
        /\ phase' \in {"alloc", "slices"} => Used(n) > 1
    BY <1>1 DEF Call
  <2>2. plane' \in [Slice' -> [Fragment -> Value]]
    BY <2>1, ValueTypes DEF GarbagePlanes, Slice
  <2>3. queued = {}
    BY <2>1 DEF PhaseInv
  <2>4. TypeOK'
    BY <1>0, <2>1, <2>2, <2>3, ValueTypes, CallsAssumption DEF TypeOK, Phase
  <2>5. PhaseInv'
    BY <1>0, <2>1, <2>3 DEF PhaseInv
  <2> QED
    BY <2>1, <2>4, <2>5
       DEF PlanesComplete, SumSoFar, ScratchBalanced, SlicingInv, FixingInv, RunningInv
<1>2. CASE Allocate
  <2>1. /\ phase = "alloc" /\ UNCHANGED <<call, splits, plane, queued, summed, acc, c>>
        /\ \/ phase' = "slices" /\ scratch' = "owned" /\ result' = result
           \/ phase' = "free" /\ result' = "error" /\ scratch' = scratch
    BY <1>2 DEF Allocate
  <2>2. TypeOK'
    BY <2>1 DEF TypeOK, Phase, Slice
  <2>3. PhaseInv'
    BY <2>1 DEF PhaseInv
  <2> QED
    BY <2>1, <2>2, <2>3
       DEF PlanesComplete, SumSoFar, ScratchBalanced, SlicingInv, FixingInv, RunningInv
<1>3. CASE LaunchSlices
  <2>1. /\ phase = "slices" /\ UNCHANGED <<call, splits, scratch, plane, summed, acc, c>>
        /\ \/ phase' = "slicing" /\ queued' = Slice \X Fragment /\ result' = result
           \/ phase' = "free" /\ result' = "error" /\ queued' = queued
    BY <1>3 DEF LaunchSlices
  <2>2. TypeOK'
    BY <2>1 DEF TypeOK, Phase, Slice
  <2>3. PhaseInv'
    BY <2>1 DEF PhaseInv
  <2>4. SlicingInv'
    BY <2>1 DEF SlicingInv, Slice
  <2> QED
    BY <2>1, <2>2, <2>3, <2>4
       DEF PlanesComplete, SumSoFar, ScratchBalanced, FixingInv, RunningInv
<1>4. ASSUME NEW f \in Fragment, NEW i \in Slice, SliceBlock(i, f) PROVE IInv'
  <2> DEFINE sum == Sum(call, SliceBegin(splits, i), SliceEnd(splits, i))
  <2>1. /\ phase = "slicing" /\ <<i, f>> \in queued /\ queued' = queued \ {<<i, f>>}
        /\ plane' = IF SliceBegin(splits, i) >= K THEN plane ELSE [plane EXCEPT ![i][f] = sum]
        /\ UNCHANGED <<call, phase, result, splits, scratch, summed, acc, c>>
    BY <1>4 DEF SliceBlock
  <2>2. Used(splits) > 1
    BY <2>1 DEF PhaseInv
  <2>3. plane' = [plane EXCEPT ![i][f] = sum]
    BY <1>0, <2>1, <2>2, SlicesAbut, KAssumption DEF Used
  <2>4. sum \in Value
    BY SliceSumType
  <2> HIDE DEF sum
  <2>5. TypeOK'
    BY <2>1, <2>3, <2>4 DEF TypeOK, Phase, Slice
  <2>6. SlicingInv'
    BY <2>1, <2>3 DEF SlicingInv, Slice, TypeOK, sum
  <2> QED
    BY <2>1, <2>5, <2>6
       DEF PlanesComplete, SumSoFar, ScratchBalanced, PhaseInv, FixingInv, RunningInv
<1>5. CASE LaunchFixup
  <2>1. /\ phase = "slicing" /\ queued = {} /\ summed' = Start /\ acc' = Zero
        /\ UNCHANGED <<call, splits, scratch, plane, queued, c>>
        /\ \/ phase' = "fixing" /\ result' = result
           \/ phase' = "free" /\ result' = "error"
    BY <1>5 DEF LaunchFixup
  <2>2. TypeOK'
    BY <1>0, <2>1, ValueTypes DEF TypeOK, Phase, Slice, Start, Zero
  <2>3. PhaseInv'
    BY <2>1 DEF PhaseInv
  <2>4. PlanesComplete'
    BY <2>1 DEF PlanesComplete, SlicingInv, Slice
  <2>5. SumSoFar'
    BY <1>0, <2>1, SlicesAbut DEF SumSoFar, Start, Zero
  <2>6. FixingInv'
    BY <1>0, <2>1 DEF PhaseInv, FixingInv, NoC, Start
  <2> QED
    BY <2>1, <2>2, <2>3, <2>4, <2>5, <2>6 DEF ScratchBalanced, SlicingInv, RunningInv
<1>6. ASSUME NEW f \in Fragment, AddPlane(f) PROVE IInv'
  <2>1. /\ phase = "fixing" /\ summed[f] < Used(splits)
        /\ acc' = [acc EXCEPT ![f] = Add(acc[f], plane[summed[f]][f])]
        /\ summed' = [summed EXCEPT ![f] = summed[f] + 1]
        /\ UNCHANGED <<call, phase, result, splits, scratch, plane, queued, c>>
    BY <1>6 DEF AddPlane
  <2>2. summed[f] \in Slice
    BY <1>0, <2>1 DEF TypeOK
  <2>3. TypeOK'
    BY <1>0, <2>1, <2>2, AddType DEF TypeOK, Phase, Slice
  <2>4. PlanesComplete'
    BY <2>1 DEF PlanesComplete, Slice
  <2>5. acc'[f] = Sum(call, 0, SliceEnd(splits, summed[f]))
    <3>1. acc[f] = Sum(call, 0, SliceBegin(splits, summed[f]))
      BY <2>1 DEF SumSoFar
    <3>2. plane[summed[f]][f] = Sum(call, SliceBegin(splits, summed[f]), SliceEnd(splits, summed[f]))
      BY <2>1, <2>2 DEF PlanesComplete
    <3>3. acc'[f] = Add(acc[f], plane[summed[f]][f])
      BY <2>1 DEF TypeOK
    <3> QED
      BY <3>1, <3>2, <3>3 DEF Add, Sum
  <2>6. SumSoFar'
    BY <1>0, <2>1, <2>2, <2>5, SlicesAbut DEF SumSoFar, TypeOK
  <2>7. FixingInv'
    BY <1>0, <2>1, <2>2 DEF FixingInv, TypeOK
  <2> QED
    BY <2>1, <2>3, <2>4, <2>6, <2>7 DEF ScratchBalanced, PhaseInv, SlicingInv, RunningInv
<1>7. ASSUME NEW f \in Fragment, WriteC(f) PROVE IInv'
  <2>1. /\ phase = "fixing" /\ summed[f] = Used(splits)
        /\ c' = [c EXCEPT ![f] = Fold(c[f], acc[f])]
        /\ summed' = [summed EXCEPT ![f] = summed[f] + 1]
        /\ UNCHANGED <<call, phase, result, splits, scratch, plane, queued, acc>>
    BY <1>7 DEF WriteC
  <2>2. acc[f] = Sum(call, 0, K) /\ c[f] = NoValue
    BY <1>0, <2>1 DEF SumSoFar, FixingInv
  <2>3. c' = [c EXCEPT ![f] = Sum(call, 0, K)]
    BY <2>1, <2>2, FoldFresh
  <2>4. TypeOK'
    BY <1>0, <2>1, <2>3, ValueTypes DEF TypeOK, Phase, Slice
  <2>5. PlanesComplete' /\ SumSoFar'
    BY <1>0, <2>1 DEF PlanesComplete, SumSoFar, Slice, TypeOK
  <2>6. FixingInv'
    BY <1>0, <2>1, <2>3 DEF FixingInv, TypeOK
  <2> QED
    BY <2>1, <2>4, <2>5, <2>6 DEF ScratchBalanced, PhaseInv, SlicingInv, RunningInv
<1>8. CASE Fixed
  <2>1. /\ phase = "fixing" /\ phase' = "free" /\ \A f \in Fragment : summed[f] > Used(splits)
        /\ UNCHANGED <<call, result, splits, scratch, plane, queued, summed, acc, c>>
    BY <1>8 DEF Fixed
  <2>2. Written' = Fragment
    BY <2>1 DEF FixingInv, Written
  <2>3. TypeOK'
    BY <2>1 DEF TypeOK, Phase, Slice
  <2> QED
    BY <2>1, <2>2, <2>3
       DEF PlanesComplete, SumSoFar, ScratchBalanced, PhaseInv, SlicingInv, FixingInv, RunningInv
<1>9. CASE LaunchPlain
  <2>1. /\ phase = "plain" /\ UNCHANGED <<call, splits, scratch, plane, summed, acc, c>>
        /\ \/ phase' = "running" /\ queued' = {0} \X Fragment /\ result' = result
           \/ phase' = "free" /\ result' = "error" /\ queued' = queued
    BY <1>9 DEF LaunchPlain
  <2>2. TypeOK'
    BY <1>0, <2>1 DEF TypeOK, Phase, Slice
  <2>3. PhaseInv'
    BY <2>1 DEF PhaseInv
  <2>4. RunningInv'
    BY <2>1 DEF PhaseInv, RunningInv, NoC
  <2> QED
    BY <2>1, <2>2, <2>3, <2>4
       DEF PlanesComplete, SumSoFar, ScratchBalanced, SlicingInv, FixingInv
<1>10. ASSUME NEW f \in Fragment, PlainBlock(f) PROVE IInv'
  <2>1. /\ phase = "running" /\ <<0, f>> \in queued /\ queued' = queued \ {<<0, f>>}
        /\ c' = [c EXCEPT ![f] = Fold(c[f], Sum(call, 0, K))]
        /\ UNCHANGED <<call, phase, result, splits, scratch, plane, summed, acc>>
    BY <1>10 DEF PlainBlock
  <2>2. c' = [c EXCEPT ![f] = Sum(call, 0, K)]
    BY <2>1, FoldFresh DEF RunningInv
  <2>3. TypeOK'
    BY <1>0, <2>1, <2>2, ValueTypes DEF TypeOK, Phase, Slice
  <2>4. RunningInv'
    BY <2>1, <2>2 DEF RunningInv, TypeOK
  <2> QED
    BY <2>1, <2>3, <2>4
       DEF PlanesComplete, SumSoFar, ScratchBalanced, PhaseInv, SlicingInv, FixingInv
<1>11. CASE PlainEnd
  <2>1. /\ phase = "running" /\ phase' = "free" /\ queued = {}
        /\ UNCHANGED <<call, result, splits, scratch, plane, queued, summed, acc, c>>
    BY <1>11 DEF PlainEnd
  <2>2. Written' = Fragment
    BY <2>1 DEF RunningInv, Written
  <2>3. TypeOK'
    BY <2>1 DEF TypeOK, Phase, Slice
  <2> QED
    BY <2>1, <2>2, <2>3
       DEF PlanesComplete, SumSoFar, ScratchBalanced, PhaseInv, SlicingInv, FixingInv, RunningInv
<1>12. CASE Free
  <2>1. /\ phase = "free" /\ phase' = "idle" /\ scratch' = "none"
        /\ UNCHANGED <<call, splits, plane, queued, summed, acc, c>>
        /\ result' = result \/ result' = "error"
    BY <1>12 DEF Free
  <2>2. TypeOK'
    BY <2>1 DEF TypeOK, Phase, Slice
  <2> QED
    BY <2>1, <2>2
       DEF PlanesComplete, SumSoFar, ScratchBalanced, PhaseInv, SlicingInv, FixingInv, RunningInv
<1>13. CASE Rest \/ UNCHANGED vars
  <2>1. UNCHANGED vars
    BY <1>13 DEF Rest
  <2> QED
    BY <2>1 DEF vars, TypeOK, PlanesComplete, SumSoFar, ScratchBalanced, PhaseInv, SlicingInv,
                FixingInv, RunningInv, Slice, Written, NoC
<1> QED
  BY <1>1, <1>2, <1>3, <1>4, <1>5, <1>6, <1>7, <1>8, <1>9, <1>10, <1>11, <1>12, <1>13
     DEF Next, StreamStep, BlockStep

\* The strengthening, for every value of the constants.
THEOREM Invariance == Spec => []IInv
BY InitInv, StepInv, PTL DEF Spec

-------------------------------------------------------------------------------
(* SplitK: the theorems.                                                   *)

\* Type correctness for every length, K step and request: no slice reaches
\* past K.
THEOREM TypeCorrect == Spec => []TypeOK
BY Invariance, PTL DEF IInv

\* The fixup never reads a plane the first kernel left unwritten, whatever the
\* request rounds to.
THEOREM PlanesAreComplete == Spec => []PlanesComplete
BY Invariance, PTL DEF IInv

\* Adding the planes up never skips or repeats a part of K.
THEOREM SumIsExact == Spec => []SumSoFar
BY Invariance, PTL DEF IInv

\* The planes are held while a kernel uses them and given back on every way out.
THEOREM ScratchIsBalanced == Spec => []ScratchBalanced
BY Invariance, PTL DEF IInv

\* A call writes every fragment of C once with all of K, or fails and has written
\* nothing or, when only the free of its planes failed, everything: SplitK implements GemmSpec.
THEOREM Implements == Spec => ImplementsGemm
<1>1. Init => Promise!Init
  BY KAssumption DEF Init, Promise!Init, Written, NoC, NoValue, Sum
<1>2. IInv /\ IInv' /\ [Next]_vars => [Promise!Next]_(Promise!specVars)
  <2> SUFFICES ASSUME IInv, IInv', [Next]_vars PROVE [Promise!Next]_(Promise!specVars)
    OBVIOUS
  <2> USE DEF Promise!specVars
  <2>0. call \in Nat /\ call' \in Nat
    BY CallsAssumption DEF IInv, TypeOK
  <2>1. ASSUME NEW n \in Requests, NEW lent \in {"null", "enough", "refused"}, Call(n, lent)
        PROVE  Promise!Next
    <3>1. /\ phase = "idle" /\ phase' # "idle" /\ call < Calls /\ call' = call + 1 /\ c' = NoC
      BY <2>1 DEF Call
    <3>2. result # "busy"
      BY DEF IInv, TypeOK
    <3>3. Written' = {}
      BY <2>0, <3>1, Distinct DEF Written
    <3> QED
      BY <3>1, <3>2, <3>3 DEF Promise!Next, Promise!Begin
  <2>2. ASSUME Allocate \/ LaunchSlices \/ LaunchFixup \/ Fixed \/ LaunchPlain \/ PlainEnd
        PROVE  UNCHANGED Promise!specVars
    <3>1. phase # "idle" /\ phase' # "idle" /\ UNCHANGED <<call, c>>
      BY <2>2 DEF Allocate, LaunchSlices, LaunchFixup, Fixed, LaunchPlain, PlainEnd
    <3> QED
      BY <3>1 DEF Written
  <2>3. ASSUME NEW f \in Fragment, AddPlane(f) \/ \E i \in Slice : SliceBlock(i, f)
        PROVE  UNCHANGED Promise!specVars
    <3>1. UNCHANGED <<call, phase, result, c>>
      BY <2>3 DEF SliceBlock, AddPlane
    <3> QED
      BY <3>1 DEF Written
  <2>4. ASSUME NEW f \in Fragment, WriteC(f) \/ PlainBlock(f)
        PROVE  Promise!Write(f)
    <3>1. c[f] = NoValue /\ c' = [c EXCEPT ![f] = Sum(call, 0, K)]
      <4>1. CASE WriteC(f)
        <5>1. /\ phase = "fixing" /\ summed[f] = Used(splits)
              /\ c' = [c EXCEPT ![f] = Fold(c[f], acc[f])]
          BY <4>1 DEF WriteC
        <5>2. Used(splits) \in Nat
          BY SlicesOf DEF IInv
        <5>3. c[f] = NoValue /\ acc[f] = Sum(call, 0, K)
          BY <5>1, <5>2 DEF IInv, FixingInv, SumSoFar
        <5> QED
          BY <5>1, <5>3, FoldFresh
      <4>2. CASE PlainBlock(f)
        BY <4>2, FoldFresh DEF PlainBlock, IInv, RunningInv
      <4> QED
        BY <2>4, <4>1, <4>2
    <3>2. UNCHANGED <<call, phase, result>> /\ phase # "idle"
      BY <2>4 DEF WriteC, PlainBlock
    <3>3. call > 0
      BY <3>2 DEF IInv, PhaseInv
    <3>4. Sum(call, 0, K) # NoValue
      BY <2>0, <3>3, Distinct
    <3>5. f \notin Written /\ Written' = Written \cup {f}
      BY <3>1, <3>2, <3>4 DEF Written, IInv, TypeOK
    <3> QED
      BY <3>2, <3>5 DEF Promise!Write
  <2>5. CASE Free
    <3>1. /\ phase = "free" /\ phase' = "idle" /\ UNCHANGED <<call, c>>
          /\ result' = result \/ result' = "error"
      BY <2>5 DEF Free
    <3>2. Written' = Written
      BY <3>1 DEF Written
    <3>3. CASE c = NoC /\ result = "error"
      <4>1. call > 0
        BY <3>1 DEF IInv, PhaseInv
      <4>2. Written = {}
        BY <2>0, <3>3, <4>1, Distinct DEF Written
      <4> QED
        BY <3>1, <3>2, <3>3, <4>2 DEF Promise!Next, Promise!Fail
    <3>4. CASE Written = Fragment /\ result = "ok"
      BY <3>1, <3>2, <3>4 DEF Promise!Next, Promise!Succeed, Promise!Fail
    <3> QED
      BY <3>1, <3>3, <3>4 DEF IInv, PhaseInv
  <2>6. CASE Rest \/ UNCHANGED vars
    BY <2>6 DEF Rest, vars, Written
  <2>7. ASSUME NEW f \in Fragment, WriteC(f) \/ PlainBlock(f) PROVE Promise!Next
    BY <2>4, <2>7 DEF Promise!Next
  <2>8. ASSUME NEW f \in Fragment, BlockStep(f) PROVE [Promise!Next]_(Promise!specVars)
    BY <2>3, <2>7, <2>8 DEF BlockStep
  <2>9. CASE StreamStep
    BY <2>2, <2>5, <2>9 DEF StreamStep
  <2> QED
    BY <2>1, <2>6, <2>8, <2>9 DEF Next
<1> QED
  BY <1>1, <1>2, Invariance, PTL DEF Spec, ImplementsGemm, Promise!Spec

-------------------------------------------------------------------------------
(* NvmlMonitor: its inductive invariant.                                   *)

\* An Impl is held by one object at most, and only while it is alive.
HoldsInv ==
  /\ \A m \in Monitor : holds[m] # None => m \in built /\ life[holds[m]] = "live"
  /\ \A m, o \in Monitor : holds[m] # None /\ holds[m] = holds[o] => m = o

\* A join is of a closed window of an Impl that is alive; a destructor's is of
\* the Impl its object holds.
JoinInv ==
  /\ joining # None => ~running[joining] /\ life[joining] = "live"
  /\ leaving # None => joining # None /\ leaving \in built /\ holds[leaving] = joining

\* A thread has been started, and is there while its Impl is.
ThreadInv ==
  \A i \in Impl : worker[i] # "none" => window[i] >= 1 /\ (~Reassign => life[i] = "live")

\* The Impls that NVML is initialized for; an assignment that deletes an Impl
\* leaves more calls of nvmlInit than there are such Impls.
Registered == {i \in Impl : life[i] = "live" /\ nvml_ok[i]}
CountInv ==
  /\ IsFiniteSet(Registered)
  /\ inits >= Cardinality(Registered)
  /\ ~Reassign => inits = Cardinality(Registered)

\* What its constants are assumed to be.
MonitorAssumptions == Nvml!NoneAssumption /\ Nvml!BoundsAssumption

LEMMA MonitorAssumed == MonitorAssumptions
BY NoneAssumption, BoundsAssumption DEF MonitorAssumptions, Nvml!NoneAssumption, Nvml!BoundsAssumption

MonitorInv ==
  MonitorAssumptions /\ Nvml!MonitorTypeOK /\ HoldsInv /\ JoinInv /\ ThreadInv /\ Nvml!Settled /\ CountInv

-------------------------------------------------------------------------------
(* NvmlMonitor: the count of the Impls that NVML is initialized for.       *)

LEMMA CountAdd ==
  ASSUME CountInv, inits \in Nat, NEW i, i \notin Registered,
         Registered' = Registered \cup {i}, inits' = inits + 1
  PROVE  CountInv' /\ inits' \in Nat
<1>1. IsFiniteSet(Registered') /\ Cardinality(Registered') = Cardinality(Registered) + 1
  BY FS_AddElement DEF CountInv
<1>2. Cardinality(Registered) \in Nat
  BY FS_CardinalityType DEF CountInv
<1> QED
  BY <1>1, <1>2 DEF CountInv

LEMMA CountRemove ==
  ASSUME CountInv, inits \in Nat, NEW i, i \in Registered,
         Registered' = Registered \ {i}, inits' = inits - 1
  PROVE  CountInv' /\ inits' \in Nat
<1>1. IsFiniteSet(Registered') /\ Cardinality(Registered') = Cardinality(Registered) - 1
  BY FS_RemoveElement DEF CountInv
<1>2. Cardinality(Registered) \in Nat /\ Cardinality(Registered') \in Nat
  BY <1>1, FS_CardinalityType DEF CountInv
<1> QED
  BY <1>1, <1>2 DEF CountInv

LEMMA CountKeep ==
  ASSUME CountInv, inits \in Nat, NEW i, Reassign \/ i \notin Registered,
         Registered' = Registered \ {i}, inits' = inits
  PROVE  CountInv' /\ inits' \in Nat
<1>1. /\ IsFiniteSet(Registered')
      /\ Cardinality(Registered') = IF i \in Registered THEN Cardinality(Registered) - 1
                                                        ELSE Cardinality(Registered)
  BY FS_RemoveElement DEF CountInv
<1>2. Cardinality(Registered) \in Nat
  BY FS_CardinalityType DEF CountInv
<1> QED
  BY <1>1, <1>2 DEF CountInv

LEMMA CountSame ==
  ASSUME CountInv, inits \in Nat, UNCHANGED <<life, nvml_ok, inits>>
  PROVE  CountInv' /\ inits' \in Nat
<1>1. Registered' = Registered
  BY DEF Registered
<1> QED
  BY <1>1 DEF CountInv

-------------------------------------------------------------------------------
(* NvmlMonitor: every step keeps the invariant.                            *)

LEMMA MonitorInit == MonitorAssumptions /\ Nvml!Init => MonitorInv
<1> SUFFICES ASSUME MonitorAssumptions, Nvml!Init PROVE MonitorInv
  OBVIOUS
<1> USE DEF Nvml!Init
<1>1. Nvml!MonitorTypeOK
  BY DEF Nvml!MonitorTypeOK, MonitorInv, MonitorAssumptions, Nvml!BoundsAssumption
<1>2. HoldsInv /\ JoinInv /\ ThreadInv /\ Nvml!Settled
  BY DEF HoldsInv, JoinInv, ThreadInv, Nvml!Settled
<1>3. Registered = {}
  BY DEF Registered
<1>4. CountInv
  BY <1>3, FS_EmptySet DEF CountInv
<1> QED
  BY <1>1, <1>2, <1>4 DEF MonitorInv

LEMMA ConstructStep ==
  ASSUME MonitorInv, NEW m \in Monitor, NEW i \in Impl, Nvml!Construct(m, i)
  PROVE  MonitorInv'
<1>1. PICK ok \in BOOLEAN :
        /\ joining = None /\ m \notin built /\ life[i] = "unborn"
        /\ built' = built \cup {m}
        /\ holds' = [holds EXCEPT ![m] = i]
        /\ life' = [life EXCEPT ![i] = "live"]
        /\ nvml_ok' = [nvml_ok EXCEPT ![i] = ok]
        /\ inits' = IF ok THEN inits + 1 ELSE inits
        /\ UNCHANGED <<running, worker, window, samples, joining, leaving>>
  BY DEF Nvml!Construct, Nvml!Idle, Nvml!Threads
<1>2. Nvml!MonitorTypeOK /\ i # None
  BY DEF MonitorInv, MonitorAssumptions, Nvml!NoneAssumption
<1>3. CountInv' /\ inits' \in Nat
  <2>1. i \notin Registered /\ inits \in Nat /\ CountInv
    BY <1>1, <1>2 DEF MonitorInv, Registered, Nvml!MonitorTypeOK
  <2>2. CASE ok
    <3>1. Registered' = Registered \cup {i}
      BY <1>1, <1>2, <2>2 DEF Registered, Nvml!MonitorTypeOK
    <3> QED
      BY <1>1, <2>1, <2>2, <3>1, CountAdd
  <2>3. CASE ~ok
    <3>1. Registered' = Registered \ {i}
      BY <1>1, <1>2, <2>1, <2>3 DEF Registered, Nvml!MonitorTypeOK
    <3> QED
      BY <1>1, <2>1, <2>3, <3>1, CountKeep
  <2> QED
    BY <2>2, <2>3
<1>4. Nvml!MonitorTypeOK'
  BY <1>1, <1>2, <1>3 DEF Nvml!MonitorTypeOK
<1>5. HoldsInv'
  BY <1>1, <1>2 DEF MonitorInv, HoldsInv, Nvml!MonitorTypeOK
<1>6. JoinInv' /\ ThreadInv' /\ Nvml!Settled'
  BY <1>1, <1>2 DEF MonitorInv, JoinInv, ThreadInv, Nvml!Settled, Nvml!MonitorTypeOK
<1> QED
  BY <1>3, <1>4, <1>5, <1>6 DEF MonitorInv

LEMMA StartStep ==
  ASSUME MonitorInv, NEW m \in Monitor, Nvml!Start(m)
  PROVE  MonitorInv'
<1> DEFINE i == holds[m]
<1>1. /\ joining = None /\ m \in built /\ i # None
      /\ ~running[i] /\ window[i] < Windows
      /\ samples' = [samples EXCEPT ![i] = <<>>]
      /\ window' = [window EXCEPT ![i] = window[i] + 1]
      /\ running' = [running EXCEPT ![i] = TRUE]
      /\ worker' = [worker EXCEPT ![i] = "check"] \/ UNCHANGED worker
      /\ UNCHANGED <<built, holds, life, nvml_ok, joining, leaving, inits>>
  BY DEF Nvml!Start, Nvml!Held, Nvml!Idle
<1>2. Nvml!MonitorTypeOK /\ i \in Impl /\ Windows \in Nat /\ life[i] = "live"
  BY <1>1 DEF MonitorInv, Nvml!MonitorTypeOK, HoldsInv, MonitorAssumptions, Nvml!BoundsAssumption
<1> HIDE DEF i
<1>3. Nvml!MonitorTypeOK'
  <2>1. samples' \in [Impl -> Seq(1 .. Windows)]
    BY <1>1, <1>2 DEF Nvml!MonitorTypeOK
  <2>2. window' \in [Impl -> 0 .. Windows]
    BY <1>1, <1>2 DEF Nvml!MonitorTypeOK
  <2>3. running' \in [Impl -> BOOLEAN] /\ worker' \in [Impl -> {"none", "check", "poll", "ended"}]
    BY <1>1, <1>2 DEF Nvml!MonitorTypeOK
  <2> QED
    BY <1>1, <1>2, <2>1, <2>2, <2>3 DEF Nvml!MonitorTypeOK
<1>4. HoldsInv' /\ CountInv'
  BY <1>1, <1>2, CountSame DEF MonitorInv, HoldsInv, Nvml!MonitorTypeOK
<1>5. JoinInv'
  BY <1>1, <1>2 DEF MonitorInv, JoinInv
<1>6. ThreadInv'
  BY <1>1, <1>2 DEF MonitorInv, ThreadInv, Nvml!MonitorTypeOK
<1>7. Nvml!Settled'
  BY <1>1, <1>2 DEF MonitorInv, Nvml!Settled, Nvml!MonitorTypeOK
<1> QED
  BY <1>3, <1>4, <1>5, <1>6, <1>7 DEF MonitorInv

LEMMA StopStep ==
  ASSUME MonitorInv, NEW m \in Monitor, Nvml!Stop(m)
  PROVE  MonitorInv'
<1> DEFINE i == holds[m]
<1>1. /\ joining = None /\ m \in built /\ i # None
      /\ running' = [running EXCEPT ![i] = FALSE]
      /\ joining' = i
      /\ UNCHANGED <<built, holds, life, nvml_ok, worker, window, samples, leaving, inits>>
  BY DEF Nvml!Stop, Nvml!Held, Nvml!Idle
<1>2. Nvml!MonitorTypeOK /\ i \in Impl /\ life[i] = "live"
  BY <1>1 DEF MonitorInv, Nvml!MonitorTypeOK, HoldsInv
<1> HIDE DEF i
<1>3. Nvml!MonitorTypeOK'
  BY <1>1, <1>2 DEF Nvml!MonitorTypeOK
<1>4. HoldsInv' /\ ThreadInv' /\ CountInv'
  BY <1>1, <1>2, CountSame DEF MonitorInv, HoldsInv, ThreadInv, Nvml!MonitorTypeOK
<1>5. JoinInv'
  BY <1>1, <1>2 DEF MonitorInv, JoinInv, Nvml!MonitorTypeOK
<1>6. Nvml!Settled'
  <2>1. \A j \in Impl : j # i => running'[j] = running[j]
    BY <1>1, <1>2 DEF Nvml!MonitorTypeOK
  <2> QED
    BY <1>1, <1>2, <2>1 DEF MonitorInv, Nvml!Settled, MonitorAssumptions, Nvml!NoneAssumption
<1> QED
  BY <1>3, <1>4, <1>5, <1>6 DEF MonitorInv

LEMMA JoinStep ==
  ASSUME MonitorInv, Nvml!Join
  PROVE  MonitorInv'
<1>1. /\ joining # None /\ leaving = None
      /\ worker' = [worker EXCEPT ![joining] = "none"]
      /\ joining' = None
      /\ UNCHANGED <<built, holds, life, nvml_ok, running, window, samples, leaving, inits>>
  BY DEF Nvml!Join
<1>2. Nvml!MonitorTypeOK /\ joining \in Impl
  BY <1>1 DEF MonitorInv, Nvml!MonitorTypeOK
<1>3. Nvml!MonitorTypeOK'
  BY <1>1, <1>2 DEF Nvml!MonitorTypeOK
<1>4. HoldsInv' /\ JoinInv' /\ CountInv'
  BY <1>1, <1>2, CountSame DEF MonitorInv, HoldsInv, JoinInv, Nvml!MonitorTypeOK
<1>5. ThreadInv' /\ Nvml!Settled'
  BY <1>1, <1>2 DEF MonitorInv, ThreadInv, Nvml!Settled, Nvml!MonitorTypeOK
<1> QED
  BY <1>3, <1>4, <1>5 DEF MonitorInv

LEMMA DestroyStep ==
  ASSUME MonitorInv, NEW m \in Monitor, Nvml!Destroy(m)
  PROVE  MonitorInv'
<1> DEFINE i == holds[m]
<1>1. Nvml!MonitorTypeOK /\ joining = None /\ leaving = None /\ m \in built
  BY DEF MonitorInv, Nvml!Destroy, Nvml!Idle, JoinInv
<1>2. CASE i # None /\ running[i]
  <2>1. /\ running' = [running EXCEPT ![i] = FALSE]
        /\ joining' = i /\ leaving' = m
        /\ UNCHANGED <<built, holds, life, nvml_ok, worker, window, samples, inits>>
    BY <1>2 DEF Nvml!Destroy
  <2>2. i \in Impl /\ life[i] = "live" /\ i = holds[m]
    BY <1>1, <1>2 DEF MonitorInv, Nvml!MonitorTypeOK, HoldsInv
  <2> HIDE DEF i
  <2>3. Nvml!MonitorTypeOK'
    BY <1>1, <2>1, <2>2 DEF Nvml!MonitorTypeOK
  <2>4. HoldsInv' /\ ThreadInv' /\ CountInv'
    BY <1>1, <2>1, <2>2, CountSame DEF MonitorInv, HoldsInv, ThreadInv, Nvml!MonitorTypeOK
  <2>5. JoinInv' /\ Nvml!Settled'
    BY <1>1, <2>1, <2>2 DEF MonitorInv, JoinInv, Nvml!Settled, Nvml!MonitorTypeOK, MonitorAssumptions, Nvml!NoneAssumption
  <2> QED
    BY <2>3, <2>4, <2>5 DEF MonitorInv
<1>3. CASE ~(i # None /\ running[i])
  <2>1. /\ built' = built \ {m}
        /\ holds' = [holds EXCEPT ![m] = None]
        /\ life' = [j \in Impl |-> IF j = i THEN "freed" ELSE life[j]]
        /\ inits' = IF i # None /\ nvml_ok[i] THEN inits - 1 ELSE inits
        /\ UNCHANGED <<nvml_ok, running, joining, leaving, worker, window, samples>>
    BY <1>3 DEF Nvml!Destroy
  <2>2. i \in Impl \cup {None} /\ (i # None => life[i] = "live" /\ worker[i] = "none")
    BY <1>1, <1>3 DEF MonitorInv, Nvml!MonitorTypeOK, HoldsInv, Nvml!Settled
  <2>3. HoldsInv'
    BY <1>1, <2>1, <2>2 DEF MonitorInv, HoldsInv, Nvml!MonitorTypeOK
  <2> HIDE DEF i
  <2>4. CountInv' /\ inits' \in Nat
    <3>1. Registered' = Registered \ {i}
      BY <1>1, <2>1, <2>2 DEF Registered, Nvml!MonitorTypeOK
    <3>2. CountInv /\ inits \in Nat
      BY <1>1 DEF MonitorInv, Nvml!MonitorTypeOK
    <3>3. CASE i # None /\ nvml_ok[i]
      <4>1. i \in Registered /\ inits' = inits - 1
        BY <2>1, <2>2, <3>3 DEF Registered
      <4> QED
        BY <3>1, <3>2, <4>1, CountRemove
    <3>4. CASE ~(i # None /\ nvml_ok[i])
      <4>1. i \notin Registered /\ inits' = inits
        BY <2>1, <2>2, <3>4 DEF Registered, MonitorInv, MonitorAssumptions, Nvml!NoneAssumption
      <4> QED
        BY <3>1, <3>2, <4>1, CountKeep
    <3> QED
      BY <3>3, <3>4
  <2>5. Nvml!MonitorTypeOK'
    <3>1. life' \in [Impl -> {"unborn", "live", "freed"}]
      BY <1>1, <2>1 DEF Nvml!MonitorTypeOK
    <3> QED
      BY <1>1, <2>1, <2>4, <3>1 DEF Nvml!MonitorTypeOK
  <2>6. JoinInv' /\ Nvml!Settled'
    BY <1>1, <2>1 DEF MonitorInv, JoinInv, Nvml!Settled
  <2>7. ThreadInv'
    <3>1. \A j \in Impl : j # i => life'[j] = life[j]
      BY <2>1
    <3>2. \A j \in Impl : worker[j] # "none" => j # i
      BY <2>2 DEF MonitorInv, MonitorAssumptions, Nvml!NoneAssumption
    <3> QED
      BY <2>1, <3>1, <3>2 DEF MonitorInv, ThreadInv
  <2> QED
    BY <2>3, <2>4, <2>5, <2>6, <2>7 DEF MonitorInv
<1> QED
  BY <1>2, <1>3

LEMMA JoinAndLeaveStep ==
  ASSUME MonitorInv, Nvml!JoinAndLeave
  PROVE  MonitorInv'
<1>1. /\ leaving # None
      /\ worker' = [worker EXCEPT ![joining] = "none"]
      /\ built' = built \ {leaving}
      /\ holds' = [holds EXCEPT ![leaving] = None]
      /\ life' = [life EXCEPT ![joining] = "freed"]
      /\ inits' = IF nvml_ok[joining] THEN inits - 1 ELSE inits
      /\ joining' = None /\ leaving' = None
      /\ UNCHANGED <<nvml_ok, running, window, samples>>
  BY DEF Nvml!JoinAndLeave
<1>2. /\ Nvml!MonitorTypeOK /\ joining \in Impl /\ leaving \in Monitor
      /\ leaving \in built /\ holds[leaving] = joining
      /\ ~running[joining] /\ life[joining] = "live" /\ joining # None
  BY <1>1 DEF MonitorInv, Nvml!MonitorTypeOK, JoinInv
<1>3. CountInv' /\ inits' \in Nat
  <2>1. Registered' = Registered \ {joining}
    BY <1>1, <1>2 DEF Registered, Nvml!MonitorTypeOK
  <2>2. CountInv /\ inits \in Nat
    BY <1>2 DEF MonitorInv, Nvml!MonitorTypeOK
  <2>3. CASE nvml_ok[joining]
    <3>1. joining \in Registered /\ inits' = inits - 1
      BY <1>1, <1>2, <2>3 DEF Registered
    <3> QED
      BY <2>1, <2>2, <3>1, CountRemove
  <2>4. CASE ~nvml_ok[joining]
    <3>1. joining \notin Registered /\ inits' = inits
      BY <1>1, <1>2, <2>4 DEF Registered
    <3> QED
      BY <2>1, <2>2, <3>1, CountKeep
  <2> QED
    BY <2>3, <2>4
<1>4. Nvml!MonitorTypeOK'
  BY <1>1, <1>2, <1>3 DEF Nvml!MonitorTypeOK
<1>5. HoldsInv'
  BY <1>1, <1>2 DEF MonitorInv, HoldsInv, Nvml!MonitorTypeOK
<1>6. JoinInv' /\ ThreadInv' /\ Nvml!Settled'
  BY <1>1, <1>2 DEF MonitorInv, JoinInv, ThreadInv, Nvml!Settled, Nvml!MonitorTypeOK
<1> QED
  BY <1>3, <1>4, <1>5, <1>6 DEF MonitorInv

LEMMA MoveStep ==
  ASSUME MonitorInv, NEW m \in Monitor, NEW to \in Monitor, Nvml!MoveConstruct(m, to) \/ Nvml!MoveAssign(m, to)
  PROVE  MonitorInv'
<1>1. /\ joining = None /\ leaving = None /\ Nvml!MonitorTypeOK
      /\ UNCHANGED <<nvml_ok, running, worker, window, samples, joining, leaving, inits>>
      /\ m \in built /\ m # to
      /\ holds' = [holds EXCEPT ![to] = holds[m], ![m] = None]
  BY DEF MonitorInv, JoinInv, Nvml!MoveConstruct, Nvml!MoveAssign, Nvml!Idle, Nvml!Threads
<1>2. CASE Nvml!MoveConstruct(m, to)
  <2>1. to \notin built /\ built' = built \cup {to} /\ UNCHANGED life
    BY <1>2 DEF Nvml!MoveConstruct
  <2>2. Nvml!MonitorTypeOK'
    BY <1>1, <2>1 DEF Nvml!MonitorTypeOK
  <2>3. HoldsInv'
    BY <1>1, <2>1 DEF MonitorInv, HoldsInv, Nvml!MonitorTypeOK
  <2>4. JoinInv' /\ ThreadInv' /\ Nvml!Settled' /\ CountInv'
    BY <1>1, <2>1, CountSame DEF MonitorInv, JoinInv, ThreadInv, Nvml!Settled, Nvml!MonitorTypeOK
  <2> QED
    BY <2>2, <2>3, <2>4 DEF MonitorInv
<1>3. CASE Nvml!MoveAssign(m, to)
  <2>1. /\ to \in built /\ (holds[to] # None => Reassign) /\ UNCHANGED built
        /\ life' = [i \in Impl |-> IF i = holds[to] THEN "freed" ELSE life[i]]
    BY <1>3 DEF Nvml!MoveAssign
  <2>2. Nvml!MonitorTypeOK'
    <3>1. life' \in [Impl -> {"unborn", "live", "freed"}]
      BY <1>1, <2>1 DEF Nvml!MonitorTypeOK
    <3> QED
      BY <1>1, <2>1, <3>1 DEF Nvml!MonitorTypeOK
  <2>3. HoldsInv'
    <3>1. \A o \in Monitor : holds'[o] = IF o = m THEN None ELSE IF o = to THEN holds[m] ELSE holds[o]
      BY <1>1 DEF Nvml!MonitorTypeOK
    <3>2. \A o \in Monitor : o # to /\ holds[o] # None => holds[o] \in Impl /\ life'[holds[o]] = "live"
      BY <1>1, <2>1 DEF MonitorInv, HoldsInv, Nvml!MonitorTypeOK
    <3>3. \A o \in Monitor : holds[o] # None => o \in built
      BY DEF MonitorInv, HoldsInv
    <3>4. \A o \in Monitor : holds'[o] # None => o \in built /\ life'[holds'[o]] = "live"
      <4>1. m # to /\ m \in Monitor /\ to \in built
        BY <1>1, <2>1
      <4>2. \A o \in Monitor : holds'[o] # None =>
              \E q \in Monitor : q # to /\ holds[q] # None /\ holds'[o] = holds[q] /\ (o = q \/ o = to)
        BY <3>1, <4>1
      <4> QED
        BY <3>2, <3>3, <4>1, <4>2
    <3>5. \A o, q \in Monitor : holds'[o] # None /\ holds'[o] = holds'[q] => o = q
      BY <1>1, <3>1 DEF MonitorInv, HoldsInv
    <3> QED
      BY <2>1, <3>4, <3>5 DEF HoldsInv
  <2>4. CountInv'
    <3>1. Registered' = Registered \ {holds[to]}
      BY <1>1, <2>1 DEF Registered
    <3>2. Reassign \/ holds[to] \notin Registered
      BY <2>1 DEF Registered, MonitorInv, MonitorAssumptions, Nvml!NoneAssumption
    <3>3. CountInv /\ inits \in Nat /\ inits' = inits
      BY <1>1 DEF MonitorInv, Nvml!MonitorTypeOK
    <3> QED
      BY <3>1, <3>2, <3>3, CountKeep
  <2>5. ThreadInv'
    BY <1>1, <2>1 DEF MonitorInv, ThreadInv, MonitorAssumptions, Nvml!NoneAssumption
  <2>6. JoinInv' /\ Nvml!Settled'
    BY <1>1, <2>1 DEF MonitorInv, JoinInv, Nvml!Settled
  <2> QED
    BY <2>2, <2>3, <2>4, <2>5, <2>6 DEF MonitorInv
<1> QED
  BY <1>2, <1>3

LEMMA WorkerStep ==
  ASSUME MonitorInv, NEW i \in Impl, Nvml!Check(i) \/ Nvml!Poll(i)
  PROVE  MonitorInv'
<1>1. /\ UNCHANGED <<built, holds, life, nvml_ok, running, window, joining, leaving, inits>>
      /\ worker[i] # "none"
      /\ \E w \in {"poll", "ended", "check"} : worker' = [worker EXCEPT ![i] = w]
      /\ \/ UNCHANGED samples
         \/ samples' = [samples EXCEPT ![i] = Append(samples[i], window[i])]
  <2>1. /\ UNCHANGED <<built, holds, life, nvml_ok, running, window, joining, leaving, inits>>
        /\ worker[i] # "none"
        /\ \E w \in {"poll", "ended", "check"} : worker' = [worker EXCEPT ![i] = w]
    BY DEF Nvml!Check, Nvml!Poll
  <2>2. [samples EXCEPT ![i] = samples[i]] = samples
    BY DEF MonitorInv, Nvml!MonitorTypeOK
  <2>3. \/ UNCHANGED samples
        \/ samples' = [samples EXCEPT ![i] = Append(samples[i], window[i])]
    BY <2>2 DEF Nvml!Check, Nvml!Poll
  <2> QED
    BY <2>1, <2>3
<1>2. Nvml!MonitorTypeOK /\ window[i] \in 1 .. Windows
  BY <1>1 DEF MonitorInv, Nvml!MonitorTypeOK, ThreadInv, MonitorAssumptions, Nvml!BoundsAssumption
<1>3. /\ samples[i] \in Seq(1 .. Windows) /\ Append(samples[i], window[i]) \in Seq(1 .. Windows)
      /\ DOMAIN samples[i] = 1 .. Len(samples[i]) /\ Len(samples[i]) \in Nat
      /\ DOMAIN Append(samples[i], window[i]) = 1 .. Len(samples[i]) + 1
      /\ \A k \in 1 .. Len(samples[i]) : Append(samples[i], window[i])[k] = samples[i][k]
      /\ Append(samples[i], window[i])[Len(samples[i]) + 1] = window[i]
  <2>1. samples[i] \in Seq(1 .. Windows)
    BY <1>2 DEF Nvml!MonitorTypeOK
  <2> QED
    BY <1>2, <2>1, AppendProperties
<1>4. Nvml!MonitorTypeOK'
  <2>1. samples' \in [Impl -> Seq(1 .. Windows)]
    BY <1>1, <1>2, <1>3 DEF Nvml!MonitorTypeOK
  <2>2. worker' \in [Impl -> {"none", "check", "poll", "ended"}]
    BY <1>1, <1>2 DEF Nvml!MonitorTypeOK
  <2> QED
    BY <1>1, <1>2, <2>1, <2>2 DEF Nvml!MonitorTypeOK
<1>5. HoldsInv' /\ JoinInv' /\ CountInv'
  BY <1>1, <1>2, CountSame DEF MonitorInv, HoldsInv, JoinInv, Nvml!MonitorTypeOK
<1>6. ThreadInv'
  BY <1>1, <1>2 DEF MonitorInv, ThreadInv, Nvml!MonitorTypeOK
<1>7. Nvml!Settled'
  <2>1. \A j \in Impl : ~running'[j] /\ joining' # j => worker'[j] = "none"
    BY <1>1, <1>2 DEF MonitorInv, Nvml!Settled, Nvml!MonitorTypeOK
  <2>2. \A j \in Impl : j # i => samples'[j] = samples[j]
    BY <1>1, <1>2 DEF Nvml!MonitorTypeOK
  <2>3. samples'[i] \in {samples[i], Append(samples[i], window[i])}
    BY <1>1, <1>2 DEF Nvml!MonitorTypeOK
  <2>4. \A k \in DOMAIN samples'[i] : samples'[i][k] = window[i]
    <3>1. \A k \in DOMAIN samples[i] : samples[i][k] = window[i]
      BY DEF MonitorInv, Nvml!Settled
    <3>2. \A k \in DOMAIN Append(samples[i], window[i]) : Append(samples[i], window[i])[k] = window[i]
      BY <1>3, <3>1
    <3> QED
      BY <2>3, <3>1, <3>2
  <2> QED
    BY <1>1, <2>1, <2>2, <2>4 DEF MonitorInv, Nvml!Settled
<1> QED
  BY <1>4, <1>5, <1>6, <1>7 DEF MonitorInv

LEMMA MonitorStep == MonitorInv /\ [Nvml!Next]_Nvml!vars => MonitorInv'
<1> SUFFICES ASSUME MonitorInv, [Nvml!Next]_Nvml!vars PROVE MonitorInv'
  OBVIOUS
<1>1. CASE Nvml!Rest \/ UNCHANGED Nvml!vars
  <2>1. UNCHANGED <<built, holds, life, nvml_ok, running, worker, window, samples, joining, leaving, inits>>
    BY <1>1 DEF Nvml!Rest, Nvml!vars
  <2>2. Nvml!MonitorTypeOK' /\ HoldsInv'
    BY <2>1 DEF MonitorInv, Nvml!MonitorTypeOK, HoldsInv
  <2>3. JoinInv' /\ ThreadInv' /\ Nvml!Settled'
    BY <2>1 DEF MonitorInv, JoinInv, ThreadInv, Nvml!Settled
  <2>4. CountInv'
    BY <2>1, CountSame DEF MonitorInv, Nvml!MonitorTypeOK
  <2> QED
    BY <2>2, <2>3, <2>4 DEF MonitorInv
<1>2. CASE Nvml!Join \/ Nvml!JoinAndLeave
  BY <1>2, JoinStep, JoinAndLeaveStep
<1>3. ASSUME NEW m \in Monitor, Nvml!Start(m) \/ Nvml!Stop(m) \/ Nvml!Destroy(m) PROVE MonitorInv'
  BY <1>3, StartStep, StopStep, DestroyStep
<1>4. ASSUME NEW m \in Monitor, NEW i \in Impl, Nvml!Construct(m, i) PROVE MonitorInv'
  BY <1>4, ConstructStep
<1>5. ASSUME NEW m \in Monitor, NEW to \in Monitor, Nvml!MoveConstruct(m, to) \/ Nvml!MoveAssign(m, to) PROVE MonitorInv'
  BY <1>5, MoveStep
<1>6. ASSUME NEW i \in Impl, Nvml!Check(i) \/ Nvml!Poll(i) PROVE MonitorInv'
  BY <1>6, WorkerStep
<1> QED
  BY <1>1, <1>2, <1>3, <1>4, <1>5, <1>6 DEF Nvml!Next

LEMMA MonitorInvariance == Nvml!Spec => []MonitorInv
<1>1. Nvml!Init => MonitorInv
  BY MonitorInit, MonitorAssumed
<1> QED
  BY <1>1, MonitorStep, PTL DEF Nvml!Spec

-------------------------------------------------------------------------------
(* NvmlMonitor: the theorems.                                              *)

\* A stopped window is over: no thread is left to add to it, and none of its
\* readings is from a window before, whatever the client moves where.
THEOREM SettledHolds == Nvml!Spec => []Settled
<1>1. MonitorInv => Settled
  BY DEF MonitorInv, Nvml!Settled, Settled
<1> QED
  BY <1>1, MonitorInvariance, PTL

\* A client that assigns only to monitors that hold nothing never frees an Impl
\* whose thread still runs.
THEOREM NoThreadOutlives ==
  ASSUME ~Reassign
  PROVE  Nvml!Spec => []JoinedBeforeFreed
<1>1. MonitorInv => JoinedBeforeFreed
  BY DEF MonitorInv, ThreadInv, JoinedBeforeFreed
<1> QED
  BY <1>1, MonitorInvariance, PTL

\* For such a client every nvmlInit is matched: the count is of the Impls that
\* are alive and have a device.
THEOREM MonitorConsistentHolds ==
  ASSUME ~Reassign
  PROVE  Nvml!Spec => []MonitorConsistent
<1>1. MonitorInv => MonitorConsistent
  BY DEF MonitorInv, CountInv, Registered, Nvml!MonitorTypeOK, MonitorTypeOK, NvmlBalanced,
         MonitorConsistent
<1> QED
  BY <1>1, MonitorInvariance, PTL

\* For any client NVML stays initialized while an Impl needs it: the count is
\* never below the number of those that do.
NvmlThere == inits >= Cardinality(Registered)

THEOREM NvmlThereHolds == Nvml!Spec => []NvmlThere
<1>1. MonitorInv => NvmlThere
  BY DEF MonitorInv, CountInv, NvmlThere
<1> QED
  BY <1>1, MonitorInvariance, PTL

-------------------------------------------------------------------------------
(* ConstantBank: the record of the owner, ahead of the queue.              *)

\* What its constants are assumed to be.
BankAssumptions ==
  /\ Bank!ThreadOfAssumption /\ Bank!StreamOfAssumption /\ Bank!NullAssumption /\ Bank!NoPlanAssumption

LEMMA BankAssumed == BankAssumptions
BY ThreadOfAssumption, StreamOfAssumption, NullAssumption, NoPlanAssumption
   DEF BankAssumptions, Bank!ThreadOfAssumption, Bank!StreamOfAssumption, Bank!NullAssumption,
       Bank!NoPlanAssumption

\* One thread makes all the calls.
OneCaller == \A p, q \in Plan : ThreadOf[p] = ThreadOf[q]

\* What is enqueued for any plan, or by a constructor, is ordered with all that
\* was enqueued before it.
Ordered(s, r) == s = r \/ (s = Null /\ r \in Blocking) \/ (r = Null /\ s \in Blocking)
UsedStream == {StreamOf[p] : p \in Plan} \cup {Null}
InOrder == \A s, r \in UsedStream : Ordered(s, r)

BankCommand == [kind : {"copy", "kernel"}, plan : Plan, stream : UsedStream]

\* Who is recorded, what is queued and where each thread is.
BankType ==
  /\ owner \in Plan \cup {NoPlan} /\ bank \in Plan \cup {NoPlan}
  /\ queue \in Seq(BankCommand)
  /\ pc \in [Thread -> {"idle", "bind", "synchronize", "check", "rebind", "guard", "launch"}]
  /\ cur \in [Thread -> Plan \cup {NoPlan}]
  /\ heard \in [Plan -> SUBSET (Plan \cup {NoPlan})]

\* A thread at work works on a plan of its own.
AtWork == \A t \in Thread : pc[t] # "idle" => cur[t] \in Plan /\ ThreadOf[cur[t]] = t

\* Whose taps the bank holds once i of the commands have run.
Holder(i) == IF i = 0 THEN bank ELSE queue[i].plan

\* The record is right about what will have run, and every kernel enqueued will
\* find its own taps.
Recorded ==
  /\ owner = Holder(Len(queue))
  /\ \A i \in DOMAIN queue : queue[i].kind = "kernel" => queue[i].plan = Holder(i - 1)

Guarded == \A t \in Thread : pc[t] = "launch" => owner = cur[t]

BankInv == BankType /\ AtWork /\ Recorded /\ Guarded /\ Bank!OwnFilter

LEMMA BankInit == Bank!Init => BankInv
<1> SUFFICES ASSUME Bank!Init PROVE BankInv
  OBVIOUS
<1> USE DEF Bank!Init
<1>1. BankType
  BY DEF BankType
<1>2. AtWork /\ Guarded /\ Bank!OwnFilter
  BY DEF AtWork, Guarded, Bank!OwnFilter
<1>3. Recorded
  BY DEF Recorded, Holder
<1> QED
  BY <1>1, <1>2, <1>3 DEF BankInv

\* What enqueueing a command of the owner leaves true.
LEMMA Enqueued ==
  ASSUME BankType, Recorded, NEW kind \in {"copy", "kernel"}, NEW p \in Plan, NEW s \in UsedStream,
         Bank!Enqueue(kind, p, s), bank' = bank, owner' = p, kind = "kernel" => owner = p
  PROVE  queue' \in Seq(BankCommand) /\ Recorded'
<1> DEFINE k == [kind |-> kind, plan |-> p, stream |-> s]
<1>0. PICK n \in Nat : n = Len(queue)
  BY DEF BankType
<1>1. k \in BankCommand
  BY DEF BankCommand
<1>2. queue \in Seq(BankCommand) /\ queue' = Append(queue, k)
  BY DEF Bank!Enqueue, BankType
<1>3. /\ queue' \in Seq(BankCommand) /\ n \in Nat /\ Len(queue') = n + 1 /\ queue'[n + 1] = k
      /\ \A i \in 1 .. n : queue'[i] = queue[i]
  BY <1>0, <1>1, <1>2
<1>4. DOMAIN queue = 1 .. n /\ DOMAIN queue' = 1 .. n + 1
  BY <1>0, <1>2, <1>3
<1> HIDE DEF k
<1>5. \A i \in 0 .. n : Holder(i)' = Holder(i)
  BY <1>3 DEF Holder
<1>6. Holder(n + 1)' = p
  BY <1>3 DEF Holder, k
<1>7. owner' = Holder(Len(queue))'
  BY <1>3, <1>6
<1>8. ASSUME NEW i \in DOMAIN queue', queue'[i].kind = "kernel" PROVE queue'[i].plan = Holder(i - 1)'
  <2>1. CASE i \in 1 .. n
    <3>1. i - 1 \in 0 .. n
      BY <2>1, <1>3
    <3>2. Holder(i - 1)' = Holder(i - 1)
      BY <3>1, <1>5
    <3> QED
      BY <3>2, <2>1, <1>3, <1>4, <1>8 DEF Recorded
  <2>2. CASE i = n + 1
    <3>1. kind = "kernel" /\ queue'[i].plan = p
      BY <2>2, <1>3, <1>8 DEF k
    <3>2. i - 1 = n /\ n \in 0 .. n
      BY <2>2, <1>3
    <3>3. Holder(i - 1)' = Holder(n)
      BY <3>2, <1>5
    <3> QED
      BY <3>1, <3>3, <1>0 DEF Recorded
  <2> QED
    BY <2>1, <2>2, <1>3, <1>4
<1> QED
  BY <1>3, <1>7, <1>8 DEF Recorded

\* Steps that move no command and change no record.
LEMMA Elsewhere ==
  ASSUME BankInv, UNCHANGED <<queue, bank, owner, heard>>
  PROVE  (Recorded /\ Bank!OwnFilter)'
<1>1. \A i : Holder(i)' = Holder(i)
  BY DEF Holder
<1>2. Recorded'
  BY <1>1 DEF BankInv, Recorded
<1>3. Bank!OwnFilter'
  BY DEF BankInv, Bank!OwnFilter
<1> QED
  BY <1>2, <1>3

LEMMA HostStep ==
  ASSUME OneCaller, BankAssumptions, BankInv,
         \/ \E p \in Plan : Bank!Construct(p) \/ Bank!Run(p)
         \/ \E t \in Thread : Bank!Synchronize(t) \/ Bank!Check(t) \/ Bank!Guard(t)
  PROVE  BankInv'
<1> USE DEF BankAssumptions, Bank!ThreadOfAssumption
<1>1. UNCHANGED <<queue, bank, owner, heard>>
  BY DEF Bank!Construct, Bank!Run, Bank!Synchronize, Bank!Check, Bank!Guard, Bank!device
<1>2. (Recorded /\ Bank!OwnFilter)'
  BY <1>1, Elsewhere
<1>3. ASSUME NEW p \in Plan, Bank!Construct(p) \/ Bank!Run(p) PROVE (BankType /\ AtWork /\ Guarded)'
  <2> DEFINE t == ThreadOf[p]
  <2>1. t \in Thread /\ cur' = [cur EXCEPT ![t] = p]
    BY <1>3 DEF Bank!Construct, Bank!Run
  <2>2. PICK l \in {"bind", "check"} : pc' = [pc EXCEPT ![t] = l]
    BY <1>3 DEF Bank!Construct, Bank!Run, Bank!Goto
  <2> HIDE DEF t
  <2>3. BankType'
    BY <1>1, <2>1, <2>2 DEF BankInv, BankType
  <2>4. AtWork'
    BY <2>1, <2>2 DEF BankInv, BankType, AtWork, t
  <2>5. Guarded'
    BY <1>1, <2>1, <2>2 DEF BankInv, BankType, Guarded
  <2> QED
    BY <2>3, <2>4, <2>5
<1>4. ASSUME NEW t \in Thread, Bank!Synchronize(t) \/ Bank!Check(t) \/ Bank!Guard(t)
      PROVE  (BankType /\ AtWork /\ Guarded)'
  <2>1. cur' = cur /\ pc[t] # "idle"
    BY <1>4 DEF Bank!Synchronize, Bank!Check, Bank!Guard
  <2>2. PICK l \in {"idle", "guard", "rebind", "launch"} :
          pc' = [pc EXCEPT ![t] = l] /\ (l = "launch" => owner = cur[t])
    BY <1>4 DEF Bank!Synchronize, Bank!Check, Bank!Guard, Bank!Goto
  <2>3. BankType'
    BY <1>1, <2>1, <2>2 DEF BankInv, BankType
  <2>4. AtWork'
    BY <2>1, <2>2 DEF BankInv, BankType, AtWork
  <2>5. Guarded'
    BY <1>1, <2>1, <2>2 DEF BankInv, BankType, Guarded
  <2> QED
    BY <2>3, <2>4, <2>5
<1> QED
  BY <1>2, <1>3, <1>4 DEF BankInv

\* A binding is of the only thread at work; a refused one and a refused launch
\* leave the queue alone.
LEMMA DriverStep ==
  ASSUME OneCaller, BankAssumptions, BankInv,
         NEW t \in Thread, Bank!Bind(t) \/ Bank!Rebind(t) \/ Bank!Launch(t)
  PROVE  BankInv'
<1> USE DEF BankAssumptions, Bank!ThreadOfAssumption, Bank!StreamOfAssumption, Bank!NullAssumption
<1>1. cur' = cur /\ bank' = bank /\ heard' = heard /\ pc[t] \in {"bind", "rebind", "launch"}
  BY DEF Bank!Bind, Bank!Rebind, Bank!Launch
<1>2. cur[t] \in Plan /\ StreamOf[cur[t]] \in UsedStream /\ Null \in UsedStream
  BY <1>1 DEF BankInv, AtWork, UsedStream
<1>3. PICK l \in {"idle", "synchronize", "guard"} : pc' = [pc EXCEPT ![t] = l]
  BY DEF Bank!Bind, Bank!Rebind, Bank!Launch, Bank!Goto
<1>4. AtWork'
  BY <1>1, <1>3 DEF BankInv, BankType, AtWork
<1>5. \A u \in Thread : pc'[u] # "launch"
  <2>1. \A u \in Thread : u # t => pc[u] = "idle"
    BY <1>1, <1>2 DEF BankInv, AtWork, OneCaller
  <2> QED
    BY <1>3, <2>1 DEF BankInv, BankType
<1>6. Guarded' /\ (Bank!OwnFilter)'
  BY <1>1, <1>5 DEF BankInv, Guarded, Bank!OwnFilter
<1>7. CASE UNCHANGED <<queue, owner>>
  <2>1. Recorded'
    BY <1>1, <1>7, Elsewhere
  <2>2. BankType'
    BY <1>1, <1>3, <1>7 DEF BankInv, BankType
  <2> QED
    BY <2>1, <2>2, <1>4, <1>6 DEF BankInv
<1>8. CASE \E kind \in {"copy", "kernel"}, s \in UsedStream :
             Bank!Enqueue(kind, cur[t], s) /\ owner' = cur[t] /\ (kind = "kernel" => owner = cur[t])
  <2>1. queue' \in Seq(BankCommand) /\ Recorded'
    BY <1>1, <1>2, <1>8, Enqueued DEF BankInv
  <2>2. BankType'
    BY <1>1, <1>2, <1>3, <1>8, <2>1 DEF BankInv, BankType
  <2> QED
    BY <2>1, <2>2, <1>4, <1>6 DEF BankInv
<1>9. CASE Bank!Bind(t)
  BY <1>2, <1>7, <1>8, <1>9 DEF Bank!Bind
<1>10. CASE Bank!Rebind(t)
  BY <1>2, <1>7, <1>8, <1>10 DEF Bank!Rebind
<1>11. CASE Bank!Launch(t)
  <2>1. owner' = owner /\ owner = cur[t]
    BY <1>11 DEF Bank!Launch, BankInv, Guarded
  <2> QED
    BY <1>2, <1>7, <1>8, <1>11, <2>1 DEF Bank!Launch
<1> QED
  BY <1>9, <1>10, <1>11

\* The device executes what was enqueued first, since everything is ordered.
LEMMA ExecuteStep ==
  ASSUME InOrder, BankAssumptions, BankInv, NEW i \in DOMAIN queue, Bank!Execute(i)
  PROVE  BankInv'
<1>1. queue \in Seq(BankCommand) /\ queue # <<>> /\ Len(queue) \in Nat /\ DOMAIN queue = 1 .. Len(queue)
  BY DEF BankInv, BankType
<1>2. i = 1
  <2>1. i \in Nat /\ i >= 1 /\ 1 \in DOMAIN queue
    BY <1>1
  <2>2. queue[1] \in BankCommand /\ queue[i] \in BankCommand
    BY <1>1, <2>1
  <2>3. queue[1].stream \in UsedStream /\ queue[i].stream \in UsedStream
    BY <2>2 DEF BankCommand
  <2>4. Bank!Before(queue[1], queue[i])
    BY <2>3 DEF InOrder, Ordered, Bank!Before
  <2>5. ~(1 \in 1 .. i - 1)
    BY <2>4 DEF Bank!Execute
  <2> QED
    BY <2>1, <2>5
<1>3. queue' = Tail(queue)
  BY <1>1, <1>2 DEF Bank!Execute, Bank!RemoveAt
<1>4. PICK n \in Nat : Len(queue) = n + 1
  <2>1. Len(queue) >= 1 /\ Len(queue) - 1 \in Nat /\ Len(queue) = (Len(queue) - 1) + 1
    BY <1>1, <1>2
  <2> QED
    BY <2>1
<1>5. /\ queue' \in Seq(BankCommand) /\ Len(queue') = n /\ DOMAIN queue' = 1 .. n /\ DOMAIN queue = 1 .. n + 1
      /\ \A j \in 1 .. n : queue'[j] = queue[j + 1]
  BY <1>1, <1>3, <1>4
<1>6. queue[1] \in BankCommand
  BY <1>1
<1>7. /\ queue[1].kind = "copy" => bank' = queue[1].plan /\ heard' = heard
      /\ queue[1].kind = "kernel" =>
           bank' = bank /\ heard' = [heard EXCEPT ![queue[1].plan] = @ \cup {bank}]
  BY <1>2 DEF Bank!Execute
<1>8. queue[1].kind = "kernel" => bank = queue[1].plan
  <2>1. 1 \in DOMAIN queue /\ 1 - 1 = 0
    BY <1>1
  <2> QED
    BY <2>1 DEF BankInv, Recorded, Holder
<1>9. bank' = queue[1].plan /\ queue[1].plan \in Plan
  BY <1>6, <1>7, <1>8 DEF BankCommand
<1>10. owner' = owner /\ pc' = pc /\ cur' = cur
  BY DEF Bank!Execute, Bank!host
<1>11. BankType'
  <2>1. heard' \in [Plan -> SUBSET (Plan \cup {NoPlan})]
    BY <1>6, <1>7 DEF BankInv, BankType, BankCommand
  <2> QED
    BY <1>5, <1>9, <1>10, <2>1 DEF BankInv, BankType
<1>12. \A j \in 0 .. n : Holder(j)' = Holder(j + 1)
  <2> SUFFICES ASSUME NEW j \in 0 .. n PROVE Holder(j)' = Holder(j + 1)
    OBVIOUS
  <2>1. CASE j = 0
    <3>1. j + 1 = 1
      BY <2>1
    <3> QED
      BY <2>1, <3>1, <1>9 DEF Holder
  <2>2. CASE j \in 1 .. n
    <3>1. j # 0 /\ j + 1 # 0
      BY <2>2
    <3> QED
      BY <2>2, <3>1, <1>5 DEF Holder
  <2> QED
    BY <2>1, <2>2
<1>13. Recorded'
  <2>1. owner' = Holder(Len(queue))'
    <3>1. Holder(Len(queue)) = Holder(n + 1) /\ n \in 0 .. n
      BY <1>4
    <3>2. Holder(Len(queue))' = Holder(n)'
      BY <1>5 DEF Holder
    <3> QED
      BY <3>1, <3>2, <1>10, <1>12 DEF BankInv, Recorded
  <2>2. ASSUME NEW j \in DOMAIN queue', queue'[j].kind = "kernel" PROVE queue'[j].plan = Holder(j - 1)'
    <3>1. j \in 1 .. n /\ j + 1 \in DOMAIN queue /\ j - 1 \in 0 .. n /\ (j + 1) - 1 = j /\ (j - 1) + 1 = j
      BY <1>5
    <3>2. queue[j + 1].kind = "kernel" /\ queue'[j].plan = queue[j + 1].plan
      BY <2>2, <3>1, <1>5
    <3>3. queue[j + 1].plan = Holder(j)
      BY <3>1, <3>2 DEF BankInv, Recorded
    <3>4. Holder(j - 1)' = Holder(j)
      BY <3>1, <1>12
    <3> QED
      BY <3>2, <3>3, <3>4
  <2> QED
    BY <2>1, <2>2 DEF Recorded
<1>14. (Bank!OwnFilter)'
  BY <1>6, <1>7, <1>8, <1>9 DEF BankInv, BankType, BankCommand, Bank!OwnFilter
<1>15. (AtWork /\ Guarded)'
  BY <1>10 DEF BankInv, AtWork, Guarded
<1> QED
  BY <1>11, <1>13, <1>14, <1>15 DEF BankInv

LEMMA BankStep ==
  ASSUME OneCaller, InOrder
  PROVE  BankInv /\ [Bank!Next]_Bank!vars => BankInv'
<1> USE BankAssumed
<1> SUFFICES ASSUME BankInv, [Bank!Next]_Bank!vars PROVE BankInv'
  OBVIOUS
<1>1. CASE UNCHANGED Bank!vars
  <2>1. UNCHANGED <<owner, bank, queue, pc, cur, heard>>
    BY <1>1 DEF Bank!vars, Bank!host, Bank!device
  <2>2. (Recorded /\ Bank!OwnFilter)'
    BY <2>1, Elsewhere
  <2> QED
    BY <2>1, <2>2 DEF BankInv, BankType, AtWork, Guarded
<1>2. CASE \E p \in Plan : Bank!Construct(p) \/ Bank!Run(p)
  BY <1>2, HostStep
<1>3. CASE \E t \in Thread : Bank!Synchronize(t) \/ Bank!Check(t) \/ Bank!Guard(t)
  BY <1>3, HostStep
<1>4. CASE \E t \in Thread : Bank!Bind(t) \/ Bank!Rebind(t) \/ Bank!Launch(t)
  BY <1>4, DriverStep
<1>5. CASE \E i \in DOMAIN queue : Bank!Execute(i)
  BY <1>5, ExecuteStep
<1> QED
  BY <1>1, <1>2, <1>3, <1>4, <1>5 DEF Bank!Next, Bank!ThreadStep, Bank!Rest

\* When one thread makes all the calls, on one stream that is the default stream
\* or synchronizes with it, no kernel ever convolves with the taps of another
\* plan, whichever plans are built and run in which order: the record of the owner,
\* kept as copies are enqueued, speaks of what the bank will hold by then.
THEOREM OwnFilterHolds ==
  ASSUME OneCaller, InOrder
  PROVE  Bank!Spec => []OwnFilter
<1>1. BankInv /\ [Bank!Next]_Bank!vars => BankInv'
  BY BankStep
<1>2. BankInv => OwnFilter
  BY DEF BankInv, Bank!OwnFilter, OwnFilter
<1> QED
  BY <1>1, <1>2, BankInit, PTL DEF Bank!Spec
-------------------------------------------------------------------------------
(* DenseSolver: one command behind, and caught up before a return.         *)

\* What its constants are assumed to be.
SolverAssumptions ==
  Solver!NonBlockingAssumption /\ Solver!SizesAssumption /\ Solver!SolvesAssumption

LEMMA SolverAssumed == SolverAssumptions
BY NonBlockingAssumption, SizesAssumption, SolvesAssumption
   DEF SolverAssumptions, Solver!NonBlockingAssumption, Solver!SizesAssumption, Solver!SolvesAssumption

\* Past the growing of the buffers they hold what the call needs.
Grown ==
  /\ pc # "idle" => serial >= 1
  /\ pc \notin {"idle", "grow"} =>
       problem.lwork <= workspace /\ (problem.method = "lu" => problem.n <= pivots)

BufferInv == Solver!SolverTypeOK /\ Solver!BuffersFit /\ Grown

\* What the call has the device do in a state of waiting for it.
Awaited == [op |-> IF pc = "readFactor" THEN "factor" ELSE "solve", call |-> serial, problem |-> problem]

\* The device is at most one command behind, on the stream of the handle, while
\* the host waits for it.
OneBehind ==
  \A s \in Streams : queue[s] # <<>> =>
    s = stream /\ pc \in {"readFactor", "readSolve"} /\ queue[s] = <<Awaited>>

\* What the info word says and where X is once the device has caught up.
CaughtUp ==
  (\A s \in Streams : queue[s] = <<>>) =>
    /\ pc = "readFactor" => info = IF problem.regular THEN 0 ELSE 1
    /\ pc = "readSolve" => serial \in solved

\* A solve follows a factorization that succeeded.
Factored == pc \in {"solve", "readSolve"} => problem.regular

AnswerInv == OneBehind /\ CaughtUp /\ Factored /\ Solver!Truthful

LEMMA SolverInit == Solver!Init => BufferInv /\ AnswerInv
<1> SUFFICES ASSUME Solver!Init PROVE BufferInv /\ AnswerInv
  OBVIOUS
<1> USE SolverAssumed
<1> USE DEF SolverAssumptions, Solver!NonBlockingAssumption, Solver!SizesAssumption,
            Solver!SolvesAssumption, Solver!Init
<1>1. Solver!SolverTypeOK
  BY DEF Solver!SolverTypeOK, Solver!PC
<1>2. Solver!BuffersFit /\ Grown
  BY DEF Solver!BuffersFit, Grown
<1>3. AnswerInv
  BY DEF AnswerInv, OneBehind, CaughtUp, Factored, Solver!Truthful
<1> QED
  BY <1>1, <1>2, <1>3 DEF BufferInv

\* A command of the call at hand goes to the end of the stream of the handle.
LEMMA SolverEnqueued ==
  ASSUME BufferInv, pc \in {"factor", "solve"},
         NEW op \in {"factor", "solve"}, Solver!Enqueue(op), UNCHANGED <<workspace, pivots>>
  PROVE  queue' \in [Streams -> Seq(Solver!Command)] /\ (Solver!BuffersFit)'
<1> USE SolverAssumed
<1> DEFINE k == [op |-> op, call |-> serial, problem |-> problem]
<1>1. stream \in Streams /\ queue \in [Streams -> Seq(Solver!Command)]
  BY DEF BufferInv, Solver!SolverTypeOK
<1>2. k \in Solver!Command
  <2>1. serial \in 1 .. Solves
    BY DEF BufferInv, Solver!SolverTypeOK, Grown, SolverAssumptions, Solver!SolvesAssumption
  <2>2. problem \in Solver!Problem
    BY DEF BufferInv, Solver!SolverTypeOK
  <2> QED
    BY <2>1, <2>2 DEF Solver!Command
<1>3. queue' = [queue EXCEPT ![stream] = Append(queue[stream], k)]
  BY DEF Solver!Enqueue
<1>4. k.problem.lwork <= workspace /\ (k.problem.method = "lu" => k.problem.n <= pivots)
  BY DEF BufferInv, Grown
<1> HIDE DEF k
<1>5. queue' \in [Streams -> Seq(Solver!Command)]
  BY <1>1, <1>2, <1>3
<1>6. ASSUME NEW s \in Streams, NEW i \in DOMAIN queue'[s]
      PROVE  /\ queue'[s][i].problem.lwork <= workspace
             /\ queue'[s][i].problem.method = "lu" => queue'[s][i].problem.n <= pivots
  <2>1. CASE s = stream
    <3>1. queue'[s] = Append(queue[s], k) /\ queue[s] \in Seq(Solver!Command)
      BY <2>1, <1>1, <1>3
    <3>2. queue'[s][i] = k \/ (i \in DOMAIN queue[s] /\ queue'[s][i] = queue[s][i])
      BY <3>1, <1>2
    <3> QED
      BY <3>2, <1>4 DEF BufferInv, Solver!BuffersFit
  <2>2. CASE s # stream
    <3>1. queue'[s] = queue[s]
      BY <2>2, <1>1, <1>3
    <3> QED
      BY <3>1 DEF BufferInv, Solver!BuffersFit
  <2> QED
    BY <2>1, <2>2
<1> QED
  BY <1>5, <1>6 DEF Solver!BuffersFit

LEMMA BufferStep ==
  BufferInv /\ [Solver!Next]_Solver!vars => BufferInv'
<1> USE SolverAssumed
<1> SUFFICES ASSUME BufferInv, [Solver!Next]_Solver!vars PROVE BufferInv'
  OBVIOUS
<1> USE DEF Solver!host, Solver!Return
<1>1. CASE UNCHANGED Solver!vars
  BY <1>1 DEF Solver!vars, BufferInv, Solver!SolverTypeOK, Solver!BuffersFit, Grown
<1>2. ASSUME NEW s \in Streams, Solver!SetStream(s) PROVE BufferInv'
  BY <1>2 DEF Solver!SetStream, BufferInv, Solver!SolverTypeOK, Solver!BuffersFit, Grown
<1>3. ASSUME NEW p \in Solver!Problem, Solver!Call(p) PROVE BufferInv'
  <2>1. serial' \in 0 .. Solves /\ serial' >= 1
    BY <1>3 DEF Solver!Call, BufferInv, Solver!SolverTypeOK, SolverAssumptions, Solver!SolvesAssumption
  <2>2. pc' \in {"grow", "idle"} /\ report' \in {"ok", "singular", "error"}
    BY <1>3 DEF Solver!Call, BufferInv, Solver!SolverTypeOK
  <2>3. (Solver!SolverTypeOK)'
    BY <1>3, <2>1, <2>2 DEF Solver!Call, BufferInv, Solver!SolverTypeOK, Solver!PC
  <2>4. (Solver!BuffersFit)' /\ Grown'
    BY <1>3, <2>1, <2>2 DEF Solver!Call, BufferInv, Solver!BuffersFit, Grown
  <2> QED
    BY <2>3, <2>4 DEF BufferInv
<1>4. CASE Solver!Grow
  <2>1. /\ problem.lwork \in Sizes /\ problem.n \in Sizes
        /\ workspace \in Sizes \cup {0} /\ pivots \in Sizes \cup {0} /\ Sizes \subseteq Nat
    BY DEF BufferInv, Solver!SolverTypeOK, Solver!Problem, SolverAssumptions, Solver!SizesAssumption
  <2>2. /\ workspace' \in Sizes \cup {0} /\ pivots' \in Sizes \cup {0}
        /\ workspace <= workspace' /\ pivots <= pivots'
        /\ pc' = "idle" \/ (problem.lwork <= workspace' /\ (problem.method = "lu" => problem.n <= pivots'))
    <3>1. \A n, m \in Nat : n <= n /\ (n < m => n <= m) /\ (~(n < m) => m <= n)
      OBVIOUS
    <3>2. workspace \in Nat /\ pivots \in Nat /\ problem.lwork \in Nat /\ problem.n \in Nat
      <4>1. \A n \in Sizes \cup {0} : n \in Nat
        BY <2>1
      <4> QED
        BY <4>1, <2>1
    <3>3. CASE /\ pc' = "factor"
               /\ workspace' = IF workspace < problem.lwork THEN problem.lwork ELSE workspace
               /\ pivots' = IF problem.method = "lu" /\ pivots < problem.n THEN problem.n ELSE pivots
      <4>1. workspace' \in Sizes \cup {0} /\ workspace <= workspace' /\ problem.lwork <= workspace'
        BY <3>1, <3>2, <3>3, <2>1
      <4>2. /\ pivots' \in Sizes \cup {0} /\ pivots <= pivots'
            /\ problem.method = "lu" => problem.n <= pivots'
        <5>1. CASE problem.method = "lu"
          BY <5>1, <3>1, <3>2, <3>3, <2>1
        <5>2. CASE problem.method # "lu"
          BY <5>2, <3>1, <3>2, <3>3, <2>1
        <5> QED
          BY <5>1, <5>2
      <4> QED
        BY <4>1, <4>2
    <3>4. CASE pc' = "idle" /\ UNCHANGED <<workspace, pivots>>
      BY <3>1, <3>2, <3>4, <2>1
    <3>5. CASE /\ pc' = "idle" /\ pivots' = pivots
               /\ workspace' = IF workspace < problem.lwork THEN problem.lwork ELSE workspace
      BY <3>1, <3>2, <3>5, <2>1
    <3> QED
      BY <3>3, <3>4, <3>5, <1>4 DEF Solver!Grow
  <2>3. UNCHANGED <<stream, serial, problem, queue, info, solved>> /\ pc' \in {"factor", "idle"} /\ pc = "grow"
    BY <1>4 DEF Solver!Grow
  <2>4. report' \in {"ok", "singular", "error"}
    BY <1>4 DEF Solver!Grow, BufferInv, Solver!SolverTypeOK
  <2>5. (Solver!SolverTypeOK)'
    BY <2>2, <2>3, <2>4 DEF BufferInv, Solver!SolverTypeOK, Solver!PC
  <2>6. Grown'
    BY <2>2, <2>3 DEF BufferInv, Grown
  <2>7. (Solver!BuffersFit)'
    <3> SUFFICES ASSUME NEW s \in Streams, NEW i \in DOMAIN queue[s]
                 PROVE  /\ queue[s][i].problem.lwork <= workspace'
                        /\ queue[s][i].problem.method = "lu" => queue[s][i].problem.n <= pivots'
      BY <2>3 DEF Solver!BuffersFit
    <3>1. queue[s][i] \in Solver!Command
      BY DEF BufferInv, Solver!SolverTypeOK
    <3>2. queue[s][i].problem.lwork \in Nat /\ queue[s][i].problem.n \in Nat
      BY <3>1, <2>1 DEF Solver!Command, Solver!Problem
    <3>3. /\ queue[s][i].problem.lwork <= workspace
          /\ queue[s][i].problem.method = "lu" => queue[s][i].problem.n <= pivots
      BY DEF BufferInv, Solver!BuffersFit
    <3>4. workspace \in Nat /\ workspace' \in Nat /\ pivots \in Nat /\ pivots' \in Nat
      BY <2>1, <2>2
    <3> QED
      BY <3>2, <3>3, <3>4, <2>2
  <2> QED
    BY <2>5, <2>6, <2>7 DEF BufferInv
<1>5. CASE Solver!Factor \/ Solver!Solve
  <2>1. /\ pc \in {"factor", "solve"} /\ UNCHANGED <<stream, serial, problem, workspace, pivots, info, solved>>
        /\ pc' \in {"readFactor", "readSolve", "idle"}
    BY <1>5 DEF Solver!Factor, Solver!Solve
  <2>2. report' \in {"ok", "singular", "error"}
    BY <1>5 DEF Solver!Factor, Solver!Solve, BufferInv, Solver!SolverTypeOK
  <2>3. queue' \in [Streams -> Seq(Solver!Command)] /\ (Solver!BuffersFit)'
    <3>1. CASE UNCHANGED queue
      BY <3>1, <2>1 DEF BufferInv, Solver!SolverTypeOK, Solver!BuffersFit
    <3>2. CASE Solver!Enqueue("factor") \/ Solver!Enqueue("solve")
      BY <3>2, <2>1, SolverEnqueued
    <3> QED
      BY <3>1, <3>2, <1>5 DEF Solver!Factor, Solver!Solve
  <2>4. (Solver!SolverTypeOK)'
    BY <2>1, <2>2, <2>3 DEF BufferInv, Solver!SolverTypeOK, Solver!PC
  <2>5. Grown'
    BY <2>1 DEF BufferInv, Grown
  <2> QED
    BY <2>3, <2>4, <2>5 DEF BufferInv
<1>6. CASE Solver!ReadFactor \/ Solver!ReadSolve
  <2>1. /\ pc \in {"readFactor", "readSolve"}
        /\ UNCHANGED <<stream, serial, problem, workspace, pivots, queue, info, solved>>
        /\ pc' \in {"solve", "idle"}
    BY <1>6 DEF Solver!ReadFactor, Solver!ReadSolve
  <2>2. report' \in {"ok", "singular", "error"}
    BY <1>6 DEF Solver!ReadFactor, Solver!ReadSolve, BufferInv, Solver!SolverTypeOK
  <2>3. (Solver!SolverTypeOK)'
    BY <2>1, <2>2 DEF BufferInv, Solver!SolverTypeOK, Solver!PC
  <2>4. (Solver!BuffersFit)' /\ Grown'
    BY <2>1 DEF BufferInv, Solver!BuffersFit, Grown
  <2> QED
    BY <2>3, <2>4 DEF BufferInv
<1>7. ASSUME NEW s \in Streams, Solver!Execute(s) PROVE BufferInv'
  <2>1. /\ queue[s] # <<>> /\ queue[s] \in Seq(Solver!Command)
        /\ queue' = [queue EXCEPT ![s] = Tail(queue[s])]
    BY <1>7 DEF Solver!Execute, BufferInv, Solver!SolverTypeOK
  <2>2. UNCHANGED <<stream, serial, problem, workspace, pivots, pc, report>> /\ info' \in {0, 1}
    BY <1>7 DEF Solver!Execute
  <2>3. solved' \subseteq 1 .. Solves
    <3>1. Head(queue[s]) \in Solver!Command
      BY <2>1
    <3>2. Head(queue[s]).call \in 1 .. Solves
      BY <3>1 DEF Solver!Command
    <3> QED
      BY <3>2, <1>7 DEF Solver!Execute, BufferInv, Solver!SolverTypeOK
  <2>4. queue' \in [Streams -> Seq(Solver!Command)]
    BY <2>1 DEF BufferInv, Solver!SolverTypeOK
  <2>5. (Solver!SolverTypeOK)'
    BY <2>2, <2>3, <2>4 DEF BufferInv, Solver!SolverTypeOK
  <2>6. \A r \in Streams : \A i \in DOMAIN queue'[r] : \E j \in DOMAIN queue[r] : queue'[r][i] = queue[r][j]
    <3> SUFFICES ASSUME NEW r \in Streams, NEW i \in DOMAIN queue'[r]
                 PROVE  \E j \in DOMAIN queue[r] : queue'[r][i] = queue[r][j]
      OBVIOUS
    <3>1. CASE r = s
      <4>1. queue'[r] = Tail(queue[r]) /\ queue[r] \in Seq(Solver!Command) /\ queue[r] # <<>>
        BY <3>1, <2>1 DEF BufferInv, Solver!SolverTypeOK
      <4>2. i + 1 \in DOMAIN queue[r] /\ queue'[r][i] = queue[r][i + 1]
        BY <4>1
      <4> QED
        BY <4>2
    <3>2. CASE r # s
      BY <3>2, <2>1 DEF BufferInv, Solver!SolverTypeOK
    <3> QED
      BY <3>1, <3>2
  <2>7. (Solver!BuffersFit)' /\ Grown'
    BY <2>2, <2>6 DEF BufferInv, Solver!BuffersFit, Grown
  <2> QED
    BY <2>5, <2>7 DEF BufferInv
<1> QED
  BY <1>1, <1>2, <1>3, <1>4, <1>5, <1>6, <1>7 DEF Solver!Next, Solver!HostStep

\* No command is executed, on any kind of stream, on a workspace or a pivot array
\* that is too small for it: growing a buffer frees the old one, and what is
\* still queued fits the new one.
THEOREM SolverConsistentHolds == Solver!Spec => []SolverConsistent
<1>1. Solver!Init => BufferInv
  BY SolverInit
<1>2. BufferInv /\ [Solver!Next]_Solver!vars => BufferInv'
  BY BufferStep
<1>3. BufferInv => SolverConsistent
  BY DEF BufferInv, Solver!SolverTypeOK, SolverTypeOK, Solver!BuffersFit, BuffersFit, SolverConsistent,
         Solver!PC, PC, Solver!Problem, Problem, Solver!Command, Command
<1> QED
  BY <1>1, <1>2, <1>3, PTL DEF Solver!Spec

\* Outside its two waits nothing is queued, and in them only what is awaited.
LEMMA AnswerStep ==
  ASSUME NonBlocking = {}
  PROVE  BufferInv /\ AnswerInv /\ [Solver!Next]_Solver!vars => AnswerInv'
<1> SUFFICES ASSUME BufferInv, AnswerInv, [Solver!Next]_Solver!vars PROVE AnswerInv'
  OBVIOUS
<1> USE DEF Solver!host, Solver!Return
<1> DEFINE Empty == \A s \in Streams : queue[s] = <<>>
<1>1. /\ stream \in Streams /\ queue \in [Streams -> Seq(Solver!Command)] /\ info \in {0, 1}
      /\ problem.regular \in BOOLEAN /\ pc \in Solver!PC
  BY DEF BufferInv, Solver!SolverTypeOK, Solver!Problem
<1>2. pc \notin {"readFactor", "readSolve"} => Empty
  BY DEF AnswerInv, OneBehind
<1>3. Solver!Copied => Empty
  BY DEF Solver!Copied
<1>4. Empty /\ UNCHANGED queue => OneBehind'
  BY DEF OneBehind
<1>5. CASE UNCHANGED Solver!vars
  BY <1>5 DEF Solver!vars, AnswerInv, OneBehind, CaughtUp, Factored, Solver!Truthful, Awaited
<1>6. ASSUME NEW s \in Streams, Solver!SetStream(s) PROVE AnswerInv'
  BY <1>2, <1>4, <1>6 DEF Solver!SetStream, AnswerInv, CaughtUp, Factored, Solver!Truthful
<1>7. ASSUME NEW p \in Solver!Problem, Solver!Call(p) PROVE AnswerInv'
  BY <1>2, <1>4, <1>7 DEF Solver!Call, AnswerInv, CaughtUp, Factored, Solver!Truthful
<1>8. CASE Solver!Grow
  BY <1>2, <1>4, <1>8 DEF Solver!Grow, AnswerInv, CaughtUp, Factored, Solver!Truthful
<1>9. CASE Solver!Factor \/ Solver!Solve
  <2>1. Empty /\ pc \in {"factor", "solve"} /\ UNCHANGED <<stream, serial, problem>>
    BY <1>2, <1>9 DEF Solver!Factor, Solver!Solve
  <2>2. CASE UNCHANGED queue /\ pc' = "idle" /\ report' = "error"
    BY <1>4, <2>1, <2>2 DEF AnswerInv, CaughtUp, Factored, Solver!Truthful
  <2>3. ASSUME NEW op \in {"factor", "solve"}, Solver!Enqueue(op),
               pc' = IF op = "factor" THEN "readFactor" ELSE "readSolve", op = "solve" => pc = "solve"
        PROVE  AnswerInv'
    <3>1. queue' = [queue EXCEPT ![stream] = <<[op |-> op, call |-> serial, problem |-> problem]>>]
      <4> DEFINE k == [op |-> op, call |-> serial, problem |-> problem]
      <4>1. queue' = [queue EXCEPT ![stream] = Append(queue[stream], k)]
        BY <2>3 DEF Solver!Enqueue
      <4> HIDE DEF k
      <4>2. queue[stream] = <<>> /\ Append(<<>>, k) = <<k>>
        BY <1>1, <2>1
      <4> QED
        BY <4>1, <4>2 DEF k
    <3>2. Awaited' = [op |-> op, call |-> serial, problem |-> problem]
      BY <2>1, <2>3 DEF Awaited
    <3>3. OneBehind'
      BY <1>1, <2>1, <2>3, <3>1, <3>2 DEF OneBehind
    <3>4. queue'[stream] # <<>>
      BY <1>1, <3>1
    <3>5. CaughtUp'
      BY <3>4, <1>1, <2>1 DEF CaughtUp
    <3>6. Factored'
      BY <2>1, <2>3 DEF Factored, AnswerInv
    <3>7. (Solver!Truthful)'
      BY <2>3 DEF Solver!Truthful
    <3> QED
      BY <3>3, <3>5, <3>6, <3>7 DEF AnswerInv
  <2>4. CASE Solver!Factor
    BY <2>2, <2>3, <2>4 DEF Solver!Factor
  <2>5. CASE Solver!Solve
    BY <2>2, <2>3, <2>5 DEF Solver!Solve
  <2> QED
    BY <2>4, <2>5, <1>9
<1>10. CASE Solver!ReadFactor
  <2>1. Empty /\ pc = "readFactor" /\ UNCHANGED <<queue, problem, serial, info, solved>>
    BY <1>3, <1>10 DEF Solver!ReadFactor
  <2>2. info = IF problem.regular THEN 0 ELSE 1
    BY <2>1 DEF AnswerInv, CaughtUp
  <2>3. CASE info # 0
    BY <1>1, <1>4, <1>10, <2>1, <2>2, <2>3 DEF Solver!ReadFactor, AnswerInv, CaughtUp, Factored, Solver!Truthful
  <2>4. CASE info = 0
    BY <1>1, <1>4, <1>10, <2>1, <2>2, <2>4 DEF Solver!ReadFactor, AnswerInv, CaughtUp, Factored, Solver!Truthful
  <2> QED
    BY <2>3, <2>4
<1>11. CASE Solver!ReadSolve
  <2>1. Empty /\ pc = "readSolve" /\ UNCHANGED <<queue, problem, serial, info, solved>>
    BY <1>3, <1>11 DEF Solver!ReadSolve
  <2>2. serial \in solved
    BY <2>1 DEF AnswerInv, CaughtUp
  <2> QED
    BY <1>4, <1>11, <2>1, <2>2 DEF Solver!ReadSolve, AnswerInv, CaughtUp, Factored, Solver!Truthful
<1>12. ASSUME NEW s \in Streams, Solver!Execute(s) PROVE AnswerInv'
  <2>1. s = stream /\ pc \in {"readFactor", "readSolve"} /\ queue[s] = <<Awaited>>
    BY <1>12 DEF Solver!Execute, AnswerInv, OneBehind
  <2>2. UNCHANGED <<stream, serial, problem, pc, report>>
    BY <1>12 DEF Solver!Execute
  <2>3. Empty'
    <3>1. \A r \in Streams : r # s => queue[r] = <<>>
      BY <2>1 DEF AnswerInv, OneBehind
    <3>2. Tail(queue[s]) = <<>>
      BY <2>1
    <3>3. queue' = [queue EXCEPT ![s] = <<>>]
      BY <1>12, <3>2 DEF Solver!Execute
    <3> QED
      BY <1>1, <3>1, <3>3
  <2>4. /\ Head(queue[s]).op = IF pc = "readFactor" THEN "factor" ELSE "solve"
        /\ Head(queue[s]).call = serial /\ Head(queue[s]).problem = problem
    BY <2>1 DEF Awaited
  <2>5. CaughtUp'
    <3>1. CASE pc = "readFactor"
      BY <3>1, <1>1, <1>12, <2>2, <2>4 DEF Solver!Execute, CaughtUp
    <3>2. CASE pc = "readSolve"
      <4>1. problem.regular
        BY <3>2 DEF AnswerInv, Factored
      <4> QED
        BY <4>1, <3>2, <1>12, <2>2, <2>4 DEF Solver!Execute, CaughtUp
    <3> QED
      BY <3>1, <3>2, <2>1
  <2>6. OneBehind' /\ Factored' /\ (Solver!Truthful)'
    BY <2>1, <2>2, <2>3 DEF OneBehind, Factored, Solver!Truthful, AnswerInv
  <2> QED
    BY <2>5, <2>6 DEF AnswerInv
<1> QED
  BY <1>5, <1>6, <1>7, <1>8, <1>9, <1>10, <1>11, <1>12 DEF Solver!Next, Solver!HostStep

\* Both invariants, of a device whose streams all synchronize with the default one.
LEMMA AnswerInvariance ==
  ASSUME NonBlocking = {}
  PROVE  Solver!Spec => [](BufferInv /\ AnswerInv)
<1>1. Solver!Init => BufferInv /\ AnswerInv
  BY SolverInit
<1>2. BufferInv /\ AnswerInv /\ [Solver!Next]_Solver!vars => (BufferInv /\ AnswerInv)'
  BY BufferStep, AnswerStep
<1> QED
  BY <1>1, <1>2, PTL DEF Solver!Spec

\* Where no stream is created cudaStreamNonBlocking, the legacy stream copy that
\* reads the info word waits for the device: no call returns with work queued.
THEOREM SynchronousHolds ==
  ASSUME NonBlocking = {}
  PROVE  Solver!Spec => []Synchronous
<1>1. BufferInv /\ AnswerInv => Synchronous
  BY DEF AnswerInv, OneBehind, Synchronous
<1> QED
  BY <1>1, AnswerInvariance, PTL

\* And what it reports is true then: success means that X is in place, singular
\* that A could not be factored.
THEOREM TruthfulHolds ==
  ASSUME NonBlocking = {}
  PROVE  Solver!Spec => []Truthful
<1>1. BufferInv /\ AnswerInv => Truthful
  BY DEF AnswerInv, Solver!Truthful, Truthful
<1> QED
  BY <1>1, AnswerInvariance, PTL
=================================================================================
