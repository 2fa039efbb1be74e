--------------------------------- MODULE SplitK ---------------------------------
(***************************************************************************)
(* Split-K of src/gemm/gemm_splitk.cu over the kernel of                   *)
(* src/gemm/gemm_tile_family.cu: K is cut into slices, a first kernel      *)
(* writes the partial sum of every slice into a plane of its own and a     *)
(* second one adds the planes up into C.  Calls come one after another on  *)
(* one stream.  A sum is the interval of K it covers, with the call it     *)
(* belongs to.                                                             *)
(***************************************************************************)
EXTENDS Integers

CONSTANTS
  K,         \* the contraction length
  BK,        \* tile.k, what one K step of the tile covers
  Requests,  \* the split counts a call may ask for
  Fragment,  \* the parts of C blocks compute independently
  Calls      \* calls made, one after another on one stream

ASSUME KAssumption == K \in Nat
ASSUME BKAssumption == BK \in Nat \ {0}
ASSUME RequestsAssumption == Requests \subseteq Int
ASSUME FragmentAssumption == Fragment # {}
ASSUME CallsAssumption == Calls \in Nat

-------------------------------------------------------------------------------
(* The slices.                                                             *)

CeilDiv(a, b) == (a + b - 1) \div b

\* slice_extent: the even share, rounded up to whole K steps.
Extent(n) == IF K = 0 THEN 1 ELSE CeilDiv(CeilDiv(K, IF n < 1 THEN 1 ELSE n), BK) * BK

\* One slice too few.
UsedLess(n) == IF K <= Extent(n) THEN 1 ELSE K \div Extent(n)

\* slices_used, which the workspace query and the call share.
Used(n) == IF K = 0 THEN 1 ELSE CeilDiv(K, Extent(n))

\* Slice i is SliceBegin(n, i) .. SliceEnd(n, i) - 1.
SliceBegin(n, i) == i * Extent(n)
SliceEnd(n, i) == IF (i + 1) * Extent(n) > K THEN K ELSE (i + 1) * Extent(n)

-------------------------------------------------------------------------------
Sum(k, lo, hi) == [call |-> k, lo |-> lo, hi |-> hi]
\* What is no sum of one call, and what a fragment of C holds before a write.
Garbage == Sum(0, 0, 0)
NoValue == Sum(-1, 0, 0)
Value == [call : -1 .. Calls, lo : 0 .. K, hi : 0 .. K]

Add(sum, slice) ==
  IF slice.call = sum.call /\ slice.lo = sum.hi THEN Sum(sum.call, sum.lo, slice.hi) ELSE Garbage

\* A beta folds in what C holds: only the first write of a call is the result.
Fold(old, new) == IF old = NoValue THEN new ELSE Garbage

VARIABLES
  call,     \* the call being served, 0 before the first one
  phase,    \* the command of the call the stream has come to
  result,   \* what the call returns, if it got no further
  splits,   \* the split count it asks for
  scratch,  \* whose the workspace is: "none", "caller" or "owned"
  plane,    \* the workspace: the plane of each slice, by fragment
  queued,   \* the blocks of the kernel that have still to run
  summed,   \* how many planes each fragment's fixup threads have added
  acc,      \* and their sum
  c         \* C, NoValue where it is still to be written

vars == <<call, phase, result, splits, scratch, plane, queued, summed, acc, c>>

Phase == {"idle", "alloc", "plain", "running", "slices", "slicing", "fixing", "free"}
Slice == 0 .. Used(splits) - 1
NoC == [f \in Fragment |-> NoValue]
Start == [f \in Fragment |-> 0]
Zero == [f \in Fragment |-> Sum(call, 0, 0)]
GarbagePlanes(n) == [i \in 0 .. Used(n) - 1 |-> [f \in Fragment |-> Garbage]]

Init ==
  /\ call = 0 /\ phase = "idle" /\ result = "ok" /\ scratch = "none"
  /\ splits \in Requests
  /\ plane = GarbagePlanes(splits)
  /\ queued = {}
  /\ summed = Start /\ acc = Zero /\ c = NoC

-------------------------------------------------------------------------------
(* Faults: forms of the definitions below with a plausible bug in them,    *)
(* for the runs that must then fail.                                       *)

\* A fixup that cannot be launched leaves without freeing the planes.
LaunchFixupLeaks ==
  /\ phase = "slicing" /\ queued = {}
  /\ \/ phase' = "fixing" /\ UNCHANGED result
     \/ phase' = "idle" /\ result' = "error"
  /\ summed' = Start /\ acc' = Zero
  /\ UNCHANGED <<call, splits, scratch, plane, queued, c>>

-------------------------------------------------------------------------------
(* gemm_split_k and the commands it enqueues.                              *)

\* The call: refused for a tile outside the family, an older device or a
\* workspace too small; one slice takes the plain grid and no workspace.
Call(n, workspace) ==
  /\ phase = "idle"
  /\ call < Calls
  /\ call' = call + 1
  /\ splits' = n
  /\ plane' = GarbagePlanes(n)
  /\ c' = NoC
  /\ \/ /\ Used(n) = 1
        /\ phase' = "plain" /\ scratch' = "none" /\ result' = "ok"
     \/ /\ Used(n) > 1 /\ workspace = "null"
        /\ phase' = "alloc" /\ scratch' = "none" /\ result' = "ok"
     \/ /\ Used(n) > 1 /\ workspace = "enough"
        /\ phase' = "slices" /\ scratch' = "caller" /\ result' = "ok"
     \/ /\ workspace = "refused"
        /\ phase' = "free" /\ scratch' = "none" /\ result' = "error"
  /\ UNCHANGED <<queued, summed, acc>>

Allocate ==
  /\ phase = "alloc"
  /\ \/ phase' = "slices" /\ scratch' = "owned" /\ UNCHANGED result
     \/ phase' = "free" /\ result' = "error" /\ UNCHANGED scratch
  /\ UNCHANGED <<call, splits, plane, queued, summed, acc, c>>

\* tile_family_launch over the slices; prepare_once and the launch can throw.
LaunchSlices ==
  /\ phase = "slices"
  /\ \/ phase' = "slicing" /\ queued' = Slice \X Fragment /\ UNCHANGED result
     \/ phase' = "free" /\ result' = "error" /\ UNCHANGED queued
  /\ UNCHANGED <<call, splits, scratch, plane, summed, acc, c>>

\* A block of tile_kernel: its slice of K into its part of the plane; a slice
\* that begins past K returns and writes nothing.
SliceBlock(i, f) ==
  /\ phase = "slicing"
  /\ <<i, f>> \in queued
  /\ queued' = queued \ {<<i, f>>}
  /\ plane' = IF SliceBegin(splits, i) >= K THEN plane
              ELSE [plane EXCEPT ![i][f] = Sum(call, SliceBegin(splits, i), SliceEnd(splits, i))]
  /\ UNCHANGED <<call, phase, result, splits, scratch, summed, acc, c>>

\* splitk_fixup_kernel, behind all blocks of the kernel before it.
LaunchFixup ==
  /\ phase = "slicing" /\ queued = {}
  /\ \/ phase' = "fixing" /\ UNCHANGED result
     \/ phase' = "free" /\ result' = "error"
  /\ summed' = Start /\ acc' = Zero
  /\ UNCHANGED <<call, splits, scratch, plane, queued, c>>

AddPlane(f) ==
  /\ phase = "fixing"
  /\ summed[f] < Used(splits)
  /\ acc' = [acc EXCEPT ![f] = Add(@, plane[summed[f]][f])]
  /\ summed' = [summed EXCEPT ![f] = @ + 1]
  /\ UNCHANGED <<call, phase, result, splits, scratch, plane, queued, c>>

WriteC(f) ==
  /\ phase = "fixing"
  /\ summed[f] = Used(splits)
  /\ c' = [c EXCEPT ![f] = Fold(@, acc[f])]
  /\ summed' = [summed EXCEPT ![f] = @ + 1]
  /\ UNCHANGED <<call, phase, result, splits, scratch, plane, queued, acc>>

Fixed ==
  /\ phase = "fixing"
  /\ \A f \in Fragment : summed[f] > Used(splits)
  /\ phase' = "free"
  /\ UNCHANGED <<call, result, splits, scratch, plane, queued, summed, acc, c>>

\* The plain grid: every fragment straight into C, each by a block of its own.
LaunchPlain ==
  /\ phase = "plain"
  /\ \/ phase' = "running" /\ queued' = {0} \X Fragment /\ UNCHANGED result
     \/ phase' = "free" /\ result' = "error" /\ UNCHANGED queued
  /\ UNCHANGED <<call, splits, scratch, plane, summed, acc, c>>

PlainBlock(f) ==
  /\ phase = "running"
  /\ <<0, f>> \in queued
  /\ queued' = queued \ {<<0, f>>}
  /\ c' = [c EXCEPT ![f] = Fold(@, Sum(call, 0, K))]
  /\ UNCHANGED <<call, phase, result, splits, scratch, plane, summed, acc>>

PlainEnd ==
  /\ phase = "running" /\ queued = {}
  /\ phase' = "free"
  /\ UNCHANGED <<call, result, splits, scratch, plane, queued, summed, acc, c>>

\* cudaFreeAsync, behind the kernels on the stream, if the planes are owned; where
\* no other failure is on its way out, its own is thrown.
Free ==
  /\ phase = "free"
  /\ phase' = "idle"
  /\ scratch' = "none"
  /\ \/ UNCHANGED result
     \/ scratch = "owned" /\ result' = "error"
  /\ UNCHANGED <<call, splits, plane, queued, summed, acc, c>>

-------------------------------------------------------------------------------
\* Nothing left to serve.
Rest == phase = "idle" /\ call = Calls /\ UNCHANGED vars

BlockStep(f) ==
  AddPlane(f) \/ WriteC(f) \/ PlainBlock(f) \/ \E i \in Slice : SliceBlock(i, f)

StreamStep == Allocate \/ LaunchSlices \/ LaunchFixup \/ Fixed \/ LaunchPlain \/ PlainEnd \/ Free

Next ==
  \/ \E n \in Requests, workspace \in {"null", "enough", "refused"} : Call(n, workspace)
  \/ StreamStep \/ Rest
  \/ \E f \in Fragment : BlockStep(f)

Spec == Init /\ [][Next]_vars

-------------------------------------------------------------------------------
(* Properties.                                                             *)

\* Every variable has its type; no sum reaches past K.
TypeOK ==
  /\ call \in 0 .. Calls
  /\ phase \in Phase
  /\ result \in {"ok", "error"}
  /\ splits \in Requests
  /\ scratch \in {"none", "caller", "owned"}
  /\ plane \in [Slice -> [Fragment -> Value]]
  /\ queued \subseteq Slice \X Fragment
  /\ summed \in [Fragment -> Nat]
  /\ phase = "fixing" => \A f \in Fragment : summed[f] <= Used(splits) + 1
  /\ acc \in [Fragment -> Value]
  /\ c \in [Fragment -> Value]

\* Every plane the fixup reads holds its slice of this call: the rounding of
\* the extent leaves no slice empty, whose plane no block would have written.
PlanesComplete ==
  phase = "fixing" =>
    \A i \in Slice : \A f \in Fragment :
      plane[i][f] = Sum(call, SliceBegin(splits, i), SliceEnd(splits, i))

\* The fixup has summed K up to where the next slice begins, and at the end
\* all of it.
SumSoFar ==
  phase = "fixing" =>
    \A f \in Fragment :
      acc[f] = Sum(call, 0, IF summed[f] < Used(splits) THEN SliceBegin(splits, summed[f]) ELSE K)

\* Planes are only written to and read from memory the call holds, and what it
\* allocated is given back on every way out.
ScratchBalanced ==
  /\ phase \in {"slices", "slicing", "fixing"} => scratch # "none"
  /\ phase = "idle" => scratch = "none"

\* A call writes every fragment of C once with all of K; one that fails has left C
\* alone or, in its last step, written it all.
Written == {f \in Fragment : c[f] = Sum(call, 0, K)}
Promise == INSTANCE GemmSpec
  WITH Cuts <- {Fragment}, fragment <- Fragment,
       result <- IF phase = "idle" THEN result ELSE "busy", written <- Written
ImplementsGemm == Promise!Spec
===============================================================================
