-------------------------------- MODULE Library --------------------------------
(***************************************************************************)
(* The host library as one caller sees it: a plan of any family, or a      *)
(* Context for the products, is built; calls are made on it, one after     *)
(* another on one stream, each resolved, checked, and enqueued as launches *)
(* that run in order or fail.  StreamCalls has the rules all families      *)
(* share, a module of its own each family's plan, launches and kernels.    *)
(*                                                                         *)
(* A Context and a plan are externally synchronized, so calls on one never *)
(* overlap; what concurrent blocks of one kernel do to each other is the   *)
(* subject of StreamK, LookbackScan, ReduceLadder and TilePipeline.        *)
(***************************************************************************)
EXTENDS SpmvPlan, ScanLevels, ConvPlan, GemmDispatch, GemvTrsm

CONSTANTS
  Inputs,         \* what a plan may be built from
  Requests(_)     \* the requests made on a plan built from an input

ASSUME InputsAssumption ==
  \A in \in Inputs :
    /\ in.family = "gemm" =>
         IsDevice(in) /\ \A r \in Requests(in) : r.what = "gemm" => IsDescription(r)
    /\ in.family = "fft" => in.n \in Nat

Init ==
  /\ input \in Inputs
  /\ plan = Nothing
  /\ request = Nothing
  /\ chosen = "none"
  /\ status = "none"
  /\ program = <<>>
  /\ dev = Nothing
  /\ calls = 0

Build == BuildSpmv \/ BuildScan \/ BuildFft \/ BuildFft2d \/ BuildConv \/ BuildContext \/ BuildDense

Call ==
  /\ Ready
  /\ \E r \in Requests(input) :
       \/ CallSpmv(r) \/ CallScan(r) \/ CallReduce(r) \/ CallFft(r) \/ CallFft2d(r)
       \/ CallConv(r) \/ CallGemm(r) \/ CallRung(r) \/ CallGemv(r) \/ CallTrsm(r)

Kernel == SpmvKernel \/ ScanKernel \/ FftKernel \/ ConvKernel \/ GemmKernel \/ DenseKernel

Next == Build \/ Call \/ Kernel \/ LaunchFails \/ Return \/ Idle

Spec == Init /\ [][Next]_callVars

-------------------------------------------------------------------------------
(* Property.  Those of one family are in its module.                       *)

\* A caller who leaves the choice to the library is served: no choice a plan or
\* gemm makes of itself is one the rung chosen then refuses.
AutoServed == AutoIsServed /\ FftAutoServed
===============================================================================
