----------------------------- MODULE DispatchProofs -----------------------------
(***************************************************************************)
(* What the dispatch promises of every call, proved for every roster of    *)
(* tiles, device, tile sweep and description.                              *)
(*                                                                         *)
(* What a call of gemm does is decided when it is made, by functions of    *)
(* the description and of the input of the Context; most of this module is *)
(* about those functions: OutcomeShape says what may come of a call,       *)
(* LaunchesOf what each of its launches is, and Unrerouted, Sufficient,    *)
(* AutoServes and Heeded what the four properties need of them.  The       *)
(* invariant DispatchInv then carries the call in service, with what is    *)
(* left of its launches, over the steps that execute, fail and return.     *)
(***************************************************************************)
EXTENDS Library, FiniteSetTheorems, WellFoundedInduction, TLAPS

-------------------------------------------------------------------------------
(* The kernels: each launch leaves the program, and what a product's kernel *)
(* writes leaves the extent of the driver's own scratch.                    *)

\* What every kernel does to what the host sees: its launch leaves the program.
Executed ==
  /\ program # <<>>
  /\ program' = Tail(program)
  /\ UNCHANGED <<input, plan, request, chosen, status, calls>>

\* The kernels of a product, by the names of their launches.
GemmKernels ==
  {"naive", "half_naive", "tiled", "register", "cp_async", "wmma", "mma_ptx", "mma_ldm", "mma_opt",
   "mma_opt_bias", "bias_relu", "tile", "splitk_fixup", "streamk", "cutlass", "cutlass_scale", "cublas",
   "scal"}

\* The kernels of the other families, which launch none of a product's.
LEMMA SpmvExecutes == SpmvKernel => Executed /\ Head(program).kernel \notin GemmKernels
<1> USE DEF Executed, Launched, Execute, GemmKernels, StoreRows
<1>1. CASE CsrNaiveKernel
  BY <1>1 DEF CsrNaiveKernel
<1>2. CASE CsrWarpKernel
  BY <1>2 DEF CsrWarpKernel
<1>3. CASE CsrVectorKernel
  BY <1>3 DEF CsrVectorKernel
<1>4. CASE SellKernel
  BY <1>4 DEF SellKernel
<1>5. CASE BsrKernel
  BY <1>5 DEF BsrKernel
<1>6. CASE CusparseKernel
  BY <1>6 DEF CusparseKernel
<1>7. CASE MergeKernel
  BY <1>7 DEF MergeKernel
<1>8. CASE MergeFixupKernel
  BY <1>8 DEF MergeFixupKernel
<1> QED
  BY <1>1, <1>2, <1>3, <1>4, <1>5, <1>6, <1>7, <1>8 DEF SpmvKernel

LEMMA ScanExecutes == ScanKernel => Executed /\ Head(program).kernel \notin GemmKernels
<1> USE DEF Executed, Launched, Execute, GemmKernels
<1>1. CASE TileScanKernel
  BY <1>1 DEF TileScanKernel
<1>2. CASE PropagateKernel
  BY <1>2 DEF PropagateKernel
<1>3. CASE TileReduceKernel
  BY <1>3 DEF TileReduceKernel
<1>4. CASE TileApplyKernel
  BY <1>4 DEF TileApplyKernel
<1>5. CASE WholeScanKernel
  BY <1>5 DEF WholeScanKernel
<1>6. CASE WholeReduceKernel
  BY <1>6 DEF WholeReduceKernel
<1> QED
  BY <1>1, <1>2, <1>3, <1>4, <1>5, <1>6 DEF ScanKernel

LEMMA FftExecutes == FftKernel => Executed /\ Head(program).kernel \notin GemmKernels
<1> USE DEF Executed, Launched, Execute, GemmKernels
<1>1. CASE StageKernel
  BY <1>1 DEF StageKernel
<1>2. CASE SharedKernel
  BY <1>2 DEF SharedKernel
<1>3. CASE TransposeKernel
  BY <1>3 DEF TransposeKernel
<1>4. CASE CufftKernel
  BY <1>4 DEF CufftKernel
<1>5. CASE PackRealKernel
  BY <1>5 DEF PackRealKernel
<1>6. CASE UnpackRealKernel
  BY <1>6 DEF UnpackRealKernel
<1>7. CASE UntangleKernel
  BY <1>7 DEF UntangleKernel
<1>8. CASE C2rPackKernel
  BY <1>8 DEF C2rPackKernel
<1> QED
  BY <1>1, <1>2, <1>3, <1>4, <1>5, <1>6, <1>7, <1>8 DEF FftKernel

LEMMA ConvExecutes == ConvKernel => Executed /\ Head(program).kernel \notin GemmKernels
<1> USE DEF Executed, Launched, Execute, GemmKernels
<1>1. CASE ConvPackKernel
  BY <1>1 DEF ConvPackKernel
<1>2. CASE ConvPointwiseKernel
  BY <1>2 DEF ConvPointwiseKernel
<1>3. CASE ConvExtractKernel
  BY <1>3 DEF ConvExtractKernel
<1>4. CASE ConvBindKernel
  BY <1>4 DEF ConvBindKernel
<1>5. CASE ConvDirectKernel
  BY <1>5 DEF ConvDirectKernel
<1> QED
  BY <1>1, <1>2, <1>3, <1>4, <1>5 DEF ConvKernel

LEMMA DenseExecutes == DenseKernel => Executed /\ Head(program).kernel \notin GemmKernels
<1> USE DEF Executed, Launched, Execute, GemmKernels, StoreY, SolveRows
<1>1. CASE GemvNaiveKernel \/ GemvCublasKernel \/ GemvScalKernel
  BY <1>1 DEF GemvNaiveKernel, GemvCublasKernel, GemvScalKernel
<1>2. CASE GemvWarpKernel
  BY <1>2 DEF GemvWarpKernel
<1>3. CASE GemvVectorizedKernel
  BY <1>3 DEF GemvVectorizedKernel
<1>4. CASE TrsmNaiveKernel \/ TrsmCublasKernel \/ TrsmScaleKernel
  BY <1>4 DEF TrsmNaiveKernel, TrsmCublasKernel, TrsmScaleKernel
<1>5. CASE TrsmSolveKernel
  BY <1>5 DEF TrsmSolveKernel
<1>6. CASE TrsmUpdateKernel
  BY <1>6 DEF TrsmUpdateKernel
<1> QED
  BY <1>1, <1>2, <1>3, <1>4, <1>5, <1>6 DEF DenseKernel

\* What a kernel of a product writes leaves the extent of the driver's own scratch.
Keeps(written) == "own" \in DOMAIN written => DOMAIN written["own"] = DOMAIN dev["own"]
OwnKept ==
  "own" \in DOMAIN dev => "own" \in DOMAIN dev' /\ DOMAIN dev'["own"] = DOMAIN dev["own"]

\* A kernel that writes what keeps the scratch.
LEMMA ExecuteKeeps ==
  ASSUME NEW written, Execute(written), Keeps(written), program # <<>>
  PROVE  Executed /\ OwnKept
<1>1. dev' = [b \in DOMAIN dev \cup DOMAIN written |-> IF b \in DOMAIN written THEN written[b] ELSE dev[b]]
  BY DEF Execute, Overwritten
<1>2. OwnKept
  BY <1>1 DEF OwnKept, Keeps
<1> QED
  BY <1>2 DEF Executed, Execute

\* Nearly all write C alone, or nothing.
LEMMA WritesC ==
  ASSUME program # <<>>, Execute(<<>>) \/ \E c : Execute([c |-> c])
  PROVE  Executed /\ OwnKept
<1>1. Keeps(<<>>) /\ \A c : Keeps([c |-> c])
  BY DEF Keeps
<1>2. CASE Execute(<<>>)
  BY <1>1, <1>2, ExecuteKeeps
<1>3. ASSUME NEW c, Execute([c |-> c]) PROVE Executed /\ OwnKept
  BY <1>1, <1>3, ExecuteKeeps
<1> QED
  BY <1>2, <1>3

\* Every kernel of a product does.
LEMMA GemmExecutes == GemmKernel => Executed /\ OwnKept
<1> DEFINE Writes == program # <<>> /\ (Execute(<<>>) \/ \E c : Execute([c |-> c]))
<1> USE DEF Launched, PerElement, Ampere, Blocks, Covered
<1>1. CASE NaiveKernel \/ HalfNaiveKernel \/ TiledKernel
  <2>1. Writes
    BY <1>1 DEF NaiveKernel, HalfNaiveKernel, TiledKernel
  <2> QED
    BY <2>1, WritesC
<1>2. CASE RegisterKernel \/ CpAsyncKernel
  <2>1. Writes
    BY <1>2 DEF RegisterKernel, CpAsyncKernel
  <2> QED
    BY <2>1, WritesC
<1>3. CASE WmmaKernel \/ MmaPtxKernel \/ MmaLdmKernel
  <2>1. Writes
    BY <1>3 DEF WmmaKernel, MmaPtxKernel, MmaLdmKernel
  <2> QED
    BY <2>1, WritesC
<1>4. CASE MmaOptKernel
  <2>1. Writes
    BY <1>4 DEF MmaOptKernel
  <2> QED
    BY <2>1, WritesC
<1>5. CASE BiasReluKernel
  <2>1. Writes
    BY <1>5 DEF BiasReluKernel
  <2> QED
    BY <2>1, WritesC
<1>6. CASE TileKernel
  <2>1. program # <<>> /\ (Execute(<<>>) \/ Execute(TileWritten(Head(program))))
    BY <1>6 DEF TileKernel
  <2>2. Keeps(TileWritten(Head(program)))
    BY DEF Keeps, TileWritten
  <2> QED
    BY <2>1, <2>2, WritesC, ExecuteKeeps
<1>7. CASE SplitKFixupKernel
  <2>1. Writes
    BY <1>7 DEF SplitKFixupKernel
  <2> QED
    BY <2>1, WritesC
<1>8. CASE StreamKKernel
  <2>1. Writes
    BY <1>8 DEF StreamKKernel
  <2> QED
    BY <2>1, WritesC
<1>9. CASE CutlassKernel \/ CutlassScaleKernel
  <2>1. Writes
    BY <1>9 DEF CutlassKernel, CutlassScaleKernel
  <2> QED
    BY <2>1, WritesC
<1>10. CASE CublasKernel
  <2>1. Writes
    BY <1>10 DEF CublasKernel
  <2> QED
    BY <2>1, WritesC
<1>11. CASE ScalKernel
  <2>1. Writes
    BY <1>11 DEF ScalKernel
  <2> QED
    BY <2>1, WritesC
<1> QED
  BY <1>1, <1>2, <1>3, <1>4, <1>5, <1>6, <1>7, <1>8, <1>9, <1>10, <1>11 DEF GemmKernel

-------------------------------------------------------------------------------
(* A call of gemm: the plan it aims at, the one it lands on and what comes of*)
(* it, all of which depend on the input of the Context alone.               *)

\* What a call of gemm aims at, where it lands, and what comes of it.
Aim(d) == IF d.algo = "auto" THEN PickAuto(d) ELSE PlanNamed(d)
Landed(d) == Landing(d, Aim(d))
Outcome(d) == Run(d, Landed(d))
Launches(d) == {Outcome(d).launches[j] : j \in DOMAIN Outcome(d).launches}

\* It depends on the plan's input alone.
LEMMA Unmoved ==
  ASSUME input' = input
  PROVE  \A d : /\ Landed(d)' = Landed(d) /\ Outcome(d)' = Outcome(d) /\ Launches(d)' = Launches(d)
                /\ GemmPlan(d)' = GemmPlan(d) /\ GemmWorkspaceSize(d)' = GemmWorkspaceSize(d)
                /\ Measured(d)' = Measured(d)
<1>1. SweptRows' = SweptRows
  BY DEF SweptRows
<1>2. \A p, t : Gflops(p, t)' = Gflops(p, t)
  BY DEF Gflops
<1>3. \A d : NearestSwept(d)' = NearestSwept(d)
  BY <1>1 DEF NearestSwept
<1>4. \A i : Slots(i)' = Slots(i)
  BY DEF Slots
<1>5. \A d, i, j : Fuller(d, i, j)' = Fuller(d, i, j)
  BY <1>4 DEF Fuller
<1>6. \A p, d : TileGiven(p, d)' = TileGiven(p, d)
  <2> SUFFICES ASSUME NEW p, NEW d PROVE TileGiven(p, d)' = TileGiven(p, d)
    OBVIOUS
  <2> DEFINE hosted == {i \in Family : input.bps[i] > 0}
             deep == {i \in Reference \cap hosted : TilesOf(d, i) >= 2 * Slots(i)}
             fast == {i \in hosted : \A j \in Family : 100 * Gflops(p, i) >= 95 * Gflops(p, j)}
             candidates == IF p = 0 THEN hosted ELSE fast
             first(i, j) == \/ Fuller(d, i, j) > 0
                            \/ Fuller(d, i, j) = 0 /\ Area(i) > Area(j)
                            \/ Fuller(d, i, j) = 0 /\ Area(i) = Area(j) /\ i <= j
             best(i) == \A j \in candidates : first(i, j)
             any == CHOOSE i \in deep : TRUE
             top == CHOOSE i \in candidates : best(i)
  <2>1. TileGiven(p, d) = IF input.sms <= 0 THEN NoTile
                          ELSE IF p = 0 /\ deep # {} THEN any
                          ELSE IF candidates = {} THEN NoTile ELSE top
    BY DEF TileGiven
  <2>2. TileGiven(p, d)' = IF input.sms' <= 0 THEN NoTile
                           ELSE IF p = 0 /\ deep' # {} THEN any'
                           ELSE IF candidates' = {} THEN NoTile ELSE top'
    BY DEF TileGiven
  <2>3. hosted' = hosted
    OBVIOUS
  <2>4. deep' = deep
    BY <1>4
  <2>5. fast' = fast
    BY <1>2
  <2>6. candidates' = candidates
    BY <2>3, <2>5
  <2>7. \A i : best(i)' <=> best(i)
    BY <1>5, <2>6
  <2> HIDE DEF hosted, deep, candidates, best
  <2>8. top' = top
    BY <2>6, <2>7, Zenon
  <2>9. any' = any
    BY <2>4, Zenon
  <2> HIDE DEF any, top
  <2> QED
    BY <2>1, <2>2, <2>4, <2>6, <2>8, <2>9
<1>7. \A d : ChooseTile(d)' = ChooseTile(d)
  BY <1>3, <1>6 DEF ChooseTile
<1>8. \A d, i : SplitCountFor(d, i)' = SplitCountFor(d, i)
  BY <1>4 DEF SplitCountFor
<1>9. \A d, i : PlanTileFamily(d, i)' = PlanTileFamily(d, i) /\ NamedOn(d, i)' = NamedOn(d, i)
  BY <1>4, <1>8 DEF PlanTileFamily, NamedOn
<1>10. \A d : PickAuto(d)' = PickAuto(d) /\ PlanNamed(d)' = PlanNamed(d)
  BY <1>7, <1>9 DEF PickAuto, PlanNamed
<1>11. \A d : GemmPlan(d)' = GemmPlan(d)
  BY <1>10 DEF GemmPlan, Hosted
<1>12. \A d, i : StreamKWorkspace(d, i)' = StreamKWorkspace(d, i)
  BY DEF StreamKWorkspace, StreamKBlocks
<1>13. \A d : GemmWorkspaceSize(d)' = GemmWorkspaceSize(d)
  BY <1>10, <1>11, <1>12 DEF GemmWorkspaceSize, WorkspaceOf
<1>14. \A d : Measured(d)' = Measured(d)
  BY DEF Measured
<1>15. \A d : Aim(d)' = Aim(d)
  BY <1>10 DEF Aim
<1>16. \A d : Landed(d)' = Landed(d)
  BY <1>15 DEF Landed, Landing
<1>17. \A outcome : NeedsAmpere(outcome)' = NeedsAmpere(outcome)
  BY DEF NeedsAmpere
<1>18. \A d : /\ GemmCpAsync(d)' = GemmCpAsync(d) /\ GemmWmma(d)' = GemmWmma(d)
              /\ GemmCutlass(d)' = GemmCutlass(d)
  BY DEF GemmCpAsync, GemmWmma, GemmCutlass, NeedsAmpere
<1>19. \A d : /\ GemmMmaPtx(d)' = GemmMmaPtx(d) /\ GemmMmaLdm(d)' = GemmMmaLdm(d)
              /\ GemmMmaOpt(d)' = GemmMmaOpt(d)
  BY <1>18 DEF GemmMmaPtx, GemmMmaLdm, GemmMmaOpt, OptLaunch, NeedsAmpere
<1>20. \A d, i : GemmTileFamily(d, i)' = GemmTileFamily(d, i)
  BY DEF GemmTileFamily, NeedsAmpere, Prepared
<1>21. \A d, i, s, w : GemmSplitK(d, s, i, w)' = GemmSplitK(d, s, i, w)
  BY DEF GemmSplitK, NeedsAmpere, WithScratch, Prepared
<1>22. \A d, i, w : GemmStreamK(d, i, w)' = GemmStreamK(d, i, w)
  BY <1>12 DEF GemmStreamK, NeedsAmpere, WithScratch, Prepared
<1>23. \A p, d : RunHandKernel(p, d)' = RunHandKernel(p, d)
  BY <1>12, <1>18, <1>19, <1>20, <1>21, <1>22 DEF RunHandKernel
<1>24. \A d, l : Run(d, l)' = Run(d, l)
  BY <1>23 DEF Run
<1>25. \A d : Outcome(d)' = Outcome(d)
  BY <1>16, <1>24 DEF Outcome
<1>26. \A d : Launches(d)' = Launches(d)
  BY <1>25 DEF Launches
<1> QED
  BY <1>11, <1>13, <1>14, <1>16, <1>25, <1>26

-------------------------------------------------------------------------------
(* What becomes of a plan that a rung takes.                                *)

Answers == {"success", "invalid_value", "not_supported", "arch_mismatch"}

\* The plan a rung runs by is one it takes, on a device that has it, and the
\* product is not empty.
Served(p, d) ==
  /\ p.algo \in HandAlgos /\ Takes(p.algo, d) /\ ~(input.cc < RequiredCc(p.algo))
  /\ d.m > 0 /\ d.n > 0 /\ d.k > 0
  /\ IsDescription(d) /\ IsDevice(input)

\* The floats of scratch of a driver, and which it gets.
Need(p, d) == IF p.algo = "split_k" THEN SplitKWorkspace(d, p.splits, p.index) ELSE StreamKWorkspace(d, p.index)
Lent(p, d) == IF input.workspace >= Need(p, d) THEN input.workspace ELSE 0
Planes(p, d) == IF Lent(p, d) = 0 THEN "own" ELSE "workspace"
Own(p, d) == IF Lent(p, d) = 0 THEN Need(p, d) ELSE 0

\* What becomes of such a plan.
SplitLaunches(p, d) ==
  LET used == SplitKSlices(d.k, p.splits, p.index)
      extent == SliceExtent(d.k, p.splits, Tile(p.index).k)
  IN  <<TileLaunch(d, p.index, extent, used, Planes(p, d)),
        [kernel |-> "splitk_fixup", splits |-> used, planes |-> Planes(p, d)]>>
StreamLaunches(p, d) == <<[kernel |-> "streamk", need |-> Need(p, d), planes |-> Planes(p, d)]>>

Refusing(o) == \E a \in Answers \ {"success"} : o = Refuse(a)
Single(o, p) == ~InTileFamily(p.algo) /\ \E k \in OwnKernels(p.algo) : o = Launch1(k)
Plain(o, p, d) == InTileFamily(p.algo) /\ p.index \in Family /\ o = PlainTiles(d, p.index)
Split(o, p, d) ==
  /\ p.algo = "split_k" /\ p.index \in Family /\ ~(SplitKSlices(d.k, p.splits, p.index) <= 1)
  /\ o = [answer |-> "success", launches |-> SplitLaunches(p, d), own |-> Own(p, d)]
Stream(o, p, d) ==
  /\ p.algo = "stream_k" /\ p.index \in Family
  /\ o = [answer |-> "success", launches |-> StreamLaunches(p, d), own |-> Own(p, d)]

Becomes(o, p, d) ==
  Refusing(o) \/ Single(o, p) \/ Plain(o, p, d) \/ Split(o, p, d) \/ Stream(o, p, d)

\* A rung that is no driver of the tile family launches its own kernel or refuses: a plan
\* it takes leaves no way to another rung.
LEMMA RungBecomes ==
  ASSUME NEW d, NEW p, Served(p, d), ~InTileFamily(p.algo)
  PROVE  Becomes(RunHandKernel(p, d), p, d) 
<1> DEFINE o == RunHandKernel(p, d)
<1> SUFFICES Refusing(o) \/ Single(o, p)
  BY DEF Becomes
<1> USE DEF Served, NeedsAmpere
<1>0. ~Empty(d) /\ ~(d.k <= 0) /\ d.k > 0
  BY DEF Empty, IsDescription
<1>1. \A a \in Answers \ {"success"} : Refusing(Refuse(a))
  BY DEF Refusing
<1>2. CASE p.algo = "naive"
  <2>1. o = Launch1("naive")
    BY <1>0, <1>2 DEF RunHandKernel, GemmNaive
  <2> QED
    BY <1>2, <2>1 DEF Single, OwnKernels
<1>3. CASE p.algo = "tiled"
  <2>1. o = Launch1("tiled")
    BY <1>0, <1>3 DEF RunHandKernel, GemmTiled
  <2> QED
    BY <1>3, <2>1 DEF Single, OwnKernels
<1>4. CASE p.algo = "register"
  <2>1. RegAligned(d)
    BY <1>0, <1>4 DEF Takes, RegAligned
  <2>2. o = Launch1("register")
    BY <1>0, <1>4, <2>1 DEF RunHandKernel, GemmRegister
  <2> QED
    BY <1>4, <2>2 DEF Single, OwnKernels
<1>5. CASE p.algo = "cp_async"
  <2>1. RegAligned(d)
    BY <1>0, <1>5 DEF Takes, RegAligned
  <2>2. o = Launch1("cp_async") \/ o = Refuse("arch_mismatch")
    BY <1>0, <1>5, <2>1 DEF RunHandKernel, GemmCpAsync
  <2> QED
    BY <1>1, <1>5, <2>2 DEF Single, OwnKernels, Answers
<1>6. CASE p.algo \in {"wmma_fp16", "wmma_bf16"}
  <2>1. WmmaAligned(d)
    BY <1>0, <1>6 DEF Takes, WmmaAligned
  <2>2. o = Launch1("wmma") \/ o = Refuse("arch_mismatch")
    BY <1>0, <1>6, <2>1 DEF RunHandKernel, GemmWmma
  <2> QED
    BY <1>1, <1>6, <2>2 DEF Single, OwnKernels, Answers
<1>7. CASE p.algo = "mma_ptx"
  <2>1. WmmaAligned(d)
    BY <1>0, <1>7 DEF Takes, WmmaAligned
  <2>2. o = Launch1("mma_ptx") \/ o = Refuse("arch_mismatch")
    BY <1>0, <1>7, <2>1 DEF RunHandKernel, GemmMmaPtx
  <2> QED
    BY <1>1, <1>7, <2>2 DEF Single, OwnKernels, Answers
<1>8. CASE p.algo = "mma_ldm"
  <2>1. WmmaAligned(d)
    BY <1>0, <1>8 DEF Takes, WmmaAligned
  <2>2. o = Launch1("mma_ldm") \/ o = Refuse("arch_mismatch")
    BY <1>0, <1>8, <2>1 DEF RunHandKernel, GemmMmaLdm
  <2> QED
    BY <1>1, <1>8, <2>2 DEF Single, OwnKernels, Answers
<1>9. CASE p.algo = "mma_opt"
  <2>1. OptAligned(d)
    BY <1>0, <1>9 DEF Takes, OptAligned
  <2>2. o = OptLaunch(d, "mma_opt")
    BY <1>0, <1>9, <2>1 DEF RunHandKernel, GemmMmaOpt
  <2>3. \/ o = Launch1("mma_opt") \/ o = Refuse("arch_mismatch")
        \/ o = Refuse("invalid_value") \/ o = Refuse("not_supported")
    BY <2>2 DEF OptLaunch
  <2> QED
    BY <1>1, <1>9, <2>3 DEF Single, OwnKernels, Answers
<1>10. CASE p.algo = "cutlass"
  <2>1. CutlassSupports(d)
    BY <1>10 DEF Takes
  <2>2. o = Launch1("cutlass") \/ o = Refuse("arch_mismatch")
    BY <1>0, <1>10, <2>1 DEF RunHandKernel, GemmCutlass, IsDescription
  <2> QED
    BY <1>1, <1>10, <2>2 DEF Single, OwnKernels, Answers
<1> QED
  BY <1>2, <1>3, <1>4, <1>5, <1>6, <1>7, <1>8, <1>9, <1>10 DEF HandAlgos, InTileFamily

\* prepare_once looks at nothing but whether the device holds the tile.
LEMMA PreparedIs ==
  ASSUME NEW i, NEW o
  PROVE  /\ input.bps[i] = 0 => Prepared(i, o) = Refuse("not_supported")
         /\ input.bps[i] # 0 => Prepared(i, o) = o
BY DEF Prepared

\* A driver of the tile family refuses only a tile that is not in it, or that the
\* device does not hold.
LEMMA TilesBecome ==
  ASSUME NEW d, NEW p, Served(p, d), InTileFamily(p.algo), p.index \in Family => Need(p, d) \in Int
  PROVE  LET o == RunHandKernel(p, d)
         IN  \/ (p.index \notin Family \/ input.bps[p.index] = 0) /\ Refusing(o)
             \/ Plain(o, p, d) \/ Split(o, p, d) \/ Stream(o, p, d)
<1> DEFINE o == RunHandKernel(p, d)
<1> SUFFICES \/ (p.index \notin Family \/ input.bps[p.index] = 0) /\ Refusing(o)
             \/ Plain(o, p, d) \/ Split(o, p, d) \/ Stream(o, p, d)
  OBVIOUS
<1>0. ~Empty(d) /\ ~(input.cc < 80) /\ input.workspace \in Nat
  BY DEF Empty, IsDescription, IsDevice, Served, RequiredCc
<1>1. \A a \in Answers \ {"success"} : Refusing(Refuse(a))
  BY DEF Refusing
<1>2. NoTile \notin Family
  BY DEF NoTile, Family
<1> DEFINE Held == input.bps[p.index] # 0
<1>6. \A w : Held /\ o = Prepared(p.index, w) => o = w
  BY PreparedIs
<1>7. \A w : ~Held /\ o = Prepared(p.index, w) => Refusing(o)
  BY <1>1, PreparedIs DEF Answers
<1> HIDE DEF o
<1> USE DEF NeedsAmpere
<1>3. CASE p.algo = "tile_family"
  <2>1. o = GemmTileFamily(d, p.index)
    BY <1>3 DEF o, RunHandKernel
  <2>2. CASE p.index \notin Family
    BY <1>1, <2>1, <2>2 DEF GemmTileFamily, Answers
  <2>3. CASE p.index \in Family
    <3>1. o = Prepared(p.index, PlainTiles(d, p.index))
      BY <1>0, <2>1, <2>3 DEF GemmTileFamily
    <3>2. Plain(o, p, d) \/ (~Held /\ Refusing(o))
      BY <1>3, <1>6, <1>7, <2>3, <3>1 DEF Plain, InTileFamily
    <3> QED
      BY <3>2
  <2> QED
    BY <2>2, <2>3
<1>4. CASE p.algo = "split_k"
  <2>1. CASE p.index = NoTile
    <3>1. o = Refuse("invalid_value")
      BY <1>4, <2>1 DEF o, RunHandKernel
    <3> QED
      BY <1>1, <1>2, <2>1, <3>1 DEF Answers
  <2>2. CASE p.index # NoTile
    <3>1. o = GemmSplitK(d, p.splits, p.index, Lent(p, d))
      BY <1>4, <2>2 DEF o, RunHandKernel, Lent, Need
    <3>2. CASE p.index \notin Family
      BY <1>1, <3>1, <3>2 DEF GemmSplitK, WithScratch, Answers
    <3>3. CASE p.index \in Family
      <4> DEFINE used == SplitKSlices(d.k, p.splits, p.index)
                 need == SplitKWorkspace(d, p.splits, p.index)
      <4>1. CASE used <= 1
        <5>1. o = Prepared(p.index, PlainTiles(d, p.index))
          BY <1>0, <3>1, <3>3, <4>1 DEF GemmSplitK, SplitKSlices, WithScratch
        <5>2. Plain(o, p, d) \/ (~Held /\ Refusing(o))
          BY <1>4, <1>6, <1>7, <3>3, <5>1 DEF Plain, InTileFamily
        <5> QED
          BY <5>2
      <4>2. CASE ~(used <= 1)
        <5>1. Need(p, d) = need
          BY <1>4 DEF Need
        <5>2. ~(Lent(p, d) # 0 /\ Lent(p, d) < need)
          <6>1. CASE input.workspace >= need
            BY <3>3, <5>1, <6>1, <1>0 DEF Lent
          <6>2. CASE ~(input.workspace >= need)
            BY <3>3, <5>1, <6>2 DEF Lent
          <6> QED
            BY <6>1, <6>2
        <5>3. o = Prepared(p.index, [answer |-> "success", launches |-> SplitLaunches(p, d), own |-> Own(p, d)])
          <6>1. CASE Lent(p, d) = 0
            BY <1>0, <3>1, <3>3, <4>2, <5>1, <6>1
               DEF GemmSplitK, SplitKSlices, WithScratch, SplitLaunches, Own, Planes
          <6>2. CASE Lent(p, d) # 0
            BY <1>0, <3>1, <3>3, <4>2, <5>1, <5>2, <6>2
               DEF GemmSplitK, SplitKSlices, WithScratch, SplitLaunches, Own, Planes, Enqueue
          <6> QED
            BY <6>1, <6>2
        <5>4. Split(o, p, d) \/ (~Held /\ Refusing(o))
          BY <1>6, <1>7, <1>4, <3>3, <4>2, <5>3 DEF Split
        <5> QED
          BY <5>4
      <4> QED
        BY <4>1, <4>2
    <3> QED
      BY <3>2, <3>3
  <2> QED
    BY <2>1, <2>2
<1>5. CASE p.algo = "stream_k"
  <2>1. CASE p.index = NoTile
    <3>1. o = Refuse("invalid_value")
      BY <1>5, <2>1 DEF o, RunHandKernel
    <3> QED
      BY <1>1, <1>2, <2>1, <3>1 DEF Answers
  <2>2. CASE p.index # NoTile
    <3>1. o = GemmStreamK(d, p.index, Lent(p, d))
      BY <1>5, <2>2 DEF o, RunHandKernel, Lent, Need
    <3>2. CASE p.index \notin Family
      BY <1>1, <3>1, <3>2 DEF GemmStreamK, WithScratch, Answers
    <3>3. CASE p.index \in Family
      <4> DEFINE need == StreamKWorkspace(d, p.index)
      <4>0. Need(p, d) = need
        BY <1>5 DEF Need
      <4>1. CASE need = 0
        <5>1. o = Prepared(p.index, PlainTiles(d, p.index))
          BY <1>0, <3>1, <3>3, <4>1 DEF GemmStreamK, WithScratch
        <5>2. Plain(o, p, d) \/ (~Held /\ Refusing(o))
          BY <1>5, <1>6, <1>7, <3>3, <5>1 DEF Plain, InTileFamily
        <5> QED
          BY <5>2
      <4>2. CASE need # 0
        <5>2. ~(Lent(p, d) # 0 /\ Lent(p, d) < need)
          <6>1. CASE input.workspace >= need
            BY <3>3, <4>0, <6>1, <1>0 DEF Lent
          <6>2. CASE ~(input.workspace >= need)
            BY <3>3, <4>0, <6>2 DEF Lent
          <6> QED
            BY <6>1, <6>2
        <5>3. o = Prepared(p.index, [answer |-> "success", launches |-> StreamLaunches(p, d), own |-> Own(p, d)])
          <6>1. CASE Lent(p, d) = 0
            BY <1>0, <3>1, <3>3, <4>2, <4>0, <6>1
               DEF GemmStreamK, WithScratch, StreamLaunches, Own, Planes
          <6>2. CASE Lent(p, d) # 0
            BY <1>0, <3>1, <3>3, <4>2, <4>0, <5>2, <6>2
               DEF GemmStreamK, WithScratch, StreamLaunches, Own, Planes, Enqueue
          <6> QED
            BY <6>1, <6>2
        <5>4. Stream(o, p, d) \/ (~Held /\ Refusing(o))
          BY <1>6, <1>7, <1>5, <3>3, <5>3 DEF Stream
        <5> QED
          BY <5>4
      <4> QED
        BY <4>1, <4>2
    <3> QED
      BY <3>2, <3>3
  <2> QED
    BY <2>1, <2>2
<1> QED
  BY <1>3, <1>4, <1>5 DEF InTileFamily

-------------------------------------------------------------------------------
(* The slices of K.                                                         *)

\* CeilDiv is the quotient rounded up.
LEMMA RoundsUp ==
  ASSUME NEW a \in Nat, NEW b \in Nat \ {0}
  PROVE  CeilDiv(a, b) \in Nat /\ a <= CeilDiv(a, b) * b /\ (CeilDiv(a, b) - 1) * b < a
<1>1. /\ a + b - 1 \in Nat
      /\ b * ((a + b - 1) \div b) <= a + b - 1
      /\ a + b - 1 < b * ((a + b - 1) \div b) + b
      /\ (a + b - 1) \div b \in Nat
  BY SMT
<1> QED
  BY <1>1, SMT DEF CeilDiv

\* A multiple that stays below bounds the factor.
LEMMA Cancel ==
  ASSUME NEW x \in Int, NEW y \in Int, NEW c \in Nat \ {0}, (x - 1) * c < y * c
  PROVE  x <= y
<1>1. ASSUME x > y PROVE FALSE
  <2>1. (x - 1) - y >= 0 /\ (x - 1) - y \in Nat
    BY <1>1
  <2>2. ((x - 1) - y) * c >= 0
    BY <2>1
  <2>3. ((x - 1) - y) * c = (x - 1) * c - y * c
    OBVIOUS
  <2>4. (x - 1) * c \in Int /\ y * c \in Int
    OBVIOUS
  <2> QED
    BY <2>2, <2>3, <2>4
<1> QED
  BY <1>1

\* Multiplying keeps the order.
LEMMA Grows ==
  ASSUME NEW x \in Int, NEW y \in Int, x <= y, NEW c \in Nat
  PROVE  x * c <= y * c
<1>1. y - x \in Nat /\ (y - x) * c >= 0
  OBVIOUS
<1>2. (y - x) * c = y * c - x * c /\ x * c \in Int /\ y * c \in Int
  OBVIOUS
<1> QED
  BY <1>1, <1>2

\* The slices of a request, and what they cover.
LEMMA SliceFacts ==
  ASSUME NEW k \in Nat \ {0}, NEW n \in Int, NEW b \in Nat \ {0}
  PROVE  LET extent == SliceExtent(k, n, b)
             used == SlicesUsed(k, extent)
         IN  /\ extent \in Nat \ {0} /\ used \in Nat \ {0}
             /\ k <= used * extent /\ (used - 1) * extent < k
<1> DEFINE m == Larger(n, 1)
           share == CeilDiv(k, m)
           rounds == CeilDiv(share, b)
           extent == SliceExtent(k, n, b)
           used == SlicesUsed(k, extent)
<1>1. m \in Nat \ {0}
  BY DEF Larger
<1> HIDE DEF m
<1>2. share \in Nat /\ k <= share * m
  BY <1>1, RoundsUp
<1>3. share # 0
  BY <1>1, <1>2
<1> HIDE DEF share
<1>4. rounds \in Nat /\ share <= rounds * b
  BY <1>2, RoundsUp
<1>5. extent = rounds * b
  BY DEF SliceExtent, m, share
<1> HIDE DEF rounds, extent
<1>6. extent \in Nat \ {0}
  BY <1>2, <1>3, <1>4, <1>5
<1>7. used = CeilDiv(k, extent)
  BY DEF SlicesUsed
<1>8. used \in Nat /\ k <= used * extent /\ (used - 1) * extent < k
  BY <1>6, <1>7, RoundsUp
<1>9. used # 0
  BY <1>6, <1>8
<1> QED
  BY <1>6, <1>8, <1>9 DEF extent

\* Asking for the slices used gives the same slices.
LEMMA SlicesAgain ==
  ASSUME NEW k \in Nat \ {0}, NEW n \in Int, NEW b \in Nat \ {0}
  PROVE  LET used == SlicesUsed(k, SliceExtent(k, n, b))
         IN  SlicesUsed(k, SliceExtent(k, used, b)) = used
<1> DEFINE extent == SliceExtent(k, n, b)
           used == SlicesUsed(k, extent)
           extentA == SliceExtent(k, used, b)
           usedA == SlicesUsed(k, extentA)
           share == CeilDiv(k, used)
           rounds == CeilDiv(share, b)
           roundsN == CeilDiv(CeilDiv(k, Larger(n, 1)), b)
<1>1. /\ extent \in Nat \ {0} /\ used \in Nat \ {0}
      /\ k <= used * extent /\ (used - 1) * extent < k
  BY SliceFacts
<1>2. extent = roundsN * b /\ roundsN \in Nat
  <2>1. Larger(n, 1) \in Nat \ {0}
    BY DEF Larger
  <2>2. CeilDiv(k, Larger(n, 1)) \in Nat
    BY <2>1, RoundsUp
  <2>3. roundsN \in Nat
    BY <2>2, RoundsUp
  <2> QED
    BY <2>3 DEF SliceExtent
<1> HIDE DEF extent, used
<1>3. /\ extentA \in Nat \ {0} /\ usedA \in Nat \ {0}
      /\ k <= usedA * extentA /\ (usedA - 1) * extentA < k
  BY <1>1, SliceFacts
<1>4. extentA = rounds * b
  BY <1>1 DEF SliceExtent, Larger
<1>5. share \in Nat /\ k <= share * used /\ (share - 1) * used < k
  BY <1>1, RoundsUp
<1> HIDE DEF share
<1>6. rounds \in Nat /\ share <= rounds * b /\ (rounds - 1) * b < share
  BY <1>5, RoundsUp
<1> HIDE DEF rounds, roundsN, extentA, usedA
<1>7. share <= extent
  <2>1. (share - 1) * used < extent * used
    BY <1>1, <1>5
  <2> QED
    BY <2>1, <1>1, <1>5, Cancel
<1>8. rounds <= roundsN
  <2>1. (rounds - 1) * b < roundsN * b
    BY <1>2, <1>5, <1>6, <1>7
  <2> QED
    BY <2>1, <1>2, <1>6, Cancel
<1>9. extentA <= extent
  BY <1>2, <1>4, <1>6, <1>8, Grows
<1>10. usedA <= used
  <2>1. share <= extentA
    BY <1>4, <1>6
  <2>2. share * used <= extentA * used
    BY <2>1, <1>1, <1>3, <1>5, Grows
  <2>3. extentA * used = used * extentA
    BY <1>1, <1>3
  <2>4. k <= used * extentA
    BY <2>2, <2>3, <1>1, <1>3, <1>5
  <2>5. (usedA - 1) * extentA < used * extentA
    BY <2>4, <1>1, <1>3
  <2> QED
    BY <2>5, <1>1, <1>3, Cancel
<1>11. used <= usedA
  <2>1. extentA * usedA <= extent * usedA
    BY <1>1, <1>3, <1>9, Grows
  <2>2. extentA * usedA = usedA * extentA /\ extent * usedA = usedA * extent
    BY <1>1, <1>3
  <2>3. (used - 1) * extent < usedA * extent
    BY <2>1, <2>2, <1>1, <1>3
  <2> QED
    BY <2>3, <1>1, <1>3, Cancel
<1>12. usedA = used
  BY <1>1, <1>3, <1>10, <1>11
<1> QED
  BY <1>12 DEF used, usedA, extentA, extent

-------------------------------------------------------------------------------
(* Least and best elements, which the choices of the dispatch pick.         *)

\* Every set of naturals has a least element.
LEMMA Least ==
  ASSUME NEW T \in SUBSET Nat, T # {}
  PROVE  \E x \in T : \A y \in T : x <= y
<1>1. PICK x \in T : \A y \in T : ~ (<<y, x>> \in OpToRel(<, Nat))
  BY NatLessThanWellFounded, WFMin
<1>2. \A y \in T : ~(y < x)
  BY <1>1 DEF OpToRel
<1> QED
  BY <1>2

\* Everything in a finite set that is ordered, up to ties, has a best.
LEMMA BestExists ==
  ASSUME NEW S, IsFiniteSet(S), S # {}, NEW R,
         \A i, j \in S : <<i, j>> \in R \/ <<j, i>> \in R,
         \A i, j, k \in S : <<i, j>> \in R /\ <<j, k>> \in R => <<i, k>> \in R
  PROVE  \E i \in S : \A j \in S : <<i, j>> \in R
<1> DEFINE ahead(i) == {j \in S : <<i, j>> \notin R}
           T == {Cardinality(ahead(i)) : i \in S}
<1>1. \A i \in S : ahead(i) \in SUBSET S
  OBVIOUS
<1>2. \A i, j \in S : j \in ahead(i) <=> <<i, j>> \notin R
  OBVIOUS
<1> HIDE DEF ahead
<1>3. \A i \in S : IsFiniteSet(ahead(i)) /\ Cardinality(ahead(i)) \in Nat
  BY <1>1, FS_Subset, FS_CardinalityType
<1>4. T \in SUBSET Nat /\ T # {}
  BY <1>3
<1>5. PICK i \in S : \A j \in S : Cardinality(ahead(i)) <= Cardinality(ahead(j))
  <2>1. PICK x \in T : \A y \in T : x <= y
    BY <1>4, Least
  <2> QED
    BY <2>1
<1>6. ASSUME NEW j \in S, <<i, j>> \notin R PROVE FALSE
  <2>1. <<j, i>> \in R /\ <<j, j>> \in R
    BY <1>6
  <2>2. ahead(j) \subseteq ahead(i)
    BY <1>1, <1>2, <2>1
  <2>3. j \in ahead(i) /\ j \notin ahead(j)
    BY <1>2, <1>6, <2>1
  <2>4. Cardinality(ahead(j)) <= Cardinality(ahead(i)) /\ Cardinality(ahead(i)) # Cardinality(ahead(j))
    BY <1>3, <2>2, <2>3, FS_Subset
  <2> QED
    BY <1>3, <1>5, <2>4
<1> QED
  BY <1>6

-------------------------------------------------------------------------------
(* The tile that is chosen.                                                 *)

\* The tiles of the family are not empty, and there are finitely many.
LEMMA TileType ==
  /\ \A i \in Family : i \in Nat /\ Tile(i).m \in Nat \ {0} /\ Tile(i).n \in Nat \ {0} /\ Tile(i).k \in Nat \ {0}
  /\ IsFiniteSet(Family) /\ NoTile \notin Family
<1> DEFINE TileShape == [m : Nat \ {0}, n : Nat \ {0}, k : Nat \ {0}]
<1>0. Roster \in Seq(TileShape)
  BY RosterAssumption
<1> HIDE DEF TileShape
<1>1. Len(Roster) \in Nat /\ \A i \in Family : i \in Nat /\ i + 1 \in 1 .. Len(Roster)
  BY <1>0 DEF Family
<1>2. \A j \in 1 .. Len(Roster) : Roster[j] \in TileShape
  BY <1>0
<1>3. \A i \in Family : Tile(i) \in TileShape
  BY <1>1, <1>2 DEF Tile
<1>4. IsFiniteSet(Family)
  BY <1>1, FS_Interval DEF Family
<1>5. NoTile \notin Family
  BY DEF NoTile, Family
<1> QED
  BY <1>1, <1>3, <1>4, <1>5 DEF TileShape

\* The scores of three tiles, as used over offered, compared by cross products.
LEMMA Crossed ==
  ASSUME NEW a \in Nat, NEW b \in Nat, NEW c \in Nat,
         NEW x \in Nat \ {0}, NEW y \in Nat \ {0}, NEW z \in Nat \ {0},
         a * y - b * x >= 0, b * z - c * y >= 0
  PROVE  /\ a * z - c * x >= 0
         /\ a * z - c * x = 0 => a * y - b * x = 0 /\ b * z - c * y = 0
<1> DEFINE P == a * y - b * x
           Q == b * z - c * y
           D == a * z - c * x
<1>1. P \in Int /\ Q \in Int /\ D \in Int /\ P >= 0 /\ Q >= 0
  OBVIOUS
<1>2. D * y = P * z + Q * x
  OBVIOUS
<1> HIDE DEF P, Q, D
<1>3. P * z >= 0 /\ Q * x >= 0
  BY <1>1
<1>4. D >= 0
  BY <1>1, <1>2, <1>3
<1>5. ASSUME D = 0 PROVE P = 0 /\ Q = 0
  <2>1. P * z = 0 /\ Q * x = 0
    <3>1. P * z \in Int /\ Q * x \in Int /\ P * z + Q * x = 0
      BY <1>1, <1>2, <1>5
    <3> QED
      BY <3>1, <1>3
  <2> QED
    BY <1>1, <2>1
<1> QED
  BY <1>4, <1>5 DEF P, Q, D

Runnable == {i \in Family : input.bps[i] > 0}
Deep(d) == {i \in Reference \cap Runnable : TilesOf(d, i) >= 2 * Slots(i)}
Fast(p) == {i \in Runnable : \A j \in Family : 100 * Gflops(p, i) >= 95 * Gflops(p, j)}
First(d, i, j) ==
  \/ Fuller(d, i, j) > 0
  \/ Fuller(d, i, j) = 0 /\ Area(i) > Area(j)
  \/ Fuller(d, i, j) = 0 /\ Area(i) = Area(j) /\ i <= j
BestOf(d, S) == CHOOSE i \in S : \A j \in S : First(d, i, j)

\* TileGiven in these terms.
LEMMA TileGivenIs ==
  ASSUME NEW p, NEW d
  PROVE  TileGiven(p, d) = IF input.sms <= 0 THEN NoTile
                           ELSE IF p = 0 /\ Deep(d) # {} THEN CHOOSE i \in Deep(d) : TRUE
                           ELSE IF (IF p = 0 THEN Runnable ELSE Fast(p)) = {} THEN NoTile
                           ELSE BestOf(d, IF p = 0 THEN Runnable ELSE Fast(p))
BY DEF TileGiven, Runnable, Deep, Fast, First, BestOf

NotEmpty(d) == IsDescription(d) /\ d.m > 0 /\ d.n > 0

\* The counts the choice compares are naturals, and there are slots.
LEMMA TilesOfType ==
  ASSUME NEW d, NotEmpty(d), NEW i \in Family
  PROVE  TilesOf(d, i) \in Nat
<1>1. d.m \in Nat /\ d.n \in Nat /\ Tile(i).m \in Nat \ {0} /\ Tile(i).n \in Nat \ {0}
  BY TileType DEF NotEmpty, IsDescription
<1>2. CeilDiv(d.m, Tile(i).m) \in Nat /\ CeilDiv(d.n, Tile(i).n) \in Nat
  BY <1>1, RoundsUp
<1> QED
  BY <1>2 DEF TilesOf

LEMMA SlotsType ==
  ASSUME IsDevice(input), input.sms > 0, NEW i \in Runnable
  PROVE  Slots(i) \in Nat \ {0}
<1>1. input.sms \in Nat \ {0} /\ input.bps[i] \in Nat \ {0}
  BY DEF IsDevice, Runnable
<1> QED
  BY <1>1 DEF Slots

Offered(d, t) == IF TilesOf(d, t) = 0 THEN 1 ELSE CeilDiv(TilesOf(d, t), Slots(t)) * Slots(t)

\* Fuller compares tiles used over slots offered.
LEMMA FullerIs ==
  ASSUME NEW d, NEW i, NEW j
  PROVE  Fuller(d, i, j) = TilesOf(d, i) * Offered(d, j) - TilesOf(d, j) * Offered(d, i)
BY DEF Fuller, Offered

LEMMA OfferedType ==
  ASSUME IsDevice(input), input.sms > 0, NEW d, NotEmpty(d), NEW i \in Runnable
  PROVE  Offered(d, i) \in Nat \ {0}
<1> DEFINE u == TilesOf(d, i)
           s == Slots(i)
<1>1. u \in Nat /\ s \in Nat \ {0}
  BY TilesOfType, SlotsType DEF Runnable
<1>2. CeilDiv(u, s) \in Nat /\ u <= CeilDiv(u, s) * s
  BY <1>1, RoundsUp
<1> HIDE DEF u, s
<1>3. u # 0 => CeilDiv(u, s) * s \in Nat \ {0}
  BY <1>1, <1>2
<1> QED
  BY <1>3 DEF Offered, u, s

LEMMA AreaType ==
  ASSUME NEW i \in Family
  PROVE  Area(i) \in Int /\ i \in Int
BY TileType DEF Area

\* The rule picks a tile from every set of tiles the device hosts: it is total and
\* transitive.
LEMMA BestTile ==
  ASSUME IsDevice(input), input.sms > 0, NEW d, NotEmpty(d), NEW S \in SUBSET Runnable, S # {}
  PROVE  BestOf(d, S) \in S
<1> DEFINE R == {e \in S \X S : First(d, e[1], e[2])}
<1>1. \A i \in S : /\ i \in Int /\ Area(i) \in Int
                   /\ TilesOf(d, i) \in Nat /\ Offered(d, i) \in Nat \ {0}
  BY AreaType, TilesOfType, OfferedType DEF Runnable
<1>2. \A i, j \in S : Fuller(d, i, j) \in Int /\ Fuller(d, j, i) = - Fuller(d, i, j)
  <2> SUFFICES ASSUME NEW i \in S, NEW j \in S
               PROVE  Fuller(d, i, j) \in Int /\ Fuller(d, j, i) = - Fuller(d, i, j)
    OBVIOUS
  <2>1. \A x, y, z, w \in Int : x * y - z * w \in Int /\ z * w - x * y = - (x * y - z * w)
    OBVIOUS
  <2> QED
    BY <1>1, <2>1, FullerIs
<1>3. \A i, j, k \in S : Fuller(d, i, j) >= 0 /\ Fuller(d, j, k) >= 0 =>
        /\ Fuller(d, i, k) >= 0
        /\ Fuller(d, i, k) = 0 => Fuller(d, i, j) = 0 /\ Fuller(d, j, k) = 0
  <2> SUFFICES ASSUME NEW i \in S, NEW j \in S, NEW k \in S,
                      Fuller(d, i, j) >= 0, Fuller(d, j, k) >= 0
               PROVE  /\ Fuller(d, i, k) >= 0
                      /\ Fuller(d, i, k) = 0 => Fuller(d, i, j) = 0 /\ Fuller(d, j, k) = 0
    OBVIOUS
  <2> DEFINE a == TilesOf(d, i)
             b == TilesOf(d, j)
             c == TilesOf(d, k)
             x == Offered(d, i)
             y == Offered(d, j)
             z == Offered(d, k)
  <2>1. a \in Nat /\ b \in Nat /\ c \in Nat /\ x \in Nat \ {0} /\ y \in Nat \ {0} /\ z \in Nat \ {0}
    BY <1>1
  <2>2. /\ Fuller(d, i, j) = a * y - b * x /\ Fuller(d, j, k) = b * z - c * y
        /\ Fuller(d, i, k) = a * z - c * x
    BY FullerIs
  <2> HIDE DEF a, b, c, x, y, z
  <2> QED
    BY <2>1, <2>2, Crossed
<1>4. \A i, j \in S : First(d, i, j) \/ First(d, j, i)
  BY <1>1, <1>2 DEF First
<1>5. \A i, j, k \in S : First(d, i, j) /\ First(d, j, k) => First(d, i, k)
  BY <1>1, <1>2, <1>3 DEF First
<1>6. \A i, j \in S : <<i, j>> \in R <=> First(d, i, j)
  OBVIOUS
<1>7. IsFiniteSet(S)
  BY TileType, FS_Subset DEF Runnable
<1> HIDE DEF R
<1>8. \A i, j \in S : <<i, j>> \in R \/ <<j, i>> \in R
  BY <1>4, <1>6
<1>9. \A i, j, k \in S : <<i, j>> \in R /\ <<j, k>> \in R => <<i, k>> \in R
  BY <1>5, <1>6
<1>10. \E i \in S : \A j \in S : <<i, j>> \in R
  BY <1>7, <1>8, <1>9, BestExists
<1>11. \E i \in S : \A j \in S : First(d, i, j)
  BY <1>6, <1>10
<1> QED
  BY <1>11 DEF BestOf

\* What is chosen is none, or a tile the device hosts; by a sweep, a fast one.
LEMMA TileGivenFacts ==
  ASSUME IsDevice(input), NEW d, NotEmpty(d), NEW p
  PROVE  \/ TileGiven(p, d) = NoTile
         \/ TileGiven(p, d) \in Runnable /\ input.sms > 0 /\ (p # 0 => TileGiven(p, d) \in Fast(p))
<1>1. CASE input.sms <= 0
  BY <1>1, TileGivenIs
<1>2. CASE ~(input.sms <= 0)
  <2>1. input.sms > 0
    BY <1>2 DEF IsDevice
  <2>2. Fast(p) \subseteq Runnable /\ Deep(d) \subseteq Runnable
    BY DEF Fast, Deep
  <2>3. CASE p = 0 /\ Deep(d) # {}
    <3>1. TileGiven(p, d) \in Deep(d)
      BY <1>2, <2>3, TileGivenIs
    <3> QED
      BY <2>1, <2>2, <2>3, <3>1
  <2>4. CASE p = 0 /\ Deep(d) = {}
    <3>1. TileGiven(p, d) = IF Runnable = {} THEN NoTile ELSE BestOf(d, Runnable)
      BY <1>2, <2>4, TileGivenIs
    <3> QED
      BY <2>1, <2>4, <3>1, BestTile
  <2>5. CASE p # 0
    <3>1. TileGiven(p, d) = IF Fast(p) = {} THEN NoTile ELSE BestOf(d, Fast(p))
      BY <1>2, <2>5, TileGivenIs
    <3> QED
      BY <2>1, <2>2, <2>5, <3>1, BestTile
  <2> QED
    BY <2>3, <2>4, <2>5
<1> QED
  BY <1>1, <1>2

-------------------------------------------------------------------------------
(* The plans and the scratch they ask for.                                  *)

\* The slices of a request on a tile: at least one, and asked for again they are as many.
LEMMA SlicesOf ==
  ASSUME NEW i \in Family, NEW k \in Nat \ {0}, NEW n \in Int
  PROVE  /\ SplitKSlices(k, n, i) \in Nat \ {0}
         /\ SplitKSlices(k, SplitKSlices(k, n, i), i) = SplitKSlices(k, n, i)
<1>1. Tile(i).k \in Nat \ {0}
  BY TileType
<1> DEFINE b == Tile(i).k
<1> HIDE DEF b
<1>2. b \in Nat \ {0}
  BY <1>1 DEF b
<1>3. SlicesUsed(k, SliceExtent(k, n, b)) \in Nat \ {0}
  BY <1>2, SliceFacts
<1>4. SlicesUsed(k, SliceExtent(k, SlicesUsed(k, SliceExtent(k, n, b)), b)) = SlicesUsed(k, SliceExtent(k, n, b))
  BY <1>2, SlicesAgain
<1> QED
  BY <1>3, <1>4 DEF SplitKSlices, b

\* A plan and the tile it names are of their types.
PlanTyped(p) == p.splits \in Int /\ p.index \in Family \cup {NoTile}
Positive(d) == IsDescription(d) /\ d.m > 0 /\ d.n > 0 /\ d.k > 0

\* The count of slices planned is one, or one that is used as it is.
LEMMA SplitCountType ==
  ASSUME IsDevice(input), input.sms > 0, NEW d, Positive(d), NEW i \in Runnable
  PROVE  /\ SplitCountFor(d, i) \in Int
         /\ SplitCountFor(d, i) # 1 => SplitKSlices(d.k, SplitCountFor(d, i), i) = SplitCountFor(d, i)
<1> DEFINE u == TilesOf(d, i)
           s == Slots(i)
           steps == CeilDiv(d.k, Tile(i).k)
           want == Smaller(s \div u, steps \div MinStepsPerSplit)
<1>1. i \in Family /\ d.k \in Nat \ {0}
  BY DEF Runnable, Positive, IsDescription
<1>2. u \in Nat /\ s \in Nat \ {0}
  BY TilesOfType, SlotsType DEF Runnable, Positive, NotEmpty
<1>3. steps \in Nat /\ MinStepsPerSplit \in Nat \ {0}
  <2>1. Tile(i).k \in Nat \ {0}
    BY <1>1, TileType
  <2> QED
    BY <1>1, <2>1, RoundsUp, StepsAssumption
<1>4. SplitCountFor(d, i) = IF d.k <= 0 \/ u = 0 \/ want < 2 THEN 1 ELSE SplitKSlices(d.k, want, i)
  BY DEF SplitCountFor
<1> HIDE DEF u, s, steps
<1>5. ASSUME u # 0 PROVE want \in Int
  <2>1. s \div u \in Int /\ steps \div MinStepsPerSplit \in Int
    BY <1>2, <1>3, <1>5
  <2> QED
    BY <2>1 DEF Smaller
<1> HIDE DEF want
<1>6. CASE d.k <= 0 \/ u = 0 \/ want < 2
  BY <1>4, <1>6
<1>7. CASE ~(d.k <= 0 \/ u = 0 \/ want < 2)
  <2>1. SplitCountFor(d, i) = SplitKSlices(d.k, want, i) /\ want \in Int
    BY <1>4, <1>5, <1>7
  <2>2. /\ SplitKSlices(d.k, want, i) \in Nat \ {0}
        /\ SplitKSlices(d.k, SplitKSlices(d.k, want, i), i) = SplitKSlices(d.k, want, i)
    BY <1>1, <2>1, SlicesOf
  <2> QED
    BY <2>1, <2>2
<1> QED
  BY <1>6, <1>7

\* The tile chosen is none, or one the device hosts.
LEMMA ChosenTile ==
  ASSUME IsDevice(input), NEW d, Positive(d)
  PROVE  \/ ChooseTile(d) = NoTile
         \/ ChooseTile(d) \in Runnable /\ input.sms > 0
<1>1. NotEmpty(d)
  BY DEF Positive, NotEmpty
<1> QED
  BY <1>1, TileGivenFacts DEF ChooseTile

\* What kAuto makes of the tile chosen.
LEMMA FamilyPlan ==
  ASSUME IsDevice(input), NEW d, Positive(d)
  PROVE  LET p == PlanTileFamily(d, ChooseTile(d))
         IN  /\ PlanTyped(p)
             /\ p = Vendor \/ (InTileFamily(p.algo) /\ p.index = ChooseTile(d) /\ p.index \in Runnable)
             /\ p.algo = "split_k" => SplitKSlices(d.k, p.splits, p.index) = p.splits
<1> DEFINE i == ChooseTile(d)
           p == PlanTileFamily(d, i)
<1>1. i = NoTile \/ (i \in Runnable /\ input.sms > 0)
  BY ChosenTile
<1> HIDE DEF i
<1>2. CASE i = NoTile
  <2>1. p = Vendor
    BY <1>2 DEF PlanTileFamily
  <2> QED
    BY <2>1 DEF PlanTyped, Vendor, GemmPlanOf, i
<1>3. CASE i \in Runnable /\ input.sms > 0
  <2>1. i \in Family /\ i # NoTile
    BY <1>3, TileType DEF Runnable
  <2>2. /\ SplitCountFor(d, i) \in Int
        /\ SplitCountFor(d, i) # 1 => SplitKSlices(d.k, SplitCountFor(d, i), i) = SplitCountFor(d, i)
    BY <1>3, SplitCountType
  <2>3. \/ p = [algo |-> "tile_family", index |-> i, splits |-> 1]
        \/ SplitCountFor(d, i) >= 2 /\ p = [algo |-> "split_k", index |-> i, splits |-> SplitCountFor(d, i)]
        \/ p = [algo |-> "stream_k", index |-> i, splits |-> 1]
    BY <2>1 DEF PlanTileFamily
  <2> QED
    BY <1>3, <2>1, <2>2, <2>3 DEF PlanTyped, InTileFamily, i
<1> QED
  BY <1>1, <1>2, <1>3

\* What kAuto resolves to.
LEMMA AutoPlan ==
  ASSUME IsDevice(input), NEW d, Positive(d)
  PROVE  LET p == PickAuto(d)
         IN  /\ PlanTyped(p) /\ p.algo \in HandAlgos \cup {"cublas"}
             /\ InTileFamily(p.algo) => p.index = ChooseTile(d) /\ p.index \in Runnable
             /\ p.algo = "split_k" => SplitKSlices(d.k, p.splits, p.index) = p.splits
<1> DEFINE p == PickAuto(d)
           q == PlanTileFamily(d, ChooseTile(d))
<1>1. p = q \/ p = Vendor \/ (\E a \in {"wmma_bf16", "cp_async", "naive"} : p = GemmPlanOf(a))
  BY DEF PickAuto
<1>2. CASE p = q
  BY <1>2, FamilyPlan DEF Vendor, GemmPlanOf, HandAlgos, InTileFamily
<1>3. CASE p = Vendor \/ (\E a \in {"wmma_bf16", "cp_async", "naive"} : p = GemmPlanOf(a))
  BY <1>3 DEF Vendor, GemmPlanOf, HandAlgos, InTileFamily, PlanTyped
<1> QED
  BY <1>1, <1>2, <1>3

\* What a named algorithm is run with.
LEMMA NamedPlan ==
  ASSUME IsDevice(input), NEW d, Positive(d)
  PROVE  LET p == PlanNamed(d)
         IN  /\ PlanTyped(p) /\ p.algo = d.algo
             /\ InTileFamily(p.algo) /\ p.index # NoTile => p.index = ChooseTile(d)
<1> DEFINE i == ChooseTile(d)
           p == PlanNamed(d)
           wanted == SplitCountFor(d, i)
           splits == IF d.algo # "split_k" THEN 1 ELSE IF wanted >= 2 THEN wanted ELSE SplitKSlices(d.k, 2, i)
<1>1. i = NoTile \/ (i \in Runnable /\ input.sms > 0)
  BY ChosenTile
<1>2. p = GemmPlanOf(d.algo) \/ (i # NoTile /\ p = [algo |-> d.algo, index |-> i, splits |-> splits])
  BY DEF PlanNamed, NamedOn
<1>3. CASE p = GemmPlanOf(d.algo)
  BY <1>3 DEF GemmPlanOf, PlanTyped
<1>4. CASE i # NoTile /\ p = [algo |-> d.algo, index |-> i, splits |-> splits]
  <2>1. i \in Runnable /\ input.sms > 0 /\ i \in Family /\ d.k \in Nat \ {0}
    BY <1>1, <1>4 DEF Runnable, Positive, IsDescription
  <2>2. wanted \in Int /\ SplitKSlices(d.k, 2, i) \in Nat \ {0}
    BY <2>1, SplitCountType, SlicesOf
  <2> HIDE DEF wanted, i
  <2>3. splits \in Int
    BY <2>2 DEF i
  <2> HIDE DEF splits
  <2> QED
    BY <1>4, <2>1, <2>3 DEF PlanTyped, i
<1> QED
  BY <1>2, <1>3, <1>4

\* The scratch of a driver.
LEMMA NeedType ==
  ASSUME IsDevice(input), NEW d, Positive(d), NEW p, PlanTyped(p), p.index \in Family
  PROVE  /\ Need(p, d) \in Int
         /\ (p.algo = "split_k" /\ ~(SplitKSlices(d.k, p.splits, p.index) <= 1)) =>
              Need(p, d) = SplitKSlices(d.k, p.splits, p.index) * d.m * d.n
<1> DEFINE i == p.index
           used == SplitKSlices(d.k, p.splits, i)
<1>1. d.k \in Nat \ {0} /\ d.m \in Nat \ {0} /\ d.n \in Nat \ {0} /\ ~Empty(d) /\ ~(d.k <= 0)
  BY DEF Positive, IsDescription, Empty
<1>2. used \in Nat \ {0}
  BY <1>1, SlicesOf DEF PlanTyped
<1>3. SplitKWorkspace(d, p.splits, i) = IF used <= 1 THEN 0 ELSE used * d.m * d.n
  BY <1>1 DEF SplitKWorkspace
<1>4. StreamKWorkspace(d, i) \in Int
  <2> DEFINE t == Tile(i)
             tiles == CeilDiv(d.m, t.m) * CeilDiv(d.n, t.n)
             occ == Larger(input.sms * input.bps[i], 1)
             skTiles == IF tiles % occ = 0 THEN 0 ELSE IF tiles > occ THEN (tiles % occ) + occ ELSE tiles
             depth == IF d.k > 0 THEN CeilDiv(d.k, t.k) ELSE 1
  <2>1. t.m \in Nat \ {0} /\ t.n \in Nat \ {0} /\ t.k \in Nat \ {0}
    BY TileType
  <2>2. CeilDiv(d.m, t.m) \in Nat /\ CeilDiv(d.n, t.n) \in Nat /\ CeilDiv(d.k, t.k) \in Nat
    BY <1>1, <2>1, RoundsUp
  <2>3. tiles \in Nat /\ depth \in Nat
    BY <2>2
  <2>4. occ \in Nat \ {0}
    <3>1. input.sms \in Int /\ input.bps[i] \in Nat
      BY DEF IsDevice
    <3>2. input.sms * input.bps[i] \in Int
      BY <3>1
    <3> QED
      BY <3>2 DEF Larger
  <2>5. StreamKWorkspace(d, i) = Smaller(occ, skTiles * depth) * (t.m * t.n + 1)
    BY <1>1 DEF StreamKWorkspace, StreamKBlocks
  <2> HIDE DEF t, tiles, occ, depth
  <2>6. skTiles \in Int
    BY <2>3, <2>4
  <2> HIDE DEF skTiles
  <2>7. Smaller(occ, skTiles * depth) \in Int
    <3>1. skTiles * depth \in Int
      BY <2>3, <2>6
    <3> QED
      BY <2>4, <3>1 DEF Smaller
  <2>8. t.m * t.n + 1 \in Int
    BY <2>1
  <2> QED
    BY <2>5, <2>7, <2>8
<1> HIDE DEF used
<1>5. used * d.m * d.n \in Int
  BY <1>1, <1>2
<1> QED
  BY <1>3, <1>4, <1>5 DEF Need, used

-------------------------------------------------------------------------------
(* What comes of a call, whatever its description.                          *)

\* A call that only scales C, or gives it to the vendor's library.
Plainly(o, kernels) ==
  /\ o.answer = "success" /\ o.own = 0 /\ \E len \in Nat : DOMAIN o.launches = 1 .. len
  /\ \A j \in DOMAIN o.launches : o.launches[j].kernel \in kernels
  /\ o.launches \in Seq({o.launches[j] : j \in DOMAIN o.launches})

\* A function over 1 .. len is a sequence.
LEMMA ShapeIsSeq ==
  ASSUME NEW s, NEW len \in Nat, s = [j \in 1 .. len |-> s[j]]
  PROVE  s \in Seq({s[j] : j \in DOMAIN s})
<1>1. DOMAIN s = 1 .. len
  OBVIOUS
<1>2. s \in [1 .. len -> {s[j] : j \in DOMAIN s}]
  BY <1>1
<1> QED
  BY <1>2

\* The outcomes of an empty product, of ScaleC and of RunCublas.
LEMMA NoLaunch ==
  ASSUME NEW K
  PROVE  Plainly(Enqueue(<<>>), K)
<1>1. <<>> \in Seq({<<>>[j] : j \in DOMAIN <<>>}) /\ DOMAIN <<>> = 1 .. 0
  OBVIOUS
<1> QED
  BY <1>1 DEF Plainly, Enqueue

LEMMA Scales ==
  ASSUME NEW d, IsDescription(d), d.m >= 0, d.n >= 0
  PROVE  Plainly(ScaleC(d), {"scal"})
<1> DEFINE other == IF d.layout = "row" THEN d.m ELSE d.n
           lead == IF d.layout = "row" THEN d.n ELSE d.m
           launches == [i \in 1 .. other |-> [kernel |-> "scal", first |-> (i - 1) * d.ldc, count |-> lead]]
<1>1. other \in Nat
  BY DEF IsDescription
<1>2. ScaleC(d) = Enqueue(IF d.beta = 1 THEN <<>> ELSE launches)
  BY DEF ScaleC
<1>3. Plainly(Enqueue(<<>>), {"scal"})
  BY NoLaunch
<1>4. Plainly(Enqueue(launches), {"scal"})
  <2>1. launches = [j \in 1 .. other |-> launches[j]]
    OBVIOUS
  <2>2. launches \in Seq({launches[j] : j \in DOMAIN launches})
    BY <1>1, <2>1, ShapeIsSeq
  <2> QED
    BY <1>1, <2>2 DEF Plainly, Enqueue
<1> QED
  BY <1>2, <1>3, <1>4

LEMMA One ==
  ASSUME NEW l, NEW K, l.kernel \in K
  PROVE  Plainly(Enqueue(<<l>>), K)
<1>1. <<l>> \in Seq({<<l>>[j] : j \in DOMAIN <<l>>})
  OBVIOUS
<1> QED
  BY <1>1 DEF Plainly, Enqueue

LEMMA VendorRuns ==
  ASSUME NEW d, IsDescription(d), d.m >= 0, d.n >= 0
  PROVE  Plainly(RunCublas(d), {"cublas", "scal"})
<1>1. CASE d.k = 0
  BY <1>1, Scales DEF RunCublas, Plainly
<1>2. CASE d.k # 0
  <2>1. \E l : l.kernel = "cublas" /\ RunCublas(d) = Enqueue(<<l>>)
    BY <1>2 DEF RunCublas
  <2> QED
    BY <2>1, One
<1> QED
  BY <1>1, <1>2

\* What passes validate has no negative size.
LEMMA Valid ==
  ASSUME NEW d, IsDescription(d), Validate(d) = "success"
  PROVE  d.m >= 0 /\ d.n >= 0 /\ d.k >= 0
<1>1. ~\E s \in {d.m, d.n, d.k, d.batch - 1} : s < 0
  BY DEF Validate
<1> QED
  BY <1>1 DEF IsDescription

\* What comes of a call of gemm.
LEMMA OutcomeShape ==
  ASSUME IsDevice(input), NEW d, IsDescription(d)
  PROVE  LET o == Outcome(d)
             p == Landed(d).plan
         IN  \/ Refusing(o)
             \/ Plainly(o, {"scal"})
             \/ p.algo = "cublas" /\ Plainly(o, {"cublas", "scal"})
             \/ /\ p = Aim(d) /\ Served(p, d) /\ PlanTyped(p) /\ Becomes(o, p, d)
                /\ InTileFamily(p.algo) /\ p.index \in Family => p.index = ChooseTile(d)
<1> DEFINE o == Outcome(d)
           l == Landed(d)
           p == l.plan
<1>1. Validate(d) \in {"success", "invalid_value", "not_supported"}
  BY DEF Validate
<1>2. l.answer \in Answers
  BY <1>1 DEF Landed, Landing, Answers
<1>3. CASE l.answer # "success"
  BY <1>2, <1>3 DEF Outcome, Run, Refusing
<1>4. CASE l.answer = "success"
  <2>1. Validate(d) = "success"
    BY <1>4 DEF Landed, Landing
  <2>2. d.m >= 0 /\ d.n >= 0 /\ d.k >= 0
    BY <2>1, Valid
  <2>3. CASE d.m = 0 \/ d.n = 0
    <3>1. o = Enqueue(<<>>)
      BY <1>4, <2>3 DEF Outcome, Run
    <3> QED
      BY <3>1, NoLaunch
  <2>4. CASE d.m # 0 /\ d.n # 0 /\ p.algo = "cublas"
    <3>1. o = RunCublas(d)
      BY <1>4, <2>4 DEF Outcome, Run
    <3> QED
      BY <2>2, <2>4, <3>1, VendorRuns
  <2>5. CASE d.m # 0 /\ d.n # 0 /\ p.algo # "cublas" /\ d.k = 0
    <3>1. o = ScaleC(d)
      BY <1>4, <2>5 DEF Outcome, Run
    <3> QED
      BY <2>2, <3>1, Scales
  <2>6. CASE d.m # 0 /\ d.n # 0 /\ p.algo # "cublas" /\ d.k # 0
    <3>1. o = RunHandKernel(p, d)
      BY <1>4, <2>6 DEF Outcome, Run
    <3>2. Positive(d)
      BY <2>2, <2>6 DEF Positive, IsDescription
    <3>3. p = Aim(d) /\ Takes(p.algo, d) /\ ~(input.cc < RequiredCc(p.algo))
      BY <1>4, <2>1, <2>6 DEF Landed, Landing, Vendor, GemmPlanOf
    <3>4. PlanTyped(p) /\ p.algo \in HandAlgos
      <4>1. CASE d.algo = "auto"
        BY <2>6, <3>2, <3>3, <4>1, AutoPlan DEF Aim
      <4>2. CASE d.algo # "auto"
        BY <2>6, <3>2, <3>3, <4>2, NamedPlan DEF Aim, IsDescription
      <4> QED
        BY <4>1, <4>2
    <3>5. Served(p, d)
      BY <3>2, <3>3, <3>4 DEF Served, Positive
    <3>6. InTileFamily(p.algo) /\ p.index \in Family => p.index = ChooseTile(d)
      <4>1. CASE d.algo = "auto"
        BY <3>2, <3>3, <4>1, AutoPlan DEF Aim
      <4>2. CASE d.algo # "auto"
        BY <3>2, <3>3, <4>2, NamedPlan, TileType DEF Aim
      <4> QED
        BY <4>1, <4>2
    <3>7. Becomes(o, p, d)
      <4>1. CASE InTileFamily(p.algo)
        BY <3>1, <3>2, <3>4, <3>5, <4>1, TilesBecome, NeedType DEF Becomes
      <4>2. CASE ~InTileFamily(p.algo)
        BY <3>1, <3>5, <4>2, RungBecomes
      <4> QED
        BY <4>1, <4>2
    <3> QED
      BY <3>3, <3>4, <3>5, <3>6, <3>7
  <2> QED
    BY <2>3, <2>4, <2>5, <2>6
<1> QED
  BY <1>3, <1>4

\* The launches of a call, one by one.
LEMMA OutcomeFacts ==
  ASSUME IsDevice(input), NEW d, IsDescription(d)
  PROVE  LET o == Outcome(d)
         IN  /\ o.answer \in Answers
             /\ o.launches \in Seq(Launches(d))
             /\ \A j \in DOMAIN o.launches : o.launches[j].kernel \in GemmKernels
<1> DEFINE o == Outcome(d)
           p == Landed(d).plan
<1>1. CASE Refusing(o)
  BY <1>1, ShapeIsSeq DEF Refusing, Refuse, Answers, Launches
<1>2. CASE Plainly(o, {"scal"}) \/ Plainly(o, {"cublas", "scal"})
  BY <1>2 DEF Plainly, Launches, Answers, GemmKernels
<1>3. CASE Served(p, d) /\ Becomes(o, p, d)
  <2>1. CASE Refusing(o)
    BY <1>1, <2>1
  <2>2. CASE Single(o, p)
    <3>1. PICK k \in OwnKernels(p.algo) : o = Enqueue(<<[kernel |-> k]>>)
      BY <2>2 DEF Single, Launch1
    <3>2. k \in GemmKernels
      BY <1>3, <3>1 DEF OwnKernels, Served, HandAlgos, GemmKernels
    <3>3. Plainly(o, GemmKernels)
      BY <3>1, <3>2, One
    <3> QED
      BY <3>3 DEF Plainly, Launches, Answers
  <2>3. CASE Plain(o, p, d)
    <3>1. PICK l : l.kernel = "tile" /\ o = Enqueue(<<l>>)
      BY <2>3 DEF Plain, PlainTiles, TileLaunch
    <3>2. Plainly(o, GemmKernels)
      BY <3>1, One DEF GemmKernels
    <3> QED
      BY <3>2 DEF Plainly, Launches, Answers
  <2>4. CASE Split(o, p, d)
    <3>1. PICK a, b : /\ o.launches = <<a, b>> /\ o.answer = "success"
                      /\ a.kernel = "tile" /\ b.kernel = "splitk_fixup"
      BY <2>4 DEF Split, SplitLaunches, TileLaunch
    <3>2. o.launches \in Seq(Launches(d))
      <4>1. DOMAIN o.launches = 1 .. 2 /\ o.launches[1] = a /\ o.launches[2] = b
        BY <3>1
      <4>2. a \in Launches(d) /\ b \in Launches(d)
        BY <4>1 DEF Launches
      <4> QED
        BY <3>1, <4>2
    <3> QED
      BY <3>1, <3>2 DEF Answers, GemmKernels
  <2>5. CASE Stream(o, p, d)
    <3>1. PICK a : o.launches = <<a>> /\ o.answer = "success" /\ a.kernel = "streamk"
      BY <2>5 DEF Stream, StreamLaunches
    <3>2. o.launches \in Seq(Launches(d))
      <4>1. DOMAIN o.launches = 1 .. 1 /\ o.launches[1] = a
        BY <3>1
      <4>2. a \in Launches(d)
        BY <4>1 DEF Launches
      <4> QED
        BY <3>1, <4>2
    <3> QED
      BY <3>1, <3>2 DEF Answers, GemmKernels
  <2> QED
    BY <1>3, <2>1, <2>2, <2>3, <2>4, <2>5 DEF Becomes
<1> QED
  BY <1>1, <1>2, <1>3, OutcomeShape

-------------------------------------------------------------------------------
(* The launches, one by one.                                                *)

\* The launches of each outcome.
LEMMA LaunchesOf ==
  ASSUME IsDevice(input), NEW d, IsDescription(d), NEW l \in Launches(d)
  PROVE  LET o == Outcome(d)
             p == Landed(d).plan
         IN  \/ l.kernel = "scal"
             \/ p.algo = "cublas" /\ l.kernel = "cublas"
             \/ /\ p = Aim(d) /\ Served(p, d) /\ PlanTyped(p)
                /\ \/ Single(o, p) /\ l.kernel \in OwnKernels(p.algo)
                                   /\ l.kernel \notin {"tile", "splitk_fixup"}
                   \/ Plain(o, p, d) /\ l.kernel = "tile" /\ l.index = p.index /\ p.index = ChooseTile(d)
                   \/ Stream(o, p, d) /\ l.kernel = "streamk"
                   \/ /\ Split(o, p, d) /\ l.kernel = "tile" /\ l.index = p.index /\ p.index = ChooseTile(d)
                   \/ /\ Split(o, p, d) /\ l.kernel = "splitk_fixup" /\ l.planes = Planes(p, d)
                      /\ l.splits = SplitKSlices(d.k, p.splits, p.index)
<1> DEFINE o == Outcome(d)
           p == Landed(d).plan
<1>0. PICK j \in DOMAIN o.launches : l = o.launches[j]
  BY DEF Launches
<1>1. CASE Refusing(o)
  <2>1. o.launches = <<>>
    BY <1>1 DEF Refusing, Refuse
  <2> QED
    BY <1>0, <2>1
<1>2. CASE Plainly(o, {"scal"})
  BY <1>0, <1>2 DEF Plainly
<1>3. CASE p.algo = "cublas" /\ Plainly(o, {"cublas", "scal"})
  BY <1>0, <1>3 DEF Plainly
<1>4. CASE /\ p = Aim(d) /\ Served(p, d) /\ PlanTyped(p) /\ Becomes(o, p, d)
           /\ InTileFamily(p.algo) /\ p.index \in Family => p.index = ChooseTile(d)
  <2>1. CASE Refusing(o)
    BY <1>1, <2>1
  <2>2. CASE Single(o, p)
    <3>1. PICK k \in OwnKernels(p.algo) : o = Enqueue(<<[kernel |-> k]>>)
      BY <2>2 DEF Single, Launch1
    <3>2. o.launches = <<[kernel |-> k]>>
      BY <3>1 DEF Enqueue
    <3>3. l = [kernel |-> k]
      BY <1>0, <3>2
    <3>4. l.kernel \notin {"tile", "splitk_fixup"}
      BY <1>4, <2>2, <3>1, <3>3 DEF Single, OwnKernels, Served, HandAlgos, InTileFamily
    <3> QED
      BY <1>4, <2>2, <3>3, <3>4
  <2>3. CASE Plain(o, p, d)
    <3>1. o.launches = <<TileLaunch(d, p.index, IF d.k > 0 THEN d.k ELSE 1, 1, "none")>>
      BY <2>3 DEF Plain, PlainTiles, Enqueue
    <3>2. l.kernel = "tile" /\ l.index = p.index
      BY <1>0, <3>1 DEF TileLaunch
    <3> QED
      BY <1>4, <2>3, <3>2 DEF Plain
  <2>4. CASE Split(o, p, d)
    <3> DEFINE used == SplitKSlices(d.k, p.splits, p.index)
               a == TileLaunch(d, p.index, SliceExtent(d.k, p.splits, Tile(p.index).k), used, Planes(p, d))
               b == [kernel |-> "splitk_fixup", splits |-> used, planes |-> Planes(p, d)]
    <3>1. o.launches = <<a, b>>
      BY <2>4 DEF Split, SplitLaunches
    <3>2. a.kernel = "tile" /\ a.index = p.index
      BY DEF TileLaunch
    <3>3. b.kernel = "splitk_fixup" /\ b.splits = used /\ b.planes = Planes(p, d)
      OBVIOUS
    <3> HIDE DEF a, b
    <3>4. l = a \/ l = b
      BY <1>0, <3>1
    <3> QED
      BY <1>4, <2>4, <3>2, <3>3, <3>4 DEF Split, InTileFamily
  <2>5. CASE Stream(o, p, d)
    <3>1. o.launches = <<[kernel |-> "streamk", need |-> Need(p, d), planes |-> Planes(p, d)]>>
      BY <2>5 DEF Stream, StreamLaunches
    <3>2. l.kernel = "streamk"
      BY <1>0, <3>1
    <3> QED
      BY <1>4, <2>5, <3>2
  <2> QED
    BY <1>4, <2>1, <2>2, <2>3, <2>4, <2>5 DEF Becomes
<1> QED
  BY <1>1, <1>2, <1>3, <1>4, OutcomeShape

-------------------------------------------------------------------------------
(* Rung and scratch.                                                        *)

\* A call launches the kernels of the algorithm it reports.
LEMMA Unrerouted ==
  ASSUME IsDevice(input), NEW d, IsDescription(d), NEW l \in Launches(d)
  PROVE  l.kernel \in OwnKernels(Landed(d).plan.algo) \cup {"scal"}
<1> DEFINE o == Outcome(d)
           p == Landed(d).plan
<1>1. CASE p.algo = "cublas" /\ l.kernel = "cublas"
  BY <1>1 DEF OwnKernels
<1>2. CASE Plain(o, p, d) /\ l.kernel = "tile"
  BY <1>2 DEF Plain, InTileFamily, OwnKernels
<1>3. CASE Stream(o, p, d) /\ l.kernel = "streamk"
  BY <1>3 DEF Stream, OwnKernels
<1>4. CASE Split(o, p, d) /\ l.kernel \in {"tile", "splitk_fixup"}
  BY <1>4 DEF Split, OwnKernels
<1> QED
  BY <1>1, <1>2, <1>3, <1>4, LaunchesOf

\* gemm_workspace_size asks for what the driver will need.
LEMMA SizeAskedFor ==
  ASSUME NEW d, IsDescription(d), Served(Aim(d), d), Aim(d).algo \in {"split_k", "stream_k"}, Aim(d).index \in Family
  PROVE  GemmWorkspaceSize(d) = Need(Aim(d), d)
<1> DEFINE p == Aim(d)
<1>1. GemmWorkspaceSize(d) = WorkspaceOf(d, p)
  BY DEF GemmWorkspaceSize, Aim, GemmPlan, Hosted, Served
<1>2. p.index # NoTile
  BY DEF NoTile, Family
<1>3. ~(d.m <= 0 \/ d.n <= 0 \/ d.k <= 0 \/ p.index = NoTile)
  BY <1>2 DEF Served, IsDescription
<1>4. CASE p.algo = "split_k"
  BY <1>1, <1>3, <1>4 DEF WorkspaceOf, Need
<1>5. CASE p.algo = "stream_k"
  BY <1>1, <1>3, <1>5 DEF WorkspaceOf, Need
<1> QED
  BY <1>4, <1>5

\* The scratch of a call that is served.
LEMMA Sufficient ==
  ASSUME IsDevice(input), NEW d, IsDescription(d)
  PROVE  /\ input.workspace >= GemmWorkspaceSize(d) => 0 .. Outcome(d).own - 1 = {}
         /\ \A l \in Launches(d) :
              l.kernel = "splitk_fixup" /\ l.planes = "workspace" => l.splits * d.m * d.n <= input.workspace
<1> DEFINE o == Outcome(d)
           p == Landed(d).plan
<1>1. input.workspace \in Nat
  BY DEF IsDevice
<1>2. ASSUME Served(p, d), PlanTyped(p), p.index \in Family
      PROVE  Need(p, d) \in Int
  BY <1>2, NeedType DEF Served, Positive
<1>3. ASSUME Served(p, d), PlanTyped(p), p = Aim(d), Split(o, p, d) \/ Stream(o, p, d),
             input.workspace >= GemmWorkspaceSize(d)
      PROVE  o.own <= 0 /\ o.own \in Int
  <2>1. p.algo \in {"split_k", "stream_k"} /\ p.index \in Family /\ o.own = Own(p, d)
    BY <1>3 DEF Split, Stream
  <2>2. input.workspace >= Need(p, d) /\ Need(p, d) \in Int
    BY <1>2, <1>3, <2>1, SizeAskedFor
  <2> HIDE DEF o, p
  <2>3. Own(p, d) = IF input.workspace = 0 THEN Need(p, d) ELSE 0
    BY <2>2 DEF Own, Lent
  <2> QED
    BY <1>1, <2>1, <2>2, <2>3
<1>4. ASSUME input.workspace >= GemmWorkspaceSize(d)
      PROVE  o.own <= 0 /\ o.own \in Int
  <2>1. CASE Refusing(o)
    BY <2>1 DEF Refusing, Refuse
  <2>2. CASE Plainly(o, {"scal"}) \/ Plainly(o, {"cublas", "scal"})
    BY <2>2 DEF Plainly
  <2>3. CASE p = Aim(d) /\ Served(p, d) /\ PlanTyped(p) /\ Becomes(o, p, d)
    <3>1. CASE Single(o, p) \/ Plain(o, p, d)
      BY <3>1 DEF Single, Plain, Launch1, PlainTiles, Enqueue
    <3>2. CASE Split(o, p, d) \/ Stream(o, p, d)
      BY <1>3, <1>4, <2>3, <3>2
    <3> QED
      BY <2>1, <2>3, <3>1, <3>2 DEF Becomes
  <2> QED
    BY <2>1, <2>2, <2>3, OutcomeShape
<1>5. ASSUME NEW l \in Launches(d), l.kernel = "splitk_fixup", l.planes = "workspace"
      PROVE  l.splits * d.m * d.n <= input.workspace
  <2> DEFINE used == SplitKSlices(d.k, p.splits, p.index)
  <2>1. /\ Served(p, d) /\ PlanTyped(p)
        /\ Split(o, p, d) /\ l.planes = Planes(p, d) /\ l.splits = used
    BY <1>5, LaunchesOf
  <2>2. Need(p, d) = used * d.m * d.n /\ Need(p, d) \in Int
    BY <2>1, NeedType DEF Split, Served, Positive
  <2>3. Lent(p, d) # 0
    BY <1>5, <2>1 DEF Planes
  <2> HIDE DEF o, p, used
  <2>4. input.workspace >= Need(p, d)
    BY <2>3 DEF Lent
  <2> QED
    BY <1>1, <2>1, <2>2, <2>4
<1>6. ASSUME o.own <= 0, o.own \in Int PROVE 0 .. o.own - 1 = {}
  BY <1>6
<1> QED
  BY <1>4, <1>5, <1>6

\* What kAuto resolves to is taken.
LEMMA AutoTaken ==
  ASSUME NEW d, IsDescription(d)
  PROVE  LET p == PickAuto(d)
         IN  p.algo = "cublas" \/ (Takes(p.algo, d) /\ d.batch = 1)
<1> DEFINE p == PickAuto(d)
<1>1. CASE ~HandKernelShape(d) \/ d.k <= 0
  BY <1>1 DEF PickAuto, Vendor, GemmPlanOf
<1>2. CASE HandKernelShape(d) /\ ~(d.k <= 0)
  <2>0. d.batch = 1
    BY <1>2 DEF HandKernelShape
  <2>1. CASE d.dtype = "f16"
    <3>1. p.algo \in {"cublas", "tile_family", "split_k", "stream_k"}
      BY <1>2, <2>1 DEF PickAuto, PlanTileFamily, Vendor, GemmPlanOf
    <3> QED
      BY <1>2, <2>0, <2>1, <3>1 DEF Takes
  <2>2. CASE d.dtype = "bf16"
    <3>1. p = Vendor \/ (p = GemmPlanOf("wmma_bf16") /\ Divides(d, WmmaTile, WmmaTile, WmmaStep))
      BY <1>2, <2>2 DEF PickAuto
    <3> QED
      BY <1>2, <2>0, <2>2, <3>1 DEF Takes, Vendor, GemmPlanOf
  <2>3. CASE d.dtype = "f32"
    <3>1. \/ p = Vendor \/ p = GemmPlanOf("naive")
          \/ p = GemmPlanOf("cp_async") /\ Divides(d, RegTile, RegTile, RegStep)
      BY <1>2, <2>3 DEF PickAuto
    <3> QED
      BY <1>2, <2>0, <2>3, <3>1 DEF Takes, Vendor, GemmPlanOf
  <2>4. CASE d.dtype \notin {"f16", "bf16", "f32"}
    BY <1>2, <2>4 DEF PickAuto, Vendor, GemmPlanOf
  <2> QED
    BY <2>1, <2>2, <2>3, <2>4
<1> QED
  BY <1>1, <1>2

-------------------------------------------------------------------------------
(* kAuto.                                                                   *)

\* A well formed call that leaves the choice to gemm is served, by the plan
\* gemm_plan reports.
LEMMA AutoServes ==
  ASSUME IsDevice(input), NEW d, IsDescription(d), d.algo = "auto", Validate(d) = "success"
  PROVE  /\ Outcome(d).answer = "success"
         /\ Landed(d).plan.algo = GemmPlan(d).algo
         /\ \A l \in Launches(d) : l.kernel = "splitk_fixup" => l.splits = GemmPlan(d).splits
<1> DEFINE o == Outcome(d)
           p == Landed(d).plan
           q == PickAuto(d)
<1>1. Aim(d) = q
  BY DEF Aim
<1>2. q.algo = "cublas" \/ (Takes(q.algo, d) /\ d.batch = 1)
  BY AutoTaken
<1>3. CASE q.algo = "cublas"
  <2>1. Landed(d) = [plan |-> q, answer |-> "success"]
    BY <1>1, <1>3 DEF Landed, Landing
  <2>2. GemmPlan(d).algo = "cublas"
    BY <1>3 DEF GemmPlan, Hosted, Vendor, GemmPlanOf
  <2>3. d.m >= 0 /\ d.n >= 0
    BY Valid
  <2>4. o = Enqueue(<<>>) \/ o = RunCublas(d)
    BY <1>3, <2>1 DEF Outcome, Run
  <2>5. Plainly(o, {"cublas", "scal"})
    BY <2>3, <2>4, NoLaunch, VendorRuns
  <2>6. o.answer = "success" /\ \A l \in Launches(d) : l.kernel \in {"cublas", "scal"}
    BY <2>5 DEF Plainly, Launches
  <2> QED
    BY <1>3, <2>1, <2>2, <2>6
<1>4. CASE q.algo # "cublas" /\ input.cc < RequiredCc(q.algo)
  <2>1. Landed(d) = [plan |-> Vendor, answer |-> "success"]
    BY <1>1, <1>2, <1>4 DEF Landed, Landing
  <2>2. GemmPlan(d) = Vendor
    BY <1>4 DEF GemmPlan, Hosted
  <2>3. d.m >= 0 /\ d.n >= 0
    BY Valid
  <2>4. o = Enqueue(<<>>) \/ o = RunCublas(d)
    BY <2>1 DEF Outcome, Run, Vendor, GemmPlanOf
  <2>5. Plainly(o, {"cublas", "scal"})
    BY <2>3, <2>4, NoLaunch, VendorRuns
  <2>6. o.answer = "success" /\ \A l \in Launches(d) : l.kernel \in {"cublas", "scal"}
    BY <2>5 DEF Plainly, Launches
  <2> QED
    BY <2>1, <2>2, <2>6
<1>5. CASE q.algo # "cublas" /\ ~(input.cc < RequiredCc(q.algo))
  <2>1. Landed(d) = [plan |-> q, answer |-> "success"]
    BY <1>1, <1>2, <1>5 DEF Landed, Landing
  <2>2. GemmPlan(d) = q
    BY <1>5 DEF GemmPlan, Hosted
  <2>3. d.m >= 0 /\ d.n >= 0 /\ d.k >= 0
    BY Valid
  <2>4. o.answer = "success"
    <3>1. CASE d.m = 0 \/ d.n = 0
      BY <2>1, <3>1 DEF Outcome, Run, Enqueue
    <3>2. CASE d.m # 0 /\ d.n # 0 /\ d.k = 0
      <4>1. o = ScaleC(d)
        BY <1>5, <2>1, <3>2 DEF Outcome, Run
      <4> QED
        BY <2>3, <4>1, Scales DEF Plainly
    <3>3. CASE d.m # 0 /\ d.n # 0 /\ d.k # 0
      <4>1. o = RunHandKernel(q, d)
        BY <1>5, <2>1, <3>3 DEF Outcome, Run
      <4>2. Positive(d)
        BY <2>3, <3>3 DEF Positive, IsDescription
      <4>3. PlanTyped(q) /\ q.algo \in HandAlgos /\ (InTileFamily(q.algo) => q.index \in Runnable)
        BY <1>5, <4>2, AutoPlan
      <4>4. Served(q, d)
        BY <1>2, <1>5, <4>2, <4>3 DEF Served, Positive
      <4>5. CASE InTileFamily(q.algo)
        <5>1. q.index \in Family /\ input.bps[q.index] # 0
          BY <4>3, <4>5 DEF Runnable
        <5>2. Plain(o, q, d) \/ Split(o, q, d) \/ Stream(o, q, d)
          BY <4>1, <4>2, <4>3, <4>4, <4>5, <5>1, TilesBecome, NeedType
        <5> QED
          BY <5>2 DEF Plain, Split, Stream, PlainTiles, Enqueue
      <4>6. CASE ~InTileFamily(q.algo)
        <5>1. q \in {GemmPlanOf("wmma_bf16"), GemmPlanOf("cp_async"), GemmPlanOf("naive")}
          BY <1>5, <4>6 DEF PickAuto, PlanTileFamily, Vendor, GemmPlanOf, InTileFamily
        <5>2. ~Empty(d) /\ d.k > 0
          BY <4>2 DEF Empty, Positive, IsDescription
        <5>3. CASE q = GemmPlanOf("naive")
          <6>1. o = GemmNaive(d)
            BY <4>1, <5>3 DEF RunHandKernel, GemmPlanOf
          <6> QED
            BY <5>2, <6>1 DEF GemmNaive, Launch1, Enqueue
        <5>4. CASE q = GemmPlanOf("cp_async")
          <6>1. o = GemmCpAsync(d) /\ Divides(d, RegTile, RegTile, RegStep) /\ ~(input.cc < 80)
            BY <1>2, <1>5, <4>1, <5>4 DEF RunHandKernel, GemmPlanOf, Takes, RequiredCc
          <6> QED
            BY <5>2, <6>1 DEF GemmCpAsync, RegAligned, NeedsAmpere, Launch1, Enqueue
        <5>5. CASE q = GemmPlanOf("wmma_bf16")
          <6>1. o = GemmWmma(d) /\ Divides(d, WmmaTile, WmmaTile, WmmaStep) /\ ~(input.cc < 80)
            BY <1>2, <1>5, <4>1, <5>5 DEF RunHandKernel, GemmPlanOf, Takes, RequiredCc
          <6> QED
            BY <5>2, <6>1 DEF GemmWmma, WmmaAligned, NeedsAmpere, Launch1, Enqueue
        <5> QED
          BY <5>1, <5>3, <5>4, <5>5
      <4> QED
        BY <4>5, <4>6
    <3> QED
      BY <3>1, <3>2, <3>3
  <2>5. ASSUME NEW l \in Launches(d), l.kernel = "splitk_fixup"
        PROVE  l.splits = q.splits
    <3>1. Served(q, d) /\ Split(o, q, d) /\ l.splits = SplitKSlices(d.k, q.splits, q.index)
      BY <2>1, <2>5, LaunchesOf
    <3>2. Positive(d) /\ q.algo = "split_k"
      BY <3>1 DEF Served, Positive, Split
    <3> QED
      BY <3>1, <3>2, AutoPlan
  <2> QED
    BY <2>1, <2>2, <2>4, <2>5
<1> QED
  BY <1>3, <1>4, <1>5

-------------------------------------------------------------------------------
(* The tile sweep.                                                          *)

\* The rows at the shape of d, and for a tile.
RowsAt(d) ==
  {p \in DOMAIN input.sweep : Readable(input.sweep[p]) /\ ShapeOf(input.sweep[p]) = <<d.m, d.n, d.k>>}
RowsFor(d, tile) == {p \in RowsAt(d) : input.sweep[p].tile = tile}

\* The rows are as many as the sweep is long, each of its type.
LEMMA RowsType ==
  ASSUME IsDevice(input)
  PROVE  /\ DOMAIN input.sweep = 1 .. Len(input.sweep) /\ Len(input.sweep) \in Nat
         /\ \A p \in DOMAIN input.sweep : input.sweep[p] \in SweepRow
<1>1. input.sweep \in Seq(SweepRow)
  BY DEF IsDevice
<1> QED
  BY <1>1

\* A shape that was swept has a first row, which is what nearest_swept sees of it.
LEMMA FirstRow ==
  ASSUME IsDevice(input), NEW d, RowsAt(d) # {}
  PROVE  SweptRows \cap RowsAt(d) # {}
<1>1. DOMAIN input.sweep = 1 .. Len(input.sweep) /\ Len(input.sweep) \in Nat
  BY RowsType
<1>2. RowsAt(d) \subseteq 1 .. Len(input.sweep) /\ RowsAt(d) \in SUBSET Nat
  BY <1>1 DEF RowsAt
<1>3. PICK p \in RowsAt(d) : \A q \in RowsAt(d) : p <= q
  BY <1>2, Least
<1>4. ASSUME NEW q \in 1 .. p - 1, Readable(input.sweep[q])
      PROVE  ShapeOf(input.sweep[q]) # ShapeOf(input.sweep[p])
  <2>1. q \in DOMAIN input.sweep /\ ~(p <= q)
    BY <1>1, <1>2, <1>3, <1>4
  <2>2. q \notin RowsAt(d)
    BY <1>3, <2>1
  <2> QED
    BY <1>3, <1>4, <2>1, <2>2 DEF RowsAt
<1>5. p \in SweptRows
  BY <1>3, <1>4 DEF SweptRows, RowsAt
<1> QED
  BY <1>3, <1>5

\* Rows have a last one.
LEMMA LastRow ==
  ASSUME IsDevice(input), NEW T \in SUBSET DOMAIN input.sweep, T # {}
  PROVE  \E q \in T : \A r \in T : r <= q
<1> DEFINE R == {e \in T \X T : e[2] <= e[1]}
<1>1. T \subseteq 1 .. Len(input.sweep) /\ Len(input.sweep) \in Nat
  BY RowsType
<1>2. IsFiniteSet(T)
  <2>1. IsFiniteSet(1 .. Len(input.sweep))
    BY <1>1, FS_Interval
  <2> QED
    BY <1>1, <2>1, FS_Subset
<1>3. \A i, j \in T : <<i, j>> \in R <=> j <= i
  OBVIOUS
<1>4. \A i, j \in T : i \in Int /\ j \in Int
  BY <1>1
<1> HIDE DEF R
<1>5. \A i, j \in T : <<i, j>> \in R \/ <<j, i>> \in R
  <2>1. \A i, j \in Int : j <= i \/ i <= j
    OBVIOUS
  <2> QED
    BY <1>3, <1>4, <2>1, Zenon
<1>6. \A i, j, k \in T : <<i, j>> \in R /\ <<j, k>> \in R => <<i, k>> \in R
  BY <1>3, <1>4
<1>7. \E i \in T : \A j \in T : <<i, j>> \in R
  BY <1>2, <1>5, <1>6, BestExists
<1> QED
  BY <1>3, <1>7

\* How far a row is from a description.
Apart(x, y) == (Logarithm[x] - Logarithm[y]) * (Logarithm[x] - Logarithm[y])
Away(d, p) ==
  IF d.m = 0 \/ d.n = 0 \/ d.k = 0 THEN 0
  ELSE Apart(d.m, input.sweep[p].m) + Apart(d.n, input.sweep[p].n) + Apart(d.k, input.sweep[p].k)
Nearer(d, p, q) == Away(d, p) < Away(d, q) \/ (Away(d, p) = Away(d, q) /\ p <= q)

\* NearestSwept in these terms.
LEMMA NearestIs ==
  ASSUME NEW d
  PROVE  NearestSwept(d) = IF SweptRows = {} THEN 0
                           ELSE CHOOSE p \in SweptRows : \A q \in SweptRows : Nearer(d, p, q)
BY DEF NearestSwept, Nearer, Away, Apart

\* Sizes are no distance apart only when they are the same, and so are shapes.
LEMMA ApartFacts ==
  ASSUME NEW x \in DOMAIN Logarithm, NEW y \in DOMAIN Logarithm
  PROVE  Apart(x, y) \in Nat /\ (Apart(x, y) = 0 <=> x = y)
<1> DEFINE e == Logarithm[x] - Logarithm[y]
<1>1. e \in Int /\ (e = 0 <=> x = y)
  BY LogarithmAssumption
<1>2. Apart(x, y) = e * e
  BY DEF Apart
<1> HIDE DEF e
<1>3. e * e \in Nat /\ (e * e = 0 <=> e = 0)
  <2>1. \A z \in Int : z * z >= 0 /\ (z # 0 => z * z # 0)
    BY SMT
  <2> QED
    BY <1>1, <2>1
<1> QED
  BY <1>1, <1>2, <1>3

LEMMA AwayFacts ==
  ASSUME IsDevice(input), NEW d, Positive(d), NEW p \in SweptRows
  PROVE  /\ Away(d, p) \in Nat
         /\ Away(d, p) = 0 <=> ShapeOf(input.sweep[p]) = <<d.m, d.n, d.k>>
<1> DEFINE row == input.sweep[p]
           a == Apart(d.m, row.m)
           b == Apart(d.n, row.n)
           c == Apart(d.k, row.k)
<1>1. /\ row.m \in DOMAIN Logarithm /\ row.n \in DOMAIN Logarithm /\ row.k \in DOMAIN Logarithm
  <2>1. p \in DOMAIN input.sweep /\ row.m > 0 /\ row.n > 0 /\ row.k > 0
    BY DEF SweptRows, Readable
  <2>2. HasLogarithms({row.m, row.n, row.k})
    BY <2>1 DEF IsDevice
  <2> QED
    BY <2>1, <2>2 DEF HasLogarithms
<1>2. /\ d.m \in DOMAIN Logarithm /\ d.n \in DOMAIN Logarithm /\ d.k \in DOMAIN Logarithm
  <2>1. HasLogarithms({d.m, d.n, d.k})
    BY DEF Positive, IsDescription
  <2> QED
    BY <2>1 DEF HasLogarithms, Positive
<1>3. /\ a \in Nat /\ (a = 0 <=> d.m = row.m)
      /\ b \in Nat /\ (b = 0 <=> d.n = row.n)
      /\ c \in Nat /\ (c = 0 <=> d.k = row.k)
  BY <1>1, <1>2, ApartFacts
<1>4. Away(d, p) = a + b + c
  BY DEF Away, Positive, IsDescription
<1> HIDE DEF a, b, c
<1>5. Away(d, p) \in Nat /\ (Away(d, p) = 0 <=> a = 0 /\ b = 0 /\ c = 0)
  BY <1>3, <1>4
<1>6. ShapeOf(row) = <<d.m, d.n, d.k>> <=> row.m = d.m /\ row.n = d.n /\ row.k = d.k
  BY DEF ShapeOf
<1> QED
  BY <1>3, <1>5, <1>6

\* The nearest row to a shape that was swept has that shape.
LEMMA NearestSame ==
  ASSUME IsDevice(input), NEW d, Positive(d), RowsAt(d) # {}
  PROVE  NearestSwept(d) \in RowsAt(d) /\ NearestSwept(d) # 0
<1> DEFINE s == NearestSwept(d)
           S == SweptRows
           R == {e \in S \X S : Nearer(d, e[1], e[2])}
<1>1. S \subseteq 1 .. Len(input.sweep) /\ Len(input.sweep) \in Nat
  BY RowsType DEF SweptRows
<1>2. IsFiniteSet(S) /\ \A p \in S : p \in Int
  <2>1. IsFiniteSet(1 .. Len(input.sweep))
    BY <1>1, FS_Interval
  <2>2. IsFiniteSet(S)
    BY <1>1, <2>1, FS_Subset
  <2> HIDE DEF S
  <2> QED
    BY <1>1, <2>2
<1>3. PICK f : f \in S /\ f \in RowsAt(d)
  BY FirstRow
<1>4. \A p \in S : Away(d, p) \in Nat /\ (Away(d, p) = 0 <=> ShapeOf(input.sweep[p]) = <<d.m, d.n, d.k>>)
  BY AwayFacts
<1>5. \A i, j \in S : <<i, j>> \in R <=> Nearer(d, i, j)
  OBVIOUS
<1>6. s = CHOOSE p \in S : \A q \in S : Nearer(d, p, q)
  BY <1>3, NearestIs
<1> HIDE DEF R, S, s
<1>7. \A i, j \in S : Nearer(d, i, j) \/ Nearer(d, j, i)
  BY <1>2, <1>4 DEF Nearer
<1>8. \A i, j, k \in S : Nearer(d, i, j) /\ Nearer(d, j, k) => Nearer(d, i, k)
  BY <1>2, <1>4 DEF Nearer
<1>9. \E i \in S : \A j \in S : <<i, j>> \in R
  <2>1. \A i, j \in S : <<i, j>> \in R \/ <<j, i>> \in R
    BY <1>5, <1>7
  <2>2. \A i, j, k \in S : <<i, j>> \in R /\ <<j, k>> \in R => <<i, k>> \in R
    BY <1>5, <1>8
  <2> QED
    BY <1>2, <1>3, <2>1, <2>2, BestExists
<1>10. s \in S /\ \A q \in S : Nearer(d, s, q)
  BY <1>5, <1>6, <1>9
<1>11. Away(d, f) = 0
  BY <1>3, <1>4 DEF RowsAt
<1>12. Away(d, s) = 0
  BY <1>3, <1>4, <1>10, <1>11 DEF Nearer
<1>13. ShapeOf(input.sweep[s]) = <<d.m, d.n, d.k>>
  BY <1>4, <1>10, <1>12
<1> QED
  BY <1>1, <1>10, <1>13 DEF RowsAt, SweptRows, S, s

\* What the sweep says of a tile there, and which row it says it in.
LEMMA GflopsIs ==
  ASSUME NEW d, NEW s \in RowsAt(d), NEW tile
  PROVE  Gflops(s, tile) = IF RowsFor(d, tile) = {} THEN -1
                           ELSE input.sweep[CHOOSE q \in RowsFor(d, tile) : \A r \in RowsFor(d, tile) : r <= q].gflops
<1>1. {q \in DOMAIN input.sweep :
         /\ Readable(input.sweep[q]) /\ input.sweep[q].tile = tile
         /\ ShapeOf(input.sweep[q]) = ShapeOf(input.sweep[s])} = RowsFor(d, tile)
  BY DEF RowsFor, RowsAt
<1> DEFINE rows == {q \in DOMAIN input.sweep :
                      /\ Readable(input.sweep[q]) /\ input.sweep[q].tile = tile
                      /\ ShapeOf(input.sweep[q]) = ShapeOf(input.sweep[s])}
           last(T) == CHOOSE q \in T : \A r \in T : r <= q
<1>2. Gflops(s, tile) = IF rows = {} THEN -1 ELSE input.sweep[last(rows)].gflops
  BY DEF Gflops
<1>3. rows = RowsFor(d, tile)
  BY <1>1
<1> HIDE DEF rows
<1> QED
  BY <1>2, <1>3

\* Measured in these terms.
LEMMA MeasuredIs ==
  ASSUME IsDevice(input), NEW d, NEW q
  PROVE  q \in Measured(d) <=>
           q \in RowsAt(d) /\ \A r \in RowsFor(d, input.sweep[q].tile) : r <= q
<1>1. DOMAIN input.sweep = 1 .. Len(input.sweep) /\ Len(input.sweep) \in Nat
  BY RowsType
<1>2. ASSUME q \in Measured(d)
      PROVE  q \in RowsAt(d) /\ \A r \in RowsFor(d, input.sweep[q].tile) : r <= q
  <2>1. q \in RowsAt(d)
    BY <1>2 DEF Measured, RowsAt
  <2>2. ASSUME NEW r \in RowsFor(d, input.sweep[q].tile), ~(r <= q) PROVE FALSE
    <3>1. r \in q + 1 .. Len(input.sweep)
      BY <1>1, <2>1, <2>2 DEF RowsAt, RowsFor
    <3> QED
      BY <1>2, <2>2, <3>1 DEF Measured, RowsAt, RowsFor
  <2> QED
    BY <2>1, <2>2
<1>3. ASSUME q \in RowsAt(d), \A r \in RowsFor(d, input.sweep[q].tile) : r <= q
      PROVE  q \in Measured(d)
  <2>1. q \in 1 .. Len(input.sweep)
    BY <1>1, <1>3 DEF RowsAt
  <2>2. ASSUME NEW r \in q + 1 .. Len(input.sweep),
               Readable(input.sweep[r]), input.sweep[r].tile = input.sweep[q].tile,
               ShapeOf(input.sweep[r]) = ShapeOf(input.sweep[q])
        PROVE  FALSE
    <3>1. r \in DOMAIN input.sweep /\ ~(r <= q)
      BY <1>1, <2>1, <2>2
    <3>2. r \in RowsFor(d, input.sweep[q].tile)
      BY <1>3, <2>2, <3>1 DEF RowsFor, RowsAt
    <3> QED
      BY <1>3, <3>1, <3>2
  <2> QED
    BY <1>3, <2>2 DEF Measured, RowsAt
<1> QED
  BY <1>2, <1>3

\* A launch on a tile of the family heeds the sweep.
LEMMA Heeded ==
  ASSUME IsDevice(input), NEW d, IsDescription(d),
         NEW l \in Launches(d), l.kernel = "tile", NEW p \in Measured(d)
  PROVE  \E q \in Measured(d) :
           /\ input.sweep[q].tile = l.index
           /\ 100 * input.sweep[q].gflops >= 95 * input.sweep[p].gflops
<1> DEFINE s == NearestSwept(d)
           i == l.index
           j == input.sweep[p].tile
<1>1. /\ i = ChooseTile(d) /\ i \in Family /\ Positive(d)
  <2>1. /\ Served(Landed(d).plan, d) /\ l.index = Landed(d).plan.index
        /\ Landed(d).plan.index = ChooseTile(d)
        /\ Plain(Outcome(d), Landed(d).plan, d) \/ Split(Outcome(d), Landed(d).plan, d)
    BY LaunchesOf DEF Single
  <2> QED
    BY <2>1 DEF Served, Positive, Plain, Split
<1>2. p \in RowsAt(d) /\ \A r \in RowsFor(d, j) : r <= p
  BY MeasuredIs
<1>3. s \in RowsAt(d) /\ s # 0
  BY <1>1, <1>2, NearestSame
<1>4. i \in Fast(s)
  BY <1>1, <1>3, TileGivenFacts, TileType DEF ChooseTile, Positive, NotEmpty
<1>5. j \in Family /\ p \in RowsFor(d, j)
  BY <1>2 DEF RowsAt, RowsFor, Readable
<1>6. 100 * Gflops(s, i) >= 95 * Gflops(s, j)
  BY <1>4, <1>5 DEF Fast
<1>7. \A t : RowsFor(d, t) \in SUBSET DOMAIN input.sweep
  BY DEF RowsFor, RowsAt
<1>8. Gflops(s, j) = input.sweep[p].gflops
  <2> DEFINE last == CHOOSE q \in RowsFor(d, j) : \A r \in RowsFor(d, j) : r <= q
  <2>1. last \in RowsFor(d, j) /\ \A r \in RowsFor(d, j) : r <= last
    BY <1>2, <1>5
  <2>2. last = p
    <3>1. last <= p /\ p <= last
      BY <1>2, <1>5, <2>1
    <3>2. last \in Int /\ p \in Int
      BY <1>5, <1>7, <2>1, RowsType
    <3> QED
      BY <3>1, <3>2
  <2>3. Gflops(s, j) = input.sweep[last].gflops
    BY <1>3, <1>5, GflopsIs
  <2> QED
    BY <2>2, <2>3
<1>9. input.sweep[p].gflops \in Int /\ input.sweep[p].gflops > 0
  <2>1. input.sweep[p] \in SweepRow
    BY <1>5, <1>7, RowsType
  <2> QED
    BY <1>2, <2>1 DEF SweepRow, RowsAt, Readable
<1>10. RowsFor(d, i) # {}
  <2>1. ASSUME RowsFor(d, i) = {} PROVE FALSE
    <3>1. Gflops(s, i) = -1
      BY <1>3, <2>1, GflopsIs
    <3> QED
      BY <1>6, <1>8, <1>9, <3>1
  <2> QED
    BY <2>1
<1>11. PICK q \in RowsFor(d, i) : (\A r \in RowsFor(d, i) : r <= q) /\ Gflops(s, i) = input.sweep[q].gflops
  <2> DEFINE last == CHOOSE q \in RowsFor(d, i) : \A r \in RowsFor(d, i) : r <= q
  <2>1. last \in RowsFor(d, i) /\ \A r \in RowsFor(d, i) : r <= last
    BY <1>7, <1>10, LastRow
  <2>2. Gflops(s, i) = input.sweep[last].gflops
    BY <1>3, <1>10, GflopsIs
  <2> QED
    BY <2>1, <2>2
<1>12. q \in Measured(d) /\ input.sweep[q].tile = i
  <2>1. q \in RowsAt(d) /\ input.sweep[q].tile = i
    BY <1>11 DEF RowsFor
  <2> QED
    BY <1>11, <2>1, MeasuredIs
<1> QED
  BY <1>6, <1>8, <1>11, <1>12

-------------------------------------------------------------------------------
(* The inductive invariant.  The call in service is one the caller made, was*)
(* reported as it landed, and has of its launches some left to execute; the *)
(* choices of FftPlan and ConvPlan are never refused.                       *)

\* What is said of the call in service.
Serving(d) ==
  /\ d \in Requests(input) /\ d.what = "gemm"
  /\ chosen = Landed(d).plan.algo
  /\ program \in Seq(Launches(d))
  /\ IF Outcome(d).answer = "success" THEN status \in {"busy", "success", "execution_failed"}
     ELSE status = Outcome(d).answer /\ program = <<>>
  /\ status = "busy" => "own" \in DOMAIN dev /\ DOMAIN dev["own"] = 0 .. Outcome(d).own - 1

GemmInv ==
  input.family = "gemm" =>
    /\ status = "none" => program = <<>>
    /\ status # "none" /\ request.what = "gemm" => Serving(request)

\* What the choice of a transform rests on.
FftInv ==
  /\ input.family \in {"fft", "conv"} /\ status \in {"none", "building"} => request = Nothing
  /\ input.family = "fft" /\ plan # Nothing =>
       /\ plan.t = Transform(input.n, input.batch, input.four_step_n1, input.transpose)
       /\ IsPower(input.n) /\ input.n <= MaxLength

DispatchInv == input \in Inputs /\ GemmInv /\ FftInv /\ FftAutoServed

\* What the input is tells what the calls on its Context may be.
LEMMA InputTypes ==
  ASSUME input \in Inputs
  PROVE  /\ input.family = "gemm" =>
              IsDevice(input) /\ \A r \in Requests(input) : r.what = "gemm" => IsDescription(r)
         /\ input.family = "fft" => input.n \in Nat
<1> USE InputsAssumption
<1> QED
  BY Zenon

\* A kernel leaves the call in service.
LEMMA KernelSteps == Kernel => Executed /\ (Head(program).kernel \in GemmKernels => OwnKept)
BY SpmvExecutes, ScanExecutes, FftExecutes, ConvExecutes, DenseExecutes, GemmExecutes DEF Kernel

\* A Context that is built has no call in service.
LEMMA BuildSteps ==
  ASSUME Build, input.family = "gemm"
  PROVE  status = "none" /\ UNCHANGED <<input, request, chosen, status, program>>
<1>1. BuildContext
  BY DEF Build, BuildSpmv, BuildScan, BuildFft, BuildFft2d, BuildConv, BuildDense
<1> QED
  BY <1>1 DEF BuildContext, Construct

\* A call of gemm is served as Outcome has it.
LEMMA CallSteps ==
  ASSUME Call, input.family = "gemm"
  PROVE  /\ input' = input
         /\ status' = "none" => program' = <<>>
         /\ request'.what = "gemm" =>
              \E d \in Requests(input) :
                /\ request' = d /\ d.what = "gemm" /\ chosen' = Landed(d).plan.algo
                /\ status' = IF Outcome(d).answer = "success" THEN "busy" ELSE Outcome(d).answer
                /\ program' = IF Outcome(d).answer = "success" THEN Outcome(d).launches ELSE <<>>
                /\ "own" \in DOMAIN dev' /\ DOMAIN dev'["own"] = 0 .. Outcome(d).own - 1
<1>1. PICK r \in Requests(input) : CallGemm(r) \/ CallRung(r)
  BY DEF Call, CallSpmv, CallScan, CallReduce, CallFft, CallFft2d, CallConv, CallGemv, CallTrsm
<1>2. ASSUME NEW o, NEW algo, ServeRung(r, algo, o)
      PROVE  /\ input' = input /\ request' = r /\ chosen' = algo
             /\ status' = IF o.answer = "success" THEN "busy" ELSE o.answer
             /\ program' = IF o.answer = "success" THEN o.launches ELSE <<>>
             /\ "own" \in DOMAIN dev' /\ DOMAIN dev'["own"] = 0 .. o.own - 1
  <2> DEFINE operands == [c |-> r.c, own |-> [at \in 0 .. o.own - 1 |-> NaN]]
  <2>1. Serve(r, algo, o.answer, o.launches, operands)
    BY <1>2 DEF ServeRung
  <2>2. "own" \in DOMAIN operands /\ DOMAIN operands["own"] = 0 .. o.own - 1
    OBVIOUS
  <2> HIDE DEF operands
  <2>3. dev' = Overwritten(dev, operands)
    BY <2>1 DEF Serve
  <2>4. "own" \in DOMAIN dev' /\ dev'["own"] = operands["own"]
    BY <2>2, <2>3 DEF Overwritten
  <2> QED
    BY <2>1, <2>2, <2>4 DEF Serve
<1>3. CASE CallGemm(r)
  <2>1. r.what = "gemm" /\ ServeRung(r, Landed(r).plan.algo, Outcome(r))
    BY <1>3 DEF CallGemm, Landed, Outcome, Aim
  <2> QED
    BY <1>2, <2>1
<1>4. CASE CallRung(r)
  <2>1. r.what = "rung" /\ ServeRung(r, r.algo, Launcher(r))
    BY <1>4 DEF CallRung
  <2> QED
    BY <1>2, <2>1
<1> QED
  BY <1>1, <1>3, <1>4

\* What a plan is built from stays.
LEMMA NextKeepsInput == Next => input' = input
<1>1. Build => input' = input
  <2> USE DEF Construct, ConstructWith, Refused
  <2>1. BuildSpmv => input' = input
    BY DEF BuildSpmv
  <2>2. BuildScan => input' = input
    BY DEF BuildScan
  <2>3. BuildFft => input' = input
    BY DEF BuildFft
  <2>4. BuildFft2d => input' = input
    BY DEF BuildFft2d
  <2>5. BuildConv => input' = input
    BY DEF BuildConv
  <2>6. BuildContext => input' = input
    BY DEF BuildContext
  <2>7. BuildDense => input' = input
    BY DEF BuildDense
  <2> QED
    BY <2>1, <2>2, <2>3, <2>4, <2>5, <2>6, <2>7 DEF Build
<1>2. Call => input' = input
  <2>1. SUFFICES ASSUME NEW r,
                        \/ CallSpmv(r) \/ CallScan(r) \/ CallReduce(r) \/ CallFft(r) \/ CallFft2d(r)
                        \/ CallConv(r) \/ CallGemm(r) \/ CallRung(r) \/ CallGemv(r) \/ CallTrsm(r)
                 PROVE  input' = input
    BY DEF Call
  <2> USE DEF Serve, ServeRung
  <2>2. CallSpmv(r) => input' = input
    BY DEF CallSpmv
  <2>3. CallScan(r) => input' = input
    BY DEF CallScan
  <2>4. CallReduce(r) => input' = input
    BY DEF CallReduce
  <2>5. CallFft(r) => input' = input
    BY DEF CallFft
  <2>6. CallFft2d(r) => input' = input
    BY DEF CallFft2d
  <2>7. CallConv(r) => input' = input
    BY DEF CallConv
  <2>8. CallGemm(r) => input' = input
    BY DEF CallGemm
  <2>9. CallRung(r) => input' = input
    BY DEF CallRung
  <2>10. CallGemv(r) => input' = input
    BY DEF CallGemv
  <2>11. CallTrsm(r) => input' = input
    BY DEF CallTrsm
  <2> QED
    BY <2>1, <2>2, <2>3, <2>4, <2>5, <2>6, <2>7, <2>8, <2>9, <2>10, <2>11
<1>3. Kernel => input' = input
  BY KernelSteps DEF Executed
<1>4. LaunchFails \/ Return \/ Idle => input' = input
  BY DEF LaunchFails, Return, Idle, callVars
<1> QED
  BY <1>1, <1>2, <1>3, <1>4 DEF Next

\* A call brings the invariant about for the next one.
LEMMA GemmCall ==
  ASSUME input \in Inputs, input.family = "gemm", Call
  PROVE  GemmInv'
<1>1. /\ input' = input
      /\ status' = "none" => program' = <<>>
  BY CallSteps
<1>2. ASSUME request'.what = "gemm" PROVE Serving(request)'
  <2>1. PICK d \in Requests(input) :
          /\ request' = d /\ d.what = "gemm" /\ chosen' = Landed(d).plan.algo
          /\ status' = IF Outcome(d).answer = "success" THEN "busy" ELSE Outcome(d).answer
          /\ program' = IF Outcome(d).answer = "success" THEN Outcome(d).launches ELSE <<>>
          /\ "own" \in DOMAIN dev' /\ DOMAIN dev'["own"] = 0 .. Outcome(d).own - 1
    BY <1>2, CallSteps
  <2>2. IsDevice(input) /\ IsDescription(d)
    BY <2>1, InputTypes
  <2>3. Outcome(d).answer \in Answers /\ Outcome(d).launches \in Seq(Launches(d))
    BY <2>2, OutcomeFacts
  <2>4. Landed(d)' = Landed(d) /\ Outcome(d)' = Outcome(d) /\ Launches(d)' = Launches(d)
    BY <1>1, Unmoved
  <2>5. program' \in Seq(Launches(d))
    BY <2>1, <2>3
  <2>6. Serving(d)'
    BY <1>1, <2>1, <2>3, <2>4, <2>5 DEF Serving, Answers
  <2>7. Serving(request)'
    BY <2>1, <2>6 DEF Serving
  <2> QED
    BY <2>7
<1> QED
  BY <1>1, <1>2 DEF GemmInv

\* A step within the call in service.
LEMMA ServingKept ==
  ASSUME input \in Inputs, input.family = "gemm", Serving(request),
         UNCHANGED <<input, request, chosen>>,
         program' \in Seq(Launches(request)),
         Outcome(request).answer = "success" => status' \in {"busy", "success", "execution_failed"},
         Outcome(request).answer # "success" => status' = status /\ program' = <<>>,
         status' = "busy" => "own" \in DOMAIN dev' /\ DOMAIN dev'["own"] = 0 .. Outcome(request).own - 1
  PROVE  Serving(request)'
<1>1. PICK d : d = request
  OBVIOUS
<1>2. Landed(d)' = Landed(d) /\ Outcome(d)' = Outcome(d) /\ Launches(d)' = Launches(d)
  BY Unmoved
<1>3. Serving(d)'
  BY <1>1, <1>2 DEF Serving
<1>4. request' = d
  BY <1>1
<1> QED
  BY <1>3, <1>4 DEF Serving

\* Every step keeps what is said of products.
LEMMA GemmKept ==
  ASSUME input \in Inputs, GemmInv, Next
  PROVE  GemmInv'
<1>0. SUFFICES ASSUME input.family = "gemm" PROVE GemmInv'
  <2>1. input' = input
    BY NextKeepsInput
  <2> QED
    BY <2>1 DEF GemmInv
<1>1. CASE Build
  <2>1. status = "none" /\ UNCHANGED <<input, request, chosen, status, program>>
    BY <1>0, <1>1, BuildSteps
  <2> QED
    BY <2>1 DEF GemmInv
<1>2. CASE Call
  BY <1>0, <1>2, GemmCall
<1>3. CASE Kernel
  <2>1. Executed /\ (Head(program).kernel \in GemmKernels => OwnKept)
    BY <1>3, KernelSteps
  <2>2. status # "none" /\ UNCHANGED <<input, request, chosen, status>> /\ program # <<>> /\ program' = Tail(program)
    BY <1>0, <2>1 DEF Executed, GemmInv
  <2>3. ASSUME request.what = "gemm" PROVE Serving(request)'
    <3>1. Serving(request)
      BY <1>0, <2>2, <2>3 DEF GemmInv
    <3>2. IsDevice(input) /\ IsDescription(request)
      BY <1>0, <3>1, InputTypes DEF Serving
    <3>3. program \in Seq(Launches(request)) /\ Outcome(request).answer = "success"
      BY <2>2, <3>1 DEF Serving
    <3>4. Head(program) \in Launches(request) /\ Tail(program) \in Seq(Launches(request))
      BY <2>2, <3>3
    <3>5. Head(program).kernel \in GemmKernels
      BY <3>2, <3>4, OutcomeFacts DEF Launches
    <3>6. OwnKept
      BY <2>1, <3>5
    <3>7. status' = "busy" => "own" \in DOMAIN dev' /\ DOMAIN dev'["own"] = 0 .. Outcome(request).own - 1
      BY <2>2, <3>1, <3>6 DEF Serving, OwnKept
    <3>8. status' \in {"busy", "success", "execution_failed"}
      BY <2>2, <3>1, <3>3 DEF Serving
    <3> QED
      BY <1>0, <2>2, <3>1, <3>3, <3>4, <3>7, <3>8, ServingKept
  <2> QED
    BY <2>2, <2>3 DEF GemmInv
<1>4. CASE LaunchFails
  <2>1. /\ program # <<>> /\ program' = <<>> /\ status' = "execution_failed"
        /\ UNCHANGED <<input, request, chosen, dev>>
    BY <1>4 DEF LaunchFails
  <2>2. ASSUME request.what = "gemm" PROVE Serving(request)'
    <3>1. Serving(request)
      BY <1>0, <2>1, <2>2 DEF GemmInv
    <3>2. Outcome(request).answer = "success"
      BY <2>1, <3>1 DEF Serving
    <3>3. <<>> \in Seq(Launches(request))
      OBVIOUS
    <3> QED
      BY <1>0, <2>1, <3>1, <3>2, <3>3, ServingKept
  <2> QED
    BY <2>1, <2>2 DEF GemmInv
<1>5. CASE Return
  <2>1. /\ status \in {"busy", "building"} /\ program = <<>>
        /\ status' = IF status = "busy" THEN "success" ELSE "none"
        /\ UNCHANGED <<input, request, chosen, program, dev>>
    BY <1>5 DEF Return
  <2>2. ASSUME request.what = "gemm" PROVE Serving(request)'
    <3>1. Serving(request)
      BY <1>0, <2>1, <2>2 DEF GemmInv
    <3>2. IsDevice(input) /\ IsDescription(request)
      BY <1>0, <3>1, InputTypes DEF Serving
    <3>3. Outcome(request).answer \in Answers
      BY <3>2, OutcomeFacts
    <3>4. Outcome(request).answer = "success" /\ status = "busy"
      BY <2>1, <3>1, <3>3 DEF Serving, Answers
    <3>5. program' \in Seq(Launches(request)) /\ status' = "success"
      BY <2>1, <3>1, <3>4 DEF Serving
    <3> QED
      BY <1>0, <2>1, <3>1, <3>4, <3>5, ServingKept
  <2> QED
    BY <2>1, <2>2 DEF GemmInv
<1>6. CASE Idle
  <2>1. UNCHANGED <<input, request, chosen, status, program, dev>>
    BY <1>6 DEF Idle, callVars
  <2>2. ASSUME status # "none", request.what = "gemm" PROVE Serving(request)'
    <3>1. Serving(request)
      BY <1>0, <2>2 DEF GemmInv
    <3>2. program' \in Seq(Launches(request))
      BY <2>1, <3>1 DEF Serving
    <3>3. /\ Outcome(request).answer = "success" => status' \in {"busy", "success", "execution_failed"}
          /\ Outcome(request).answer # "success" => status' = status /\ program' = <<>>
          /\ status' = "busy" => "own" \in DOMAIN dev' /\ DOMAIN dev'["own"] = 0 .. Outcome(request).own - 1
      BY <2>1, <3>1 DEF Serving
    <3> QED
      BY <1>0, <2>1, <3>1, <3>2, <3>3, ServingKept
  <2> QED
    BY <1>0, <2>1, <2>2 DEF GemmInv
<1> QED
  BY <1>1, <1>2, <1>3, <1>4, <1>5, <1>6 DEF Next

\* The factors depend on the length alone when none is named.
LEMMA TransformIs ==
  ASSUME NEW n, NEW batch, NEW transpose
  PROVE  /\ Transform(n, batch, 0, transpose).n = n
         /\ Transform(n, batch, 0, transpose).n1 = Transform(n, 1, 0, "naive").n1
BY DEF Transform

\* What a plan of a transform resolves to is refused only when its factors were
\* named.
LEMMA ChoiceTaken ==
  ASSUME input \in Inputs, input.family = "fft", FftInv, plan # Nothing,
         FftRefuses(plan.t, FftQuery(plan.t))
  PROVE  input.four_step_n1 # 0
<1> SUFFICES ASSUME input.four_step_n1 = 0 PROVE FALSE
  OBVIOUS
<1>1. /\ plan.t = Transform(input.n, input.batch, 0, input.transpose)
      /\ IsPower(input.n) /\ input.n <= MaxLength /\ input.n \in Nat
  BY InputTypes DEF FftInv
<1>2. plan.t.n = input.n /\ plan.t.n1 = Transform(input.n, 1, 0, "naive").n1
  BY <1>1, TransformIs
<1>3. SharedMax \in Nat /\ MaxLength \in Nat
  BY FourStepAssumption
<1>4. ~(input.n <= SharedMax) /\ plan.t.n1 = 0
  BY <1>1, <1>2, <1>3 DEF FftRefuses, FftQuery
<1>5. input.n \in SharedMax + 1 .. MaxLength
  BY <1>1, <1>3, <1>4
<1> QED
  BY <1>1, <1>2, <1>4, <1>5, FourStepAssumption

\* A convolution resolves to a form its plan takes.
LEMMA ConvTaken == ~ConvRefuses(ConvQuery)
BY DEF ConvQuery, ConvRefuses

\* Plans are built of lengths that are powers of two and not too long.
LEMMA FftBuild ==
  ASSUME input \in Inputs, FftInv, FftAutoServed, Build
  PROVE  FftInv' /\ FftAutoServed'
<1>0. status = "none" /\ UNCHANGED <<input, request>>
  <2> USE DEF Construct, ConstructWith, Refused
  <2>1. BuildSpmv => status = "none" /\ UNCHANGED <<input, request>>
    BY DEF BuildSpmv
  <2>2. BuildScan => status = "none" /\ UNCHANGED <<input, request>>
    BY DEF BuildScan
  <2>3. BuildFft => status = "none" /\ UNCHANGED <<input, request>>
    BY DEF BuildFft
  <2>4. BuildFft2d => status = "none" /\ UNCHANGED <<input, request>>
    BY DEF BuildFft2d
  <2>5. BuildConv => status = "none" /\ UNCHANGED <<input, request>>
    BY DEF BuildConv
  <2>6. BuildContext => status = "none" /\ UNCHANGED <<input, request>>
    BY DEF BuildContext
  <2>7. BuildDense => status = "none" /\ UNCHANGED <<input, request>>
    BY DEF BuildDense
  <2> QED
    BY <2>1, <2>2, <2>3, <2>4, <2>5, <2>6, <2>7 DEF Build
<1>1. input.family \in {"fft", "conv"} => request' = Nothing
  BY <1>0 DEF FftInv
<1>2. FftAutoServed'
  BY <1>0, <1>1 DEF FftAutoServed
<1>3. ASSUME input.family = "fft", plan' # Nothing
      PROVE  /\ plan'.t = Transform(input.n, input.batch, input.four_step_n1, input.transpose)
             /\ IsPower(input.n) /\ input.n <= MaxLength
  <2> DEFINE t == Transform(input.n, input.batch, input.four_step_n1, input.transpose)
             refuses == \/ ~IsPower(input.n) \/ input.n < 2 \/ input.n > MaxLength \/ input.batch < 1
                        \/ FourStepInvalid(input.n, input.four_step_n1)
  <2>1. BuildFft
    BY <1>3 DEF Build, BuildSpmv, BuildScan, BuildFft2d, BuildConv, BuildContext, BuildDense
  <2>2. \/ plan' = Nothing
        \/ ~refuses /\ plan' = [family |-> "fft", t |-> t]
    BY <2>1 DEF BuildFft, Refused, Construct
  <2>3. ~refuses /\ plan' = [family |-> "fft", t |-> t]
    BY <1>3, <2>2
  <2>4. input.n \in Nat /\ MaxLength \in Nat
    BY <1>3, InputTypes, FourStepAssumption
  <2> HIDE DEF t
  <2>5. plan'.t = t
    BY <2>3
  <2> QED
    BY <2>3, <2>4, <2>5 DEF t
<1> QED
  BY <1>0, <1>1, <1>2, <1>3 DEF FftInv

\* A call answers not_supported to its own choice only where the property allows it.
LEMMA FftCall ==
  ASSUME input \in Inputs, FftInv, Call
  PROVE  FftInv' /\ FftAutoServed'
<1>0. input' = input
  BY NextKeepsInput DEF Next
<1>1. CASE input.family \notin {"fft", "conv"}
  BY <1>0, <1>1 DEF FftInv, FftAutoServed
<1>2. CASE input.family = "fft"
  <2>1. PICK r : CallFft(r)
    BY <1>2 DEF Call, CallSpmv, CallScan, CallReduce, CallFft2d, CallConv, CallGemm, CallRung, CallGemv, CallTrsm
  <2> DEFINE t == plan.t
             algo == IF r.algo = "auto" THEN FftQuery(t) ELSE r.algo
             answer == IF r.null \/ (r.what = "fft" /\ r.aliased) THEN "invalid_value"
                       ELSE IF \/ r.what # "fft" /\ ~input.build_real
                               \/ FftRefuses(t, algo) \/ TiledTooMany(t, algo) THEN "not_supported"
                       ELSE "success"
  <2>2. /\ plan # Nothing /\ plan' = plan /\ request' = r /\ chosen' = algo
        /\ status' = IF answer = "success" THEN "busy" ELSE answer
    BY <2>1 DEF CallFft, Serve
  <2>3. status' \notin {"none", "building"}
    BY <2>2
  <2>4. ASSUME r.algo = "auto", status' = "not_supported"
        PROVE  \/ r.what # "fft" /\ ~input.build_real
               \/ TiledTooMany(plan.t, algo)
               \/ input.four_step_n1 # 0 /\ FftRefuses(plan.t, algo)
    <3>1. \/ r.what # "fft" /\ ~input.build_real
          \/ FftRefuses(plan.t, algo) \/ TiledTooMany(plan.t, algo)
      BY <2>2, <2>4
    <3>2. FftRefuses(plan.t, algo) => input.four_step_n1 # 0
      BY <1>2, <2>2, <2>4, ChoiceTaken
    <3> QED
      BY <3>1, <3>2
  <2> HIDE DEF algo, answer
  <2>5. FftAutoServed'
    BY <1>0, <1>2, <2>2, <2>4 DEF FftAutoServed, TiledTooMany, FftRefuses
  <2>6. FftInv'
    BY <1>0, <1>2, <2>2, <2>3 DEF FftInv
  <2> QED
    BY <2>5, <2>6
<1>3. CASE input.family = "conv"
  <2>1. PICK r : CallConv(r)
    BY <1>3 DEF Call, CallSpmv, CallScan, CallReduce, CallFft, CallFft2d, CallGemm, CallRung, CallGemv, CallTrsm
  <2> DEFINE algo == IF r.algo = "auto" THEN ConvQuery ELSE r.algo
             answer == IF r.null THEN "invalid_value"
                       ELSE IF ConvRefuses(algo) THEN "not_supported" ELSE "success"
  <2>2. /\ request' = r /\ status' = IF answer = "success" THEN "busy" ELSE answer
    BY <2>1 DEF CallConv, Serve
  <2>3. status' \notin {"none", "building"}
    BY <2>2
  <2>4. r.algo = "auto" => status' # "not_supported"
    BY <2>2, ConvTaken
  <2> HIDE DEF algo, answer
  <2> QED
    BY <1>0, <1>3, <2>2, <2>3, <2>4 DEF FftInv, FftAutoServed
<1> QED
  BY <1>1, <1>2, <1>3

\* Every step keeps what is said of transforms and convolutions.
LEMMA FftKept ==
  ASSUME input \in Inputs, FftInv, FftAutoServed, Next
  PROVE  FftInv' /\ FftAutoServed'
<1>1. CASE Build
  BY <1>1, FftBuild
<1>2. CASE Call
  BY <1>2, FftCall
<1>3. CASE Kernel \/ Idle
  <2>1. UNCHANGED <<input, plan, request, chosen, status>>
    BY <1>3, KernelSteps DEF Executed, Idle, callVars
  <2> QED
    BY <2>1 DEF FftInv, FftAutoServed, TiledTooMany, FftRefuses
<1>4. CASE LaunchFails
  <2>1. /\ status' = "execution_failed" /\ UNCHANGED <<input, request, chosen>>
        /\ (plan' = Nothing \/ plan' = plan)
    BY <1>4 DEF LaunchFails
  <2> QED
    BY <2>1 DEF FftInv, FftAutoServed
<1>5. CASE Return
  <2>1. /\ UNCHANGED <<input, plan, request, chosen>>
        /\ \/ status = "busy" /\ status' = "success"
           \/ status = "building" /\ status' = "none"
    BY <1>5 DEF Return
  <2> QED
    BY <2>1 DEF FftInv, FftAutoServed
<1> QED
  BY <1>1, <1>2, <1>3, <1>4, <1>5 DEF Next

\* The invariant starts and stays.
LEMMA DispatchStarts == Init => DispatchInv
BY DEF Init, DispatchInv, GemmInv, FftInv, FftAutoServed

\* Every step keeps the invariant.
LEMMA DispatchStays == DispatchInv /\ [Next]_callVars => DispatchInv'
<1> SUFFICES ASSUME DispatchInv, [Next]_callVars PROVE DispatchInv'
  OBVIOUS
<1>1. CASE Next
  <2>1. input' \in Inputs
    BY <1>1, NextKeepsInput DEF DispatchInv
  <2> QED
    BY <1>1, <2>1, GemmKept, FftKept DEF DispatchInv
<1>2. CASE UNCHANGED callVars
  <2>1. UNCHANGED <<input, plan, request, chosen, status, program, dev>>
    BY <1>2 DEF callVars
  <2>2. FftInv' /\ FftAutoServed' /\ input' \in Inputs
    BY <2>1 DEF FftInv, FftAutoServed, DispatchInv, TiledTooMany, FftRefuses
  <2>3. GemmInv'
    <3>1. ASSUME input.family = "gemm", status # "none", request.what = "gemm" PROVE Serving(request)'
      <4>1. Serving(request)
        BY <3>1 DEF DispatchInv, GemmInv
      <4>2. program' \in Seq(Launches(request))
        BY <2>1, <4>1 DEF Serving
      <4>3. /\ Outcome(request).answer = "success" => status' \in {"busy", "success", "execution_failed"}
            /\ Outcome(request).answer # "success" => status' = status /\ program' = <<>>
            /\ status' = "busy" => "own" \in DOMAIN dev' /\ DOMAIN dev'["own"] = 0 .. Outcome(request).own - 1
        BY <2>1, <4>1 DEF Serving
      <4> QED
        BY <2>1, <3>1, <4>1, <4>2, <4>3, ServingKept DEF DispatchInv
    <3> QED
      BY <2>1, <3>1 DEF DispatchInv, GemmInv
  <2> QED
    BY <2>2, <2>3 DEF DispatchInv
<1> QED
  BY <1>1, <1>2

\* It holds throughout.
LEMMA DispatchHolds == Spec => []DispatchInv
BY DispatchStarts, DispatchStays, PTL DEF Spec

\* What the invariant says of a call that is in service or was.
LEMMA InService ==
  ASSUME DispatchInv, input.family = "gemm", status # "none", request.what = "gemm"
  PROVE  /\ IsDevice(input) /\ IsDescription(request) /\ Serving(request)
         /\ \A i \in DOMAIN program : program[i] \in Launches(request)
<1>1. Serving(request)
  BY DEF DispatchInv, GemmInv
<1>2. IsDevice(input) /\ IsDescription(request)
  BY <1>1, InputTypes DEF Serving, DispatchInv
<1>3. program \in Seq(Launches(request))
  BY <1>1 DEF Serving
<1> QED
  BY <1>1, <1>2, <1>3

\* The properties follow from it.
LEMMA KeepsRoute == DispatchInv => NeverRerouted
<1> SUFFICES ASSUME DispatchInv, input.family = "gemm", status = "busy", request.what = "gemm",
                    NEW i \in DOMAIN program
             PROVE  program[i].kernel \in OwnKernels(chosen) \cup {"scal"}
  BY DEF NeverRerouted
<1>1. /\ IsDevice(input) /\ IsDescription(request) /\ Serving(request)
      /\ program[i] \in Launches(request)
  BY InService
<1> QED
  BY <1>1, Unrerouted DEF Serving

LEMMA KeepsScratch == DispatchInv => WorkspaceSuffices
<1> SUFFICES ASSUME DispatchInv, input.family = "gemm", status = "busy", request.what = "gemm"
             PROVE  /\ input.workspace >= GemmWorkspaceSize(request) => DOMAIN dev.own = {}
                    /\ \A i \in DOMAIN program :
                         program[i].kernel = "splitk_fixup" /\ program[i].planes = "workspace" =>
                           program[i].splits * request.m * request.n <= input.workspace
  BY DEF WorkspaceSuffices
<1>1. /\ IsDevice(input) /\ IsDescription(request) /\ Serving(request)
      /\ \A i \in DOMAIN program : program[i] \in Launches(request)
  BY InService
<1>2. /\ input.workspace >= GemmWorkspaceSize(request) => 0 .. Outcome(request).own - 1 = {}
      /\ \A l \in Launches(request) :
           l.kernel = "splitk_fixup" /\ l.planes = "workspace" =>
             l.splits * request.m * request.n <= input.workspace
  BY <1>1, Sufficient
<1>3. DOMAIN dev.own = 0 .. Outcome(request).own - 1
  BY <1>1 DEF Serving
<1> QED
  BY <1>1, <1>2, <1>3

LEMMA KeepsService == DispatchInv => AutoServed
<1> SUFFICES ASSUME DispatchInv PROVE AutoIsServed
  BY DEF AutoServed, DispatchInv
<1> SUFFICES ASSUME input.family = "gemm", status # "none", request.what = "gemm", request.algo = "auto",
                    Validate(request) = "success"
             PROVE  /\ status \in {"busy", "success", "execution_failed"}
                    /\ chosen = GemmPlan(request).algo
                    /\ \A i \in DOMAIN program :
                         program[i].kernel = "splitk_fixup" => program[i].splits = GemmPlan(request).splits
  BY DEF AutoIsServed
<1>1. /\ IsDevice(input) /\ IsDescription(request) /\ Serving(request)
      /\ \A i \in DOMAIN program : program[i] \in Launches(request)
  BY InService
<1>2. /\ Outcome(request).answer = "success"
      /\ Landed(request).plan.algo = GemmPlan(request).algo
      /\ \A l \in Launches(request) : l.kernel = "splitk_fixup" => l.splits = GemmPlan(request).splits
  BY <1>1, AutoServes
<1> QED
  BY <1>1, <1>2 DEF Serving

LEMMA KeepsSweep == DispatchInv => SweepHeeded
<1> SUFFICES ASSUME DispatchInv, input.family = "gemm", status = "busy", request.what = "gemm",
                    NEW i \in DOMAIN program, program[i].kernel = "tile", NEW p \in Measured(request)
             PROVE  \E q \in Measured(request) :
                      /\ input.sweep[q].tile = program[i].index
                      /\ 100 * input.sweep[q].gflops >= 95 * input.sweep[p].gflops
  BY DEF SweepHeeded
<1>1. IsDevice(input) /\ IsDescription(request) /\ program[i] \in Launches(request)
  BY InService
<1> QED
  BY <1>1, Heeded

-------------------------------------------------------------------------------
(* The theorems.                                                           *)

\* On every device, whatever is lent to the Context, and for every description: a call of
\* gemm launches the kernels of the algorithm it reports and no others, so none of the
\* fallbacks inside the rungs is ever taken.
THEOREM NeverReroutedHolds == Spec => []NeverRerouted
BY DispatchHolds, KeepsRoute, PTL

\* A Context lent what gemm_workspace_size asks for makes the split-K and stream-K drivers
\* allocate nothing, and the planes of a fixup fit the workspace it is given.
THEOREM WorkspaceSufficesHolds == Spec => []WorkspaceSuffices
BY DispatchHolds, KeepsScratch, PTL

\* kAuto of gemm serves every well formed description with the plan and the slices gemm_plan
\* reports, and the choices of FftPlan and ConvPlan are refused only for what the caller
\* named: factors, real data without its tables, too many batches for a tiled transpose.
THEOREM AutoServedHolds == Spec => []AutoServed
BY DispatchHolds, KeepsService, PTL

\* A shape of the sweep is launched on a tile measured within five percent of the best there,
\* whatever else the sweep says and in whatever order.
THEOREM SweepHeededHolds == Spec => []SweepHeeded
BY DispatchHolds, KeepsSweep, PTL
=================================================================================
