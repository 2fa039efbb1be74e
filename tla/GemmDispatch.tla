------------------------------ MODULE GemmDispatch -------------------------------
(***************************************************************************)
(* ckl::gemm and its planning entry points, of src/api/dispatch.cpp: the   *)
(* algorithm kAuto resolves to, the tile of the family with its K split,   *)
(* what is refused, the vendor path, and the workspace of the Context.     *)
(* The device is described by input: cc, sms, whether it grants the big    *)
(* shared memory (smem), and the blocks of each tile an SM holds (bps).    *)
(* So is the workspace lent to the Context, in floats, and the committed   *)
(* tile sweep, a sequence of its rows with unreadable ones left out.       *)
(***************************************************************************)
EXTENDS GemmRungs

CONSTANTS
  SmallLimit, LargeLimit,    \* 128 and 512: sizes that pick an FP32 rung
  RefTile,                   \* the reference tile, 128 by 128 by 32
  MinStepsPerSplit,          \* kMinStepsPerSplit
  Logarithm                  \* of every size, to some scale

ASSUME StepsAssumption == MinStepsPerSplit \in Nat \ {0}
\* The code takes the logarithm of the quotient of two sizes as doubles: zero for
\* equal sizes only.
ASSUME LogarithmAssumption ==
  /\ \A s \in DOMAIN Logarithm : Logarithm[s] \in Int
  /\ \A s, t \in DOMAIN Logarithm : Logarithm[s] = Logarithm[t] => s = t

NoTile == -1
GemmPlanOf(algo) == [algo |-> algo, index |-> NoTile, splits |-> 1]
Vendor == GemmPlanOf("cublas")

\* The Context: what it keeps for gemm is the workspace.
BuildContext ==
  /\ input.family = "gemm"
  /\ Construct([family |-> "gemm"],
               [c |-> <<>>, own |-> <<>>, workspace |-> [at \in 0 .. input.workspace - 1 |-> NaN]])

-------------------------------------------------------------------------------
(* What an algorithm takes.                                                *)

HandKernelShape(d) ==
  /\ d.layout = "row" /\ d.opA = "n" /\ d.opB = "n" /\ d.batch = 1
  /\ d.lda = MinLd("row", StoredA(d)) /\ d.ldb = MinLd("row", StoredB(d)) /\ d.ldc = d.n

InTileFamily(algo) == algo \in {"tile_family", "split_k", "stream_k"}

\* The tile family is forgotten.
RequiredCcOfNamed(algo) ==
  IF algo \in {"cp_async", "wmma_fp16", "wmma_bf16", "mma_ptx", "mma_ldm", "mma_opt", "cutlass"}
  THEN 80 ELSE 0

RequiredCc(algo) ==
  IF \/ InTileFamily(algo)
     \/ algo \in {"cp_async", "wmma_fp16", "wmma_bf16", "mma_ptx", "mma_ldm", "mma_opt", "cutlass"}
  THEN 80 ELSE 0

\* The element type alone decides.
TakesByType(algo, d) ==
  /\ HandKernelShape(d)
  /\ d.dtype = IF algo \in {"naive", "tiled", "register", "cp_async"} THEN "f32"
               ELSE IF algo = "wmma_bf16" THEN "bf16" ELSE "f16"

\* why_not is empty.
Takes(algo, d) ==
  /\ HandKernelShape(d)
  /\ CASE algo \in {"naive", "tiled"} -> d.dtype = "f32"
       [] algo \in {"register", "cp_async"} ->
            d.dtype = "f32" /\ Divides(d, RegTile, RegTile, RegStep)
       [] algo = "wmma_bf16" -> d.dtype = "bf16" /\ Divides(d, WmmaTile, WmmaTile, WmmaStep)
       [] algo \in {"wmma_fp16", "mma_ptx", "mma_ldm"} ->
            d.dtype = "f16" /\ Divides(d, WmmaTile, WmmaTile, WmmaStep)
       [] algo = "mma_opt" -> d.dtype = "f16" /\ Divides(d, RegTile, RegTile, OptStep)
       [] algo = "cutlass" -> d.dtype = "f16" /\ CutlassSupports(d)
       [] OTHER -> d.dtype = "f16"

-------------------------------------------------------------------------------
(* The tile sweep.  A row has a tile of the family, or -1 for another      *)
(* kernel's, a shape and a throughput.                                     *)

Readable(row) == row.tile \in Family /\ row.m > 0 /\ row.n > 0 /\ row.k > 0 /\ row.gflops > 0
ShapeOf(row) == <<row.m, row.n, row.k>>

\* The types of a description, a row of the sweep and a device.
HandAlgos ==
  {"naive", "tiled", "register", "cp_async", "wmma_fp16", "wmma_bf16", "mma_ptx", "mma_ldm", "mma_opt",
   "cutlass", "tile_family", "split_k", "stream_k"}
HasLogarithms(sizes) == \A s \in sizes : s > 0 => s \in DOMAIN Logarithm

IsDescription(d) ==
  /\ d.m \in Int /\ d.n \in Int /\ d.k \in Int /\ d.batch \in Int
  /\ d.algo \in HandAlgos \cup {"cublas", "auto"}
  /\ HasLogarithms({d.m, d.n, d.k})

SweepRow == [tile : Int, m : Int, n : Int, k : Int, gflops : Int]
IsDevice(in) ==
  /\ in.cc \in Int /\ in.sms \in Int /\ in.workspace \in Nat /\ in.bps \in [Family -> Nat]
  /\ in.sweep \in Seq(SweepRow)
  /\ \A p \in DOMAIN in.sweep : HasLogarithms({in.sweep[p].m, in.sweep[p].n, in.sweep[p].k})

\* parse_sweep: the rows that name a shape first, in the order of the file, and
\* what the last row for it says of a tile; -1 when there is none.
SweptRows ==
  {p \in DOMAIN input.sweep :
     /\ Readable(input.sweep[p])
     /\ \A q \in 1 .. p - 1 :
          Readable(input.sweep[q]) => ShapeOf(input.sweep[q]) # ShapeOf(input.sweep[p])}

\* The first row for a tile stays.
GflopsFirst(p, tile) ==
  LET rows == {q \in DOMAIN input.sweep :
                 /\ Readable(input.sweep[q]) /\ input.sweep[q].tile = tile
                 /\ ShapeOf(input.sweep[q]) = ShapeOf(input.sweep[p])}
  IN  IF rows = {} THEN -1 ELSE input.sweep[CHOOSE q \in rows : \A r \in rows : q <= r].gflops

Gflops(p, tile) ==
  LET rows == {q \in DOMAIN input.sweep :
                 /\ Readable(input.sweep[q]) /\ input.sweep[q].tile = tile
                 /\ ShapeOf(input.sweep[q]) = ShapeOf(input.sweep[p])}
  IN  IF rows = {} THEN -1 ELSE input.sweep[CHOOSE q \in rows : \A r \in rows : r <= q].gflops

\* nearest_swept, 0 for none: the first of the nearest; everything is equally
\* far from an empty product.
NearestSwept(d) ==
  LET away(p) ==
        LET diff(x, y) == (Logarithm[x] - Logarithm[y]) * (Logarithm[x] - Logarithm[y])
            row == input.sweep[p]
        IN  IF d.m = 0 \/ d.n = 0 \/ d.k = 0 THEN 0
            ELSE diff(d.m, row.m) + diff(d.n, row.n) + diff(d.k, row.k)
  IN  IF SweptRows = {} THEN 0
      ELSE CHOOSE p \in SweptRows :
             \A q \in SweptRows : away(p) < away(q) \/ (away(p) = away(q) /\ p <= q)

-------------------------------------------------------------------------------
(* The tile, and how its grid is to be filled.                             *)

TilesOf(d, i) == CeilDiv(d.m, Tile(i).m) * CeilDiv(d.n, Tile(i).n)
Slots(i) == input.sms * input.bps[i]
Reference == {i \in Family : Tile(i) = RefTile}

\* wave_quantization: is the last wave of tile i fuller than that of tile j?
\* A grid of no tiles has a score of zero.
Fuller(d, i, j) ==
  LET waves(t) == CeilDiv(TilesOf(d, t), Slots(t))
      used(t) == TilesOf(d, t)
      offered(t) == IF used(t) = 0 THEN 1 ELSE waves(t) * Slots(t)
  IN  used(i) * offered(j) - used(j) * offered(i)

Area(i) == Tile(i).m * Tile(i).n

\* choose_tile: within five percent of the best measured at the nearest shape p;
\* with no measurement, the reference tile for a deep grid; then the fullest
\* last wave, then the larger tile, then the first.
TileGiven(p, d) ==
  LET hosted == {i \in Family : input.bps[i] > 0}
      deep == {i \in Reference \cap hosted : TilesOf(d, i) >= 2 * Slots(i)}
      fast == {i \in hosted : \A j \in Family : 100 * Gflops(p, i) >= 95 * Gflops(p, j)}
      candidates == IF p = 0 THEN hosted ELSE fast
      first(i, j) == \/ Fuller(d, i, j) > 0
                     \/ Fuller(d, i, j) = 0 /\ Area(i) > Area(j)
                     \/ Fuller(d, i, j) = 0 /\ Area(i) = Area(j) /\ i <= j
  IN  IF input.sms <= 0 THEN NoTile
      ELSE IF p = 0 /\ deep # {} THEN CHOOSE i \in deep : TRUE
      ELSE IF candidates = {} THEN NoTile
      ELSE CHOOSE i \in candidates : \A j \in candidates : first(i, j)

ChooseTile(d) == TileGiven(NearestSwept(d), d)

SplitCountFor(d, i) ==
  LET want == Smaller(Slots(i) \div TilesOf(d, i), CeilDiv(d.k, Tile(i).k) \div MinStepsPerSplit)
  IN  IF d.k <= 0 \/ TilesOf(d, i) = 0 \/ want < 2 THEN 1 ELSE SplitKSlices(d.k, want, i)

\* plan_tile_family, on the tile chosen.
PlanTileFamily(d, i) ==
  IF i = NoTile THEN Vendor
  ELSE IF TilesOf(d, i) >= Slots(i) THEN [algo |-> "tile_family", index |-> i, splits |-> 1]
  ELSE IF SplitCountFor(d, i) >= 2
       THEN [algo |-> "split_k", index |-> i, splits |-> SplitCountFor(d, i)]
  ELSE [algo |-> "stream_k", index |-> i, splits |-> 1]

\* pick_auto.
PickAuto(d) ==
  LET sizes == {d.m, d.n, d.k} IN
  IF ~HandKernelShape(d) \/ d.k <= 0 THEN Vendor
  ELSE IF d.dtype = "f16" THEN PlanTileFamily(d, ChooseTile(d))
  ELSE IF d.dtype = "bf16" /\ Divides(d, WmmaTile, WmmaTile, WmmaStep) THEN GemmPlanOf("wmma_bf16")
  ELSE IF /\ d.dtype = "f32"
          /\ \A s \in sizes : s >= LargeLimit
          /\ Divides(d, RegTile, RegTile, RegStep) THEN GemmPlanOf("cp_async")
  ELSE IF d.dtype = "f32" /\ \A s \in sizes : s <= SmallLimit THEN GemmPlanOf("naive")
  ELSE Vendor

\* plan_named, on the tile chosen.
NamedOn(d, i) ==
  LET wanted == SplitCountFor(d, i)
      splits == IF d.algo # "split_k" THEN 1
                ELSE IF wanted >= 2 THEN wanted ELSE SplitKSlices(d.k, 2, i)
  IN  IF ~InTileFamily(d.algo) \/ ~HandKernelShape(d) \/ d.dtype # "f16" THEN GemmPlanOf(d.algo)
      ELSE IF i = NoTile THEN GemmPlanOf(d.algo)
      ELSE [algo |-> d.algo, index |-> i, splits |-> splits]
PlanNamed(d) == NamedOn(d, ChooseTile(d))

\* gemm_plan, and gemm_query with the detail dropped.
Hosted(p) == IF input.cc < RequiredCc(p.algo) THEN Vendor ELSE p
GemmPlan(d) == Hosted(PickAuto(d))

WorkspaceOf(d, p) ==
  IF d.m <= 0 \/ d.n <= 0 \/ d.k <= 0 \/ p.index = NoTile THEN 0
  ELSE CASE p.algo = "split_k" -> SplitKWorkspace(d, p.splits, p.index)
         [] p.algo = "stream_k" -> StreamKWorkspace(d, p.index)
         [] OTHER -> 0

\* kAuto is asked about as if it were a named algorithm.
WorkspaceOfNamed(d) == WorkspaceOf(d, PlanNamed(d))

GemmWorkspaceSize(d) ==
  WorkspaceOf(d, IF d.algo = "auto" THEN GemmPlan(d) ELSE PlanNamed(d))

-------------------------------------------------------------------------------
(* The call.                                                               *)

\* validate, in its order; null says which pointers are, f16_out and mixed are
\* element types that no rung has.
Validate(d) ==
  IF \/ \E s \in {d.m, d.n, d.k, d.batch - 1} : s < 0
     \/ "scalar" \in d.null
     \/ d.lda < MinLd(d.layout, StoredA(d)) \/ d.ldb < MinLd(d.layout, StoredB(d))
     \/ d.ldc < MinLd(d.layout, <<d.m, d.n>>)
     \/ /\ d.m > 0 /\ d.n > 0
        /\ d.null \cap (IF d.k > 0 THEN {"a", "b", "c"} ELSE {"c"}) # {}
  THEN "invalid_value"
  ELSE IF d.dtype \in {"f16_out", "mixed"} THEN "not_supported" ELSE "success"

\* scale_c, of the first matrix of a batch: row by row, or column by column.
ScaleC(d) ==
  LET lead == IF d.layout = "row" THEN d.n ELSE d.m
      other == IF d.layout = "row" THEN d.m ELSE d.n
  IN  IF d.beta = 1 THEN Enqueue(<<>>)
      ELSE Enqueue([i \in 1 .. other |-> [kernel |-> "scal", first |-> (i - 1) * d.ldc, count |-> lead]])

\* run_cublas: a row major product is the column major product of the
\* transposes, each operand keeping its own op.
RunCublas(d) ==
  LET a == [operand |-> "a", op |-> d.opA, ld |-> d.lda]
      b == [operand |-> "b", op |-> d.opB, ld |-> d.ldb]
      product(l, r, m, n) ==
        [kernel |-> "cublas", left |-> l.operand, opl |-> l.op, ldl |-> l.ld,
         right |-> r.operand, opr |-> r.op, ldr |-> r.ld, m |-> m, n |-> n, ldc |-> d.ldc]
  IN  IF d.k = 0 THEN ScaleC(d)
      ELSE IF d.layout = "row" THEN Enqueue(<<product(b, a, d.n, d.m)>>)
      ELSE Enqueue(<<product(a, b, d.m, d.n)>>)

\* run_hand_kernel: the Context's workspace when it is big enough.
RunHandKernel(p, d) ==
  LET lent(need) == IF input.workspace >= need THEN input.workspace ELSE 0 IN
  CASE p.algo = "naive" -> GemmNaive(d)
    [] p.algo = "tiled" -> GemmTiled(d)
    [] p.algo = "register" -> GemmRegister(d)
    [] p.algo = "cp_async" -> GemmCpAsync(d)
    [] p.algo \in {"wmma_fp16", "wmma_bf16"} -> GemmWmma(d)
    [] p.algo = "mma_ptx" -> GemmMmaPtx(d)
    [] p.algo = "mma_ldm" -> GemmMmaLdm(d)
    [] p.algo = "mma_opt" -> GemmMmaOpt(d)
    [] p.algo = "cutlass" -> GemmCutlass(d)
    [] p.algo = "tile_family" -> GemmTileFamily(d, p.index)
    [] p.algo \in {"split_k", "stream_k"} /\ p.index = NoTile -> Refuse("invalid_value")
    [] p.algo = "split_k" /\ p.index # NoTile ->
         GemmSplitK(d, p.splits, p.index, lent(SplitKWorkspace(d, p.splits, p.index)))
    [] p.algo = "stream_k" /\ p.index # NoTile ->
         GemmStreamK(d, p.index, lent(StreamKWorkspace(d, p.index)))

\* Where a call that aims at a plan lands: kAuto may choose again, a named
\* algorithm is refused.
Landing(d, aim) ==
  LET again(answer) ==
        IF d.algo = "auto" THEN [plan |-> Vendor, answer |-> "success"]
                           ELSE [plan |-> aim, answer |-> answer]
  IN  IF Validate(d) # "success" THEN [plan |-> aim, answer |-> Validate(d)]
      ELSE IF aim.algo = "cublas" THEN [plan |-> aim, answer |-> "success"]
      ELSE IF d.batch > 1 THEN again("not_supported")
      ELSE IF ~Takes(aim.algo, d) THEN [plan |-> aim, answer |-> "not_supported"]
      ELSE IF input.cc < RequiredCc(aim.algo) THEN again("arch_mismatch")
      ELSE [plan |-> aim, answer |-> "success"]

Run(d, landing) ==
  IF landing.answer # "success" THEN Refuse(landing.answer)
  ELSE IF d.m = 0 \/ d.n = 0 THEN Enqueue(<<>>)
  ELSE IF landing.plan.algo = "cublas" THEN RunCublas(d)
  ELSE IF d.k = 0 THEN ScaleC(d)
  ELSE RunHandKernel(landing.plan, d)

\* gemm.
CallGemm(d) ==
  /\ input.family = "gemm" /\ d.what = "gemm"
  /\ \E landing \in {Landing(d, IF d.algo = "auto" THEN PickAuto(d) ELSE PlanNamed(d))} :
       ServeRung(d, landing.plan.algo, Run(d, landing))

-------------------------------------------------------------------------------
(* Properties.                                                             *)

\* Whatever rung a call lands on, directly or through ckl::gemm, and whichever
\* scratch it uses, C ends up as the description says, down to the elements
\* between its rows.  An empty batched product only scales the first matrix.
GemmExact ==
  input.family = "gemm" /\ status = "success" =>
    \/ dev.c = ProductOf(request)
    \/ request.k = 0 /\ request.batch > 1

\* What dispatch.cpp:755 and the tests on an empty K say of it, for a batch:
\* every matrix of the batch is beta times what it was.
EmptyScalesAll ==
  input.family = "gemm" /\ status = "success" /\ request.what = "gemm" /\ request.k = 0 =>
    dev.c = ProductOf(request)

\* The kernels a rung is made of, besides the scaling of an empty product.
OwnKernels(algo) ==
  CASE algo = "wmma_fp16" -> {"wmma"}
    [] algo = "wmma_bf16" -> {"wmma"}
    [] algo = "tile_family" -> {"tile"}
    [] algo = "split_k" -> {"tile", "splitk_fixup"}
    [] algo = "stream_k" -> {"tile", "streamk"}
    [] OTHER -> {algo}

\* The rungs fall back to one another on shapes they cannot take, and ckl::gemm
\* never gets there: what it launches is the algorithm it reported.
NeverRerouted ==
  input.family = "gemm" /\ status = "busy" /\ request.what = "gemm" =>
    \A i \in DOMAIN program : program[i].kernel \in OwnKernels(chosen) \cup {"scal"}

\* kAuto serves every description that is well formed, on every device, and runs
\* what gemm_plan says, with as many slices of K.
AutoIsServed ==
  input.family = "gemm" /\ status # "none" /\ request.what = "gemm" /\ request.algo = "auto" =>
    \/ Validate(request) # "success"
    \/ /\ status \in {"busy", "success", "execution_failed"}
       /\ LET p == GemmPlan(request)
          IN  /\ chosen = p.algo
              /\ \A i \in DOMAIN program :
                   program[i].kernel = "splitk_fixup" => program[i].splits = p.splits

\* A Context lent as much as gemm_workspace_size asks for spares its calls the
\* allocation, and no call is given a workspace too small for it.
WorkspaceSuffices ==
  input.family = "gemm" /\ status = "busy" /\ request.what = "gemm" =>
    /\ input.workspace >= GemmWorkspaceSize(request) => DOMAIN dev.own = {}
    /\ \A i \in DOMAIN program :
         program[i].kernel = "splitk_fixup" /\ program[i].planes = "workspace" =>
           program[i].splits * request.m * request.n <= input.workspace

\* The last readable rows of the sweep for a tile at the shape of d.
Measured(d) ==
  {p \in DOMAIN input.sweep :
     LET row == input.sweep[p]
         same(q) == /\ Readable(input.sweep[q])
                    /\ input.sweep[q].tile = row.tile /\ ShapeOf(input.sweep[q]) = ShapeOf(row)
     IN  /\ Readable(row) /\ ShapeOf(row) = <<d.m, d.n, d.k>>
         /\ \A q \in p + 1 .. Len(input.sweep) : ~same(q)}

\* A shape that was swept runs on a tile measured within five percent of the best
\* there, whatever the order of the rows and the other shapes in the file.
SweepHeeded ==
  input.family = "gemm" /\ status = "busy" /\ request.what = "gemm" =>
    \A i \in DOMAIN program : program[i].kernel = "tile" =>
      \A p \in Measured(request) : \E q \in Measured(request) :
        /\ input.sweep[q].tile = program[i].index
        /\ 100 * input.sweep[q].gflops >= 95 * input.sweep[p].gflops
===============================================================================
