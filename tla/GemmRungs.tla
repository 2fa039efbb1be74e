-------------------------------- MODULE GemmRungs --------------------------------
(***************************************************************************)
(* The rungs of src/gemm: what each launcher enqueues, where it falls back *)
(* to another one or refuses, and what each kernel leaves in C.  The       *)
(* matrices are flat buffers with a leading dimension, as in the code, so  *)
(* an index computed wrongly reads a neighbour's element or, outside the   *)
(* buffer, NaN.  A kernel whose body is compiled out below compute         *)
(* capability 8.0 does nothing there.                                      *)
(*                                                                         *)
(* How a block walks K through shared memory is in TilePipeline, the       *)
(* split-K and stream-K drivers in SplitK and StreamK.                     *)
(***************************************************************************)
EXTENDS StreamCalls

CONSTANTS
  RegTile,      \* 128: block rows and columns of register, cp_async and mma_opt
  RegStep,      \* 8: K step of register and cp_async
  WmmaTile,     \* 64: block of wmma, mma_ptx and mma_ldm
  WmmaStep,     \* 16: their K step
  OptStep,      \* 32: K step of mma_opt
  TiledTile,    \* kTile of gemm_tiled
  VecWidth,     \* 8: halves in a 16 byte access
  Roster        \* the tile family: a sequence of records m, n, k

ASSUME RosterAssumption == Roster \in Seq([m : Nat \ {0}, n : Nat \ {0}, k : Nat \ {0}])

Family == 0 .. Len(Roster) - 1
Tile(i) == Roster[i + 1]

-------------------------------------------------------------------------------
(* A description d of a product, and where its elements are.               *)

StoredA(d) == IF d.opA = "n" THEN <<d.m, d.k>> ELSE <<d.k, d.m>>
StoredB(d) == IF d.opB = "n" THEN <<d.k, d.n>> ELSE <<d.n, d.k>>
MinLd(layout, stored) == IF layout = "row" THEN stored[2] ELSE stored[1]

ElementAt(layout, ld, i, j) == IF layout = "row" THEN i * ld + j ELSE j * ld + i
ReadOf(buffer, at) == IF at \in DOMAIN buffer THEN buffer[at] ELSE NaN

Empty(d) == d.m <= 0 \/ d.n <= 0
Divides(d, bm, bn, bk) == d.m % bm = 0 /\ d.n % bn = 0 /\ d.k % bk = 0

-------------------------------------------------------------------------------
(* The launchers: an answer, the launches, and the floats of scratch the   *)
(* driver allocates for itself.                                            *)

Enqueue(launches) == [answer |-> "success", launches |-> launches, own |-> 0]
Refuse(answer) == [answer |-> answer, launches |-> <<>>, own |-> 0]
Launch1(kernel) == Enqueue(<<[kernel |-> kernel]>>)

\* require_arch(80).
NeedsAmpere(outcome) == IF input.cc < 80 THEN Refuse("arch_mismatch") ELSE outcome

GemmNaive(d) == IF Empty(d) THEN Enqueue(<<>>) ELSE Launch1("naive")

GemmTiled(d) ==
  IF Empty(d) THEN Enqueue(<<>>) ELSE IF d.k <= 0 THEN GemmNaive(d) ELSE Launch1("tiled")

\* The K step is not looked at.
RegAlignedButK(d) == d.m % RegTile = 0 /\ d.n % RegTile = 0 /\ d.k > 0

RegAligned(d) == Divides(d, RegTile, RegTile, RegStep) /\ d.k > 0

GemmRegister(d) ==
  IF Empty(d) THEN Enqueue(<<>>) ELSE IF ~RegAligned(d) THEN GemmTiled(d) ELSE Launch1("register")

GemmCpAsync(d) ==
  IF Empty(d) THEN Enqueue(<<>>)
  ELSE IF ~RegAligned(d) THEN GemmTiled(d) ELSE NeedsAmpere(Launch1("cp_async"))

\* launch_wmma, of either type: only the fast path has an architecture floor.
WmmaAligned(d) == Divides(d, WmmaTile, WmmaTile, WmmaStep) /\ d.k > 0

GemmWmma(d) ==
  IF Empty(d) THEN Enqueue(<<>>)
  ELSE IF WmmaAligned(d) THEN NeedsAmpere(Launch1("wmma")) ELSE Launch1("half_naive")

GemmMmaPtx(d) ==
  IF Empty(d) THEN Enqueue(<<>>)
  ELSE IF ~WmmaAligned(d) THEN GemmWmma(d) ELSE NeedsAmpere(Launch1("mma_ptx"))

GemmMmaLdm(d) ==
  IF Empty(d) THEN Enqueue(<<>>)
  ELSE IF ~WmmaAligned(d) THEN GemmWmma(d) ELSE NeedsAmpere(Launch1("mma_ldm"))

\* enable_dynamic_smem and require_pair_aligned, in the order of the launchers.
OptAligned(d) == Divides(d, RegTile, RegTile, OptStep) /\ d.k > 0
OptLaunch(d, kernel) ==
  NeedsAmpere(IF ~d.pair THEN Refuse("invalid_value")
              ELSE IF ~input.smem THEN Refuse("not_supported") ELSE Launch1(kernel))

GemmMmaOpt(d) ==
  IF Empty(d) THEN Enqueue(<<>>)
  ELSE IF ~OptAligned(d) THEN GemmWmma(d) ELSE OptLaunch(d, "mma_opt")

GemmMmaOptBias(d) ==
  IF Empty(d) THEN Enqueue(<<>>)
  ELSE IF ~OptAligned(d) THEN Refuse("not_supported") ELSE OptLaunch(d, "mma_opt_bias")

GemmBiasRelu(d) == IF Empty(d) THEN Enqueue(<<>>) ELSE Launch1("bias_relu")

CutlassSupports(d) == d.n % VecWidth = 0 /\ d.k % VecWidth = 0

GemmCutlass(d) ==
  IF Empty(d) THEN Enqueue(<<>>)
  ELSE IF ~CutlassSupports(d) THEN Refuse("not_supported")
  ELSE NeedsAmpere(Launch1(IF d.k = 0 THEN "cutlass_scale" ELSE "cutlass"))

\* prepare_once, of the tile family and of stream-K: a tile whose stages no SM of
\* this device holds is refused when it is about to be launched.
Prepared(index, outcome) == IF input.bps[index] = 0 THEN Refuse("not_supported") ELSE outcome

\* tile_family_launch: the form with masked edges when the shape, the slices or
\* the address of what it stores to does not fit the tile.
TileLaunch(d, index, extent, splits, planes) ==
  LET t == Tile(index)
      whole == /\ d.k % VecWidth = 0 /\ d.n % VecWidth = 0
               /\ d.pair \/ planes # "none"
               /\ Divides(d, t.m, t.n, t.k) /\ extent % t.k = 0 /\ d.k > 0
  IN  [kernel |-> "tile", index |-> index, tail |-> ~whole, extent |-> extent,
       splits |-> splits, planes |-> planes]

PlainTiles(d, index) ==
  Enqueue(<<TileLaunch(d, index, IF d.k > 0 THEN d.k ELSE 1, 1, "none")>>)

GemmTileFamily(d, index) ==
  IF index \notin Family THEN Refuse("invalid_value")
  ELSE IF Empty(d) THEN Enqueue(<<>>) ELSE NeedsAmpere(Prepared(index, PlainTiles(d, index)))

\* The caller's scratch of size floats, or the driver's own when there is none,
\* which it frees when the tile is refused.
WithScratch(index, size, need, launches(_)) ==
  IF size = 0
  THEN Prepared(index, [answer |-> "success", launches |-> launches("own"), own |-> need])
  ELSE IF size < need THEN Refuse("invalid_value")
  ELSE Prepared(index, Enqueue(launches("workspace")))

\* gemm_split_k: slices of a whole number of K steps.
SliceExtent(k, splits, bk) ==
  IF k <= 0 THEN 1 ELSE CeilDiv(CeilDiv(k, Larger(splits, 1)), bk) * bk
SlicesUsed(k, extent) == IF k <= 0 THEN 1 ELSE CeilDiv(k, extent)
SplitKSlices(k, splits, index) == SlicesUsed(k, SliceExtent(k, splits, Tile(index).k))
SplitKWorkspace(d, splits, index) ==
  LET used == IF d.k <= 0 THEN 1 ELSE SplitKSlices(d.k, splits, index)
  IN  IF Empty(d) \/ used <= 1 THEN 0 ELSE used * d.m * d.n

GemmSplitK(d, splits, index, size) ==
  IF index \notin Family THEN Refuse("invalid_value")
  ELSE IF Empty(d) THEN Enqueue(<<>>)
  ELSE LET extent == SliceExtent(d.k, splits, Tile(index).k)
           used == SlicesUsed(d.k, extent)
           launches(scratch) == <<TileLaunch(d, index, extent, used, scratch),
                                  [kernel |-> "splitk_fixup", splits |-> used, planes |-> scratch]>>
       IN  NeedsAmpere(IF used <= 1 THEN Prepared(index, PlainTiles(d, index))
                       ELSE WithScratch(index, size, SplitKWorkspace(d, splits, index), launches))

\* gemm_stream_k: its plan as StreamK has it, a plane and a flag for each of the
\* persistent blocks.
StreamKBlocks(d, index) ==
  LET t == Tile(index)
      tiles == CeilDiv(d.m, t.m) * CeilDiv(d.n, t.n)
      occ == Larger(input.sms * input.bps[index], 1)
      skTiles == IF tiles % occ = 0 THEN 0 ELSE IF tiles > occ THEN (tiles % occ) + occ ELSE tiles
  IN  Smaller(occ, skTiles * (IF d.k > 0 THEN CeilDiv(d.k, t.k) ELSE 1))
StreamKWorkspace(d, index) ==
  IF Empty(d) THEN 0 ELSE StreamKBlocks(d, index) * (Tile(index).m * Tile(index).n + 1)

GemmStreamK(d, index, size) ==
  IF index \notin Family THEN Refuse("invalid_value")
  ELSE IF Empty(d) THEN Enqueue(<<>>)
  ELSE LET need == StreamKWorkspace(d, index)
           launches(scratch) == <<[kernel |-> "streamk", need |-> need, planes |-> scratch]>>
       IN  NeedsAmpere(IF need = 0 THEN Prepared(index, PlainTiles(d, index))
                       ELSE WithScratch(index, size, need, launches))

\* gemm_cublas and gemm_cublas_ex; an empty contraction only scales, all of C
\* at once.
GemmCublas(d) ==
  IF Empty(d) THEN Enqueue(<<>>)
  ELSE IF d.k <= 0 THEN Enqueue(<<[kernel |-> "scal", first |-> 0, count |-> d.m * d.n]>>)
  ELSE Enqueue(<<[kernel |-> "cublas", left |-> "b", right |-> "a", opl |-> "n", opr |-> "n",
                  m |-> d.n, n |-> d.m, ldl |-> d.n, ldr |-> d.k, ldc |-> d.n]>>)

\* A call that answers and enqueues as a launcher decided.
ServeRung(d, algo, outcome) ==
  Serve(d, algo, outcome.answer, outcome.launches,
        [c |-> d.c, own |-> [at \in 0 .. outcome.own - 1 |-> NaN]])

\* The launcher of a rung, with what it takes besides the operands.
Launcher(d) ==
  CASE d.algo = "naive" -> GemmNaive(d)
    [] d.algo = "tiled" -> GemmTiled(d)
    [] d.algo = "register" -> GemmRegister(d)
    [] d.algo = "cp_async" -> GemmCpAsync(d)
    [] d.algo \in {"wmma_fp16", "wmma_bf16"} -> GemmWmma(d)
    [] d.algo = "mma_ptx" -> GemmMmaPtx(d)
    [] d.algo = "mma_ldm" -> GemmMmaLdm(d)
    [] d.algo = "mma_opt" -> GemmMmaOpt(d)
    [] d.algo = "mma_opt_bias" -> GemmMmaOptBias(d)
    [] d.algo = "bias_relu" -> GemmBiasRelu(d)
    [] d.algo = "cutlass" -> GemmCutlass(d)
    [] d.algo = "tile_family" -> GemmTileFamily(d, d.index)
    [] d.algo = "split_k" -> GemmSplitK(d, d.splits, d.index, d.lent)
    [] d.algo = "stream_k" -> GemmStreamK(d, d.index, d.lent)
    [] d.algo = "cublas" -> GemmCublas(d)

\* A rung called by its own name.
CallRung(d) ==
  /\ input.family = "gemm" /\ d.what = "rung"
  /\ ServeRung(d, d.algo, Launcher(d))

-------------------------------------------------------------------------------
(* The kernels.  Row i of A times column j of B over lo .. hi - 1 of K, of *)
(* matrices that are row major and packed; a guarded load past limit is a  *)
(* zero.                                                                   *)

Inner(i, j, lo, hi, limit) ==
  SumOf([p \in lo .. hi - 1 |->
           IF p >= limit THEN 0
           ELSE Times(ReadOf(request.a, i * request.k + p), ReadOf(request.b, p * request.n + j))],
        lo, hi)

\* C with every element in the rows and columns the grid covers stored.
Covered(rows, cols, value(_, _)) ==
  [c |-> [at \in DOMAIN dev.c |->
    LET i == at \div request.n
        j == at % request.n
    IN  IF i < rows /\ j < cols THEN value(i, j) ELSE dev.c[at]]]

\* The epilogues: alpha and beta, or the bias of the column and the ReLU.
Blended(i, j, sum) == Blend(request.alpha, sum, request.beta, dev.c[i * request.n + j])
Relu(j, v) == LET w == Plus(v, request.bias[j]) IN IF w = NaN THEN NaN ELSE Larger(w, 0)
Biased(i, j, sum) == Relu(j, Times(request.alpha, sum))

\* One thread to an element, and nothing outside C.
PerElement(depth) ==
  Execute(Covered(request.m, request.n,
    LAMBDA i, j : Blended(i, j, Inner(i, j, 0, depth, request.k))))

\* A block to bm by bn elements, nothing guarded: no block covers a ragged edge,
\* and the last step along K reads what lies there.
Blocks(bm, bn, depth, epilogue(_, _, _)) ==
  Covered((request.m \div bm) * bm, (request.n \div bn) * bn,
          LAMBDA i, j : epilogue(i, j, Inner(i, j, 0, depth, depth)))

Steps(bk) == CeilDiv(request.k, bk) * bk        \* for (kk = 0; kk < k; kk += kBK)
WholeSteps(bk) == (request.k \div bk) * bk      \* k / kBK times

\* A body behind __CUDA_ARCH__ >= 800.
Ampere(written) == Execute(IF input.cc < 80 THEN <<>> ELSE written)

NaiveKernel == Launched("naive") /\ PerElement(request.k)
HalfNaiveKernel == Launched("half_naive") /\ PerElement(request.k)
TiledKernel == Launched("tiled") /\ PerElement(CeilDiv(request.k, TiledTile) * TiledTile)

RegisterKernel ==
  Launched("register") /\ Execute(Blocks(RegTile, RegTile, Steps(RegStep), Blended))
CpAsyncKernel ==
  Launched("cp_async") /\ Ampere(Blocks(RegTile, RegTile, WholeSteps(RegStep), Blended))
WmmaKernel ==
  Launched("wmma") /\ Ampere(Blocks(WmmaTile, WmmaTile, Steps(WmmaStep), Blended))
MmaPtxKernel ==
  Launched("mma_ptx") /\ Ampere(Blocks(WmmaTile, WmmaTile, Steps(WmmaStep), Blended))
MmaLdmKernel ==
  Launched("mma_ldm") /\ Ampere(Blocks(WmmaTile, WmmaTile, Steps(WmmaStep), Blended))
MmaOptKernel ==
  \/ Launched("mma_opt") /\ Ampere(Blocks(RegTile, RegTile, WholeSteps(OptStep), Blended))
  \/ Launched("mma_opt_bias") /\ Ampere(Blocks(RegTile, RegTile, WholeSteps(OptStep), Biased))

BiasReluKernel ==
  /\ Launched("bias_relu")
  /\ Execute(Covered(request.m, request.n, LAMBDA i, j : Relu(j, dev.c[i * request.n + j])))

\* A slice of K to a grid of tiles: into C, or raw into the slice's plane.
TileWritten(launch) ==
  LET t == Tile(launch.index)
      rows == IF launch.tail THEN request.m ELSE (request.m \div t.m) * t.m
      cols == IF launch.tail THEN request.n ELSE (request.n \div t.n) * t.n
      sum(i, j, lo) ==
        LET stop == Smaller(lo + launch.extent, request.k)
            depth == lo + CeilDiv(stop - lo, t.k) * t.k
        IN  Inner(i, j, lo, depth, IF launch.tail THEN stop ELSE depth)
      count == request.m * request.n
      raw(at) == LET e == at % count
                 IN  sum(e \div request.n, e % request.n, (at \div count) * launch.extent)
  IN  IF launch.planes = "none"
      THEN Covered(rows, cols, LAMBDA i, j : Blended(i, j, sum(i, j, 0)))
      ELSE [b \in {launch.planes} |->
              [at \in DOMAIN dev[b] |-> IF at < launch.splits * count THEN raw(at) ELSE dev[b][at]]]

TileKernel == Launched("tile") /\ Ampere(TileWritten(Head(program)))

SplitKFixupKernel ==
  /\ Launched("splitk_fixup")
  /\ LET launch == Head(program)
         part(s, i, j) == ReadOf(dev[launch.planes], (s * request.m + i) * request.n + j)
     IN  Execute(Covered(request.m, request.n, LAMBDA i, j : Blended(i, j,
           SumOf([s \in 0 .. launch.splits - 1 |-> part(s, i, j)], 0, launch.splits))))

\* What StreamK shows of it, given memory for its planes and flags.
StreamKKernel ==
  /\ Launched("streamk")
  /\ LET fits == Cardinality(DOMAIN dev[Head(program).planes]) >= Head(program).need
         whole(i, j) == Inner(i, j, 0, request.k, request.k)
     IN  Ampere(Covered(request.m, request.n,
           LAMBDA i, j : IF fits THEN Blended(i, j, whole(i, j)) ELSE NaN))

\* The vendors' kernels.
CutlassKernel == Launched("cutlass") /\ PerElement(request.k)
CutlassScaleKernel ==
  /\ Launched("cutlass_scale")
  /\ Execute(Covered(request.m, request.n, LAMBDA i, j : Blended(i, j, 0)))

\* A column major product of two of the operands, batch by batch.
CublasKernel ==
  /\ Launched("cublas")
  /\ LET p == Head(program)
         elem(operand, op, ld, q, i, j) ==
           ReadOf(request[operand], q * request.stride[operand]
                                      + (IF op = "n" THEN j * ld + i ELSE i * ld + j))
         sum(q, i, j) ==
           SumOf([e \in 0 .. request.k - 1 |-> Times(elem(p.left, p.opl, p.ldl, q, i, e),
                                                     elem(p.right, p.opr, p.ldr, q, e, j))],
                 0, request.k)
         q(at) == IF request.batch = 1 THEN 0 ELSE at \div request.stride["c"]
         i(at) == (at - q(at) * request.stride["c"]) % p.ldc
         j(at) == (at - q(at) * request.stride["c"]) \div p.ldc
     IN  Execute([c |-> [at \in DOMAIN dev.c |->
           IF i(at) < p.m /\ j(at) < p.n
             THEN Blend(request.alpha, sum(q(at), i(at), j(at)), request.beta, dev.c[at])
             ELSE dev.c[at]]])

\* cublasSscal, or a memset when beta is zero, over count floats of C.
ScalKernel ==
  /\ Launched("scal")
  /\ LET s == Head(program) IN
     Execute([c |-> [at \in DOMAIN dev.c |->
       IF s.first <= at /\ at < s.first + s.count
         THEN Blend(request.alpha, 0, request.beta, dev.c[at]) ELSE dev.c[at]]])

GemmKernel ==
  \/ NaiveKernel \/ HalfNaiveKernel \/ TiledKernel \/ RegisterKernel \/ CpAsyncKernel
  \/ WmmaKernel \/ MmaPtxKernel \/ MmaLdmKernel \/ MmaOptKernel \/ BiasReluKernel
  \/ TileKernel \/ SplitKFixupKernel \/ StreamKKernel \/ CutlassKernel \/ CutlassScaleKernel
  \/ CublasKernel \/ ScalKernel

-------------------------------------------------------------------------------
\* What C is to hold after the request d: alpha op(A) op(B) + beta C in the
\* elements of the product, or the epilogue with the bias, and what was there
\* between the rows and between the matrices of a batch.
ProductOf(d) ==
  LET elem(operand, op, ld, q, i, j) ==
        d[operand][q * d.stride[operand] + (IF op = "n" THEN ElementAt(d.layout, ld, i, j) ELSE ElementAt(d.layout, ld, j, i))]
      sum(q, i, j) ==
        SumOf([p \in 0 .. d.k - 1 |-> Times(elem("a", d.opA, d.lda, q, i, p), elem("b", d.opB, d.ldb, q, p, j))],
              0, d.k)
      value(at) ==
        LET q == IF d.stride["c"] = 0 THEN 0 ELSE at \div d.stride["c"]
            r == at - q * d.stride["c"]
            i == IF d.layout = "row" THEN r \div d.ldc ELSE r % d.ldc
            j == IF d.layout = "row" THEN r % d.ldc ELSE r \div d.ldc
        IN  IF i >= d.m \/ j >= d.n THEN d.c[at]
            ELSE IF d.algo = "bias_relu" THEN Larger(d.c[at] + d.bias[j], 0)
            ELSE IF d.algo = "mma_opt_bias" THEN Larger(Times(d.alpha, sum(q, i, j)) + d.bias[j], 0)
            ELSE Blend(d.alpha, sum(q, i, j), d.beta, d.c[at])
  IN  [at \in DOMAIN d.c |-> value(at)]
===============================================================================
