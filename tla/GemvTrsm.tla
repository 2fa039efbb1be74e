--------------------------------- MODULE GemvTrsm ---------------------------------
(***************************************************************************)
(* The matrix vector product of src/gemv and the triangular solve of       *)
(* src/trsm: free functions that keep nothing between calls.  Matrices are *)
(* row major, packed and flat.                                             *)
(***************************************************************************)
EXTENDS StreamCalls

CONSTANTS
  Lanes,       \* lanes of a warp
  FloatVec,    \* floats in a float4
  TrsmBlock    \* kBS of trsm_blocked

BuildDense ==
  /\ input.family = "dense"
  /\ Construct([family |-> "dense"], [y |-> <<>>, b |-> <<>>])

-------------------------------------------------------------------------------
(* y = alpha A x + beta y.                                                 *)

\* Ragged rows are left to the vector kernel.
GemvAsNamed(req) == req.algo

\* gemv_vectorized leaves rows that are no whole number of vectors to gemv_warp.
GemvRung(req) ==
  IF req.algo = "vectorized" /\ req.n % FloatVec # 0 THEN "warp" ELSE req.algo

\* The launchers; the vendor's product refuses an empty row.
CallGemv(req) ==
  LET algo == GemvRung(req)
      kernel == IF algo = "cublas" /\ req.n <= 0 THEN "gemv_scal" ELSE "gemv_" \o algo
  IN  /\ input.family = "dense" /\ req.what = "gemv"
      /\ Serve(req, req.algo, "success", IF req.m <= 0 THEN <<>> ELSE <<[kernel |-> kernel]>>,
               [y |-> req.y])

\* The products of row r, by column.
RowProducts(r) == [j \in 0 .. request.n - 1 |-> Times(request.a[r * request.n + j], request.x[j])]

StoreY(sum(_)) ==
  Execute([y |-> [r \in 0 .. request.m - 1 |->
             Blend(request.alpha, sum(r), request.beta, dev.y[r])]])

GemvNaiveKernel == Launched("gemv_naive") /\ StoreY(LAMBDA r : SumOf(RowProducts(r), 0, request.n))

\* A warp to a row; lane l takes the columns l, l + Lanes, ..., and a shuffle adds
\* the lanes up.
GemvWarpKernel ==
  /\ Launched("gemv_warp")
  /\ LET lane(r, l) == SumOver(RowProducts(r), {j \in 0 .. request.n - 1 : j % Lanes = l})
     IN  StoreY(LAMBDA r : SumOf([l \in 0 .. Lanes - 1 |-> lane(r, l)], 0, Lanes))

\* The same with vectors of columns: n / 4 of them.
GemvVectorizedKernel ==
  /\ Launched("gemv_vectorized")
  /\ LET taken(l) == {j \in 0 .. (request.n \div FloatVec) * FloatVec - 1 :
                        (j \div FloatVec) % Lanes = l}
         lane(r, l) == SumOver(RowProducts(r), taken(l))
     IN  StoreY(LAMBDA r : SumOf([l \in 0 .. Lanes - 1 |-> lane(r, l)], 0, Lanes))

GemvCublasKernel == Launched("gemv_cublas") /\ StoreY(LAMBDA r : SumOf(RowProducts(r), 0, request.n))
GemvScalKernel == Launched("gemv_scal") /\ StoreY(LAMBDA r : 0)

-------------------------------------------------------------------------------
(* A X = alpha B for a lower triangular A, X over B.                       *)

\* trsm_blocked: B scaled unless alpha is one, then block after block of rows
\* solved, and what it contributes taken off the rows below.
BlockLaunches(req) ==
  LET blocks == CeilDiv(req.m, TrsmBlock)
      height(k) == Smaller(req.m - k, TrsmBlock)
      step[s \in 0 .. blocks] ==
        IF s = 0 THEN IF req.alpha = 1 THEN <<>> ELSE <<[kernel |-> "trsm_scale"]>>
        ELSE LET k == (s - 1) * TrsmBlock
                 launch(kernel) == [kernel |-> kernel, k |-> k, kb |-> height(k)]
             IN  step[s - 1] \o <<launch("trsm_solve")>>
                   \o (IF req.m > k + height(k) THEN <<launch("trsm_update")>> ELSE <<>>)
  IN  step[blocks]

CallTrsm(req) ==
  LET launches == IF req.algo = "blocked" THEN BlockLaunches(req)
                  ELSE <<[kernel |-> "trsm_" \o req.algo]>>
  IN  /\ input.family = "dense" /\ req.what = "trsm"
      /\ Serve(req, req.algo, "success", IF req.m <= 0 \/ req.n <= 0 THEN <<>> ELSE launches,
               [b |-> req.b])

\* Quotients that are exact; nothing else comes up in a solve that is right.
Quotient(s, d) == IF s = NaN \/ d = NaN \/ d <= 0 THEN NaN ELSE IF s % d # 0 THEN NaN ELSE s \div d

Entry(i, j) == request.a[i * request.m + j]
Cell(i, col) == i * request.n + col

\* Forward substitution of rows lo .. hi - 1 in one column of B, by one thread: x
\* of a row needs those above it.
Substitute(lo, hi, alpha, col) ==
  LET x[i \in lo .. hi - 1] ==
        Quotient(Plus(Times(alpha, dev.b[Cell(i, col)]),
                      Times(-1, SumOf([j \in lo .. i - 1 |-> Times(Entry(i, j), x[j])], lo, i))),
                 Entry(i, i))
  IN  x

SolveRows(lo, hi, alpha) ==
  LET solved == [col \in 0 .. request.n - 1 |-> Substitute(lo, hi, alpha, col)]
  IN  Execute([b |-> [at \in DOMAIN dev.b |->
        LET i == at \div request.n
        IN  IF lo <= i /\ i < hi THEN solved[at % request.n][i] ELSE dev.b[at]]])

TrsmNaiveKernel == Launched("trsm_naive") /\ SolveRows(0, request.m, request.alpha)

TrsmScaleKernel ==
  /\ Launched("trsm_scale")
  /\ Execute([b |-> [at \in DOMAIN dev.b |-> Times(request.alpha, dev.b[at])]])

TrsmSolveKernel ==
  /\ Launched("trsm_solve")
  /\ LET block == Head(program) IN SolveRows(block.k, block.k + block.kb, 1)

TrsmUpdateKernel ==
  /\ Launched("trsm_update")
  /\ LET k == Head(program).k
         stop == k + Head(program).kb
         taken(i, col) == SumOf([j \in k .. stop - 1 |-> Times(Entry(i, j), dev.b[Cell(j, col)])], k, stop)
     IN  Execute([b |-> [at \in DOMAIN dev.b |->
           IF at \div request.n < stop THEN dev.b[at]
           ELSE Plus(dev.b[at], Times(-1, taken(at \div request.n, at % request.n)))]])

\* cublasStrsm from the right with an upper triangle: the same, read by columns.
TrsmCublasKernel == Launched("trsm_cublas") /\ SolveRows(0, request.m, request.alpha)

DenseKernel ==
  \/ GemvNaiveKernel \/ GemvWarpKernel \/ GemvVectorizedKernel \/ GemvCublasKernel
  \/ GemvScalKernel \/ TrsmNaiveKernel \/ TrsmScaleKernel \/ TrsmSolveKernel
  \/ TrsmUpdateKernel \/ TrsmCublasKernel

-------------------------------------------------------------------------------
(* Property.                                                               *)

\* Every rung of both leaves what it promises: an old y is not read when beta is
\* zero, the triangle above the diagonal is not read at all, and A X is alpha B.
DenseExact ==
  input.family = "dense" /\ status = "success" =>
    IF request.what = "gemv"
    THEN \A r \in 0 .. request.m - 1 :
           dev.y[r] = Blend(request.alpha, SumOf(RowProducts(r), 0, request.n), request.beta, request.y[r])
    ELSE \A i \in 0 .. request.m - 1, col \in 0 .. request.n - 1 :
           SumOf([j \in 0 .. i |-> Times(Entry(i, j), dev.b[Cell(j, col)])], 0, i + 1)
             = Times(request.alpha, request.b[Cell(i, col)])
===============================================================================
