------------------------------- MODULE MCLibrary -------------------------------
(* A library in miniature: warps of four lanes, blocks of a few elements, and *)
(* for each family the inputs and requests where its cases change.            *)
EXTENDS Library

-------------------------------------------------------------------------------
(* Sparse products.                                                        *)

\* The matrix whose row r has its nonzeros in the columns of rows[r + 1].
Csr(rows, n) ==
  LET m == Len(rows)
      ptr[r \in 0 .. m] == IF r = 0 THEN 0 ELSE ptr[r - 1] + Len(rows[r])
      row(k) == CHOOSE r \in 0 .. m - 1 : ptr[r] <= k /\ k < ptr[r + 1]
  IN  [m |-> m, n |-> n, ptr |-> ptr,
       col |-> [k \in 0 .. ptr[m] - 1 |-> rows[row(k) + 1][k - ptr[row(k)] + 1]],
       val |-> [k \in 0 .. ptr[m] - 1 |-> IF k % 3 = 2 THEN -1 ELSE 2 ^ k]]

\* Short, empty and long rows, with duplicates and columns out of order.
Patterns == {<<>>, <<0>>, <<2>>, <<1, 1>>, <<0, 2>>, <<2, 0, 1, 0, 2>>}
Tall == Csr(<<<<0, 1, 2, 3, 3>>, <<>>, <<>>, <<1>>, <<>>>>, 4)
Matrices ==
  {Csr(rows, 3) : rows \in UNION {[1 .. m -> Patterns] : m \in 0 .. 3}}
    \cup {Csr(rows, 1) : rows \in [1 .. 2 -> {<<>>, <<0>>}]} \cup {Tall, Csr(<<<<>>>>, 0)}

Option(sigma, dim, width, builds) ==
  [sigma |-> sigma, block_dim |-> dim, build_sell |-> builds, build_bsr |-> builds, vector_width |-> width]
SpmvIn(a, opt) == [family |-> "spmv", calls |-> 1, a |-> a, opt |-> opt]
SpmvInputs ==
  {SpmvIn(a, Option(0, 0, 0, TRUE)) : a \in Matrices}
    \cup {SpmvIn(a, o) : a \in {Tall, Csr(<<<<0, 1>>, <<0, 1>>, <<2>>>>, 3)},
            o \in {Option(1, 2, 2, TRUE), Option(2, 3, 3, TRUE), Option(0, 1, 9, TRUE), Option(0, 0, 0, FALSE)}}

SpmvRequests(in) ==
  {[algo |-> g, alpha |-> 2, beta |-> b, null |-> z,
    x |-> [c \in 0 .. in.a.n - 1 |-> IF c = 1 /\ w THEN NaN ELSE 100 * c + 1],
    y |-> [r \in 0 .. in.a.m - 1 |-> IF b = 0 THEN NaN ELSE 1000 * r]] :
     g \in {"auto", "csr_naive", "csr_warp", "csr_vector", "merge", "sell", "bsr", "cusparse"},
     b \in {0, 1}, w \in BOOLEAN, z \in {FALSE}}
    \cup {[algo |-> "auto", alpha |-> 2, beta |-> 1, null |-> TRUE,
           x |-> [c \in 0 .. in.a.n - 1 |-> 1], y |-> [r \in 0 .. in.a.m - 1 |-> r]]}

-------------------------------------------------------------------------------
(* Scans.                                                                  *)

ScanIn(n, t, d, c, most) ==
  [family |-> "scan", calls |-> most, n |-> n, dtype |-> t, deterministic |-> d, build_cub |-> c]
ScanInputs ==
  {ScanIn(n, "f32", d, TRUE, IF n < 40 THEN 2 ELSE 1) : n \in {0, 1, 7, 8, 9, 16, 17, 65}, d \in BOOLEAN}
    \cup {ScanIn(17, "i64", FALSE, FALSE, 1), ScanIn(257, "f32", FALSE, FALSE, 1)}

\* The longest input has three levels of wide tiles.
ScanRequests(in) ==
  {[what |-> "scan", algo |-> g, op |-> "last_non_zero", exclusive |-> e, in_place |-> p, null |-> FALSE] :
     g \in IF in.n > 100 THEN {"three_kernel", "reduce_then_scan"}
            ELSE {"auto", "hillis_steele", "blelloch", "three_kernel", "reduce_then_scan", "lookback", "cub"},
     e \in BOOLEAN, p \in BOOLEAN}
    \cup {[what |-> w, algo |-> g, op |-> o, exclusive |-> FALSE, in_place |-> FALSE, null |-> z] :
            w \in {"scan", "reduce"}, g \in IF in.n > 100 THEN {"cub"} ELSE {"auto", "cub"}, o \in {"sum", "last_non_zero"}, z \in BOOLEAN}

-------------------------------------------------------------------------------
(* Transforms and convolutions.                                            *)

Fft(n, batch, real, n1, t) ==
  [family |-> "fft", calls |-> IF n < 8 THEN 2 ELSE 1, n |-> n, batch |-> batch,
   build_real |-> real, four_step_n1 |-> n1, transpose |-> t]
FftInputs ==
  {Fft(n, b, TRUE, 0, "tiled_padded") : n \in {2, 4, 8, 16}, b \in {1, 2}}
    \cup {Fft(16, 1, FALSE, n1, "naive") : n1 \in {2, 3, 8, 16}}
    \cup {Fft(32, b, FALSE, n1, "naive") : b \in {1, 2}, n1 \in {0, 2, 4}}
    \cup {Fft(32, 1, TRUE, 0, "naive"), Fft(3, 1, TRUE, 0, "naive"), Fft(64, 1, TRUE, 0, "naive"),
          Fft(4, 0, TRUE, 0, "naive")}

FftAlgos == {"auto", "radix2_global", "radix4_global", "radix8_global", "shared_resident", "four_step", "cufft"}
FftRequests(in) ==
  LET len == in.n * in.batch
      request_(w, g, s, d, a, z) ==
        [what |-> w, algo |-> g, sign |-> s, data |-> d, aliased |-> a, null |-> z]
      x == [i \in 0 .. 2 * len - 1 |-> (i * i * i + 5 * i + 1) % Prime]
      bins == [i \in 0 .. (in.n + 1) * in.batch - 1 |->
                 RealBins(Part(x, i \div (in.n + 1), 2 * in.n), in.n)[i % (in.n + 1)]]
      z == [i \in 0 .. len - 1 |-> <<x[2 * i], x[2 * i + 1]>>]
  IN  {request_("fft", g, s, z, FALSE, FALSE) : g \in FftAlgos, s \in {1, -1}}
        \cup {request_("fft", "auto", 1, z, TRUE, FALSE), request_("fft", "auto", 1, z, FALSE, TRUE)}
        \cup (IF 2 * in.n > MaxLength THEN {}
              ELSE {request_("r2c", g, 1, x, FALSE, FALSE) : g \in FftAlgos}
                     \cup {request_("c2r", g, 1, bins, FALSE, FALSE) @@ [real |-> x] : g \in FftAlgos})

Fft2d(r, c, t) == [family |-> "fft2d", calls |-> 1, rows |-> r, cols |-> c, transpose |-> t]
Fft2dInputs ==
  {Fft2d(r, c, t) : r \in {2, 4, 8}, c \in {2, 8}, t \in {"naive", "tiled_padded", "strided_shared"}}
    \cup {Fft2d(16, 2, "naive")}
Fft2dRequests(in) ==
  {[algo |-> "named", sign |-> s, aliased |-> a, null |-> z,
    data |-> [i \in 0 .. in.rows * in.cols - 1 |-> <<(3 * i * i + 1) % Prime, (i + 7) % Prime>>]] :
     s \in {1, -1}, a \in BOOLEAN, z \in BOOLEAN}

ConvIn(n, m, g, null, most) ==
  [family |-> "conv", calls |-> most, n |-> n, m |-> m, fft_algo |-> g, null |-> null,
   filter |-> [t \in 0 .. m - 1 |-> (t * t + 3) % Prime]]
ConvInputs ==
  {ConvIn(n, m, g, FALSE, IF n * m < 20 THEN 2 ELSE 1) : n \in {1, 5, 12}, m \in {0, 1, 3, 9}, g \in FftAlgos}
    \cup {ConvIn(30, 9, "auto", FALSE, 1), ConvIn(5, 3, "auto", TRUE, 1)}
ConvRequests(in) ==
  {[algo |-> g, null |-> z, data |-> [i \in 0 .. in.n - 1 |-> (i * i + 2 * i + 1) % Prime]] :
     g \in {"auto", "fft_separate", "fft_fused", "direct_shared", "direct_constant", "cufft"}, z \in BOOLEAN}

-------------------------------------------------------------------------------
(* Dense products.                                                         *)

Values(len, seed) == [at \in 0 .. len - 1 |-> ((at * 5 + seed * at * at) % 7) - 3]

\* An operand with pad elements after each of its lines, which are NaN, as all of
\* it is when it is not to be read.
Operand(layout, stored, pad, batch, seed, unread) ==
  LET ld == MinLd(layout, stored) + pad
      lines == IF layout = "row" THEN stored[1] ELSE stored[2]
      len == Larger(batch, 1) * ld * lines
  IN  [ld |-> ld, stride |-> IF batch > 1 THEN ld * lines ELSE 0,
       data |-> [at \in 0 .. len - 1 |->
                   IF unread \/ at % ld >= ld - pad THEN NaN ELSE Values(len, seed)[at]]]

Desc(what, algo, form, m, n, k, dtype, beta, null, pair) ==
  LET shape == [opA |-> form.opA, opB |-> form.opB, m |-> m, n |-> n, k |-> k]
      a == Operand(form.layout, StoredA(shape), form.pad, form.batch, 1, FALSE)
      b == Operand(form.layout, StoredB(shape), form.pad, form.batch, 2, FALSE)
      c == Operand(form.layout, <<m, n>>, form.pad, form.batch, 3, beta = 0)
  IN  shape @@ [what |-> what, algo |-> algo, layout |-> form.layout, batch |-> form.batch,
        dtype |-> dtype, alpha |-> 2, beta |-> beta, null |-> null, pair |-> pair,
        lda |-> a.ld, ldb |-> b.ld, ldc |-> c.ld,
        stride |-> [a |-> a.stride, b |-> b.stride, c |-> c.stride],
        a |-> a.data, b |-> b.data, c |-> c.data]

Form == [layout : {"row", "col"}, opA : {"n", "t"}, opB : {"n", "t"}, pad : {0, 1}, batch : {1, 2}]
Packed == [layout |-> "row", opA |-> "n", opB |-> "n", pad |-> 0, batch |-> 1]

Named == {"naive", "tiled", "register", "cp_async", "wmma_fp16", "wmma_bf16", "mma_ptx", "mma_ldm",
          "mma_opt", "cutlass", "tile_family", "split_k", "stream_k", "cublas"}
Shapes == {<<1, 1, 1>>, <<0, 4, 4>>, <<4, 4, 0>>, <<2, 2, 4>>, <<2, 4, 6>>, <<4, 4, 2>>, <<4, 8, 8>>,
           <<3, 5, 3>>, <<4, 4, 5>>, <<4, 4, 16>>, <<8, 8, 8>>}

GemmRequests ==
  {Desc("gemm", g, Packed, s[1], s[2], s[3], t, b, {}, TRUE) :
     g \in Named \cup {"auto"}, s \in Shapes, t \in {"f32", "f16", "bf16"}, b \in {0, 1, 3}}
    \cup {Desc("gemm", g, f, 2, 3, k, "f32", 3, {}, TRUE) :
            g \in {"auto", "cublas", "naive"}, f \in Form, k \in {0, 2}}
    \cup {Desc("gemm", g, Packed, 4, 4, k, t, 0, z, p) :
            g \in {"auto", "mma_opt", "tile_family"}, k \in {0, 8}, t \in {"f16", "f16_out", "mixed"},
            z \in {{}, {"scalar"}, {"c"}, {"b"}}, p \in BOOLEAN}
    \cup {[Desc("gemm", g, Packed, 2, 2, 2, "f32", 0, {}, TRUE) EXCEPT ![f] = v] :
            g \in {"auto", "naive"}, f \in {"m", "batch", "ldb"}, v \in {-1, 0, 1}}

\* What a rung takes besides a description: the tile, the splits, the scratch lent
\* to it, a bias.
Direct(desc, index, splits, lent) ==
  desc @@ [index |-> index, splits |-> splits, lent |-> lent, bias |-> [j \in 0 .. 8 |-> 3 * j - 10]]
RungRequests ==
  {Direct(Desc("rung", g, Packed, s[1], s[2], s[3], "f16", b, {}, TRUE), 0, 2, 0) :
     g \in Named \cup {"mma_opt_bias"}, s \in Shapes, b \in {0, 3}}
    \cup {Direct(Desc("rung", "bias_relu", Packed, s[1], s[2], s[3], "f16", 3, {}, TRUE), 0, 2, 0) : s \in Shapes}
    \cup {Direct(Desc("rung", g, Packed, 4, 4, 8, "f16", 0, {}, FALSE), i, 3, w) :
            g \in {"mma_opt", "mma_opt_bias", "tile_family", "split_k", "stream_k"},
            i \in {0, 2, 7}, w \in {0, 5}}

\* A sweep with rows of other kernels, rows that are overwritten, an unreadable
\* row, and a shape that is near none that is called.
Swept(t, m, n, k, g) == [tile |-> t, m |-> m, n |-> n, k |-> k, gflops |-> g]
Sweep ==
  <<Swept(0, 4, 4, 16, 100), Swept(1, 4, 4, 16, 80), Swept(-1, 4, 4, 16, 300), Swept(2, 4, 8, 8, 90),
    Swept(2, 4, 4, 16, 50), Swept(1, 4, 8, 8, 10), Swept(1, 4, 4, 16, 120), Swept(0, 4, 8, 8, 89),
    Swept(0, 0, 4, 4, 99), Swept(0, 16, 16, 1, 70)>>

Device(cc, sms, bps, smem, lent, sweep, most) ==
  [family |-> "gemm", calls |-> most, cc |-> cc, sms |-> sms, smem |-> smem, workspace |-> lent,
   sweep |-> sweep, bps |-> [i \in 0 .. 2 |-> bps[i + 1]]]
GemmInputs ==
  {Device(75, 2, <<1, 2, 1>>, TRUE, 0, <<>>, 1), Device(86, 0, <<1, 1, 1>>, TRUE, 0, <<>>, 1),
   Device(86, 2, <<0, 0, 0>>, FALSE, 0, <<>>, 1), Device(86, 1, <<1, 2, 1>>, TRUE, 40, <<>>, 1),
   Device(120, 4, <<1, 2, 1>>, TRUE, 40, <<>>, 1), Device(120, 3, <<2, 1, 1>>, TRUE, 1000, <<>>, 1),
   Device(120, 3, <<2, 1, 1>>, TRUE, 1000, Sweep, 1), Device(120, 1, <<2, 1, 0>>, TRUE, 0, Sweep, 1),
   Device(120, 4, <<1, 1, 1>>, TRUE, 100, <<>>, 2)}

\* Two calls on one Context use its workspace one after the other.
SharingRequests ==
  {Desc("gemm", g, Packed, s[1], s[2], s[3], "f16", 3, {}, TRUE) :
     g \in {"auto", "split_k", "stream_k"}, s \in {<<4, 4, 16>>, <<2, 4, 6>>, <<3, 5, 16>>}}

\* The triangle above the diagonal is NaN; b is a x.
Triangle(m) ==
  [at \in 0 .. m * m - 1 |->
     LET i == at \div m
         j == at % m
     IN  IF j > i THEN NaN ELSE IF i = j THEN 1 + (i % 3) ELSE ((i * 2 + j * j) % 5) - 2]
Image(a, x, m, n) ==
  [at \in 0 .. m * n - 1 |->
     LET i == at \div n
     IN  SumOf([j \in 0 .. i |-> Times(a[i * m + j], x[j * n + (at % n)])], 0, i + 1)]
DenseRequests ==
  {[what |-> "gemv", algo |-> g, m |-> m, n |-> n, alpha |-> 2, beta |-> b, a |-> Values(m * n, 1),
    x |-> Values(n, 2), y |-> [r \in 0 .. m - 1 |-> IF b = 0 THEN NaN ELSE r + 1]] :
     g \in {"naive", "warp", "vectorized", "cublas"}, m \in {0, 1, 3}, n \in {0, 1, 4, 5, 10, 12}, b \in {0, 2}}
    \cup {[what |-> "trsm", algo |-> g, m |-> m, n |-> n, alpha |-> al, a |-> Triangle(m),
           b |-> Image(Triangle(m), Values(m * n, 2), m, n)] :
            g \in {"naive", "blocked", "cublas"}, m \in {0, 1, 2, 3, 5}, n \in {0, 1, 2}, al \in {1, -2}}

-------------------------------------------------------------------------------
MCInputs ==
  SpmvInputs \cup ScanInputs \cup FftInputs \cup Fft2dInputs \cup ConvInputs \cup GemmInputs
    \cup {[family |-> "dense", calls |-> 1]}

MCRequests(in) ==
  CASE in.family = "spmv" -> SpmvRequests(in)
    [] in.family = "scan" -> ScanRequests(in)
    [] in.family = "fft" -> FftRequests(in)
    [] in.family = "fft2d" -> Fft2dRequests(in)
    [] in.family = "conv" -> ConvRequests(in)
    [] in.family = "gemm" /\ in.calls = 2 -> SharingRequests
    [] in.family = "gemm" /\ in.calls # 2 -> GemmRequests \cup RungRequests
    [] in.family = "dense" -> DenseRequests

MCOmega == <<2, 11>>
MCRoster == <<[m |-> 4, n |-> 4, k |-> 4], [m |-> 2, n |-> 4, k |-> 4], [m |-> 4, n |-> 2, k |-> 8]>>
MCRefTile == MCRoster[1]

\* 100 log2 of 1 .. 16.
MCLogarithm == <<0, 100, 158, 200, 232, 258, 281, 300, 317, 332, 346, 358, 370, 381, 391, 400>>
===============================================================================
