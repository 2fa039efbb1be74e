-------------------------------- MODULE FftPlan --------------------------------
(***************************************************************************)
(* The transforms of src/fft: FftPlan with its five rungs, the transforms  *)
(* of real data over them, Fft2dPlan, and ConvPlan, which transforms a     *)
(* signal, multiplies, and transforms back.                                *)
(*                                                                         *)
(* The arithmetic is exact.  A float is a residue modulo Prime and a       *)
(* float2 a pair of them, with i * i = -1; exp(-2 pi i / MaxLength) is     *)
(* Omega, a root of unity whose conjugate is its inverse, so that every    *)
(* identity the code relies on holds and a wrong index shows.  Rounding,   *)
(* and the fast twiddles that differ in rounding only, are left out.       *)
(***************************************************************************)
EXTENDS StreamCalls

CONSTANTS
  Prime, Omega,
  MaxLength,          \* kMaxLength, the longest transform
  SharedMax,          \* kSharedResidentMax
  MaxGridZ,           \* the batches a tiled transpose can carry, 65535
  ConvTile, ConvChunk,    \* kTile and kChunk of the direct kernels
  MaxConstantTaps,        \* kMaxConstantTaps
  MinConvLength,          \* the shortest transform of a convolution, 16
  DramRoof, Fp32Roof      \* kDramRoofBytesPerSecond, kFp32RoofFlopsPerSecond

Zero == <<0, 0>>
Residue(v) == v % Prime
Mod(z) == <<Residue(z[1]), Residue(z[2])>>
Junk(a, b) == NaN \in {a, b}
CAdd(a, b) == IF Junk(a, b) THEN NaN ELSE Mod(<<a[1] + b[1], a[2] + b[2]>>)
CSub(a, b) == IF Junk(a, b) THEN NaN ELSE Mod(<<a[1] - b[1], a[2] - b[2]>>)
CMul(a, b) == IF Junk(a, b) THEN NaN
              ELSE Mod(<<a[1] * b[1] - a[2] * b[2], a[1] * b[2] + a[2] * b[1]>>)
CScale(a, s) == CMul(a, <<s, 0>>)
Conj(a) == IF a = NaN THEN NaN ELSE Mod(<<a[1], -a[2]>>)
Reciprocal(v) == CHOOSE r \in 1 .. Prime - 1 : Residue(r * v) = 1
Half == Reciprocal(2)
Exponent == 0 .. 24
IsPower(v) == \E k \in Exponent : v = 2 ^ k
Log2(v) == CHOOSE k \in Exponent : 2 ^ k >= v /\ (k = 0 \/ 2 ^ (k - 1) < v)

OmegaPower[k \in 0 .. MaxLength] == IF k = 0 THEN <<1, 0>> ELSE CMul(OmegaPower[k - 1], Omega)
\* exp(-2 pi i k / n)
Root(n, k) == OmegaPower[(MaxLength \div n) * (k % n)]

ASSUME FftAssumption ==
  /\ IsPower(MaxLength) /\ MaxLength >= 8 /\ IsPower(SharedMax)
  /\ OmegaPower[MaxLength] = <<1, 0>>
  /\ CMul(Omega, Conj(Omega)) = <<1, 0>>
  /\ Root(4, 1) = Mod(<<0, -1>>)
  /\ Root(8, 1)[2] = Residue(-Root(8, 1)[1])

-------------------------------------------------------------------------------
(* Twiddles, butterflies and stages.  sign is 1 forward and -1 inverse.    *)

\* TwiddleTable: the table of length n is the product of a coarse and a fine one.
Turned(z, sign) == IF sign = 1 THEN z ELSE Conj(z)
Twiddle(n, k, sign) ==
  LET fine == 2 ^ ((Log2(n) + 1) \div 2)
      coarse == n \div fine
  IN  Turned(CMul(Root(coarse, k \div fine), Root(n, k % fine)), sign)

\* s * i * z
CMulI(z, s) == CMul(z, Mod(<<0, s>>))

Dft2(u) == <<CAdd(u[1], u[2]), CSub(u[1], u[2])>>
Dft4(u, sign) ==
  LET t0 == CAdd(u[1], u[3])
      t1 == CSub(u[1], u[3])
      t2 == CAdd(u[2], u[4])
      it3 == CMulI(CSub(u[2], u[4]), -sign)
  IN  <<CAdd(t0, t2), CAdd(t1, it3), CSub(t0, t2), CSub(t1, it3)>>
Dft8(u, sign) ==
  LET e == Dft4(<<u[1], u[3], u[5], u[7]>>, sign)
      o == Dft4(<<u[2], u[4], u[6], u[8]>>, sign)
      root == Root(8, 1)[1]
      w == << <<1, 0>>, Mod(<<root, -root * sign>>), Mod(<<0, -sign>>), Mod(<<-root, -root * sign>>)>>
      p == [m \in 1 .. 4 |-> CMul(o[m], w[m])]
  IN  [m \in 1 .. 8 |-> IF m <= 4 THEN CAdd(e[m], p[m]) ELSE CSub(e[m - 4], p[m - 4])]
Butterfly(radix, u, sign) ==
  CASE radix = 2 -> Dft2(u) [] radix = 4 -> Dft4(u, sign) [] radix = 8 -> Dft8(u, sign)

\* One Stockham stage on one transform of length n: place d of the destination is
\* output d \div p % radix of the butterfly that read at j.
Stage(radix, src, n, p, sign) ==
  LET span == n \div radix
      read(j) == [r \in 1 .. radix |->
        CMul(src[j + (r - 1) * span], Twiddle(n, (r - 1) * (j % p) * (span \div p), sign))]
  IN  [d \in 0 .. n - 1 |->
         Butterfly(radix, read((d \div (p * radix)) * p + (d % p)), sign)[((d \div p) % radix) + 1]]

\* The stages of radix 2 of a transform that stays in shared memory.
Resident(src, n, sign) ==
  LET stage[k \in 0 .. Log2(n)] ==
        IF k = 0 THEN src ELSE Stage(2, stage[k - 1], n, 2 ^ (k - 1), sign)
  IN  stage[Log2(n)]

\* fft_ladder: the radices of the stages, the narrow one first.
Copies(radix, count) == [i \in 1 .. count |-> radix]
Ladder(bits, widest) ==
  CASE widest = 8 -> (CASE bits % 3 = 1 -> <<2>> [] bits % 3 = 2 -> <<4>> [] OTHER -> <<>>)
                       \o Copies(8, bits \div 3)
    [] widest = 4 -> Copies(2, bits % 2) \o Copies(4, bits \div 2)
    [] OTHER -> Copies(2, bits)

-------------------------------------------------------------------------------
(* FftPlan: its factors, what it refuses, the launches of a rung.          *)

\* factor_four_step: the exponent of n1, or -1 when the form is refused.
FourStepP1(n, named) == IF named # 0 THEN Log2(named) ELSE (Log2(n) + 1) \div 2
FourStepInvalid(n, named) ==
  /\ Log2(n) >= 4
  /\ named # 0
  /\ \/ ~IsPower(named) \/ n % named # 0
     \/ FourStepP1(n, named) < 1 \/ Log2(n) - FourStepP1(n, named) < 1
FourStepHeld(n, named) ==
  /\ Log2(n) >= 4
  /\ 2 ^ FourStepP1(n, named) <= SharedMax
  /\ n \div 2 ^ FourStepP1(n, named) <= SharedMax

\* What a plan keeps of a transform: n1 = 0 when it has no four step form.
Transform(n, batch, named, transpose) ==
  LET n1 == IF FourStepHeld(n, named) THEN 2 ^ FourStepP1(n, named) ELSE 0
  IN  [n |-> n, batch |-> batch, n1 |-> n1, n2 |-> IF n1 = 0 THEN 0 ELSE n \div n1,
       transpose |-> transpose]

\* Every length that does not stay in shared memory has a four step form of the
\* default factors.
ASSUME FourStepAssumption ==
  /\ SharedMax \in Nat /\ MaxLength \in Nat
  /\ \A n \in SharedMax + 1 .. MaxLength : IsPower(n) => Transform(n, 1, 0, "naive").n1 # 0

Radices == {"radix2_global", "radix4_global", "radix8_global"}
Widest(algo) == CASE algo = "radix2_global" -> 2 [] algo = "radix4_global" -> 4 [] OTHER -> 8

\* FftPlan::query
FftQuery(t) == IF t.n <= SharedMax THEN "shared_resident" ELSE "four_step"
FftRefuses(t, algo) ==
  \/ algo = "shared_resident" /\ t.n > SharedMax
  \/ algo = "four_step" /\ t.n1 = 0

\* Passes over the data, what the traffic model charges a rung with.
Passes(t, algo) ==
  CASE algo \in Radices -> Len(Ladder(Log2(t.n), Widest(algo)))
    [] algo = "shared_resident" -> 1
    [] algo = "four_step" -> 5
    [] OTHER -> 0

NoFilter == "none"     \* no spectrum is multiplied in on the way out

SharedLaunch(src, dst, n, batch, sign, mul, scale) ==
  [kernel |-> "shared", src |-> src, dst |-> dst, n |-> n, batch |-> batch, sign |-> sign,
   stride |-> 1, apart |-> n, cross |-> 0, mul |-> mul, scale |-> scale]
TransposeLaunch(src, dst, rows, cols, batch, mul, scale) ==
  [kernel |-> "transpose", src |-> src, dst |-> dst, rows |-> rows, cols |-> cols, batch |-> batch,
   mul |-> mul, scale |-> scale]

\* The buffers alternate from the source on, and the last stage lands where it may.
LandsForward(i, stages, src, dst) ==
  IF i = 0 THEN src ELSE IF i % 2 = 1 THEN dst ELSE "work"

\* The last stage has to land in dst, so the stages alternate backwards from it.
Lands(i, stages, src, dst) ==
  IF i = 0 THEN src ELSE IF (stages - i) % 2 = 0 THEN dst ELSE "work"

LadderLaunches(t, algo, src, dst, sign) ==
  LET radix == Ladder(Log2(t.n), Widest(algo))
      stages == Len(radix)
      lands(i) == Lands(i, stages, src, dst)
      p[i \in 1 .. stages] == IF i = 1 THEN 1 ELSE p[i - 1] * radix[i - 1]
  IN  [i \in 1 .. stages |->
         [kernel |-> "stage", radix |-> radix[i], src |-> lands(i - 1), dst |-> lands(i),
          n |-> t.n, batch |-> t.batch, p |-> p[i], sign |-> sign]]

\* in is an n2 by n1 matrix; its transpose has the transforms of length n2 for
\* rows, the second transpose those of length n1, the third orders the result.
FourStepLaunches(t, src, dst, sign, mul, scale) ==
  << TransposeLaunch(src, dst, t.n2, t.n1, t.batch, NoFilter, 1),
     [SharedLaunch(dst, "work", t.n2, t.batch * t.n1, sign, NoFilter, 1) EXCEPT !.cross = t.n1],
     TransposeLaunch("work", dst, t.n1, t.n2, t.batch, NoFilter, 1),
     SharedLaunch(dst, "work", t.n1, t.batch * t.n2, sign, NoFilter, 1),
     TransposeLaunch("work", dst, t.n2, t.n1, t.batch, mul, scale) >>

\* run_epilogue
FftLaunches(t, algo, src, dst, sign, mul, scale) ==
  CASE algo \in Radices -> LadderLaunches(t, algo, src, dst, sign)
    [] algo = "shared_resident" -> <<SharedLaunch(src, dst, t.n, t.batch, sign, mul, scale)>>
    [] algo = "four_step" -> FourStepLaunches(t, src, dst, sign, mul, scale)
    [] algo = "cufft" -> <<[kernel |-> "cufft", src |-> src, dst |-> dst, sign |-> sign]>>
TiledTooMany(t, algo) == algo = "four_step" /\ t.transpose # "naive" /\ t.batch > MaxGridZ

Blank(n) == [i \in 0 .. n - 1 |-> NaN]

\* FftPlan::Impl::build
BuildFft ==
  /\ input.family = "fft"
  /\ LET n == input.n
         size == n * input.batch
     IN  IF ~IsPower(n) \/ n < 2 \/ n > MaxLength \/ input.batch < 1 \/ FourStepInvalid(n, input.four_step_n1)
         THEN Refused("invalid_value")
         ELSE IF input.build_real /\ 2 * n > MaxLength THEN Refused("not_supported")
         ELSE Construct([family |-> "fft",
                         t |-> Transform(n, input.batch, input.four_step_n1, input.transpose)],
                        ("work" :> Blank(size)) @@
                        (IF input.build_real THEN [real_a |-> Blank(size), real_b |-> Blank(size)]
                         ELSE <<>>))

\* A part of a buffer.
Part(buf, b, n) == [i \in 0 .. n - 1 |-> buf[b * n + i]]

\* 2n reals are read as n complex numbers.
PackedReals(src) == [d \in DOMAIN dev.real_a |-> <<src[2 * d], src[2 * d + 1]>>]

\* Bin k of the even and of the odd samples, from bins k and n - k of the packed,
\* and the packed from the n + 1 bins.
EvenBin(z, zn) == CScale(CAdd(z, Conj(zn)), Half)
DiffBin(z, zn) == CScale(CSub(z, Conj(zn)), Half)
PackedBins(src, n) ==
  LET packed(x, k) == CAdd(EvenBin(x[k], x[n - k]),
                           CMulI(CMul(DiffBin(x[k], x[n - k]), Twiddle(2 * n, k, -1)), 1))
  IN  [d \in DOMAIN dev.real_a |-> packed(Part(src, d \div n, n + 1), d % n)]

\* fft, fft_r2c and fft_c2r: the transform of complex data may not be in place; one
\* of real data goes through the scratch of the plan, and is packed into it before
\* the rung is looked at.
CallFft(req) ==
  LET t == plan.t
      algo == IF req.algo = "auto" THEN FftQuery(t) ELSE req.algo
      invalid == req.null \/ (req.what = "fft" /\ req.aliased)
      unbuilt == req.what # "fft" /\ ~input.build_real
      refused == FftRefuses(t, algo) \/ TiledTooMany(t, algo)
      answer == IF invalid THEN "invalid_value"
                ELSE IF unbuilt \/ refused THEN "not_supported" ELSE "success"
      packed == IF invalid \/ unbuilt \/ ~refused \/ req.what = "fft" THEN <<>>
                ELSE [real_a |-> IF req.what = "r2c" THEN PackedReals(req.data)
                                                     ELSE PackedBins(req.data, t.n)]
      run == FftLaunches(t, algo, IF req.what = "fft" THEN "in" ELSE "real_a",
                         IF req.what = "fft" THEN "out" ELSE "real_b",
                         IF req.what = "r2c" THEN 1 ELSE IF req.what = "c2r" THEN -1 ELSE req.sign,
                         NoFilter, 1)
      step(kernel) == <<[kernel |-> kernel, n |-> t.n, batch |-> t.batch]>>
  IN  /\ input.family = "fft"
      /\ plan # Nothing
      /\ Serve(req, algo, answer,
               CASE req.what = "fft" -> run
                 [] req.what = "r2c" -> step("pack_real") \o run \o step("r2c_untangle")
                 [] req.what = "c2r" -> step("c2r_pack") \o run \o step("unpack_real"),
               [in |-> req.data, out |-> <<>>] @@ packed)

-------------------------------------------------------------------------------
(* Fft2dPlan.                                                              *)

BuildFft2d ==
  /\ input.family = "fft2d"
  /\ LET extent == {input.rows, input.cols} IN
     IF \E e \in extent : ~IsPower(e) \/ e < 2 \/ e > SharedMax THEN Refused("invalid_value")
     ELSE Construct([family |-> "fft2d"], [work |-> Blank(input.rows * input.cols)])

\* fft2d: the rows, then the columns, which are read in place when the transposes
\* are left out.
CallFft2d(req) ==
  LET rows == input.rows
      cols == input.cols
      byRow == SharedLaunch("in", "work", cols, rows, req.sign, NoFilter, 1)
      byColumn == [SharedLaunch("work", "out", rows, cols, req.sign, NoFilter, 1)
                     EXCEPT !.stride = cols, !.apart = 1]
  IN  /\ input.family = "fft2d"
      /\ Serve(req, input.transpose, IF req.null \/ req.aliased THEN "invalid_value" ELSE "success",
               IF input.transpose = "strided_shared" THEN <<byRow, byColumn>>
               ELSE << byRow,
                       TransposeLaunch("work", "out", rows, cols, 1, NoFilter, 1),
                       SharedLaunch("out", "work", rows, cols, req.sign, NoFilter, 1),
                       TransposeLaunch("work", "out", cols, rows, 1, NoFilter, 1) >>,
               [in |-> req.data, out |-> <<>>])

-------------------------------------------------------------------------------
(* The kernels.                                                            *)

Epilogue(v, mul, i, scale) ==
  LET w == IF mul = NoFilter THEN v ELSE CMul(v, dev[mul][i])
  IN  IF scale = 1 THEN w ELSE CScale(w, scale)

StageKernel ==
  /\ Launched("stage")
  /\ LET k == Head(program)
         result == [b \in 0 .. k.batch - 1 |-> Stage(k.radix, Part(dev[k.src], b, k.n), k.n, k.p, k.sign)]
     IN  Execute(k.dst :> [d \in 0 .. k.n * k.batch - 1 |-> result[d \div k.n][d % k.n]])

\* One block per transform: elements of one lie stride apart, transforms apart.
SharedKernel ==
  /\ Launched("shared")
  /\ LET k == Head(program)
         load(b) == [i \in 0 .. k.n - 1 |-> dev[k.src][b * k.apart + i * k.stride]]
         stored(b, i) ==
           LET v == Resident(load(b), k.n, k.sign)[i]
           IN  IF k.cross = 0 THEN Epilogue(v, k.mul, i, k.scale)
               ELSE CMul(v, Twiddle(k.n * k.cross, (b % k.cross) * i, k.sign))
     IN  Execute(k.dst :> [d \in 0 .. k.n * k.batch - 1 |->
                             stored((d \div k.apart) % k.batch, (d \div k.stride) % k.n)])

TransposeKernel ==
  /\ Launched("transpose")
  /\ LET k == Head(program)
         elems == k.rows * k.cols
         from(d) == (d \div elems) * elems + ((d % elems) % k.rows) * k.cols + (d % elems) \div k.rows
     IN  Execute(k.dst :> [d \in 0 .. elems * k.batch - 1 |->
                             Epilogue(dev[k.src][from(d)], k.mul, d % elems, k.scale)])

\* The definition of the transform, for the vendor's and for the properties.
SumC(f, n) == LET sum[i \in 0 .. n] == IF i = 0 THEN Zero ELSE CAdd(sum[i - 1], f[i - 1]) IN sum[n]
Dft(x, n, sign) ==
  [k \in 0 .. n - 1 |-> SumC([j \in 0 .. n - 1 |-> CMul(x[j], Turned(Root(n, j * k), sign))], n)]

CufftKernel ==
  /\ Launched("cufft")
  /\ LET k == Head(program)
         n == plan.t.n
         result == [b \in 0 .. plan.t.batch - 1 |-> Dft(Part(dev[k.src], b, n), n, k.sign)]
     IN  Execute(k.dst :> [d \in 0 .. n * plan.t.batch - 1 |-> result[d \div n][d % n]])

PackRealKernel == Launched("pack_real") /\ Execute("real_a" :> PackedReals(dev.in))

\* n complex numbers are written as 2n reals.
UnpackRealKernel ==
  /\ Launched("unpack_real")
  /\ Execute("out" :> [d \in 0 .. 2 * Cardinality(DOMAIN dev.real_b) - 1 |->
                         dev.real_b[d \div 2][(d % 2) + 1]])

UntangleKernel ==
  /\ Launched("r2c_untangle")
  /\ LET n == Head(program).n
         bin(src, k) ==
           LET z == src[IF k = n THEN 0 ELSE k]
               zn == src[(n - k) % n]
           IN  CAdd(EvenBin(z, zn), CMul(Twiddle(2 * n, k, 1), CMulI(DiffBin(z, zn), -1)))
     IN  Execute("out" :> [d \in 0 .. (n + 1) * Head(program).batch - 1 |->
                             bin(Part(dev.real_b, d \div (n + 1), n), d % (n + 1))])
C2rPackKernel ==
  /\ Launched("c2r_pack")
  /\ Execute("real_a" :> PackedBins(dev.in, Head(program).n))

FftKernel ==
  \/ StageKernel \/ SharedKernel \/ TransposeKernel \/ CufftKernel
  \/ PackRealKernel \/ UnpackRealKernel \/ UntangleKernel \/ C2rPackKernel

-------------------------------------------------------------------------------
(* Properties.                                                             *)

\* The first n + 1 bins of the transform of 2n reals.
RealBins(x, n) ==
  LET X == Dft([j \in 0 .. 2 * n - 1 |-> <<x[j], 0>>], 2 * n, 1) IN [k \in 0 .. n |-> X[k % (2 * n)]]

\* Whatever the rung, a transform is the sum it is defined by; the inverse of n
\* complex numbers gives n times what went in; in two dimensions the rows and the
\* columns are both transformed.
FftExact ==
  /\ input.family = "fft" /\ status = "success" /\ calls > 0 =>
       LET n == input.n IN
       \A b \in 0 .. input.batch - 1 :
         CASE request.what = "fft" -> Part(dev.out, b, n) = Dft(Part(dev.in, b, n), n, request.sign)
           [] request.what = "r2c" -> Part(dev.out, b, n + 1) = RealBins(Part(dev.in, b, 2 * n), n)
           [] request.what = "c2r" ->
                \A j \in 0 .. 2 * n - 1 : dev.out[2 * n * b + j] = Residue(n * request.real[2 * n * b + j])
  /\ input.family = "fft2d" /\ status = "success" /\ calls > 0 =>
       LET rows == input.rows
           cols == input.cols
           byRow == [r \in 0 .. rows - 1 |-> Dft(Part(dev.in, r, cols), cols, request.sign)]
           byCol == [c \in 0 .. cols - 1 |-> Dft([r \in 0 .. rows - 1 |-> byRow[r][c]], rows, request.sign)]
       IN  \A r \in 0 .. rows - 1, c \in 0 .. cols - 1 : dev.out[r * cols + c] = byCol[c][r]
===============================================================================
