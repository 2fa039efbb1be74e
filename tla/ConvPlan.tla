-------------------------------- MODULE ConvPlan --------------------------------
(***************************************************************************)
(* ConvPlan of src/fft: a convolution by a transform, a product and a      *)
(* transform back, or directly.  The filter is transformed once, when the  *)
(* plan is built, and its taps are put into the constant memory when they  *)
(* fit there.  Here there is one plan, which the bank is always bound to;  *)
(* plans that take turns in it are in ConstantBank.                        *)
(***************************************************************************)
EXTENDS FftPlan

OutLength == input.n + input.m - 1
NextPower(v) == 2 ^ Log2(v)
ConvLength == Larger(MinConvLength, NextPower(OutLength))

PackLaunch(src, count) == [kernel |-> "conv_pack", src |-> src, n |-> count]
PointwiseLaunch == [kernel |-> "conv_pointwise"]
ExtractLaunch(scale) == [kernel |-> "conv_extract", scale |-> scale]
BindLaunch == [kernel |-> "conv_bind"]
DirectLaunch(taps) == [kernel |-> "conv_direct", taps |-> taps]

\* ConvPlan::Impl::build
BuildConv ==
  /\ input.family = "conv"
  /\ LET l == ConvLength
         t == Transform(l, 1, 0, "tiled_padded")
         algo == IF input.fft_algo = "auto" THEN FftQuery(t) ELSE input.fft_algo
     IN  IF input.n < 1 \/ input.m < 1 \/ input.null THEN Refused("invalid_value")
         ELSE IF l > MaxLength \/ FftRefuses(t, algo) THEN Refused("not_supported")
         ELSE ConstructWith([family |-> "conv", t |-> t, algo |-> algo],
                            [work |-> Blank(l), a |-> Blank(l), b |-> Blank(l), filter_spec |-> Blank(l),
                             taps |-> input.filter, g_taps |-> Blank(MaxConstantTaps)],
                            <<PackLaunch("taps", input.m)>>
                              \o FftLaunches(t, algo, "a", "filter_spec", 1, NoFilter, 1)
                              \o (IF input.m > MaxConstantTaps THEN <<>> ELSE <<BindLaunch>>))

ConvRefuses(algo) ==
  \/ algo = "fft_fused" /\ plan.algo \in Radices \cup {"cufft"}
  \/ algo = "direct_constant" /\ input.m > MaxConstantTaps

\* model_bytes of the fused variant, and the rule that compares it with the work of
\* the direct one.
FusedBytes ==
  4 * input.n + 16 * plan.t.n + 2 * Passes(plan.t, plan.algo) * 16 * plan.t.n + 12 * OutLength
ConvQuery ==
  IF 2 * input.n * input.m * DramRoof < FusedBytes * Fp32Roof
  THEN IF ConvRefuses("direct_constant") THEN "direct_shared" ELSE "direct_constant"
  ELSE IF ConvRefuses("fft_fused") THEN "fft_separate" ELSE "fft_fused"

\* ConvPlan::Impl::run
ConvLaunches(algo) ==
  LET t == plan.t
      inverse == Reciprocal(Residue(t.n))
      unfused(fft) ==
        <<PackLaunch("in", input.n)>> \o FftLaunches(t, fft, "a", "b", 1, NoFilter, 1)
          \o <<PointwiseLaunch>> \o FftLaunches(t, fft, "b", "a", -1, NoFilter, 1)
          \o <<ExtractLaunch(inverse)>>
  IN  CASE algo = "fft_separate" -> unfused(plan.algo)
        [] algo = "cufft" -> unfused("cufft")
        [] algo = "fft_fused" ->
             <<PackLaunch("in", input.n)>> \o FftLaunches(t, plan.algo, "a", "b", 1, "filter_spec", 1)
               \o FftLaunches(t, plan.algo, "b", "a", -1, NoFilter, inverse) \o <<ExtractLaunch(1)>>
        [] algo = "direct_shared" -> <<DirectLaunch("taps")>>
        [] algo = "direct_constant" -> <<DirectLaunch("g_taps")>>

\* conv
CallConv(req) ==
  LET algo == IF req.algo = "auto" THEN ConvQuery ELSE req.algo
      answer == IF req.null THEN "invalid_value"
                ELSE IF ConvRefuses(algo) THEN "not_supported" ELSE "success"
  IN  /\ input.family = "conv"
      /\ plan # Nothing
      /\ Serve(req, algo, answer, IF answer = "success" THEN ConvLaunches(algo) ELSE <<>>,
               [in |-> req.data, out |-> <<>>])

-------------------------------------------------------------------------------
(* The kernels.                                                            *)

\* What lies past the operand is left as an earlier call had it.
PackKeepsTail ==
  /\ Launched("conv_pack")
  /\ LET k == Head(program)
     IN  Execute("a" :> [i \in 0 .. plan.t.n - 1 |-> IF i < k.n THEN <<dev[k.src][i], 0>> ELSE dev.a[i]])

ConvPackKernel ==
  /\ Launched("conv_pack")
  /\ LET k == Head(program)
     IN  Execute("a" :> [i \in 0 .. plan.t.n - 1 |-> IF i < k.n THEN <<dev[k.src][i], 0>> ELSE Zero])

ConvPointwiseKernel ==
  /\ Launched("conv_pointwise")
  /\ Execute("b" :> [i \in 0 .. plan.t.n - 1 |-> CMul(dev.b[i], dev.filter_spec[i])])

ConvExtractKernel ==
  /\ Launched("conv_extract")
  /\ LET scaled(i) == CScale(dev.a[i], Head(program).scale)
     IN  Execute("out" :> [i \in 0 .. OutLength - 1 |-> IF scaled(i) = NaN THEN NaN ELSE scaled(i)[1]])

\* conv_direct_constant_bind: a copy, as long as the filter.
ConvBindKernel ==
  /\ Launched("conv_bind")
  /\ Execute("g_taps" :> [t \in DOMAIN dev.g_taps |->
                            IF t < input.m THEN dev.taps[t] ELSE dev.g_taps[t]])

\* A block computes ConvTile outputs, a chunk of taps at a time, from a window of the
\* signal that starts where the first output meets the last tap of the chunk.
ConvDirectKernel ==
  /\ Launched("conv_direct")
  /\ LET window(base, c) ==
           [s \in 0 .. ConvTile + ConvChunk - 2 |->
              LET at == base - c - ConvChunk + 1 + s IN IF at \in DOMAIN dev.in THEN dev.in[at] ELSE 0]
         tap(i, t) ==
           LET base == (i \div ConvTile) * ConvTile
               c == (t \div ConvChunk) * ConvChunk
           IN  Times(dev[Head(program).taps][t], window(base, c)[i - t - (base - c - ConvChunk + 1)])
     IN  Execute("out" :> [i \in 0 .. OutLength - 1 |->
                             Residue(SumOf([t \in 0 .. input.m - 1 |-> tap(i, t)], 0, input.m))])

ConvKernel ==
  \/ ConvPackKernel \/ ConvPointwiseKernel \/ ConvExtractKernel \/ ConvBindKernel \/ ConvDirectKernel

-------------------------------------------------------------------------------
(* Properties.                                                             *)

\* Every rung leaves the whole convolution, its tail included, whatever transforms
\* it runs on and whatever the scratch held.
ConvExact ==
  input.family = "conv" /\ status = "success" /\ calls > 0 =>
    \A i \in 0 .. OutLength - 1 :
      dev.out[i] = Residue(SumOver([t \in 0 .. input.m - 1 |->
                             IF i - t \in DOMAIN request.data THEN input.filter[t] * request.data[i - t]
                             ELSE 0], 0 .. input.m - 1))

\* A plan that was built with a four step form of the default factors, or for a length
\* that stays in shared memory, serves the choice it makes itself.
FftAutoServed ==
  /\ input.family \in {"fft", "conv"}
  /\ request # Nothing
  /\ request.algo = "auto"
  /\ status = "not_supported"
  => \/ input.family = "fft"
        /\ \/ request.what # "fft" /\ ~input.build_real
           \/ TiledTooMany(plan.t, chosen)
           \/ input.four_step_n1 # 0 /\ FftRefuses(plan.t, chosen)
===============================================================================
