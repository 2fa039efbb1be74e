---------------------------- MODULE MCDefaultContext ----------------------------
(***************************************************************************)
(* An instance of DefaultContext: two threads, a stream each, and the two  *)
(* functions that keep a plan, of which one is asked for two keys.         *)
(***************************************************************************)
EXTENDS DefaultContext

CONSTANTS t1, t2, s1, s2, k1, k2, k3

OwnStream == [t \in Thread |-> IF t = t1 THEN {s1} ELSE {s2}]
FunctionOf == [k \in Key |-> IF k = k3 THEN "fft_cufft" ELSE "spmv_cusparse"]
===============================================================================
