----------------------------- MODULE MCDenseSolver -----------------------------
(***************************************************************************)
(* An instance of DenseSolver: two streams that block on the default       *)
(* stream, as cudaStreamCreate makes them.                                 *)
(***************************************************************************)
EXTENDS DenseSolver
===============================================================================
