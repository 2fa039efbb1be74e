------------------------------- MODULE MCStreamK -------------------------------
(***************************************************************************)
(* An instance of StreamK with two shapes: one tile that three CTAs share, *)
(* and seven, of which three are computed whole and the others lie under   *)
(* shares that begin in one tile and end in another.                       *)
(***************************************************************************)
EXTENDS StreamK

OneAndSeven == {1, 7}
===============================================================================
