---------------------------- MODULE MCReduceLadder ----------------------------
(***************************************************************************)
(* Instances of ReduceLadder small enough to enumerate.                    *)
(***************************************************************************)
EXTENDS ReduceLadder
===============================================================================
