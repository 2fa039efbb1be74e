---------------------------- MODULE MCLookbackScan ----------------------------
(***************************************************************************)
(* Instances of LookbackScan small enough to enumerate.                    *)
(***************************************************************************)
EXTENDS LookbackScan
===============================================================================
