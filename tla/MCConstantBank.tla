---------------------------- MODULE MCConstantBank ----------------------------
(***************************************************************************)
(* Instances of ConstantBank: two plans of one thread, or of a thread each,*)
(* on one stream.                                                          *)
(***************************************************************************)
EXTENDS ConstantBank

CONSTANTS p1, p2, t1, t2, s1, s2

OneThread == [p \in Plan |-> t1]
OwnThread == [p \in Plan |-> IF p = p1 THEN t1 ELSE t2]
OneStream == [p \in Plan |-> s1]
===============================================================================
