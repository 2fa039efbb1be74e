------------------------------ MODULE MCPlanCache ------------------------------
(***************************************************************************)
(* Instances of PlanCache: one thread with one stream, and two threads     *)
(* with a stream each, with one key or two.                                *)
(***************************************************************************)
EXTENDS PlanCache

CONSTANTS t1, t2, s1, s2

OwnStream == [t \in Thread |-> IF t = t1 THEN {s1} ELSE {s2}]
AllStreams == [t \in Thread |-> Stream]
===============================================================================
