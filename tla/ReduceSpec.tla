------------------------------ MODULE ReduceSpec ------------------------------
(***************************************************************************)
(* What every rung of the reduction ladder promises its caller: a call on  *)
(* the stream leaves in the output the reduction of its own input, nothing *)
(* of an earlier call and nothing twice, and it is there before the call   *)
(* ends.  ReduceLadder implements this for the rungs of the library.       *)
(***************************************************************************)
EXTENDS Integers

CONSTANT Calls   \* number of calls made on the plan

VARIABLES
  call,    \* the call being served, 0 before the first one
  busy,    \* is the stream still working on it?
  done     \* the output holds exactly the reduction of the current call

specVars == <<call, busy, done>>

Init == call = 0 /\ busy = FALSE /\ done = FALSE

Begin ==
  /\ ~busy
  /\ call < Calls
  /\ call' = call + 1
  /\ busy' = TRUE
  /\ done' = FALSE

Reduce == busy /\ ~done /\ done' = TRUE /\ UNCHANGED <<call, busy>>

End == busy /\ done /\ busy' = FALSE /\ UNCHANGED <<call, done>>

Next == Begin \/ Reduce \/ End

Spec == Init /\ [][Next]_specVars
===============================================================================
