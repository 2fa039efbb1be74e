------------------------------- MODULE GemmSpec -------------------------------
(***************************************************************************)
(* What a GEMM rung that cuts the output into fragments promises: a call   *)
(* either writes every fragment of C, each one once and with the whole sum *)
(* over K, or fails and leaves C as it was, or fails when all of C is      *)
(* written: never is it left half done.  Writing once matters: with a beta *)
(* other than zero a second write would fold C in twice.  SplitK and       *)
(* StreamK implement this.                                                 *)
(***************************************************************************)
EXTENDS Integers

CONSTANTS
  Cuts,       \* the sets of parts, written independently, that C may be cut into
  Calls       \* number of calls made

VARIABLES
  fragment,  \* the parts it is cut into, the same in every call
  call,      \* the call being served, 0 before the first one
  result,    \* "busy" while it is, then "ok" or "error"
  written    \* the fragments of C that hold their result of this call

specVars == <<fragment, call, result, written>>

Init == fragment \in Cuts /\ call = 0 /\ result = "ok" /\ written = {}

Begin ==
  /\ result # "busy"
  /\ call < Calls
  /\ call' = call + 1
  /\ result' = "busy"
  /\ written' = {}
  /\ UNCHANGED fragment

Write(f) ==
  /\ result = "busy"
  /\ f \notin written
  /\ written' = written \cup {f}
  /\ UNCHANGED <<fragment, call, result>>

Succeed == result = "busy" /\ written = fragment /\ result' = "ok" /\ UNCHANGED <<fragment, call, written>>

\* Late is the failure to hand back the scratch of the call.
Fail ==
  /\ result = "busy"
  /\ written \in {{}, fragment}
  /\ result' = "error"
  /\ UNCHANGED <<fragment, call, written>>

Next == Begin \/ Succeed \/ Fail \/ \E f \in fragment : Write(f)

Spec == Init /\ [][Next]_specVars
===============================================================================
