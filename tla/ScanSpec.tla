------------------------------- MODULE ScanSpec -------------------------------
(***************************************************************************)
(* What a scan rung promises its caller, whatever kernels it is made of:   *)
(* one call after another on one stream, and in each call every tile of    *)
(* the input is given its exclusive prefix exactly once.  How a tile comes *)
(* to know its prefix is left to the rung; LookbackScan implements this.   *)
(*                                                                         *)
(* A prefix is a product in the free monoid over the tiles of one call, so *)
(* a prefix that misses a tile, takes one twice, takes two out of order or *)
(* takes one left over from an earlier call is a different value.          *)
(***************************************************************************)
EXTENDS Integers

CONSTANTS
  Tiles,   \* number of tiles the input is cut into
  Calls    \* number of calls made on the plan


Tile == 0 .. Tiles - 1

VARIABLES
  call,    \* the call being served, 0 before the first one
  busy,    \* has the current call tiles left to deliver?
  out      \* out[t]: the prefix tile t was scanned with, or NoValue

specVars == <<call, busy, out>>

\* The product of tiles lo .. hi-1 of call c, in tile order.  Every empty
\* product is the identity of the operator.
Identity == [call |-> 0, lo |-> 0, hi |-> 0]
Product(c, lo, hi) == IF lo = hi THEN Identity ELSE [call |-> c, lo |-> lo, hi |-> hi]
NoValue == [call |-> -1, lo |-> 0, hi |-> 0]

Init ==
  /\ call = 0
  /\ busy = FALSE
  /\ out = [t \in Tile |-> NoValue]

Begin ==
  /\ ~busy
  /\ call < Calls
  /\ call' = call + 1
  /\ busy' = TRUE
  /\ out' = [t \in Tile |-> NoValue]

Deliver(t) ==
  /\ busy
  /\ out[t] = NoValue
  /\ out' = [out EXCEPT ![t] = Product(call, 0, t)]
  /\ UNCHANGED <<call, busy>>

Finish ==
  /\ busy
  /\ \A t \in Tile : out[t] # NoValue
  /\ busy' = FALSE
  /\ UNCHANGED <<call, out>>

Next == Begin \/ Finish \/ \E t \in Tile : Deliver(t)

Spec == Init /\ [][Next]_specVars
===============================================================================
