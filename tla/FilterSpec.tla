------------------------------ MODULE FilterSpec ------------------------------
(***************************************************************************)
(* What the constant memory rung of the direct convolution promises plans  *)
(* that belong to threads and run on streams, whatever it keeps of them:   *)
(* ConstantBank shows how it keeps it.                                     *)
(***************************************************************************)

CONSTANTS
  Plan, Thread, Stream,
  ThreadOf,   \* the thread each plan belongs to
  StreamOf,   \* the stream each plan's calls are made on
  Null,       \* the default stream
  Blocking,   \* the streams that synchronize with the default stream
  NoPlan

ASSUME ThreadOfAssumption == ThreadOf \in [Plan -> Thread]
ASSUME StreamOfAssumption == StreamOf \in [Plan -> Stream]
ASSUME NullAssumption == Null \in Stream /\ Blocking \subseteq Stream
ASSUME NoPlanAssumption == NoPlan \notin Plan

VARIABLE heard   \* whose taps the kernels of each plan have convolved with

\* A plan only ever convolves with its own filter.
OwnFilter == \A p \in Plan : heard[p] \subseteq {p}
===============================================================================
