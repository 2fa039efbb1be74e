------------------------------ MODULE SolverState ------------------------------
(***************************************************************************)
(* The state of DenseSolver: the host's side of a solve, the buffers kept  *)
(* between solves and the streams' queues; and what must hold of it.       *)
(***************************************************************************)
EXTENDS Integers, Sequences

CONSTANTS
  Streams,      \* streams a solver may be given
  NonBlocking,  \* those created cudaStreamNonBlocking
  Sizes,        \* orders of A, and workspace sizes, in elements
  Solves        \* solves requested, one after another

ASSUME NonBlockingAssumption == NonBlocking \subseteq Streams
ASSUME SizesAssumption == Sizes \subseteq Nat \ {0}
ASSUME SolvesAssumption == Solves \in Nat

VARIABLES
  stream,     \* the stream of the cuSOLVER handle
  pc,         \* where the call is
  serial,     \* the call, 0 before the first one
  problem,    \* its method, size of A, workspace size, and whether A can be factored
  report,     \* what the last call came to
  workspace,  \* the size of the workspace
  pivots,     \* the size of the pivot array
  queue,      \* the commands each stream has still to execute
  info,       \* the device info word
  solved      \* the calls whose X is in place on the device

PC == {"idle", "grow", "factor", "readFactor", "solve", "readSolve"}
Problem == [method : {"lu", "cholesky"}, n : Sizes, lwork : Sizes, regular : BOOLEAN]
Command == [op : {"factor", "solve"}, call : 1 .. Solves, problem : Problem]

-------------------------------------------------------------------------------
(* Properties.                                                             *)

\* Every variable has its type.
SolverTypeOK ==
  /\ stream \in Streams /\ pc \in PC /\ serial \in 0 .. Solves /\ problem \in Problem
  /\ report \in {"ok", "singular", "error"}
  /\ workspace \in Sizes \cup {0} /\ pivots \in Sizes \cup {0}
  /\ queue \in [Streams -> Seq(Command)]
  /\ info \in {0, 1}
  /\ solved \subseteq 1 .. Solves

\* A solve is synchronous: when it has returned, nothing of it is left to execute.
Synchronous == pc = "idle" => \A s \in Streams : queue[s] = <<>>

\* A solve that returns normally has X in place, and one that reports a
\* singular factor had one: the info word read is the one of this call's step.
Truthful ==
  pc = "idle" /\ serial > 0 =>
    /\ report = "ok" => serial \in solved
    /\ report = "singular" => ~problem.regular

\* No command in a queue needs more scratch than the solver holds.
BuffersFit ==
  \A s \in Streams : \A i \in DOMAIN queue[s] :
    LET p == queue[s][i].problem IN p.lwork <= workspace /\ (p.method = "lu" => p.n <= pivots)

\* Types hold, and the scratch kept between solves fits what is enqueued.
SolverConsistent == SolverTypeOK /\ BuffersFit
===============================================================================
