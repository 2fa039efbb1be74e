------------------------------ MODULE DenseSolver ------------------------------
(***************************************************************************)
(* DenseSolver of src/solver/dense_solver.cpp: a factorization and a solve *)
(* enqueued on the solver's stream, each followed by a blocking copy of    *)
(* the device info word on the default stream.  solve_lu and               *)
(* solve_cholesky differ in the pivot array only.                          *)
(***************************************************************************)
EXTENDS SolverState

vars == <<stream, pc, serial, problem, report, workspace, pivots, queue, info, solved>>
host == <<stream, serial, problem, workspace, pivots>>

Init ==
  /\ stream \in Streams
  /\ pc = "idle" /\ serial = 0 /\ report = "ok"
  /\ problem \in Problem
  /\ workspace = 0 /\ pivots = 0
  /\ queue = [s \in Streams |-> <<>>]
  /\ info \in {0, 1}
  /\ solved = {}

Return(r) == pc' = "idle" /\ report' = r
Enqueue(op) ==
  queue' = [queue EXCEPT ![stream] = Append(@, [op |-> op, call |-> serial, problem |-> problem])]

-------------------------------------------------------------------------------
(* Faults: forms of the definitions below with a plausible bug in them,    *)
(* for the runs that must then fail.                                       *)

\* The workspace is sized by the first call.
GrowOnce ==
  /\ pc = "grow"
  /\ \/ /\ pc' = "factor"
        /\ workspace' = IF workspace = 0 THEN problem.lwork ELSE workspace
        /\ pivots' = IF problem.method = "lu" /\ pivots = 0 THEN problem.n ELSE pivots
        /\ UNCHANGED report
     \/ Return("error") /\ UNCHANGED <<workspace, pivots>>
  /\ UNCHANGED <<stream, serial, problem, queue, info, solved>>

\* Nobody looks at the info word of the factorization.
ReadFactorIgnored ==
  /\ pc = "readFactor"
  /\ \A s \in Streams \ NonBlocking : queue[s] = <<>>
  /\ pc' = "solve"
  /\ UNCHANGED <<host, report, queue, info, solved>>

\* The solve returns without reading the info word back.
SolveAsync ==
  /\ pc = "solve"
  /\ \/ Enqueue("solve") /\ Return("ok")
     \/ Return("error") /\ UNCHANGED queue
  /\ UNCHANGED <<host, info, solved>>

-------------------------------------------------------------------------------
\* set_stream; one that cuSOLVER refuses leaves the stream of its handle.
SetStream(s) ==
  /\ pc = "idle"
  /\ stream' = s
  /\ UNCHANGED <<pc, serial, problem, report, workspace, pivots, queue, info, solved>>

\* solve_lu or solve_cholesky up to the size of the workspace, whose query may
\* fail; an empty system returns at once and is no call here.
Call(p) ==
  /\ pc = "idle"
  /\ serial < Solves
  /\ serial' = serial + 1
  /\ problem' = p
  /\ \/ pc' = "grow" /\ UNCHANGED report
     \/ Return("error")
  /\ UNCHANGED <<stream, workspace, pivots, queue, info, solved>>

\* ensure_workspace, then the pivot array, which only LU needs.  A buffer is
\* freed only once its successor is allocated, so a failure leaves it; the
\* workspace may have grown when the pivot array cannot.
Grow ==
  /\ pc = "grow"
  /\ LET fitted == IF workspace < problem.lwork THEN problem.lwork ELSE workspace IN
       \/ /\ pc' = "factor"
          /\ workspace' = fitted
          /\ pivots' = IF problem.method = "lu" /\ pivots < problem.n THEN problem.n ELSE pivots
          /\ UNCHANGED report
       \/ Return("error") /\ UNCHANGED <<workspace, pivots>>
       \/ /\ problem.method = "lu" /\ pivots < problem.n
          /\ Return("error") /\ workspace' = fitted /\ UNCHANGED pivots
  /\ UNCHANGED <<stream, serial, problem, queue, info, solved>>

Factor ==
  /\ pc = "factor"
  /\ \/ Enqueue("factor") /\ pc' = "readFactor" /\ UNCHANGED report
     \/ Return("error") /\ UNCHANGED queue
  /\ UNCHANGED <<host, info, solved>>

\* read_info: a copy on the default stream, which waits for the streams that
\* block on it and for no other.  One that fails reports what went wrong in the
\* work it waited for.
Copied == \A s \in Streams \ NonBlocking : queue[s] = <<>>

ReadFactor ==
  /\ pc = "readFactor"
  /\ Copied
  /\ \/ info # 0 /\ Return("singular")
     \/ info = 0 /\ pc' = "solve" /\ UNCHANGED report
     \/ Return("error")
  /\ UNCHANGED <<host, queue, info, solved>>

Solve ==
  /\ pc = "solve"
  /\ \/ Enqueue("solve") /\ pc' = "readSolve" /\ UNCHANGED report
     \/ Return("error") /\ UNCHANGED queue
  /\ UNCHANGED <<host, info, solved>>

ReadSolve ==
  /\ pc = "readSolve"
  /\ Copied
  /\ \/ info = 0 /\ Return("ok")
     \/ Return("error")
  /\ UNCHANGED <<host, queue, info, solved>>

\* The device executes the first command of a stream.
Execute(s) ==
  /\ queue[s] # <<>>
  /\ LET k == Head(queue[s]) IN
       /\ info' = IF k.op = "factor" /\ ~k.problem.regular THEN 1 ELSE 0
       /\ solved' = IF k.op = "solve" /\ k.problem.regular THEN solved \cup {k.call} ELSE solved
  /\ queue' = [queue EXCEPT ![s] = Tail(@)]
  /\ UNCHANGED <<host, pc, report>>

-------------------------------------------------------------------------------
HostStep == Grow \/ Factor \/ ReadFactor \/ Solve \/ ReadSolve

Next ==
  \/ \E s \in Streams : SetStream(s) \/ Execute(s)
  \/ \E p \in Problem : Call(p)
  \/ HostStep

Spec == Init /\ [][Next]_vars
===============================================================================
