------------------------------ MODULE StreamCalls ------------------------------
(***************************************************************************)
(* What the plans and the entry points that take them have in common.  A   *)
(* caller builds a plan and makes calls on one stream.  A call resolves    *)
(* the algorithm, reports it, and either refuses or enqueues a program of  *)
(* launches; the device executes them one after another, in stream order,  *)
(* on buffers of which the plan's scratch survives from one call to the    *)
(* next.  Each launch may fail instead, which ends the call.               *)
(*                                                                         *)
(* A module per kind of plan says which program a call enqueues and what   *)
(* each kernel does; Library puts them together.                           *)
(***************************************************************************)
EXTENDS Integers, Sequences, FiniteSets, TLC

CONSTANT
  NaN      \* what is no number: an operand of the caller, or scratch nobody wrote

VARIABLES
  input,     \* what the plan is built from: a record with a field "family", and
             \* the bound "calls" on the calls made on the plan
  plan,      \* the plan, Nothing before it is built
  request,   \* the call in service, or the last one
  chosen,    \* the algorithm the last call reported
  status,    \* "none", "building", "busy", or what the last call returned
  program,   \* the launches of the call the device has still to execute
  dev,       \* the buffers on the device
  calls      \* calls made

callVars == <<input, plan, request, chosen, status, program, dev, calls>>

Nothing == [family |-> "nothing"]
Status == {"none", "building", "busy", "success", "invalid_value", "not_supported", "arch_mismatch",
           "internal", "execution_failed"}

\* The constructor of a plan, and the scratch it allocates.
Construct(p, scratch) ==
  /\ plan = Nothing
  /\ status = "none"
  /\ plan' = p
  /\ dev' = scratch
  /\ UNCHANGED <<input, request, chosen, status, program, calls>>

\* A constructor that runs launches of its own, and waits for them.
ConstructWith(p, scratch, launches) ==
  /\ plan = Nothing
  /\ status = "none"
  /\ plan' = p
  /\ dev' = scratch
  /\ program' = launches
  /\ status' = "building"
  /\ UNCHANGED <<input, request, chosen, calls>>

\* A constructor that throws: there is no plan to call.
Refused(answer) ==
  /\ plan = Nothing
  /\ status = "none"
  /\ status' = answer
  /\ calls' = input.calls
  /\ UNCHANGED <<input, plan, request, chosen, program, dev>>

\* A plan, no call in service, and calls still to make.
Ready ==
  plan # Nothing /\ status \notin {"busy", "building"} /\ calls < input.calls

\* The buffers of which some are written whole.
Overwritten(old, written) ==
  [b \in DOMAIN old \cup DOMAIN written |-> IF b \in DOMAIN written THEN written[b] ELSE old[b]]

\* An entry point: what it chose, what it answers, what it enqueues, and the
\* buffers of the caller it is given.
Serve(req, algo, answer, launches, operands) ==
  /\ Ready
  /\ request' = req
  /\ chosen' = algo
  /\ status' = IF answer = "success" THEN "busy" ELSE answer
  /\ program' = IF answer = "success" THEN launches ELSE <<>>
  /\ dev' = Overwritten(dev, operands)
  /\ calls' = calls + 1
  /\ UNCHANGED <<input, plan>>

Launched(kernel) == program # <<>> /\ Head(program).kernel = kernel

\* A kernel is executed: what it leaves in the buffers it writes.
Execute(written) ==
  /\ dev' = Overwritten(dev, written)
  /\ program' = Tail(program)
  /\ UNCHANGED <<input, plan, request, chosen, status, calls>>

\* CKL_CUDA_LAST_ERROR after a launch: the call ends with what ran before, and a
\* constructor leaves no plan.
LaunchFails ==
  /\ program # <<>>
  /\ program' = <<>>
  /\ status' = "execution_failed"
  /\ IF status = "building" THEN plan' = Nothing /\ calls' = input.calls
                            ELSE UNCHANGED <<plan, calls>>
  /\ UNCHANGED <<input, request, chosen, dev>>

Return ==
  /\ status \in {"busy", "building"}
  /\ program = <<>>
  /\ status' = IF status = "busy" THEN "success" ELSE "none"
  /\ UNCHANGED <<input, plan, request, chosen, program, dev, calls>>

Idle == status \notin {"busy", "building"} /\ calls = input.calls /\ UNCHANGED callVars

-------------------------------------------------------------------------------
(* Arithmetic on numbers and NaN.                                          *)

Plus(a, b) == IF NaN \in {a, b} THEN NaN ELSE a + b
Times(a, b) == IF NaN \in {a, b} THEN NaN ELSE a * b

\* f[lo] + ... + f[hi - 1]
SumOf(f, lo, hi) ==
  LET sum[i \in lo - 1 .. hi - 1] == IF i < lo THEN 0 ELSE Plus(sum[i - 1], f[i])
  IN  IF hi <= lo THEN 0 ELSE sum[hi - 1]

\* The sum of f over a finite set of integers.
SumOver(f, S) ==
  LET sum[T \in SUBSET S] ==
        IF T = {} THEN 0 ELSE LET i == CHOOSE i \in T : TRUE IN Plus(f[i], sum[T \ {i}])
  IN  sum[S]

CeilDiv(a, b) == (a + b - 1) \div b
Smaller(a, b) == IF a < b THEN a ELSE b
Larger(a, b) == IF a > b THEN a ELSE b

\* The epilogue of every BLAS-like kernel: what is stored is not read when
\* beta is zero.
Blend(alpha, sum, beta, old) ==
  IF beta = 0 THEN Times(alpha, sum) ELSE Plus(Times(alpha, sum), Times(beta, old))
===============================================================================
