----------------------------- MODULE ConstantBank -----------------------------
(***************************************************************************)
(* The constant memory rung of the direct convolution: the one bank of     *)
(* taps per module in src/fft/conv_direct.cu, and the plans of             *)
(* src/fft/fft_plan.cpp that take turns in it.                             *)
(*                                                                         *)
(* The host keeps a record of the owner, under a mutex; the taps move on   *)
(* the device, on the stream of whoever binds.  A convolution plan belongs *)
(* to one thread and runs on one stream.                                   *)
(***************************************************************************)
EXTENDS FilterSpec, Integers, SequencesExt

CONSTANT Calls   \* calls one thread makes on its plans

ASSUME CallsAssumption == Calls \in Nat

VARIABLES
  owner,   \* bank_owner
  bank,    \* g_taps: the plan whose taps it holds
  queue,   \* the commands not yet executed, in the order they were enqueued
  built,   \* the plans constructed
  pc,      \* where each thread is
  cur,     \* the plan it works on
  calls    \* how many calls it has made

host == <<owner, built, pc, cur, calls>>
device == <<bank, queue, heard>>
vars == <<host, device>>

Goto(t, l) == pc' = [pc EXCEPT ![t] = l]
Enqueue(kind, p, s) == queue' = Append(queue, [kind |-> kind, plan |-> p, stream |-> s])

\* What is ordered with what is enqueued later: the same stream, and the
\* default stream with those that block on it.
Before(a, b) ==
  \/ a.stream = b.stream
  \/ a.stream = Null /\ b.stream \in Blocking
  \/ b.stream = Null /\ a.stream \in Blocking

Init ==
  /\ owner = NoPlan /\ bank = NoPlan
  /\ queue = <<>> /\ built = {}
  /\ pc = [t \in Thread |-> "idle"]
  /\ cur = [t \in Thread |-> NoPlan]
  /\ calls = [t \in Thread |-> 0]
  /\ heard = [p \in Plan |-> {}]

-------------------------------------------------------------------------------
(* Faults: forms of the definitions below with a plausible bug in them,    *)
(* for the runs that must then fail.                                       *)

\* A plan that once bound the bank takes it that it still holds it.
CheckBuilt(t) ==
  /\ pc[t] = "check"
  /\ Goto(t, "launch")
  /\ UNCHANGED <<device, owner, built, cur, calls>>

-------------------------------------------------------------------------------
(* The constructor of a plan whose filter fits the bank.                   *)

Construct(p) ==
  LET t == ThreadOf[p] IN
  /\ pc[t] = "idle"
  /\ p \notin built
  /\ cur' = [cur EXCEPT ![t] = p]
  /\ Goto(t, "bind")
  /\ UNCHANGED <<device, owner, built, calls>>

\* conv_direct_constant_bind on the default stream.  Its copy and its record
\* are one step under the mutex; a copy that is refused throws.
Bind(t) ==
  /\ pc[t] = "bind"
  /\ \/ Enqueue("copy", cur[t], Null) /\ owner' = cur[t] /\ Goto(t, "synchronize")
     \/ Goto(t, "idle") /\ UNCHANGED <<queue, owner>>
  /\ UNCHANGED <<bank, heard, built, cur, calls>>

\* cudaStreamSynchronize(nullptr): the constructor returns once the default
\* stream has come to rest, which the streams that block on it precede.
Synchronize(t) ==
  /\ pc[t] = "synchronize"
  /\ \A i \in DOMAIN queue : queue[i].stream # Null
  /\ built' = built \cup {cur[t]}
  /\ Goto(t, "idle")
  /\ UNCHANGED <<device, owner, cur, calls>>

-------------------------------------------------------------------------------
(* ConvPlan::Impl::run on the constant memory rung.                        *)

Run(p) ==
  LET t == ThreadOf[p] IN
  /\ pc[t] = "idle"
  /\ p \in built
  /\ calls[t] < Calls
  /\ calls' = [calls EXCEPT ![t] = @ + 1]
  /\ cur' = [cur EXCEPT ![t] = p]
  /\ Goto(t, "check")
  /\ UNCHANGED <<device, owner, built>>

Check(t) ==
  /\ pc[t] = "check"
  /\ Goto(t, IF owner = cur[t] THEN "guard" ELSE "rebind")
  /\ UNCHANGED <<device, owner, built, cur, calls>>

Rebind(t) ==
  /\ pc[t] = "rebind"
  /\ \/ Enqueue("copy", cur[t], StreamOf[cur[t]]) /\ owner' = cur[t] /\ Goto(t, "guard")
     \/ Goto(t, "idle") /\ UNCHANGED <<queue, owner>>
  /\ UNCHANGED <<bank, heard, built, cur, calls>>

\* conv_direct_constant looks at the record a second time, then launches.
Guard(t) ==
  /\ pc[t] = "guard"
  /\ Goto(t, IF owner = cur[t] THEN "launch" ELSE "idle")
  /\ UNCHANGED <<device, owner, built, cur, calls>>

Launch(t) ==
  /\ pc[t] = "launch"
  /\ Enqueue("kernel", cur[t], StreamOf[cur[t]]) \/ UNCHANGED queue
  /\ Goto(t, "idle")
  /\ UNCHANGED <<owner, built, cur, calls, bank, heard>>

-------------------------------------------------------------------------------
\* A command everything it is ordered after has left the queue before.
Execute(i) ==
  /\ \A j \in 1 .. i - 1 : ~Before(queue[j], queue[i])
  /\ queue' = RemoveAt(queue, i)
  /\ LET p == queue[i].plan IN
       IF queue[i].kind = "copy"
         THEN bank' = p /\ UNCHANGED heard
         ELSE heard' = [heard EXCEPT ![p] = @ \cup {bank}] /\ UNCHANGED bank
  /\ UNCHANGED host

ThreadStep(t) ==
  Bind(t) \/ Synchronize(t) \/ Check(t) \/ Rebind(t) \/ Guard(t) \/ Launch(t)

Rest ==
  /\ queue = <<>> /\ \A t \in Thread : pc[t] = "idle" /\ calls[t] = Calls
  /\ UNCHANGED vars

Next ==
  \/ \E p \in Plan : Construct(p) \/ Run(p)
  \/ \E t \in Thread : ThreadStep(t)
  \/ \E i \in DOMAIN queue : Execute(i)
  \/ Rest

Spec == Init /\ [][Next]_vars
===============================================================================
