------------------------------ MODULE NvmlMonitor ------------------------------
(***************************************************************************)
(* NvmlMonitor of src/telemetry/nvml_monitor.cpp: movable objects, each    *)
(* holding at most one Impl, and one sampling thread per Impl between      *)
(* start() and stop().  One client thread drives the objects, since a      *)
(* monitor is externally synchronized.                                     *)
(***************************************************************************)
EXTENDS NvmlState

vars == <<built, holds, life, nvml_ok, running, worker, window, samples, joining, leaving, inits>>

Init ==
  /\ built = {} /\ holds = [m \in Monitor |-> None]
  /\ life = [i \in Impl |-> "unborn"]
  /\ nvml_ok = [i \in Impl |-> FALSE]
  /\ running = [i \in Impl |-> FALSE]
  /\ worker = [i \in Impl |-> "none"]
  /\ window = [i \in Impl |-> 0]
  /\ samples = [i \in Impl |-> <<>>]
  /\ joining = None /\ leaving = None
  /\ inits = 0

Idle == joining = None
Held(m) == Idle /\ m \in built /\ holds[m] # None
Threads == <<running, worker, window, samples>>

-------------------------------------------------------------------------------
(* Faults: forms of the definitions below with a plausible bug in them,    *)
(* for the runs that must then fail.                                       *)

\* A device that is not found leaves NVML initialized.
ConstructLeaks(m, i) ==
  /\ Idle /\ m \notin built /\ life[i] = "unborn"
  /\ built' = built \cup {m}
  /\ holds' = [holds EXCEPT ![m] = i]
  /\ life' = [life EXCEPT ![i] = "live"]
  /\ \E ok \in BOOLEAN : nvml_ok' = [nvml_ok EXCEPT ![i] = ok]
  /\ inits' = inits + 1
  /\ UNCHANGED <<Threads, joining, leaving>>

\* stop() clears the flag and goes on to the summary.
StopDetached(m) ==
  /\ Held(m) /\ running[holds[m]]
  /\ running' = [running EXCEPT ![holds[m]] = FALSE]
  /\ UNCHANGED <<built, holds, life, nvml_ok, worker, window, samples, joining, leaving, inits>>

\* stop() joins the thread before it clears the flag.
StopJoinsFirst(m) ==
  /\ Held(m) /\ running[holds[m]]
  /\ joining' = holds[m]
  /\ UNCHANGED <<built, holds, life, nvml_ok, Threads, leaving, inits>>

\* The destructor only gives NVML back.
DestroyRunning(m) ==
  /\ Idle /\ m \in built
  /\ built' = built \ {m}
  /\ holds' = [holds EXCEPT ![m] = None]
  /\ life' = [i \in Impl |-> IF i = holds[m] THEN "freed" ELSE life[i]]
  /\ inits' = IF holds[m] # None /\ nvml_ok[holds[m]] THEN inits - 1 ELSE inits
  /\ UNCHANGED <<nvml_ok, Threads, joining, leaving>>

-------------------------------------------------------------------------------
(* The client.                                                             *)

\* The constructor; NVML or the device may not be there.
Construct(m, i) ==
  /\ Idle /\ m \notin built /\ life[i] = "unborn"
  /\ built' = built \cup {m}
  /\ holds' = [holds EXCEPT ![m] = i]
  /\ life' = [life EXCEPT ![i] = "live"]
  /\ \E ok \in BOOLEAN :
       /\ nvml_ok' = [nvml_ok EXCEPT ![i] = ok]
       /\ inits' = IF ok THEN inits + 1 ELSE inits
  /\ UNCHANGED <<Threads, joining, leaving>>

\* start(), which does nothing in an open window or without NVML; creating the
\* thread may throw, with the flag already set.
Start(m) ==
  /\ Held(m)
  /\ LET i == holds[m] IN
       /\ nvml_ok[i] /\ ~running[i] /\ window[i] < Windows
       /\ samples' = [samples EXCEPT ![i] = <<>>]
       /\ window' = [window EXCEPT ![i] = @ + 1]
       /\ running' = [running EXCEPT ![i] = TRUE]
       /\ \/ worker' = [worker EXCEPT ![i] = "check"]
          \/ UNCHANGED worker
  /\ UNCHANGED <<built, holds, life, nvml_ok, joining, leaving, inits>>

\* stop() up to the join, and from there on to the summary.  In a closed window
\* it only reads.
Stop(m) ==
  /\ Held(m) /\ running[holds[m]]
  /\ running' = [running EXCEPT ![holds[m]] = FALSE]
  /\ joining' = holds[m]
  /\ UNCHANGED <<built, holds, life, nvml_ok, worker, window, samples, leaving, inits>>

Join ==
  /\ joining # None /\ leaving = None
  /\ worker[joining] \in {"ended", "none"}
  /\ worker' = [worker EXCEPT ![joining] = "none"]
  /\ joining' = None
  /\ UNCHANGED <<built, holds, life, nvml_ok, running, window, samples, leaving, inits>>

\* The destructor: stop() if the window is open, then the end of the Impl.
Destroy(m) ==
  /\ Idle /\ m \in built
  /\ IF holds[m] # None /\ running[holds[m]]
       THEN /\ running' = [running EXCEPT ![holds[m]] = FALSE]
            /\ joining' = holds[m] /\ leaving' = m
            /\ UNCHANGED <<built, holds, life, inits>>
       ELSE /\ built' = built \ {m}
            /\ holds' = [holds EXCEPT ![m] = None]
            /\ life' = [i \in Impl |-> IF i = holds[m] THEN "freed" ELSE life[i]]
            /\ inits' = IF holds[m] # None /\ nvml_ok[holds[m]] THEN inits - 1 ELSE inits
            /\ UNCHANGED <<running, joining, leaving>>
  /\ UNCHANGED <<nvml_ok, worker, window, samples>>

JoinAndLeave ==
  /\ leaving # None
  /\ worker[joining] \in {"ended", "none"}
  /\ worker' = [worker EXCEPT ![joining] = "none"]
  /\ built' = built \ {leaving}
  /\ holds' = [holds EXCEPT ![leaving] = None]
  /\ life' = [life EXCEPT ![joining] = "freed"]
  /\ inits' = IF nvml_ok[joining] THEN inits - 1 ELSE inits
  /\ joining' = None /\ leaving' = None
  /\ UNCHANGED <<nvml_ok, running, window, samples>>

\* The move constructor and the move assignment, which deletes what the target
\* held; Impl has no destructor of its own.
MoveConstruct(m, to) ==
  /\ Idle /\ m \in built /\ to \notin built
  /\ built' = built \cup {to}
  /\ holds' = [holds EXCEPT ![to] = holds[m], ![m] = None]
  /\ UNCHANGED <<life, nvml_ok, Threads, joining, leaving, inits>>

MoveAssign(m, to) ==
  /\ Idle /\ m # to /\ {m, to} \subseteq built
  /\ holds[to] # None => Reassign
  /\ holds' = [holds EXCEPT ![to] = holds[m], ![m] = None]
  /\ life' = [i \in Impl |-> IF i = holds[to] THEN "freed" ELSE life[i]]
  /\ UNCHANGED <<built, nvml_ok, Threads, joining, leaving, inits>>

-------------------------------------------------------------------------------
(* The sampling thread of an Impl.                                         *)

Check(i) ==
  /\ worker[i] = "check"
  /\ worker' = [worker EXCEPT ![i] = IF running[i] THEN "poll" ELSE "ended"]
  /\ UNCHANGED <<built, holds, life, nvml_ok, running, window, samples, joining, leaving, inits>>

Poll(i) ==
  /\ worker[i] = "poll"
  /\ samples' = [samples EXCEPT ![i] = IF Len(@) < Samples THEN Append(@, window[i]) ELSE @]
  /\ worker' = [worker EXCEPT ![i] = "check"]
  /\ UNCHANGED <<built, holds, life, nvml_ok, running, window, joining, leaving, inits>>

-------------------------------------------------------------------------------
\* The client is done and every object is gone.
Rest == built = {} /\ UNCHANGED vars

Next ==
  \/ Join \/ JoinAndLeave \/ Rest
  \/ \E m \in Monitor :
       \/ Start(m) \/ Stop(m) \/ Destroy(m)
       \/ \E i \in Impl : Construct(m, i)
       \/ \E to \in Monitor : MoveConstruct(m, to) \/ MoveAssign(m, to)
  \/ \E i \in Impl : Check(i) \/ Poll(i)

\* The sampling threads are scheduled, and so is a client whose join is over.
Fairness == WF_vars(Join \/ JoinAndLeave) /\ \A i \in Impl : WF_vars(Check(i) \/ Poll(i))

Spec == Init /\ [][Next]_vars /\ Fairness

-------------------------------------------------------------------------------
(* Liveness; the safety properties are NvmlState's.                        *)

\* stop() and the destructor return: the thread sees the flag.
StopReturns == joining # None ~> joining = None
===============================================================================
