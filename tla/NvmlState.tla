------------------------------- MODULE NvmlState -------------------------------
(***************************************************************************)
(* The state of NvmlMonitor: the objects and what they hold, one sampling  *)
(* thread per Impl, the count of nvmlInit; and what must hold of it.       *)
(***************************************************************************)
EXTENDS Integers, Sequences, FiniteSets

CONSTANTS
  Monitor,     \* the objects
  Impl,        \* what they can hold
  None,        \* what a moved from object holds
  Windows,     \* bound: starts per Impl
  Samples,     \* bound: readings kept per window
  Reassign     \* does the client assign to a monitor that holds an Impl?

ASSUME NoneAssumption == None \notin Impl
ASSUME BoundsAssumption == Windows \in Nat /\ Samples \in Nat
ASSUME ReassignAssumption == Reassign \in BOOLEAN

VARIABLES
  built,    \* the objects that exist
  holds,    \* the Impl of each
  life,     \* "unborn", "live" or "freed", of each Impl
  nvml_ok,  \* is NVML initialized for it?
  running,  \* its flag
  worker,   \* its thread: "none" if not joinable, "ended" once it may be joined
  window,   \* its starts
  samples,  \* the window each of its readings was taken in
  joining,  \* the Impl the client waits for in join(), or None
  leaving,  \* the object whose destructor that is in, or None
  inits     \* nvmlInit calls not yet matched by a shutdown

-------------------------------------------------------------------------------
(* Properties.                                                             *)

\* Every variable has its type: an Impl never has a second thread.
MonitorTypeOK ==
  /\ built \subseteq Monitor
  /\ holds \in [Monitor -> Impl \cup {None}]
  /\ life \in [Impl -> {"unborn", "live", "freed"}]
  /\ nvml_ok \in [Impl -> BOOLEAN] /\ running \in [Impl -> BOOLEAN]
  /\ worker \in [Impl -> {"none", "check", "poll", "ended"}]
  /\ window \in [Impl -> 0 .. Windows]
  /\ samples \in [Impl -> Seq(1 .. Windows)]
  /\ joining \in Impl \cup {None} /\ leaving \in Monitor \cup {None}
  /\ inits \in Nat

\* A thread is joined before its Impl is freed: it never polls into freed
\* memory, and no joinable std::thread is ever destroyed.
JoinedBeforeFreed == \A i \in Impl : worker[i] # "none" => life[i] = "live"

\* A closed window is settled: its thread is gone, so the summary and the
\* samples stay what stop() found, and a window holds its own readings only.
Settled ==
  \A i \in Impl :
    /\ ~running[i] /\ joining # i => worker[i] = "none"
    /\ \A k \in DOMAIN samples[i] : samples[i][k] = window[i]

\* NVML is initialized once for every Impl that is alive and has a device.
NvmlBalanced == inits = Cardinality({i \in Impl : life[i] = "live" /\ nvml_ok[i]})

\* Types hold, one thread to an Impl, and the library's count agrees with them.
MonitorConsistent == MonitorTypeOK /\ NvmlBalanced
===============================================================================
