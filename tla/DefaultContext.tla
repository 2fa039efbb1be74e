----------------------------- MODULE DefaultContext -----------------------------
(***************************************************************************)
(* What the free functions share: the process wide Context of              *)
(* src/api/context.cpp, its cuBLAS handle, created on first use under one  *)
(* mutex, and the lock under which the cuBLAS functions set the stream of  *)
(* that handle and call on it, and spmv_cusparse and fft_cufft keep each a *)
(* one entry cache of vendor plans; and the compute capability that is     *)
(* read once and then guards every kernel launch.                          *)
(***************************************************************************)
EXTENDS Integers, Sequences, FiniteSets

CONSTANTS
  Thread,
  Stream,
  Key,        \* what a vendor plan is keyed on
  Cache,      \* the functions that keep a plan
  CacheOf,    \* the function that a key belongs to
  Device,
  Floor,      \* the capability the hand written kernels need
  Mixed,      \* may the devices of the machine differ?
  StreamsOf,  \* the streams each thread works on
  Calls       \* bound: calls of each thread

ASSUME CacheOfAssumption == CacheOf \in [Key -> Cache]
ASSUME FloorAssumption == Floor \in Nat \ {0}
ASSUME MixedAssumption == Mixed \in BOOLEAN
ASSUME StreamsOfAssumption == StreamsOf \in [Thread -> SUBSET Stream]
ASSUME CallsAssumption == Calls \in Nat

Call == Thread \X (1 .. Calls)
NoCall == <<>>
NoStream == [no |-> "stream"]
NoKey == [no |-> "key"]
NoDevice == [no |-> "device"]
Unasked == [kind |-> "none", stream |-> NoStream, key |-> NoKey]

VARIABLES
  device,       \* the current device of each thread
  capability,   \* of each device
  cc,           \* what device_compute_capability keeps, 0 before its first call
  launched,     \* the device each call launched a hand written kernel on
  handle_guard, \* the thread that holds handle_mutex, or {} for none
  handle,       \* is there a cuBLAS handle?
  made,         \* cuBLAS handles created
  handleStream, \* the stream the handle is set to
  guard,        \* the thread that holds default_context_mutex, or {} for none
  cached,       \* the plan each function keeps, named by the call that built it
  cachedKey,
  live,         \* the plans that exist
  builtFor,     \* the key of each
  planStream,   \* the stream the plan's own handle is set to
  queue,        \* the commands of each stream
  asked,        \* what each call was asked for
  pc, n

arch == <<device, capability, cc, launched>>
blas == <<handle_guard, handle, made>>
plans == <<cached, cachedKey, live, builtFor, planStream>>
vars == <<arch, blas, guard, handleStream, plans, queue, asked, pc, n>>

PC == {"idle", "arch", "launch", "handle", "create", "lock", "build", "replace", "set", "enqueue"}
This(t) == <<t, n[t]>>
Asked(t) == asked[This(t)]
Mine(t) == CacheOf[Asked(t).key]
Goto(t, l) == pc' = [pc EXCEPT ![t] = l]
DeviceIdle == \A s \in Stream : queue[s] = <<>>

Init ==
  /\ device \in [Thread -> Device]
  /\ capability \in [Device -> {Floor - 1, Floor}]
  /\ ~Mixed => \A d, e \in Device : capability[d] = capability[e]
  /\ cc = 0 /\ launched = [c \in Call |-> NoDevice]
  /\ handle_guard = {} /\ handle = FALSE /\ made = 0
  /\ guard = {} /\ handleStream = NoStream
  /\ cached = [c \in Cache |-> NoCall] /\ cachedKey = [c \in Cache |-> NoKey]
  /\ live = {} /\ builtFor = [c \in Call |-> NoKey]
  /\ planStream = [c \in Call |-> NoStream]
  /\ queue = [s \in Stream |-> <<>>]
  /\ asked = [c \in Call |-> Unasked]
  /\ pc = [t \in Thread |-> "idle"] /\ n = [t \in Thread |-> 0]

-------------------------------------------------------------------------------
(* Faults: forms of the definitions below with a plausible bug in them,    *)
(* for the runs that must then fail.                                       *)

\* The lock is let go between the stream and the call.
SetStreamUnlocks(t) ==
  /\ pc[t] = "set"
  /\ IF Asked(t).kind = "blas"
       THEN handleStream' = Asked(t).stream /\ UNCHANGED planStream
       ELSE /\ planStream' = [planStream EXCEPT ![cached[Mine(t)]] = Asked(t).stream]
            /\ UNCHANGED handleStream
  /\ guard' = {}
  /\ Goto(t, "enqueue")
  /\ UNCHANGED <<arch, blas, cached, cachedKey, live, builtFor, queue, asked, n>>

\* The handle is looked for without its mutex.
HandleUnlocked(t) ==
  /\ pc[t] = "handle"
  /\ Goto(t, IF handle THEN "lock" ELSE "create")
  /\ UNCHANGED <<arch, blas, guard, handleStream, plans, queue, asked, n>>

\* The memory of the old plan is handed back without waiting for the device.
ReplaceAsync(t) ==
  /\ pc[t] = "replace"
  /\ live' = live \ {cached[Mine(t)]}
  /\ cached' = [cached EXCEPT ![Mine(t)] = This(t)]
  /\ cachedKey' = [cachedKey EXCEPT ![Mine(t)] = Asked(t).key]
  /\ Goto(t, "set")
  /\ UNCHANGED <<arch, blas, guard, handleStream, builtFor, planStream, queue, asked, n>>

\* An error returns with the lock held.
ThrowLocked(t) ==
  /\ pc[t] \in {"build", "set", "enqueue"}
  /\ Goto(t, "idle")
  /\ UNCHANGED <<arch, blas, guard, handleStream, plans, queue, asked, n>>

-------------------------------------------------------------------------------
(* The hand written kernels.                                               *)

\* cudaSetDevice, the caller's.
SetDevice(t, d) ==
  /\ pc[t] = "idle" /\ n[t] < Calls
  /\ device' = [device EXCEPT ![t] = d]
  /\ UNCHANGED <<capability, cc, launched, blas, guard, handleStream, plans, queue, asked, pc, n>>

\* The requests of a thread.  A key is never that of the empty input, from which
\* these functions return at once.
Request(t) ==
  [kind : {"kernel"}, stream : {NoStream}, key : {NoKey}]
    \cup [kind : {"blas"}, stream : StreamsOf[t], key : {NoKey}]
    \cup [kind : {"plan"}, stream : StreamsOf[t], key : Key]

Enter(t, request) ==
  /\ pc[t] = "idle" /\ n[t] < Calls
  /\ n' = [n EXCEPT ![t] = @ + 1]
  /\ asked' = [asked EXCEPT ![<<t, n[t] + 1>>] = request]
  /\ Goto(t, CASE request.kind = "kernel" -> "arch"
               [] request.kind = "blas" -> "handle"
               [] request.kind = "plan" -> "lock")
  /\ UNCHANGED <<arch, blas, guard, handleStream, plans, queue>>

\* require_arch: the first caller of the process asks its current device.
Arch(t) ==
  /\ pc[t] = "arch"
  /\ cc' = IF cc = 0 THEN capability[device[t]] ELSE cc
  /\ Goto(t, IF cc' < Floor THEN "idle" ELSE "launch")
  /\ UNCHANGED <<device, capability, launched, blas, guard, handleStream, plans, queue, asked, n>>

Launch(t) ==
  /\ pc[t] = "launch"
  /\ launched' = [launched EXCEPT ![This(t)] = device[t]]
  /\ Goto(t, "idle")
  /\ UNCHANGED <<device, capability, cc, blas, guard, handleStream, plans, queue, asked, n>>

-------------------------------------------------------------------------------
(* The vendor functions.                                                   *)

\* Context::cublas: the lock and the handle that is there, or its creation, which
\* may be refused and is then tried again by the next call.
Handle(t) ==
  /\ pc[t] = "handle" /\ handle_guard = {}
  /\ IF handle
       THEN Goto(t, "lock") /\ UNCHANGED handle_guard
       ELSE Goto(t, "create") /\ handle_guard' = {t}
  /\ UNCHANGED <<arch, handle, made, guard, handleStream, plans, queue, asked, n>>

Create(t) ==
  /\ pc[t] = "create"
  /\ \/ handle' = TRUE /\ made' = made + 1 /\ Goto(t, "lock")
     \/ Goto(t, "idle") /\ UNCHANGED <<handle, made>>
  /\ handle_guard' = {}
  /\ UNCHANGED <<arch, guard, handleStream, plans, queue, asked, n>>

\* The lock, and the look into the function's cache under it.
Stale(t) == cached[Mine(t)] = NoCall \/ cachedKey[Mine(t)] # Asked(t).key

Lock(t) ==
  /\ pc[t] = "lock" /\ guard = {}
  /\ guard' = {t}
  /\ Goto(t, IF Asked(t).kind = "plan" /\ Stale(t) THEN "build" ELSE "set")
  /\ UNCHANGED <<arch, blas, handleStream, plans, queue, asked, n>>

\* A new plan is built beside the old one.
Build(t) ==
  /\ pc[t] = "build"
  /\ live' = live \cup {This(t)}
  /\ builtFor' = [builtFor EXCEPT ![This(t)] = Asked(t).key]
  /\ Goto(t, "replace")
  /\ UNCHANGED <<arch, blas, guard, handleStream, cached, cachedKey, planStream, queue, asked, n>>

\* The old plan goes; handing its device memory back waits for the device.
Replace(t) ==
  /\ pc[t] = "replace"
  /\ cached[Mine(t)] \in live => DeviceIdle
  /\ live' = live \ {cached[Mine(t)]}
  /\ cached' = [cached EXCEPT ![Mine(t)] = This(t)]
  /\ cachedKey' = [cachedKey EXCEPT ![Mine(t)] = Asked(t).key]
  /\ Goto(t, "set")
  /\ UNCHANGED <<arch, blas, guard, handleStream, builtFor, planStream, queue, asked, n>>

SetStream(t) ==
  /\ pc[t] = "set"
  /\ IF Asked(t).kind = "blas"
       THEN handleStream' = Asked(t).stream /\ UNCHANGED planStream
       ELSE /\ planStream' = [planStream EXCEPT ![cached[Mine(t)]] = Asked(t).stream]
            /\ UNCHANGED handleStream
  /\ Goto(t, "enqueue")
  /\ UNCHANGED <<arch, blas, guard, cached, cachedKey, live, builtFor, queue, asked, n>>

\* The vendor puts the work on the stream its handle is set to.
Enqueue(t) ==
  /\ pc[t] = "enqueue"
  /\ LET onHandle == Asked(t).kind = "blas"
         plan == IF onHandle THEN NoCall ELSE cached[Mine(t)]
         s == IF onHandle THEN handleStream ELSE planStream[plan] IN
       queue' = [queue EXCEPT ![s] = Append(@, [call |-> This(t), plan |-> plan])]
  /\ guard' = guard \ {t}
  /\ Goto(t, "idle")
  /\ UNCHANGED <<arch, blas, handleStream, plans, asked, n>>

\* Building the plan, setting the stream or the call itself is refused.
Throw(t) ==
  /\ pc[t] \in {"build", "set", "enqueue"}
  /\ guard' = guard \ {t}
  /\ Goto(t, "idle")
  /\ UNCHANGED <<arch, blas, handleStream, plans, queue, asked, n>>

\* The device finishes the oldest command of a stream.
Execute(s) ==
  /\ queue[s] # <<>>
  /\ queue' = [queue EXCEPT ![s] = Tail(@)]
  /\ UNCHANGED <<arch, blas, guard, handleStream, plans, asked, pc, n>>

-------------------------------------------------------------------------------
Rest ==
  /\ \A t \in Thread : pc[t] = "idle" /\ n[t] = Calls
  /\ DeviceIdle /\ UNCHANGED vars

Step(t) ==
  \/ Arch(t) \/ Launch(t) \/ Handle(t) \/ Create(t) \/ Lock(t) \/ Build(t)
  \/ Replace(t) \/ SetStream(t) \/ Enqueue(t) \/ Throw(t)

Next ==
  \/ Rest
  \/ \E t \in Thread :
       \/ Step(t)
       \/ \E d \in Device : SetDevice(t, d)
       \/ \E request \in Request(t) : Enter(t, request)
  \/ \E s \in Stream : Execute(s)

\* Every thread and every stream is scheduled.
Fairness ==
  /\ \A t \in Thread : WF_vars(Step(t))
  /\ \A s \in Stream : WF_vars(Execute(s))

Spec == Init /\ [][Next]_vars /\ Fairness

-------------------------------------------------------------------------------
(* Properties.                                                             *)

\* Every variable has its type: the lock has one holder.
TypeOK ==
  /\ device \in [Thread -> Device] /\ capability \in [Device -> {Floor - 1, Floor}]
  /\ cc \in {0, Floor - 1, Floor} /\ launched \in [Call -> Device \cup {NoDevice}]
  /\ handle_guard \subseteq Thread /\ Cardinality(handle_guard) <= 1
  /\ handle \in BOOLEAN /\ made \in Nat
  /\ guard \subseteq Thread /\ Cardinality(guard) <= 1
  /\ handleStream \in Stream \cup {NoStream}
  /\ cached \in [Cache -> Call \cup {NoCall}] /\ cachedKey \in [Cache -> Key \cup {NoKey}]
  /\ live \subseteq Call /\ builtFor \in [Call -> Key \cup {NoKey}]
  /\ planStream \in [Call -> Stream \cup {NoStream}]
  /\ queue \in [Stream -> Seq([call : Call, plan : Call \cup {NoCall}])]
  /\ pc \in [Thread -> PC] /\ n \in [Thread -> 0 .. Calls]

\* Racing calls make one handle, and none is leaked when creation fails.
OneHandle == made = IF handle THEN 1 ELSE 0

\* The work of a call is on the stream the call named, and was given to a plan
\* built for what the call asked, whoever else used the handle or the cache.
OnOwnStream ==
  \A s \in Stream : \A k \in DOMAIN queue[s] :
    LET c == queue[s][k].call
        p == queue[s][k].plan IN
      /\ asked[c].stream = s
      /\ asked[c].kind = "plan" => builtFor[p] = asked[c].key

\* A failed rebuild leaves the cached plan usable, whichever function's, and no
\* plan is left behind.
PlanKept ==
  /\ \A c \in Cache : cached[c] # NoCall =>
       /\ cached[c] \in live /\ builtFor[cached[c]] = cachedKey[c]
       /\ cachedKey[c] \in Key /\ CacheOf[cachedKey[c]] = c
  /\ \A p \in live :
       \/ \E c \in Cache : p = cached[c]
       \/ \E t \in Thread : pc[t] = "replace" /\ p = This(t)

\* Types hold, and the handle and the cache are what their mutexes are there for.
Consistent == TypeOK /\ OneHandle /\ PlanKept

\* A plan is there until the device is done with the work it was given.
PlanOutlivesWork ==
  \A s \in Stream : \A k \in DOMAIN queue[s] : queue[s][k].plan \in live \cup {NoCall}

\* A kernel is never launched on a device below its floor, where its body is
\* compiled out.  So it is where the devices are alike, which is what the runs
\* take; it is not where they differ, as the capability is read only once.
NoEmptyKernel ==
  \A c \in Call : launched[c] # NoDevice => capability[launched[c]] >= Floor

\* Every call returns.
EveryCallReturns == \A t \in Thread : pc[t] # "idle" ~> pc[t] = "idle"
===============================================================================
