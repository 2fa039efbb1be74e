------------------------------- MODULE PlanCache -------------------------------
(***************************************************************************)
(* The C entry points that keep a one entry plan cache, src/api/c_api.cpp: *)
(* ckl_spmv_csr, ckl_fft_c2c, ckl_conv_r2r, ckl_reduce and ckl_scan, with  *)
(* the dispatch calls under them.  The four caches have one shape; this is *)
(* one of them.                                                            *)
(*                                                                         *)
(* A thread makes its calls on the handles it owns, and so on the streams  *)
(* those carry.  A plan is named by the call that built it.  It owns       *)
(* scratch memory on the device, which every call on it first puts in its  *)
(* starting state and then computes in.  Nothing keeps a call from going   *)
(* on with a plan that has been deleted: that is undefined in C++, and the *)
(* model then has the call come out wrong.                                 *)
(***************************************************************************)
EXTENDS Integers, Sequences, FiniteSets

CONSTANTS
  Thread,
  Stream,
  Key,        \* what a cache entry is keyed on: shape, type, operand pointers
  StreamsOf,  \* the streams of each thread's handles
  Calls       \* calls one thread makes

ASSUME CallsAssumption == Calls \in Nat
ASSUME StreamsOfAssumption == StreamsOf \in [Thread -> SUBSET Stream]

Call == Thread \X (1 .. Calls)
NoCall == <<>>
NoKey == [no |-> "key"]
NoStream == [no |-> "stream"]

VARIABLES
  guard,     \* the thread that holds the mutex of the cache, or {} for none
  cached,    \* the plan in the cache, NoCall for none
  cachedKey, \* cached_key
  live,      \* the plans built and not yet deleted
  builtFor,  \* the key each plan was built for
  scratch,   \* the call a plan's scratch memory is in the starting state for
  queue,     \* the commands of each stream
  pc,        \* where each thread is
  n,         \* how many calls it has entered
  request,   \* the key and the stream of the current call
  plan,      \* the plan the current call works on
  result,    \* what its last call returned
  message,   \* the call whose detail last_error holds, NoCall for none
  chosen,    \* has its last call written *chosen?
  output     \* what each call left in its output: "none", "exact" or "garbage"

cache == <<guard, cached, cachedKey, live, builtFor>>
device == <<scratch, queue, output>>
local == <<n, request, plan, result, message, chosen>>
vars == <<cache, device, pc, local>>

PC == {"idle", "acquire", "build", "replace", "query", "clear", "run", "return"}
This(t) == <<t, n[t]>>
Goto(t, l) == pc' = [pc EXCEPT ![t] = l]

Command(kind, p, c) == [kind |-> kind, plan |-> p, call |-> c]
DeviceIdle == \A s \in Stream : queue[s] = <<>>

\* cached_key starts out as a key a caller may well ask for: the empty input.
Init ==
  /\ guard = {} /\ cached = NoCall /\ cachedKey \in Key
  /\ live = {} /\ builtFor = [c \in Call |-> NoKey]
  /\ scratch = [c \in Call |-> NoCall]
  /\ queue = [s \in Stream |-> <<>>]
  /\ output = [c \in Call |-> "none"]
  /\ pc = [t \in Thread |-> "idle"]
  /\ n = [t \in Thread |-> 0]
  /\ request = [t \in Thread |-> [key |-> NoKey, stream |-> NoStream]]
  /\ plan = [t \in Thread |-> NoCall]
  /\ result = [t \in Thread |-> "ok"]
  /\ message = [t \in Thread |-> NoCall]
  /\ chosen = [t \in Thread |-> TRUE]

-------------------------------------------------------------------------------
(* Faults: forms of the definitions below with a plausible bug in them,    *)
(* for the runs that must then fail.                                       *)

\* The key is not recorded with the plan.
ReplaceKeepsKey(t) ==
  /\ pc[t] = "replace"
  /\ cached \in live => DeviceIdle
  /\ live' = live \ {cached}
  /\ cached' = This(t)
  /\ guard' = {}
  /\ plan' = [plan EXCEPT ![t] = This(t)]
  /\ Goto(t, "query")
  /\ UNCHANGED <<cachedKey, builtFor, device, n, request, result, message, chosen>>

\* The memory of the old plan is handed back without waiting for the device.
ReplaceAsync(t) ==
  /\ pc[t] = "replace"
  /\ live' = live \ {cached}
  /\ cached' = This(t) /\ cachedKey' = request[t].key
  /\ guard' = {}
  /\ plan' = [plan EXCEPT ![t] = This(t)]
  /\ Goto(t, "query")
  /\ UNCHANGED <<builtFor, device, n, request, result, message, chosen>>

\* A failing launch does not record its detail.
RefuseSilently(t) ==
  /\ pc[t] \in {"query", "clear", "run"}
  /\ result' = [result EXCEPT ![t] = "error"]
  /\ Goto(t, "return")
  /\ UNCHANGED <<cache, device, n, request, plan, message, chosen>>

-------------------------------------------------------------------------------
(* The entry points up to the cache.                                       *)

\* An entry point with arguments it can check, none of which is at fault.
Enter(t, k, s) ==
  /\ pc[t] = "idle"
  /\ n[t] < Calls
  /\ n' = [n EXCEPT ![t] = @ + 1]
  /\ request' = [request EXCEPT ![t] = [key |-> k, stream |-> s]]
  /\ message' = [message EXCEPT ![t] = NoCall]
  /\ chosen' = [chosen EXCEPT ![t] = FALSE]
  /\ Goto(t, "acquire")
  /\ UNCHANGED <<cache, device, plan, result>>

\* invalid: a null handle, an enum or a length out of range.
EnterInvalid(t) ==
  /\ pc[t] = "idle"
  /\ n[t] < Calls
  /\ n' = [n EXCEPT ![t] = @ + 1]
  /\ message' = [message EXCEPT ![t] = <<t, n[t] + 1>>]
  /\ chosen' = [chosen EXCEPT ![t] = FALSE]
  /\ result' = [result EXCEPT ![t] = "error"]
  /\ UNCHANGED <<cache, device, pc, request, plan>>

\* The mutex is taken and the cache holds the plan: it is handed out and the
\* mutex released on the way out.
Hit(t) ==
  /\ pc[t] = "acquire"
  /\ guard = {}
  /\ cached # NoCall /\ cachedKey = request[t].key
  /\ plan' = [plan EXCEPT ![t] = cached]
  /\ Goto(t, "query")
  /\ UNCHANGED <<cache, device, n, request, result, message, chosen>>

Miss(t) ==
  /\ pc[t] = "acquire"
  /\ guard = {}
  /\ cached = NoCall \/ cachedKey # request[t].key
  /\ guard' = {t}
  /\ Goto(t, "build")
  /\ UNCHANGED <<cached, cachedKey, live, builtFor, device, local>>

\* The constructor of the plan, which may throw on its way: the exception
\* leaves the function, the mutex is released and the entry point records it.
Build(t) ==
  /\ pc[t] = "build"
  /\ \/ /\ live' = live \cup {This(t)}
        /\ builtFor' = [builtFor EXCEPT ![This(t)] = request[t].key]
        /\ Goto(t, "replace")
        /\ UNCHANGED <<guard, result, message>>
     \/ /\ guard' = {}
        /\ result' = [result EXCEPT ![t] = "error"]
        /\ message' = [message EXCEPT ![t] = This(t)]
        /\ Goto(t, "idle")
        /\ UNCHANGED <<live, builtFor>>
  /\ UNCHANGED <<cached, cachedKey, device, n, request, plan, chosen>>

\* delete cached, and the fresh plan in its place.  Deleting a plan frees
\* device memory, and cudaFree returns once the device has come to rest.
Replace(t) ==
  /\ pc[t] = "replace"
  /\ cached \in live => DeviceIdle
  /\ live' = live \ {cached}
  /\ cached' = This(t) /\ cachedKey' = request[t].key
  /\ guard' = {}
  /\ plan' = [plan EXCEPT ![t] = This(t)]
  /\ Goto(t, "query")
  /\ UNCHANGED <<builtFor, device, n, request, result, message, chosen>>

-------------------------------------------------------------------------------
(* The dispatch call on the plan, outside the mutex.                       *)

\* The requested path is settled, or found to be a shape with nothing to do.
Query(t) ==
  /\ pc[t] = "query"
  /\ Goto(t, "clear") \/ Goto(t, "return")
  /\ message' = [message EXCEPT ![t] = NoCall]
  /\ result' = [result EXCEPT ![t] = "ok"]
  /\ UNCHANGED <<cache, device, n, request, plan, chosen>>

\* A null operand, a refused path, or a launch that fails: the status comes
\* back through the ordinary return.
Refuse(t) ==
  /\ pc[t] \in {"query", "clear", "run"}
  /\ result' = [result EXCEPT ![t] = "error"]
  /\ message' = [message EXCEPT ![t] = This(t)]
  /\ Goto(t, "return")
  /\ UNCHANGED <<cache, device, n, request, plan, chosen>>

Enqueue(t, kind) ==
  queue' = [queue EXCEPT ![request[t].stream] = Append(@, Command(kind, plan[t], This(t)))]

\* The memset or the first kernel: the scratch memory starts over.
EnqueueClear(t) ==
  /\ pc[t] = "clear"
  /\ Enqueue(t, "clear")
  /\ Goto(t, "run")
  /\ UNCHANGED <<cache, scratch, output, local>>

EnqueueRun(t) ==
  /\ pc[t] = "run"
  /\ Enqueue(t, "run")
  /\ result' = [result EXCEPT ![t] = "ok"]
  /\ Goto(t, "return")
  /\ UNCHANGED <<cache, scratch, output, n, request, plan, message, chosen>>

\* *chosen is written whatever the status is.
Return(t) ==
  /\ pc[t] = "return"
  /\ chosen' = [chosen EXCEPT ![t] = TRUE]
  /\ Goto(t, "idle")
  /\ UNCHANGED <<cache, device, n, request, plan, result, message>>

-------------------------------------------------------------------------------
(* The device: each stream executes its commands in order.                 *)

ExecuteClear(s) ==
  /\ queue[s] # <<>> /\ Head(queue[s]).kind = "clear"
  /\ scratch' = [scratch EXCEPT ![Head(queue[s]).plan] = Head(queue[s]).call]
  /\ queue' = [queue EXCEPT ![s] = Tail(@)]
  /\ UNCHANGED <<cache, output, pc, local>>

ExecuteRun(s) ==
  /\ queue[s] # <<>> /\ Head(queue[s]).kind = "run"
  /\ LET d == Head(queue[s]) IN
       /\ output' = [output EXCEPT ![d.call] =
            IF d.plan \in live /\ scratch[d.plan] = d.call THEN "exact" ELSE "garbage"]
       /\ scratch' = [scratch EXCEPT ![d.plan] = NoCall]
  /\ queue' = [queue EXCEPT ![s] = Tail(@)]
  /\ UNCHANGED <<cache, pc, local>>

-------------------------------------------------------------------------------
ThreadStep(t) ==
  \/ Hit(t) \/ Miss(t) \/ Build(t) \/ Replace(t)
  \/ Query(t) \/ Refuse(t) \/ EnqueueClear(t) \/ EnqueueRun(t) \/ Return(t)

\* Every call has been made and answered.
Rest == DeviceIdle /\ (\A t \in Thread : pc[t] = "idle" /\ n[t] = Calls) /\ UNCHANGED vars

Next ==
  \/ \E t \in Thread : ThreadStep(t) \/ EnterInvalid(t)
  \/ \E t \in Thread : \E k \in Key : \E s \in StreamsOf[t] : Enter(t, k, s)
  \/ \E s \in Stream : ExecuteClear(s) \/ ExecuteRun(s)
  \/ Rest

Spec == Init /\ [][Next]_vars

-------------------------------------------------------------------------------
(* Properties.                                                             *)

\* Every variable has its type.
TypeOK ==
  /\ guard \in SUBSET Thread
  /\ cached \in Call \cup {NoCall}
  /\ cachedKey \in Key
  /\ live \in SUBSET Call
  /\ builtFor \in [Call -> Key \cup {NoKey}]
  /\ scratch \in [Call -> Call \cup {NoCall}]
  /\ queue \in [Stream -> Seq([kind : {"clear", "run"}, plan : Call, call : Call])]
  /\ output \in [Call -> {"none", "exact", "garbage"}]
  /\ pc \in [Thread -> PC]
  /\ n \in [Thread -> 0 .. Calls]
  /\ request \in [Thread -> [key : Key \cup {NoKey}, stream : Stream \cup {NoStream}]]
  /\ plan \in [Thread -> Call \cup {NoCall}]
  /\ result \in [Thread -> {"ok", "error"}]
  /\ message \in [Thread -> Call \cup {NoCall}]
  /\ chosen \in [Thread -> BOOLEAN]

\* Whatever threads and failed builds have done to it, the cache holds a plan
\* that is alive and was built for the key it is filed under, or nothing.
CacheSound ==
  cached # NoCall => cached \in live /\ builtFor[cached] = cachedKey

\* A call goes on with a plan built for what it asked for.
PlanOfRequest ==
  \A t \in Thread : pc[t] \in {"query", "clear", "run"} => builtFor[plan[t]] = request[t].key

\* No plan is lost: at most the cached one is alive, and the one a thread is
\* about to put in its place.
NoPlanLost ==
  live \subseteq {cached} \cup {This(t) : t \in {u \in Thread : pc[u] = "replace"}}

\* The cache, its key, the plans alive and the requests in progress agree.
Consistent == TypeOK /\ CacheSound /\ PlanOfRequest /\ NoPlanLost

\* When a call has returned, its thread's last_error holds the detail of that
\* call if it failed; if it did not, nothing, and *chosen has been written.
FailureExplained ==
  \A t \in Thread : pc[t] = "idle" /\ n[t] > 0 =>
    IF result[t] = "error"
      THEN message[t] = This(t)
      ELSE message[t] = NoCall /\ chosen[t]

\* *chosen is written on failure too, as the header says of each entry point.
\* A call that is turned away before it has a plan returns without.
ChosenWritten == \A t \in Thread : pc[t] = "idle" /\ n[t] > 0 => chosen[t]

\* A call never works on a plan that another call has deleted.
PlanOutlivesCall ==
  \A t \in Thread : pc[t] \in {"query", "clear", "run"} => plan[t] \in live

\* No call computes in scratch memory that is gone, or that another call has
\* been in since it was cleared.
OutputExact == \A c \in Call : output[c] # "garbage"
===============================================================================
