---------------------------- MODULE PlanCacheProofs ----------------------------
(***************************************************************************)
(* PlanCache for every set of threads, streams and keys and every number   *)
(* of calls; and, for one thread, what it only promises one thread.        *)
(***************************************************************************)
EXTENDS PlanCache, SequenceTheorems, TLAPS

-------------------------------------------------------------------------------
(* The inductive invariant.                                                *)

Waiting == {"acquire", "build", "replace"}
Working == {"query", "clear", "run"}

\* A thread in the middle of a call has entered one.
Entered == \A t \in Thread : pc[t] # "idle" => n[t] > 0

\* One thread at a time builds and replaces, and it holds the mutex.
MutexInv ==
  /\ \A t \in Thread : t \in guard <=> pc[t] \in {"build", "replace"}
  /\ \A t, u \in guard : t = u

\* A plan in the cache or in a caller's hands has the name of a call that has
\* put it there: no call still on its way to its plan has that name.
Named(p) == \A t \in Thread : pc[t] \in Waiting => p # This(t)
NoneAhead(p) == \A t \in Thread : \A i \in 1 .. Calls : i > n[t] => p # <<t, i>>
NameInv ==
  /\ cached # NoCall => Named(cached) /\ NoneAhead(cached)
  /\ \A t \in Thread : plan[t] # NoCall => Named(plan[t]) /\ NoneAhead(plan[t])

\* The plan a thread is about to put in the cache.
FreshInv ==
  \A t \in Thread : pc[t] = "replace" => This(t) \in live /\ builtFor[This(t)] = request[t].key

\* A call past the cache has a plan and a stream to work on.
WorkingInv ==
  \A t \in Thread : /\ pc[t] \in Working => plan[t] \in Call
                    /\ pc[t] # "idle" => request[t].key \in Key /\ request[t].stream \in Stream

\* A failure that has been recorded stays recorded until the next call, and
\* nothing is recorded ahead of one.
MessageInv ==
  \A t \in Thread :
    /\ pc[t] \in {"clear", "run"} => message[t] = NoCall
    /\ pc[t] = "return" => message[t] = IF result[t] = "error" THEN This(t) ELSE NoCall

IInv ==
  /\ TypeOK /\ Entered /\ MutexInv /\ NameInv /\ FreshInv /\ WorkingInv /\ MessageInv
  /\ CacheSound /\ PlanOfRequest /\ NoPlanLost /\ FailureExplained

-------------------------------------------------------------------------------
(* Names of calls.                                                         *)

LEMMA NoCallIsNoCall == NoCall \notin Call
BY DEF NoCall, Call

LEMMA ThisFacts ==
  ASSUME TypeOK, Entered, NEW t \in Thread
  PROVE  /\ n[t] \in 0 .. Calls /\ Calls \in Nat
         /\ pc[t] # "idle" => This(t) \in Call /\ This(t) # NoCall
         /\ \A u \in Thread : u # t => This(u) # This(t)
         /\ \A u \in Thread, i \in Nat : <<u, i>> = This(t) <=> u = t /\ i = n[t]
<1>1. n[t] \in 0 .. Calls /\ Calls \in Nat
  BY CallsAssumption DEF TypeOK
<1>2. pc[t] # "idle" => This(t) \in Call
  BY <1>1 DEF Entered, Call, This
<1> QED
  BY <1>1, <1>2, NoCallIsNoCall DEF This

-------------------------------------------------------------------------------
(* Every step keeps the invariant.                                         *)

LEMMA InitInv == Init => IInv
<1> SUFFICES ASSUME Init PROVE IInv
  OBVIOUS
<1> USE DEF Init
<1>1. TypeOK
  BY CallsAssumption DEF TypeOK, PC
<1>2. Entered /\ MutexInv /\ NameInv /\ FreshInv /\ WorkingInv /\ MessageInv
  BY DEF Entered, MutexInv, NameInv, FreshInv, WorkingInv, MessageInv, Working
<1>3. CacheSound /\ PlanOfRequest /\ NoPlanLost /\ FailureExplained
  BY DEF CacheSound, PlanOfRequest, NoPlanLost, FailureExplained
<1> QED
  BY <1>1, <1>2, <1>3 DEF IInv

LEMMA EnterStep ==
  ASSUME IInv, NEW t \in Thread, NEW k \in Key, NEW s \in StreamsOf[t], Enter(t, k, s)
  PROVE  IInv'
<1>1. /\ pc[t] = "idle" /\ n[t] < Calls
      /\ n' = [n EXCEPT ![t] = n[t] + 1]
      /\ request' = [request EXCEPT ![t] = [key |-> k, stream |-> s]]
      /\ message' = [message EXCEPT ![t] = NoCall]
      /\ chosen' = [chosen EXCEPT ![t] = FALSE]
      /\ pc' = [pc EXCEPT ![t] = "acquire"]
      /\ UNCHANGED <<guard, cached, cachedKey, live, builtFor, scratch, queue, output, plan, result>>
  BY DEF Enter, Goto, cache, device
<1>2. TypeOK /\ Entered /\ n[t] \in Nat /\ Calls \in Nat /\ s \in Stream
  <2>1. TypeOK /\ Entered /\ s \in Stream
    BY StreamsOfAssumption DEF IInv
  <2> QED
    BY <2>1, ThisFacts
<1>3. TypeOK'
  <2>1. n[t] + 1 \in 0 .. Calls
    BY <1>1, <1>2
  <2>2. n' \in [Thread -> 0 .. Calls]
    BY <1>1, <1>2, <2>1 DEF TypeOK
  <2>3. request' \in [Thread -> [key : Key \cup {NoKey}, stream : Stream \cup {NoStream}]]
    BY <1>1, <1>2 DEF TypeOK
  <2> QED
    BY <1>1, <1>2, <2>2, <2>3 DEF TypeOK, PC
<1>4. /\ pc'[t] = "acquire" /\ n'[t] = n[t] + 1 /\ message'[t] = NoCall
      /\ request'[t].key \in Key /\ request'[t].stream \in Stream
      /\ \A u \in Thread : u # t => /\ pc'[u] = pc[u] /\ n'[u] = n[u] /\ message'[u] = message[u]
                                    /\ request'[u] = request[u] /\ chosen'[u] = chosen[u]
                                    /\ This(u)' = This(u)
  BY <1>1, <1>2 DEF TypeOK, This
<1>5. Entered' /\ MutexInv' /\ WorkingInv' /\ MessageInv' /\ FailureExplained'
  BY <1>1, <1>2, <1>4 DEF IInv, Entered, MutexInv, WorkingInv, Working, MessageInv, FailureExplained
<1>6. NameInv'
  <2>1. ASSUME NEW p, Named(p), NoneAhead(p) PROVE Named(p)' /\ NoneAhead(p)'
    <3>1. p # <<t, n[t] + 1>>
      BY <1>1, <1>2, <2>1 DEF NoneAhead
    <3>2. Named(p)'
      BY <1>2, <1>4, <2>1, <3>1 DEF Named, This
    <3>3. NoneAhead(p)'
      BY <1>2, <1>4, <2>1 DEF NoneAhead
    <3> QED
      BY <3>2, <3>3
  <2> QED
    BY <1>1, <2>1 DEF IInv, NameInv
<1>7. FreshInv' /\ CacheSound' /\ PlanOfRequest' /\ NoPlanLost'
  BY <1>1, <1>2, <1>4 DEF IInv, FreshInv, CacheSound, PlanOfRequest, NoPlanLost
<1> QED
  BY <1>3, <1>5, <1>6, <1>7 DEF IInv

LEMMA EnterInvalidStep ==
  ASSUME IInv, NEW t \in Thread, EnterInvalid(t)
  PROVE  IInv'
<1>1. /\ pc[t] = "idle" /\ n[t] < Calls
      /\ n' = [n EXCEPT ![t] = n[t] + 1]
      /\ message' = [message EXCEPT ![t] = <<t, n[t] + 1>>]
      /\ chosen' = [chosen EXCEPT ![t] = FALSE]
      /\ result' = [result EXCEPT ![t] = "error"]
      /\ UNCHANGED <<guard, cached, cachedKey, live, builtFor, scratch, queue, output, pc, request, plan>>
  BY DEF EnterInvalid, cache, device
<1>2. TypeOK /\ Entered /\ n[t] \in Nat /\ Calls \in Nat
  <2>1. TypeOK /\ Entered
    BY DEF IInv
  <2> QED
    BY <2>1, ThisFacts
<1>3. TypeOK'
  <2>1. <<t, n[t] + 1>> \in Call
    BY <1>1, <1>2 DEF Call
  <2>2. n[t] + 1 \in 0 .. Calls
    BY <1>1, <1>2
  <2>3. n' \in [Thread -> 0 .. Calls]
    BY <1>1, <1>2, <2>2 DEF TypeOK
  <2>4. message' \in [Thread -> Call \cup {NoCall}]
    BY <1>1, <1>2, <2>1 DEF TypeOK
  <2> QED
    BY <1>1, <1>2, <2>3, <2>4 DEF TypeOK
<1>4. /\ n'[t] = n[t] + 1 /\ message'[t] = <<t, n[t] + 1>> /\ result'[t] = "error"
      /\ \A u \in Thread : u # t => /\ n'[u] = n[u] /\ message'[u] = message[u] /\ result'[u] = result[u]
                                    /\ chosen'[u] = chosen[u] /\ This(u)' = This(u)
  BY <1>1, <1>2 DEF TypeOK, This
<1>5. Entered' /\ MutexInv' /\ WorkingInv' /\ MessageInv' /\ FailureExplained'
  BY <1>1, <1>2, <1>4
     DEF IInv, Entered, MutexInv, WorkingInv, Working, MessageInv, FailureExplained, This
<1>6. NameInv'
  <2>1. ASSUME NEW p, Named(p), NoneAhead(p) PROVE Named(p)' /\ NoneAhead(p)'
    BY <1>1, <1>2, <1>4, <2>1 DEF Named, Waiting, NoneAhead, TypeOK
  <2> QED
    BY <1>1, <2>1 DEF IInv, NameInv
<1>7. FreshInv' /\ CacheSound' /\ PlanOfRequest' /\ NoPlanLost'
  BY <1>1, <1>2, <1>4 DEF IInv, FreshInv, CacheSound, PlanOfRequest, NoPlanLost
<1> QED
  BY <1>3, <1>5, <1>6, <1>7 DEF IInv

\* A step that enters no call keeps every call's name.
LEMMA NameFrame ==
  ASSUME n' = n
  PROVE  /\ \A t : This(t)' = This(t)
         /\ \A p : NoneAhead(p)' <=> NoneAhead(p)
         /\ (\A t \in Thread : pc'[t] \in Waiting => pc[t] \in Waiting) =>
              \A p : Named(p) => Named(p)'
BY DEF This, NoneAhead, Named

LEMMA HitMissStep ==
  ASSUME IInv, NEW t \in Thread, Hit(t) \/ Miss(t)
  PROVE  IInv'
<1>1. TypeOK /\ Entered /\ MutexInv
  BY DEF IInv
<1>2. CASE Hit(t)
  <2>1. /\ pc[t] = "acquire" /\ guard = {} /\ cached # NoCall /\ cachedKey = request[t].key
        /\ plan' = [plan EXCEPT ![t] = cached]
        /\ pc' = [pc EXCEPT ![t] = "query"]
        /\ UNCHANGED <<guard, cached, cachedKey, live, builtFor, scratch, queue, output, n, request,
                       result, message, chosen>>
    BY <1>2 DEF Hit, Goto, cache, device
  <2>2. TypeOK'
    BY <1>1, <2>1 DEF TypeOK, PC
  <2>3. /\ pc'[t] = "query" /\ plan'[t] = cached
        /\ \A u \in Thread : u # t => pc'[u] = pc[u] /\ plan'[u] = plan[u]
    BY <1>1, <2>1 DEF TypeOK
  <2>4. Entered' /\ MutexInv' /\ FreshInv' /\ MessageInv' /\ FailureExplained'
    BY <2>1, <2>3, NameFrame DEF IInv, Entered, MutexInv, FreshInv, MessageInv, FailureExplained
  <2>5. WorkingInv' /\ CacheSound' /\ PlanOfRequest' /\ NoPlanLost'
    BY <1>1, <2>1, <2>3, NameFrame
       DEF IInv, WorkingInv, Working, CacheSound, PlanOfRequest, NoPlanLost, TypeOK
  <2>6. NameInv'
    <3>1. \A u \in Thread : pc'[u] \in Waiting => pc[u] \in Waiting
      BY <2>3 DEF Waiting
    <3> QED
      BY <2>1, <2>3, <3>1, NameFrame DEF IInv, NameInv
  <2> QED
    BY <2>2, <2>4, <2>5, <2>6 DEF IInv
<1>3. CASE Miss(t)
  <2>1. /\ pc[t] = "acquire" /\ guard = {} /\ guard' = {t}
        /\ pc' = [pc EXCEPT ![t] = "build"]
        /\ UNCHANGED <<cached, cachedKey, live, builtFor, scratch, queue, output, n, request, plan,
                       result, message, chosen>>
    BY <1>3 DEF Miss, Goto, device, local
  <2>2. TypeOK'
    BY <1>1, <2>1 DEF TypeOK, PC
  <2>3. /\ pc'[t] = "build"
        /\ \A u \in Thread : u # t => pc'[u] = pc[u]
    BY <1>1, <2>1 DEF TypeOK
  <2>4. Entered' /\ MutexInv' /\ FreshInv' /\ MessageInv' /\ FailureExplained'
    BY <2>1, <2>3, NameFrame DEF IInv, Entered, MutexInv, FreshInv, MessageInv, FailureExplained
  <2>5. WorkingInv' /\ CacheSound' /\ PlanOfRequest' /\ NoPlanLost'
    BY <1>1, <2>1, <2>3, NameFrame
       DEF IInv, WorkingInv, Working, CacheSound, PlanOfRequest, NoPlanLost, TypeOK
  <2>6. NameInv'
    <3>1. \A u \in Thread : pc'[u] \in Waiting => pc[u] \in Waiting
      BY <2>1, <2>3 DEF Waiting
    <3> QED
      BY <2>1, <2>3, <3>1, NameFrame DEF IInv, NameInv
  <2> QED
    BY <2>2, <2>4, <2>5, <2>6 DEF IInv
<1> QED
  BY <1>2, <1>3

LEMMA BuildStep ==
  ASSUME IInv, NEW t \in Thread, Build(t)
  PROVE  IInv'
<1>1. /\ TypeOK /\ Entered /\ MutexInv /\ pc[t] = "build"
      /\ UNCHANGED <<cached, cachedKey, scratch, queue, output, n, request, plan, chosen>>
  BY DEF IInv, Build, device
<1>2. /\ This(t) \in Call /\ This(t) # NoCall
      /\ \A u \in Thread : u # t => This(u) # This(t)
      /\ \A u \in Thread : u # t => pc[u] \notin {"build", "replace"}
      /\ request[t].key \in Key
  BY <1>1, ThisFacts DEF MutexInv, IInv, WorkingInv
<1>3. /\ cached # NoCall => cached # This(t)
      /\ \A u \in Thread : plan[u] # NoCall => plan[u] # This(t)
  BY <1>1 DEF IInv, NameInv, Named, Waiting
<1>4. CASE /\ live' = live \cup {This(t)}
           /\ builtFor' = [builtFor EXCEPT ![This(t)] = request[t].key]
           /\ pc' = [pc EXCEPT ![t] = "replace"]
           /\ UNCHANGED <<guard, result, message>>
  <2>1. TypeOK'
    BY <1>1, <1>2, <1>4 DEF TypeOK, PC
  <2>2. /\ pc'[t] = "replace" /\ builtFor'[This(t)] = request[t].key
        /\ \A u \in Thread : u # t => pc'[u] = pc[u]
        /\ \A p \in Call : p # This(t) => builtFor'[p] = builtFor[p]
    BY <1>1, <1>2, <1>4 DEF TypeOK
  <2>3. Entered' /\ MutexInv' /\ MessageInv' /\ FailureExplained' /\ FreshInv'
    BY <1>1, <1>2, <1>4, <2>2, NameFrame
       DEF IInv, Entered, MutexInv, FreshInv, MessageInv, FailureExplained
  <2>4. WorkingInv' /\ CacheSound'
    BY <1>1, <1>2, <1>3, <1>4, <2>2, NameFrame DEF IInv, WorkingInv, Working, CacheSound, TypeOK
  <2>5. PlanOfRequest'
    BY <1>1, <1>2, <1>3, <1>4, <2>2, NoCallIsNoCall DEF IInv, PlanOfRequest, WorkingInv, Working
  <2>6. NoPlanLost'
    BY <1>1, <1>2, <1>4, <2>2, NameFrame DEF IInv, NoPlanLost
  <2>7. NameInv'
    <3>1. \A u \in Thread : pc'[u] \in Waiting => pc[u] \in Waiting
      BY <1>1, <2>2 DEF Waiting
    <3> QED
      BY <1>1, <3>1, NameFrame DEF IInv, NameInv
  <2> QED
    BY <2>1, <2>3, <2>4, <2>5, <2>6, <2>7 DEF IInv
<1>5. CASE /\ guard' = {}
           /\ result' = [result EXCEPT ![t] = "error"]
           /\ message' = [message EXCEPT ![t] = This(t)]
           /\ pc' = [pc EXCEPT ![t] = "idle"]
           /\ UNCHANGED <<live, builtFor>>
  <2>1. TypeOK'
    BY <1>1, <1>2, <1>5 DEF TypeOK, PC
  <2>2. /\ pc'[t] = "idle" /\ result'[t] = "error" /\ message'[t] = This(t)
        /\ \A u \in Thread : u # t => pc'[u] = pc[u] /\ result'[u] = result[u] /\ message'[u] = message[u]
    BY <1>1, <1>2, <1>5 DEF TypeOK
  <2>3. Entered' /\ MutexInv' /\ MessageInv' /\ FailureExplained' /\ FreshInv'
    BY <1>1, <1>2, <1>5, <2>2, NameFrame
       DEF IInv, Entered, MutexInv, FreshInv, MessageInv, FailureExplained
  <2>4. WorkingInv' /\ CacheSound' /\ PlanOfRequest' /\ NoPlanLost'
    BY <1>1, <1>2, <1>5, <2>2, NameFrame
       DEF IInv, WorkingInv, Working, CacheSound, PlanOfRequest, NoPlanLost
  <2>5. NameInv'
    <3>1. \A u \in Thread : pc'[u] \in Waiting => pc[u] \in Waiting
      BY <1>1, <2>2 DEF Waiting
    <3> QED
      BY <1>1, <3>1, NameFrame DEF IInv, NameInv
  <2> QED
    BY <2>1, <2>3, <2>4, <2>5 DEF IInv
<1> QED
  BY <1>4, <1>5 DEF Build, Goto

LEMMA ReplaceStep ==
  ASSUME IInv, NEW t \in Thread, Replace(t)
  PROVE  IInv'
<1>1. /\ TypeOK /\ Entered /\ MutexInv /\ pc[t] = "replace"
      /\ live' = live \ {cached}
      /\ cached' = This(t) /\ cachedKey' = request[t].key
      /\ guard' = {}
      /\ plan' = [plan EXCEPT ![t] = This(t)]
      /\ pc' = [pc EXCEPT ![t] = "query"]
      /\ UNCHANGED <<builtFor, scratch, queue, output, n, request, result, message, chosen>>
  BY DEF IInv, Replace, Goto, device
<1>2. /\ This(t) \in Call /\ This(t) # NoCall
      /\ \A u \in Thread : u # t => This(u) # This(t)
      /\ \A u \in Thread : u # t => pc[u] \notin {"build", "replace"}
      /\ request[t].key \in Key
      /\ This(t) \in live /\ builtFor[This(t)] = request[t].key
  BY <1>1, ThisFacts DEF MutexInv, IInv, WorkingInv, FreshInv
<1>3. cached # This(t)
  BY <1>1, <1>2 DEF IInv, NameInv, Named, Waiting
<1>4. /\ pc'[t] = "query" /\ plan'[t] = This(t)
      /\ \A u \in Thread : u # t => pc'[u] = pc[u] /\ plan'[u] = plan[u]
  BY <1>1 DEF TypeOK
<1>5. TypeOK'
  BY <1>1, <1>2 DEF TypeOK, PC
<1>6. Entered' /\ MutexInv' /\ MessageInv' /\ FailureExplained' /\ FreshInv'
  BY <1>1, <1>2, <1>4, NameFrame DEF IInv, Entered, MutexInv, FreshInv, MessageInv, FailureExplained
<1>7. WorkingInv' /\ CacheSound' /\ PlanOfRequest'
  BY <1>1, <1>2, <1>3, <1>4 DEF IInv, WorkingInv, Working, CacheSound, PlanOfRequest
<1>8. NoPlanLost'
  BY <1>1, <1>2, <1>4 DEF IInv, NoPlanLost
<1>9. NameInv'
  <2>1. \A u \in Thread : pc'[u] \in Waiting => pc[u] \in Waiting /\ u # t
    BY <1>4 DEF Waiting
  <2>2. \A u \in Thread : This(u)' = This(u)
    BY <1>1, NameFrame
  <2>3. \A u \in Thread : pc'[u] \in Waiting => This(t) # This(u)
    BY <1>2, <2>1
  <2>4. \A u \in Thread : \A i \in 1 .. Calls : i > n[u] => This(t) # <<u, i>>
    <3>1. \A u \in Thread : n[u] \in Nat
      BY <1>1, ThisFacts
    <3> QED
      BY <3>1 DEF This
  <2>5. (Named(cached) /\ NoneAhead(cached))'
    BY <1>1, <2>2, <2>3, <2>4 DEF Named, NoneAhead
  <2>6. ASSUME NEW u \in Thread, plan'[u] # NoCall PROVE (Named(plan[u]) /\ NoneAhead(plan[u]))'
    <3>1. CASE u = t
      BY <1>1, <1>4, <2>2, <2>3, <2>4, <3>1 DEF Named, NoneAhead
    <3>2. CASE u # t
      <4>1. Named(plan[u]) /\ NoneAhead(plan[u]) /\ plan'[u] = plan[u]
        BY <1>4, <2>6, <3>2 DEF IInv, NameInv
      <4> QED
        BY <1>1, <2>1, <2>2, <4>1 DEF Named, NoneAhead
    <3> QED
      BY <3>1, <3>2
  <2> QED
    BY <2>5, <2>6 DEF NameInv
<1> QED
  BY <1>5, <1>6, <1>7, <1>8, <1>9 DEF IInv

\* A step past the cache, on the host or on the device, leaves to show what it
\* makes of the thread's result.
LEMMA PastCache ==
  ASSUME IInv, TypeOK', MessageInv', FailureExplained',
         UNCHANGED <<guard, cached, cachedKey, live, builtFor, n, request, plan>>,
         \A t \in Thread : \/ pc'[t] = pc[t]
                           \/ pc[t] \in Working /\ pc'[t] \in Working \cup {"return"}
                           \/ pc[t] = "return" /\ pc'[t] = "idle"
  PROVE  IInv'
<1>1. \A t \in Thread : pc'[t] \in Waiting => pc[t] \in Waiting
  BY DEF Waiting, Working
<1>2. \A t \in Thread : /\ pc'[t] \in {"build", "replace"} <=> pc[t] \in {"build", "replace"}
                        /\ pc'[t] = "replace" <=> pc[t] = "replace"
                        /\ pc'[t] # "idle" => pc[t] # "idle"
                        /\ pc'[t] \in Working => pc[t] \in Working
  BY DEF Working
<1>3. Entered' /\ MutexInv' /\ FreshInv' /\ NoPlanLost' /\ CacheSound'
  BY <1>2, NameFrame DEF IInv, Entered, MutexInv, FreshInv, NoPlanLost, CacheSound
<1>4. WorkingInv' /\ PlanOfRequest'
  BY <1>2 DEF IInv, WorkingInv, PlanOfRequest, Working
<1>5. NameInv'
  BY <1>1, NameFrame DEF IInv, NameInv
<1> QED
  BY <1>3, <1>4, <1>5 DEF IInv

Commands == [kind : {"clear", "run"}, plan : Call, call : Call]

LEMMA QueueTypes ==
  ASSUME TypeOK
  PROVE  /\ queue \in [Stream -> Seq(Commands)]
         /\ \A s \in Stream, d \in Commands : Append(queue[s], d) \in Seq(Commands)
         /\ \A s \in Stream : queue[s] # <<>> =>
              Head(queue[s]) \in Commands /\ Tail(queue[s]) \in Seq(Commands)
<1>1. queue \in [Stream -> Seq(Commands)]
  BY DEF TypeOK, Commands
<1> QED
  BY <1>1, HeadTailProperties

LEMMA DispatchStep ==
  ASSUME IInv, NEW t \in Thread,
         Query(t) \/ Refuse(t) \/ EnqueueClear(t) \/ EnqueueRun(t) \/ Return(t)
  PROVE  IInv'
<1>1. /\ TypeOK /\ Entered /\ MessageInv /\ FailureExplained
      /\ pc[t] \in Working \cup {"return"}
      /\ pc[t] # "idle"
  BY DEF IInv, Query, Refuse, EnqueueClear, EnqueueRun, Return, Working
<1>2. This(t) \in Call /\ This(t) # NoCall /\ This(t)' = This(t)
  BY <1>1, ThisFacts DEF Query, Refuse, EnqueueClear, EnqueueRun, Return, local, This
<1>3. CASE Query(t) \/ Refuse(t) \/ Return(t)
  <2>1. /\ UNCHANGED <<guard, cached, cachedKey, live, builtFor, scratch, queue, output, n, request, plan>>
        /\ \/ /\ pc[t] = "query" /\ chosen' = chosen
              /\ \/ pc' = [pc EXCEPT ![t] = "clear"]
                 \/ pc' = [pc EXCEPT ![t] = "return"]
              /\ message' = [message EXCEPT ![t] = NoCall]
              /\ result' = [result EXCEPT ![t] = "ok"]
           \/ /\ pc[t] \in Working /\ chosen' = chosen
              /\ pc' = [pc EXCEPT ![t] = "return"]
              /\ message' = [message EXCEPT ![t] = This(t)]
              /\ result' = [result EXCEPT ![t] = "error"]
           \/ /\ pc[t] = "return"
              /\ pc' = [pc EXCEPT ![t] = "idle"]
              /\ chosen' = [chosen EXCEPT ![t] = TRUE]
              /\ UNCHANGED <<message, result>>
    BY <1>3 DEF Query, Refuse, Return, Goto, Working, cache, device
  <2>2. TypeOK'
    <3>1. pc' \in [Thread -> PC]
      BY <1>1, <2>1 DEF TypeOK, PC
    <3>2. message' \in [Thread -> Call \cup {NoCall}]
      BY <1>1, <1>2, <2>1 DEF TypeOK
    <3>3. result' \in [Thread -> {"ok", "error"}] /\ chosen' \in [Thread -> BOOLEAN]
      BY <1>1, <2>1 DEF TypeOK
    <3> QED
      BY <1>1, <2>1, <3>1, <3>2, <3>3 DEF TypeOK
  <2>3. \A u \in Thread : u # t => /\ pc'[u] = pc[u] /\ message'[u] = message[u]
                                   /\ result'[u] = result[u] /\ chosen'[u] = chosen[u]
    BY <1>1, <2>1 DEF TypeOK
  <2>4. \/ /\ pc[t] = "query" /\ pc'[t] \in {"clear", "return"}
           /\ message'[t] = NoCall /\ result'[t] = "ok"
        \/ /\ pc[t] \in Working /\ pc'[t] = "return"
           /\ message'[t] = This(t) /\ result'[t] = "error"
        \/ /\ pc[t] = "return" /\ pc'[t] = "idle" /\ chosen'[t] = TRUE
           /\ message'[t] = message[t] /\ result'[t] = result[t]
    BY <1>1, <2>1 DEF TypeOK
  <2>5. MessageInv' /\ FailureExplained'
    BY <1>1, <1>2, <2>1, <2>3, <2>4, NameFrame DEF MessageInv, FailureExplained
  <2>6. \A u \in Thread : \/ pc'[u] = pc[u]
                          \/ pc[u] \in Working /\ pc'[u] \in Working \cup {"return"}
                          \/ pc[u] = "return" /\ pc'[u] = "idle"
    BY <2>3, <2>4 DEF Working
  <2> QED
    BY <2>1, <2>2, <2>5, <2>6, PastCache
<1>4. CASE EnqueueClear(t) \/ EnqueueRun(t)
  <2>1. PICK kind \in {"clear", "run"} :
          queue' = [queue EXCEPT ![request[t].stream] = Append(@, Command(kind, plan[t], This(t)))]
    BY <1>4 DEF EnqueueClear, EnqueueRun, Enqueue
  <2>2. /\ UNCHANGED <<guard, cached, cachedKey, live, builtFor, scratch, output, n, request, plan,
                       message, chosen>>
        /\ \/ pc[t] = "clear" /\ pc' = [pc EXCEPT ![t] = "run"] /\ result' = result
           \/ /\ pc[t] = "run" /\ pc' = [pc EXCEPT ![t] = "return"]
              /\ result' = [result EXCEPT ![t] = "ok"]
    BY <1>4 DEF EnqueueClear, EnqueueRun, Goto, cache, local
  <2>3. TypeOK'
    <3>1. plan[t] \in Call
      BY <2>2 DEF IInv, WorkingInv, Working
    <3>2. Command(kind, plan[t], This(t)) \in Commands
      BY <1>2, <3>1 DEF Command, Commands
    <3>3. request[t].stream \in Stream
      BY <1>1 DEF IInv, WorkingInv
    <3>4. queue' \in [Stream -> Seq(Commands)]
      BY <1>1, <2>1, <3>2, <3>3, QueueTypes
    <3> QED
      BY <1>1, <2>2, <3>4 DEF TypeOK, PC, Commands
  <2>4. /\ \A u \in Thread : u # t => pc'[u] = pc[u] /\ result'[u] = result[u]
        /\ \/ pc[t] = "clear" /\ pc'[t] = "run"
           \/ pc[t] = "run" /\ pc'[t] = "return" /\ result'[t] = "ok"
    BY <1>1, <2>2 DEF TypeOK
  <2>5. MessageInv' /\ FailureExplained'
    BY <1>1, <1>2, <2>2, <2>4, NameFrame DEF MessageInv, FailureExplained
  <2>6. \A u \in Thread : \/ pc'[u] = pc[u]
                          \/ pc[u] \in Working /\ pc'[u] \in Working \cup {"return"}
                          \/ pc[u] = "return" /\ pc'[u] = "idle"
    BY <2>4 DEF Working
  <2> QED
    BY <2>2, <2>3, <2>5, <2>6, PastCache
<1> QED
  BY <1>3, <1>4

LEMMA DeviceStep ==
  ASSUME IInv, NEW s \in Stream, ExecuteClear(s) \/ ExecuteRun(s)
  PROVE  IInv'
<1>1. /\ UNCHANGED <<guard, cached, cachedKey, live, builtFor, pc, n, request, plan, result, message, chosen>>
      /\ queue[s] # <<>>
      /\ queue' = [queue EXCEPT ![s] = Tail(queue[s])]
      /\ \/ /\ scratch' = [scratch EXCEPT ![Head(queue[s]).plan] = Head(queue[s]).call]
            /\ output' = output
         \/ /\ scratch' = [scratch EXCEPT ![Head(queue[s]).plan] = NoCall]
            /\ \E o \in {"exact", "garbage"} : output' = [output EXCEPT ![Head(queue[s]).call] = o]
  BY DEF ExecuteClear, ExecuteRun, cache, local
<1>2. TypeOK
  BY DEF IInv
<1>3. Head(queue[s]) \in Commands /\ Tail(queue[s]) \in Seq(Commands)
  BY <1>1, <1>2, QueueTypes
<1>4. queue' \in [Stream -> Seq(Commands)]
  BY <1>1, <1>2, <1>3, QueueTypes
<1>5. Head(queue[s]).plan \in Call /\ Head(queue[s]).call \in Call
  BY <1>3 DEF Commands
<1>6. scratch' \in [Call -> Call \cup {NoCall}] /\ output' \in [Call -> {"none", "exact", "garbage"}]
  BY <1>1, <1>2, <1>5 DEF TypeOK
<1>7. TypeOK'
  BY <1>1, <1>2, <1>4, <1>6 DEF TypeOK, Commands
<1>8. MessageInv' /\ FailureExplained'
  BY <1>1, NameFrame DEF IInv, MessageInv, FailureExplained
<1> QED
  BY <1>1, <1>7, <1>8, PastCache

LEMMA StepInv == IInv /\ [Next]_vars => IInv'
<1> SUFFICES ASSUME IInv, [Next]_vars PROVE IInv'
  OBVIOUS
<1>1. CASE UNCHANGED vars
  <2>1. UNCHANGED <<guard, cached, cachedKey, live, builtFor, scratch, queue, output, pc, n, request,
                    plan, result, message, chosen>>
    BY <1>1 DEF vars, cache, device, local
  <2>2. TypeOK' /\ MessageInv' /\ FailureExplained'
    BY <2>1, NameFrame DEF IInv, TypeOK, MessageInv, FailureExplained
  <2> QED
    BY <2>1, <2>2, PastCache
<1>2. ASSUME NEW t \in Thread, ThreadStep(t) \/ EnterInvalid(t) PROVE IInv'
  BY <1>2, HitMissStep, BuildStep, ReplaceStep, DispatchStep, EnterInvalidStep DEF ThreadStep
<1>3. ASSUME NEW t \in Thread, NEW k \in Key, NEW s \in StreamsOf[t], Enter(t, k, s) PROVE IInv'
  BY <1>3, EnterStep
<1> QED
  BY <1>1, <1>2, <1>3, DeviceStep DEF Next, Rest

LEMMA Invariance == Spec => []IInv
BY InitInv, StepInv, PTL DEF Spec

-------------------------------------------------------------------------------
(* The theorems, for every set of threads.                                 *)

\* However calls of several threads and failed builds interleave, the cache
\* holds a plan that is alive and built for the key it is filed under, a call
\* goes on with a plan built for what it asked for, and no plan is lost.
THEOREM ConsistentHolds == Spec => []Consistent
<1>1. IInv => Consistent
  BY DEF IInv, Consistent
<1> QED
  BY <1>1, Invariance, PTL

\* What last_error says when a call returns is about that call, whichever way
\* it came out, and *chosen has been written if it succeeded.
THEOREM FailureIsExplained == Spec => []FailureExplained
<1>1. IInv => FailureExplained
  BY DEF IInv
<1> QED
  BY <1>1, Invariance, PTL

-------------------------------------------------------------------------------
(* One thread.                                                             *)

\* Nobody but the thread itself deletes plans, and it has none in its hands
\* when it does.
KeepsPlan(t) == pc[t] \in Working => plan[t] \in live

LEMMA KeepsPlanStep ==
  ASSUME NEW t, Thread = {t}, IInv, KeepsPlan(t), [Next]_vars
  PROVE  KeepsPlan(t)'
<1>1. TypeOK
  BY DEF IInv
<1>2. CASE UNCHANGED <<pc, plan, live>>
  BY <1>2 DEF KeepsPlan
<1>3. CASE EnterInvalid(t) \/ (\E z \in Stream : ExecuteClear(z) \/ ExecuteRun(z)) \/ Rest \/ UNCHANGED vars
  BY <1>2, <1>3 DEF EnterInvalid, ExecuteClear, ExecuteRun, Rest, vars, cache, device, local
<1>4. CASE (\E k \in Key : \E z \in StreamsOf[t] : Enter(t, k, z)) \/ Miss(t) \/ Build(t)
  <2>1. pc'[t] \notin Working
    BY <1>1, <1>4 DEF Enter, Miss, Build, Goto, Working, TypeOK
  <2> QED
    BY <2>1 DEF KeepsPlan
<1>5. CASE Hit(t)
  <2>1. plan'[t] = cached /\ cached # NoCall /\ live' = live
    BY <1>1, <1>5 DEF Hit, cache, TypeOK
  <2> QED
    BY <2>1 DEF KeepsPlan, IInv, CacheSound
<1>6. CASE Replace(t)
  <2>1. plan'[t] = This(t) /\ live' = live \ {cached} /\ pc[t] = "replace"
    BY <1>1, <1>6 DEF Replace, TypeOK
  <2>2. This(t) \in live /\ This(t) # cached
    <3>1. This(t) \in live
      BY <2>1 DEF IInv, FreshInv
    <3>2. This(t) # NoCall
      BY <1>1, <2>1, ThisFacts DEF IInv
    <3> QED
      BY <2>1, <3>1, <3>2 DEF IInv, NameInv, Named, Waiting
  <2> QED
    BY <2>1, <2>2 DEF KeepsPlan
<1>7. CASE Query(t) \/ Refuse(t) \/ EnqueueClear(t) \/ EnqueueRun(t) \/ Return(t)
  <2>1. UNCHANGED <<plan, live>> /\ (pc'[t] \in Working => pc[t] \in Working)
    BY <1>1, <1>7 DEF Query, Refuse, EnqueueClear, EnqueueRun, Return, Goto, Working, cache, local, TypeOK
  <2> QED
    BY <2>1 DEF KeepsPlan
<1> QED
  BY <1>3, <1>4, <1>5, <1>6, <1>7 DEF Next, ThreadStep

\* Where one thread makes all the calls a plan lives as long as the call that
\* works on it: only a second thread can delete it underneath.
THEOREM OneThreadKeepsItsPlan ==
  ASSUME NEW t, Thread = {t}
  PROVE  Spec => []PlanOutlivesCall
<1>1. Init => KeepsPlan(t)
  BY DEF Init, KeepsPlan, Working
<1>2. IInv /\ KeepsPlan(t) /\ [Next]_vars => KeepsPlan(t)'
  BY KeepsPlanStep
<1>3. KeepsPlan(t) => PlanOutlivesCall
  BY DEF KeepsPlan, PlanOutlivesCall, Working
<1> QED
  BY <1>1, <1>2, <1>3, Invariance, PTL DEF Spec

-------------------------------------------------------------------------------
(* One thread on one stream.                                               *)

\* Every command works on a plan that is alive, and what runs was cleared for
\* the same call right before it.
Cleared(q, i) ==
  q[i].kind = "run" =>
    IF i = 1 THEN scratch[q[i].plan] = q[i].call
    ELSE q[i - 1] = Command("clear", q[i].plan, q[i].call)
StreamInv(t, s) ==
  /\ \A z \in Stream \ {s} : queue[z] = <<>>
  /\ pc[t] # "idle" => request[t].stream = s
  /\ \A i \in 1 .. Len(queue[s]) : queue[s][i].plan \in live /\ Cleared(queue[s], i)
  /\ pc[t] = "run" =>
       IF queue[s] = <<>> THEN scratch[plan[t]] = This(t)
       ELSE queue[s][Len(queue[s])] = Command("clear", plan[t], This(t))
  /\ OutputExact

LEMMA HostStreamStep ==
  ASSUME NEW t, NEW s \in Stream, Thread = {t}, StreamsOf[t] \subseteq {s},
         TypeOK, StreamInv(t, s),
         \/ Hit(t) \/ Miss(t) \/ Build(t) \/ Replace(t) \/ Query(t) \/ Refuse(t) \/ Return(t)
         \/ EnterInvalid(t) \/ \E k \in Key : \E z \in StreamsOf[t] : Enter(t, k, z)
  PROVE  StreamInv(t, s)'
<1>1. UNCHANGED <<scratch, queue, output>>
  BY DEF Hit, Miss, Build, Replace, Query, Refuse, Return, EnterInvalid, Enter, device
<1>2. pc'[t] # "run"
  <2>1. CASE EnterInvalid(t)
    BY <2>1 DEF EnterInvalid
  <2>2. CASE ~EnterInvalid(t)
    BY <2>2 DEF Hit, Miss, Build, Replace, Query, Refuse, Return, Enter, Goto, TypeOK
  <2> QED
    BY <2>1, <2>2
<1>3. pc'[t] # "idle" => request'[t].stream = s
  <2>1. CASE \E k \in Key : \E z \in StreamsOf[t] : Enter(t, k, z)
    BY <2>1 DEF Enter, TypeOK
  <2>2. CASE EnterInvalid(t)
    BY <2>2 DEF EnterInvalid
  <2>3. CASE Hit(t) \/ Miss(t) \/ Build(t) \/ Replace(t) \/ Query(t) \/ Refuse(t) \/ Return(t)
    <3>1. request' = request /\ pc[t] # "idle"
      BY <2>3 DEF Hit, Miss, Build, Replace, Query, Refuse, Return, local
    <3> QED
      BY <3>1 DEF StreamInv
  <2> QED
    BY <2>1, <2>2, <2>3
<1>4. live \subseteq live' \/ queue[s] = <<>>
  <2>1. CASE Replace(t)
    BY <2>1 DEF Replace, DeviceIdle
  <2>2. CASE ~Replace(t)
    BY <2>2 DEF Hit, Miss, Build, Query, Refuse, Return, EnterInvalid, Enter, cache
  <2> QED
    BY <2>1, <2>2
<1>5. queue[s] = <<>> => Len(queue[s]) = 0
  OBVIOUS
<1>6. \A i \in 1 .. Len(queue[s]) : queue[s][i].plan \in live' /\ Cleared(queue[s], i)'
  BY <1>1, <1>4, <1>5 DEF StreamInv, Cleared
<1> QED
  BY <1>1, <1>2, <1>3, <1>6 DEF StreamInv, OutputExact, Cleared

LEMMA EnqueueStreamStep ==
  ASSUME NEW t, NEW s \in Stream, Thread = {t}, IInv, KeepsPlan(t), StreamInv(t, s),
         EnqueueClear(t) \/ EnqueueRun(t)
  PROVE  StreamInv(t, s)'
<1> DEFINE q == queue[s]
           d == Command(pc[t], plan[t], This(t))
<1>1. /\ TypeOK /\ Entered /\ request[t].stream = s
      /\ pc[t] = "clear" \/ pc[t] = "run"
      /\ queue' = [queue EXCEPT ![s] = Append(q, d)]
      /\ pc' = [pc EXCEPT ![t] = IF pc[t] = "clear" THEN "run" ELSE "return"]
      /\ UNCHANGED <<live, scratch, output, n, request, plan>>
  BY DEF IInv, StreamInv, EnqueueClear, EnqueueRun, Enqueue, Goto, cache, local
<1>2. This(t)' = This(t) /\ This(t) \in Call /\ plan[t] \in Call /\ plan[t] \in live
  BY <1>1, ThisFacts DEF This, IInv, WorkingInv, KeepsPlan, Working
<1>3. d \in Commands
  BY <1>1, <1>2 DEF Command, Commands
<1>4. q \in Seq(Commands) /\ queue \in [Stream -> Seq(Commands)]
  BY <1>1, QueueTypes
<1>5. queue'[s] = Append(q, d) /\ \A z \in Stream \ {s} : queue'[z] = queue[z]
  BY <1>1, <1>4
<1>6. d.kind = pc[t] /\ d.plan = plan[t] /\ d.call = This(t)
  BY DEF Command
<1> HIDE DEF d
<1>7. /\ Append(q, d) # <<>> /\ Len(Append(q, d)) = Len(q) + 1 /\ Len(q) \in Nat
      /\ \A i \in 1 .. Len(q) : Append(q, d)[i] = q[i]
      /\ Append(q, d)[Len(q) + 1] = d
      /\ q # <<>> <=> Len(q) # 0
  BY <1>3, <1>4, AppendProperties
<1>8. \A i \in 1 .. Len(q) : q[i].plan \in live /\ Cleared(q, i)
  BY DEF StreamInv
<1>9. pc[t] = "run" => IF q = <<>> THEN scratch[plan[t]] = This(t)
                       ELSE q[Len(q)] = Command("clear", plan[t], This(t))
  BY DEF StreamInv
<1>10. ASSUME NEW i \in 1 .. Len(q) + 1
       PROVE  Append(q, d)[i].plan \in live /\ Cleared(Append(q, d), i)
  <2>1. CASE i \in 1 .. Len(q)
    <3>1. i # 1 => i - 1 \in 1 .. Len(q)
      BY <1>7, <2>1
    <3> QED
      BY <1>7, <1>8, <2>1, <3>1 DEF Cleared
  <2>2. CASE i = Len(q) + 1
    <3>1. Append(q, d)[i] = d
      BY <1>7, <2>2
    <3>2. CASE pc[t] = "clear"
      BY <1>2, <1>6, <3>1, <3>2 DEF Cleared
    <3>3. CASE pc[t] = "run"
      <4>1. CASE q = <<>>
        BY <1>2, <1>6, <1>7, <1>9, <2>2, <3>1, <3>3, <4>1 DEF Cleared
      <4>2. CASE q # <<>>
        <5>1. i - 1 = Len(q) /\ i # 1 /\ Len(q) \in 1 .. Len(q)
          BY <1>7, <2>2, <4>2
        <5>2. Append(q, d)[i - 1] = Command("clear", plan[t], This(t))
          BY <1>7, <1>9, <3>3, <4>2, <5>1
        <5> QED
          BY <1>2, <1>6, <3>1, <5>1, <5>2 DEF Cleared
      <4> QED
        BY <4>1, <4>2
    <3> QED
      BY <1>1, <3>2, <3>3
  <2> QED
    BY <1>7, <1>10, <2>1, <2>2
<1>11. \A i \in 1 .. Len(queue'[s]) : queue'[s][i].plan \in live' /\ Cleared(Append(q, d), i)
  BY <1>1, <1>5, <1>7, <1>10
<1>12. \A i \in 1 .. Len(queue'[s]) : queue'[s][i].plan \in live' /\ Cleared(queue[s], i)'
  BY <1>1, <1>5, <1>11 DEF Cleared
<1>13. pc'[t] = "run" => queue'[s] # <<>> /\ queue'[s][Len(queue'[s])] = Command("clear", plan[t], This(t))
  BY <1>1, <1>5, <1>7 DEF d, TypeOK
<1>14. (pc[t] # "idle" => request[t].stream = s)'
  BY <1>1
<1>15. OutputExact' /\ \A z \in Stream \ {s} : queue'[z] = <<>>
  BY <1>1, <1>5 DEF StreamInv, OutputExact
<1> QED
  BY <1>1, <1>2, <1>12, <1>13, <1>14, <1>15 DEF StreamInv

LEMMA ExecuteStreamStep ==
  ASSUME NEW t, NEW s \in Stream, Thread = {t}, IInv, StreamInv(t, s),
         \E z \in Stream : ExecuteClear(z) \/ ExecuteRun(z)
  PROVE  StreamInv(t, s)'
<1> DEFINE q == queue[s]
           d == Head(q)
<1>1. PICK z \in Stream : ExecuteClear(z) \/ ExecuteRun(z)
  OBVIOUS
<1>2. queue[z] # <<>> /\ z = s
  BY <1>1 DEF ExecuteClear, ExecuteRun, StreamInv
<1>3. /\ TypeOK /\ queue' = [queue EXCEPT ![s] = Tail(q)]
      /\ UNCHANGED <<live, pc, n, request, plan>>
      /\ \/ /\ d.kind = "clear" /\ output' = output
            /\ scratch' = [scratch EXCEPT ![d.plan] = d.call]
         \/ /\ d.kind = "run"
            /\ output' = [output EXCEPT ![d.call] =
                 IF d.plan \in live /\ scratch[d.plan] = d.call THEN "exact" ELSE "garbage"]
            /\ scratch' = [scratch EXCEPT ![d.plan] = NoCall]
  BY <1>1, <1>2 DEF IInv, ExecuteClear, ExecuteRun, cache, local
<1>4. q \in Seq(Commands) /\ queue \in [Stream -> Seq(Commands)] /\ q # <<>>
  BY <1>2, <1>3, QueueTypes
<1>5. queue'[s] = Tail(q) /\ \A x \in Stream \ {s} : queue'[x] = queue[x]
  BY <1>3, <1>4
<1>6. /\ d = q[1] /\ d \in Commands /\ Len(q) \in Nat /\ Len(q) # 0
      /\ Tail(q) \in Seq(Commands) /\ Len(Tail(q)) = Len(q) - 1
      /\ \A i \in 1 .. Len(Tail(q)) : Tail(q)[i] = q[i + 1]
      /\ Tail(q) = <<>> <=> Len(q) = 1
  <2>1. /\ d \in Commands /\ Tail(q) \in Seq(Commands) /\ Len(Tail(q)) = Len(q) - 1
        /\ \A i \in 1 .. Len(Tail(q)) : Tail(q)[i] = q[i + 1]
    BY <1>4, HeadTailProperties
  <2>2. Len(q) \in Nat /\ Len(q) # 0 /\ d = q[1]
    BY <1>4
  <2>3. Tail(q) = <<>> <=> Len(Tail(q)) = 0
    BY <2>1, EmptySeq
  <2> QED
    BY <2>1, <2>2, <2>3
<1>7. d.plan \in Call /\ d.call \in Call
  BY <1>6 DEF Commands
<1> HIDE DEF d
<1>8. \A i \in 1 .. Len(q) : q[i].plan \in live /\ Cleared(q, i)
  BY DEF StreamInv
<1>9. \A i \in 2 .. Len(q) : q[i].kind = "run" =>
        q[i - 1] = Command("clear", q[i].plan, q[i].call)
  BY <1>8 DEF Cleared
<1>10. ASSUME NEW i \in 1 .. Len(Tail(q))
       PROVE  Tail(q)[i].plan \in live' /\ (Cleared(queue[s], i))'
  <2>1. /\ i + 1 \in 2 .. Len(q) /\ i + 1 \in 1 .. Len(q) /\ Tail(q)[i] = q[i + 1]
        /\ i \in Nat /\ (i + 1) - 1 = i
    BY <1>6
  <2>2. q[i + 1].plan \in live
    BY <1>8, <2>1
  <2>3. q[i + 1].kind = "run" => q[i] = Command("clear", q[i + 1].plan, q[i + 1].call)
    BY <1>9, <2>1
  <2>4. CASE i = 1
    <3>1. q[2].kind = "run" => d = Command("clear", q[2].plan, q[2].call)
      BY <1>6, <2>3, <2>4
    <3>2. q[2].kind = "run" => scratch'[q[2].plan] = q[2].call
      BY <1>3, <1>7, <3>1 DEF Command, TypeOK
    <3>3. Tail(q)[i] = q[2] /\ q[2].plan \in live
      BY <2>1, <2>2, <2>4
    <3> QED
      BY <1>3, <1>5, <2>4, <3>2, <3>3 DEF Cleared
  <2>5. CASE i # 1
    <3>1. Tail(q)[i - 1] = q[i]
      <4>1. i - 1 \in 1 .. Len(Tail(q)) /\ (i - 1) + 1 = i
        BY <1>6, <1>10, <2>5
      <4> QED
        BY <1>6, <4>1
    <3> QED
      BY <1>3, <1>5, <2>1, <2>2, <2>3, <2>5, <3>1 DEF Cleared
  <2> QED
    BY <2>4, <2>5
<1>11. pc[t] = "run" => IF Tail(q) = <<>> THEN scratch'[plan[t]] = This(t)
                        ELSE Tail(q)[Len(Tail(q))] = Command("clear", plan[t], This(t))
  <2>1. SUFFICES ASSUME pc[t] = "run"
        PROVE  IF Tail(q) = <<>> THEN scratch'[plan[t]] = This(t)
               ELSE Tail(q)[Len(Tail(q))] = Command("clear", plan[t], This(t))
    OBVIOUS
  <2>2. q[Len(q)] = Command("clear", plan[t], This(t))
    BY <1>4, <2>1 DEF StreamInv
  <2>3. CASE Len(q) = 1
    <3>1. d.kind = "clear" /\ d.plan = plan[t] /\ d.call = This(t)
      BY <1>6, <2>2, <2>3 DEF Command
    <3> QED
      BY <1>3, <1>6, <1>7, <2>3, <3>1 DEF TypeOK
  <2>4. CASE Len(q) # 1
    <3>1. Len(Tail(q)) \in 1 .. Len(Tail(q)) /\ Len(Tail(q)) + 1 = Len(q)
      BY <1>6, <2>4
    <3> QED
      BY <1>6, <2>2, <2>4, <3>1
  <2> QED
    BY <2>3, <2>4
<1>12. OutputExact'
  <2>1. d.kind = "run" => d.plan \in live /\ scratch[d.plan] = d.call
    BY <1>6, <1>8 DEF Cleared
  <2> QED
    BY <1>3, <1>7, <2>1 DEF StreamInv, OutputExact, TypeOK
<1>13. (pc[t] # "idle" => request[t].stream = s)' /\ This(t)' = This(t)
  BY <1>3 DEF StreamInv, This
<1>14. \A x \in Stream \ {s} : queue'[x] = <<>>
  BY <1>5 DEF StreamInv
<1> QED
  BY <1>3, <1>5, <1>10, <1>11, <1>12, <1>13, <1>14 DEF StreamInv

\* A thread that makes its calls on one stream never computes in scratch
\* memory that is gone or that another call has been in: the commands of two
\* calls never mix and a plan is deleted when none is left.
THEOREM OneStreamIsExact ==
  ASSUME NEW t, NEW s \in Stream, Thread = {t}, StreamsOf[t] \subseteq {s}
  PROVE  Spec => []OutputExact
<1>1. Init => KeepsPlan(t) /\ StreamInv(t, s)
  <2> SUFFICES ASSUME Init PROVE KeepsPlan(t) /\ StreamInv(t, s)
    OBVIOUS
  <2>1. queue[s] = <<>> /\ Len(queue[s]) = 0
    BY DEF Init
  <2> QED
    BY <2>1 DEF Init, KeepsPlan, Working, StreamInv, OutputExact
<1>2. IInv /\ KeepsPlan(t) /\ [Next]_vars => KeepsPlan(t)'
  BY KeepsPlanStep
<1>3. IInv /\ KeepsPlan(t) /\ StreamInv(t, s) /\ [Next]_vars => StreamInv(t, s)'
  <2> SUFFICES ASSUME IInv, KeepsPlan(t), StreamInv(t, s), [Next]_vars PROVE StreamInv(t, s)'
    OBVIOUS
  <2>1. CASE UNCHANGED vars
    BY <2>1 DEF vars, cache, device, local, StreamInv, OutputExact, Cleared, This
  <2>2. CASE \/ Hit(t) \/ Miss(t) \/ Build(t) \/ Replace(t) \/ Query(t) \/ Refuse(t) \/ Return(t)
             \/ EnterInvalid(t) \/ \E k \in Key : \E z \in StreamsOf[t] : Enter(t, k, z)
    BY <2>2, HostStreamStep DEF IInv
  <2>3. CASE EnqueueClear(t) \/ EnqueueRun(t)
    BY <2>3, EnqueueStreamStep
  <2>4. CASE \E z \in Stream : ExecuteClear(z) \/ ExecuteRun(z)
    BY <2>4, ExecuteStreamStep
  <2> QED
    BY <2>1, <2>2, <2>3, <2>4 DEF Next, ThreadStep, Rest
<1>4. StreamInv(t, s) => OutputExact
  BY DEF StreamInv
<1> QED
  BY <1>1, <1>2, <1>3, <1>4, Invariance, PTL DEF Spec
===============================================================================
