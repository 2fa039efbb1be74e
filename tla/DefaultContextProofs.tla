-------------------------- MODULE DefaultContextProofs --------------------------
(***************************************************************************)
(* DefaultContext for every set of threads, streams, keys, functions that  *)
(* keep a plan and devices, and every number of calls.                     *)
(***************************************************************************)
EXTENDS DefaultContext, SequenceTheorems, FiniteSetTheorems, TLAPS

-------------------------------------------------------------------------------
(* The inductive invariant.                                                *)

\* What a call asked for, and where a thread that has got somewhere asks for it.
AskedInv ==
  /\ asked \in [Call -> [kind : {"none", "kernel", "blas", "plan"},
                         stream : Stream \cup {NoStream}, key : Key \cup {NoKey}]]
  /\ \A t \in Thread :
       /\ pc[t] # "idle" => n[t] > 0
       /\ pc[t] \in {"handle", "create"} => Asked(t).kind = "blas"
       /\ pc[t] \in {"build", "replace"} => Asked(t).kind = "plan"
       /\ pc[t] \in {"lock", "set", "enqueue"} => Asked(t).kind \in {"blas", "plan"}
       /\ pc[t] # "idle" /\ Asked(t).kind \in {"blas", "plan"} => Asked(t).stream \in Stream
       /\ pc[t] # "idle" /\ Asked(t).kind = "plan" => Asked(t).key \in Key

\* handle_mutex is held by the thread that creates the handle, and while it
\* does there is none.
HandleInv ==
  /\ \A t \in Thread : t \in handle_guard <=> pc[t] = "create"
  /\ \A t, u \in handle_guard : t = u
  /\ \A t \in Thread : pc[t] = "create" => ~handle
  /\ OneHandle

\* default_context_mutex is held from the look into the cache to the call.
LockInv ==
  /\ \A t \in Thread : t \in guard <=> pc[t] \in {"build", "replace", "set", "enqueue"}
  /\ \A t, u \in guard : t = u

\* The calls the cached plans are named after have been made, and no call still
\* on its way to its plan has such a name.
NoneAhead(c) == \A t \in Thread : \A i \in 1 .. Calls : i > n[t] => c # <<t, i>>
NameInv ==
  /\ \A c \in Cache : cached[c] # NoCall => NoneAhead(cached[c])
  /\ \A t \in Thread, c \in Cache :
       pc[t] \in {"handle", "create", "lock", "build", "replace"} => cached[c] # This(t)

\* The plan a thread is about to put in the cache.
FreshInv ==
  \A t \in Thread : pc[t] = "replace" => This(t) \in live /\ builtFor[This(t)] = Asked(t).key

\* Under the lock the plan in the caller's cache is the caller's, and from setting the
\* stream to the call the handle that will be used stays on the caller's.
SetInv ==
  \A t \in Thread :
    /\ pc[t] \in {"set", "enqueue"} /\ Asked(t).kind = "plan" =>
         cached[Mine(t)] # NoCall /\ cachedKey[Mine(t)] = Asked(t).key
    /\ pc[t] = "enqueue" =>
         Asked(t).stream = IF Asked(t).kind = "blas" THEN handleStream ELSE planStream[cached[Mine(t)]]

\* Work on a stream: of a call that has been made, on the stream it named, and
\* with a plan that is alive and was built for what it asked, if it needs one.
Fits(work, s) ==
  LET request == asked[work.call] IN
    /\ NoneAhead(work.call)
    /\ request.stream = s
    /\ request.kind = "plan" => work.plan # NoCall /\ builtFor[work.plan] = request.key
    /\ work.plan \in live \cup {NoCall}
QueueInv == \A s \in Stream : \A k \in DOMAIN queue[s] : Fits(queue[s][k], s)

IInv ==
  /\ TypeOK /\ AskedInv /\ HandleInv /\ LockInv /\ NameInv /\ FreshInv /\ SetInv
  /\ QueueInv /\ PlanKept

\* Where the devices are alike: what has been read stands for all of them.
AlikeInv ==
  /\ \A d, e \in Device : capability[d] = capability[e]
  /\ cc # 0 => \A d \in Device : capability[d] = cc
  /\ \A t \in Thread : pc[t] = "launch" => cc >= Floor
  /\ NoEmptyKernel

-------------------------------------------------------------------------------
(* Facts about single definitions.                                         *)

Work == [call : Call, plan : Call \cup {NoCall}]

LEMMA NoCallIsNoCall == NoCall \notin Call
BY DEF NoCall, Call

LEMMA ThisFacts ==
  ASSUME TypeOK, AskedInv, NEW t \in Thread
  PROVE  /\ n[t] \in 0 .. Calls /\ Calls \in Nat /\ n[t] \in Nat
         /\ pc[t] # "idle" => This(t) \in Call /\ This(t) # NoCall
         /\ \A u \in Thread : u # t => This(u) # This(t)
         /\ NoneAhead(This(t))
<1>1. n[t] \in 0 .. Calls /\ Calls \in Nat /\ n[t] \in Nat
  BY CallsAssumption DEF TypeOK
<1>2. pc[t] # "idle" => This(t) \in Call
  BY <1>1 DEF AskedInv, Call, This
<1>3. \A u \in Thread : n[u] \in Nat
  BY CallsAssumption DEF TypeOK
<1> QED
  BY <1>1, <1>2, <1>3, NoCallIsNoCall DEF This, NoneAhead

\* One thread or none.
LEMMA AtMostOne ==
  ASSUME NEW S, \A t, u \in S : t = u
  PROVE  Cardinality(S) <= 1
<1>1. CASE S = {}
  BY <1>1, FS_EmptySet
<1>2. CASE S # {}
  <2>1. PICK t : S = {t}
    BY <1>2
  <2>2. Cardinality({t}) = 1
    BY FS_Singleton, Zenon
  <2> QED
    BY <2>1, <2>2
<1> QED
  BY <1>1, <1>2

\* A call for a vendor plan goes to one cache, whose key it may become.
LEMMA MineIsCache ==
  ASSUME AskedInv, NEW t \in Thread, pc[t] # "idle", Asked(t).kind = "plan"
  PROVE  Asked(t).key \in Key /\ Mine(t) \in Cache
BY CacheOfAssumption DEF AskedInv, Mine

\* Two caches never keep the same plan.
LEMMA CachesApart ==
  ASSUME PlanKept, NEW c \in Cache, NEW d \in Cache, cached[c] # NoCall, cached[c] = cached[d]
  PROVE  c = d
BY DEF PlanKept

LEMMA QueueTypes ==
  ASSUME TypeOK
  PROVE  /\ queue \in [Stream -> Seq(Work)]
         /\ \A s \in Stream : \A k \in DOMAIN queue[s] : queue[s][k] \in Work
         /\ \A s \in Stream, d \in Work :
              /\ Append(queue[s], d) \in Seq(Work)
              /\ \A k \in DOMAIN Append(queue[s], d) :
                   \/ k \in DOMAIN queue[s] /\ Append(queue[s], d)[k] = queue[s][k]
                   \/ Append(queue[s], d)[k] = d
         /\ \A s \in Stream : queue[s] # <<>> =>
              /\ Tail(queue[s]) \in Seq(Work)
              /\ \A k \in DOMAIN Tail(queue[s]) :
                   k + 1 \in DOMAIN queue[s] /\ Tail(queue[s])[k] = queue[s][k + 1]
<1>1. queue \in [Stream -> Seq(Work)]
  BY DEF TypeOK, Work
<1>2. \A s \in Stream : DOMAIN queue[s] = 1 .. Len(queue[s]) /\ Len(queue[s]) \in Nat
  BY <1>1
<1>3. ASSUME NEW s \in Stream, NEW d \in Work
      PROVE  /\ Append(queue[s], d) \in Seq(Work)
             /\ \A k \in DOMAIN Append(queue[s], d) :
                  \/ k \in DOMAIN queue[s] /\ Append(queue[s], d)[k] = queue[s][k]
                  \/ Append(queue[s], d)[k] = d
  BY <1>1, <1>2, <1>3, AppendProperties
<1>4. ASSUME NEW s \in Stream, queue[s] # <<>>
      PROVE  /\ Tail(queue[s]) \in Seq(Work)
             /\ \A k \in DOMAIN Tail(queue[s]) :
                  k + 1 \in DOMAIN queue[s] /\ Tail(queue[s])[k] = queue[s][k + 1]
  <2>1. /\ Tail(queue[s]) \in Seq(Work) /\ Len(Tail(queue[s])) = Len(queue[s]) - 1
        /\ \A k \in 1 .. Len(Tail(queue[s])) : Tail(queue[s])[k] = queue[s][k + 1]
    BY <1>1, <1>4, HeadTailProperties
  <2>2. DOMAIN Tail(queue[s]) = 1 .. Len(Tail(queue[s]))
    BY <2>1
  <2> QED
    BY <1>2, <2>1, <2>2
<1>5. \A s \in Stream : \A k \in DOMAIN queue[s] : queue[s][k] \in Work
  BY <1>1
<1> QED
  BY <1>1, <1>3, <1>4, <1>5

\* A step that enters no call keeps every call's name and request.
LEMMA NameFrame ==
  ASSUME UNCHANGED <<n, asked>>
  PROVE  /\ \A t : This(t)' = This(t) /\ Asked(t)' = Asked(t)
         /\ \A c : NoneAhead(c)' <=> NoneAhead(c)
BY DEF This, Asked, NoneAhead

LEMMA InitInv == Init => IInv
<1> SUFFICES ASSUME Init PROVE IInv
  OBVIOUS
<1> USE DEF Init
<1>1. Cardinality({}) = 0
  BY FS_EmptySet
<1>2. TypeOK
  <2>1. n \in [Thread -> 0 .. Calls]
    BY CallsAssumption
  <2>2. guard \subseteq Thread /\ Cardinality(guard) <= 1 /\ handle_guard \subseteq Thread /\ Cardinality(handle_guard) <= 1
    BY <1>1
  <2>3. queue \in [Stream -> Seq([call : Call, plan : Call \cup {NoCall}])]
    OBVIOUS
  <2>4. pc \in [Thread -> PC]
    BY DEF PC
  <2>5. /\ builtFor \in [Call -> Key \cup {NoKey}] /\ planStream \in [Call -> Stream \cup {NoStream}]
        /\ launched \in [Call -> Device \cup {NoDevice}]
    OBVIOUS
  <2> QED
    BY <2>1, <2>2, <2>3, <2>4, <2>5 DEF TypeOK
<1>3. AskedInv
  BY DEF AskedInv, Unasked
<1>4. HandleInv /\ LockInv /\ NameInv /\ FreshInv /\ SetInv /\ QueueInv /\ PlanKept
  BY DEF HandleInv, OneHandle, LockInv, NameInv, FreshInv, SetInv, Mine, QueueInv, PlanKept
<1> QED
  BY <1>2, <1>3, <1>4 DEF IInv

-------------------------------------------------------------------------------
(* Every step keeps the invariant.                                         *)

LEMMA EnterStep ==
  ASSUME IInv, NEW t \in Thread, NEW request \in Request(t), Enter(t, request)
  PROVE  IInv'
<1> DEFINE c == <<t, n[t] + 1>>
           l == CASE request.kind = "kernel" -> "arch"
                  [] request.kind = "blas" -> "handle"
                  [] request.kind = "plan" -> "lock"
<1>1. /\ pc[t] = "idle" /\ n[t] < Calls
      /\ n' = [n EXCEPT ![t] = n[t] + 1]
      /\ asked' = [asked EXCEPT ![c] = request]
      /\ pc' = [pc EXCEPT ![t] = l]
      /\ UNCHANGED <<device, capability, cc, launched, handle_guard, handle, made, guard, handleStream,
                     cached, cachedKey, live, builtFor, planStream, queue>>
  BY DEF Enter, Goto, arch, blas, plans
<1>2. TypeOK /\ AskedInv /\ n[t] \in Nat /\ Calls \in Nat
  BY ThisFacts DEF IInv
<1>3. /\ request \in [kind : {"kernel", "blas", "plan"}, stream : Stream \cup {NoStream}, key : Key \cup {NoKey}]
      /\ request.kind \in {"blas", "plan"} => request.stream \in Stream
      /\ request.kind = "plan" => request.key \in Key
  BY StreamsOfAssumption DEF Request
<1>4. l \in {"arch", "handle", "lock"} /\ (l = "handle" => request.kind = "blas")
      /\ (l = "lock" => request.kind = "plan")
  BY <1>3
<1> HIDE DEF l
<1>5. c \in Call /\ n[t] + 1 \in 0 .. Calls
  BY <1>1, <1>2 DEF Call
<1>6. TypeOK'
  <2>1. n' \in [Thread -> 0 .. Calls]
    BY <1>1, <1>2, <1>5 DEF TypeOK
  <2>2. pc' \in [Thread -> PC]
    BY <1>1, <1>2, <1>4 DEF TypeOK, PC
  <2> QED
    BY <1>1, <1>2, <2>1, <2>2 DEF TypeOK
<1>7. /\ pc'[t] = l /\ n'[t] = n[t] + 1 /\ asked'[c] = request /\ This(t)' = c
      /\ \A d \in Call : d # c => asked'[d] = asked[d]
      /\ \A u \in Thread : u # t => pc'[u] = pc[u] /\ n'[u] = n[u] /\ This(u)' = This(u)
  BY <1>1, <1>2, <1>5 DEF TypeOK, AskedInv, This
<1>8. \A u \in Thread : u # t /\ pc[u] # "idle" => This(u) \in Call /\ This(u) # c /\ Asked(u)' = Asked(u)
  BY <1>1, <1>2, <1>7, ThisFacts DEF Asked, This
<1>9. Asked(t)' = request
  BY <1>7 DEF Asked
<1>10. AskedInv'
  <2>1. asked' \in [Call -> [kind : {"none", "kernel", "blas", "plan"},
                             stream : Stream \cup {NoStream}, key : Key \cup {NoKey}]]
    BY <1>1, <1>2, <1>3, <1>5 DEF AskedInv
  <2>2. ASSUME NEW u \in Thread
        PROVE  /\ pc'[u] # "idle" => n'[u] > 0
               /\ pc'[u] \in {"handle", "create"} => Asked(u)'.kind = "blas"
               /\ pc'[u] \in {"build", "replace"} => Asked(u)'.kind = "plan"
               /\ pc'[u] \in {"lock", "set", "enqueue"} => Asked(u)'.kind \in {"blas", "plan"}
               /\ pc'[u] # "idle" /\ Asked(u)'.kind \in {"blas", "plan"} => Asked(u)'.stream \in Stream
               /\ pc'[u] # "idle" /\ Asked(u)'.kind = "plan" => Asked(u)'.key \in Key
    <3>1. CASE u = t
      BY <1>2, <1>3, <1>4, <1>7, <1>9, <3>1
    <3>2. CASE u # t
      BY <1>2, <1>7, <1>8, <3>2 DEF AskedInv
    <3> QED
      BY <3>1, <3>2
  <2> QED
    BY <2>1, <2>2 DEF AskedInv
<1>11. HandleInv' /\ LockInv'
  BY <1>1, <1>4, <1>7 DEF IInv, HandleInv, OneHandle, LockInv
<1>12. \A d : NoneAhead(d) => NoneAhead(d)' /\ d # c
  BY <1>1, <1>2, <1>7 DEF NoneAhead, TypeOK
<1>13. NameInv'
  BY <1>1, <1>4, <1>7, <1>12, NoCallIsNoCall, <1>5 DEF IInv, NameInv
<1>14. FreshInv' /\ SetInv'
  BY <1>1, <1>4, <1>7, <1>8 DEF IInv, FreshInv, SetInv, Mine
<1>15. QueueInv'
  <2>1. ASSUME NEW s \in Stream, NEW k \in DOMAIN queue[s] PROVE Fits(queue[s][k], s)'
    <3>1. Fits(queue[s][k], s)
      BY DEF IInv, QueueInv
    <3>2. queue[s][k].call # c /\ queue[s][k].call \in Call
      BY <1>2, <1>12, <3>1, QueueTypes DEF Fits, Work
    <3> QED
      BY <1>1, <1>7, <1>12, <3>1, <3>2 DEF Fits
  <2> QED
    BY <1>1, <2>1 DEF QueueInv
<1>16. PlanKept'
  BY <1>1, <1>4, <1>7 DEF IInv, PlanKept
<1> QED
  BY <1>6, <1>10, <1>11, <1>13, <1>14, <1>15, <1>16 DEF IInv

LEMMA ArchStep ==
  ASSUME IInv, NEW t \in Thread, Arch(t) \/ Launch(t) \/ \E d \in Device : SetDevice(t, d)
  PROVE  IInv'
<1>1. UNCHANGED <<capability, handle_guard, handle, made, guard, handleStream, cached, cachedKey, live, builtFor,
                  planStream, queue, asked, n>>
  BY DEF Arch, Launch, SetDevice, blas, plans
<1>2. TypeOK /\ AskedInv
  BY DEF IInv
<1>3. /\ \A u \in Thread : pc'[u] = pc[u] \/ (pc[u] \in {"arch", "launch"} /\ pc'[u] \in {"launch", "idle"})
      /\ pc' \in [Thread -> PC]
  BY <1>2 DEF Arch, Launch, SetDevice, Goto, TypeOK, PC
<1>4. TypeOK'
  <2>1. CASE Arch(t)
    <3>1. cc' \in {0, Floor - 1, Floor} /\ UNCHANGED <<device, launched>>
      BY <1>2, <2>1 DEF Arch, TypeOK
    <3> QED
      BY <1>1, <1>2, <1>3, <3>1 DEF TypeOK
  <2>2. CASE Launch(t)
    <3>1. /\ launched' = [launched EXCEPT ![This(t)] = device[t]] /\ UNCHANGED <<device, cc>>
      BY <2>2 DEF Launch
    <3>2. launched' \in [Call -> Device \cup {NoDevice}]
      BY <1>2, <3>1 DEF TypeOK
    <3> QED
      BY <1>1, <1>2, <1>3, <3>1, <3>2 DEF TypeOK
  <2>3. CASE \E d \in Device : SetDevice(t, d)
    <3>1. device' \in [Thread -> Device] /\ UNCHANGED <<cc, launched>>
      BY <1>2, <2>3 DEF SetDevice, TypeOK
    <3> QED
      BY <1>1, <1>2, <1>3, <3>1 DEF TypeOK
  <2> QED
    BY <2>1, <2>2, <2>3
<1>5. AskedInv' /\ HandleInv' /\ LockInv' /\ NameInv'
  BY <1>1, <1>3, NameFrame DEF IInv, AskedInv, HandleInv, OneHandle, LockInv, NameInv
<1>6. FreshInv' /\ SetInv' /\ QueueInv' /\ PlanKept'
  BY <1>1, <1>3, NameFrame DEF IInv, FreshInv, SetInv, Mine, QueueInv, Fits, PlanKept
<1> QED
  BY <1>4, <1>5, <1>6 DEF IInv

LEMMA HandleStep ==
  ASSUME IInv, NEW t \in Thread, Handle(t) \/ Create(t)
  PROVE  IInv'
<1>1. /\ UNCHANGED <<device, capability, cc, launched, guard, handleStream, cached, cachedKey, live, builtFor,
                     planStream, queue, asked, n>>
      /\ \A u \in Thread : This(u)' = This(u) /\ Asked(u)' = Asked(u)
  BY NameFrame DEF Handle, Create, arch, plans
<1>2. TypeOK /\ AskedInv /\ HandleInv
  BY DEF IInv
<1>3. \/ /\ pc[t] = "handle" /\ handle_guard = {} /\ handle /\ UNCHANGED <<handle_guard, handle, made>>
         /\ pc' = [pc EXCEPT ![t] = "lock"]
      \/ /\ pc[t] = "handle" /\ handle_guard = {} /\ ~handle /\ handle_guard' = {t} /\ UNCHANGED <<handle, made>>
         /\ pc' = [pc EXCEPT ![t] = "create"]
      \/ /\ pc[t] = "create" /\ handle_guard' = {} /\ handle' = TRUE /\ made' = made + 1
         /\ pc' = [pc EXCEPT ![t] = "lock"]
      \/ /\ pc[t] = "create" /\ handle_guard' = {} /\ UNCHANGED <<handle, made>>
         /\ pc' = [pc EXCEPT ![t] = "idle"]
  BY DEF Handle, Create, Goto
<1>4. /\ \A u \in Thread : u # t => pc'[u] = pc[u]
      /\ pc[t] \in {"handle", "create"} /\ pc'[t] \in {"create", "lock", "idle"}
  BY <1>2, <1>3 DEF TypeOK
<1>5. HandleInv'
  <2> DEFINE step(l) == pc' = [pc EXCEPT ![t] = l]
  <2>1. \A l : step(l) => pc'[t] = l
    BY <1>2 DEF TypeOK
  <2>2. \A u \in Thread : u \in handle_guard <=> pc[u] = "create"
    BY <1>2 DEF HandleInv
  <2>3. \/ pc'[t] # "create" /\ handle_guard' = {} /\ handle_guard \subseteq {t}
        \/ pc'[t] = "create" /\ handle_guard' = {t} /\ handle_guard = {}
    BY <1>2, <1>3, <2>1 DEF HandleInv
  <2>4. \A u \in Thread : u \in handle_guard' <=> pc'[u] = "create"
    BY <1>4, <2>2, <2>3
  <2>5. (\A u, v \in handle_guard' : u = v) /\ OneHandle'
    BY <1>2, <1>3 DEF HandleInv, OneHandle
  <2>6. \A u \in Thread : pc'[u] = "create" => ~handle'
    BY <1>2, <1>3, <1>4, <2>4 DEF HandleInv, TypeOK
  <2> QED
    BY <2>4, <2>5, <2>6 DEF HandleInv
<1>6. TypeOK'
  <2>1. handle_guard' \subseteq Thread /\ Cardinality(handle_guard') <= 1
    BY <1>2, <1>3, <1>5, AtMostOne DEF HandleInv, TypeOK
  <2>2. pc' \in [Thread -> PC]
    BY <1>2, <1>3 DEF TypeOK, PC
  <2>3. handle' \in BOOLEAN /\ made' \in Nat
    <3>1. handle \in BOOLEAN /\ made \in Nat
      BY <1>2 DEF TypeOK
    <3>2. \/ UNCHANGED <<handle, made>>
          \/ handle' = TRUE /\ made' = made + 1
      BY <1>3
    <3>3. made' \in Nat
      BY <3>1, <3>2
    <3>4. handle' \in BOOLEAN
      BY <3>1, <3>2, Zenon
    <3> QED
      BY <3>3, <3>4
  <2> QED
    BY <1>1, <1>2, <2>1, <2>2, <2>3 DEF TypeOK
<1>7. AskedInv'
  BY <1>1, <1>2, <1>4 DEF AskedInv
<1>8. LockInv' /\ NameInv' /\ FreshInv' /\ SetInv' /\ QueueInv' /\ PlanKept'
  BY <1>1, <1>4, NameFrame DEF IInv, LockInv, NameInv, FreshInv, SetInv, Mine, QueueInv, Fits, PlanKept
<1> QED
  BY <1>5, <1>6, <1>7, <1>8 DEF IInv

LEMMA LockStep ==
  ASSUME IInv, NEW t \in Thread, Lock(t)
  PROVE  IInv'
<1> DEFINE l == IF Asked(t).kind = "plan" /\ Stale(t) THEN "build" ELSE "set"
<1>1. /\ pc[t] = "lock" /\ guard = {} /\ guard' = {t}
      /\ pc' = [pc EXCEPT ![t] = l]
      /\ UNCHANGED <<device, capability, cc, launched, handle_guard, handle, made, handleStream, cached,
                     cachedKey, live, builtFor, planStream, queue, asked, n>>
      /\ \A u \in Thread : This(u)' = This(u) /\ Asked(u)' = Asked(u)
  BY NameFrame DEF Lock, Goto, arch, blas, plans
<1>2. TypeOK /\ AskedInv /\ LockInv /\ Asked(t).kind \in {"blas", "plan"}
  BY <1>1 DEF IInv, AskedInv
<1>3. pc'[t] = l /\ \A u \in Thread : u # t => pc'[u] = pc[u]
  BY <1>1, <1>2 DEF TypeOK
<1>4. LockInv'
  BY <1>1, <1>2, <1>3 DEF LockInv
<1>5. TypeOK'
  <2>1. guard' \subseteq Thread /\ Cardinality(guard') <= 1
    BY <1>1, <1>4, AtMostOne DEF LockInv
  <2>2. pc' \in [Thread -> PC]
    BY <1>1, <1>2 DEF TypeOK, PC
  <2> QED
    BY <1>1, <1>2, <2>1, <2>2 DEF TypeOK
<1>6. AskedInv' /\ HandleInv'
  BY <1>1, <1>2, <1>3 DEF IInv, AskedInv, HandleInv, OneHandle
<1>7. SetInv'
  BY <1>1, <1>3 DEF IInv, SetInv, Mine, Stale
<1>8. NameInv' /\ FreshInv' /\ QueueInv' /\ PlanKept'
  BY <1>1, <1>2, <1>3, NameFrame DEF IInv, NameInv, FreshInv, QueueInv, Fits, PlanKept
<1> QED
  BY <1>4, <1>5, <1>6, <1>7, <1>8 DEF IInv

LEMMA BuildStep ==
  ASSUME IInv, NEW t \in Thread, Build(t)
  PROVE  IInv'
<1>1. /\ pc[t] = "build"
      /\ live' = live \cup {This(t)}
      /\ builtFor' = [builtFor EXCEPT ![This(t)] = Asked(t).key]
      /\ pc' = [pc EXCEPT ![t] = "replace"]
      /\ UNCHANGED <<device, capability, cc, launched, handle_guard, handle, made, guard, handleStream, cached,
                     cachedKey, planStream, queue, asked, n>>
      /\ \A u \in Thread : This(u)' = This(u) /\ Asked(u)' = Asked(u)
  BY NameFrame DEF Build, Goto, arch, blas
<1>2. TypeOK /\ AskedInv /\ LockInv /\ Asked(t).kind = "plan"
  BY <1>1 DEF IInv, AskedInv
<1>3. /\ This(t) \in Call /\ This(t) # NoCall /\ \A c \in Cache : cached[c] # This(t)
      /\ \A u \in Thread : u # t => This(u) # This(t) /\ pc[u] # "replace"
  BY <1>1, <1>2, ThisFacts DEF LockInv, IInv, NameInv
<1>4. This(t) \notin live
  BY <1>1, <1>3 DEF IInv, PlanKept
<1>5. pc'[t] = "replace" /\ \A u \in Thread : u # t => pc'[u] = pc[u]
  BY <1>1, <1>2 DEF TypeOK
<1>6. builtFor'[This(t)] = Asked(t).key /\ \A p \in Call : p # This(t) => builtFor'[p] = builtFor[p]
  BY <1>1, <1>2, <1>3 DEF TypeOK
<1>7. TypeOK'
  <2>1. Asked(t).key \in Key \cup {NoKey}
    BY <1>2, <1>3 DEF AskedInv, Asked
  <2>2. builtFor' \in [Call -> Key \cup {NoKey}]
    BY <1>1, <1>2, <2>1 DEF TypeOK
  <2>3. pc' \in [Thread -> PC] /\ live' \subseteq Call
    BY <1>1, <1>2, <1>3 DEF TypeOK, PC
  <2> QED
    BY <1>1, <1>2, <2>2, <2>3 DEF TypeOK
<1>8. AskedInv' /\ HandleInv' /\ LockInv' /\ NameInv'
  BY <1>1, <1>2, <1>5, NameFrame DEF IInv, AskedInv, HandleInv, OneHandle, LockInv, NameInv
<1>9. FreshInv' /\ SetInv' /\ PlanKept'
  <2>1. FreshInv'
    BY <1>1, <1>3, <1>5, <1>6 DEF FreshInv
  <2>2. SetInv'
    BY <1>1, <1>5 DEF IInv, SetInv, Mine
  <2>3. \A c \in Cache : cached[c] # NoCall => cached[c] \in Call
    BY <1>2 DEF TypeOK
  <2>4. PlanKept'
    BY <1>1, <1>3, <1>5, <1>6, <2>3 DEF IInv, PlanKept
  <2> QED
    BY <2>1, <2>2, <2>4
<1>10. QueueInv'
  <2>1. ASSUME NEW s \in Stream, NEW k \in DOMAIN queue[s] PROVE Fits(queue[s][k], s)'
    <3>1. Fits(queue[s][k], s)
      BY DEF IInv, QueueInv
    <3>2. queue[s][k].plan # This(t) /\ queue[s][k].plan \in Call \cup {NoCall}
      BY <1>2, <1>3, <1>4, <3>1, QueueTypes DEF Fits, Work
    <3> QED
      BY <1>1, <1>6, <3>1, <3>2, NameFrame DEF Fits
  <2> QED
    BY <1>1, <2>1 DEF QueueInv
<1> QED
  BY <1>7, <1>8, <1>9, <1>10 DEF IInv

LEMMA ReplaceStep ==
  ASSUME IInv, NEW t \in Thread, Replace(t)
  PROVE  IInv'
<1> DEFINE m == Mine(t)
<1>1. /\ pc[t] = "replace" /\ (cached[m] \in live => DeviceIdle)
      /\ live' = live \ {cached[m]}
      /\ cached' = [cached EXCEPT ![m] = This(t)] /\ cachedKey' = [cachedKey EXCEPT ![m] = Asked(t).key]
      /\ pc' = [pc EXCEPT ![t] = "set"]
      /\ UNCHANGED <<device, capability, cc, launched, handle_guard, handle, made, guard, handleStream, builtFor,
                     planStream, queue, asked, n>>
      /\ \A u \in Thread : This(u)' = This(u) /\ Asked(u)' = Asked(u)
  BY NameFrame DEF Replace, Goto, arch, blas
<1>2. TypeOK /\ AskedInv /\ LockInv /\ Asked(t).kind = "plan"
  BY <1>1 DEF IInv, AskedInv
<1>3. /\ This(t) \in Call /\ This(t) # NoCall /\ NoneAhead(This(t))
      /\ \A c \in Cache : cached[c] # This(t)
      /\ This(t) \in live /\ builtFor[This(t)] = Asked(t).key
      /\ \A u \in Thread : u # t =>
           This(u) # This(t) /\ pc[u] \notin {"build", "replace", "set", "enqueue"}
  BY <1>1, <1>2, ThisFacts DEF LockInv, IInv, NameInv, FreshInv
<1>4. pc'[t] = "set" /\ \A u \in Thread : u # t => pc'[u] = pc[u]
  BY <1>1, <1>2 DEF TypeOK
<1>5. /\ m \in Cache /\ Asked(t).key \in Key /\ m' = m
      /\ CacheOf[Asked(t).key] = m
  BY <1>1, <1>2, MineIsCache DEF Mine
<1> HIDE DEF m
<1>6. /\ cached'[m] = This(t) /\ cachedKey'[m] = Asked(t).key
       /\ \A c \in Cache : c # m => cached'[c] = cached[c] /\ cachedKey'[c] = cachedKey[c]
  BY <1>1, <1>2, <1>5 DEF TypeOK
<1>7. TypeOK'
  <2>1. Asked(t).key \in Key \cup {NoKey}
    BY <1>2, <1>3 DEF AskedInv, Asked
  <2>2. pc' \in [Thread -> PC] /\ live' \subseteq Call
    BY <1>1, <1>2 DEF TypeOK, PC
  <2> QED
    BY <1>1, <1>2, <1>3, <1>5, <2>1, <2>2 DEF TypeOK
<1>8. AskedInv' /\ HandleInv' /\ LockInv'
  BY <1>1, <1>2, <1>4 DEF IInv, AskedInv, HandleInv, OneHandle, LockInv
<1>9. NameInv' /\ FreshInv' /\ SetInv' /\ PlanKept'
  <2>1. NameInv'
    <3>1. \A c : NoneAhead(c)' <=> NoneAhead(c)
      BY <1>1, NameFrame
    <3>2. \A c \in Cache : cached'[c] # NoCall => NoneAhead(cached'[c])
      BY <1>3, <1>6 DEF IInv, NameInv
    <3>3. ASSUME NEW u \in Thread, NEW c \in Cache,
                 pc'[u] \in {"handle", "create", "lock", "build", "replace"}
          PROVE  cached'[c] # This(u)
      <4>1. u # t /\ pc[u] = pc'[u]
        BY <1>4, <3>3
      <4> QED
        BY <1>3, <1>6, <3>3, <4>1 DEF IInv, NameInv
    <3> QED
      BY <1>1, <3>1, <3>2, <3>3 DEF NameInv
  <2>2. FreshInv'
    BY <1>1, <1>3, <1>4 DEF FreshInv
  <2>3. SetInv'
    <3>1. ASSUME NEW u \in Thread, u # t PROVE pc'[u] \notin {"set", "enqueue"}
      BY <1>3, <1>4, <3>1
    <3>2. cached'[Mine(t)'] # NoCall /\ cachedKey'[Mine(t)'] = Asked(t)'.key
      BY <1>1, <1>3, <1>5, <1>6 DEF m
    <3> QED
      BY <1>4, <3>1, <3>2 DEF SetInv
  <2>4. PlanKept'
    <3>1. ASSUME NEW c \in Cache, cached'[c] # NoCall
          PROVE  /\ cached'[c] \in live' /\ builtFor'[cached'[c]] = cachedKey'[c]
                 /\ cachedKey'[c] \in Key /\ CacheOf[cachedKey'[c]] = c
      <4>1. CASE c = m
        BY <1>1, <1>3, <1>5, <1>6, <4>1
      <4>2. CASE c # m
        <5>1. cached[c] # cached[m]
          BY <1>5, <1>6, <3>1, <4>2, CachesApart DEF IInv
        <5> QED
          BY <1>1, <1>6, <3>1, <4>2, <5>1 DEF IInv, PlanKept
      <4> QED
        BY <4>1, <4>2
    <3>2. ASSUME NEW p \in live' PROVE \E c \in Cache : p = cached'[c]
      <4>1. p \in live /\ p # cached[m]
        BY <1>1
      <4>2. CASE \E c \in Cache : p = cached[c]
        BY <1>6, <4>1, <4>2
      <4>3. CASE \E u \in Thread : pc[u] = "replace" /\ p = This(u)
        BY <1>3, <1>5, <1>6, <4>3
      <4> QED
        BY <4>1, <4>2, <4>3 DEF IInv, PlanKept
    <3> QED
      BY <3>1, <3>2 DEF PlanKept
  <2> QED
    BY <2>1, <2>2, <2>3, <2>4
<1>10. QueueInv'
  <2>1. ASSUME NEW s \in Stream, NEW k \in DOMAIN queue[s] PROVE Fits(queue[s][k], s)'
    <3>1. Fits(queue[s][k], s)
      BY DEF IInv, QueueInv
    <3>2. cached[m] \notin live
      <4>1. queue[s] # <<>>
        OBVIOUS
      <4> QED
        BY <1>1, <4>1 DEF DeviceIdle
    <3> QED
      BY <1>1, <3>1, <3>2, NameFrame DEF Fits
  <2> QED
    BY <1>1, <2>1 DEF QueueInv
<1> QED
  BY <1>7, <1>8, <1>9, <1>10 DEF IInv

LEMMA SetStreamStep ==
  ASSUME IInv, NEW t \in Thread, SetStream(t)
  PROVE  IInv'
<1>1. /\ pc[t] = "set"
      /\ IF Asked(t).kind = "blas"
           THEN handleStream' = Asked(t).stream /\ UNCHANGED planStream
           ELSE /\ planStream' = [planStream EXCEPT ![cached[Mine(t)]] = Asked(t).stream]
                /\ UNCHANGED handleStream
      /\ pc' = [pc EXCEPT ![t] = "enqueue"]
      /\ UNCHANGED <<device, capability, cc, launched, handle_guard, handle, made, guard, cached, cachedKey, live,
                     builtFor, queue, asked, n>>
      /\ \A u \in Thread : This(u)' = This(u) /\ Asked(u)' = Asked(u)
  BY NameFrame DEF SetStream, Goto, arch, blas
<1>2. /\ TypeOK /\ AskedInv /\ LockInv /\ Asked(t).kind \in {"blas", "plan"} /\ Asked(t).stream \in Stream
      /\ Asked(t).kind = "plan" =>
           Mine(t) \in Cache /\ cached[Mine(t)] # NoCall /\ cachedKey[Mine(t)] = Asked(t).key
  BY <1>1, MineIsCache DEF IInv, AskedInv, SetInv
<1>3. \A u \in Thread : u # t => pc[u] \notin {"build", "replace", "set", "enqueue"}
  BY <1>1, <1>2 DEF LockInv
<1>4. pc'[t] = "enqueue" /\ \A u \in Thread : u # t => pc'[u] = pc[u]
  BY <1>1, <1>2 DEF TypeOK
<1>5. TypeOK'
  <2>1. handleStream' \in Stream \cup {NoStream} /\ planStream' \in [Call -> Stream \cup {NoStream}]
    BY <1>1, <1>2 DEF TypeOK
  <2>2. pc' \in [Thread -> PC]
    BY <1>1, <1>2 DEF TypeOK, PC
  <2> QED
    BY <1>1, <1>2, <2>1, <2>2 DEF TypeOK
<1>6. AskedInv' /\ HandleInv' /\ LockInv' /\ NameInv'
  BY <1>1, <1>2, <1>4, NameFrame DEF IInv, AskedInv, HandleInv, OneHandle, LockInv, NameInv
<1>7. SetInv'
  <2>1. Asked(t).stream = IF Asked(t).kind = "blas" THEN handleStream' ELSE planStream'[cached[Mine(t)]]
    BY <1>1, <1>2 DEF TypeOK
  <2> QED
    BY <1>1, <1>2, <1>3, <1>4, <2>1 DEF SetInv, Mine
<1>8. FreshInv' /\ QueueInv' /\ PlanKept'
  BY <1>1, <1>4, NameFrame DEF IInv, FreshInv, QueueInv, Fits, PlanKept
<1> QED
  BY <1>5, <1>6, <1>7, <1>8 DEF IInv

LEMMA EnqueueStep ==
  ASSUME IInv, NEW t \in Thread, Enqueue(t)
  PROVE  IInv'
<1> DEFINE plan == IF Asked(t).kind = "blas" THEN NoCall ELSE cached[Mine(t)]
           s == IF Asked(t).kind = "blas" THEN handleStream ELSE planStream[plan]
           work == [call |-> This(t), plan |-> plan]
<1>1. /\ pc[t] = "enqueue"
      /\ queue' = [queue EXCEPT ![s] = Append(queue[s], work)]
      /\ guard' = guard \ {t}
      /\ pc' = [pc EXCEPT ![t] = "idle"]
      /\ UNCHANGED <<device, capability, cc, launched, handle_guard, handle, made, handleStream, cached,
                     cachedKey, live, builtFor, planStream, asked, n>>
      /\ \A u \in Thread : This(u)' = This(u) /\ Asked(u)' = Asked(u)
  BY NameFrame DEF Enqueue, Goto, arch, blas, plans
<1>2. /\ TypeOK /\ AskedInv /\ LockInv /\ PlanKept
      /\ Asked(t).kind \in {"blas", "plan"} /\ Asked(t).stream \in Stream
      /\ Asked(t).stream = s
      /\ Asked(t).kind = "plan" =>
           Mine(t) \in Cache /\ cached[Mine(t)] # NoCall /\ cachedKey[Mine(t)] = Asked(t).key
  BY <1>1, MineIsCache DEF IInv, AskedInv, SetInv
<1>3. pc'[t] = "idle" /\ \A u \in Thread : u # t => pc'[u] = pc[u]
  BY <1>1, <1>2 DEF TypeOK
<1>4. s \in Stream /\ work \in Work
  BY <1>1, <1>2, ThisFacts DEF Work, TypeOK
<1>5. Fits(work, s)
  <2>1. NoneAhead(This(t)) /\ asked[This(t)] = Asked(t)
    BY <1>2, ThisFacts DEF Asked
  <2>2. Asked(t).kind = "plan" => work.plan = cached[Mine(t)] /\ plan \in live /\ builtFor[plan] = Asked(t).key
    BY <1>2 DEF PlanKept
  <2>3. work.plan \in live \cup {NoCall}
    BY <1>2, <2>2
  <2> QED
    BY <1>2, <2>1, <2>2, <2>3 DEF Fits
<1> HIDE DEF s, work, plan
<1>6. TypeOK'
  <2>1. queue' \in [Stream -> Seq([call : Call, plan : Call \cup {NoCall}])]
    BY <1>1, <1>2, <1>4, QueueTypes DEF Work
  <2>2. guard' \subseteq Thread /\ Cardinality(guard') <= 1
    BY <1>1, <1>2, AtMostOne DEF LockInv, TypeOK
  <2>3. pc' \in [Thread -> PC]
    BY <1>1, <1>2 DEF TypeOK, PC
  <2> QED
    BY <1>1, <1>2, <2>1, <2>2, <2>3 DEF TypeOK
<1>7. AskedInv' /\ HandleInv' /\ LockInv' /\ NameInv'
  BY <1>1, <1>2, <1>3, NameFrame DEF IInv, AskedInv, HandleInv, OneHandle, LockInv, NameInv
<1>8. FreshInv' /\ SetInv' /\ PlanKept'
  BY <1>1, <1>3 DEF IInv, FreshInv, SetInv, Mine, PlanKept
<1>9. QueueInv'
  <2>1. \A d, r : Fits(d, r) => Fits(d, r)'
    BY <1>1, NameFrame DEF Fits
  <2>2. ASSUME NEW r \in Stream, NEW k \in DOMAIN queue'[r] PROVE Fits(queue'[r][k], r)
    <3>1. CASE r # s
      BY <1>1, <1>2, <3>1 DEF IInv, QueueInv, TypeOK
    <3>2. CASE r = s
      <4>1. queue'[s] = Append(queue[s], work)
        BY <1>1, <1>2, <1>4 DEF TypeOK
      <4>2. \/ k \in DOMAIN queue[s] /\ queue'[s][k] = queue[s][k]
            \/ queue'[s][k] = work
        BY <1>2, <1>4, <3>2, <4>1, QueueTypes
      <4> QED
        BY <1>4, <1>5, <3>2, <4>2 DEF IInv, QueueInv
    <3> QED
      BY <3>1, <3>2
  <2> QED
    BY <2>1, <2>2 DEF QueueInv
<1> QED
  BY <1>6, <1>7, <1>8, <1>9 DEF IInv

LEMMA ThrowStep ==
  ASSUME IInv, NEW t \in Thread, Throw(t)
  PROVE  IInv'
<1>1. /\ pc[t] \in {"build", "set", "enqueue"}
      /\ guard' = guard \ {t}
      /\ pc' = [pc EXCEPT ![t] = "idle"]
      /\ UNCHANGED <<device, capability, cc, launched, handle_guard, handle, made, handleStream, cached,
                     cachedKey, live, builtFor, planStream, queue, asked, n>>
      /\ \A u \in Thread : This(u)' = This(u) /\ Asked(u)' = Asked(u)
  BY NameFrame DEF Throw, Goto, arch, blas, plans
<1>2. TypeOK /\ AskedInv /\ LockInv
  BY DEF IInv
<1>3. pc'[t] = "idle" /\ \A u \in Thread : u # t => pc'[u] = pc[u]
  BY <1>1, <1>2 DEF TypeOK
<1>4. TypeOK'
  <2>1. guard' \subseteq Thread /\ Cardinality(guard') <= 1
    BY <1>1, <1>2, AtMostOne DEF LockInv, TypeOK
  <2>2. pc' \in [Thread -> PC]
    BY <1>1, <1>2 DEF TypeOK, PC
  <2> QED
    BY <1>1, <1>2, <2>1, <2>2 DEF TypeOK
<1>5. AskedInv' /\ HandleInv' /\ LockInv' /\ NameInv'
  BY <1>1, <1>2, <1>3, NameFrame DEF IInv, AskedInv, HandleInv, OneHandle, LockInv, NameInv
<1>6. FreshInv' /\ SetInv' /\ QueueInv' /\ PlanKept'
  BY <1>1, <1>3, NameFrame DEF IInv, FreshInv, SetInv, Mine, QueueInv, Fits, PlanKept
<1> QED
  BY <1>4, <1>5, <1>6 DEF IInv

LEMMA ExecuteStep ==
  ASSUME IInv, NEW s \in Stream, Execute(s)
  PROVE  IInv'
<1>1. /\ queue[s] # <<>>
      /\ queue' = [queue EXCEPT ![s] = Tail(queue[s])]
      /\ UNCHANGED <<device, capability, cc, launched, handle_guard, handle, made, guard, handleStream, cached,
                     cachedKey, live, builtFor, planStream, asked, pc, n>>
      /\ \A u \in Thread : This(u)' = This(u) /\ Asked(u)' = Asked(u)
  BY NameFrame DEF Execute, arch, blas, plans
<1>2. TypeOK
  BY DEF IInv
<1>3. TypeOK'
  <2>1. queue' \in [Stream -> Seq([call : Call, plan : Call \cup {NoCall}])]
    BY <1>1, <1>2, QueueTypes DEF Work
  <2> QED
    BY <1>1, <1>2, <2>1 DEF TypeOK
<1>4. AskedInv' /\ HandleInv' /\ LockInv' /\ NameInv' /\ FreshInv' /\ SetInv' /\ PlanKept'
  BY <1>1, NameFrame DEF IInv, AskedInv, HandleInv, OneHandle, LockInv, NameInv, FreshInv, SetInv, Mine, PlanKept
<1>5. QueueInv'
  <2>1. \A d, r : Fits(d, r) => Fits(d, r)'
    BY <1>1, NameFrame DEF Fits
  <2>2. ASSUME NEW r \in Stream, NEW k \in DOMAIN queue'[r] PROVE Fits(queue'[r][k], r)
    <3>1. CASE r # s
      BY <1>1, <1>2, <3>1 DEF IInv, QueueInv, TypeOK
    <3>2. CASE r = s
      <4>1. queue'[s] = Tail(queue[s])
        BY <1>1, <1>2 DEF TypeOK
      <4>2. k + 1 \in DOMAIN queue[s] /\ queue'[s][k] = queue[s][k + 1]
        BY <1>1, <1>2, <3>2, <4>1, QueueTypes
      <4> QED
        BY <3>2, <4>2 DEF IInv, QueueInv
    <3> QED
      BY <3>1, <3>2
  <2> QED
    BY <2>1, <2>2 DEF QueueInv
<1> QED
  BY <1>3, <1>4, <1>5 DEF IInv

LEMMA StutterStep == IInv /\ UNCHANGED vars => IInv'
<1> SUFFICES ASSUME IInv, UNCHANGED vars PROVE IInv'
  OBVIOUS
<1>1. /\ UNCHANGED <<device, capability, cc, launched, handle_guard, handle, made, guard, handleStream, cached,
                     cachedKey, live, builtFor, planStream, queue, asked, pc, n>>
      /\ \A u \in Thread : This(u)' = This(u) /\ Asked(u)' = Asked(u)
  BY NameFrame DEF vars, arch, blas, plans
<1>2. TypeOK' /\ AskedInv' /\ HandleInv' /\ LockInv'
  BY <1>1 DEF IInv, TypeOK, AskedInv, HandleInv, OneHandle, LockInv
<1>3. NameInv' /\ FreshInv' /\ SetInv' /\ QueueInv' /\ PlanKept'
  BY <1>1, NameFrame DEF IInv, NameInv, FreshInv, SetInv, Mine, QueueInv, Fits, PlanKept
<1> QED
  BY <1>2, <1>3 DEF IInv

LEMMA StepInv == IInv /\ [Next]_vars => IInv'
<1> SUFFICES ASSUME IInv, [Next]_vars PROVE IInv'
  OBVIOUS
<1>1. CASE Rest \/ UNCHANGED vars
  BY <1>1, StutterStep DEF Rest
<1>2. ASSUME NEW t \in Thread, Step(t) PROVE IInv'
  BY <1>2, ArchStep, HandleStep, LockStep, BuildStep, ReplaceStep, SetStreamStep, EnqueueStep, ThrowStep DEF Step
<1>3. ASSUME NEW t \in Thread, NEW d \in Device, SetDevice(t, d) PROVE IInv'
  BY <1>3, ArchStep
<1>4. ASSUME NEW t \in Thread, NEW request \in Request(t), Enter(t, request) PROVE IInv'
  BY <1>4, EnterStep
<1>5. ASSUME NEW s \in Stream, Execute(s) PROVE IInv'
  BY <1>5, ExecuteStep
<1> QED
  BY <1>1, <1>2, <1>3, <1>4, <1>5 DEF Next

LEMMA Invariance == Spec => []IInv
BY InitInv, StepInv, PTL DEF Spec

-------------------------------------------------------------------------------
(* The theorems.                                                           *)

\* Context::cublas makes one handle however many threads race to be first, and
\* the one entry caches never hold a plan that is gone or of another key, nor
\* leave one behind.
THEOREM ConsistentHolds == Spec => []Consistent
<1>1. IInv => Consistent
  BY DEF IInv, HandleInv, Consistent
<1> QED
  BY <1>1, Invariance, PTL

\* Under default_context_mutex the work of a cuBLAS call, and of a call with a
\* cached vendor plan, goes to the stream that call was given.
THEOREM OwnStream == Spec => []OnOwnStream
<1>1. IInv => OnOwnStream
  BY DEF IInv, QueueInv, Fits, OnOwnStream
<1> QED
  BY <1>1, Invariance, PTL

\* A cached plan is not destroyed by a call with another key while the device
\* still has work for it.
THEOREM PlanOutlives == Spec => []PlanOutlivesWork
<1>1. IInv => PlanOutlivesWork
  BY DEF IInv, QueueInv, Fits, PlanOutlivesWork
<1> QED
  BY <1>1, Invariance, PTL

LEMMA AlikeInit == ~Mixed /\ Init => AlikeInv
<1> SUFFICES ASSUME ~Mixed, Init PROVE AlikeInv
  OBVIOUS
<1>1. \A t \in Thread : pc[t] # "launch"
  BY DEF Init
<1>2. \A c \in Call : launched[c] = NoDevice
  BY DEF Init
<1> QED
  BY <1>1, <1>2 DEF Init, AlikeInv, NoEmptyKernel

LEMMA AlikeStep == IInv /\ AlikeInv /\ [Next]_vars => AlikeInv'
<1> SUFFICES ASSUME IInv, AlikeInv, [Next]_vars PROVE AlikeInv'
  OBVIOUS
<1> USE FloorAssumption
<1>1. TypeOK
  BY DEF IInv
<1>2. ASSUME NEW t \in Thread, Arch(t) PROVE AlikeInv'
  <2>1. /\ pc[t] = "arch" /\ cc' = IF cc = 0 THEN capability[device[t]] ELSE cc
        /\ pc' = [pc EXCEPT ![t] = IF cc' < Floor THEN "idle" ELSE "launch"]
        /\ UNCHANGED <<capability, launched>>
    BY <1>2 DEF Arch, Goto
  <2>2. device[t] \in Device /\ cc \in Int /\ \A d \in Device : capability[d] \in Int
    BY <1>1 DEF TypeOK
  <2>3. cc' \in Int /\ (cc # 0 => cc' = cc) /\ \A d \in Device : capability[d] = cc'
    BY <2>1, <2>2 DEF AlikeInv
  <2>4. \A u \in Thread : pc'[u] = "launch" => cc' >= Floor
    <3>1. ASSUME NEW u \in Thread, pc'[u] = "launch" PROVE cc' >= Floor
      <4>1. CASE u = t
        BY <1>1, <2>1, <2>3, <3>1, <4>1 DEF TypeOK
      <4>2. CASE u # t
        <5>1. pc[u] = "launch"
          BY <1>1, <2>1, <3>1, <4>2 DEF TypeOK
        <5>2. cc >= Floor /\ cc # 0
          BY <2>2, <5>1 DEF AlikeInv
        <5> QED
          BY <2>3, <5>2
      <4> QED
        BY <4>1, <4>2
    <3> QED
      BY <3>1
  <2> QED
    BY <2>1, <2>3, <2>4 DEF AlikeInv, NoEmptyKernel
<1>3. ASSUME NEW t \in Thread, Launch(t) PROVE AlikeInv'
  <2>1. /\ pc[t] = "launch" /\ launched' = [launched EXCEPT ![This(t)] = device[t]]
        /\ pc' = [pc EXCEPT ![t] = "idle"] /\ UNCHANGED <<capability, cc>>
    BY <1>3 DEF Launch, Goto
  <2>2. device[t] \in Device /\ cc >= Floor /\ cc \in Int
    BY <1>1, <2>1 DEF AlikeInv, TypeOK
  <2>3. capability[device[t]] >= Floor
    BY <2>2 DEF AlikeInv
  <2>4. \A u \in Thread : pc'[u] = "launch" => pc[u] = "launch"
    BY <1>1, <2>1 DEF TypeOK
  <2>5. \A c \in Call : launched'[c] = launched[c] \/ launched'[c] = device[t]
    BY <1>1, <2>1 DEF TypeOK
  <2> QED
    BY <2>1, <2>3, <2>4, <2>5 DEF AlikeInv, NoEmptyKernel
<1>4. ASSUME UNCHANGED <<capability, cc, launched>>,
             \A u \in Thread : pc'[u] = "launch" => pc[u] = "launch"
      PROVE  AlikeInv'
  BY <1>4 DEF AlikeInv, NoEmptyKernel
<1>5. ASSUME NEW t \in Thread, NEW d \in Device, SetDevice(t, d) PROVE AlikeInv'
  BY <1>4, <1>5 DEF SetDevice
<1>6. ASSUME NEW t \in Thread, NEW request \in Request(t), Enter(t, request) PROVE AlikeInv'
  <2>1. UNCHANGED <<capability, cc, launched>>
    BY <1>6 DEF Enter, arch
  <2>2. request.kind \in {"kernel", "blas", "plan"}
    BY DEF Request
  <2>3. \A u \in Thread : pc'[u] = "launch" => pc[u] = "launch"
    BY <1>1, <1>6, <2>2 DEF Enter, Goto, TypeOK
  <2> QED
    BY <1>4, <2>1, <2>3
<1>7. ASSUME NEW t \in Thread,
             Handle(t) \/ Create(t) \/ Lock(t) \/ Build(t) \/ Replace(t) \/ SetStream(t) \/ Enqueue(t) \/ Throw(t)
      PROVE  AlikeInv'
  <2>1. UNCHANGED <<capability, cc, launched>>
    BY <1>7 DEF Handle, Create, Lock, Build, Replace, SetStream, Enqueue, Throw, arch
  <2>2. \E l \in PC \ {"launch"} : pc' = [pc EXCEPT ![t] = l]
    BY <1>7 DEF Handle, Create, Lock, Build, Replace, SetStream, Enqueue, Throw, Goto, PC
  <2>3. \A u \in Thread : pc'[u] = "launch" => pc[u] = "launch"
    BY <1>1, <2>2 DEF TypeOK
  <2> QED
    BY <1>4, <2>1, <2>3
<1>8. ASSUME NEW s \in Stream, Execute(s) PROVE AlikeInv'
  BY <1>4, <1>8 DEF Execute, arch
<1>9. CASE Rest \/ UNCHANGED vars
  BY <1>4, <1>9 DEF Rest, vars, arch
<1> QED
  BY <1>2, <1>3, <1>5, <1>6, <1>7, <1>8, <1>9 DEF Next, Step

\* require_arch reads the capability of one device, once: where the devices are
\* alike that is enough to keep every kernel off a device below the floor.
THEOREM GuardIsEnough == ~Mixed => (Spec => []NoEmptyKernel)
<1> SUFFICES ASSUME ~Mixed PROVE Spec => []NoEmptyKernel
  OBVIOUS
<1>1. Init => AlikeInv
  BY AlikeInit
<1>2. AlikeInv => NoEmptyKernel
  BY DEF AlikeInv
<1> QED
  BY <1>1, <1>2, AlikeStep, Invariance, PTL DEF Spec
===============================================================================
