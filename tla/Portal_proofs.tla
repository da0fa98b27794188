--------------------------- MODULE Portal_proofs ---------------------------
(***************************************************************************)
(* The safety properties of portal calls, for any threads, domains and      *)
(* services, and the proof that portals implement synchronous calls.       *)
(***************************************************************************)
EXTENDS Portal, Runq_proofs, FiniteSetTheorems, WellFoundedInduction

-----------------------------------------------------------------------------
(* The inductive invariant.                                                *)

Calling(t, s) == call[t] # NotCalling /\ call[t][1] = s
Serves(s, t) == pc[Recv[s]] = "code" /\ caller[Recv[s]] = t

\* The thread that owns the CPU can run, and so can idle, which runs only when
\* nobody else can.
RunnersOK ==
    /\ state[curthr] = RUNNABLE /\ state[IdleThread] = RUNNABLE
    /\ curthr = IdleThread => Queued(runq) = {}

\* A thread outside of a call has no answer left over and waits only as the
\* receiver of a service.  A thread in a call that is blocked has no answer yet
\* and is queued or being served; one that runs again has the answer.
CallOK(t) ==
    /\ call[t] = NotCalling =>
          reply[t] = NoReply /\ state[t] \in {"NONE", RUNNABLE, "WAIT_FOR_SND"}
    /\ call[t] # NotCalling =>
          /\ t # IdleThread /\ pc[t] = "code" /\ call[t][1] \in MayCall[t]
          /\ state[t] \in {RUNNABLE, "WAIT_FOR_RCV", "WAIT_FOR_RET"}
          /\ state[t] = RUNNABLE => reply[t] # NoReply /\ reply[t][1] = call[t][1]
          /\ state[t] # RUNNABLE =>
                /\ reply[t] = NoReply
                /\ t \in Range(senders[call[t][1]]) \/ Serves(call[t][1], t)
CallsOK == \A t \in Threads : CallOK(t)

\* A queue holds blocked callers of its service, each once, and not the one
\* that is being served.
WaitQueueOK(s) ==
    /\ NoDuplicates(senders[s])
    /\ \A t \in Range(senders[s]) : Calling(t, s) /\ state[t] # RUNNABLE /\ ~Serves(s, t)
WaitQueuesOK == \A s \in Services : WaitQueueOK(s)

\* A receiver outside of its loop serves a blocked caller of its service.
ServiceOK(s) ==
    pc[Recv[s]] = "code" =>
        /\ caller[Recv[s]] \in Threads
        /\ Calling(caller[Recv[s]], s) /\ state[caller[Recv[s]]] # RUNNABLE
ServingOK == \A s \in Services : ServiceOK(s)

\* A service has a receiver thread exactly while it exists; that thread waits
\* only in its loop and with nobody queued.  Other threads are in no loop.
ReceiverOK(s) ==
    /\ state[Recv[s]] = "NONE" <=> entry[s] = "FREE"
    /\ state[Recv[s]] = "WAIT_FOR_SND" => pc[Recv[s]] = "recv" /\ senders[s] = << >>
ReceiversOK ==
    /\ \A s \in Services : ReceiverOK(s)
    /\ \A t \in Threads \ Receivers : pc[t] = "code" /\ state[t] # "WAIT_FOR_SND"
    /\ state[InitialThread] # "NONE"

\* Who calls a service holds a proxy of it.
ProxiesHeld ==
    \A t \in Threads : call[t] # NotCalling => heap[Dom[t]][call[t][1]] > 0

\* A service that exists has proxies, and they can be counted.
CountsOK ==
    \A s \in Services : /\ IsFiniteSet(Proxies(s))
                        /\ entry[s] = "LIVE" => Proxies(s) # {}

CallInv == CallsOK /\ WaitQueuesOK /\ ServingOK /\ ReceiversOK
CountInv == RefcountExact /\ ProxiesHeld /\ CountsOK /\ ServiceTableOK
IInv == TypeOK /\ QueuesConsistent /\ NoPanic /\ RunnersOK /\ CallInv /\ CountInv

\* The part of the run queue, and the types of the other variables.
KernelInv ==
    /\ Consistent(state, runq, domq, curthr)
    /\ \A t \in Threads : t \in Queued(runq) <=> state[t] = RUNNABLE /\ t \notin {curthr, IdleThread}
    /\ panic = FALSE /\ RunnersOK
CountTypeOK ==
    /\ entry \in [Services -> {"FREE", "LIVE"}]
    /\ refcount \in [Services -> Nat]
    /\ heap \in [Domains -> [Services -> Nat]]
CallTypeOK ==
    /\ senders \in [Services -> Seq(Threads)]
    /\ call \in [Threads -> (Services \X (Services \cup {NoRef})) \cup {NotCalling}]
    /\ caller \in [Threads -> Threads \cup {NoThread}]
    /\ pc \in [Threads -> {"recv", "code"}]
    /\ reply \in [Threads -> (Services \X {"value", "exception"}) \cup {NoReply}]
    /\ assertion \in {None, "no service", "refcount", "promotion",
                      "receiver runnable", "queued sender", "moved sender",
                      "irqs enabled"}
SvcTypeOK == CountTypeOK /\ CallTypeOK

\* The invariant in the form the steps use.
LEMMA IInvParts ==
    IInv <=> KernelInv /\ SvcTypeOK /\ CallInv /\ CountInv
<1>1. Queued(runq) \subseteq Threads
  BY DEF Queued
<1>2. ASSUME IInv PROVE KernelInv /\ SvcTypeOK
  BY <1>1, <1>2 DEF IInv, KernelInv, SvcTypeOK, CountTypeOK, CallTypeOK, TypeOK, QueuesConsistent, NoPanic, Consistent,
                    QueuesOK, QueueTypes, curdom
<1>3. ASSUME KernelInv, SvcTypeOK PROVE TypeOK /\ QueuesConsistent /\ NoPanic /\ RunnersOK
  <2>1. Queued(runq) = {t \in Threads : state[t] = RUNNABLE} \ {curthr, IdleThread}
    BY <1>1, <1>3 DEF KernelInv
  <2> QED
    BY <2>1, <1>3 DEF KernelInv, SvcTypeOK, CountTypeOK, CallTypeOK, TypeOK, QueuesConsistent, NoPanic, Consistent,
                      QueuesOK, QueueTypes, curdom
<1> QED BY <1>2, <1>3 DEF IInv

\* ... and the form in which they establish it.
LEMMA IInvNext ==
    ASSUME KernelInv', CountTypeOK', CallTypeOK', CallInv', CountInv'
    PROVE  IInv'
<1>1. SvcTypeOK'
  BY DEF SvcTypeOK
<1> QED BY <1>1, IInvParts, PTL

\* What the assumptions say of receivers, clients and finalizers.
LEMMA Constants ==
    /\ IdleThread \in Threads /\ NoThread \notin Threads
    /\ Receivers \subseteq Threads \ {IdleThread}
    /\ InitialThread \in Threads \ (Receivers \cup {IdleThread})
    /\ \A t \in Threads : Dom[t] \in Domains
    /\ \A s \in Services :
        /\ Recv[s] \in Threads /\ Recv[s] # IdleThread /\ Recv[s] \in Receivers
        /\ Recv[s] # InitialThread
        /\ Owner[s] \in Domains /\ Dom[Recv[s]] = Owner[s]
        /\ \A u \in Services : Recv[s] = Recv[u] => s = u
        /\ s # NoRef /\ s # "none"
        /\ Finalizer[s] # NoThread =>
              /\ Finalizer[s] \in Threads /\ Finalizer[s] # IdleThread
              /\ Finalizer[s] \notin Receivers /\ Finalizer[s] # InitialThread
BY RunqAssumption, PortalAssumption DEF Receivers

\* A step that leaves the run queue to a switch: who is RUNNABLE afterwards, but
\* not running and not idle, is queued.
LEMMA SwitchKernel ==
    ASSUME KernelInv, NEW st, NEW Q,
           Consistent(state', runq', domq', curthr'), state' = st, panic' = panic,
           Queued(runq') = Q \ {curthr'},
           curthr' \in Q \/ (curthr' = IdleThread /\ Q = {}),
           \A t \in Threads : t \in Q <=> st[t] = RUNNABLE /\ t # IdleThread,
           st[IdleThread] = RUNNABLE
    PROVE  KernelInv'
<1>1. Queued(runq)' = Queued(runq')
  BY DEF Queued
<1>2. Consistent(state, runq, domq, curthr)'
  BY <1>1 DEF Consistent, QueuesOK, QueueTypes, ThreadQueuesOK, DomainQueueOK, NoDuplicates
<1>3. curthr' \in Threads
  BY DEF Consistent
<1> QED BY <1>1, <1>2, <1>3 DEF KernelInv, RunnersOK

\* The run queue is left alone.
LEMMA KernelUnchanged ==
    ASSUME KernelInv, UNCHANGED runqVars
    PROVE  KernelInv'
BY DEF KernelInv, Consistent, QueuesOK, QueueTypes, ThreadQueuesOK, DomainQueueOK,
       NoDuplicates, Queued, RunnersOK, runqVars

\* A thread that is queued, while the running thread goes on.
LEMMA QueueKernel ==
    ASSUME KernelInv, NEW st, NEW t \in Threads, state[t] # RUNNABLE, curthr # IdleThread,
           st \in [Threads -> ThreadStates], st[t] = RUNNABLE,
           \A x \in Threads \ {t} : st[x] = RUNNABLE <=> state[x] = RUNNABLE,
           state' = st, curthr' = curthr, panic' = panic,
           runq' = threadrunq_append(runq, t),
           domq' = DomqAfterAppend(runq, domq, t)
    PROVE  KernelInv'
<1>1. t \notin Queued(runq) /\ curthr \in Threads /\ curdom = Dom[curthr]
  BY DEF KernelInv, Consistent, curdom
<1>2. /\ QueuesOK(threadrunq_append(runq, t), DomqAfterAppend(runq, domq, t), curdom)
      /\ Queued(threadrunq_append(runq, t)) = Queued(runq) \cup {t}
  BY <1>1, AppendQueues DEF KernelInv, Consistent, curdom
<1>3. Queued(runq)' = Queued(runq') /\ Queued(runq') \subseteq Threads
  BY DEF Queued
<1>4. QueuesOK(runq, domq, Dom[curthr])'
  BY <1>1, <1>2 DEF QueuesOK, QueueTypes, ThreadQueuesOK, DomainQueueOK, NoDuplicates
<1> QED BY <1>1, <1>2, <1>3, <1>4, Constants DEF KernelInv, Consistent, RunnersOK

-----------------------------------------------------------------------------
(* Proxies.                                                                *)

\* The proxies of a service are pairs of a domain and a number.
LEMMA ProxiesElements ==
    ASSUME CountTypeOK, NEW s \in Services
    PROVE  /\ \A d \in Domains, k \in Nat : <<d, k>> \in Proxies(s) <=> 1 <= k /\ k <= heap[d][s]
           /\ \A x \in Proxies(s) : /\ x = <<x[1], x[2]>> /\ x[1] \in Domains
                                    /\ x[2] \in Nat /\ 1 <= x[2] /\ x[2] <= heap[x[1]][s]
BY DEF Proxies, CountTypeOK

\* A new proxy takes the next place in its heap.
LEMMA ProxyAdded ==
    ASSUME CountTypeOK, CountTypeOK', NEW d \in Domains, NEW s \in Services,
           heap' = [heap EXCEPT ![d][s] = @ + 1]
    PROVE  /\ Proxies(s)' = Proxies(s) \cup {<<d, heap[d][s] + 1>>}
           /\ <<d, heap[d][s] + 1>> \notin Proxies(s)
           /\ \A u \in Services \ {s} : Proxies(u)' = Proxies(u)
<1>1. /\ heap'[d][s] = heap[d][s] + 1 /\ heap[d][s] \in Nat
      /\ \A e \in Domains \ {d} : heap'[e][s] = heap[e][s]
      /\ \A u \in Services \ {s}, e \in Domains : heap'[e][u] = heap[e][u]
  BY DEF CountTypeOK
<1>2. <<d, heap[d][s] + 1>> \notin Proxies(s)
  BY <1>1, ProxiesElements
<1>3. \A u \in Services \ {s} : Proxies(u)' = Proxies(u)
  BY <1>1 DEF Proxies
<1>4. \A e \in Domains : 1 .. heap'[e][s] = (1 .. heap[e][s]) \cup (IF e = d THEN {heap[d][s] + 1} ELSE {})
  <2>1. 1 .. heap'[d][s] = (1 .. heap[d][s]) \cup {heap[d][s] + 1}
    BY <1>1
  <2> QED BY <1>1, <2>1
<1>5. ASSUME NEW x PROVE x \in Proxies(s)' <=> x \in Proxies(s) \cup {<<d, heap[d][s] + 1>>}
  BY <1>4 DEF Proxies
<1>6. Proxies(s)' = Proxies(s) \cup {<<d, heap[d][s] + 1>>}
  BY <1>5
<1> QED BY <1>2, <1>3, <1>6

\* A collected proxy takes the last place away.
LEMMA ProxyRemoved ==
    ASSUME CountTypeOK, CountTypeOK', NEW d \in Domains, NEW s \in Services, heap[d][s] > 0,
           heap' = [heap EXCEPT ![d][s] = @ - 1]
    PROVE  /\ Proxies(s)' = Proxies(s) \ {<<d, heap[d][s]>>}
           /\ <<d, heap[d][s]>> \in Proxies(s)
           /\ \A u \in Services \ {s} : Proxies(u)' = Proxies(u)
<1>1. /\ heap'[d][s] = heap[d][s] - 1 /\ heap[d][s] \in Nat
      /\ \A e \in Domains \ {d} : heap'[e][s] = heap[e][s]
      /\ \A u \in Services \ {s}, e \in Domains : heap'[e][u] = heap[e][u]
  BY DEF CountTypeOK
<1>2. <<d, heap[d][s]>> \in Proxies(s)
  BY <1>1, ProxiesElements
<1>3. \A u \in Services \ {s} : Proxies(u)' = Proxies(u)
  BY <1>1 DEF Proxies
<1>4. \A e \in Domains : 1 .. heap'[e][s] = (1 .. heap[e][s]) \ (IF e = d THEN {heap[d][s]} ELSE {})
  BY <1>1 DEF CountTypeOK
<1>5. ASSUME NEW x PROVE x \in Proxies(s)' <=> x \in Proxies(s) \ {<<d, heap[d][s]>>}
  BY <1>4 DEF Proxies
<1>6. Proxies(s)' = Proxies(s) \ {<<d, heap[d][s]>>}
  BY <1>5
<1> QED BY <1>2, <1>3, <1>6

\* Counts depend on the table and the heaps only.
LEMMA CountsUnchanged ==
    ASSUME RefcountExact, ProxiesHeld, CountsOK,
           entry' = entry, refcount' = refcount, heap' = heap
    PROVE  /\ RefcountExact' /\ CountsOK'
           /\ call' = call => ProxiesHeld'
BY DEF RefcountExact, ProxiesHeld, CountsOK, Proxies

\* Whoever holds a proxy holds one of a service that exists.
LEMMA HeldIsLive ==
    ASSUME CountTypeOK, CountInv, NEW d \in Domains, NEW s \in Services, heap[d][s] > 0
    PROVE  entry[s] = "LIVE"
<1>1. <<d, 1>> \in Proxies(s)
  BY ProxiesElements DEF CountTypeOK
<1> QED BY <1>1 DEF CountInv, RefcountExact, CountTypeOK

\* copy_portal keeps the counts exact: it counts the proxy it makes, and both
\* the proxy and the owner's own when the service comes into being.
LEMMA CopyCounts ==
    ASSUME CountTypeOK, CountTypeOK', CountInv,
           NEW dst \in Domains, NEW p \in Services \cup {NoRef}, copy_portal(dst, p)
    PROVE  /\ RefcountExact' /\ CountsOK'
           /\ \A d \in Domains, u \in Services : heap'[d][u] >= heap[d][u]
           /\ entry' = [u \in Services |-> IF NeedsPromotion(dst, p) /\ u = p THEN "LIVE" ELSE entry[u]]
<1>1. CASE ~NeedsProxy(dst, p)
  <2>1. entry' = entry /\ refcount' = refcount /\ heap' = heap
    BY <1>1 DEF copy_portal
  <2>2. \A u \in Services : Proxies(u)' = Proxies(u)
    BY <2>1 DEF Proxies
  <2> QED BY <1>1, <2>1, <2>2 DEF CountInv, RefcountExact, CountsOK, CountTypeOK, NeedsPromotion
<1>2. CASE NeedsProxy(dst, p)
  <2> p \in Services
    BY <1>2 DEF NeedsProxy
  <2>1. /\ entry' = [entry EXCEPT ![p] = "LIVE"]
        /\ refcount' = [refcount EXCEPT ![p] = IF entry[p] = "FREE" THEN 2 ELSE @ + 1]
        /\ heap' = [heap EXCEPT ![dst][p] = @ + 1]
    BY <1>2 DEF copy_portal
  <2> DEFINE new == <<dst, heap[dst][p] + 1>>
  <2>2. /\ Proxies(p)' = Proxies(p) \cup {new} /\ new \notin Proxies(p)
        /\ \A u \in Services \ {p} : Proxies(u)' = Proxies(u)
    BY <2>1, ProxyAdded
  <2>3. IsFiniteSet(Proxies(p)) /\ Cardinality(Proxies(p)) \in Nat
    BY FS_CardinalityType DEF CountInv, CountsOK
  <2> HIDE DEF new
  <2>4. /\ IsFiniteSet(Proxies(p)')
        /\ Cardinality(Proxies(p)') = Cardinality(Proxies(p)) + 1
    <3>1. /\ IsFiniteSet(Proxies(p) \cup {new})
          /\ Cardinality(Proxies(p) \cup {new}) =
               IF new \in Proxies(p) THEN Cardinality(Proxies(p)) ELSE Cardinality(Proxies(p)) + 1
      BY <2>3, FS_AddElement, Zenon
    <3> QED BY <2>2, <3>1
  <2>5. refcount'[p] = 1 + Cardinality(Proxies(p)')
    <3>1. CASE entry[p] = "FREE"
      BY <2>1, <2>3, <2>4, <3>1, FS_EmptySet DEF CountInv, RefcountExact, CountTypeOK
    <3>2. CASE entry[p] # "FREE"
      BY <2>1, <2>3, <2>4, <3>2 DEF CountInv, RefcountExact, CountTypeOK
    <3> QED BY <3>1, <3>2
  <2>6. ASSUME NEW u \in Services
        PROVE  /\ IsFiniteSet(Proxies(u)') /\ (entry'[u] = "LIVE" => Proxies(u)' # {})
               /\ IF entry'[u] = "FREE" THEN Proxies(u)' = {} /\ refcount'[u] = 0
                  ELSE refcount'[u] = 1 + Cardinality(Proxies(u)')
    <3>1. CASE u = p
      BY <2>1, <2>2, <2>4, <2>5, <3>1 DEF CountTypeOK
    <3>2. CASE u # p
      BY <2>1, <2>2, <3>2 DEF CountInv, CountsOK, RefcountExact, CountTypeOK
    <3> QED BY <3>1, <3>2
  <2>7. RefcountExact' /\ CountsOK'
    BY <2>6 DEF RefcountExact, CountsOK
  <2>8. \A d \in Domains, u \in Services : heap'[d][u] >= heap[d][u]
    BY <2>1 DEF CountTypeOK
  <2> QED BY <1>2, <2>1, <2>7, <2>8 DEF CountTypeOK, NeedsPromotion
<1> QED BY <1>1, <1>2

\* service_decRefcount keeps the counts exact, and the proxy it takes away is the
\* only one if the service goes with it.
LEMMA DropCounts ==
    ASSUME CountTypeOK, CountTypeOK', CountInv,
           NEW d \in Domains, NEW s \in Services, heap[d][s] > 0,
           heap' = [heap EXCEPT ![d][s] = @ - 1],
           refcount' = [refcount EXCEPT ![s] = IF LastProxy(s) THEN 0 ELSE @ - 1],
           entry' = [entry EXCEPT ![s] = IF LastProxy(s) THEN "FREE" ELSE @]
    PROVE  /\ RefcountExact' /\ CountsOK'
           /\ LastProxy(s) => heap[d][s] = 1 /\ \A e \in Domains \ {d} : heap[e][s] = 0
<1> DEFINE old == <<d, heap[d][s]>>
<1>1. /\ Proxies(s)' = Proxies(s) \ {old} /\ old \in Proxies(s)
      /\ \A u \in Services \ {s} : Proxies(u)' = Proxies(u)
  BY ProxyRemoved
<1>2. IsFiniteSet(Proxies(s)) /\ Cardinality(Proxies(s)) \in Nat
  BY FS_CardinalityType DEF CountInv, CountsOK
<1>3. entry[s] = "LIVE" /\ refcount[s] = 1 + Cardinality(Proxies(s))
  BY <1>1, HeldIsLive DEF CountInv, RefcountExact, CountTypeOK
<1>4. <<d, 1>> \in Proxies(s) /\ \A e \in Domains : heap[e][s] > 0 => <<e, 1>> \in Proxies(s)
  BY ProxiesElements DEF CountTypeOK
<1> HIDE DEF old
<1>5. /\ IsFiniteSet(Proxies(s)')
      /\ Cardinality(Proxies(s)') = Cardinality(Proxies(s)) - 1
  <2>1. /\ IsFiniteSet(Proxies(s) \ {old})
        /\ Cardinality(Proxies(s) \ {old}) =
             IF old \in Proxies(s) THEN Cardinality(Proxies(s)) - 1 ELSE Cardinality(Proxies(s))
    BY <1>2, FS_RemoveElement, Zenon
  <2> QED BY <1>1, <2>1
<1>6. LastProxy(s) <=> Cardinality(Proxies(s)') = 0
  BY <1>2, <1>3, <1>5 DEF LastProxy
<1>7. LastProxy(s) <=> Proxies(s)' = {}
  BY <1>5, <1>6, FS_EmptySet
<1>8. ASSUME LastProxy(s)
      PROVE  heap[d][s] = 1 /\ \A e \in Domains \ {d} : heap[e][s] = 0
  <2>1. Proxies(s) = {old}
    BY <1>1, <1>7, <1>8
  <2>2. \A e \in Domains : heap[e][s] > 0 => <<e, 1>> = old
    BY <1>4, <2>1
  <2> QED BY <2>2 DEF old, CountTypeOK
<1>9. ASSUME NEW u \in Services
      PROVE  /\ IsFiniteSet(Proxies(u)') /\ (entry'[u] = "LIVE" => Proxies(u)' # {})
             /\ IF entry'[u] = "FREE" THEN Proxies(u)' = {} /\ refcount'[u] = 0
                ELSE refcount'[u] = 1 + Cardinality(Proxies(u)')
  <2>1. CASE u = s
    BY <1>2, <1>3, <1>5, <1>7, <2>1 DEF CountTypeOK
  <2>2. CASE u # s
    BY <1>1, <2>2 DEF CountInv, CountsOK, RefcountExact, CountTypeOK
  <2> QED BY <2>1, <2>2
<1>10. RefcountExact' /\ CountsOK'
  BY <1>9 DEF RefcountExact, CountsOK
<1> QED BY <1>8, <1>10

-----------------------------------------------------------------------------
(* Calls.                                                                  *)

\* What a thread is in the middle of.
LEMMA CallTypes ==
    ASSUME CallTypeOK
    PROVE  /\ \A t \in Threads : call[t] # NotCalling =>
                 /\ call[t][1] \in Services /\ call[t][2] \in Services \cup {NoRef}
           /\ \A s \in Services : /\ senders[s] \in Seq(Threads) /\ Range(senders[s]) \subseteq Threads
                                  /\ senders[s] # << >> => Head(senders[s]) \in Range(senders[s])
<1>1. \A t \in Threads : call[t] # NotCalling => call[t] \in Services \X (Services \cup {NoRef})
  BY DEF CallTypeOK
<1>2. \A t \in Threads : call[t] # NotCalling =>
          call[t][1] \in Services /\ call[t][2] \in Services \cup {NoRef}
  BY <1>1
<1>3. \A s \in Services : senders[s] \in Seq(Threads)
  BY DEF CallTypeOK
<1>4. \A s \in Services : Range(senders[s]) \subseteq Threads
  BY <1>3 DEF Range
<1>5. \A s \in Services : senders[s] # << >> => Head(senders[s]) \in Range(senders[s])
  BY <1>3, TailFacts
<1> QED BY <1>2, <1>3, <1>4, <1>5

\* The running thread in Java code is no sender and, if it is a receiver, serves
\* somebody; nobody serves it.
LEMMA InCodeFacts ==
    ASSUME IInv, NEW t, InCode(t)
    PROVE  /\ t \in Threads /\ t = curthr /\ t # IdleThread /\ state[t] = RUNNABLE
           /\ pc[t] = "code" /\ call[t] = NotCalling /\ reply[t] = NoReply
           /\ t \notin Queued(runq)
           /\ \A s \in Services : t \notin Range(senders[s]) /\ ~Serves(s, t)
<1> USE IInvParts
<1>1. t \in Threads /\ t = curthr /\ t # IdleThread /\ state[t] = RUNNABLE /\ pc[t] = "code"
      /\ call[t] = NotCalling /\ t \notin Queued(runq)
  BY DEF InCode, KernelInv, Consistent, RunnersOK
<1>2. reply[t] = NoReply
  BY <1>1 DEF CallInv, CallsOK, CallOK
<1>3. \A s \in Services : t \notin Range(senders[s]) /\ ~Serves(s, t)
  BY <1>1 DEF CallInv, WaitQueuesOK, WaitQueueOK, ServingOK, ServiceOK, Serves, Calling
<1> QED BY <1>1, <1>2, <1>3

\* A service that is being called, or that serves, exists.
LEMMA CalledIsLive ==
    ASSUME IInv
    PROVE  /\ \A t \in Threads : call[t] # NotCalling => entry[call[t][1]] = "LIVE"
           /\ \A s \in Services : pc[Recv[s]] = "code" => entry[s] = "LIVE"
           /\ \A s \in Services : senders[s] # << >> => entry[s] = "LIVE"
<1> USE IInvParts
<1>1. CallTypeOK /\ CountTypeOK
  BY DEF SvcTypeOK
<1>2. \A t \in Threads : call[t] # NotCalling => entry[call[t][1]] = "LIVE"
  BY <1>1, CallTypes, HeldIsLive, Constants DEF CountInv, ProxiesHeld
<1>3. \A s \in Services : pc[Recv[s]] = "code" => entry[s] = "LIVE"
  BY <1>2 DEF CallInv, ServingOK, ServiceOK, Calling
<1>4. \A s \in Services : senders[s] # << >> => entry[s] = "LIVE"
  BY <1>1, <1>2, CallTypes DEF CallInv, WaitQueuesOK, WaitQueueOK, Calling
<1> QED BY <1>2, <1>3, <1>4

-----------------------------------------------------------------------------
(* What the steps of a call do to senders and receivers.                   *)

\* A sender queues itself and gives up the CPU; a receiver that waits for it is
\* woken.
LEMMA SendKeepsCalls ==
    ASSUME IInv, NEW t, InCode(t), NEW s \in Services, NEW p \in Services \cup {NoRef},
           s \in MayCall[t], t # Recv[s], entry[s] = "LIVE",
           senders' = portal_add_sender(s, t),
           call' = [call EXCEPT ![t] = <<s, p>>],
           state' = IF state[Recv[s]] = "WAIT_FOR_SND"
                    THEN [[state EXCEPT ![t] = "WAIT_FOR_RET"] EXCEPT ![Recv[s]] = RUNNABLE]
                    ELSE [state EXCEPT ![t] = "WAIT_FOR_RCV"],
           UNCHANGED <<entry, caller, pc, reply, assertion>>
    PROVE  CallTypeOK' /\ CallInv'
<1>0. KernelInv /\ SvcTypeOK /\ CallInv /\ CountInv
  BY IInvParts
<1> DEFINE r == Recv[s]
<1>1. /\ t \in Threads /\ t # IdleThread /\ pc[t] = "code" /\ reply[t] = NoReply
      /\ call[t] = NotCalling /\ state[t] = RUNNABLE
      /\ \A u \in Services : t \notin Range(senders[u]) /\ ~Serves(u, t)
  BY InCodeFacts
<1>2. /\ r \in Threads /\ r # IdleThread /\ \A u \in Services : Recv[u] = r => u = s
  BY Constants
<1>3. CallTypeOK /\ CallInv /\ CountTypeOK /\ state \in [Threads -> ThreadStates]
  BY <1>0 DEF SvcTypeOK, KernelInv, Consistent
<1>4. /\ senders'[s] = Append(senders[s], t) /\ \A u \in Services \ {s} : senders'[u] = senders[u]
      /\ senders' \in [Services -> Seq(Threads)]
      /\ Range(senders'[s]) = Range(senders[s]) \cup {t}
      /\ NoDuplicates(senders[s]) => NoDuplicates(senders'[s])
  <2>1. senders \in [Services -> Seq(Threads)] /\ senders[s] \in Seq(Threads)
    BY <1>3 DEF CallTypeOK
  <2>2. /\ Append(senders[s], t) \in Seq(Threads)
        /\ Range(Append(senders[s], t)) = Range(senders[s]) \cup {t}
        /\ NoDuplicates(senders[s]) /\ t \notin Range(senders[s]) => NoDuplicates(Append(senders[s], t))
    BY <1>1, <2>1, AppendFacts
  <2> QED BY <1>1, <2>1, <2>2 DEF portal_add_sender
<1>5. /\ call'[t] # NotCalling /\ call'[t][1] = s /\ \A x \in Threads \ {t} : call'[x] = call[x]
      /\ call' \in [Threads -> (Services \X (Services \cup {NoRef})) \cup {NotCalling}]
  BY <1>1, <1>3 DEF CallTypeOK, NotCalling
<1>6. CallTypeOK'
  BY <1>3, <1>4, <1>5 DEF CallTypeOK
<1>7. /\ state'[t] \in {"WAIT_FOR_RET", "WAIT_FOR_RCV"}
      /\ state[r] = "WAIT_FOR_SND" => state'[r] = RUNNABLE
      /\ \A x \in Threads \ {t} : x # r \/ state[r] # "WAIT_FOR_SND" => state'[x] = state[x]
  BY <1>1, <1>2, <1>3
<1>8. state[r] = "WAIT_FOR_SND" => pc[r] = "recv" /\ call[r] = NotCalling
  BY <1>2, <1>3 DEF CallInv, ReceiversOK, ReceiverOK, CallsOK, CallOK
<1> HIDE DEF r
<1>9. \A u \in Services, x \in Threads : Serves(u, x)' <=> Serves(u, x)
  BY DEF Serves
<1>10. CallsOK'
  <2> SUFFICES ASSUME NEW x \in Threads PROVE CallOK(x)'
    BY DEF CallsOK
  <2>1. CASE x = t
    BY <1>1, <1>4, <1>5, <1>7, <2>1 DEF CallOK, RUNNABLE
  <2>2. CASE x # t /\ call[x] = NotCalling
    BY <1>3, <1>5, <1>7, <2>2 DEF CallInv, CallsOK, CallOK
  <2>3. CASE x # t /\ call[x] # NotCalling
    <3>1. x # r \/ state[r] # "WAIT_FOR_SND"
      BY <1>8, <2>3
    <3>2. call[x][1] \in Services /\ state'[x] = state[x] /\ call'[x] = call[x]
      BY <1>3, <1>5, <1>7, <2>3, <3>1, CallTypes
    <3>3. Range(senders[call[x][1]]) \subseteq Range(senders'[call[x][1]])
      BY <1>4, <3>2
    <3> QED BY <1>3, <1>9, <2>3, <3>2, <3>3 DEF CallInv, CallsOK, CallOK
  <2> QED BY <2>1, <2>2, <2>3
<1>11. WaitQueuesOK'
  <2> SUFFICES ASSUME NEW u \in Services
               PROVE /\ NoDuplicates(senders'[u])
                     /\ \A x \in Range(senders'[u]) :
                           Calling(x, u)' /\ state'[x] # RUNNABLE /\ ~Serves(u, x)'
    BY DEF WaitQueuesOK, WaitQueueOK, Range, NoDuplicates
  <2>1. NoDuplicates(senders'[u])
    BY <1>3, <1>4 DEF CallInv, WaitQueuesOK, WaitQueueOK
  <2>2. ASSUME NEW x \in Range(senders[u])
        PROVE  Calling(x, u)' /\ state'[x] # RUNNABLE /\ ~Serves(u, x)'
    <3>1. x \in Threads /\ x # t /\ Calling(x, u) /\ state[x] # RUNNABLE /\ ~Serves(u, x)
      BY <1>1, <1>3, CallTypes DEF CallInv, WaitQueuesOK, WaitQueueOK
    <3>2. x # r \/ state[r] # "WAIT_FOR_SND"
      BY <1>8, <3>1 DEF Calling
    <3> QED BY <1>5, <1>7, <1>9, <3>1, <3>2 DEF Calling
  <2>3. u = s => Calling(t, u)' /\ state'[t] # RUNNABLE /\ ~Serves(u, t)'
    BY <1>1, <1>5, <1>7, <1>9 DEF Calling, RUNNABLE
  <2> QED BY <1>4, <2>1, <2>2, <2>3
<1>12. ServingOK'
  <2> SUFFICES ASSUME NEW u \in Services, pc[Recv[u]] = "code"
               PROVE  /\ caller[Recv[u]] \in Threads
                      /\ Calling(caller[Recv[u]], u)' /\ state'[caller[Recv[u]]] # RUNNABLE
    BY DEF ServingOK, ServiceOK, Calling
  <2>1. /\ caller[Recv[u]] \in Threads /\ Calling(caller[Recv[u]], u)
        /\ state[caller[Recv[u]]] # RUNNABLE
    BY <1>3 DEF CallInv, ServingOK, ServiceOK
  <2>2. caller[Recv[u]] # t /\ (caller[Recv[u]] # r \/ state[r] # "WAIT_FOR_SND")
    BY <1>1, <1>8, <2>1 DEF Calling
  <2> QED BY <1>5, <1>7, <2>1, <2>2 DEF Calling
<1>13. ReceiversOK'
  <2>1. ASSUME NEW u \in Services
        PROVE  /\ state'[Recv[u]] = "NONE" <=> entry'[u] = "FREE"
               /\ state'[Recv[u]] = "WAIT_FOR_SND" => pc'[Recv[u]] = "recv" /\ senders'[u] = << >>
    <3>1. CASE u = s
      BY <1>1, <1>2, <1>3, <1>7, <3>1 DEF CallInv, ReceiversOK, ReceiverOK, r, RUNNABLE
    <3>2. CASE u # s
      <4>1. Recv[u] \in Threads /\ Recv[u] # r
        BY <1>2, <3>2, Constants
      <4> QED BY <1>1, <1>3, <1>4, <1>7, <3>2, <4>1 DEF CallInv, ReceiversOK, ReceiverOK, RUNNABLE
    <3> QED BY <3>1, <3>2
  <2>2. \A x \in Threads \ Receivers : pc'[x] = "code" /\ state'[x] # "WAIT_FOR_SND"
    BY <1>1, <1>3, <1>7, Constants DEF CallInv, ReceiversOK, ReceiverOK, r
  <2>3. state'[InitialThread] # "NONE"
    BY <1>1, <1>3, <1>7, Constants DEF CallInv, ReceiversOK, ReceiverOK, r
  <2> QED BY <2>1, <2>2, <2>3 DEF ReceiversOK, ReceiverOK
<1> QED BY <1>6, <1>10, <1>11, <1>12, <1>13 DEF CallInv

\* The sender takes its answer.
LEMMA TakeKeepsCalls ==
    ASSUME IInv, NEW t \in Threads, state[t] = RUNNABLE, call[t] # NotCalling,
           call' = [call EXCEPT ![t] = NotCalling],
           reply' = [reply EXCEPT ![t] = NoReply],
           UNCHANGED <<state, entry, senders, caller, pc, assertion>>
    PROVE  CallTypeOK' /\ CallInv'
<1>0. KernelInv /\ SvcTypeOK /\ CallInv /\ CountInv
  BY IInvParts
<1>1. CallTypeOK /\ CallInv
  BY <1>0 DEF SvcTypeOK
<1>2. /\ call'[t] = NotCalling /\ reply'[t] = NoReply
      /\ \A x \in Threads \ {t} : call'[x] = call[x] /\ reply'[x] = reply[x]
  BY <1>1 DEF CallTypeOK
<1>3. CallTypeOK'
  BY <1>1 DEF CallTypeOK
<1>4. \A u \in Services : t \notin Range(senders[u]) /\ ~Serves(u, t)
  BY <1>1 DEF CallInv, WaitQueuesOK, WaitQueueOK, ServingOK, ServiceOK, Serves
<1>5. CallsOK'
  <2> SUFFICES ASSUME NEW x \in Threads PROVE CallOK(x)'
    BY DEF CallsOK
  <2>1. CASE x = t
    BY <1>1, <1>2, <2>1 DEF CallInv, CallsOK, CallOK
  <2>2. CASE x # t
    BY <1>1, <1>2, <2>2 DEF CallInv, CallsOK, CallOK, Serves
  <2> QED BY <2>1, <2>2
<1>6. WaitQueuesOK'
  <2> SUFFICES ASSUME NEW u \in Services, NEW x \in Range(senders[u])
               PROVE  Calling(x, u)' /\ state[x] # RUNNABLE /\ ~Serves(u, x)'
    BY <1>1 DEF CallInv, WaitQueuesOK, WaitQueueOK
  <2>1. x \in Threads /\ x # t
    BY <1>1, <1>4, CallTypes
  <2> QED BY <1>1, <1>2, <2>1 DEF CallInv, WaitQueuesOK, WaitQueueOK, Calling, Serves
<1>7. ServingOK'
  BY <1>1, <1>2, <1>4 DEF CallInv, ServingOK, ServiceOK, Calling, Serves
<1>8. ReceiversOK'
  BY <1>1 DEF CallInv, ReceiversOK, ReceiverOK
<1> QED BY <1>3, <1>5, <1>6, <1>7, <1>8 DEF CallInv

\* The receiver finds nobody and waits.
LEMMA WaitKeepsCalls ==
    ASSUME IInv, NEW s \in Services, state[Recv[s]] = RUNNABLE, pc[Recv[s]] = "recv",
           senders[s] = << >>,
           state' = [state EXCEPT ![Recv[s]] = "WAIT_FOR_SND"],
           caller' = [caller EXCEPT ![Recv[s]] = NoThread],
           UNCHANGED <<entry, senders, call, pc, reply, assertion>>
    PROVE  CallTypeOK' /\ CallInv'
<1> DEFINE r == Recv[s]
<1>0. KernelInv /\ SvcTypeOK /\ CallInv /\ CountInv
  BY IInvParts
<1>1. CallTypeOK /\ CallInv /\ state \in [Threads -> ThreadStates]
  BY <1>0 DEF SvcTypeOK, KernelInv, Consistent
<1>2. r \in Threads /\ r # InitialThread /\ \A u \in Services : Recv[u] \in Threads /\ (Recv[u] = r => u = s)
  BY Constants
<1>3. /\ state'[r] = "WAIT_FOR_SND" /\ \A x \in Threads \ {r} : state'[x] = state[x]
      /\ \A x \in Threads \ {r} : caller'[x] = caller[x]
  BY <1>1, <1>2 DEF CallTypeOK
<1>4. CallTypeOK'
  BY <1>1 DEF CallTypeOK
<1>5. call[r] = NotCalling
  BY <1>1, <1>2 DEF CallInv, CallsOK, CallOK
<1> HIDE DEF r
<1>6. \A u \in Services, x \in Threads : Serves(u, x)' <=> Serves(u, x)
  BY <1>2, <1>3 DEF Serves, r
<1>7. CallsOK'
  <2> SUFFICES ASSUME NEW x \in Threads PROVE CallOK(x)'
    BY DEF CallsOK
  <2>1. CASE x = r
    BY <1>1, <1>3, <1>5, <2>1 DEF CallInv, CallsOK, CallOK
  <2>2. CASE x # r
    BY <1>1, <1>3, <1>6, <2>2, CallTypes DEF CallInv, CallsOK, CallOK
  <2> QED BY <2>1, <2>2
<1>8. WaitQueuesOK'
  <2> SUFFICES ASSUME NEW u \in Services, NEW x \in Range(senders[u])
               PROVE  Calling(x, u) /\ state'[x] # RUNNABLE /\ ~Serves(u, x)'
    BY <1>1 DEF CallInv, WaitQueuesOK, WaitQueueOK, Calling
  <2>1. x \in Threads
    BY <1>1, CallTypes
  <2> QED BY <1>1, <1>3, <1>6, <2>1 DEF CallInv, WaitQueuesOK, WaitQueueOK, RUNNABLE
<1>9. ServingOK'
  BY <1>1, <1>2, <1>3 DEF CallInv, ServingOK, ServiceOK, Calling, r, RUNNABLE
<1>10. ReceiversOK'
  <2>1. ASSUME NEW u \in Services PROVE ReceiverOK(u)'
    BY <1>1, <1>2, <1>3 DEF CallInv, ReceiversOK, ReceiverOK, r, RUNNABLE
  <2>2. \A x \in Threads \ Receivers : x # r
    BY Constants DEF r
  <2>3. state'[InitialThread] # "NONE"
    BY <1>1, <1>2, <1>3, Constants DEF CallInv, ReceiversOK
  <2> QED BY <1>1, <1>3, <2>1, <2>2, <2>3 DEF CallInv, ReceiversOK
<1> QED BY <1>4, <1>7, <1>8, <1>9, <1>10 DEF CallInv

\* The receiver thread a promotion makes has nothing to do with any call yet.
LEMMA FreshReceiver ==
    ASSUME IInv, NEW q \in Services, entry[q] = "FREE"
    PROVE  /\ Recv[q] \in Threads /\ state[Recv[q]] = "NONE" /\ call[Recv[q]] = NotCalling
           /\ pc[Recv[q]] = "recv" /\ senders[q] = << >>
           /\ \A u \in Services : Recv[q] \notin Range(senders[u]) /\ ~Serves(u, Recv[q])
<1>0. KernelInv /\ SvcTypeOK /\ CallInv /\ CountInv
  BY IInvParts
<1>1. Recv[q] \in Threads /\ state[Recv[q]] = "NONE"
  BY <1>0, Constants DEF CallInv, ReceiversOK, ReceiverOK
<1>2. call[Recv[q]] = NotCalling
  BY <1>0, <1>1 DEF CallInv, CallsOK, CallOK, RUNNABLE
<1>3. pc[Recv[q]] = "recv" /\ senders[q] = << >>
  BY <1>0, <1>1, CalledIsLive DEF SvcTypeOK, CallTypeOK
<1>4. \A u \in Services : Recv[q] \notin Range(senders[u]) /\ ~Serves(u, Recv[q])
  BY <1>0, <1>2 DEF CallInv, WaitQueuesOK, WaitQueueOK, ServingOK, ServiceOK, Calling, Serves
<1> QED BY <1>1, <1>2, <1>3, <1>4

\* The receiver takes the first sender; its parameter may bring a service into
\* being, with a receiver thread of its own.
LEMMA ServeKeepsCalls ==
    ASSUME IInv, NEW s \in Services, state[Recv[s]] = RUNNABLE, pc[Recv[s]] = "recv",
           senders[s] # << >>, NEW source, source = Head(senders[s]),
           NEW q, NEW promo, promo => q \in Services /\ entry[q] = "FREE",
           senders' = portal_dequeue_sender(s),
           state' = IF promo THEN [[state EXCEPT ![source] = "WAIT_FOR_RET"] EXCEPT ![Recv[q]] = RUNNABLE]
                    ELSE [state EXCEPT ![source] = "WAIT_FOR_RET"],
           entry' = [u \in Services |-> IF promo /\ u = q THEN "LIVE" ELSE entry[u]],
           caller' = [caller EXCEPT ![Recv[s]] = source],
           pc' = [pc EXCEPT ![Recv[s]] = "code"],
           UNCHANGED <<call, reply, assertion>>
    PROVE  CallTypeOK' /\ CallInv'
<1> DEFINE r == Recv[s]
           n == Recv[q]
<1>0. KernelInv /\ SvcTypeOK /\ CallInv /\ CountInv
  BY IInvParts
<1>1. CallTypeOK /\ CountTypeOK /\ CallInv /\ state \in [Threads -> ThreadStates]
  BY <1>0 DEF SvcTypeOK, KernelInv, Consistent
<1>2. r \in Threads /\ \A u \in Services : Recv[u] \in Threads /\ (Recv[u] = r => u = s)
  BY Constants
<1>3. /\ source \in Threads /\ Calling(source, s) /\ state[source] # RUNNABLE
      /\ source \in Range(senders[s])
  BY <1>1, CallTypes DEF CallInv, WaitQueuesOK, WaitQueueOK
<1>4. promo => /\ n \in Threads /\ state[n] = "NONE" /\ call[n] = NotCalling /\ pc[n] = "recv"
               /\ senders[q] = << >> /\ n # r /\ n # source /\ q # s
               /\ \A u \in Services : n \notin Range(senders[u]) /\ ~Serves(u, n)
  BY <1>3, FreshReceiver DEF Calling, RUNNABLE
<1>5. /\ senders' \in [Services -> Seq(Threads)]
      /\ \A u \in Services \ {s} : senders'[u] = senders[u]
      /\ Range(senders'[s]) = Range(senders[s]) \ {source}
      /\ NoDuplicates(senders'[s])
  <2>1. senders \in [Services -> Seq(Threads)] /\ senders[s] \in Seq(Threads) /\ NoDuplicates(senders[s])
    BY <1>1 DEF CallTypeOK, CallInv, WaitQueuesOK, WaitQueueOK
  <2>2. /\ Tail(senders[s]) \in Seq(Threads)
        /\ Range(Tail(senders[s])) = Range(senders[s]) \ {source} /\ NoDuplicates(Tail(senders[s]))
    BY <2>1, TailFacts
  <2> QED BY <2>1, <2>2 DEF portal_dequeue_sender
<1>6. /\ state'[source] = "WAIT_FOR_RET" /\ (promo => state'[n] = RUNNABLE)
      /\ \A x \in Threads \ {source} : ~promo \/ x # n => state'[x] = state[x]
  BY <1>1, <1>3, <1>4
<1>7. /\ caller'[r] = source /\ pc'[r] = "code"
      /\ \A x \in Threads \ {r} : caller'[x] = caller[x] /\ pc'[x] = pc[x]
  BY <1>1, <1>2 DEF CallTypeOK
<1>8. CallTypeOK'
  BY <1>1, <1>3, <1>5 DEF CallTypeOK
<1>9. call[r] = NotCalling
  BY <1>1, <1>2 DEF CallInv, CallsOK, CallOK
<1> HIDE DEF r, n
<1>10. /\ \A x \in Threads : Serves(s, x)' <=> x = source
       /\ \A u \in Services \ {s}, x \in Threads : Serves(u, x)' <=> Serves(u, x)
  BY <1>2, <1>7 DEF Serves, r
<1>11. \A u \in Services \ {s} : ~Serves(u, source) /\ source \notin Range(senders[u])
  BY <1>1, <1>3 DEF CallInv, ServingOK, ServiceOK, Serves, WaitQueuesOK, WaitQueueOK, Calling
<1>12. CallsOK'
  <2> SUFFICES ASSUME NEW x \in Threads PROVE CallOK(x)'
    BY DEF CallsOK
  <2>1. CASE x = source
    BY <1>1, <1>3, <1>6, <1>7, <1>9, <1>10, <2>1 DEF CallInv, CallsOK, CallOK, Calling, RUNNABLE
  <2>2. CASE promo /\ x = n
    BY <1>1, <1>4, <1>6, <2>2 DEF CallInv, CallsOK, CallOK, RUNNABLE
  <2>3. CASE x # source /\ (~promo \/ x # n) /\ call[x] = NotCalling
    BY <1>1, <1>6, <2>3 DEF CallInv, CallsOK, CallOK
  <2>4. CASE x # source /\ (~promo \/ x # n) /\ call[x] # NotCalling
    <3>1. call[x][1] \in Services /\ x # r /\ pc'[x] = pc[x] /\ state'[x] = state[x]
      BY <1>1, <1>6, <1>7, <1>9, <2>4, CallTypes
    <3>2. CASE call[x][1] = s
      <4>1. ~Serves(s, x)
        BY DEF Serves
      <4> QED BY <1>1, <1>5, <2>4, <3>1, <3>2, <4>1 DEF CallInv, CallsOK, CallOK
    <3>3. CASE call[x][1] # s
      BY <1>1, <1>5, <1>10, <2>4, <3>1, <3>3 DEF CallInv, CallsOK, CallOK
    <3> QED BY <3>2, <3>3
  <2> QED BY <2>1, <2>2, <2>3, <2>4
<1>13. WaitQueuesOK'
  <2> SUFFICES ASSUME NEW u \in Services
               PROVE /\ NoDuplicates(senders'[u])
                     /\ \A x \in Range(senders'[u]) :
                           Calling(x, u)' /\ state'[x] # RUNNABLE /\ ~Serves(u, x)'
    BY DEF WaitQueuesOK, WaitQueueOK, Range, NoDuplicates
  <2>1. NoDuplicates(senders'[u])
    BY <1>1, <1>5 DEF CallInv, WaitQueuesOK, WaitQueueOK
  <2>2. ASSUME NEW x \in Range(senders'[u])
        PROVE  Calling(x, u)' /\ state'[x] # RUNNABLE /\ ~Serves(u, x)'
    <3>1. x \in Range(senders[u]) /\ x # source
      BY <1>5, <1>11
    <3>2. x \in Threads /\ Calling(x, u) /\ state[x] # RUNNABLE /\ ~Serves(u, x)
      BY <1>1, <3>1, CallTypes DEF CallInv, WaitQueuesOK, WaitQueueOK
    <3>3. promo => x # n
      BY <1>4, <3>1
    <3>4. Calling(x, u)'
      BY <3>2 DEF Calling
    <3> QED BY <1>6, <1>10, <3>1, <3>2, <3>3, <3>4
  <2> QED BY <2>1, <2>2
<1>14. ServingOK'
  <2> SUFFICES ASSUME NEW u \in Services, pc'[Recv[u]] = "code"
               PROVE  /\ caller'[Recv[u]] \in Threads
                      /\ Calling(caller'[Recv[u]], u) /\ state'[caller'[Recv[u]]] # RUNNABLE
    BY DEF ServingOK, ServiceOK, Calling
  <2>1. CASE u = s
    BY <1>3, <1>6, <1>7, <2>1 DEF r, RUNNABLE
  <2>2. CASE u # s
    <3>1. /\ Recv[u] # r /\ Recv[u] \in Threads
          /\ caller'[Recv[u]] = caller[Recv[u]] /\ pc[Recv[u]] = "code"
      BY <1>2, <1>7, <2>2
    <3>2. /\ caller[Recv[u]] \in Threads /\ Calling(caller[Recv[u]], u)
          /\ state[caller[Recv[u]]] # RUNNABLE
      BY <1>1, <3>1 DEF CallInv, ServingOK, ServiceOK
    <3>3. promo => caller[Recv[u]] # n
      BY <1>4, <3>2 DEF Calling
    <3> QED BY <1>6, <3>1, <3>2, <3>3 DEF RUNNABLE
  <2> QED BY <2>1, <2>2
<1>15. ReceiversOK'
  <2>1. ASSUME NEW u \in Services PROVE ReceiverOK(u)'
    <3>1. Recv[u] \in Threads /\ (promo /\ Recv[u] = n => u = q)
      BY Constants DEF n
    <3>2. CASE promo /\ u = q
      BY <1>1, <1>4, <1>6, <3>2 DEF ReceiverOK, n, RUNNABLE
    <3>3. CASE ~(promo /\ u = q) /\ u = s
      <4>1. entry'[u] = entry[u] /\ state[r] = RUNNABLE /\ r # source
        BY <1>3, <3>3 DEF r
      <4>2. state'[Recv[u]] = RUNNABLE
        BY <1>2, <1>6, <3>1, <3>3, <4>1 DEF r
      <4> QED BY <1>1, <3>3, <4>1, <4>2 DEF CallInv, ReceiversOK, ReceiverOK, r, RUNNABLE
    <3>4. CASE ~(promo /\ u = q) /\ u # s
      <4>1. /\ entry'[u] = entry[u] /\ senders'[u] = senders[u] /\ pc'[Recv[u]] = pc[Recv[u]]
            /\ ~promo \/ Recv[u] # n
        BY <1>2, <1>5, <1>7, <3>1, <3>4
      <4>2. CASE Recv[u] # source
        BY <1>1, <1>6, <3>1, <4>1, <4>2 DEF CallInv, ReceiversOK, ReceiverOK
      <4>3. CASE Recv[u] = source
        <5>1. state[source] \in {"WAIT_FOR_RCV", "WAIT_FOR_RET"}
          BY <1>1, <1>3 DEF CallInv, CallsOK, CallOK, Calling
        <5> QED BY <1>1, <1>6, <3>1, <4>1, <4>3, <5>1 DEF CallInv, ReceiversOK, ReceiverOK
      <4> QED BY <4>2, <4>3
    <3> QED BY <3>2, <3>3, <3>4
  <2>2. \A x \in Threads \ Receivers : pc'[x] = "code" /\ state'[x] # "WAIT_FOR_SND"
    <3>1. r \in Receivers /\ (promo => n \in Receivers)
      BY Constants DEF r, n
    <3> QED BY <1>1, <1>6, <1>7, <3>1 DEF CallInv, ReceiversOK
  <2>3. state'[InitialThread] # "NONE"
    <3>1. InitialThread \in Threads /\ (promo => n # InitialThread)
      BY Constants DEF n
    <3> QED BY <1>1, <1>6, <3>1 DEF CallInv, ReceiversOK
  <2> QED BY <2>1, <2>2, <2>3 DEF ReceiversOK
<1> QED BY <1>8, <1>12, <1>13, <1>14, <1>15 DEF CallInv

\* The receiver answers the sender it serves and goes back to its loop, where it
\* waits only if nobody else is queued; its result may bring a service into being.
LEMMA AnswerKeepsCalls ==
    ASSUME IInv, NEW s \in Services, InCode(Recv[s]),
           NEW q \in Services \cup {NoRef}, q # NoRef => entry[q] = "FREE",
           NEW kind \in {"value", "exception"},
           reply' = [reply EXCEPT ![caller[Recv[s]]] = <<s, kind>>],
           state'[Recv[s]] \in {RUNNABLE, "WAIT_FOR_SND"},
           state'[Recv[s]] = "WAIT_FOR_SND" => senders[s] = << >>,
           state'[caller[Recv[s]]] = RUNNABLE,
           q # NoRef => state'[Recv[q]] = RUNNABLE,
           \A x \in Threads \ {Recv[s], caller[Recv[s]]} : q = NoRef \/ x # Recv[q] => state'[x] = state[x],
           entry' = [u \in Services |-> IF u = q THEN "LIVE" ELSE entry[u]],
           caller' \in [Threads -> Threads \cup {NoThread}],
           \A x \in Threads \ {Recv[s]} : caller'[x] = caller[x],
           pc' = [pc EXCEPT ![Recv[s]] = "recv"],
           UNCHANGED <<senders, call, assertion>>
    PROVE  CallTypeOK' /\ CallInv'
<1> DEFINE r == Recv[s]
           source == caller[r]
           n == Recv[q]
           promo == q # NoRef
<1>a. /\ promo => q \in Services
      /\ \A u \in Services : entry'[u] = IF promo /\ u = q THEN "LIVE" ELSE entry[u]
  BY Constants
<1>0. KernelInv /\ SvcTypeOK /\ CallInv /\ CountInv
  BY IInvParts
<1>1. CallTypeOK /\ CountTypeOK /\ CallInv
  BY <1>0 DEF SvcTypeOK
<1>2. /\ r \in Threads /\ r \in Receivers /\ r # InitialThread
      /\ \A u \in Services : Recv[u] \in Threads /\ (Recv[u] = r => u = s)
  BY Constants
<1>3. /\ pc[r] = "code" /\ call[r] = NotCalling /\ reply[r] = NoReply /\ state[r] = RUNNABLE
      /\ \A u \in Services : r \notin Range(senders[u]) /\ ~Serves(u, r)
  BY InCodeFacts
<1>4. /\ source \in Threads /\ Calling(source, s) /\ state[source] # RUNNABLE /\ source # r
      /\ Serves(s, source)
  BY <1>1, <1>3 DEF CallInv, ServingOK, ServiceOK, Serves
<1>5. /\ \A u \in Services : source \notin Range(senders[u])
      /\ \A u \in Services \ {s} : ~Serves(u, source)
  BY <1>1, <1>4 DEF CallInv, WaitQueuesOK, WaitQueueOK, ServingOK, ServiceOK, Serves, Calling
<1>6. promo => /\ n \in Threads /\ n \in Receivers /\ n # InitialThread
               /\ state[n] = "NONE" /\ call[n] = NotCalling /\ pc[n] = "recv"
               /\ senders[q] = << >> /\ n # r /\ n # source /\ q # s
               /\ \A u \in Services : n \notin Range(senders[u]) /\ ~Serves(u, n)
  BY <1>a, <1>3, <1>4, FreshReceiver, Constants DEF Calling, RUNNABLE
<1>7. /\ pc'[r] = "recv" /\ \A x \in Threads \ {r} : pc'[x] = pc[x]
      /\ reply'[source] = <<s, kind>> /\ \A x \in Threads \ {source} : reply'[x] = reply[x]
  BY <1>1, <1>2, <1>4 DEF CallTypeOK
<1>8. CallTypeOK'
  BY <1>1, <1>4 DEF CallTypeOK
<1> HIDE DEF r, n, source, promo
<1>9. /\ \A x \in Threads : ~Serves(s, x)'
      /\ \A u \in Services \ {s}, x \in Threads : Serves(u, x)' <=> Serves(u, x)
  BY <1>2, <1>7 DEF Serves, r
<1>10. /\ state'[r] \in {RUNNABLE, "WAIT_FOR_SND"} /\ (state'[r] = "WAIT_FOR_SND" => senders[s] = << >>)
       /\ state'[source] = RUNNABLE /\ (promo => state'[n] = RUNNABLE)
       /\ \A x \in Threads \ {r, source} : ~promo \/ x # n => state'[x] = state[x]
  BY DEF r, n, source, promo
<1>11. CallsOK'
  <2> SUFFICES ASSUME NEW x \in Threads PROVE CallOK(x)'
    BY DEF CallsOK
  <2>1. CASE x = source
    <3>1. /\ source # IdleThread /\ pc'[source] = "code" /\ call[source][1] \in MayCall[source]
          /\ call[source] # NotCalling /\ call[source][1] = s
      BY <1>1, <1>4, <1>7 DEF CallInv, CallsOK, CallOK, Calling
    <3>2. reply'[source] # NoReply /\ reply'[source][1] = s
      BY <1>7 DEF NoReply
    <3> QED BY <1>10, <2>1, <3>1, <3>2 DEF CallOK
  <2>2. CASE x = r
    BY <1>1, <1>3, <1>4, <1>7, <1>10, <2>2 DEF CallOK
  <2>3. CASE promo /\ x = n
    BY <1>1, <1>6, <1>7, <1>10, <2>3 DEF CallInv, CallsOK, CallOK
  <2>4. CASE x \notin {source, r} /\ (~promo \/ x # n) /\ call[x] = NotCalling
    BY <1>1, <1>7, <1>10, <2>4 DEF CallInv, CallsOK, CallOK
  <2>5. CASE x \notin {source, r} /\ (~promo \/ x # n) /\ call[x] # NotCalling
    <3>1. /\ call[x][1] \in Services /\ pc'[x] = pc[x] /\ state'[x] = state[x] /\ reply'[x] = reply[x]
          /\ ~Serves(s, x)
      BY <1>1, <1>4, <1>7, <1>10, <2>5, CallTypes DEF Serves
    <3>2. Serves(call[x][1], x) => Serves(call[x][1], x)'
      BY <1>9, <3>1
    <3> QED BY <1>1, <2>5, <3>1, <3>2 DEF CallInv, CallsOK, CallOK
  <2> QED BY <2>1, <2>2, <2>3, <2>4, <2>5
<1>12. WaitQueuesOK'
  <2> SUFFICES ASSUME NEW u \in Services, NEW x \in Range(senders[u])
               PROVE  Calling(x, u)' /\ state'[x] # RUNNABLE /\ ~Serves(u, x)'
    BY <1>1 DEF CallInv, WaitQueuesOK, WaitQueueOK
  <2>1. x \in Threads /\ Calling(x, u) /\ state[x] # RUNNABLE /\ ~Serves(u, x)
    BY <1>1, CallTypes DEF CallInv, WaitQueuesOK, WaitQueueOK
  <2>2. x # source /\ x # r /\ (promo => x # n)
    BY <1>3, <1>5, <1>6
  <2>3. Calling(x, u)'
    BY <2>1 DEF Calling
  <2> QED BY <1>9, <1>10, <2>1, <2>2, <2>3
<1>13. ServingOK'
  <2> SUFFICES ASSUME NEW u \in Services, pc'[Recv[u]] = "code"
               PROVE  /\ caller'[Recv[u]] \in Threads
                      /\ Calling(caller'[Recv[u]], u) /\ state'[caller'[Recv[u]]] # RUNNABLE
    BY DEF ServingOK, ServiceOK, Calling
  <2>1. u # s
    BY <1>7 DEF r
  <2>2. /\ Recv[u] # r /\ Recv[u] \in Threads
        /\ caller'[Recv[u]] = caller[Recv[u]] /\ pc[Recv[u]] = "code"
    BY <1>2, <1>7, <2>1 DEF r
  <2>3. /\ caller[Recv[u]] \in Threads /\ Calling(caller[Recv[u]], u)
        /\ state[caller[Recv[u]]] # RUNNABLE
    BY <1>1, <2>2 DEF CallInv, ServingOK, ServiceOK
  <2>4. /\ caller[Recv[u]] # source /\ caller[Recv[u]] # r
        /\ promo => caller[Recv[u]] # n
    BY <1>3, <1>4, <1>6, <2>1, <2>3 DEF Calling
  <2> QED BY <1>10, <2>2, <2>3, <2>4
<1>14. ReceiversOK'
  <2>1. ASSUME NEW u \in Services PROVE ReceiverOK(u)'
    <3>1. Recv[u] \in Threads /\ (promo /\ Recv[u] = n => u = q)
      BY <1>a, Constants DEF n
    <3>2. CASE promo /\ u = q
      BY <1>a, <1>6, <1>10, <3>2 DEF ReceiverOK, n, RUNNABLE
    <3>3. CASE u = s
      <4>1. entry'[u] = entry[u] /\ Recv[u] = r /\ entry[u] # "FREE"
        BY <1>a, <1>1, <1>3, <1>6, <3>3 DEF r, CallInv, ReceiversOK, ReceiverOK, RUNNABLE
      <4> QED BY <1>7, <1>10, <3>3, <4>1 DEF ReceiverOK, RUNNABLE
    <3>4. CASE ~(promo /\ u = q) /\ u # s
      <4>1. /\ entry'[u] = entry[u] /\ Recv[u] # r /\ pc'[Recv[u]] = pc[Recv[u]]
            /\ ~promo \/ Recv[u] # n
        BY <1>a, <1>2, <1>7, <3>1, <3>4
      <4>2. CASE Recv[u] # source
        BY <1>1, <1>10, <3>1, <4>1, <4>2 DEF CallInv, ReceiversOK, ReceiverOK
      <4>3. CASE Recv[u] = source
        <5>1. state[source] \in {"WAIT_FOR_RCV", "WAIT_FOR_RET"}
          BY <1>1, <1>4 DEF CallInv, CallsOK, CallOK, Calling
        <5> QED BY <1>1, <1>10, <3>1, <4>1, <4>3, <5>1 DEF CallInv, ReceiversOK, ReceiverOK, RUNNABLE
      <4> QED BY <4>2, <4>3
    <3> QED BY <3>2, <3>3, <3>4
  <2>2. ASSUME NEW x \in Threads \ Receivers PROVE pc'[x] = "code" /\ state'[x] # "WAIT_FOR_SND"
    <3>1. x # r /\ (promo => x # n)
      BY <1>2, <1>6
    <3> QED BY <1>1, <1>7, <1>10, <3>1 DEF CallInv, ReceiversOK, RUNNABLE
  <2>3. state'[InitialThread] # "NONE"
    <3>1. InitialThread \in Threads /\ InitialThread # r /\ (promo => n # InitialThread)
      BY <1>2, <1>6, Constants
    <3> QED BY <1>1, <1>10, <3>1 DEF CallInv, ReceiversOK, RUNNABLE
  <2> QED BY <2>1, <2>2, <2>3 DEF ReceiversOK
<1> QED BY <1>8, <1>11, <1>12, <1>13, <1>14 DEF CallInv

\* Threads that are in no call, and no receivers, come and go; a receiver goes
\* with its service while it waits.
LEMMA LifeKeepsCalls ==
    ASSUME IInv, NEW D \in SUBSET Services,
           \A u \in D : state[Recv[u]] = "WAIT_FOR_SND" /\ state'[Recv[u]] = "NONE",
           entry' = [u \in Services |-> IF u \in D THEN "FREE" ELSE entry[u]],
           \A x \in Threads : (\A u \in D : x # Recv[u]) =>
              \/ state'[x] = state[x]
              \/ /\ x \notin Receivers /\ call[x] = NotCalling /\ state'[x] \in {"NONE", RUNNABLE}
                 /\ x = InitialThread => state'[x] # "NONE",
           UNCHANGED <<senders, call, caller, pc, reply, assertion>>
    PROVE  CallTypeOK' /\ CallInv'
<1>0. KernelInv /\ SvcTypeOK /\ CallInv /\ CountInv
  BY IInvParts
<1>1. CallTypeOK /\ CallInv
  BY <1>0 DEF SvcTypeOK
<1>2. CallTypeOK'
  BY <1>1 DEF CallTypeOK
<1>3. \A u \in Services : Recv[u] \in Threads /\ Recv[u] \in Receivers
  BY Constants
<1>4. \A u \in D : call[Recv[u]] = NotCalling
  BY <1>1, <1>3 DEF CallInv, CallsOK, CallOK, RUNNABLE
<1>5. \A x \in Threads : call[x] # NotCalling => state'[x] = state[x]
  BY <1>4
<1>6. /\ \A u \in Services, x \in Threads : Serves(u, x)' <=> Serves(u, x)
      /\ \A u \in Services, x \in Threads : Calling(x, u)' <=> Calling(x, u)
  BY DEF Serves, Calling
<1>7. CallsOK'
  <2> SUFFICES ASSUME NEW x \in Threads PROVE CallOK(x)'
    BY DEF CallsOK
  <2>1. CASE call[x] = NotCalling
    <3>1. state'[x] \in {state[x], "NONE", RUNNABLE}
      OBVIOUS
    <3> QED BY <1>1, <2>1, <3>1 DEF CallInv, CallsOK, CallOK
  <2>2. CASE call[x] # NotCalling
    <3>1. call[x][1] \in Services /\ state'[x] = state[x]
      BY <1>1, <1>5, <2>2, CallTypes
    <3> QED BY <1>1, <1>6, <2>2, <3>1 DEF CallInv, CallsOK, CallOK
  <2> QED BY <2>1, <2>2
<1>8. WaitQueuesOK'
  <2> SUFFICES ASSUME NEW u \in Services, NEW x \in Range(senders[u])
               PROVE  Calling(x, u)' /\ state'[x] # RUNNABLE /\ ~Serves(u, x)'
    BY <1>1 DEF CallInv, WaitQueuesOK, WaitQueueOK
  <2>1. x \in Threads /\ Calling(x, u) /\ state[x] # RUNNABLE /\ ~Serves(u, x)
    BY <1>1, CallTypes DEF CallInv, WaitQueuesOK, WaitQueueOK
  <2>2. call[x] # NotCalling
    BY <2>1 DEF Calling
  <2> QED BY <1>5, <1>6, <2>1, <2>2
<1>9. ServingOK'
  <2> SUFFICES ASSUME NEW u \in Services, pc[Recv[u]] = "code"
               PROVE  /\ caller[Recv[u]] \in Threads
                      /\ Calling(caller[Recv[u]], u) /\ state'[caller[Recv[u]]] # RUNNABLE
    BY DEF ServingOK, ServiceOK, Calling
  <2>1. /\ caller[Recv[u]] \in Threads /\ Calling(caller[Recv[u]], u)
        /\ state[caller[Recv[u]]] # RUNNABLE
    BY <1>1 DEF CallInv, ServingOK, ServiceOK
  <2> QED BY <1>5, <2>1 DEF Calling
<1>10. ReceiversOK'
  <2>1. ASSUME NEW u \in Services PROVE ReceiverOK(u)'
    <3>1. CASE u \in D
      BY <3>1 DEF ReceiverOK
    <3>2. CASE u \notin D
      <4>1. \A v \in D : Recv[u] # Recv[v]
        BY <3>2, Constants
      <4>2. state'[Recv[u]] = state[Recv[u]] /\ entry'[u] = entry[u]
        BY <1>3, <3>2, <4>1
      <4> QED BY <1>1, <4>2 DEF CallInv, ReceiversOK, ReceiverOK
    <3> QED BY <3>1, <3>2
  <2>2. ASSUME NEW x \in Threads \ Receivers PROVE pc'[x] = "code" /\ state'[x] # "WAIT_FOR_SND"
    <3>1. \A u \in D : x # Recv[u]
      BY <1>3
    <3> QED BY <1>1, <3>1 DEF CallInv, ReceiversOK, RUNNABLE
  <2>3. state'[InitialThread] # "NONE"
    <3>1. InitialThread \in Threads /\ \A u \in D : InitialThread # Recv[u]
      BY Constants
    <3> QED BY <1>1, <3>1 DEF CallInv, ReceiversOK
  <2> QED BY <2>1, <2>2, <2>3 DEF ReceiversOK
<1> QED BY <1>2, <1>7, <1>8, <1>9, <1>10 DEF CallInv

\* An assertion that fires leaves everything as it is.
LEMMA StopKeeps ==
    ASSUME IInv, NEW a \in {"promotion", "receiver runnable", "queued sender", "moved sender", "irqs enabled"}, Stop(a)
    PROVE  IInv'
<1>0. KernelInv /\ SvcTypeOK /\ CallInv /\ CountInv
  BY IInvParts
<1>1. /\ UNCHANGED runqVars /\ assertion' = a /\ state' = state
      /\ entry' = entry /\ refcount' = refcount /\ heap' = heap /\ senders' = senders
      /\ call' = call /\ caller' = caller /\ pc' = pc /\ reply' = reply
  BY DEF Stop, runqVars
<1>2. KernelInv'
  BY <1>0, <1>1, KernelUnchanged
<1>3. CountTypeOK'
  BY <1>0, <1>1 DEF SvcTypeOK, CountTypeOK
<1>4. CallTypeOK'
  BY <1>0, <1>1 DEF SvcTypeOK, CallTypeOK
<1>5. CallInv'
  <2>1. CallsOK' /\ ServingOK' /\ ReceiversOK'
    BY <1>0, <1>1 DEF CallInv, CallsOK, CallOK, ServingOK, ServiceOK, ReceiversOK, ReceiverOK, Calling, Serves
  <2>2. WaitQueuesOK'
    BY <1>0, <1>1 DEF CallInv, WaitQueuesOK, WaitQueueOK, Calling, Serves
  <2> QED BY <2>1, <2>2 DEF CallInv
<1>6. RefcountExact' /\ ProxiesHeld' /\ CountsOK'
  BY <1>0, <1>1, CountsUnchanged DEF CountInv
<1>7. CountInv'
  BY <1>1, <1>6 DEF CountInv, ServiceTableOK
<1> QED BY <1>2, <1>3, <1>4, <1>5, <1>7, IInvNext

-----------------------------------------------------------------------------
(* What the steps do to the run queue.                                     *)

\* The running thread gives up the CPU and is not RUNNABLE any more.
LEMMA BlockKernel ==
    ASSUME KernelInv, curthr # IdleThread, NEW w \in ThreadStates \ {RUNNABLE},
           Sched_switch_to_nextThread([state EXCEPT ![curthr] = w], runq, domq)
    PROVE  KernelInv' /\ state' = [state EXCEPT ![curthr] = w]
<1> DEFINE st == [state EXCEPT ![curthr] = w]
           Q == Queued(runq)
<1>1. /\ curthr \in Threads /\ state \in [Threads -> ThreadStates] /\ curthr \notin Q
      /\ \A x \in Threads : x \in Q <=> state[x] = RUNNABLE /\ x \notin {curthr, IdleThread}
      /\ Q \subseteq Threads
  BY DEF KernelInv, Consistent, Queued
<1>2. /\ st \in [Threads -> ThreadStates] /\ st[curthr] = w
      /\ \A x \in Threads \ {curthr} : st[x] = state[x]
  BY <1>1
<1> HIDE DEF st, Q
<1>3. Consistent(st, runq, domq, curthr)
  BY <1>1, <1>2 DEF KernelInv, Consistent, Q
<1>4. /\ Consistent(state', runq', domq', curthr') /\ state' = st /\ panic' = panic
      /\ Queued(runq') = Q \ {curthr'} /\ (curthr' \in Q \/ (curthr' = IdleThread /\ Q = {}))
  BY <1>3, SwitchStep DEF st, Q
<1>5. \A x \in Threads : x \in Q <=> st[x] = RUNNABLE /\ x # IdleThread
  BY <1>1, <1>2
<1>6. st[IdleThread] = RUNNABLE
  BY <1>2, Constants DEF KernelInv, RunnersOK
<1>7. KernelInv'
  BY <1>4, <1>5, <1>6, SwitchKernel
<1> QED BY <1>4, <1>7 DEF st

\* The running thread unblocks t, and somebody else runs; st and rq are the
\* thread states and the queues with the running thread where it belongs.
LEMMA HandoffKernel ==
    ASSUME KernelInv, NEW st \in [Threads -> ThreadStates], NEW rq, NEW t \in Threads,
           t # IdleThread, QueuesOK(rq, domq, curdom), t \notin Queued(rq),
           st[IdleThread] = RUNNABLE, IdleThread \notin Queued(rq),
           \A x \in Threads \ {t, IdleThread} : x \in Queued(rq) <=> st[x] = RUNNABLE,
           UnblockAndSwitch(st, rq, t)
    PROVE  KernelInv' /\ state' = [st EXCEPT ![t] = RUNNABLE]
<1> DEFINE st2 == [st EXCEPT ![t] = RUNNABLE]
           Q == Queued(rq) \cup {t}
<1>1. curthr \in Threads /\ Queued(rq) \subseteq Threads
  BY DEF KernelInv, Consistent, Queued
<1>2. Consistent(st, rq, domq, curthr)
  BY <1>1 DEF Consistent, curdom
<1>3. st2 \in [Threads -> ThreadStates] /\ st2[t] = RUNNABLE /\ \A x \in Threads \ {t} : st2[x] = st[x]
  BY DEF ThreadStates
<1> HIDE DEF st2, Q
<1>4. /\ Consistent(state', runq', domq', curthr') /\ state' = st2 /\ panic' = panic
      /\ Queued(runq') = Q \ {curthr'} /\ curthr' \in Q
  BY <1>2, UnblockStep DEF st2, Q
<1>5. \A x \in Threads : x \in Q <=> st2[x] = RUNNABLE /\ x # IdleThread
  BY <1>3 DEF Q
<1>6. st2[IdleThread] = RUNNABLE
  BY <1>3, Constants
<1>7. KernelInv'
  BY <1>4, <1>5, <1>6, SwitchKernel
<1> QED BY <1>4, <1>7 DEF st2

-----------------------------------------------------------------------------
(* The steps.                                                              *)

\* direct_send_portal up to the switch.  The proxy the caller holds stands for a
\* service that exists, and no thread is queued twice.
LEMMA SendStep ==
    ASSUME IInv, NEW t \in Threads, NEW s \in Services, NEW p \in Services \cup {NoRef},
           direct_send_portal(t, s, p)
    PROVE  /\ IInv'
           /\ senders' = portal_add_sender(s, t) /\ call' = [call EXCEPT ![t] = <<s, p>>]
           /\ UNCHANGED <<entry, caller, pc, reply>>
<1> DEFINE r == Recv[s]
           waits == state[r] = "WAIT_FOR_SND"
<1>0. KernelInv /\ SvcTypeOK /\ CallInv /\ CountInv
  BY IInvParts
<1>1. InCode(t) /\ s \in MayCall[t] /\ Owner[s] # Dom[t] /\ heap[Dom[t]][s] > 0
  BY DEF direct_send_portal
<1>2. /\ t = curthr /\ t # IdleThread /\ state[t] = RUNNABLE /\ t \notin Range(senders[s])
      /\ t \notin Queued(runq)
  BY <1>1, InCodeFacts
<1>3. entry[s] = "LIVE"
  BY <1>0, <1>1, HeldIsLive, Constants DEF SvcTypeOK
<1>4. r \in Threads /\ r # IdleThread /\ r # t
  BY <1>1, Constants
<1> HIDE DEF r
<1>5. /\ senders' = portal_add_sender(s, t) /\ call' = [call EXCEPT ![t] = <<s, p>>]
      /\ IF waits THEN UnblockAndSwitch([state EXCEPT ![t] = "WAIT_FOR_RET"], runq, r)
         ELSE Sched_block("WAIT_FOR_RCV")
      /\ entry' = entry /\ refcount' = refcount /\ heap' = heap /\ caller' = caller
      /\ pc' = pc /\ reply' = reply /\ assertion' = assertion
  BY <1>2, <1>3 DEF direct_send_portal, r
<1>6. KernelInv' /\ state' = IF waits THEN [[state EXCEPT ![t] = "WAIT_FOR_RET"] EXCEPT ![r] = RUNNABLE]
                             ELSE [state EXCEPT ![t] = "WAIT_FOR_RCV"]
  <2>1. CASE waits
    <3> DEFINE st == [state EXCEPT ![t] = "WAIT_FOR_RET"]
    <3>1. /\ state \in [Threads -> ThreadStates] /\ QueuesOK(runq, domq, curdom)
          /\ \A x \in Threads : x \in Queued(runq) <=> state[x] = RUNNABLE /\ x \notin {curthr, IdleThread}
          /\ state[IdleThread] = RUNNABLE /\ IdleThread \in Threads
      BY <1>0, Constants DEF KernelInv, Consistent, RunnersOK, curdom
    <3>2. /\ st \in [Threads -> ThreadStates] /\ st[t] # RUNNABLE
          /\ \A x \in Threads \ {t} : st[x] = state[x]
      BY <3>1 DEF ThreadStates, RUNNABLE
    <3>3. UnblockAndSwitch(st, runq, r)
      BY <1>5, <2>1
    <3> HIDE DEF st
    <3>4. st[IdleThread] = RUNNABLE /\ IdleThread \notin Queued(runq)
      BY <1>2, <3>1, <3>2
    <3>5. \A x \in Threads \ {r, IdleThread} : x \in Queued(runq) <=> st[x] = RUNNABLE
      BY <1>2, <3>1, <3>2
    <3>6. r \notin Queued(runq)
      BY <1>4, <2>1, <3>1 DEF RUNNABLE
    <3>7. KernelInv' /\ state' = [st EXCEPT ![r] = RUNNABLE]
      BY <1>0, <1>4, <3>1, <3>2, <3>3, <3>4, <3>5, <3>6, HandoffKernel
    <3> QED BY <2>1, <3>7 DEF st
  <2>2. CASE ~waits
    <3>1. Sched_switch_to_nextThread([state EXCEPT ![curthr] = "WAIT_FOR_RCV"], runq, domq)
      BY <1>5, <2>2 DEF Sched_block
    <3>2. KernelInv' /\ state' = [state EXCEPT ![curthr] = "WAIT_FOR_RCV"]
      BY <1>0, <1>2, <3>1, BlockKernel DEF ThreadStates, RUNNABLE
    <3> QED BY <1>2, <2>2, <3>2
  <2> QED BY <2>1, <2>2
<1>7. CallTypeOK' /\ CallInv'
  BY <1>1, <1>3, <1>4, <1>5, <1>6, SendKeepsCalls DEF r
<1>8. CountTypeOK'
  BY <1>0, <1>5 DEF SvcTypeOK, CountTypeOK
<1>9. CountInv'
  <2>1. RefcountExact' /\ CountsOK'
    BY <1>0, <1>5, CountsUnchanged DEF CountInv
  <2>2. ProxiesHeld'
    <3>1. call'[t][1] = s /\ \A x \in Threads \ {t} : call'[x] = call[x]
      BY <1>0, <1>5 DEF SvcTypeOK, CallTypeOK
    <3> QED BY <1>0, <1>1, <1>5, <3>1 DEF CountInv, ProxiesHeld
  <2> QED BY <1>0, <1>5, <2>1, <2>2 DEF CountInv, ServiceTableOK
<1> QED BY <1>5, <1>6, <1>7, <1>8, <1>9, IInvNext

\* The sender takes its answer: it is in no queue any more.
LEMMA ReturnStep ==
    ASSUME IInv, NEW t \in Threads, SendReturn(t)
    PROVE  /\ IInv'
           /\ call' = [call EXCEPT ![t] = NotCalling] /\ reply' = [reply EXCEPT ![t] = NoReply]
           /\ UNCHANGED <<entry, senders, caller, pc>>
           /\ call[t] # NotCalling /\ reply[t] # NoReply /\ reply[t][1] = call[t][1]
<1>0. KernelInv /\ SvcTypeOK /\ CallInv /\ CountInv
  BY IInvParts
<1>1. call[t] # NotCalling /\ state[t] = RUNNABLE
  BY <1>0 DEF SendReturn, KernelInv, RunnersOK
<1>2. call[t][1] \in Services /\ t \notin Range(senders[call[t][1]])
  BY <1>0, <1>1, CallTypes DEF SvcTypeOK, CallInv, WaitQueuesOK, WaitQueueOK
<1>3. /\ call' = [call EXCEPT ![t] = NotCalling] /\ reply' = [reply EXCEPT ![t] = NoReply]
      /\ UNCHANGED runqVars /\ state' = state
      /\ entry' = entry /\ refcount' = refcount /\ heap' = heap /\ senders' = senders
      /\ caller' = caller /\ pc' = pc /\ assertion' = assertion
  BY <1>2 DEF SendReturn, runqVars
<1>4. CallTypeOK' /\ CallInv'
  BY <1>1, <1>3, TakeKeepsCalls
<1>5. KernelInv'
  BY <1>0, <1>3, KernelUnchanged
<1>6. CountTypeOK'
  BY <1>0, <1>3 DEF SvcTypeOK, CountTypeOK
<1>7. CountInv'
  <2>1. RefcountExact' /\ CountsOK'
    BY <1>0, <1>3, CountsUnchanged DEF CountInv
  <2>2. ProxiesHeld'
    <3>1. call'[t] = NotCalling /\ \A x \in Threads \ {t} : call'[x] = call[x]
      BY <1>0, <1>3 DEF SvcTypeOK, CallTypeOK
    <3> QED BY <1>0, <1>3, <3>1 DEF CountInv, ProxiesHeld
  <2> QED BY <1>0, <1>3, <2>1, <2>2 DEF CountInv, ServiceTableOK
<1>8. reply[t] # NoReply /\ reply[t][1] = call[t][1]
  BY <1>0, <1>1 DEF CallInv, CallsOK, CallOK
<1> QED BY <1>1, <1>3, <1>4, <1>5, <1>6, <1>7, <1>8, IInvNext

\* Nobody gets RUNNABLE and nobody ceases to be.
LEMMA SameRunnable ==
    ASSUME KernelInv, state' \in [Threads -> ThreadStates],
           \A x \in Threads : state'[x] = RUNNABLE <=> state[x] = RUNNABLE,
           curthr' = curthr, runq' = runq, domq' = domq, panic' = panic
    PROVE  KernelInv'
<1>1. curthr \in Threads /\ IdleThread \in Threads /\ Queued(runq) \subseteq Threads
  BY Constants DEF KernelInv, Consistent, Queued
<1> QED BY <1>1 DEF KernelInv, Consistent, QueuesOK, QueueTypes, ThreadQueuesOK, DomainQueueOK,
       NoDuplicates, Queued, RunnersOK

\* A thread of the running domain is queued: that domain is in no queue.
LEMMA OwnAppend ==
    ASSUME curthr \in Threads, NEW rq, NEW t \in Threads, QueuesOK(rq, domq, curdom),
           t \notin Queued(rq), Dom[t] = curdom
    PROVE  /\ QueuesOK(threadrunq_append(rq, t), domq, curdom)
           /\ Queued(threadrunq_append(rq, t)) = Queued(rq) \cup {t}
<1>1. /\ QueuesOK(threadrunq_append(rq, t), DomqAfterAppend(rq, domq, t), curdom)
      /\ Queued(threadrunq_append(rq, t)) = Queued(rq) \cup {t}
      /\ curdom = Dom[t] => DomqAfterAppend(rq, domq, t) = domq
  BY AppendQueues
<1>2. DomqAfterAppend(rq, domq, t) = domq
  BY <1>1
<1> QED BY <1>1, <1>2

\* The types of the table and the heaps after a copy.
LEMMA CopyTypes ==
    ASSUME CountTypeOK, NEW dst \in Domains, NEW p \in Services \cup {NoRef}, copy_portal(dst, p)
    PROVE  CountTypeOK'
BY DEF CountTypeOK, copy_portal, NeedsProxy

\* One round of the receive loop.
LEMMA ReceiveStep ==
    ASSUME IInv, NEW s \in Services, receive_portalcall(s)
    PROVE  /\ IInv' /\ call' = call /\ reply' = reply /\ pc[Recv[s]] = "recv"
           /\ senders[s] = << >> =>
                /\ UNCHANGED <<entry, senders, pc>>
                /\ \A x \in Threads \ {Recv[s]} : caller'[x] = caller[x]
           /\ senders[s] # << >> =>
                /\ senders' = portal_dequeue_sender(s)
                /\ caller' = [caller EXCEPT ![Recv[s]] = Head(senders[s])]
                /\ pc' = [pc EXCEPT ![Recv[s]] = "code"]
<1> DEFINE r == Recv[s]
<1>0. KernelInv /\ SvcTypeOK /\ CallInv /\ CountInv
  BY IInvParts
<1>1. CallTypeOK /\ CountTypeOK /\ state \in [Threads -> ThreadStates]
  BY <1>0 DEF SvcTypeOK, KernelInv, Consistent
<1>2. r \in Threads /\ r # IdleThread /\ Owner[s] \in Domains
  BY Constants
<1>3. curthr = r /\ pc[r] = "recv" /\ state[r] = RUNNABLE
  BY <1>0 DEF receive_portalcall, KernelInv, RunnersOK
<1>4. entry[s] # "FREE"
  BY <1>0, <1>3 DEF CallInv, ReceiversOK, ReceiverOK, RUNNABLE
<1>5. CASE senders[s] = << >>
  <2>1. /\ Sched_block("WAIT_FOR_SND") /\ caller' = [caller EXCEPT ![r] = NoThread]
        /\ entry' = entry /\ refcount' = refcount /\ heap' = heap /\ senders' = senders
        /\ call' = call /\ pc' = pc /\ reply' = reply /\ assertion' = assertion
    BY <1>4, <1>5 DEF receive_portalcall
  <2>2. KernelInv' /\ state' = [state EXCEPT ![r] = "WAIT_FOR_SND"]
    BY <1>0, <1>2, <1>3, <2>1, BlockKernel DEF Sched_block, ThreadStates, RUNNABLE
  <2>3. CallTypeOK' /\ CallInv'
    BY <1>3, <1>5, <2>1, <2>2, WaitKeepsCalls
  <2>4. CountTypeOK'
    BY <1>1, <2>1 DEF CountTypeOK
  <2>5. CountInv'
    BY <1>0, <2>1, CountsUnchanged DEF CountInv, ServiceTableOK
  <2>6. \A x \in Threads \ {r} : caller'[x] = caller[x]
    BY <1>1, <2>1 DEF CallTypeOK
  <2> QED BY <1>3, <1>5, <2>1, <2>2, <2>3, <2>4, <2>5, <2>6, IInvNext
<1>6. CASE senders[s] # << >>
  <2> DEFINE source == Head(senders[s])
             p == call[source][2]
             n == Recv[p]
             promo == NeedsPromotion(Owner[s], p)
             st == [state EXCEPT ![source] = "WAIT_FOR_RET"]
  <2>1. /\ source \in Threads /\ Calling(source, s) /\ state[source] # RUNNABLE
        /\ call[source] # NotCalling
    BY <1>0, <1>1, <1>6, CallTypes DEF CallInv, WaitQueuesOK, WaitQueueOK, Calling
  <2>2. p \in Services \cup {NoRef}
    BY <1>1, <2>1, CallTypes
  <2>3. source \notin Range(Tail(senders[s]))
    <3>1. senders[s] \in Seq(Threads) /\ NoDuplicates(senders[s])
      BY <1>0, <1>1, CallTypes DEF CallInv, WaitQueuesOK, WaitQueueOK
    <3> QED BY <1>6, <3>1, TailFacts
  <2>4. curdom \notin Range(domq)
    BY <1>0, Constants DEF KernelInv, Consistent, QueuesOK, DomainQueueOK, curdom
  <2>5. promo => /\ p \in Services /\ entry[p] = "FREE" /\ n \in Threads /\ state[n] = "NONE"
                 /\ n # source
    BY <2>1, <2>2, FreshReceiver DEF NeedsPromotion, NeedsProxy
  <2> HIDE DEF source, p, promo, n, r
  <2>6. promo => AppendAssert(runq, domq, n)
    <3>1. promo => n \notin Queued(runq)
      BY <1>0, <2>5 DEF KernelInv, RUNNABLE
    <3>2. curthr \in Threads /\ QueuesOK(runq, domq, curdom)
      BY <1>0 DEF KernelInv, Consistent, curdom
    <3> QED BY <2>5, <3>1, <3>2, AppendQueues
  <2>7. /\ senders' = portal_dequeue_sender(s) /\ copy_portal(Owner[s], p)
        /\ state' = IF promo THEN [st EXCEPT ![n] = RUNNABLE] ELSE st
        /\ runq' = IF promo THEN threadrunq_append(runq, n) ELSE runq
        /\ domq' = IF promo THEN DomqAfterAppend(runq, domq, n) ELSE domq
        /\ caller' = [caller EXCEPT ![r] = source] /\ pc' = [pc EXCEPT ![r] = "code"]
        /\ curthr' = curthr /\ panic' = panic /\ call' = call /\ reply' = reply /\ assertion' = assertion
    BY <1>4, <1>6, <2>3, <2>4, <2>6
       DEF receive_portalcall, StatePromoted, RunqPromoted, source, p, promo, n, r
  <2>8. CountTypeOK'
    BY <1>1, <1>2, <2>2, <2>7, CopyTypes
  <2>9. /\ RefcountExact' /\ CountsOK' /\ \A d \in Domains, u \in Services : heap'[d][u] >= heap[d][u]
        /\ entry' = [u \in Services |-> IF promo /\ u = p THEN "LIVE" ELSE entry[u]]
    <3>1. /\ RefcountExact' /\ CountsOK' /\ \A d \in Domains, u \in Services : heap'[d][u] >= heap[d][u]
          /\ entry' = [u \in Services |-> IF NeedsPromotion(Owner[s], p) /\ u = p THEN "LIVE" ELSE entry[u]]
      BY <1>0, <1>1, <1>2, <2>2, <2>7, <2>8, CopyCounts
    <3> QED BY <3>1 DEF promo
  <2>10. CallTypeOK' /\ CallInv'
    BY <1>3, <1>6, <2>5, <2>7, <2>9, ServeKeepsCalls DEF source, n, r
  <2>11. KernelInv'
    <3>1. st \in [Threads -> ThreadStates] /\ \A x \in Threads : st[x] = RUNNABLE <=> state[x] = RUNNABLE
      BY <1>1, <2>1 DEF ThreadStates, RUNNABLE
    <3> HIDE DEF st
    <3>2. CASE promo
      <4>1. /\ state' \in [Threads -> ThreadStates] /\ state'[n] = RUNNABLE /\ state[n] # RUNNABLE
            /\ \A x \in Threads \ {n} : state'[x] = RUNNABLE <=> state[x] = RUNNABLE
        BY <2>5, <2>7, <3>1, <3>2 DEF ThreadStates, RUNNABLE
      <4>2. curthr # IdleThread
        BY <1>2, <1>3 DEF r
      <4> QED BY <1>0, <2>5, <2>7, <3>2, <4>1, <4>2, QueueKernel
    <3>3. CASE ~promo
      BY <1>0, <2>7, <3>1, <3>3, SameRunnable
    <3> QED BY <3>2, <3>3
  <2>12. CountInv'
    <3>1. ProxiesHeld'
      <4> SUFFICES ASSUME NEW x \in Threads, call[x] # NotCalling PROVE heap'[Dom[x]][call[x][1]] > 0
        BY <2>7 DEF ProxiesHeld
      <4>1. call[x][1] \in Services /\ Dom[x] \in Domains /\ heap[Dom[x]][call[x][1]] > 0
        BY <1>0, <1>1, CallTypes, Constants DEF CountInv, ProxiesHeld
      <4>2. heap[Dom[x]][call[x][1]] \in Nat /\ heap'[Dom[x]][call[x][1]] \in Nat
        BY <1>1, <2>8, <4>1 DEF CountTypeOK
      <4> QED BY <2>9, <4>1, <4>2
    <3> QED BY <1>0, <2>7, <2>9, <3>1 DEF CountInv, ServiceTableOK
  <2> QED BY <1>3, <1>6, <2>7, <2>8, <2>10, <2>11, <2>12, IInvNext DEF source, r
<1> QED BY <1>5, <1>6

\* A caller that is being served stays blocked until the answer, and its calls
\* keep what they hold when heaps only grow.
LEMMA ServedFacts ==
    ASSUME IInv, NEW s \in Services, InCode(Recv[s])
    PROVE  /\ caller[Recv[s]] \in Threads /\ caller[Recv[s]] # IdleThread /\ caller[Recv[s]] # Recv[s]
           /\ state[caller[Recv[s]]] # RUNNABLE /\ reply[caller[Recv[s]]] = NoReply
           /\ entry[s] = "LIVE" /\ curthr = Recv[s] /\ curdom = Owner[s]
<1>0. KernelInv /\ SvcTypeOK /\ CallInv /\ CountInv
  BY IInvParts
<1>1. Recv[s] = curthr /\ pc[Recv[s]] = "code" /\ state[Recv[s]] = RUNNABLE /\ curdom = Owner[s]
  BY InCodeFacts, Constants DEF curdom
<1>2. /\ caller[Recv[s]] \in Threads /\ Calling(caller[Recv[s]], s)
      /\ state[caller[Recv[s]]] # RUNNABLE
  BY <1>0, <1>1 DEF CallInv, ServingOK, ServiceOK
<1>3. caller[Recv[s]] # IdleThread /\ reply[caller[Recv[s]]] = NoReply
  BY <1>0, <1>2 DEF CallInv, CallsOK, CallOK, Calling
<1>4. entry[s] = "LIVE"
  BY <1>1, CalledIsLive
<1> QED BY <1>1, <1>2, <1>3, <1>4

\* Copies only add proxies.
LEMMA ProxiesStayHeld ==
    ASSUME CallTypeOK, CountTypeOK, CountTypeOK', ProxiesHeld, call' = call,
           \A d \in Domains, u \in Services : heap'[d][u] >= heap[d][u]
    PROVE  ProxiesHeld'
<1> SUFFICES ASSUME NEW x \in Threads, call[x] # NotCalling PROVE heap'[Dom[x]][call[x][1]] > 0
  BY DEF ProxiesHeld
<1>1. call[x][1] \in Services /\ Dom[x] \in Domains /\ heap[Dom[x]][call[x][1]] > 0
  BY CallTypes, Constants DEF ProxiesHeld
<1>2. heap[Dom[x]][call[x][1]] \in Nat /\ heap'[Dom[x]][call[x][1]] \in Nat
  BY <1>1 DEF CountTypeOK
<1> QED BY <1>1, <1>2

\* The service method returns.  A service that the result brings into being is one
\* of the running domain, and so is the receiver itself: both are queued without
\* touching the domain queue, before the sender is unblocked.
LEMMA ReceiveReturnStep ==
    ASSUME IInv, NEW s \in Services, NEW q \in Services \cup {NoRef}, ReceiveReturn(s, q)
    PROVE  /\ IInv' /\ InCode(Recv[s]) /\ call' = call /\ senders' = senders
           /\ reply' = [reply EXCEPT ![caller[Recv[s]]] = <<s, "value">>]
           /\ pc' = [pc EXCEPT ![Recv[s]] = "recv"]
           /\ \A x \in Threads \ {Recv[s]} : caller'[x] = caller[x]
<1> DEFINE r == Recv[s]
           source == caller[r]
           dst == Dom[source]
           n == Recv[q]
           promo == NeedsPromotion(dst, q)
           more == senders[s] # << >>
           w == IF more THEN RUNNABLE ELSE "WAIT_FOR_SND"
           st1 == StatePromoted(state, dst, q)
           rq1 == RunqPromoted(dst, q)
           st2 == [st1 EXCEPT ![r] = w]
           rq2 == IF more THEN threadrunq_append(rq1, r) ELSE rq1
<1>0. KernelInv /\ SvcTypeOK /\ CallInv /\ CountInv
  BY IInvParts
<1>1. CallTypeOK /\ CountTypeOK /\ state \in [Threads -> ThreadStates]
  BY <1>0 DEF SvcTypeOK, KernelInv, Consistent
<1>2. /\ InCode(r) /\ q \in References(Owner[s]) /\ copy_portal(dst, q)
      /\ reply' = [reply EXCEPT ![source] = <<s, "value">>]
      /\ caller' = [caller EXCEPT ![r] = NoThread] /\ pc' = [pc EXCEPT ![r] = "recv"]
      /\ UnblockAndSwitch(st2, rq2, source)
      /\ senders' = senders /\ call' = call /\ assertion' = assertion
  BY DEF ReceiveReturn, Sched_portal_handoff_to_sender
<1>3. /\ r \in Threads /\ r # IdleThread /\ curthr = r /\ curdom = Owner[s] /\ Dom[r] = curdom
      /\ r \notin Queued(runq) /\ state[r] = RUNNABLE
      /\ source \in Threads /\ source # IdleThread /\ source # r /\ state[source] # RUNNABLE
  BY <1>2, ServedFacts, InCodeFacts, Constants
<1>4. dst \in Domains
  BY <1>3, Constants
<1>5. promo => /\ q \in Services /\ entry[q] = "FREE" /\ n \in Threads /\ n # IdleThread
               /\ state[n] = "NONE" /\ n # r /\ n # source /\ Dom[n] = curdom
  <2> SUFFICES ASSUME promo
               PROVE  /\ q \in Services /\ entry[q] = "FREE" /\ n \in Threads /\ n # IdleThread
                      /\ state[n] = "NONE" /\ n # r /\ n # source /\ Dom[n] = curdom
    OBVIOUS
  <2>1. q \in Services /\ entry[q] = "FREE"
    BY DEF NeedsPromotion, NeedsProxy
  <2>2. n \in Threads /\ n # IdleThread /\ state[n] = "NONE" /\ Dom[n] = Owner[q]
    BY <2>1, FreshReceiver, Constants
  <2>3. ~(heap[Owner[s]][q] > 0)
    BY <1>0, <1>1, <2>1, HeldIsLive, Constants
  <2>4. Owner[q] = Owner[s]
    BY <1>2, <2>1, <2>3, Constants DEF References
  <2>5. n # r
    BY <1>3, <2>2 DEF RUNNABLE
  <2>6. n # source
    <3>1. ~Serves(s, n)
      BY <2>1, FreshReceiver
    <3>2. pc[r] = "code"
      BY <1>2, InCodeFacts
    <3> QED BY <3>1, <3>2 DEF Serves
  <2> QED BY <1>3, <2>1, <2>2, <2>4, <2>5, <2>6
<1>6. /\ QueuesOK(runq, domq, curdom) /\ curthr \in Threads /\ IdleThread \in Threads
      /\ \A x \in Threads : x \in Queued(runq) <=> state[x] = RUNNABLE /\ x \notin {curthr, IdleThread}
      /\ state[IdleThread] = RUNNABLE
  BY <1>0, <1>3, Constants DEF KernelInv, Consistent, RunnersOK, curdom
<1>7. /\ st1 = IF promo THEN [state EXCEPT ![n] = RUNNABLE] ELSE state
      /\ rq1 = IF promo THEN threadrunq_append(runq, n) ELSE runq
  BY DEF StatePromoted, RunqPromoted
<1> HIDE DEF n, source, dst, promo, r, st1, rq1
<1>8. /\ st1 \in [Threads -> ThreadStates] /\ (promo => st1[n] = RUNNABLE)
      /\ \A x \in Threads : ~promo \/ x # n => st1[x] = state[x]
  BY <1>1, <1>5, <1>7 DEF ThreadStates
<1>9. /\ QueuesOK(rq1, domq, curdom)
      /\ Queued(rq1) = IF promo THEN Queued(runq) \cup {n} ELSE Queued(runq)
  <2>1. promo => n \notin Queued(runq)
    BY <1>5, <1>6 DEF RUNNABLE
  <2> QED BY <1>5, <1>6, <1>7, <2>1, OwnAppend
<1>10. /\ QueuesOK(rq2, domq, curdom)
       /\ Queued(rq2) = IF more THEN Queued(rq1) \cup {r} ELSE Queued(rq1)
  <2>1. r \notin Queued(rq1)
    BY <1>3, <1>5, <1>9
  <2> QED BY <1>3, <1>6, <1>9, <2>1, OwnAppend
<1>11. /\ st2 \in [Threads -> ThreadStates] /\ st2[r] = w
       /\ \A x \in Threads \ {r} : st2[x] = st1[x]
  BY <1>3, <1>8 DEF ThreadStates, RUNNABLE
<1> HIDE DEF st2, rq2, more
<1>12. /\ source \notin Queued(rq2) /\ IdleThread \notin Queued(rq2) /\ st2[IdleThread] = RUNNABLE
       /\ \A x \in Threads \ {source, IdleThread} : x \in Queued(rq2) <=> st2[x] = RUNNABLE
  <2>1. \A x \in Threads \ {r, IdleThread} : x \in Queued(rq2) <=> st2[x] = RUNNABLE
    <3> SUFFICES ASSUME NEW x \in Threads \ {r, IdleThread} PROVE x \in Queued(rq2) <=> st2[x] = RUNNABLE
      OBVIOUS
    <3>1. x \in Queued(rq2) <=> x \in Queued(rq1)
      BY <1>10
    <3>2. x \in Queued(rq1) <=> st1[x] = RUNNABLE
      BY <1>3, <1>6, <1>8, <1>9
    <3> QED BY <1>11, <3>1, <3>2
  <2>2. r \in Queued(rq2) <=> st2[r] = RUNNABLE
    BY <1>3, <1>5, <1>9, <1>10, <1>11 DEF RUNNABLE
  <2>3. IdleThread \notin Queued(rq2) /\ st2[IdleThread] = RUNNABLE
    BY <1>3, <1>5, <1>6, <1>8, <1>9, <1>10, <1>11
  <2>4. source \notin Queued(rq2)
    BY <1>3, <1>5, <1>6, <1>9, <1>10
  <2> QED BY <2>1, <2>2, <2>3, <2>4
<1>13. KernelInv' /\ state' = [st2 EXCEPT ![source] = RUNNABLE]
  BY <1>0, <1>2, <1>3, <1>10, <1>11, <1>12, HandoffKernel
<1>14. CountTypeOK'
  BY <1>1, <1>2, <1>4, CopyTypes
<1>15. /\ RefcountExact' /\ CountsOK' /\ \A d \in Domains, u \in Services : heap'[d][u] >= heap[d][u]
       /\ entry' = [u \in Services |-> IF promo /\ u = q THEN "LIVE" ELSE entry[u]]
  <2>1. /\ RefcountExact' /\ CountsOK' /\ \A d \in Domains, u \in Services : heap'[d][u] >= heap[d][u]
        /\ entry' = [u \in Services |-> IF NeedsPromotion(dst, q) /\ u = q THEN "LIVE" ELSE entry[u]]
    BY <1>0, <1>1, <1>2, <1>4, <1>14, CopyCounts
  <2> QED BY <2>1 DEF promo
<1>16. CountInv'
  BY <1>0, <1>1, <1>2, <1>14, <1>15, ProxiesStayHeld DEF CountInv, ServiceTableOK
<1>17. /\ caller' \in [Threads -> Threads \cup {NoThread}]
       /\ \A x \in Threads \ {r} : caller'[x] = caller[x]
  BY <1>1, <1>2 DEF CallTypeOK
<1>18. CallTypeOK' /\ CallInv'
  <2>1. /\ state'[r] = w /\ state'[source] = RUNNABLE /\ (promo => state'[n] = RUNNABLE)
        /\ \A x \in Threads \ {r, source} : ~promo \/ x # n => state'[x] = state[x]
    BY <1>3, <1>5, <1>8, <1>11, <1>13
  <2>2. w \in {RUNNABLE, "WAIT_FOR_SND"} /\ (w = "WAIT_FOR_SND" => senders[s] = << >>)
    BY DEF more, RUNNABLE
  <2> DEFINE p == IF promo THEN q ELSE NoRef
  <2>3. /\ p \in Services \cup {NoRef} /\ (p # NoRef => promo /\ p = q) /\ (promo => p = q /\ p # NoRef)
        /\ entry' = [u \in Services |-> IF u = p THEN "LIVE" ELSE entry[u]]
    BY <1>5, <1>15, Constants
  <2> HIDE DEF w, p
  <2>4. /\ InCode(Recv[s]) /\ state'[Recv[s]] \in {RUNNABLE, "WAIT_FOR_SND"}
        /\ state'[Recv[s]] = "WAIT_FOR_SND" => senders[s] = << >>
        /\ state'[caller[Recv[s]]] = RUNNABLE
        /\ p # NoRef => entry[p] = "FREE" /\ state'[Recv[p]] = RUNNABLE
        /\ \A x \in Threads \ {Recv[s], caller[Recv[s]]} :
              p = NoRef \/ x # Recv[p] => state'[x] = state[x]
        /\ reply' = [reply EXCEPT ![caller[Recv[s]]] = <<s, "value">>]
        /\ caller' \in [Threads -> Threads \cup {NoThread}]
        /\ \A x \in Threads \ {Recv[s]} : caller'[x] = caller[x]
        /\ pc' = [pc EXCEPT ![Recv[s]] = "recv"]
    BY <1>2, <1>5, <1>17, <2>1, <2>2, <2>3 DEF r, source, n
  <2>5. UNCHANGED <<senders, call, assertion>>
    BY <1>2
  <2> QED BY <2>3, <2>4, <2>5, AnswerKeepsCalls
<1> QED BY <1>2, <1>13, <1>14, <1>16, <1>17, <1>18, IInvNext DEF r, source

\* A trapped exception leaves the service method: the receiver is queued, its
\* sender goes on.
LEMMA ThrowStep ==
    ASSUME IInv, NEW s \in Services, throw_exception(s, TRUE)
    PROVE  /\ IInv' /\ InCode(Recv[s]) /\ call' = call /\ senders' = senders /\ caller' = caller
           /\ reply' = [reply EXCEPT ![caller[Recv[s]]] = <<s, "exception">>]
           /\ pc' = [pc EXCEPT ![Recv[s]] = "recv"]
<1> DEFINE r == Recv[s]
           source == caller[r]
           rq == threadrunq_append(runq, r)
<1>0. KernelInv /\ SvcTypeOK /\ CallInv /\ CountInv
  BY IInvParts
<1>1. CallTypeOK /\ CountTypeOK /\ state \in [Threads -> ThreadStates]
  BY <1>0 DEF SvcTypeOK, KernelInv, Consistent
<1>2. /\ InCode(r) /\ UnblockAndSwitch(state, rq, source)
      /\ reply' = [reply EXCEPT ![source] = <<s, "exception">>] /\ pc' = [pc EXCEPT ![r] = "recv"]
      /\ entry' = entry /\ refcount' = refcount /\ heap' = heap /\ senders' = senders
      /\ call' = call /\ caller' = caller /\ assertion' = assertion
  BY DEF throw_exception, reinit_service_thread
<1>3. /\ r \in Threads /\ r # IdleThread /\ curthr = r /\ Dom[r] = curdom
      /\ r \notin Queued(runq) /\ state[r] = RUNNABLE
      /\ source \in Threads /\ source # IdleThread /\ source # r /\ state[source] # RUNNABLE
  BY <1>2, ServedFacts, InCodeFacts, Constants
<1>4. /\ QueuesOK(runq, domq, curdom) /\ curthr \in Threads /\ IdleThread \in Threads
      /\ \A x \in Threads : x \in Queued(runq) <=> state[x] = RUNNABLE /\ x \notin {curthr, IdleThread}
      /\ state[IdleThread] = RUNNABLE
  BY <1>0, <1>3, Constants DEF KernelInv, Consistent, RunnersOK, curdom
<1>5. QueuesOK(rq, domq, curdom) /\ Queued(rq) = Queued(runq) \cup {r}
  BY <1>3, <1>4, OwnAppend
<1> HIDE DEF r, source, rq
<1>6. /\ source \notin Queued(rq) /\ IdleThread \notin Queued(rq)
      /\ \A x \in Threads \ {source, IdleThread} : x \in Queued(rq) <=> state[x] = RUNNABLE
  BY <1>3, <1>4, <1>5
<1>7. KernelInv' /\ state' = [state EXCEPT ![source] = RUNNABLE]
  BY <1>0, <1>1, <1>2, <1>3, <1>4, <1>5, <1>6, HandoffKernel
<1>8. CountTypeOK'
  BY <1>1, <1>2 DEF CountTypeOK
<1>9. CountInv'
  BY <1>0, <1>2, CountsUnchanged DEF CountInv, ServiceTableOK
<1>10. CallTypeOK' /\ CallInv'
  <2> DEFINE q == NoRef
  <2>1. /\ InCode(Recv[s]) /\ state'[Recv[s]] = RUNNABLE
        /\ state'[caller[Recv[s]]] = RUNNABLE
        /\ \A x \in Threads \ {Recv[s], caller[Recv[s]]} : state'[x] = state[x]
        /\ reply' = [reply EXCEPT ![caller[Recv[s]]] = <<s, "exception">>]
        /\ caller' \in [Threads -> Threads \cup {NoThread}]
        /\ \A x \in Threads \ {Recv[s]} : caller'[x] = caller[x]
        /\ pc' = [pc EXCEPT ![Recv[s]] = "recv"]
    BY <1>1, <1>2, <1>3, <1>7 DEF r, source, CallTypeOK
  <2>2. entry' = [u \in Services |-> IF u = q THEN "LIVE" ELSE entry[u]]
    BY <1>1, <1>2, Constants DEF CountTypeOK
  <2>3. UNCHANGED <<senders, call, assertion>>
    BY <1>2
  <2>4. q \in Services \cup {NoRef} /\ q = NoRef /\ RUNNABLE # "WAIT_FOR_SND"
    BY DEF RUNNABLE
  <2> HIDE DEF q
  <2> QED BY <2>1, <2>2, <2>3, <2>4, AnswerKeepsCalls
<1> QED BY <1>2, <1>7, <1>8, <1>9, <1>10, IInvNext DEF r, source

\* The service whose last proxy is collected has no call: a call holds its proxy.
\* Its receiver, which exists and is not RUNNABLE, waits in its loop.
LEMMA LastProxyUnused ==
    ASSUME IInv, NEW d \in Domains, NEW s \in Services,
           heap[d][s] > (IF OnStack(d, s) THEN 1 ELSE 0),
           heap[d][s] = 1, \A e \in Domains \ {d} : heap[e][s] = 0,
           state[Recv[s]] # RUNNABLE, entry[s] = "LIVE"
    PROVE  /\ \A t \in Threads : call[t] # NotCalling => call[t][1] # s
           /\ state[Recv[s]] = "WAIT_FOR_SND"
<1>0. KernelInv /\ SvcTypeOK /\ CallInv /\ CountInv
  BY IInvParts
<1>1. ASSUME NEW t \in Threads, call[t] # NotCalling, call[t][1] = s PROVE FALSE
  <2>1. Dom[t] = d
    BY <1>0, <1>1, Constants DEF CountInv, ProxiesHeld
  <2>2. call[t] \in Services \X (Services \cup {NoRef})
    BY <1>0, <1>1 DEF SvcTypeOK, CallTypeOK
  <2>3. s \in Range(call[t])
    BY <1>1, <2>2 DEF Range
  <2> QED BY <1>1, <2>1, <2>3 DEF OnStack
<1>2. Recv[s] \in Threads
  BY Constants
<1>3. CASE call[Recv[s]] = NotCalling
  BY <1>0, <1>1, <1>2, <1>3 DEF CallInv, CallsOK, CallOK, ReceiversOK, ReceiverOK
<1>4. CASE call[Recv[s]] # NotCalling
  <2>1. pc[Recv[s]] = "code"
    BY <1>0, <1>2, <1>4 DEF CallInv, CallsOK, CallOK
  <2>2. caller[Recv[s]] \in Threads /\ Calling(caller[Recv[s]], s)
    BY <1>0, <2>1 DEF CallInv, ServingOK, ServiceOK
  <2> QED BY <1>1, <2>2 DEF Calling
<1> QED BY <1>1, <1>3, <1>4

\* A proxy is collected.
LEMMA GcStep ==
    ASSUME IInv, NEW d \in Domains, NEW s \in Services, gc_in(d, s)
    PROVE  /\ IInv' /\ UNCHANGED <<senders, call, caller, pc, reply>>
           /\ \A u \in Services : pc[Recv[u]] = "code" => entry'[u] = "LIVE"
<1> DEFINE r == Recv[s]
           f == Finalizer[s]
           notify == f # NoThread
           deleted == LastProxy(s)
           st == IF deleted THEN [state EXCEPT ![r] = "NONE"] ELSE state
<1>0. KernelInv /\ SvcTypeOK /\ CallInv /\ CountInv
  BY IInvParts
<1>1. CallTypeOK /\ CountTypeOK /\ state \in [Threads -> ThreadStates]
  BY <1>0 DEF SvcTypeOK, KernelInv, Consistent
<1>2. /\ Collects(d) /\ heap[d][s] > (IF OnStack(d, s) THEN 1 ELSE 0)
      /\ service_decRefcount(d, s) /\ (notify => state[f] = "NONE")
  BY DEF gc_in, service_decRefcount
<1>3. heap[d][s] \in Nat /\ heap[d][s] > 0
  BY <1>1, <1>2 DEF CountTypeOK
<1>4. entry[s] = "LIVE"
  BY <1>0, <1>1, <1>3, HeldIsLive
<1>5. /\ r \in Threads /\ r \in Receivers
      /\ notify => /\ f \in Threads /\ f # IdleThread /\ f # r /\ f \notin Receivers /\ f # InitialThread
                   /\ f \notin Queued(runq) /\ AppendAssert(runq, domq, f)
  <2>1. r \in Threads /\ r \in Receivers
    BY Constants
  <2>2. notify => f \in Threads /\ f # IdleThread /\ f # r /\ f \notin Receivers /\ f # InitialThread
    BY <2>1, Constants
  <2>3. notify => f \notin Queued(runq)
    BY <1>0, <1>2, <2>2 DEF KernelInv, RUNNABLE
  <2>4. curthr \in Threads /\ QueuesOK(runq, domq, curdom)
    BY <1>0 DEF KernelInv, Consistent, curdom
  <2>5. notify => AppendAssert(runq, domq, f)
    BY <2>2, <2>3, <2>4, AppendQueues
  <2> QED BY <2>1, <2>2, <2>3, <2>5
<1>6. CASE deleted /\ state[r] = RUNNABLE
  <2>1. Stop("receiver runnable")
    BY <1>2, <1>4, <1>6 DEF service_decRefcount
  <2>2. IInv'
    BY <2>1, StopKeeps
  <2>3. /\ senders' = senders /\ call' = call /\ caller' = caller /\ pc' = pc /\ reply' = reply
        /\ entry' = entry
    BY <2>1 DEF Stop
  <2> QED BY <2>2, <2>3, CalledIsLive
<1>7. CASE ~(deleted /\ state[r] = RUNNABLE)
  <2>1. /\ heap' = [heap EXCEPT ![d][s] = @ - 1]
        /\ refcount' = [refcount EXCEPT ![s] = IF deleted THEN 0 ELSE @ - 1]
        /\ entry' = [entry EXCEPT ![s] = IF deleted THEN "FREE" ELSE @]
        /\ state' = IF notify THEN [st EXCEPT ![f] = RUNNABLE] ELSE st
        /\ runq' = IF notify THEN threadrunq_append(runq, f) ELSE runq
        /\ domq' = IF notify THEN DomqAfterAppend(runq, domq, f) ELSE domq
        /\ curthr' = curthr /\ panic' = panic /\ senders' = senders /\ call' = call
        /\ caller' = caller /\ pc' = pc /\ reply' = reply /\ assertion' = assertion
    BY <1>2, <1>4, <1>5, <1>7 DEF service_decRefcount
  <2>2. refcount[s] \in Nat /\ refcount[s] # 0
    <3>1. refcount[s] = 1 + Cardinality(Proxies(s)) /\ Cardinality(Proxies(s)) \in Nat
      BY <1>0, <1>4, FS_CardinalityType DEF CountInv, RefcountExact, CountsOK
    <3> QED BY <3>1
  <2>3. CountTypeOK'
    BY <1>1, <1>3, <2>1, <2>2 DEF CountTypeOK
  <2>4. /\ RefcountExact' /\ CountsOK'
        /\ deleted => heap[d][s] = 1 /\ \A e \in Domains \ {d} : heap[e][s] = 0
    BY <1>0, <1>1, <1>3, <2>1, <2>3, DropCounts
  <2>5. deleted => /\ \A t \in Threads : call[t] # NotCalling => call[t][1] # s
                   /\ state[r] = "WAIT_FOR_SND"
    BY <1>2, <1>4, <1>7, <2>4, LastProxyUnused
  <2> HIDE DEF r, f, notify, deleted
  <2>6. /\ st \in [Threads -> ThreadStates] /\ (deleted => st[r] = "NONE")
        /\ \A x \in Threads : ~deleted \/ x # r => st[x] = state[x]
        /\ \A x \in Threads : st[x] = RUNNABLE <=> state[x] = RUNNABLE
    BY <1>1, <1>5, <2>5 DEF ThreadStates, RUNNABLE
  <2> HIDE DEF st
  <2>7. KernelInv'
    <3>1. CASE notify
      <4>1. /\ state' \in [Threads -> ThreadStates] /\ state'[f] = RUNNABLE /\ state[f] # RUNNABLE
            /\ \A x \in Threads \ {f} : state'[x] = RUNNABLE <=> state[x] = RUNNABLE
        BY <1>2, <1>5, <2>1, <2>6, <3>1 DEF ThreadStates, RUNNABLE
      <4>2. curthr # IdleThread
        BY <1>2 DEF Collects, InCode
      <4> QED BY <1>0, <1>5, <2>1, <3>1, <4>1, <4>2, QueueKernel
    <3>2. CASE ~notify
      BY <1>0, <2>1, <2>6, <3>2, SameRunnable
    <3> QED BY <3>1, <3>2
  <2>8. CallTypeOK' /\ CallInv'
    <3> DEFINE D == {u \in Services : deleted /\ u = s}
    <3>1. \A u \in D : state[Recv[u]] = "WAIT_FOR_SND" /\ state'[Recv[u]] = "NONE"
      BY <1>5, <2>1, <2>5, <2>6 DEF r
    <3>2. entry' = [u \in Services |-> IF u \in D THEN "FREE" ELSE entry[u]]
      BY <1>1, <2>1 DEF CountTypeOK
    <3>3. ASSUME NEW x \in Threads, \A u \in D : x # Recv[u]
          PROVE  \/ state'[x] = state[x]
                 \/ /\ x \notin Receivers /\ call[x] = NotCalling /\ state'[x] \in {"NONE", RUNNABLE}
                    /\ x = InitialThread => state'[x] # "NONE"
      <4>1. ~deleted \/ x # r
        BY <3>3 DEF r
      <4>2. CASE notify /\ x = f
        <5>1. call[x] = NotCalling
          BY <1>0, <1>2, <4>2 DEF CallInv, CallsOK, CallOK, RUNNABLE
        <5> QED BY <1>5, <2>1, <2>6, <4>2, <5>1
      <4>3. CASE ~(notify /\ x = f)
        BY <1>5, <2>1, <2>6, <4>1, <4>3
      <4> QED BY <4>2, <4>3
    <3>4. D \in SUBSET Services /\ UNCHANGED <<senders, call, caller, pc, reply, assertion>>
      BY <2>1
    <3> HIDE DEF D
    <3> QED BY <3>1, <3>2, <3>3, <3>4, LifeKeepsCalls
  <2>9. ProxiesHeld'
    <3> SUFFICES ASSUME NEW x \in Threads, call[x] # NotCalling PROVE heap'[Dom[x]][call[x][1]] > 0
      BY <2>1 DEF ProxiesHeld
    <3>1. call[x][1] \in Services /\ Dom[x] \in Domains /\ heap[Dom[x]][call[x][1]] > 0
      BY <1>0, <1>1, CallTypes, Constants DEF CountInv, ProxiesHeld
    <3>2. CASE call[x][1] = s /\ Dom[x] = d
      <4>1. call[x] \in Services \X (Services \cup {NoRef})
        BY <1>1 DEF CallTypeOK
      <4>2. s \in Range(call[x])
        BY <3>2, <4>1 DEF Range
      <4>3. heap[d][s] > 1
        BY <1>2, <3>2, <4>2 DEF OnStack
      <4>4. heap'[d][s] = heap[d][s] - 1
        BY <1>1, <2>1 DEF CountTypeOK
      <4> QED BY <1>3, <3>2, <4>3, <4>4
    <3>3. CASE ~(call[x][1] = s /\ Dom[x] = d)
      <4>1. heap'[Dom[x]][call[x][1]] = heap[Dom[x]][call[x][1]]
        BY <1>1, <2>1, <3>1, <3>3 DEF CountTypeOK
      <4> QED BY <3>1, <4>1
    <3> QED BY <3>2, <3>3
  <2>10. CountInv'
    BY <1>0, <2>1, <2>4, <2>9 DEF CountInv, ServiceTableOK
  <2>11. ASSUME NEW u \in Services, pc[Recv[u]] = "code" PROVE entry'[u] = "LIVE"
    <3>1. entry[u] = "LIVE"
      BY <2>11, CalledIsLive
    <3>2. caller[Recv[u]] \in Threads /\ Calling(caller[Recv[u]], u)
      BY <1>0, <2>11 DEF CallInv, ServingOK, ServiceOK
    <3>3. deleted => u # s
      BY <2>5, <3>2 DEF Calling
    <3> QED BY <1>1, <2>1, <3>1, <3>3 DEF CountTypeOK
  <2> QED BY <2>1, <2>3, <2>7, <2>8, <2>10, <2>11, IInvNext
<1> QED BY <1>6, <1>7

\* What stops a collection is not the reference count: a service that exists has
\* a proxy outside of its domain, too.
LEMMA GcFailsStep ==
    ASSUME IInv, NEW d \in Domains, GcFails(d)
    PROVE  IInv' /\ UNCHANGED <<entry, senders, call, caller, pc, reply>>
<1>0. KernelInv /\ SvcTypeOK /\ CallInv /\ CountInv
  BY IInvParts
<1>1. PICK a \in GcFailures(d) : Stop(a)
  BY DEF GcFails
<1>2. ASSUME NEW s \in Services, entry[s] = "LIVE", refcount[s] < 2 PROVE FALSE
  <2>1. /\ refcount[s] = 1 + Cardinality(Proxies(s)) /\ IsFiniteSet(Proxies(s)) /\ Proxies(s) # {}
    BY <1>0, <1>2 DEF CountInv, RefcountExact, CountsOK
  <2>2. Cardinality(Proxies(s)) \in Nat /\ Cardinality(Proxies(s)) # 0
    BY <2>1, FS_CardinalityType, FS_EmptySet
  <2> QED BY <1>2, <2>1, <2>2
<1>3. a \in {"promotion", "receiver runnable", "queued sender", "moved sender"}
  BY <1>1, <1>2 DEF GcFailures
<1>4. IInv'
  BY <1>1, <1>3, StopKeeps
<1> QED BY <1>1, <1>4 DEF Stop

\* A finalizer thread ends.
LEMMA NotifyExitStep ==
    ASSUME IInv, NEW s \in Services, NotifyExit(s)
    PROVE  IInv'
<1> DEFINE f == Finalizer[s]
<1>0. KernelInv /\ SvcTypeOK /\ CallInv /\ CountInv
  BY IInvParts
<1>1. InCode(f) /\ Sched_switch_to_nextThread([state EXCEPT ![curthr] = "NONE"], runq, domq)
  BY DEF NotifyExit
<1>2. /\ entry' = entry /\ refcount' = refcount /\ heap' = heap /\ senders' = senders /\ call' = call
      /\ caller' = caller /\ pc' = pc /\ reply' = reply /\ assertion' = assertion
  BY DEF NotifyExit, svcVars
<1>3. f \in Threads /\ f = curthr /\ f # IdleThread /\ call[f] = NotCalling
  BY <1>1, InCodeFacts
<1>4. f \notin Receivers /\ f # InitialThread
  BY <1>3, Constants
<1>5. KernelInv' /\ state' = [state EXCEPT ![curthr] = "NONE"]
  BY <1>0, <1>1, <1>3, BlockKernel DEF ThreadStates, RUNNABLE
<1> HIDE DEF f
<1>6. CallTypeOK' /\ CallInv'
  <2> DEFINE D == {}
  <2>1. D \in SUBSET Services /\ \A u \in D : state[Recv[u]] = "WAIT_FOR_SND" /\ state'[Recv[u]] = "NONE"
    OBVIOUS
  <2>2. entry' = [u \in Services |-> IF u \in D THEN "FREE" ELSE entry[u]]
    BY <1>0, <1>2 DEF SvcTypeOK, CountTypeOK
  <2>3. \A x \in Threads : \/ state'[x] = state[x]
                           \/ /\ x \notin Receivers /\ call[x] = NotCalling /\ state'[x] \in {"NONE", RUNNABLE}
                              /\ x = InitialThread => state'[x] # "NONE"
    BY <1>0, <1>3, <1>4, <1>5 DEF KernelInv, Consistent
  <2>4. UNCHANGED <<senders, call, caller, pc, reply, assertion>>
    BY <1>2
  <2> HIDE DEF D
  <2> QED BY <2>1, <2>2, <2>3, <2>4, LifeKeepsCalls
<1>7. CountTypeOK'
  BY <1>0, <1>2 DEF SvcTypeOK, CountTypeOK
<1>8. CountInv'
  BY <1>0, <1>2, CountsUnchanged DEF CountInv, ServiceTableOK
<1> QED BY <1>5, <1>6, <1>7, <1>8, IInvNext

\* A client is created.
LEMMA CreateStep ==
    ASSUME IInv, NEW t \in Clients, createThread(t)
    PROVE  IInv'
<1>0. KernelInv /\ SvcTypeOK /\ CallInv /\ CountInv
  BY IInvParts
<1>1. state[t] = "NONE" /\ MakeRunnable(t) /\ curthr # IdleThread
  BY DEF createThread, InCode
<1>2. /\ entry' = entry /\ refcount' = refcount /\ heap' = heap /\ senders' = senders /\ call' = call
      /\ caller' = caller /\ pc' = pc /\ reply' = reply /\ assertion' = assertion
  BY DEF createThread, svcVars
<1>3. t \in Threads /\ t \notin Receivers /\ call[t] = NotCalling
  <2>1. t \in Threads /\ t \notin Receivers
    BY PortalAssumption
  <2> QED BY <1>0, <1>1, <2>1 DEF CallInv, CallsOK, CallOK, RUNNABLE
<1>4. /\ curthr \in Threads /\ QueuesOK(runq, domq, curdom) /\ t \notin Queued(runq)
      /\ state \in [Threads -> ThreadStates]
  BY <1>0, <1>1, <1>3 DEF KernelInv, Consistent, curdom, RUNNABLE
<1>5. AppendAssert(runq, domq, t)
  BY <1>3, <1>4, AppendQueues
<1>6. /\ state' = [state EXCEPT ![t] = RUNNABLE] /\ runq' = threadrunq_append(runq, t)
      /\ domq' = DomqAfterAppend(runq, domq, t) /\ curthr' = curthr /\ panic' = panic
  BY <1>1, <1>5 DEF MakeRunnable
<1>7. /\ state' \in [Threads -> ThreadStates] /\ state'[t] = RUNNABLE /\ state[t] # RUNNABLE
      /\ \A x \in Threads \ {t} : state'[x] = state[x]
  BY <1>1, <1>3, <1>4, <1>6 DEF ThreadStates, RUNNABLE
<1>8. KernelInv'
  BY <1>0, <1>1, <1>3, <1>6, <1>7, QueueKernel
<1>9. CallTypeOK' /\ CallInv'
  <2> DEFINE D == {}
  <2>1. D \in SUBSET Services /\ \A u \in D : state[Recv[u]] = "WAIT_FOR_SND" /\ state'[Recv[u]] = "NONE"
    OBVIOUS
  <2>2. entry' = [u \in Services |-> IF u \in D THEN "FREE" ELSE entry[u]]
    BY <1>0, <1>2 DEF SvcTypeOK, CountTypeOK
  <2>3. \A x \in Threads : \/ state'[x] = state[x]
                           \/ /\ x \notin Receivers /\ call[x] = NotCalling /\ state'[x] \in {"NONE", RUNNABLE}
                              /\ x = InitialThread => state'[x] # "NONE"
    BY <1>3, <1>7 DEF RUNNABLE
  <2>4. UNCHANGED <<senders, call, caller, pc, reply, assertion>>
    BY <1>2
  <2> HIDE DEF D
  <2> QED BY <2>1, <2>2, <2>3, <2>4, LifeKeepsCalls
<1>10. CountTypeOK'
  BY <1>0, <1>2 DEF SvcTypeOK, CountTypeOK
<1>11. CountInv'
  BY <1>0, <1>2, CountsUnchanged DEF CountInv, ServiceTableOK
<1> QED BY <1>8, <1>9, <1>10, <1>11, IInvNext

\* Only the run queue changes, and no thread state does.
LEMMA SchedulingOnly ==
    ASSUME IInv, KernelInv', state' = state, UNCHANGED svcVars
    PROVE  IInv'
<1>0. KernelInv /\ SvcTypeOK /\ CallInv /\ CountInv
  BY IInvParts
<1>1. /\ entry' = entry /\ refcount' = refcount /\ heap' = heap /\ senders' = senders /\ call' = call
      /\ caller' = caller /\ pc' = pc /\ reply' = reply /\ assertion' = assertion
  BY DEF svcVars
<1>2. CallTypeOK' /\ CallInv'
  <2> DEFINE D == {}
  <2>1. D \in SUBSET Services /\ \A u \in D : state[Recv[u]] = "WAIT_FOR_SND" /\ state'[Recv[u]] = "NONE"
    OBVIOUS
  <2>2. entry' = [u \in Services |-> IF u \in D THEN "FREE" ELSE entry[u]]
    BY <1>0, <1>1 DEF SvcTypeOK, CountTypeOK
  <2>3. \A x \in Threads : state'[x] = state[x]
    OBVIOUS
  <2>4. UNCHANGED <<senders, call, caller, pc, reply, assertion>>
    BY <1>1
  <2> HIDE DEF D
  <2> QED BY <2>1, <2>2, <2>3, <2>4, LifeKeepsCalls
<1>3. CountTypeOK'
  BY <1>0, <1>1 DEF SvcTypeOK, CountTypeOK
<1>4. CountInv'
  BY <1>0, <1>1, CountsUnchanged DEF CountInv, ServiceTableOK
<1> QED BY <1>2, <1>3, <1>4, IInvNext

\* The running thread yields.
LEMMA PortalYieldStep ==
    ASSUME IInv, NEW t, yield(t)
    PROVE  IInv'
<1> DEFINE Q == Queued(runq) \cup {curthr}
<1>0. KernelInv /\ SvcTypeOK /\ CallInv /\ CountInv
  BY IInvParts
<1>1. InCode(t) /\ threadyield /\ UNCHANGED svcVars
  BY DEF yield
<1>2. curthr \in Threads /\ curthr # IdleThread /\ curthr \notin Queued(runq) /\ state[curthr] = RUNNABLE
  BY <1>1, InCodeFacts
<1>3. Consistent(state, runq, domq, curthr)
  BY <1>0 DEF KernelInv
<1>4. /\ Consistent(state', runq', domq', curthr') /\ state' = state /\ panic' = panic
      /\ Queued(runq') = Q \ {curthr'} /\ (curthr' \in Q \/ (curthr' = IdleThread /\ Q = {}))
  BY <1>1, <1>2, <1>3, YieldStep
<1>5. \A x \in Threads : x \in Q <=> state[x] = RUNNABLE /\ x # IdleThread
  BY <1>0, <1>2 DEF KernelInv
<1>6. state[IdleThread] = RUNNABLE
  BY <1>0 DEF KernelInv, RunnersOK
<1> HIDE DEF Q
<1>7. KernelInv'
  BY <1>0, <1>4, <1>5, <1>6, SwitchKernel
<1> QED BY <1>1, <1>4, <1>7, SchedulingOnly

-----------------------------------------------------------------------------
(* The invariant holds.                                                    *)

\* In the beginning a service has one proxy in every domain that got it from the
\* naming.
LEMMA InitialCounts ==
    ASSUME Init
    PROVE  CountTypeOK /\ CountInv
<1>1. \A s \in Services : /\ IsFiniteSet({d \in Domains : <<d, s>> \in InitialRefs})
                          /\ Cardinality({d \in Domains : <<d, s>> \in InitialRefs}) \in Nat
  BY PortalAssumption, FS_Subset, FS_CardinalityType
<1>2. /\ entry = [s \in Services |-> IF s \in Promoted THEN "LIVE" ELSE "FREE"]
      /\ heap = [d \in Domains |-> [s \in Services |-> IF <<d, s>> \in InitialRefs THEN 1 ELSE 0]]
      /\ refcount = [s \in Services |->
                       IF s \in Promoted THEN 1 + Cardinality({d \in Domains : <<d, s>> \in InitialRefs})
                       ELSE 0]
      /\ call = [t \in Threads |-> NotCalling] /\ assertion = None
  BY DEF Init
<1>3. CountTypeOK
  <2> DEFINE N(s) == Cardinality({d \in Domains : <<d, s>> \in InitialRefs})
  <2>a. refcount = [s \in Services |-> IF s \in Promoted THEN 1 + N(s) ELSE 0]
    BY <1>2
  <2>b. \A s \in Services : N(s) \in Nat
    BY <1>1
  <2> HIDE DEF N
  <2>1. \A s \in Services : refcount[s] \in Nat
    BY <2>a, <2>b
  <2>2. heap \in [Domains -> [Services -> Nat]]
    BY <1>2
  <2>3. entry \in [Services -> {"FREE", "LIVE"}]
    BY <1>2
  <2>4. refcount \in [Services -> Nat]
    BY <1>2, <2>1
  <2> QED BY <2>2, <2>3, <2>4 DEF CountTypeOK
<1>4. ASSUME NEW s \in Services
      PROVE  /\ IsFiniteSet(Proxies(s)) /\ (entry[s] = "LIVE" => Proxies(s) # {})
             /\ IF entry[s] = "FREE" THEN Proxies(s) = {} /\ refcount[s] = 0
                ELSE refcount[s] = 1 + Cardinality(Proxies(s))
  <2> DEFINE S == {d \in Domains : <<d, s>> \in InitialRefs}
             T == {<<d, 1>> : d \in S}
             f == [d \in S |-> <<d, 1>>]
  <2>1. Proxies(s) = T
    <3>1. \A d \in Domains : heap[d][s] = IF d \in S THEN 1 ELSE 0
      BY <1>2
    <3> HIDE DEF S
    <3>2. S \subseteq Domains
      BY DEF S
    <3>3. ASSUME NEW x \in Proxies(s) PROVE x \in T
      <4>1. /\ x = <<x[1], x[2]>> /\ x[1] \in Domains /\ x[2] \in Nat
            /\ 1 <= x[2] /\ x[2] <= heap[x[1]][s]
        BY <1>3, ProxiesElements
      <4>2. x[1] \in S /\ x[2] = 1
        BY <3>1, <4>1
      <4> QED BY <4>1, <4>2
    <3>4. ASSUME NEW d \in S PROVE <<d, 1>> \in Proxies(s)
      <4>1. d \in Domains /\ heap[d][s] = 1
        BY <3>1, <3>2
      <4> QED BY <1>3, <4>1, ProxiesElements
    <3> QED BY <3>3, <3>4
  <2>2. f \in Bijection(S, T)
    BY DEF Bijection, Injection, Surjection, IsInjective
  <2>3. IsFiniteSet(S)
    BY <1>1
  <2> HIDE DEF f
  <2>4. IsFiniteSet(T) /\ Cardinality(T) = Cardinality(S)
    BY <2>2, <2>3, FS_Bijection DEF ExistsBijection
  <2>5. s \in Promoted <=> S # {}
    <3>1. ASSUME s \in Promoted PROVE S # {}
      <4>1. PICK r \in InitialRefs : r[2] = s
        BY <3>1 DEF Promoted
      <4>2. r \in Domains \X Services
        BY <4>1, PortalAssumption
      <4>3. r = <<r[1], s>> /\ r[1] \in Domains
        BY <4>1, <4>2
      <4> QED BY <4>1, <4>3
    <3>2. ASSUME S # {} PROVE s \in Promoted
      <4>1. PICK d \in Domains : <<d, s>> \in InitialRefs
        BY <3>2
      <4> QED BY <4>1 DEF Promoted
    <3> QED BY <3>1, <3>2
  <2>6. S # {} <=> T # {}
    OBVIOUS
  <2>7. refcount[s] = (IF s \in Promoted THEN 1 + Cardinality(S) ELSE 0)
        /\ entry[s] = (IF s \in Promoted THEN "LIVE" ELSE "FREE")
    BY <1>2
  <2> HIDE DEF S, T
  <2> QED BY <2>1, <2>4, <2>5, <2>6, <2>7
<1>5. RefcountExact /\ CountsOK
  BY <1>4 DEF RefcountExact, CountsOK
<1>6. ProxiesHeld /\ ServiceTableOK
  BY <1>2 DEF ProxiesHeld, ServiceTableOK, None
<1> QED BY <1>3, <1>5, <1>6 DEF CountInv

\* The invariant in the beginning.
LEMMA InitInv ==
    ASSUME Init
    PROVE  IInv
<1>1. CountTypeOK /\ CountInv
  BY InitialCounts
<1>2. CallTypeOK
  BY Constants DEF Init, CallTypeOK, None
<1>3. \A s \in Services : senders[s] = << >> /\ pc[Recv[s]] = "recv"
  BY Constants DEF Init
<1>4. /\ \A t \in Threads : call[t] = NotCalling /\ reply[t] = NoReply
      /\ \A t \in Threads \ Receivers : pc[t] = "code"
  BY DEF Init
<1>5. /\ curthr = InitialThread /\ InitialThread \in Threads /\ IdleThread \in Threads
      /\ state \in [Threads -> {RUNNABLE, "WAIT_FOR_SND", "NONE"}]
      /\ \A t \in Threads : state[t] = RUNNABLE <=> t \in {InitialThread, IdleThread}
      /\ \A t \in Threads : state[t] = "WAIT_FOR_SND" <=> \E s \in Promoted : Recv[s] = t
  <2>1. InitialThread \in Threads /\ IdleThread \in Threads
    BY Constants
  <2>2. Promoted \subseteq Services
    BY PortalAssumption DEF Promoted
  <2>3. \A s \in Promoted : Recv[s] \notin {InitialThread, IdleThread}
    BY <2>2, Constants
  <2> QED BY <2>1, <2>3 DEF Init, RUNNABLE
<1>6. \A s \in Services : s \in Promoted <=> state[Recv[s]] = "WAIT_FOR_SND"
  <2>1. Promoted \subseteq Services
    BY PortalAssumption DEF Promoted
  <2> QED BY <1>5, <2>1, Constants
<1>7. CallInv
  <2>1. CallsOK
    BY <1>4, <1>5 DEF CallsOK, CallOK
  <2>2. WaitQueuesOK
    BY <1>3 DEF WaitQueuesOK, WaitQueueOK, NoDuplicates, Range
  <2>3. ServingOK
    BY <1>3 DEF ServingOK, ServiceOK
  <2>4. ASSUME NEW s \in Services PROVE ReceiverOK(s)
    <3>1. Recv[s] \in Threads /\ Recv[s] \notin {InitialThread, IdleThread}
      BY Constants
    <3>2. entry[s] = IF s \in Promoted THEN "LIVE" ELSE "FREE"
      BY DEF Init
    <3> QED BY <1>3, <1>5, <1>6, <3>1, <3>2 DEF ReceiverOK
  <2>5. \A t \in Threads \ Receivers : state[t] # "WAIT_FOR_SND"
    <3>1. Promoted \subseteq Services
      BY PortalAssumption DEF Promoted
    <3> QED BY <1>5, <3>1, Constants
  <2>6. state[InitialThread] # "NONE"
    BY <1>5 DEF RUNNABLE
  <2> QED BY <1>4, <2>1, <2>2, <2>3, <2>4, <2>5, <2>6 DEF CallInv, ReceiversOK
<1>8. KernelInv
  <2>1. runq = [d \in Domains |-> << >>] /\ domq = << >> /\ panic = FALSE
    BY DEF Init
  <2>2. Queued(runq) = {}
    BY <2>1, Constants DEF Queued, Range
  <2>3. QueuesOK(runq, domq, Dom[curthr])
    BY <2>1 DEF QueuesOK, QueueTypes, ThreadQueuesOK, DomainQueueOK, NoDuplicates, Range
  <2>4. state \in [Threads -> ThreadStates]
    BY <1>5 DEF ThreadStates
  <2> QED BY <1>5, <2>1, <2>2, <2>3, <2>4 DEF KernelInv, Consistent, RunnersOK
<1> QED BY <1>1, <1>2, <1>7, <1>8, IInvParts DEF SvcTypeOK

\* Every step keeps the invariant.
LEMMA NextInv ==
    ASSUME IInv, [Next]_vars
    PROVE  IInv'
<1>1. CASE UNCHANGED vars
  <2>1. UNCHANGED runqVars /\ UNCHANGED svcVars /\ state' = state
    BY <1>1 DEF vars, runqVars, svcVars
  <2> QED BY <2>1, IInvParts, KernelUnchanged, SchedulingOnly
<1>2. CASE \E t \in Threads, s \in Services, p \in Services \cup {NoRef} : direct_send_portal(t, s, p)
  BY <1>2, SendStep
<1>3. CASE \E t \in Threads : SendReturn(t)
  BY <1>3, ReturnStep
<1>4. CASE \E s \in Services : receive_portalcall(s)
  BY <1>4, ReceiveStep
<1>5. CASE \E s \in Services, q \in Services \cup {NoRef} : ReceiveReturn(s, q)
  BY <1>5, ReceiveReturnStep
<1>6. CASE \E s \in Services, trapped \in BOOLEAN : throw_exception(s, trapped)
  <2>1. CASE \E s \in Services : throw_exception(s, TRUE)
    BY <2>1, ThrowStep
  <2>2. CASE \E s \in Services : throw_exception(s, FALSE)
    <3>1. Stop("irqs enabled")
      BY <2>2 DEF throw_exception
    <3> QED BY <3>1, StopKeeps
  <2> QED BY <1>6, <2>1, <2>2
<1>7. CASE \E d \in Domains : GcFails(d)
  BY <1>7, GcFailsStep
<1>8. CASE \E d \in Domains, s \in Services : gc_in(d, s)
  BY <1>8, GcStep
<1>9. CASE \E s \in Services : PromotionGc(s)
  <2>1. Stop("promotion")
    BY <1>9 DEF PromotionGc
  <2> QED BY <2>1, StopKeeps
<1>10. CASE \E s \in Services : NotifyExit(s)
  BY <1>10, NotifyExitStep
<1>11. CASE \E t \in Clients : createThread(t)
  BY <1>11, CreateStep
<1>12. CASE \E t \in Clients \cup Receivers : yield(t)
  BY <1>12, PortalYieldStep
<1> QED BY <1>1, <1>2, <1>3, <1>4, <1>5, <1>6, <1>7, <1>8, <1>9, <1>10, <1>11, <1>12 DEF Next

\* Run queues, calls, wait queues and reference counts stay consistent in every
\* execution of portal.c.
THEOREM PortalInvariant == Spec => []IInv
BY InitInv, NextInv, PTL DEF Spec

-----------------------------------------------------------------------------
(* What follows from it.                                                   *)

\* A blocked caller waits for a receiver that is not at rest, and if that one is
\* blocked, too, it has made a call itself.
LEMMA ReceiverOfBlocked ==
    ASSUME IInv, NEW t \in Threads, NEW s \in Services, Calling(t, s), state[t] # RUNNABLE,
           state[Recv[s]] # RUNNABLE
    PROVE  /\ call[Recv[s]] # NotCalling /\ call[Recv[s]][1] \in Services
           /\ call[Recv[s]][1] \in MayCall[Recv[s]]
<1>0. KernelInv /\ SvcTypeOK /\ CallInv /\ CountInv
  BY IInvParts
<1>1. Recv[s] \in Threads
  BY Constants
<1>2. entry[s] = "LIVE"
  BY CalledIsLive DEF Calling
<1>3. t \in Range(senders[s]) \/ Serves(s, t)
  BY <1>0 DEF CallInv, CallsOK, CallOK, Calling
<1>4. state[Recv[s]] # "WAIT_FOR_SND"
  <2>1. t \in Range(senders[s]) => senders[s] # << >>
    BY DEF Range
  <2> QED BY <1>0, <1>3, <2>1 DEF CallInv, ReceiversOK, ReceiverOK, Serves
<1>5. state[Recv[s]] # "NONE"
  BY <1>0, <1>2 DEF CallInv, ReceiversOK, ReceiverOK
<1>6. call[Recv[s]] # NotCalling
  BY <1>0, <1>1, <1>4, <1>5 DEF CallInv, CallsOK, CallOK
<1>7. call[Recv[s]][1] \in Services
  BY <1>0, <1>1, <1>6, CallTypes DEF SvcTypeOK
<1> QED BY <1>0, <1>1, <1>6, <1>7 DEF CallInv, CallsOK, CallOK

\* A nonempty set of numbers has a least one.
LEMMA LeastElement ==
    ASSUME NEW W, W \subseteq Nat, W # {}
    PROVE  \E m \in W : \A n \in W : m <= n
<1>1. IsWellFoundedOn(OpToRel(<, Nat), Nat)
  BY NatLessThanWellFounded, Zenon
<1>2. PICK m \in W : \A n \in W : ~(<<n, m>> \in OpToRel(<, Nat))
  BY <1>1, WFMin, Zenon
<1>3. ASSUME NEW n \in W, n < m PROVE FALSE
  <2>1. <<n, m>> \in OpToRel(<, Nat)
    BY <1>3 DEF OpToRel
  <2> QED BY <1>2, <2>1
<1> QED BY <1>3

\* Without a cycle of calls somebody can run: the service of least rank that a
\* blocked caller waits for has a receiver that waits for nobody.
LEMMA SomebodyCanRun ==
    ASSUME IInv, NoCallCycle
    PROVE  \E t \in Threads \ {IdleThread} : state[t] = RUNNABLE
<1> SUFFICES ASSUME \A t \in Threads \ {IdleThread} : state[t] # RUNNABLE PROVE FALSE
  OBVIOUS
<1>0. KernelInv /\ SvcTypeOK /\ CallInv /\ CountInv
  BY IInvParts
<1>1. PICK rank \in [Services -> Nat] : CallsDescend(rank)
  BY DEF NoCallCycle
<1> DEFINE W == {rank[s] : s \in {u \in Services : \E t \in Threads : Calling(t, u) /\ state[t] # RUNNABLE}}
<1>2. W # {}
  <2>1. InitialThread \in Threads \ (Receivers \cup {IdleThread})
    BY Constants
  <2>2. state[InitialThread] \notin {"NONE", RUNNABLE, "WAIT_FOR_SND"}
    BY <1>0, <2>1 DEF CallInv, ReceiversOK
  <2>3. call[InitialThread] # NotCalling
    BY <1>0, <2>1, <2>2 DEF CallInv, CallsOK, CallOK
  <2>4. call[InitialThread][1] \in Services /\ Calling(InitialThread, call[InitialThread][1])
    BY <1>0, <2>1, <2>3, CallTypes DEF SvcTypeOK, Calling
  <2> QED BY <2>1, <2>2, <2>4
<1>3. W \subseteq Nat
  OBVIOUS
<1>4. PICK m \in W : \A n \in W : m <= n
  BY <1>2, <1>3, LeastElement
<1>5. PICK s \in Services : rank[s] = m /\ \E t \in Threads : Calling(t, s) /\ state[t] # RUNNABLE
  OBVIOUS
<1>6. PICK t \in Threads : Calling(t, s) /\ state[t] # RUNNABLE
  BY <1>5
<1>7. Recv[s] \in Threads /\ state[Recv[s]] # RUNNABLE
  BY Constants
<1>8. /\ call[Recv[s]] # NotCalling /\ call[Recv[s]][1] \in Services
      /\ call[Recv[s]][1] \in MayCall[Recv[s]]
  BY <1>6, <1>7, ReceiverOfBlocked
<1> DEFINE v == rank[call[Recv[s]][1]]
<1>9. v \in W
  BY <1>7, <1>8 DEF Calling
<1>10. v < m
  BY <1>1, <1>5, <1>8 DEF CallsDescend
<1> HIDE DEF W, v
<1> QED BY <1>3, <1>4, <1>9, <1>10

\* The variables of portals and run queues keep their types.
THEOREM PortalTypesKept == Spec => []TypeOK
<1>1. IInv => TypeOK
  BY DEF IInv
<1> QED BY <1>1, PortalInvariant, PTL

\* Portal calls keep the run queues exact and trip no check of the queues; and
\* if services call each other in no cycle, somebody can always run.  Nothing is
\* said of ASSERTCLI in threadunblock, which an exception that is thrown with
\* interrupts enabled trips (UnblockWithIrqsDisabled).
THEOREM CallsKeepKernelSound ==
    ASSUME NoCallCycle
    PROVE  Spec => []KernelSound
<1>1. ASSUME IInv PROVE SomebodyRuns
  <2>1. PICK t \in Threads \ {IdleThread} : state[t] = RUNNABLE
    BY <1>1, SomebodyCanRun
  <2>2. KernelInv
    BY <1>1, IInvParts
  <2> QED BY <2>1, <2>2 DEF KernelInv, RunnersOK, SomebodyRuns
<1>2. IInv => KernelSound
  BY <1>1 DEF IInv, KernelSound
<1> QED BY <1>2, PortalInvariant, PTL

\* A receiver that waits for a sender has none in its queue: no call is lost.
THEOREM NoCallLost == Spec => []NoLostSender
<1>1. IInv => NoLostSender
  BY DEF IInv, CallInv, ReceiversOK, ReceiverOK, NoLostSender
<1> QED BY <1>1, PortalInvariant, PTL

\* The reference count of a service is the number of its proxies, no call meets
\* a service that is gone, no entry of the table is used when it is free, and a
\* collection outside of a promotion finds every count above one.
THEOREM ServicesStayCounted == Spec => []ServicesCounted
<1>1. IInv => ServicesCounted
  <2> SUFFICES ASSUME IInv PROVE ServicesCounted
    OBVIOUS
  <2>1. NoCallOnDeadService
    BY CalledIsLive DEF NoCallOnDeadService
  <2> QED BY <2>1 DEF IInv, CountInv, ServicesCounted
<1> QED BY <1>1, PortalInvariant, PTL

\* The places of an element in a sequence without duplicates.
LEMMA PlacesCounted ==
    ASSUME NEW q, NoDuplicates(q), NEW x
    PROVE  Cardinality({i \in DOMAIN q : q[i] = x}) = IF x \in Range(q) THEN 1 ELSE 0
<1> DEFINE P == {i \in DOMAIN q : q[i] = x}
<1>1. CASE x \in Range(q)
  <2>1. PICK i \in DOMAIN q : q[i] = x
    BY <1>1 DEF Range
  <2>2. P = {i}
    BY <2>1 DEF NoDuplicates
  <2> HIDE DEF P
  <2>3. Cardinality(P) = 1
    BY <2>2, FS_Singleton
  <2> QED BY <1>1, <2>3 DEF P
<1>2. CASE x \notin Range(q)
  <2>1. P = {}
    BY <1>2 DEF Range
  <2> HIDE DEF P
  <2>2. Cardinality(P) = 0
    BY <2>1, FS_EmptySet
  <2> QED BY <1>2, <2>2 DEF P
<1> QED BY <1>1, <1>2

\* Every call is in exactly one place: queued once, executed, or answered by the
\* service that was called.
THEOREM EveryCallAccounted == Spec => []CallAccounted
<1>1. IInv => CallAccounted
  <2> SUFFICES ASSUME IInv, NEW t \in Threads, NEW s \in Services
      PROVE  LET waits  == Cardinality({i \in DOMAIN senders[s] : senders[s][i] = t})
                 served == IF Executing(s) /\ caller[Recv[s]] = t THEN 1 ELSE 0
             IN  IF call[t] # NotCalling /\ call[t][1] = s /\ state[t] # RUNNABLE
                 THEN waits + served = 1 /\ reply[t] = NoReply
                 ELSE /\ waits + served = 0
                      /\ call[t] # NotCalling /\ call[t][1] = s
                             => reply[t] # NoReply /\ reply[t][1] = s
    BY DEF CallAccounted
  <2>0. CallInv
    BY DEF IInv
  <2> DEFINE waits == Cardinality({i \in DOMAIN senders[s] : senders[s][i] = t})
             served == IF Executing(s) /\ caller[Recv[s]] = t THEN 1 ELSE 0
  <2>1. waits = IF t \in Range(senders[s]) THEN 1 ELSE 0
    BY <2>0, PlacesCounted DEF CallInv, WaitQueuesOK, WaitQueueOK
  <2>2. served = IF Serves(s, t) THEN 1 ELSE 0
    BY CalledIsLive DEF Executing, Serves
  <2> HIDE DEF waits, served
  <2>3. CASE Calling(t, s) /\ state[t] # RUNNABLE
    <3>1. t \in Range(senders[s]) \/ Serves(s, t)
      BY <2>0, <2>3 DEF CallInv, CallsOK, CallOK, Calling
    <3>2. ~(t \in Range(senders[s]) /\ Serves(s, t))
      BY <2>0 DEF CallInv, WaitQueuesOK, WaitQueueOK
    <3>3. waits + served = 1
      BY <2>1, <2>2, <3>1, <3>2
    <3>4. reply[t] = NoReply
      BY <2>0, <2>3 DEF CallInv, CallsOK, CallOK, Calling
    <3> QED BY <2>3, <3>3, <3>4 DEF Calling, waits, served
  <2>4. CASE ~(Calling(t, s) /\ state[t] # RUNNABLE)
    <3>1. t \notin Range(senders[s]) /\ ~Serves(s, t)
      BY <2>0, <2>4 DEF CallInv, WaitQueuesOK, WaitQueueOK, ServingOK, ServiceOK, Serves
    <3>2. waits + served = 0
      BY <2>1, <2>2, <3>1
    <3>3. Calling(t, s) => reply[t] # NoReply /\ reply[t][1] = s
      BY <2>0, <2>4 DEF CallInv, CallsOK, CallOK, Calling
    <3> QED BY <2>4, <3>2, <3>3 DEF Calling, waits, served
  <2> QED BY <2>3, <2>4
<1> QED BY <1>1, PortalInvariant, PTL

-----------------------------------------------------------------------------
(* Portals implement synchronous calls.                                    *)

\* The mapping of Calls: which service a thread calls, and whom a service serves.
calledNow == [t \in Threads |-> IF call[t] = NotCalling THEN "none" ELSE call[t][1]]
servingNow == [s \in Services |-> ServedBy(s)]

\* Whom a service serves, without the entry that it has then anyway.
LEMMA ServedByFacts ==
    ASSUME IInv
    PROVE  \A u \in Services : ServedBy(u) = IF pc[Recv[u]] = "code" THEN caller[Recv[u]] ELSE NoThread
BY CalledIsLive DEF ServedBy, Executing

\* ... and after a step.
LEMMA ServedByNext ==
    ASSUME IInv'
    PROVE  (\A u \in Services : ServedBy(u) = IF pc[Recv[u]] = "code" THEN caller[Recv[u]] ELSE NoThread)'
BY ServedByFacts, PTL

\* Serving changes with the receivers only.
LEMMA ServingUnchanged ==
    ASSUME IInv, IInv', pc' = pc,
           \A s \in Services : pc[Recv[s]] = "code" => caller'[Recv[s]] = caller[Recv[s]]
    PROVE  servingNow' = servingNow
<1>1. \A u \in Services : ServedBy(u) = IF pc[Recv[u]] = "code" THEN caller[Recv[u]] ELSE NoThread
  BY ServedByFacts
<1>2. (\A u \in Services : ServedBy(u) = IF pc[Recv[u]] = "code" THEN caller[Recv[u]] ELSE NoThread)'
  BY ServedByNext
<1> QED BY <1>1, <1>2 DEF servingNow

\* ... and at one service when its receiver starts or answers.
LEMMA ServingChanged ==
    ASSUME IInv, IInv', NEW s \in Services, NEW v \in {"recv", "code"},
           pc' = [pc EXCEPT ![Recv[s]] = v],
           \A x \in Threads \ {Recv[s]} : caller'[x] = caller[x]
    PROVE  servingNow' = [servingNow EXCEPT ![s] = IF v = "code" THEN caller'[Recv[s]] ELSE NoThread]
<1>0. CallTypeOK
  BY IInvParts DEF SvcTypeOK
<1>1. \A u \in Services : ServedBy(u) = IF pc[Recv[u]] = "code" THEN caller[Recv[u]] ELSE NoThread
  BY ServedByFacts
<1>2. (\A u \in Services : ServedBy(u) = IF pc[Recv[u]] = "code" THEN caller[Recv[u]] ELSE NoThread)'
  BY ServedByNext
<1>3. /\ pc'[Recv[s]] = v
      /\ \A u \in Services \ {s} : pc'[Recv[u]] = pc[Recv[u]] /\ caller'[Recv[u]] = caller[Recv[u]]
  BY <1>0, Constants DEF CallTypeOK
<1>4. /\ ServedBy(s)' = IF v = "code" THEN caller'[Recv[s]] ELSE NoThread
      /\ \A u \in Services \ {s} : ServedBy(u)' = ServedBy(u)
  BY <1>1, <1>2, <1>3
<1> QED BY <1>4 DEF servingNow

\* Every step of portal.c is a step of a synchronous call or none: the send, the
\* start of the service method, its answer and the return to the caller.
LEMMA StepSimulates ==
    ASSUME IInv, IInv', [Next]_vars
    PROVE  [Calls!Next]_(Calls!rpcVars)
<1>0. KernelInv /\ SvcTypeOK /\ CallInv /\ CountInv /\ CallTypeOK
  BY IInvParts DEF SvcTypeOK
<1>a. \A s \in Services : ServedBy(s) = IF pc[Recv[s]] = "code" THEN caller[Recv[s]] ELSE NoThread
  BY ServedByFacts
<1>b. ASSUME call' = call, senders' = senders, reply' = reply, servingNow' = servingNow
      PROVE  UNCHANGED Calls!rpcVars
  BY <1>b DEF Calls!rpcVars, servingNow
<1>c. ASSUME call' = call, senders' = senders, reply' = reply, pc' = pc, caller' = caller
      PROVE  UNCHANGED Calls!rpcVars
  BY <1>b, <1>c, ServingUnchanged
<1>1. CASE UNCHANGED vars
  BY <1>c, <1>1 DEF vars
<1>2. ASSUME NEW t \in Threads, NEW s \in Services, NEW p \in Services \cup {NoRef},
             direct_send_portal(t, s, p)
      PROVE  Calls!Call(t, s)
  <2>1. /\ senders' = portal_add_sender(s, t) /\ call' = [call EXCEPT ![t] = <<s, p>>]
        /\ caller' = caller /\ pc' = pc /\ reply' = reply
    BY <1>2, SendStep
  <2>2. call[t] = NotCalling
    BY <1>2 DEF direct_send_portal, InCode
  <2>3. /\ call'[t] # NotCalling /\ call'[t][1] = s
        /\ \A x \in Threads \ {t} : call'[x] = call[x]
    BY <1>0, <2>1 DEF CallTypeOK, NotCalling
  <2>4. calledNow' = [calledNow EXCEPT ![t] = s]
    BY <2>3 DEF calledNow
  <2>5. servingNow' = servingNow
    BY <2>1, ServingUnchanged
  <2>6. calledNow[t] = "none"
    BY <2>2 DEF calledNow
  <2> QED BY <2>1, <2>4, <2>5, <2>6
          DEF Calls!Call, Calls!NotCalling, calledNow, servingNow, portal_add_sender
<1>3. ASSUME NEW t \in Threads, SendReturn(t)
      PROVE  Calls!Return(t)
  <2>1. /\ call' = [call EXCEPT ![t] = NotCalling] /\ reply' = [reply EXCEPT ![t] = NoReply]
        /\ senders' = senders /\ caller' = caller /\ pc' = pc
        /\ call[t] # NotCalling /\ reply[t] # NoReply /\ reply[t][1] = call[t][1]
    BY <1>3, ReturnStep
  <2>2. call[t][1] # "none"
    BY <1>0, <2>1, CallTypes, Constants
  <2>3. call'[t] = NotCalling /\ \A x \in Threads \ {t} : call'[x] = call[x]
    BY <1>0, <2>1 DEF CallTypeOK
  <2>4. calledNow' = [calledNow EXCEPT ![t] = "none"]
    BY <2>3 DEF calledNow
  <2>5. servingNow' = servingNow
    BY <2>1, ServingUnchanged
  <2>6. calledNow[t] = call[t][1]
    BY <2>1 DEF calledNow
  <2> QED BY <2>1, <2>2, <2>4, <2>5, <2>6
          DEF Calls!Return, Calls!NotCalling, Calls!NoAnswer, NoReply, calledNow, servingNow
<1>4. ASSUME NEW s \in Services, receive_portalcall(s)
      PROVE  Calls!Serve(s) \/ UNCHANGED Calls!rpcVars
  <2>1. /\ call' = call /\ reply' = reply /\ pc[Recv[s]] = "recv"
        /\ senders[s] = << >> =>
             /\ senders' = senders /\ pc' = pc
             /\ \A x \in Threads \ {Recv[s]} : caller'[x] = caller[x]
        /\ senders[s] # << >> =>
             /\ senders' = portal_dequeue_sender(s)
             /\ caller' = [caller EXCEPT ![Recv[s]] = Head(senders[s])]
             /\ pc' = [pc EXCEPT ![Recv[s]] = "code"]
    BY <1>4, ReceiveStep
  <2>2. CASE senders[s] = << >>
    <3>1. \A u \in Services : pc[Recv[u]] = "code" => caller'[Recv[u]] = caller[Recv[u]]
      BY <2>1, <2>2, Constants
    <3>2. servingNow' = servingNow
      BY <2>1, <2>2, <3>1, ServingUnchanged
    <3> QED BY <1>b, <2>1, <2>2, <3>2
  <2>3. CASE senders[s] # << >>
    <3>1. caller'[Recv[s]] = Head(senders[s]) /\ \A x \in Threads \ {Recv[s]} : caller'[x] = caller[x]
      BY <1>0, <2>1, <2>3, Constants DEF CallTypeOK
    <3>2. servingNow' = [servingNow EXCEPT ![s] = Head(senders[s])]
      BY <2>1, <2>3, <3>1, ServingChanged
    <3>3. servingNow[s] = NoThread
      BY <1>a, <2>1 DEF servingNow
    <3>4. calledNow' = calledNow
      BY <2>1 DEF calledNow
    <3> QED BY <2>1, <2>3, <3>2, <3>3, <3>4
            DEF Calls!Serve, calledNow, servingNow, portal_dequeue_sender
  <2> QED BY <2>2, <2>3
<1>5. ASSUME NEW s \in Services, NEW a \in {"value", "exception"},
             InCode(Recv[s]), call' = call, senders' = senders,
             reply' = [reply EXCEPT ![caller[Recv[s]]] = <<s, a>>],
             pc' = [pc EXCEPT ![Recv[s]] = "recv"],
             \A x \in Threads \ {Recv[s]} : caller'[x] = caller[x]
      PROVE  Calls!Answer(s, a)
  <2>1. /\ caller[Recv[s]] \in Threads /\ reply[caller[Recv[s]]] = NoReply /\ pc[Recv[s]] = "code"
    BY <1>5, ServedFacts, InCodeFacts
  <2>2. servingNow[s] = caller[Recv[s]] /\ servingNow[s] # NoThread
    BY <1>a, <2>1, Constants DEF servingNow
  <2>3. servingNow' = [servingNow EXCEPT ![s] = NoThread]
    BY <1>5, ServingChanged
  <2>4. calledNow' = calledNow
    BY <1>5 DEF calledNow
  <2> QED BY <1>5, <2>1, <2>2, <2>3, <2>4
          DEF Calls!Answer, Calls!NoAnswer, NoReply, calledNow, servingNow
<1>6. CASE \E s \in Services, q \in Services \cup {NoRef} : ReceiveReturn(s, q)
  <2>1. PICK s \in Services, q \in Services \cup {NoRef} : ReceiveReturn(s, q)
    BY <1>6
  <2>2. Calls!Answer(s, "value")
    BY <1>5, <2>1, ReceiveReturnStep
  <2> QED BY <2>2 DEF Calls!Next, Calls!Answers
<1>7. CASE \E s \in Services : throw_exception(s, TRUE)
  <2>1. PICK s \in Services : throw_exception(s, TRUE)
    BY <1>7
  <2>2. Calls!Answer(s, "exception")
    BY <1>5, <2>1, ThrowStep
  <2> QED BY <2>2 DEF Calls!Next, Calls!Answers
<1>15. CASE \E s \in Services : throw_exception(s, FALSE)
  BY <1>15, <1>c DEF throw_exception, Stop
<1>16. CASE \E s \in Services, trapped \in BOOLEAN : throw_exception(s, trapped)
  BY <1>7, <1>15, <1>16
<1>8. CASE \E d \in Domains : GcFails(d)
  BY <1>8, <1>c, GcFailsStep
<1>9. CASE \E d \in Domains, s \in Services : gc_in(d, s)
  BY <1>9, <1>c, GcStep
<1>10. CASE \E s \in Services : PromotionGc(s)
  BY <1>10, <1>c DEF PromotionGc, Stop
<1>11. CASE \/ \E s \in Services : NotifyExit(s)
            \/ \E t \in Clients : createThread(t)
            \/ \E t \in Clients \cup Receivers : yield(t)
  BY <1>11, <1>c DEF NotifyExit, createThread, yield, svcVars
<1>12. CASE \E t \in Threads, s \in Services, p \in Services \cup {NoRef} : direct_send_portal(t, s, p)
  BY <1>2, <1>12 DEF Calls!Next
<1>13. CASE \E t \in Threads : SendReturn(t)
  BY <1>3, <1>13 DEF Calls!Next
<1>14. CASE \E s \in Services : receive_portalcall(s)
  BY <1>4, <1>14 DEF Calls!Next
<1> QED BY <1>1, <1>6, <1>8, <1>9, <1>10, <1>11, <1>12, <1>13, <1>14, <1>16 DEF Next

\* Portals implement synchronous calls: in the order in which they were made, one
\* at a time, each answered once and by the service that was called.
THEOREM PortalsImplementRpc == Spec => ImplementsRpc
<1>1. Init => Calls!Init
  <2> SUFFICES ASSUME Init PROVE Calls!Init
    OBVIOUS
  <2>1. \A s \in Services : ServedBy(s) = NoThread
    BY Constants DEF Init, ServedBy, Executing
  <2> QED BY <2>1 DEF Init, Calls!Init, Calls!NotCalling, Calls!NoAnswer, NoReply
<1>2. IInv /\ IInv' /\ [Next]_vars => [Calls!Next]_(Calls!rpcVars)
  BY StepSimulates
<1> QED BY <1>1, <1>2, PortalInvariant, PTL DEF Spec, ImplementsRpc, Calls!Spec
=============================================================================
