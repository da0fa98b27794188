------------------------------- MODULE Portal -------------------------------
(***************************************************************************)
(* Portal calls (core/portal.c): synchronous calls from a thread of one     *)
(* domain to a service of another, executed by the service's own receiver   *)
(* thread.  References travel with parameters and results: an object that   *)
(* is passed for the first time is promoted to a service, a reference to a  *)
(* service becomes a proxy in the heap of the domain it is passed to, and a *)
(* service is deleted when the garbage collector has found the last proxy   *)
(* of another domain dead.                                                 *)
(*                                                                         *)
(* Sending, receiving and returning run with interrupts disabled: each is   *)
(* one step up to the thread switch it ends with.  A service method runs    *)
(* with interrupts enabled, and an exception can leave it that way.         *)
(***************************************************************************)
EXTENDS Runq, FiniteSets

CONSTANTS
    Services,     \* objects that implement a portal interface
    Owner,        \* the domain of the object
    Recv,         \* svc->receiver, while the service exists
    Finalizer,    \* the thread that runs serviceFinalizer, or NoThread
    Clients,      \* threads that only call
    InitialThread,\* the first of them
    MayCall,      \* the services the code of a thread calls
    NoRef,        \* null as a parameter or a result
    InitialRefs,  \* <<d, s>>: domain d got a proxy of s from the naming
    MaxProxies    \* bound: proxies of one service in one heap

Receivers == {Recv[s] : s \in Services}

ASSUME PortalAssumption ==
    /\ Owner \in [Services -> Domains]
    /\ Recv \in [Services -> Threads \ {IdleThread}]
    /\ \A s, u \in Services : Recv[s] = Recv[u] => s = u
    /\ \A s \in Services : Dom[Recv[s]] = Owner[s]
    /\ Clients \subseteq Threads \ (Receivers \cup {IdleThread})
    /\ InitialThread \in Clients
    \* start_notify_thread runs in a thread that is made for it
    /\ Finalizer \in [Services -> (Threads \ (Clients \cup Receivers \cup {IdleThread})) \cup {NoThread}]
    /\ NoRef \notin Services /\ "none" \notin Services
    /\ IsFiniteSet(Domains)
    /\ InitialRefs \subseteq {r \in Domains \X Services : Owner[r[2]] # r[1]}
    /\ MaxProxies \in Nat \ {0}

VARIABLES
    entry,        \* owner->services[]: "FREE" or "LIVE"
    refcount,     \* svc->refcount: proxies, and the owner's own proxy
    heap,         \* heap[d][s]: proxies of s in the heap of d
    senders,      \* svc->firstWaitingSender ... lastWaitingSender
    call,         \* service and parameter, while in direct_send_portal
    caller,       \* thread->mostRecentlyCalledBy
    pc,           \* of a receiver: "recv" in the receive loop, "code" in the service
    reply,        \* portalReturn and portalReturnType: service and kind of answer
    assertion     \* the ASSERT of the service table that has fired

svcVars == <<entry, refcount, heap, senders, call, caller, pc, reply, assertion>>
vars == <<curthr, state, runq, domq, panic,
          entry, refcount, heap, senders, call, caller, pc, reply, assertion>>

NotCalling == << >>
NoReply == << >>
None == "none"

\* The variables hold values of their types.
TypeOK ==
    /\ curthr \in Threads
    /\ state \in [Threads -> ThreadStates]
    /\ runq \in [Domains -> Seq(Threads)]
    /\ domq \in Seq(Domains)
    /\ panic \in BOOLEAN
    /\ entry \in [Services -> {"FREE", "LIVE"}]
    /\ refcount \in [Services -> Nat]
    /\ heap \in [Domains -> [Services -> Nat]]
    /\ senders \in [Services -> Seq(Threads)]
    /\ call \in [Threads -> (Services \X (Services \cup {NoRef})) \cup {NotCalling}]
    /\ caller \in [Threads -> Threads \cup {NoThread}]
    /\ pc \in [Threads -> {"recv", "code"}]
    /\ reply \in [Threads -> (Services \X {"value", "exception"}) \cup {NoReply}]
    /\ assertion \in {None, "no service", "refcount", "promotion",
                      "receiver runnable", "queued sender", "moved sender",
                      "irqs enabled"}

-----------------------------------------------------------------------------
(* The initial thread runs; the services that the naming has given out      *)
(* exist and wait for a call.                                              *)

Promoted == {r[2] : r \in InitialRefs}

Init ==
    /\ curthr = InitialThread
    /\ state = [t \in Threads |->
                  IF t \in {InitialThread, IdleThread} THEN RUNNABLE
                  ELSE IF \E s \in Promoted : Recv[s] = t THEN "WAIT_FOR_SND" ELSE "NONE"]
    /\ runq = [d \in Domains |-> << >>]
    /\ domq = << >>
    /\ panic = FALSE
    /\ entry = [s \in Services |-> IF s \in Promoted THEN "LIVE" ELSE "FREE"]
    /\ heap = [d \in Domains |-> [s \in Services |-> IF <<d, s>> \in InitialRefs THEN 1 ELSE 0]]
    /\ refcount = [s \in Services |->
                     IF s \in Promoted THEN 1 + Cardinality({d \in Domains : <<d, s>> \in InitialRefs})
                     ELSE 0]
    /\ senders = [s \in Services |-> << >>]
    /\ call = [t \in Threads |-> NotCalling]
    /\ caller = [t \in Threads |-> NoThread]
    /\ pc = [t \in Threads |-> IF t \in Receivers THEN "recv" ELSE "code"]
    /\ reply = [t \in Threads |-> NoReply]
    /\ assertion = None

-----------------------------------------------------------------------------
Alive == ~panic /\ assertion = None

\* The running thread executes Java code.
InCode(t) ==
    /\ Alive /\ curthr = t /\ t # IdleThread
    /\ pc[t] = "code" /\ call[t] = NotCalling

\* ASSERT: the kernel stops where it stands.
Stop(a) ==
    /\ assertion' = a
    /\ UNCHANGED runqVars
    /\ UNCHANGED <<entry, refcount, heap, senders, call, caller, pc, reply>>

\* What the code of domain d can pass: its portal objects and its proxies.
References(d) == {NoRef} \cup {s \in Services : Owner[s] = d \/ heap[d][s] > 0}

\* In its own domain a service is the object itself.
NeedsProxy(dst, p) == p # NoRef /\ Owner[p] # dst

\* Bound: there is room for one more proxy of p in d, even when all parameters
\* on their way have arrived.
Room(d, p) ==
    NeedsProxy(d, p) =>
        heap[d][p] + Cardinality({t \in Threads : /\ call[t] # NotCalling
                                                  /\ call[t][2] = p
                                                  /\ Owner[call[t][1]] = d}) < MaxProxies

\* The calls in progress need one proxy of s in d: they are on a stack.
OnStack(d, s) == \E t \in Threads : Dom[t] = d /\ call[t] # NotCalling /\ s \in Range(call[t])

-----------------------------------------------------------------------------
(* copy_reference of a portal reference p from domain src to domain dst     *)
(* (copy_portal, portal_auto_promo, createService, allocProxyInDomain).     *)

\* The object was never passed before, or its service was deleted.
NeedsPromotion(dst, p) == NeedsProxy(dst, p) /\ entry[p] = "FREE"

\* Mutant: a promotion does not count the owner's own proxy.
copy_portal_NoOwnProxy(dst, p) ==
    IF NeedsProxy(dst, p)
    THEN /\ entry' = [entry EXCEPT ![p] = "LIVE"]
         /\ refcount' = [refcount EXCEPT ![p] = @ + 1]
         /\ heap' = [heap EXCEPT ![dst][p] = @ + 1]
    ELSE UNCHANGED <<entry, refcount, heap>>

\* A promotion counts the owner's own proxy, too.
copy_portal(dst, p) ==
    IF NeedsProxy(dst, p)
    THEN /\ entry' = [entry EXCEPT ![p] = "LIVE"]
         /\ refcount' = [refcount EXCEPT ![p] = IF entry[p] = "FREE" THEN 2 ELSE @ + 1]
         /\ heap' = [heap EXCEPT ![dst][p] = @ + 1]
    ELSE UNCHANGED <<entry, refcount, heap>>

\* Thread states and thread queues with the receiver thread of a promotion.
StatePromoted(st, dst, p) ==
    IF NeedsPromotion(dst, p) THEN [st EXCEPT ![Recv[p]] = RUNNABLE] ELSE st
RunqPromoted(dst, p) ==
    IF NeedsPromotion(dst, p) THEN threadrunq_append(runq, Recv[p]) ELSE runq

-----------------------------------------------------------------------------
(* The wait queue of a service.                                            *)

\* Mutant: a sender is linked in at the head.
portal_add_sender_AtHead(s, t) == [senders EXCEPT ![s] = <<t>> \o @]

portal_add_sender(s, t) == [senders EXCEPT ![s] = Append(@, t)]

\* Mutant: the sender stays linked.
portal_dequeue_sender_Peek(s) == senders

portal_dequeue_sender(s) == [senders EXCEPT ![s] = Tail(@)]

-----------------------------------------------------------------------------
(* The sender.                                                             *)

\* direct_send_portal up to the switch: the call is queued, and handed to the
\* receiver if that waits for one.
direct_send_portal(t, s, p) ==
    /\ InCode(t)
    /\ s \in MayCall[t] /\ Owner[s] # Dom[t] /\ heap[Dom[t]][s] > 0
    /\ p \in References(Dom[t]) /\ Room(Owner[s], p)
    /\ IF entry[s] = "FREE" THEN Stop("no service")
       ELSE IF t \in Range(senders[s])
       THEN Panic /\ UNCHANGED svcVars
       ELSE /\ senders' = portal_add_sender(s, t)
            /\ call' = [call EXCEPT ![t] = <<s, p>>]
            /\ IF state[Recv[s]] = "WAIT_FOR_SND"
               THEN UnblockAndSwitch([state EXCEPT ![t] = "WAIT_FOR_RET"], runq, Recv[s])
               ELSE Sched_block("WAIT_FOR_RCV")
            /\ UNCHANGED <<entry, refcount, heap, caller, pc, reply, assertion>>

\* ... and after it: the answer is taken, or its exception is thrown on.
SendReturn(t) ==
    /\ Alive /\ curthr = t /\ call[t] # NotCalling
    /\ IF t \in Range(senders[call[t][1]])
       THEN Panic /\ UNCHANGED svcVars
       ELSE /\ call' = [call EXCEPT ![t] = NotCalling]
            /\ reply' = [reply EXCEPT ![t] = NoReply]
            /\ UNCHANGED runqVars
            /\ UNCHANGED <<entry, refcount, heap, senders, caller, pc, assertion>>

-----------------------------------------------------------------------------
(* The receiver of service s.                                              *)

\* One round of the receive loop: no sender, or the parameters of the first
\* one are copied and the service method is entered.
receive_portalcall(s) ==
    LET r == Recv[s] IN
    /\ Alive /\ curthr = r /\ pc[r] = "recv"
    /\ IF entry[s] = "FREE" THEN Stop("no service")
       ELSE IF senders[s] = << >>
       THEN /\ Sched_block("WAIT_FOR_SND")
            /\ caller' = [caller EXCEPT ![r] = NoThread]
            /\ UNCHANGED <<entry, refcount, heap, senders, call, pc, reply, assertion>>
       ELSE LET source == Head(senders[s])
                p      == call[source][2]
                promo  == NeedsPromotion(Owner[s], p)
            IN IF \/ curdom \in Range(domq)
                  \/ source \in Range(Tail(senders[s]))
                  \/ promo /\ ~AppendAssert(runq, domq, Recv[p])
               THEN Panic /\ UNCHANGED svcVars
               ELSE /\ senders' = portal_dequeue_sender(s)
                    /\ copy_portal(Owner[s], p)
                    /\ state' = StatePromoted([state EXCEPT ![source] = "WAIT_FOR_RET"], Owner[s], p)
                    /\ runq' = RunqPromoted(Owner[s], p)
                    /\ domq' = IF promo THEN DomqAfterAppend(runq, domq, Recv[p]) ELSE domq
                    /\ caller' = [caller EXCEPT ![r] = source]
                    /\ pc' = [pc EXCEPT ![r] = "code"]
                    /\ UNCHANGED <<curthr, panic, call, reply, assertion>>

\* Mutant: the receiver waits for a sender although one is queued.
ReceiveReturn_Waits(s, q) ==
    LET r == Recv[s]
        dst == Dom[caller[r]]
    IN  /\ InCode(r)
        /\ q \in References(Owner[s]) /\ Room(dst, q)
        /\ copy_portal(dst, q)
        /\ reply' = [reply EXCEPT ![caller[r]] = <<s, "value">>]
        /\ caller' = [caller EXCEPT ![r] = NoThread]
        /\ pc' = [pc EXCEPT ![r] = "recv"]
        /\ UnblockAndSwitch([StatePromoted(state, dst, q) EXCEPT ![r] = "WAIT_FOR_SND"],
              RunqPromoted(dst, q), caller[r])
        /\ UNCHANGED <<senders, call, assertion>>

\* The sender is unblocked; the receiver stays runnable only if another one waits.
Sched_portal_handoff_to_sender(st, rq, r, source, runnable) ==
    UnblockAndSwitch([st EXCEPT ![r] = IF runnable THEN RUNNABLE ELSE "WAIT_FOR_SND"],
                     IF runnable THEN threadrunq_append(rq, r) ELSE rq, source)

\* The service method returns q: the result is copied and the sender goes on.
ReceiveReturn(s, q) ==
    LET r      == Recv[s]
        source == caller[r]
        dst    == Dom[source]
    IN  /\ InCode(r)
        /\ q \in References(Owner[s]) /\ Room(dst, q)
        /\ copy_portal(dst, q)
        /\ reply' = [reply EXCEPT ![source] = <<s, "value">>]
        /\ caller' = [caller EXCEPT ![r] = NoThread]
        /\ pc' = [pc EXCEPT ![r] = "recv"]
        /\ Sched_portal_handoff_to_sender(StatePromoted(state, dst, q), RunqPromoted(dst, q),
                                          r, source, senders[s] # << >>)
        /\ UNCHANGED <<senders, call, assertion>>

\* Mutant: the running domain is put into the domain queue as well.
reinit_service_thread_QueuesDomain(r) ==
    /\ pc' = [pc EXCEPT ![r] = "recv"]
    /\ Sched_switch_to_nextThread([state EXCEPT ![caller[r]] = RUNNABLE],
          threadrunq_append(threadrunq_append(runq, r), caller[r]),
          DomqAfterAppend(runq, domainrunq_append(domq, curdom), caller[r]))

\* The receiver restarts its loop from its TCB and is always runnable; the sender
\* goes on (Sched_portal_destroy_handoff_to_sender).
reinit_service_thread(r) ==
    /\ pc' = [pc EXCEPT ![r] = "recv"]
    /\ UnblockAndSwitch(state, threadrunq_append(runq, r), caller[r])

\* An exception reaches the service entry point: the sender gets it.  A trap of the
\* processor has gone through an interrupt gate and nobody has enabled interrupts
\* again (debug_ex jumps to exceptionHandler).  One that code throws leaves the
\* method behind the sti and before the cli of callnative_special_portal: then
\* ASSERTCLI stops threadunblock.
throw_exception(s, trapped) ==
    LET r == Recv[s] IN
        /\ InCode(r)
        /\ IF ~trapped THEN Stop("irqs enabled")
           ELSE /\ reply' = [reply EXCEPT ![caller[r]] = <<s, "exception">>]
                /\ reinit_service_thread(r)
                /\ UNCHANGED <<entry, refcount, heap, senders, call, caller, assertion>>

-----------------------------------------------------------------------------
(* Garbage collection, in the running domain or in the one the result is    *)
(* copied to.  It moves every object of the domain, thread control blocks   *)
(* included, with interrupts disabled.                                     *)

Collects(d) ==
    /\ InCode(curthr)
    /\ \/ d = curdom
       \/ curthr \in Receivers /\ d = Dom[caller[curthr]]

\* What stops the collector in domain d.
GcFailures(d) ==
    \* walkPortals: ASSERT(domain->services[i]->refcount > 1)
    { a \in {"refcount"} :
        \E s \in Services : Owner[s] = d /\ entry[s] = "LIVE" /\ refcount[s] < 2 }
    \* gc_impl_walkContentCPUState: sys_panic("move TCB in wait queue NYI")
    \cup { a \in {"queued sender"} :
        \E t \in Threads : Dom[t] = d /\ state[t] = "WAIT_FOR_RCV" }
    \* ... which does not see a sender that has been handed off but not yet
    \* dequeued: the link of the wait queue keeps pointing to the old block
    \cup { a \in {"moved sender"} :
        \E t \in Threads : /\ Dom[t] = d /\ state[t] = "WAIT_FOR_RET"
                          /\ \E s \in Services : t \in Range(senders[s]) }

GcFails(d) ==
    /\ Collects(d)
    /\ \E a \in GcFailures(d) : Stop(a)

\* The service is deleted with the last proxy outside its domain.
LastProxy(s) == refcount[s] = 2

\* A proxy of s in d is gone.  The finalizer thread is started for every proxy.
service_decRefcount(d, s) ==
    LET deleted == LastProxy(s)
        f       == Finalizer[s]
        notify  == f # NoThread
        st      == IF deleted THEN [state EXCEPT ![Recv[s]] = "NONE"] ELSE state
    IN  /\ notify => state[f] = "NONE"   \* bound: one finalizer thread of s at a time
        /\ IF entry[s] = "FREE" THEN Stop("no service")
           ELSE IF deleted /\ state[Recv[s]] = RUNNABLE
           THEN Stop("receiver runnable")
           ELSE IF notify /\ ~AppendAssert(runq, domq, f)
           THEN Panic /\ UNCHANGED svcVars
           ELSE /\ heap' = [heap EXCEPT ![d][s] = @ - 1]
                /\ refcount' = [refcount EXCEPT ![s] = IF deleted THEN 0 ELSE @ - 1]
                /\ entry' = [entry EXCEPT ![s] = IF deleted THEN "FREE" ELSE @]
                /\ state' = IF notify THEN [st EXCEPT ![f] = RUNNABLE] ELSE st
                /\ runq' = IF notify THEN threadrunq_append(runq, f) ELSE runq
                /\ domq' = IF notify THEN DomqAfterAppend(runq, domq, f) ELSE domq
                /\ UNCHANGED <<curthr, panic, senders, call, caller, pc, reply, assertion>>

\* The collection of d reaches everything but a proxy of s
\* (gc_new_finalizePortalsCB).
gc_in(d, s) ==
    /\ Collects(d) /\ GcFailures(d) = {}
    /\ heap[d][s] > (IF OnStack(d, s) THEN 1 ELSE 0)
    /\ service_decRefcount(d, s)

\* The proxy or the thread of a promotion does not fit into the owner's heap, and
\* its collection meets the service before the first two proxies are counted.
PromotionGc(s) ==
    LET r == Recv[s] IN
    /\ Alive /\ curthr = r /\ entry[s] = "LIVE"
    /\ \/ /\ pc[r] = "recv" /\ senders[s] # << >>
          /\ NeedsPromotion(Owner[s], call[Head(senders[s])][2])
       \/ /\ InCode(r)
          /\ \E q \in References(Owner[s]) :
                Room(Dom[caller[r]], q) /\ NeedsPromotion(Dom[caller[r]], q)
    /\ Stop("promotion")

\* start_notify_thread has called serviceFinalizer and ends.
NotifyExit(s) ==
    /\ InCode(Finalizer[s])
    /\ Sched_switch_to_nextThread([state EXCEPT ![curthr] = "NONE"], runq, domq)
    /\ UNCHANGED svcVars

\* createThread of another client.
createThread(t) ==
    /\ InCode(curthr)
    /\ t \in Clients /\ state[t] = "NONE"
    /\ MakeRunnable(t)
    /\ UNCHANGED svcVars

yield(t) ==
    /\ InCode(t)
    /\ threadyield
    /\ UNCHANGED svcVars

-----------------------------------------------------------------------------
Next ==
    \/ \E t \in Threads, s \in Services, p \in Services \cup {NoRef} :
          direct_send_portal(t, s, p)
    \/ \E t \in Threads : SendReturn(t)
    \/ \E s \in Services : receive_portalcall(s)
    \/ \E s \in Services, q \in Services \cup {NoRef} : ReceiveReturn(s, q)
    \/ \E s \in Services, trapped \in BOOLEAN : throw_exception(s, trapped)
    \/ \E d \in Domains : GcFails(d)
    \/ \E d \in Domains, s \in Services : gc_in(d, s)
    \/ \E s \in Services : PromotionGc(s)
    \/ \E s \in Services : NotifyExit(s)
    \/ \E t \in Clients : createThread(t)
    \/ \E t \in Clients \cup Receivers : yield(t)

Spec == Init /\ [][Next]_vars

-----------------------------------------------------------------------------
(* Safety.                                                                 *)

\* The run queues agree with the thread states through all handoffs: the queued
\* threads are the RUNNABLE ones except the running thread and idle.
QueuesConsistent ==
    /\ Queued(runq) = {t \in Threads : state[t] = RUNNABLE} \ {curthr, IdleThread}
    /\ ThreadQueuesOK(runq)
    /\ DomainQueueOK(runq, domq, curdom)

\* No check of the scheduler and of the wait queues fires: a thread is never
\* queued twice for a service, nor still queued when its call has returned.
NoPanic == ~panic

\* No call is lost: a receiver that waits for a sender has none in its queue.
NoLostSender ==
    \A s \in Services : state[Recv[s]] = "WAIT_FOR_SND" => senders[s] = << >>

\* Every call is in exactly one place: a blocked sender waits in the queue of
\* the service it called, once, or is the one the service executes; a sender
\* that runs again has its answer, from that service.
Executing(s) == pc[Recv[s]] = "code" /\ entry[s] = "LIVE"
CallAccounted ==
    \A t \in Threads, s \in Services :
        LET waits  == Cardinality({i \in DOMAIN senders[s] : senders[s][i] = t})
            served == IF Executing(s) /\ caller[Recv[s]] = t THEN 1 ELSE 0
        IN  IF call[t] # NotCalling /\ call[t][1] = s /\ state[t] # RUNNABLE
            THEN waits + served = 1 /\ reply[t] = NoReply
            ELSE /\ waits + served = 0
                 /\ call[t] # NotCalling /\ call[t][1] = s
                        => reply[t] # NoReply /\ reply[t][1] = s

\* The reference count is exact: the owner's own proxy and the proxies in all
\* heaps, which are as many as their places in the heaps; and a proxy never
\* outlives its service, so that no call, no copy and no collection meets a
\* free entry.
Proxies(s) == UNION { {<<d, k>> : k \in 1 .. heap[d][s]} : d \in Domains }
RefcountExact ==
    \A s \in Services :
        IF entry[s] = "FREE" THEN Proxies(s) = {} /\ refcount[s] = 0
        ELSE refcount[s] = 1 + Cardinality(Proxies(s))

\* A service is not deleted while a call is on its way to it, in it, or back.
NoCallOnDeadService ==
    \A t \in Threads : call[t] # NotCalling => entry[call[t][1]] = "LIVE"

\* ASSERT(svc): an entry that is used is never free; and outside of a promotion
\* gc_impl.c: ASSERT(domain->services[i]->refcount > 1).
ServiceTableOK == assertion \notin {"no service", "refcount"}

\* The services call each other in no cycle: whom a service calls has a lower rank.
CallsDescend(rank) ==
    \A s, u \in Services : u \in MayCall[Recv[s]] => rank[u] < rank[s]
NoCallCycle == \E rank \in [Services -> Nat] : CallsDescend(rank)

\* Calls alone never bring the system to rest: as long as there is no cycle,
\* some caller or receiver can always run.
SomebodyRuns == curthr # IdleThread

(***************************************************************************)
(* Portal calls use the scheduler as it wants to be used: handoffs,         *)
(* waiting, restarts after trapped exceptions and new receivers keep the    *)
(* run queues exact and trip no check of the queues, and calls alone never  *)
(* bring everybody to a halt (portal.c 795-1300, runq.c).  An exception     *)
(* that is thrown with interrupts enabled does trip a check, ASSERTCLI:     *)
(* UnblockWithIrqsDisabled is about that.                                   *)
(***************************************************************************)
KernelSound == TypeOK /\ QueuesConsistent /\ NoPanic /\ SomebodyRuns

(***************************************************************************)
(* A service lives as long as it can be called: its count is the number of  *)
(* its proxies in all domains, also those on their way in a call, no call   *)
(* meets a dead service, no entry of the table is used when it is free, and *)
(* a collection outside of a promotion finds every count above one          *)
(* (portal.c 1927-1990, 2620-2700; gc_impl.c).  A collection in the middle  *)
(* of a promotion does not: CollectedCountsHold is about that.              *)
(***************************************************************************)
ServicesCounted == RefcountExact /\ NoCallOnDeadService /\ ServiceTableOK

\* The portals implement synchronous calls.
ServedBy(s) == IF Executing(s) THEN caller[Recv[s]] ELSE NoThread
Calls == INSTANCE Rpc WITH
            called <- [t \in Threads |-> IF call[t] = NotCalling THEN "none" ELSE call[t][1]],
            queue <- senders,
            serving <- [s \in Services |-> ServedBy(s)],
            answer <- reply
ImplementsRpc == Calls!Spec

-----------------------------------------------------------------------------
(* Liveness.  The default build has no timeslicing: a client gives up the   *)
(* CPU again and again, a service method ends (with a result or an          *)
(* exception), and what the kernel does on its own it does when it has the  *)
(* CPU.                                                                    *)

Answer(s) == throw_exception(s, TRUE) \/ ReceiveReturn(s, NoRef)

Fairness ==
    /\ \A t \in Clients : SF_vars(yield(t))
    /\ \A t \in Threads : WF_vars(SendReturn(t))
    /\ \A s \in Services : /\ WF_vars(receive_portalcall(s))
                          /\ SF_vars(Answer(s))
                          /\ WF_vars(NotifyExit(s))

FairSpec == Spec /\ Fairness

\* Every call returns, with a result or with a trapped exception, as long as no
\* assertion stops the kernel (an exception that code throws in a service method
\* does stop it): neither the FIFO of a contended service nor nested calls starve it.
CallReturns ==
    [](assertion = None) =>
        \A t \in Threads : (call[t] # NotCalling) ~> (call[t] = NotCalling)

-----------------------------------------------------------------------------
(* What comments and assertions of the code say, and the code does not do.  *)

\* thread.c 464: "unblocks the given Thread ! be sure the IRQs are disabled", and
\* ASSERTCLI: the sender of a call that ends with an exception is unblocked with
\* interrupts disabled, as every other one.
UnblockWithIrqsDisabled == assertion # "irqs enabled"

\* gc_impl.c 151: ASSERT(domain->services[i]->refcount > 1): a collection finds every
\* service with at least one proxy outside, also one that begins in a promotion.
CollectedCountsHold == assertion \notin {"refcount", "promotion"}

\* thread.c: "thread must not be in any queue !! caller of terminateThread must
\* ensure this!", and ASSERT(thread->state != STATE_RUNNABLE): a service is
\* deleted only while its receiver waits for a call.
DeletedReceiverIsIdle == assertion # "receiver runnable"

\* gc_move.c corrects the "pointer to this thread in other domains": the receiver
\* finds a sender that has been handed off where it is after a collection.
HandedOffSenderCanMove == assertion # "moved sender"

\* portal.c: "use a new thread to notify the domain that a service was deleted":
\* the finalizer of a service is started by the step that deletes it.
FinalizerMeansDeleted ==
    [][ \A s \in Services :
          Finalizer[s] # NoThread /\ state[Finalizer[s]] = "NONE"
            /\ state'[Finalizer[s]] = RUNNABLE => entry'[s] = "FREE" ]_vars
=============================================================================
