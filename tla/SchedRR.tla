------------------------------ MODULE SchedRR ------------------------------
(***************************************************************************)
(* The two-level round-robin scheduler of the NEW_SCHED build: a queue of   *)
(* domains (core/sched_global_rr.c) over a queue of threads in each domain  *)
(* (core/sched_local_rr.c), called from core/thread.c.  Both queues are    *)
(* linked lists; that of the domains is modelled with its pointers, because *)
(* a domain can be appended while it is still linked.                      *)
(***************************************************************************)
EXTENDS Integers, Sequences, FiniteSets, SequencesExt

CONSTANTS
    RRThreads, RRDomains,
    RRHome,         \* thread -> its domain
    domainZero,
    NULL

ASSUME RRAssumption ==
    /\ IsFiniteSet(RRDomains) /\ domainZero \in RRDomains
    /\ RRHome \in [RRThreads -> RRDomains]
    /\ NULL \notin RRThreads \cup RRDomains

VARIABLES
    first, last,    \* runq
    nextIn,         \* nextInRunQueue
    queued,         \* the domains with queued = 1
    local,          \* per domain: [current, queue]
    tstate,         \* "INIT", "RUNNABLE", "BLOCKED", "ZOMBIE" or "FREED"
    curthr,         \* the running thread, or NULL for the idle thread
    handler         \* the domain whose interrupt handler runs now, or NULL

rrVars == <<first, last, nextIn, queued, local, tstate, curthr, handler>>

curdom == IF handler # NULL THEN handler ELSE IF curthr = NULL THEN domainZero ELSE RRHome[curthr]

(***************************************************************************)
(* The queue of domains, as a record of its variables                      *)
(***************************************************************************)

RunQ == [first |-> first, last |-> last, next |-> nextIn, queued |-> queued]
SetRunQ(q) == first' = q.first /\ last' = q.last /\ nextIn' = q.next /\ queued' = q.queued

queue_append(q, d) ==
    [q EXCEPT !.queued = @ \cup {d}, !.last = d,
              !.first = IF q.last = NULL THEN d ELSE @,
              !.next = IF q.last = NULL THEN [@ EXCEPT ![d] = NULL]
                       ELSE [[@ EXCEPT ![d] = NULL] EXCEPT ![q.last] = d]]

\* Mutant: a thread that is inserted replaces the one at the end.
insertThread_Replaces(l, d, t) ==
    [l EXCEPT ![d].queue = IF Len(@) > 0 THEN Append(Front(@), t) ELSE <<t>>]

\* The first domain is removed, whatever the caller asks for.
queue_remove(q) ==
    IF q.first = NULL THEN q
    ELSE [q EXCEPT !.first = q.next[q.first], !.last = IF q.first = q.last THEN NULL ELSE @,
                   !.next[q.first] = NULL, !.queued = @ \ {q.first}]

(***************************************************************************)
(* The queue of threads of a domain                                        *)
(***************************************************************************)

isRunnable(l, d) == l[d].current # NULL \/ l[d].queue # << >>

\* nextThread becomes the current thread.
Advance(l, d) ==
    [l EXCEPT ![d] = IF @.queue = << >> THEN [@ EXCEPT !.current = NULL]
                     ELSE [current |-> Head(@.queue), queue |-> Tail(@.queue)]]

\* The first occurrence of the thread is unlinked, if there is one.
Unlinked(q, t) ==
    LET found == {k \in DOMAIN q : q[k] = t}
        k0 == CHOOSE k \in found : \A j \in found : k <= j
    IN IF found = {} THEN q ELSE [j \in 1..(Len(q) - 1) |-> IF j < k0 THEN q[j] ELSE q[j + 1]]
removeThread(l, d, t) == [l EXCEPT ![d].queue = Unlinked(@, t)]

\* insertThread, which reports an empty queue that gets its first thread;
\* Sched_becomesRunnable appends the domain unless it is the running one.
insertThread(l, d, t) == [l EXCEPT ![d].queue = Append(@, t)]
Sched_becomesRunnable(q, l, d) ==
    IF d \notin q.queued /\ isRunnable(l, d) /\ (curdom # d \/ handler # NULL) THEN queue_append(q, d) ELSE q

(***************************************************************************)
(* Entry points                                                            *)
(***************************************************************************)

\* current is NULL because the domain's descriptor is cleared (domain.c 87).
RRInit ==
    /\ first = NULL /\ last = NULL /\ queued = {} /\ nextIn = [d \in RRDomains |-> NULL]
    /\ local = [d \in RRDomains |-> [current |-> NULL, queue |-> << >>]]
    /\ tstate = [t \in RRThreads |-> "INIT"]
    /\ curthr = NULL /\ handler = NULL

\* The loop of activateNext, once around: a domain that is not runnable is
\* dropped for the first one of the queue.
DropOne(l, p) ==
    IF p.d # NULL /\ isRunnable(l, p.d) THEN p
    ELSE [q |-> queue_remove(p.q), d |-> p.q.first]
MaxDrops == 2 * Cardinality(RRDomains)
Dropped(q, l, d) ==
    LET Drop[n \in 0..MaxDrops] == IF n = 0 THEN [q |-> q, d |-> d] ELSE DropOne(l, Drop[n - 1])
    IN Drop[MaxDrops]

\* activateNext: the local scheduler of the domain that is left continues its
\* current thread or takes the next.
activateNext(q, l, d) ==
    LET r == Dropped(q, l, d)
        act == IF r.d # NULL /\ l[r.d].current = NULL THEN Advance(l, r.d) ELSE l
    IN /\ SetRunQ(r.q)
       /\ IF r.d = NULL \/ ~isRunnable(l, r.d)
          THEN curthr' = NULL /\ local' = l
          ELSE curthr' = act[r.d].current /\ local' = act

\* Sched_unblock, of a thread that starts or that waits.
Woken(q, l, t) ==
    LET d == RRHome[t]
        l2 == insertThread(l, d, t)
        q2 == IF l[d].queue = << >> THEN Sched_becomesRunnable(q, l2, d) ELSE q
    IN [l |-> l2, q |-> IF d \notin q2.queued /\ isRunnable(l2, d) /\ curdom # d THEN queue_append(q2, d) ELSE q2]
Sched_unblock(t) ==
    /\ tstate[t] \in {"INIT", "BLOCKED"} /\ t # curthr
    /\ tstate' = [tstate EXCEPT ![t] = "RUNNABLE"]
    /\ SetRunQ(Woken(RunQ, local, t).q) /\ local' = Woken(RunQ, local, t).l
    /\ UNCHANGED <<curthr, handler>>

\* Sched_block: the thread waits, its domain goes on with the next one.
RRSched_block ==
    /\ handler = NULL /\ curthr # NULL
    /\ tstate' = [tstate EXCEPT ![curthr] = "BLOCKED"]
    /\ activateNext(RunQ, Advance(local, RRHome[curthr]), RRHome[curthr])
    /\ UNCHANGED handler

\* Sched_portal_handoff_to_receiver and _to_sender: unblock one, block.
Handoff(t) ==
    /\ handler = NULL /\ curthr # NULL /\ t # curthr /\ tstate[t] = "BLOCKED"
    /\ tstate' = [tstate EXCEPT ![t] = "RUNNABLE", ![curthr] = "BLOCKED"]
    /\ LET w == Woken(RunQ, local, t)
       IN activateNext(w.q, Advance(w.l, RRHome[curthr]), RRHome[curthr])
    /\ UNCHANGED handler

\* The timer: the thread stays its domain's current one, the domain is
\* appended without a look at queued.
Sched_preempted ==
    /\ handler = NULL
    /\ activateNext(queue_append(RunQ, curdom), local, NULL)
    /\ UNCHANGED <<tstate, handler>>

\* idle: something has been queued.
IdleLeaves ==
    /\ handler = NULL /\ curthr = NULL /\ (first # NULL \/ isRunnable(local, domainZero))
    /\ activateNext(RunQ, local, NULL)
    /\ UNCHANGED <<tstate, handler>>

\* Sched_destroyed: a domain without threads is to leave the queue.
Destroyed(t) ==
    LET d == RRHome[t]
        l == IF local[d].current = t THEN Advance(local, d) ELSE removeThread(local, d, t)
    IN [l |-> l, q |-> IF d \in queued /\ ~isRunnable(l, d) THEN queue_remove(RunQ) ELSE RunQ]
\* The receivers of a service that is deleted, which wait for a call: the
\* state is left as it is, the descriptor with it is freed.  A RUNNABLE
\* thread would fail the assertion at sched_global_rr.c 309.
terminateThread(t) ==
    /\ handler = NULL /\ curthr # NULL /\ t # curthr /\ tstate[t] = "BLOCKED"
    /\ tstate' = [tstate EXCEPT ![t] = "FREED"]
    /\ SetRunQ(Destroyed(t).q) /\ local' = Destroyed(t).l
    /\ UNCHANGED <<curthr, handler>>
RRdestroyCurrentThread ==
    /\ handler = NULL /\ curthr # NULL
    /\ tstate' = [tstate EXCEPT ![curthr] = "ZOMBIE"]
    /\ activateNext(Destroyed(curthr).q, Destroyed(curthr).l, RRHome[curthr])
    /\ UNCHANGED handler

\* An interrupt handler of a domain runs on top of the current thread.
Interrupt(d) ==
    /\ handler = NULL /\ handler' = d
    /\ UNCHANGED <<first, last, nextIn, queued, local, tstate, curthr>>
InterruptEnds ==
    /\ handler # NULL /\ handler' = NULL
    /\ UNCHANGED <<first, last, nextIn, queued, local, tstate, curthr>>

RRNext ==
    \/ RRSched_block \/ Sched_preempted \/ IdleLeaves \/ RRdestroyCurrentThread \/ InterruptEnds
    \/ \E t \in RRThreads :
        \/ (handler # NULL \/ curthr # NULL \/ tstate[t] = "INIT") /\ Sched_unblock(t)
        \/ Handoff(t) \/ terminateThread(t)
    \/ \E d \in RRDomains : Interrupt(d)

RRSpec == RRInit /\ [][RRNext]_rrVars

(***************************************************************************)
(* Property                                                                *)
(***************************************************************************)

(***************************************************************************)
(* No wake-up, handoff, preemption or death loses a thread or queues it     *)
(* twice: the threads that can run are exactly the current threads of the   *)
(* domains and those in their queues, each once, and the processor runs its *)
(* domain's current thread.                                                *)
(***************************************************************************)
RRThreadsKept ==
    /\ \A t \in RRThreads :
        LET l == local[RRHome[t]]
            places == Cardinality({i \in DOMAIN l.queue : l.queue[i] = t}) + (IF l.current = t THEN 1 ELSE 0)
        IN places = IF tstate[t] = "RUNNABLE" THEN 1 ELSE 0
    /\ \A d \in RRDomains : \A t \in ToSet(local[d].queue) : RRHome[t] = d
    /\ curthr # NULL => local[RRHome[curthr]].current = curthr /\ tstate[curthr] = "RUNNABLE"

\* The check of the idle thread, "IDLE but domain is runnable", which can fail:
\* when the queue is empty no domain but DomainZero has a thread to run
\* (sched_global_rr.c 571-576).
IdleOnlyIfNobodyRuns ==
    curthr = NULL /\ handler = NULL /\ first = NULL =>
        \A d \in RRDomains \ {domainZero} : ~isRunnable(local, d)
=============================================================================
