-------------------------------- MODULE Runq --------------------------------
(***************************************************************************)
(* The two-level round-robin run queue of the kernel (core/runq.c and      *)
(* core/runq_inline.c): a global FIFO of runnable domains and, in every    *)
(* domain, a FIFO of runnable threads.  This module holds the state and    *)
(* the primitives; ThreadSched and Portal drive them.                      *)
(*                                                                         *)
(* The kernel is a uniprocessor kernel and every primitive runs with       *)
(* interrupts disabled (ASSERTLOCKED), so what happens between one switch  *)
(* and the next is one atomic step.                                        *)
(***************************************************************************)
EXTENDS Naturals, Sequences, Functions

CONSTANTS
    Threads,      \* thread control blocks
    Domains,      \* domain control blocks
    Dom,          \* thread->domain
    DomainZero,   \* the kernel's own domain
    IdleThread,   \* runs when nothing is runnable; never in a run queue
    IrqThreads,   \* first-level interrupt handler threads; never in a run queue
    NoThread      \* the NULL thread pointer

ASSUME RunqAssumption ==
    /\ Dom \in [Threads -> Domains]
    /\ DomainZero \in Domains
    /\ IdleThread \in Threads
    /\ Dom[IdleThread] = DomainZero
    /\ IrqThreads \subseteq Threads \ {IdleThread}
    /\ NoThread \notin Threads

VARIABLES
    curthr,       \* __current: the thread that owns the CPU
    state,        \* thread->state
    runq,         \* domain->firstThreadInRunQueue ... lastThreadInRunQueue
    domq,         \* domain_runqueue.first ... last
    panic         \* an ASSERT or a sys_panic of the kernel has fired

runqVars == <<curthr, state, runq, domq, panic>>

\* thread->state (Headers/core/thread.h); "NONE" is a TCB that is not in use.
RUNNABLE == "RUNNABLE"
ThreadStates ==
    { "NONE", "INIT", RUNNABLE, "ZOMBIE", "BLOCKEDUSER", "AVAILABLE",
      "WAIT_FOR_RCV", "WAIT_FOR_SND", "WAIT_FOR_RET" }

curdom == Dom[curthr]

-----------------------------------------------------------------------------
(* Queue primitives.  rq and dq stand for the queues in the middle of an   *)
(* operation; a list is a sequence of its elements in link order.          *)

\* Mutant: a thread is linked in at the head.
threadrunq_append_AtHead(rq, t) == [rq EXCEPT ![Dom[t]] = <<t>> \o @]

threadrunq_append(rq, t) == [rq EXCEPT ![Dom[t]] = Append(@, t)]

threadrunq_remove(rq, d) == [rq EXCEPT ![d] = Tail(@)]

\* Mutant: a domain is linked in at the head.
domainrunq_append_AtHead(dq, d) == <<d>> \o dq

domainrunq_append(dq, d) == Append(dq, d)

\* Unlink the first occurrence of d; a domain that is not queued is left alone.
domainrunq_remove_domain(dq, d) ==
    IF d \notin Range(dq) THEN dq
    ELSE LET i == CHOOSE i \in DOMAIN dq :
                     dq[i] = d /\ \A j \in DOMAIN dq : dq[j] = d => i <= j
         IN [j \in 1 .. (Len(dq) - 1) |-> IF j < i THEN dq[j] ELSE dq[j + 1]]

\* Domain queue after t was appended to rq: its domain gets runnable unless it
\* already was, or is the running domain (Sched_created, Sched_unblocked).
DomqAfterAppend(rq, dq, t) ==
    IF rq[Dom[t]] = << >> /\ curdom # Dom[t]
    THEN domainrunq_append(dq, Dom[t]) ELSE dq

\* "domain already in runqueue" does not fire in that append.
AppendAssert(rq, dq, t) ==
    rq[Dom[t]] = << >> /\ curdom # Dom[t] => Dom[t] \notin Range(dq)

\* The debug scan that precedes every choice of a thread.  check_runnable tests
\* the head of every other domain's queue with an assignment, which stores
\* RUNNABLE in it.
check_completerunnable(rq, st) ==
    [t \in Threads |->
        IF Dom[t] # curdom /\ rq[Dom[t]] # << >> /\ t = Head(rq[Dom[t]])
        THEN RUNNABLE ELSE st[t]]

\* Next thread, and the queues without it.  The running domain goes to the end
\* of the domain queue when it still has runnable threads.
runqueue_removeFirstOrNULL(rq, dq) ==
    LET d == IF dq = << >> THEN curdom ELSE Head(dq) IN
    [ next |-> IF rq[d] = << >> THEN NoThread ELSE Head(rq[d]),
      rq   |-> IF rq[d] = << >> THEN rq ELSE threadrunq_remove(rq, d),
      dq   |-> IF dq = << >> THEN dq
               ELSE IF rq[curdom] # << >>
                    THEN domainrunq_append(Tail(dq), curdom) ELSE Tail(dq) ]

runqueue_removeFirstOrIdle(rq, dq) ==
    LET R == runqueue_removeFirstOrNULL(rq, dq)
    IN [R EXCEPT !.next = IF @ = NoThread THEN IdleThread ELSE @]

\* Every ASSERT and sys_panic between the choice of a thread and the switch.
RemoveFirstAsserts(st, rq, dq) ==
    LET d == IF dq = << >> THEN curdom ELSE Head(dq)
        R == runqueue_removeFirstOrNULL(rq, dq)
    IN  \* check_runnable: runnable threads, but neither in runq nor current
        /\ \A e \in Domains \ {curdom} : rq[e] # << >> => e \in Range(dq)
        \* domainrunq_remove: "running domain should not be in runq"
        /\ dq # << >> => Head(dq) # curdom
        \* newdom must contain runnable threads
        /\ dq # << >> => rq[Head(dq)] # << >>
        \* domainrunq_append: "domain already in runqueue"
        /\ dq # << >> /\ rq[curdom] # << >> => curdom \notin Range(Tail(dq))
        \* threadrunq_remove: the thread that is removed is RUNNABLE
        /\ rq[d] # << >> => check_completerunnable(rq, st)[Head(rq[d])] = RUNNABLE
        \* check_not_in_runq(next)
        /\ \A e \in {curdom} \cup Range(R.dq) : R.next \notin Range(R.rq[e])

\* runqueue_switchdomains(curdom, to): "to" runs without going through the queue.
runqueue_switchdomains(rq, dq, to) ==
    LET dq1 == IF rq[curdom] # << >> THEN domainrunq_append(dq, curdom) ELSE dq
    IN  IF rq[to] # << >> THEN domainrunq_remove_domain(dq1, to) ELSE dq1

SwitchDomainsAssert(rq, dq) == rq[curdom] # << >> => curdom \notin Range(dq)

-----------------------------------------------------------------------------
(* Scheduler steps.                                                        *)

\* sys_panic: the kernel stops where it stands.
Panic == panic' = TRUE /\ UNCHANGED <<curthr, state, runq, domq>>

\* Sched_created(t, DEFAULT) / threadunblock(t) from the running thread, which
\* keeps the CPU: t gets RUNNABLE and is queued.
MakeRunnable(t) ==
    IF AppendAssert(runq, domq, t)
    THEN /\ state' = [state EXCEPT ![t] = RUNNABLE]
         /\ runq' = threadrunq_append(runq, t)
         /\ domq' = DomqAfterAppend(runq, domq, t)
         /\ UNCHANGED <<curthr, panic>>
    ELSE Panic

\* Sched_switch_to_nextThread and Sched_destroy_switch_to_nextThread, called
\* with thread states st and queues rq and dq.
Sched_switch_to_nextThread(st, rq, dq) ==
    IF RemoveFirstAsserts(st, rq, dq)
    THEN LET R == runqueue_removeFirstOrIdle(rq, dq) IN
         /\ curthr' = R.next
         /\ state' = check_completerunnable(rq, st)
         /\ runq' = R.rq
         /\ domq' = R.dq
         /\ UNCHANGED panic
    ELSE Panic

\* threadyield: the idle thread is never queued.
threadyield ==
    IF state[curthr] # RUNNABLE THEN Panic
    ELSE Sched_switch_to_nextThread(state,
            IF curthr = IdleThread THEN runq ELSE threadrunq_append(runq, curthr),
            domq)

\* Sched_block(s).  The assignment of RUNNABLE when the thread resumes repeats
\* the one of threadunblock.
Sched_block(s) ==
    Sched_switch_to_nextThread([state EXCEPT ![curthr] = s], runq, domq)

\* threadunblock(t), then the switch, by a running thread whose state is
\* already in st and which is queued in rq if it stays runnable
\* (Sched_portal_handoff_to_receiver and _to_sender).
UnblockAndSwitch(st, rq, t) ==
    IF AppendAssert(rq, domq, t)
    THEN Sched_switch_to_nextThread([st EXCEPT ![t] = RUNNABLE],
            threadrunq_append(rq, t), DomqAfterAppend(rq, domq, t))
    ELSE Panic

-----------------------------------------------------------------------------
(* What every state of the run queue satisfies.                            *)

Queued(rq) == { t \in Threads : t \in Range(rq[Dom[t]]) }

NoDuplicates(s) == \A i, j \in DOMAIN s : s[i] = s[j] => i = j

\* A thread is linked at most once, and only into the queue of its own domain.
ThreadQueuesOK(rq) ==
    \A d \in Domains : /\ NoDuplicates(rq[d])
                       /\ \A i \in DOMAIN rq[d] : Dom[rq[d][i]] = d

\* The domain queue holds exactly the domains with runnable threads, except the
\* running domain, each once.
DomainQueueOK(rq, dq, cd) ==
    /\ NoDuplicates(dq)
    /\ \A d \in Domains : d \in Range(dq) <=> (rq[d] # << >> /\ d # cd)
=============================================================================
