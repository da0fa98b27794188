------------------------------ MODULE Domains ------------------------------
(***************************************************************************)
(* Domains: the table of domain control blocks (core/domain.c) and the      *)
(* DomainManager portal (Interface/zero_DomainManager.c) that creates,      *)
(* collects and terminates domains through proxies.  A proxy holds the     *)
(* address of a control block and the identifier the domain had; the block  *)
(* is used again after the domain has ended.                               *)
(*                                                                         *)
(* A domain runs one client thread and one service with one receiver        *)
(* thread, which is all terminateDomain has to take apart.  NewSched is the *)
(* compile-time choice of the scheduler: without it terminateDomain stops   *)
(* the system half way.                                                    *)
(***************************************************************************)
EXTENDS Integers, Sequences, FiniteSets

CONSTANTS
    NSlots,     \* MAX_NUMBER_DOMAINS
    MaxId,      \* bound: domains are created while currentDomainID <= MaxId
    MaxEpoch,   \* bound: collections of one domain
    NewSched    \* NEW_SCHED

ASSUME DomainsAssumption ==
    /\ NSlots \in Nat /\ NSlots > 1
    /\ MaxId \in Nat /\ MaxEpoch \in Nat /\ NewSched \in BOOLEAN

VARIABLES
    dcb,         \* the control blocks: state, id, epoch of the collector
    cursor,      \* domainMemCurrent
    nextId,      \* currentDomainID
    count,       \* numberOfDomains
    starting,    \* a domain that has no initial thread yet, or NoSlot
    proxies,     \* DomainProxy objects: address and identifier
    client,      \* client[id]: what the client thread of a domain does
    svc,         \* svc[slot]: queue of senders, caller being served, abort flag
    dropped,     \* an answer was dropped though its caller lives
    meant,       \* the identifier of the domain the last request was about
    stopped      \* "no", "panic", or "wild": memory that was freed is used

domainVars == <<dcb, cursor, nextId, count, starting, proxies, client, svc, dropped, meant, stopped>>

Slots == 0..(NSlots - 1)
NoSlot == -1
NoCaller == -1
Ids == 0..MaxId
Used(s) == dcb[s].state # "FREE"

Absent == [st |-> "absent", at |-> NoSlot]
Running == [st |-> "running", at |-> NoSlot]
NoService == [open |-> FALSE, senders |-> << >>, last |-> NoCaller, serving |-> NoCaller, abort |-> FALSE]
NewService == [open |-> TRUE, senders |-> << >>, last |-> NoCaller, serving |-> NoCaller, abort |-> FALSE]

\* init_domainsys: an empty table (jxmalloc clears it), then DomainZero.
DomainsInit ==
    /\ dcb = [s \in Slots |-> [state |-> IF s = 0 THEN "ACTIVE" ELSE "FREE", id |-> 0, epoch |-> 0]]
    /\ cursor = 1 /\ nextId = 1 /\ count = 1
    /\ starting = NoSlot
    /\ proxies = {[slot |-> 0, id |-> 0]}
    /\ client = [i \in Ids |-> IF i = 0 THEN Running ELSE Absent]
    /\ svc = [s \in Slots |-> IF s = 0 THEN NewService ELSE NoService]
    /\ dropped = FALSE /\ meant = 0 /\ stopped = "no"

-----------------------------------------------------------------------------
(* Creation *)

\* d->id = currentDomainID++
FreshId(s) == nextId

\* Mutant: blocks in use are taken for free.
Examined_Any == 0..(NSlots - 2)

\* The blocks specialAllocDomainDesc examines, from the cursor on.  It gives
\* up when the cursor is back at the start, before it looks at the last one.
Examined == {i \in 0..(NSlots - 2) : ~Used((cursor + i) % NSlots)}

\* specialAllocDomainDesc and createDomain, __domainManager_createDomain.
CreateDomain ==
    /\ starting = NoSlot /\ nextId <= MaxId
    /\ count # NSlots /\ Examined # {}
    /\ LET i == CHOOSE k \in Examined : \A j \in Examined : k <= j
           s == (cursor + i) % NSlots
       IN /\ dcb' = [dcb EXCEPT ![s] = [state |-> "ACTIVE", id |-> FreshId(s), epoch |-> 0]]
          /\ svc' = [svc EXCEPT ![s] = NoService]
          /\ cursor' = (s + 1) % NSlots
          /\ starting' = s
    /\ nextId' = nextId + 1
    /\ count' = count + 1
    /\ UNCHANGED <<proxies, client, dropped, meant, stopped>>

\* domainManager_createDomain after that, and start_initial_thread: libraries
\* loaded, constructors run, the init method found.
StartDomain ==
    /\ starting # NoSlot
    /\ client' = [client EXCEPT ![dcb[starting].id] = Running]
    /\ svc' = [svc EXCEPT ![starting] = NewService]
    /\ proxies' = proxies \cup {[slot |-> starting, id |-> dcb[starting].id]}
    /\ starting' = NoSlot
    /\ UNCHANGED <<dcb, cursor, nextId, count, dropped, meant, stopped>>

-----------------------------------------------------------------------------
(* Portal calls between domains *)

InSeq(x, q) == \E k \in DOMAIN q : q[k] = x

\* portal_add_sender: the end of the queue is kept in lastWaitingSender, which
\* portal_remove_sender does not move: a sender appended behind a removed one is
\* in no queue.
AppendSender(v, i) ==
    IF v.last = NoCaller THEN [v EXCEPT !.senders = <<i>>, !.last = i]
    ELSE IF v.senders # << >> /\ v.senders[Len(v.senders)] = v.last
    THEN [v EXCEPT !.senders = Append(@, i), !.last = i]
    ELSE [v EXCEPT !.last = i]

\* portal_dequeue_sender and the start of the call; lastWaitingSender is cleared
\* with the last sender.
Served(v) == IF v.senders = << >> THEN NoCaller ELSE Head(v.senders)
Dequeue(v) ==
    IF v.senders = << >> THEN [v EXCEPT !.serving = NoCaller]
    ELSE [v EXCEPT !.serving = Head(v.senders), !.senders = Tail(v.senders),
                   !.last = IF Len(v.senders) = 1 THEN NoCaller ELSE @]

\* direct_send_portal: the sender is queued, and handed to a receiver that waits.
\* A reference to a domain that has ended, its block used again or not, gives the
\* caller an exception at once and changes nothing.
CallService(i, p) ==
    /\ client[i] = Running
    /\ dcb[p.slot].id = p.id /\ Used(p.slot) /\ svc[p.slot].open /\ p.id # i
    /\ LET s == p.slot
           v == AppendSender(svc[s], i)
           idle == svc[s].serving = NoCaller
       IN /\ svc' = [svc EXCEPT ![s] = IF idle THEN Dequeue(v) ELSE v]
          /\ client' = [client EXCEPT ![i] =
                [st |-> IF idle /\ Served(v) = i THEN "WAIT_FOR_RET" ELSE "WAIT_FOR_RCV", at |-> s]]
    /\ UNCHANGED <<dcb, cursor, nextId, count, starting, proxies, dropped, meant, stopped>>

\* callerDomainID != callerDomain->id || callerDomain->state != DOMAIN_STATE_ACTIVE
CallerGone(i) == \A s \in Slots : dcb[s].id # i \/ dcb[s].state # "ACTIVE"

\* receive_portalcall after the method: the answer, and the next sender.  The
\* answer to a caller that is gone is dropped before the abort flag is looked
\* at; the flag drops an answer, and only then it is cleared.
Answer(s) ==
    /\ Used(s) /\ svc[s].serving # NoCaller
    /\ LET c == svc[s].serving
           looks == ~CallerGone(c)
       IN /\ svc' = [svc EXCEPT ![s] = [Dequeue(svc[s]) EXCEPT !.abort = @ /\ ~looks]]
          /\ client' = [i \in Ids |->
                IF i = c /\ looks /\ ~svc[s].abort THEN Running
                ELSE IF i = Served(svc[s]) THEN [client[i] EXCEPT !.st = "WAIT_FOR_RET"]
                ELSE client[i]]
          /\ dropped' = (dropped \/ (looks /\ svc[s].abort))
    /\ UNCHANGED <<dcb, cursor, nextId, count, starting, proxies, meant, stopped>>

\* A client that terminateDomain has unblocked runs and leaves the call, with an
\* exception.
LeavesCall(i) ==
    /\ client[i].st = "UNBLOCKED"
    /\ client' = [client EXCEPT ![i] = Running]
    /\ UNCHANGED <<dcb, cursor, nextId, count, starting, proxies, svc, dropped, meant, stopped>>

-----------------------------------------------------------------------------
(* Requests about a domain *)

\* Mutant: the control block is taken for the domain.
IsDomain_Address(p) == TRUE

\* domainObj->domain->id == domainObj->domainID
IsDomain(p) == dcb[p.slot].id = p.id

\* portal_remove_sender, portal_abort_current_call: the call the client of a
\* dying domain is in.
WithoutSender(q, i) ==
    LET k == CHOOSE k \in DOMAIN q : q[k] = i
    IN IF ~InSeq(i, q) THEN q
       ELSE [j \in 1..(Len(q) - 1) |-> IF j < k THEN q[j] ELSE q[j + 1]]
CallEnded(i) ==
    LET s == client[i].at
    IN IF client[i].st = "WAIT_FOR_RCV"
       THEN [svc EXCEPT ![s].senders = WithoutSender(@, i)]
       ELSE IF client[i].st = "WAIT_FOR_RET" THEN [svc EXCEPT ![s].abort = TRUE]
       ELSE svc

\* Why terminateDomain stops half way: the call of the client is of a domain
\* that is gone, with its service; the caller being served is of one; the client
\* is in no queue, or was unblocked and has not run yet.
TerminationFails(s) ==
    LET c == client[dcb[s].id]
        served == svc[s].serving
    IN  IF s = 0 THEN "panic"
        ELSE IF ~Used(s) THEN "wild"
        ELSE IF c.at # NoSlot /\ (~Used(c.at) \/ ~svc[c.at].open) THEN "wild"
        ELSE IF c.st = "UNBLOCKED" THEN "panic"
        ELSE IF c.st = "WAIT_FOR_RCV" /\ ~InSeq(dcb[s].id, svc[c.at].senders) THEN "panic"
        ELSE IF served # NoCaller /\ client[served].at # s THEN "wild"
        ELSE "no"

\* terminateDomain.  The loop over the services meets the reserved entry 0,
\* marks it and stops: the services stay.  The caller being served is unblocked
\* with an exception, whatever the abort flag says.  Without NEW_SCHED the system
\* stops here; with it threads, code and heap are freed.
TerminateDomain(s) ==
    LET i == dcb[s].id
        served == svc[s].serving
        why == TerminationFails(s)
    IN  IF why # "no" THEN stopped' = why /\ UNCHANGED <<dcb, count, client, svc>>
        ELSE IF ~NewSched THEN /\ stopped' = "panic"
                               /\ dcb' = [dcb EXCEPT ![s].state = "TERMINATING"]
                               /\ svc' = CallEnded(i)
                               /\ UNCHANGED <<count, client>>
        ELSE /\ dcb' = [dcb EXCEPT ![s].state = "FREE"]
             /\ count' = count - 1
             /\ svc' = [CallEnded(i) EXCEPT ![s].serving = NoCaller]
             /\ client' = [j \in Ids |-> IF j = i THEN Absent
                                         ELSE IF j = served THEN [st |-> "UNBLOCKED", at |-> s]
                                         ELSE client[j]]
             /\ UNCHANGED stopped

\* domainManager_terminate
Terminate(p) ==
    /\ p \in proxies
    /\ meant' = p.id
    /\ starting = NoSlot
    /\ IF IsDomain(p) THEN TerminateDomain(p.slot) ELSE UNCHANGED <<dcb, count, client, svc, stopped>>
    /\ UNCHANGED <<cursor, nextId, starting, proxies, dropped>>

\* domainManager_terminateCaller: the caller DomainZero serves asks for its own
\* domain to be terminated.
TerminateCaller(s) ==
    /\ starting = NoSlot /\ svc[0].serving = dcb[s].id /\ Used(s)
    /\ meant' = dcb[s].id
    /\ TerminateDomain(s)
    /\ UNCHANGED <<cursor, nextId, starting, proxies, dropped>>

\* domainManager_gc: the collector of the domain runs and starts a new epoch.
CollectDomain(p) ==
    /\ p \in proxies /\ dcb[p.slot].epoch < MaxEpoch
    /\ meant' = p.id
    /\ IF ~IsDomain(p) THEN UNCHANGED <<dcb, stopped>>
       ELSE IF ~Used(p.slot) THEN stopped' = "wild" /\ UNCHANGED dcb
       ELSE dcb' = [dcb EXCEPT ![p.slot].epoch = @ + 1] /\ UNCHANGED stopped
    /\ UNCHANGED <<cursor, nextId, count, starting, proxies, client, svc, dropped>>

DomainsNext ==
    /\ stopped = "no"
    /\ \/ CreateDomain
       \/ StartDomain
       \/ \E i \in Ids, p \in proxies : CallService(i, p)
       \/ \E s \in Slots : Answer(s) \/ TerminateCaller(s)
       \/ \E i \in Ids : LeavesCall(i)
       \/ \E p \in proxies : Terminate(p) \/ CollectDomain(p)

DomainsSpec == DomainsInit /\ [][DomainsNext]_domainVars

-----------------------------------------------------------------------------
(* Lookups over the table *)

\* findDomain: the first used block with the identifier.
findDomain(i) ==
    LET found == {s \in Slots : Used(s) /\ dcb[s].id = i}
    IN IF found = {} THEN NoSlot ELSE CHOOSE s \in found : \A r \in found : s <= r

\* The table says what there is: numberOfDomains counts the used blocks, the
\* cursor is a block, and findDomain finds for every identifier that a started
\* domain got the one block where that domain lives, or nothing once it ended,
\* through all the reuse of blocks (domain.c 63-97, 470-490, 719-720).
DomainTableRight ==
    /\ count = Cardinality({s \in Slots : Used(s)})
    /\ cursor \in Slots
    /\ \A p \in proxies : findDomain(p.id) \in {NoSlot, p.slot}
    /\ \A s \in Slots : Used(s) => findDomain(dcb[s].id) = s

\* No client goes on waiting for the answer of a domain that is gone, or of a
\* service that works for somebody else or for nobody: terminateDomain unblocks
\* the caller its service is working for, and a caller that has died is answered
\* to nobody (domain.c 663-685, portal.c 788-805).
AnswersCome ==
    stopped = "no" =>
        \A i \in Ids : client[i].st = "WAIT_FOR_RET" =>
            Used(client[i].at) /\ svc[client[i].at].serving = i

\* What an identifier stands for never changes under its holder: the table says
\* where each domain lives though control blocks are reused.  And no client waits
\* for the answer of a domain that had begun to serve it and is gone, until the
\* abort flag of a call that had ended drops the answer to another (dropped);
\* terminations that stop the system half way (TerminationFails) are left out.
DomainsSound == DomainTableRight /\ (dropped \/ AnswersCome)

\* What portal.c:803 says of a dropped answer, "aborted: either caller
\* disappeared or aborted call -> ignore all return values": no client waits for
\* an answer that was dropped.  Not so: the answer to a caller that is gone is
\* dropped at 792, before the flag is cleared at 804, and the flag then drops the
\* answer to the next caller.
DroppedOnlyIfAborted == AnswersCome

\* A request through an old proxy never reaches the domain that has moved into
\* the control block: a step terminates or collects only the domain the proxy
\* was made for (zero_DomainManager.c:462 and :490).
StaleProxyHarmless ==
    [][\A s \in Slots : Used(s) /\ dcb'[s] # dcb[s] => meant' = dcb[s].id]_domainVars

\* Not so, what terminateDomain announces ("terminate all pending portal calls")
\* and the code does not do for senders that are still queued: no client waits
\* for a domain that has been terminated.
NoCallerLeft ==
    stopped = "no" =>
        \A i \in Ids : client[i].st \in {"WAIT_FOR_RCV", "WAIT_FOR_RET"} =>
            Used(client[i].at) /\ (svc[client[i].at].serving = i \/ InSeq(i, svc[client[i].at].senders))
=============================================================================
