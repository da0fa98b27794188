----------------------------- MODULE JavaSched -----------------------------
(***************************************************************************)
(* Two-level scheduling with schedulers written in Java (JAVASCHEDULER):    *)
(* core/javascheduler.c, the scheduler support portals and core/execJAVA.c. *)
(* A low-level scheduler chooses a domain, the domain's high-level          *)
(* scheduler a thread; domain zero is scheduled by the DomZero_ functions.  *)
(* The Java code is external: a high-level scheduler keeps a queue of the   *)
(* threads it is told of; when it finds it empty it clears its flag and     *)
(* gives the processor back, three steps with interrupts enabled.  The      *)
(* low-level scheduler picks any domain that may be runnable.  One          *)
(* processor, VISIBLE_PORTALS, without PORTAL_HANDOFF and CONT_PORTAL.      *)
(* At this commit the option does not build (javascheduler.c 551, 605 and   *)
(* 609 pass three arguments to createThread, thread.c 97 takes five; thread.c *)
(* 268 passes two to Sched_created, javascheduler.c 159 takes one).  The    *)
(* model takes the surplus arguments as dropped, and the schedulers' own    *)
(* threads as there.                                                        *)
(***************************************************************************)
EXTENDS Integers, Sequences, FiniteSets, SequencesExt

CONSTANTS
    Threads,        \* threads of user code
    Home,           \* their domains; "zero" is domain zero
    JavaDomains,    \* domains that bring a scheduler
    Servers,        \* threads that execute portal calls
    MaxCreated      \* bound: threads created in a behaviour

VARIABLES
    cur,            \* curthr(): a thread, <<"act", d>>, <<"lls">> or <<"idle">>
    st,             \* state of the threads
    sdom,           \* schedulingDomain
    sch,            \* the run queue of domain zero and the HLSchedDescs
    caller,         \* whom a server works for
    implements      \* Java schedulers with a method switchedTo

javaVars == <<cur, st, sdom, sch, caller, implements>>

Doms == JavaDomains \cup {"zero"}
LLS == <<"lls">>
Idle == <<"idle">>
Act(d) == <<"act", d>>
Thr(t) == <<"thread", t>>
NoThread == "none"
HLSScheduling == "HLSScheduling"    \* a SchedActivateThread in its own queue

ASSUME JavaAssumption ==
    /\ Home \in [Threads -> Doms] /\ "zero" \notin JavaDomains /\ NoThread \notin Threads
    /\ HLSScheduling \notin Threads /\ Servers \subseteq Threads /\ MaxCreated \in Nat
    /\ \E t \in Threads : Home[t] = "zero" /\ t \notin Servers

\* act: state of SchedActivateThread; at: where its Java code is.
DomZero_HLSched_register == [here |-> TRUE, resume |-> FALSE, maybe |-> TRUE, act |-> "AVAILABLE", at |-> "look", queue |-> << >>]
createHLSchedDesc == DomZero_HLSched_register
NoSched == [DomZero_HLSched_register EXCEPT !.here = FALSE]

JavaInit ==
    LET first == CHOOSE t \in Threads : Home[t] = "zero" /\ t \notin Servers
    IN /\ cur = Thr(first)
       /\ st = [t \in Threads |-> IF t = first THEN "RUNNABLE" ELSE "NONE"]
       /\ sdom = [t \in Threads |-> "zero"]
       /\ sch = [lls |-> FALSE, panic |-> "no", early |-> FALSE, runq |-> << >>,
                 hls |-> [d \in Doms |-> IF d = "zero" THEN DomZero_HLSched_register ELSE NoSched]]
       /\ caller = [t \in Servers |-> NoThread]
       /\ implements \in SUBSET JavaDomains

(***************************************************************************)
(* Telling the scheduler of a thread                                       *)
(***************************************************************************)

Panic(s, why) == [s EXCEPT !.panic = why]
Running == sch.panic = "no"

MaybeRunnable(s, d) == [s EXCEPT !.hls[d].maybe = TRUE]

DomZero_addThread_Overwrites(s, t, state) == [s EXCEPT !.runq = <<t>>]
DomZero_addThread(s, t, state) ==
    IF t \in ToSet(s.runq) THEN Panic(s, "NIR")
    ELSE IF state # "RUNNABLE" THEN Panic(s, "append of non-runnable thread")
    ELSE [s EXCEPT !.runq = Append(@, t)]

\* call_JAVA_method1 of preempted, interrupted, yielded, unblocked, created:
\* the worker thread runs the method with interrupts disabled.
call_JAVA_method1(s, d, t) == [s EXCEPT !.hls[d].queue = Append(@, t)]

Ready(s, t, d, state) ==
    IF ~s.hls[d].here THEN Panic(s, "no scheduler")
    ELSE IF d = "zero" THEN DomZero_addThread(s, t, state)
    ELSE call_JAVA_method1(s, d, t)

Sched_yielded(s, t, d) == Ready(s, t, d, "RUNNABLE")
Marked(s, d) == IF s.hls[d].here THEN MaybeRunnable(s, d) ELSE s
Sched_unblocked(s, t, d) == Ready(Marked(s, d), t, d, "RUNNABLE")
Sched_created(s, t, d, state) == Ready(Marked(s, d), t, d, state)

\* Sched_switch_to_nextThread, destroy_activate_nextDomain: the low-level
\* scheduler runs next; without one, domain zero's queue is used directly.
SwitchAway(s) ==
    IF s.lls THEN cur' = LLS /\ sch' = s
    ELSE IF s.runq # << >> THEN cur' = Thr(Head(s.runq)) /\ sch' = [s EXCEPT !.runq = Tail(@)]
    ELSE cur' = Idle /\ sch' = Panic(s, "no low-level scheduler")

(***************************************************************************)
(* Registration                                                            *)
(***************************************************************************)

LLSched_register ==
    /\ Running /\ ~sch.lls /\ \E t \in Threads : cur = Thr(t) /\ Home[t] = "zero"
    /\ sch' = [sch EXCEPT !.lls = TRUE]
    /\ UNCHANGED <<cur, st, sdom, caller, implements>>

\* A domain's first thread brings the scheduler and is scheduled by it from
\* then on.
HLSched_register(t) ==
    /\ Running /\ sch.lls /\ cur = Thr(t) /\ Home[t] # "zero" /\ ~sch.hls[Home[t]].here
    /\ sch' = [sch EXCEPT !.hls[Home[t]] = createHLSchedDesc]
    /\ sdom' = [sdom EXCEPT ![t] = Home[t]]
    /\ UNCHANGED <<cur, st, caller, implements>>

\* A thread inherits the scheduling domain of its creator, whose scheduler
\* is told of it whatever its state is: service threads are RUNNABLE, those
\* of createCPUState INIT (a collector or a handler, AVAILABLE, is told of in
\* the same way).  A domain's first thread installs the scheduler before it
\* runs the domain's code, so that no other is created before.
MayCreate == Cardinality({t \in Threads : st[t] # "NONE"}) < MaxCreated
createThread(t, new, state) ==
    /\ Running /\ sch.lls /\ MayCreate /\ cur = Thr(t) /\ st[new] = "NONE"
    /\ Home[new] = Home[t] /\ sch.hls[Home[t]].here
    /\ state = "INIT" => new \notin Servers
    /\ sdom' = [sdom EXCEPT ![new] = sdom[t]]
    /\ st' = [st EXCEPT ![new] = state]
    /\ sch' = Sched_created([sch EXCEPT !.early = @ \/ state # "RUNNABLE"], new, sdom[t], state)
    /\ UNCHANGED <<cur, caller, implements>>
cpuManager_start(t, new) ==
    /\ Running /\ cur = Thr(t) /\ st[new] = "INIT"
    /\ st' = [st EXCEPT ![new] = "RUNNABLE"]
    /\ sch' = Sched_created(sch, new, sdom[new], "RUNNABLE")
    /\ UNCHANGED <<cur, sdom, caller, implements>>

\* A domain is created in domain zero, by one of its threads or by its server
\* for a caller; the first thread is announced to the creator's scheduler and
\* then given to the one of the caller's domain.
domainManager_createDomain(t, new) ==
    LET forWhom == IF t \in Servers THEN caller[t] ELSE t
    IN /\ Running /\ sch.lls /\ MayCreate /\ cur = Thr(t) /\ Home[t] = "zero" /\ forWhom # NoThread
       /\ Home[new] # "zero" /\ new \notin Servers /\ \A x \in Threads : Home[x] = Home[new] => st[x] = "NONE"
       /\ st' = [st EXCEPT ![new] = "RUNNABLE"]
       /\ sch' = Sched_created(sch, new, sdom[t], "RUNNABLE")
       /\ sdom' = [sdom EXCEPT ![new] = IF sch.hls[Home[forWhom]].here THEN Home[forWhom] ELSE sdom[t]]
       /\ UNCHANGED <<cur, caller, implements>>

(***************************************************************************)
(* The low-level scheduler and the schedulers of the domains               *)
(***************************************************************************)

\* DomZero_activated; a thread that is not runnable is a panic, see
\* JavaSchedSound.
DomZero_activated ==
    /\ Running /\ cur = LLS /\ sch.hls["zero"].maybe
    /\ IF sch.runq = << >>
       THEN sch' = [sch EXCEPT !.hls["zero"].maybe = FALSE] /\ UNCHANGED cur
       ELSE cur' = Thr(Head(sch.runq)) /\ sch' = [sch EXCEPT !.runq = Tail(@)]
    /\ UNCHANGED <<st, sdom, caller, implements>>

destroy_call_JAVA_function(s, d, where) ==
    IF s.hls[d].act # "AVAILABLE" THEN Panic(s, "worker")
    ELSE [s EXCEPT !.hls[d].act = "RUNNABLE", !.hls[d].at = where]

LLschedulerSupport_isRunnable(d) == sch.hls[d].here /\ sch.hls[d].maybe
LLschedulerSupport_activateDomain(d) ==
    /\ Running /\ cur = LLS /\ LLschedulerSupport_isRunnable(d)
    /\ cur' = Act(d)
    /\ sch' = IF sch.hls[d].resume THEN [sch EXCEPT !.hls[d].resume = FALSE]
              ELSE destroy_call_JAVA_function(sch, d, "look")
    /\ UNCHANGED <<st, sdom, caller, implements>>
LLschedulerSupport_activateIdleThread ==
    /\ Running /\ cur = LLS /\ \A d \in Doms : ~LLschedulerSupport_isRunnable(d)
    /\ cur' = Idle
    /\ UNCHANGED <<st, sdom, sch, caller, implements>>

\* The Java code of a high-level scheduler, with interrupts enabled: it
\* takes the next thread, or clears its flag and gives the processor back.
Looks(d) ==
    /\ Running /\ cur = Act(d) /\ sch.hls[d].at = "look"
    /\ sch' = [sch EXCEPT !.hls[d].at = IF sch.hls[d].queue = << >> THEN "clear" ELSE "pick"]
    /\ UNCHANGED <<cur, st, sdom, caller, implements>>
HLschedulerSupport_clearMyRunnableFlag(d) ==
    /\ Running /\ cur = Act(d) /\ sch.hls[d].at = "clear"
    /\ sch' = [sch EXCEPT !.hls[d].maybe = FALSE, !.hls[d].at = "yield"]
    /\ UNCHANGED <<cur, st, sdom, caller, implements>>
HLschedulerSupport_yield(d) ==
    /\ Running /\ cur = Act(d) /\ sch.hls[d].at = "yield"
    /\ cur' = LLS
    /\ sch' = [sch EXCEPT !.hls[d].act = "AVAILABLE"]
    /\ UNCHANGED <<st, sdom, caller, implements>>
\* The first of the queue, or the thread switchedTo was called for.
HLschedulerSupport_activateThread(d) ==
    LET h == sch.hls[d]
        t == Head(h.queue)
    IN /\ Running /\ cur = Act(d) /\ h.at \in {"pick", "switched"}
       /\ IF st[t] \notin {"RUNNABLE", "PORTAL_WAIT_FOR_SND"} THEN sch' = Panic(sch, "state") /\ UNCHANGED cur
          ELSE cur' = Thr(t) /\ sch' = [sch EXCEPT !.hls[d].queue = Tail(@), !.hls[d].act = "AVAILABLE"]
       /\ UNCHANGED <<st, sdom, caller, implements>>

(***************************************************************************)
(* Interrupts                                                              *)
(***************************************************************************)

\* The timer: the current thread is handed to its scheduler, the next domain
\* runs.  A scheduler that is itself preempted is resumed later, unless its
\* Scheduler_preempted says that it has dealt with it: then it is told of its
\* own thread as of any other.
LLschedulerSupport_preemptCurrentThread(handled) ==
    /\ Running /\ sch.lls /\ cur # LLS
    /\ cur' = LLS
    /\ sch' = CASE cur = Idle -> sch
                [] cur[1] = "act" /\ ~handled ->
                     IF sch.hls[cur[2]].resume THEN Panic(sch, "resume should be false")
                     ELSE [sch EXCEPT !.hls[cur[2]].resume = TRUE]
                [] cur[1] = "act" /\ handled -> call_JAVA_method1(sch, cur[2], HLSScheduling)
                [] cur[1] = "thread" -> Ready(sch, cur[2], sdom[cur[2]], st[cur[2]])
    /\ UNCHANGED <<st, sdom, caller, implements>>

\* An interrupt handler wakes a thread.
threadunblock(t) ==
    /\ Running /\ cur # LLS /\ st[t] = "BLOCKEDUSER"
    /\ st' = [st EXCEPT ![t] = "RUNNABLE"]
    /\ sch' = Sched_unblocked(sch, t, sdom[t])
    /\ UNCHANGED <<cur, sdom, caller, implements>>

(***************************************************************************)
(* Threads                                                                 *)
(***************************************************************************)

threadyield(t) ==
    /\ Running /\ cur = Thr(t)
    /\ SwitchAway(Sched_yielded(sch, t, sdom[t]))
    /\ UNCHANGED <<st, sdom, caller, implements>>
idle ==
    /\ Running /\ cur = Idle
    /\ SwitchAway(sch)
    /\ UNCHANGED <<st, sdom, caller, implements>>
Sched_block(t) ==
    /\ Running /\ cur = Thr(t) /\ sch.lls /\ t \notin Servers
    /\ st' = [st EXCEPT ![t] = "BLOCKEDUSER"]
    /\ SwitchAway(sch)
    /\ UNCHANGED <<sdom, caller, implements>>
destroyCurrentThread(t) ==
    /\ Running /\ cur = Thr(t) /\ sch.lls /\ t \notin Servers /\ \A v \in Servers : caller[v] # t
    /\ st' = [st EXCEPT ![t] = "ZOMBIE"]
    /\ SwitchAway(sch)
    /\ UNCHANGED <<sdom, caller, implements>>

\* Portal calls.  The sender's scheduler is asked whether it hands over.
Sched_portalCalled(s, d) == MaybeRunnable(s, d)
Sched_destroy_switchTo(s, r, d) ==
    LET m == MaybeRunnable(s, d)
    IN IF d \notin implements THEN cur' = Thr(r) /\ sch' = m
       ELSE IF s.hls[d].resume THEN cur' = Idle /\ sch' = Panic(s, "resume")
       ELSE /\ cur' = Act(d)
            /\ sch' = destroy_call_JAVA_function([m EXCEPT !.hls[d].queue = <<r>> \o @], d, "switched")

Sched_portal_handoff_to_receiver(s, r) ==
    /\ Running /\ cur = Thr(s) /\ sch.lls /\ s \notin Servers
    /\ Home[r] # Home[s] /\ st[r] = "PORTAL_WAIT_FOR_SND" /\ caller[r] = NoThread
    /\ st' = [st EXCEPT ![s] = "PORTAL_WAIT_FOR_RCV2", ![r] = "RUNNABLE"]
    /\ caller' = [caller EXCEPT ![r] = s]
    /\ \/ /\ ~sch.hls[sdom[s]].resume
          /\ Sched_destroy_switchTo(Sched_portalCalled(sch, sdom[s]), r, sdom[r])
       \/ /\ sch.hls[sdom[s]].resume \/ sdom[s] # "zero"
          /\ SwitchAway(Sched_unblocked(sch, r, sdom[r]))
    /\ UNCHANGED <<sdom, implements>>

\* The sender waits for the server, which takes the call from its queue.
Sched_block_portal_sender(s, r) ==
    /\ Running /\ cur = Thr(s) /\ sch.lls /\ s \notin Servers
    /\ Home[r] # Home[s] /\ st[r] = "RUNNABLE"
    /\ st' = [st EXCEPT ![s] = "PORTAL_WAIT_FOR_RCV"]
    /\ SwitchAway(sch)
    /\ UNCHANGED <<sdom, caller, implements>>
TakesNext(r, s) ==
    /\ Running /\ cur = Thr(r) /\ r \in Servers /\ caller[r] = NoThread
    /\ st[s] = "PORTAL_WAIT_FOR_RCV" /\ Home[s] # Home[r]
    /\ st' = [st EXCEPT ![s] = "PORTAL_WAIT_FOR_RCV2"]
    /\ caller' = [caller EXCEPT ![r] = s]
    /\ UNCHANGED <<cur, sdom, sch, implements>>
Sched_portal_waitfor_sender(r) ==
    /\ Running /\ cur = Thr(r) /\ r \in Servers /\ caller[r] = NoThread
    /\ \A s \in Threads : ~(st[s] = "PORTAL_WAIT_FOR_RCV" /\ Home[s] # Home[r])
    /\ st' = [st EXCEPT ![r] = "PORTAL_WAIT_FOR_SND"]
    /\ SwitchAway(sch)
    /\ UNCHANGED <<sdom, caller, implements>>
Sched_portal_handoff_to_sender(r, isRunnable) ==
    LET s == caller[r]
        y == IF isRunnable THEN Sched_yielded(sch, r, sdom[r]) ELSE sch
    IN /\ Running /\ cur = Thr(r) /\ r \in Servers /\ s # NoThread
       /\ isRunnable = (\E x \in Threads : st[x] = "PORTAL_WAIT_FOR_RCV" /\ Home[x] # Home[r])
       /\ st' = [st EXCEPT ![s] = "RUNNABLE", ![r] = IF isRunnable THEN @ ELSE "PORTAL_WAIT_FOR_SND"]
       /\ caller' = [caller EXCEPT ![r] = NoThread]
       /\ SwitchAway(Sched_unblocked(y, s, sdom[s]))
       /\ UNCHANGED <<sdom, implements>>

JavaNext ==
    \/ LLSched_register \/ DomZero_activated \/ LLschedulerSupport_activateIdleThread \/ idle
    \/ \E b \in BOOLEAN : LLschedulerSupport_preemptCurrentThread(b)
    \/ \E d \in JavaDomains : \/ LLschedulerSupport_activateDomain(d) \/ Looks(d) \/ HLschedulerSupport_activateThread(d)
                              \/ HLschedulerSupport_clearMyRunnableFlag(d) \/ HLschedulerSupport_yield(d)
    \/ \E t \in Threads : \/ HLSched_register(t) \/ threadunblock(t) \/ threadyield(t) \/ Sched_block(t)
                          \/ destroyCurrentThread(t) \/ Sched_portal_waitfor_sender(t)
                          \/ \E b \in BOOLEAN : t \in Servers /\ Sched_portal_handoff_to_sender(t, b)
    \/ \E t, x \in Threads : \/ \E state \in {"RUNNABLE", "INIT"} : createThread(t, x, state)
                             \/ cpuManager_start(t, x) \/ domainManager_createDomain(t, x) \/ TakesNext(t, x)
                             \/ x \in Servers /\ Sched_portal_handoff_to_receiver(t, x)
                             \/ x \in Servers /\ Sched_block_portal_sender(t, x)

JavaSpec == JavaInit /\ [][JavaNext]_javaVars

(***************************************************************************)
(* Properties                                                              *)
(***************************************************************************)

\* How often thread t is running or queued, over all schedulers.
Occurrences(q, t) == Cardinality({i \in DOMAIN q : q[i] = t})
Places(t) == (IF cur = Thr(t) THEN 1 ELSE 0) + Occurrences(sch.runq, t)
             + FoldSet(LAMBDA d, n : n + Occurrences(sch.hls[d].queue, t), 0, JavaDomains)

\* As long as every thread is created RUNNABLE: while nothing has failed, a
\* thread that can run is running or in the queue of one scheduler, once, and
\* a thread that cannot is in none; and the only checks that fail are those
\* of a scheduler that is called while it waits to be resumed, or after it
\* said of its preemption that it had dealt with it (javascheduler.c 104-165,
\* 207-273, 388-391, 775-838, 905-944; execJAVA.c 163-165;
\* zero_LLSchedulerSupport.c 25-45).
JavaSchedSound ==
    ~sch.early =>
      /\ sch.panic \in {"no", "resume", "worker"}
      /\ sch.panic = "worker" => \E d \in JavaDomains : HLSScheduling \in ToSet(sch.hls[d].queue)
      /\ Running => \A t \in Threads : Places(t) = IF st[t] = "RUNNABLE" THEN 1 ELSE 0

\* Not so: the thread of createCPUState is announced before it can run
\* (thread.c 268): domain zero panics (javascheduler.c 912-914), a Java
\* scheduler may activate it (zero_HLSchedulerSupport.c 13-14).
CreatedRunnable == sch.panic \notin {"append of non-runnable thread", "state"}

\* Not so: a scheduler with something to run is marked, or looking.  A thread
\* woken between its look and clearMyRunnableFlag is queued in a domain that
\* nobody runs (zero_HLSchedulerSupport.c 66-72), and a scheduler preempted
\* behind it is never resumed.
WorkIsMarked ==
    Running => \A d \in JavaDomains :
        (sch.hls[d].queue # << >> \/ sch.hls[d].resume) => sch.hls[d].maybe \/ cur = Act(d)
=============================================================================
