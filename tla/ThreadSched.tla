----------------------------- MODULE ThreadSched -----------------------------
(***************************************************************************)
(* Threads on the run queue: what a running thread can ask of the kernel   *)
(* through the CPUManager, Scheduler and IRQ portals (zero_CPUManager.c,   *)
(* zero_Scheduler.c, zero_IRQ.c, core/thread.c), first-level interrupts,   *)
(* the timer tick and the idle thread (core/runq.c).                       *)
(*                                                                         *)
(* An interrupt handler is assumed not to block, yield, exit or enable     *)
(* interrupts; it may unblock, create and start threads.                   *)
(***************************************************************************)
EXTENDS Runq

CONSTANTS
    InitialThread,   \* the thread that runs start_domain_zero
    Timeslicing      \* built with -DTIMESLICING_TIMER_IRQ

\* Threads that run Java code of their own and can be referred to by it.
UserThreads == Threads \ (IrqThreads \cup {IdleThread})

ASSUME ThreadSchedAssumption ==
    /\ InitialThread \in UserThreads
    /\ Dom[InitialThread] = DomainZero
    /\ Timeslicing \in BOOLEAN

VARIABLES
    icurrent,       \* the interrupted thread, while a handler runs
    idlepc,         \* where the idle loop stands: at hlt, before cli, in the spin
    unblockFlag,    \* thread->unblockedWithoutBeingBlocked
    polling,        \* the wait loop of join / waitUntilBlocked a thread is in
    disable_threadswitching

vars == <<curthr, state, runq, domq, panic,
          icurrent, idlepc, unblockFlag, polling, disable_threadswitching>>

NotPolling == << >>
Polls == {"ZOMBIE", "BLOCKEDUSER"} \X Threads

\* The variables hold values of their types.
TypeOK ==
    /\ curthr \in Threads
    /\ state \in [Threads -> ThreadStates]
    /\ runq \in [Domains -> Seq(Threads)]
    /\ domq \in Seq(Domains)
    /\ panic \in BOOLEAN
    /\ icurrent \in Threads \cup {NoThread}
    /\ idlepc \in {"hlt", "cli", "spin"}
    /\ unblockFlag \in [Threads -> BOOLEAN]
    /\ polling \in [Threads -> Polls \cup {NotPolling}]
    /\ disable_threadswitching \in BOOLEAN

\* Boot: the idle thread exists, and the boot thread has exited in favour of
\* the first thread of domain zero.
Init ==
    /\ curthr = InitialThread
    /\ state = [t \in Threads |->
                   IF t \in {IdleThread, InitialThread} THEN RUNNABLE ELSE "NONE"]
    /\ runq = [d \in Domains |-> << >>]
    /\ domq = << >>
    /\ panic = FALSE
    /\ icurrent = NoThread
    /\ idlepc = "hlt"
    /\ unblockFlag = [t \in Threads |-> FALSE]
    /\ polling = [t \in Threads |-> NotPolling]
    /\ disable_threadswitching = FALSE

-----------------------------------------------------------------------------
(* Who may act.                                                            *)

\* The running thread executes its own (Java) code.
InCode == ~panic /\ curthr # IdleThread /\ polling[curthr] = NotPolling

\* ... and is not an interrupt handler, so it may give up the CPU.
MayLeave == InCode /\ icurrent = NoThread

\* The interrupt flag of the running thread is set.  The wait loops and the end
\* of the idle loop run with interrupts disabled.
IrqsEnabled ==
    /\ ~panic
    /\ icurrent = NoThread
    /\ IF curthr = IdleThread THEN idlepc # "spin" ELSE polling[curthr] = NotPolling

\* Mutant: the interrupt returns to the hlt.
WokenIdle_BackToHlt == idlepc

\* An interrupt ends hlt: idle resumes at the instruction after it.
WokenIdle == IF curthr = IdleThread THEN "cli" ELSE idlepc

-----------------------------------------------------------------------------
(* Thread life cycle.                                                      *)

\* createThreadInMem with STATE_INIT and NORUNQ, in the caller's domain.
createCPUState(t) ==
    /\ InCode
    /\ t \notin IrqThreads /\ state[t] = "NONE" /\ Dom[t] = curdom
    /\ state' = [state EXCEPT ![t] = "INIT"]
    /\ UNCHANGED <<curthr, runq, domq, panic,
                   icurrent, idlepc, unblockFlag, polling, disable_threadswitching>>

\* createThread with STATE_RUNNABLE and DEFAULT: initial threads of domains and
\* service threads, in any domain.
createThread(t) ==
    /\ InCode
    /\ t \notin IrqThreads /\ state[t] = "NONE"
    /\ MakeRunnable(t)
    /\ UNCHANGED <<icurrent, idlepc, unblockFlag, polling, disable_threadswitching>>

\* cpuManager_start; a thread that is not in STATE_INIT is refused.
start(t) ==
    /\ InCode
    /\ state[t] = "INIT"
    /\ MakeRunnable(t)
    /\ UNCHANGED <<icurrent, idlepc, unblockFlag, polling, disable_threadswitching>>

\* thread_exit -> destroyCurrentThread.
thread_exit ==
    /\ MayLeave
    /\ Sched_switch_to_nextThread([state EXCEPT ![curthr] = "ZOMBIE"], runq, domq)
    /\ UNCHANGED <<icurrent, idlepc, unblockFlag, polling, disable_threadswitching>>

-----------------------------------------------------------------------------
(* Giving up and getting back the CPU.                                     *)

yield ==
    /\ MayLeave
    /\ threadyield
    /\ UNCHANGED <<icurrent, idlepc, unblockFlag, polling, disable_threadswitching>>

block ==
    /\ MayLeave
    /\ Sched_block("BLOCKEDUSER")
    /\ UNCHANGED <<icurrent, idlepc, unblockFlag, polling, disable_threadswitching>>

\* Returns at once, and changes nothing, if the flag is set.
blockIfNotUnblocked ==
    /\ MayLeave
    /\ ~unblockFlag[curthr]
    /\ Sched_block("BLOCKEDUSER")
    /\ UNCHANGED <<icurrent, idlepc, unblockFlag, polling, disable_threadswitching>>

clearUnblockFlag ==
    /\ InCode
    /\ unblockFlag' = [unblockFlag EXCEPT ![curthr] = FALSE]
    /\ UNCHANGED <<curthr, state, runq, domq, panic,
                   icurrent, idlepc, polling, disable_threadswitching>>

\* Mutant: the state of t is not looked at.
unblock_AnyState(t) ==
    /\ InCode
    /\ t \in UserThreads /\ state[t] # "NONE"
    /\ MakeRunnable(t)
    /\ UNCHANGED <<icurrent, idlepc, unblockFlag, polling, disable_threadswitching>>

\* cpuManager_unblock: wake t, or remember that it was unblocked too early.
unblock(t) ==
    /\ InCode
    /\ t \in UserThreads /\ state[t] # "NONE"
    /\ \/ /\ state[t] = "BLOCKEDUSER"
          /\ MakeRunnable(t)
          /\ UNCHANGED unblockFlag
       \/ /\ state[t] # "BLOCKEDUSER"
          /\ unblockFlag' = [unblockFlag EXCEPT ![t] = TRUE]
          /\ UNCHANGED runqVars
    /\ UNCHANGED <<icurrent, idlepc, polling, disable_threadswitching>>

\* Mutant: the loop looks at its own thread.
PollRound_OwnState(s, t) ==
    /\ state[curthr] # s
    /\ polling' = [polling EXCEPT ![curthr] = <<s, t>>]
    /\ threadyield
    /\ UNCHANGED <<icurrent, idlepc, unblockFlag, disable_threadswitching>>

\* One round of the loop "while (cpuState->state != s) threadyield()" of
\* cpuManager_join and cpuManager_waitUntilBlocked.
PollRound(s, t) ==
    /\ \/ /\ state[t] = s
          /\ polling' = [polling EXCEPT ![curthr] = NotPolling]
          /\ UNCHANGED runqVars
       \/ /\ state[t] # s
          /\ polling' = [polling EXCEPT ![curthr] = <<s, t>>]
          /\ threadyield
    /\ UNCHANGED <<icurrent, idlepc, unblockFlag, disable_threadswitching>>

join(t) ==
    /\ MayLeave
    /\ t \in UserThreads /\ state[t] # "NONE"
    /\ PollRound("ZOMBIE", t)

waitUntilBlocked(t) ==
    /\ MayLeave
    /\ t \in UserThreads /\ state[t] # "NONE"
    /\ PollRound("BLOCKEDUSER", t)

\* threadyield returned in one of the two loops.
PollAgain ==
    /\ ~panic /\ curthr # IdleThread
    /\ polling[curthr] # NotPolling
    /\ PollRound(polling[curthr][1], polling[curthr][2])

-----------------------------------------------------------------------------
(* Interrupts and the timer tick.                                          *)

\* Mutant: the handler thread is left in STATE_INIT.
installFirstLevelHandler_Init(i) ==
    /\ InCode
    /\ i \in IrqThreads /\ state[i] = "NONE" /\ Dom[i] = curdom
    /\ state' = [state EXCEPT ![i] = "INIT"]
    /\ UNCHANGED <<curthr, runq, domq, panic,
                   icurrent, idlepc, unblockFlag, polling, disable_threadswitching>>

\* irq_installFirstLevelHandler: one handler thread for each interrupt.
installFirstLevelHandler(i) ==
    /\ InCode
    /\ i \in IrqThreads /\ state[i] = "NONE" /\ Dom[i] = curdom
    /\ state' = [state EXCEPT ![i] = "AVAILABLE"]
    /\ UNCHANGED <<curthr, runq, domq, panic,
                   icurrent, idlepc, unblockFlag, polling, disable_threadswitching>>

\* irq_first_level_handler, for an interrupt nobody handles: acknowledged.
UnhandledIrq ==
    /\ IrqsEnabled
    /\ idlepc' = WokenIdle
    /\ UNCHANGED <<curthr, state, runq, domq, panic,
                   icurrent, unblockFlag, polling, disable_threadswitching>>

\* Mutant: the interrupted thread is queued, as by a yield.
irq_first_level_handler_Yields(i) ==
    /\ IrqsEnabled
    /\ i \in IrqThreads /\ state[i] = "AVAILABLE"
    /\ idlepc' = WokenIdle
    /\ runq' = IF curthr = IdleThread THEN runq ELSE threadrunq_append(runq, curthr)
    /\ domq' = IF curdom # Dom[i]
               THEN runqueue_switchdomains(runq', domq, Dom[i]) ELSE domq
    /\ state' = [state EXCEPT ![i] = RUNNABLE]
    /\ icurrent' = curthr
    /\ curthr' = i
    /\ UNCHANGED <<panic, unblockFlag, polling, disable_threadswitching>>

\* irq_first_level_handler: the handler thread of interrupt i takes the CPU.
irq_first_level_handler(i) ==
    /\ IrqsEnabled
    /\ i \in IrqThreads /\ state[i] # "NONE"
    /\ idlepc' = WokenIdle
    /\ IF /\ curdom # Dom[i] => SwitchDomainsAssert(runq, domq)
          /\ state[i] = "AVAILABLE"
       THEN /\ domq' = IF curdom # Dom[i]
                       THEN runqueue_switchdomains(runq, domq, Dom[i]) ELSE domq
            /\ state' = [state EXCEPT ![i] = RUNNABLE]
            /\ icurrent' = curthr
            /\ curthr' = i
            /\ UNCHANGED <<runq, panic>>
       ELSE Panic /\ UNCHANGED icurrent
    /\ UNCHANGED <<unblockFlag, polling, disable_threadswitching>>

\* irq_exit: back to the interrupted thread.  The code leaves icurrent as it is and
\* never reads it outside of a handler; here it also says that one runs.
irq_exit ==
    /\ ~panic /\ icurrent # NoThread
    /\ IF /\ curdom # Dom[icurrent] => SwitchDomainsAssert(runq, domq)
          /\ state[curthr] = RUNNABLE
       THEN /\ domq' = IF curdom # Dom[icurrent]
                       THEN runqueue_switchdomains(runq, domq, Dom[icurrent]) ELSE domq
            /\ state' = [state EXCEPT ![curthr] = "AVAILABLE"]
            /\ curthr' = icurrent
            /\ icurrent' = NoThread
            /\ UNCHANGED <<runq, panic>>
       ELSE Panic /\ UNCHANGED icurrent
    /\ UNCHANGED <<idlepc, unblockFlag, polling, disable_threadswitching>>

\* The timer tick: irq_handler_new -> reschedule -> Sched_reschedule.
reschedule ==
    /\ Timeslicing /\ IrqsEnabled
    /\ idlepc' = WokenIdle
    /\ LET R   == runqueue_removeFirstOrNULL(runq, domq)
           rq2 == IF curthr = IdleThread THEN R.rq ELSE threadrunq_append(R.rq, curthr)
           becomesRunnable == /\ curthr # IdleThread
                              /\ R.rq[curdom] = << >>
                              /\ Dom[R.next] # curdom
       IN IF disable_threadswitching THEN UNCHANGED runqVars
          ELSE IF ~RemoveFirstAsserts(state, runq, domq) THEN Panic
          ELSE IF R.next = NoThread
               THEN /\ state' = check_completerunnable(runq, state)
                    /\ UNCHANGED <<curthr, runq, domq, panic>>
          ELSE IF \/ curthr = R.next
                  \/ becomesRunnable /\ curdom \in Range(R.dq)
                  \/ \E d \in {curdom} \cup Range(R.dq) : R.next \in Range(rq2[d])
               THEN Panic
          ELSE /\ curthr' = R.next
               /\ state' = check_completerunnable(runq, state)
               /\ runq' = rq2
               /\ domq' = IF becomesRunnable THEN domainrunq_append(R.dq, curdom) ELSE R.dq
               /\ UNCHANGED panic
    /\ UNCHANGED <<icurrent, unblockFlag, polling, disable_threadswitching>>

setThreadSwitching(b) ==
    /\ InCode
    /\ disable_threadswitching' = b
    /\ UNCHANGED <<curthr, state, runq, domq, panic,
                   icurrent, idlepc, unblockFlag, polling>>

blockAndEnableThreadSwitching ==
    /\ MayLeave
    /\ disable_threadswitching' = FALSE
    /\ Sched_block("BLOCKEDUSER")
    /\ UNCHANGED <<icurrent, idlepc, unblockFlag, polling>>

-----------------------------------------------------------------------------
(* The idle loop: sti; hlt; cli; spin until something is runnable; yield.  *)

IdleCli ==
    /\ ~panic /\ curthr = IdleThread /\ idlepc = "cli"
    /\ idlepc' = "spin"
    /\ UNCHANGED <<curthr, state, runq, domq, panic,
                   icurrent, unblockFlag, polling, disable_threadswitching>>

\* When idle gets the CPU again it is at the sti; hlt of its next round.
IdleYield ==
    /\ ~panic /\ curthr = IdleThread /\ idlepc = "spin"
    /\ domq # << >> \/ runq[DomainZero] # << >>
    /\ idlepc' = "hlt"
    /\ threadyield
    /\ UNCHANGED <<icurrent, unblockFlag, polling, disable_threadswitching>>

-----------------------------------------------------------------------------
ThreadStep(t) ==
    \/ createCPUState(t)
    \/ createThread(t)
    \/ start(t)
    \/ unblock(t)
    \/ join(t)
    \/ waitUntilBlocked(t)
    \/ installFirstLevelHandler(t)
    \/ irq_first_level_handler(t)

Next ==
    \/ \E t \in Threads : ThreadStep(t)
    \/ thread_exit
    \/ yield
    \/ block
    \/ blockIfNotUnblocked
    \/ clearUnblockFlag
    \/ PollAgain
    \/ UnhandledIrq
    \/ irq_exit
    \/ reschedule
    \/ \E b \in BOOLEAN : setThreadSwitching(b)
    \/ blockAndEnableThreadSwitching
    \/ IdleCli
    \/ IdleYield

Spec == Init /\ [][Next]_vars

-----------------------------------------------------------------------------
(* Safety.                                                                 *)

\* The queues and the thread states agree: the queued threads are the RUNNABLE
\* ones except the running thread, the interrupted thread and idle; no thread
\* or domain is linked twice; a domain is in the domain queue iff it has queued
\* threads and is not the running one.  A double unblock, an exit of a queued
\* thread or an interrupt that hits between two domains would break it.
QueuesConsistent ==
    /\ Queued(runq) = {t \in Threads : state[t] = RUNNABLE}
                          \ {curthr, icurrent, IdleThread}
    /\ ThreadQueuesOK(runq)
    /\ DomainQueueOK(runq, domq, curdom)

\* No ASSERT and no sys_panic of the scheduler ever fires: "domain already in
\* runqueue", "running domain should not be in runq", "domain contains runnable
\* threads but is not in runq", the state checks of queued and handler threads.
NoPanic == ~panic

\* Idle never sleeps on work: when it is parked at hlt nothing is runnable, so
\* no wakeup falls between the last look at the queues and the hlt.
IdleParkedOnlyWithoutWork ==
    curthr = IdleThread /\ idlepc = "hlt"
        => domq = << >> /\ runq[DomainZero] = << >>

\* A handler always has somebody to return to, who is RUNNABLE, in no queue and
\* no handler itself, whatever the handler unblocks in the meantime.
InterruptedThreadKept ==
    icurrent # NoThread =>
        /\ curthr \in IrqThreads
        /\ icurrent \notin IrqThreads \cup Queued(runq)
        /\ state[icurrent] = RUNNABLE

\* Queues are FIFO: who stays queued keeps its place before everybody that was
\* behind it and everybody that joins, whatever interrupts and ticks do to the
\* queues; the same holds for domains.  (Action property.)
Before(s, x, y) == \E i, j \in DOMAIN s : i < j /\ s[i] = x /\ s[j] = y
StaysInOrder(s, r) ==
    \A x \in Range(s) \cap Range(r), y \in Range(r) :
        Before(s, x, y) \/ y \notin Range(s) => Before(r, x, y)
QueuesAreFifo ==
    [][ /\ \A d \in Domains : StaysInOrder(runq[d], runq'[d])
        /\ StaysInOrder(domq, domq') ]_vars

-----------------------------------------------------------------------------
(* Liveness.  The tick of a timeslicing kernel is latched by the interrupt  *)
(* controller, so it comes through if interrupts are enabled again and      *)
(* again; handlers end; the idle and wait loops make progress when they     *)
(* have the CPU.                                                           *)

Fairness ==
    /\ SF_vars(reschedule)
    /\ WF_vars(irq_exit)
    /\ WF_vars(PollAgain)
    /\ WF_vars(IdleCli)
    /\ WF_vars(IdleYield)

FairSpec == Spec /\ Fairness

HandledIrq == \E i \in Threads : irq_first_level_handler(i)

\* Provisos: from some time on no interrupt is handled, and no thread disables
\* thread switching.
QuietAfterwards == <>[][~HandledIrq]_vars /\ <>[]~disable_threadswitching

\* Round robin: a queued thread gets the CPU eventually.
RunnableThreadRuns ==
    QuietAfterwards => \A t \in UserThreads : (t \in Queued(runq)) ~> (curthr = t)

\* A thread that joins a dead thread gets out of the wait loop.
JoinReturns ==
    QuietAfterwards =>
        \A t \in UserThreads :
            (\E u \in Threads : polling[t] = <<"ZOMBIE", u>> /\ state[u] = "ZOMBIE")
                ~> (polling[t] = NotPolling)

\* reference/scheduler.html on idle: "Parks the CPU on hlt until an interrupt
\* (timer/device/IPI) wakes it to re-check the runqueue."
IdleParks == (curthr = IdleThread) ~> (idlepc = "hlt")
=============================================================================
