------------------------- MODULE ThreadSched_proofs -------------------------
(***************************************************************************)
(* The safety properties of ThreadSched, for any number of threads,        *)
(* domains and interrupt handlers, with and without a timer tick.          *)
(***************************************************************************)
EXTENDS ThreadSched, Runq_proofs

-----------------------------------------------------------------------------
(* The inductive invariant.                                                *)

\* The threads that hold or will get back the CPU are RUNNABLE.
HoldersRunnable ==
    /\ state[IdleThread] = RUNNABLE
    /\ state[curthr] = RUNNABLE
    /\ icurrent # NoThread => state[icurrent] = RUNNABLE

\* A handler thread is idle, or it is the running thread and somebody is
\* interrupted; it is in no wait loop.
HandlersOK ==
    /\ \A i \in IrqThreads : /\ state[i] \in {"NONE", "AVAILABLE", RUNNABLE}
                             /\ state[i] = RUNNABLE => i = curthr
                             /\ polling[i] = NotPolling
    /\ icurrent = NoThread => curthr \notin IrqThreads
    /\ icurrent # NoThread => curthr \in IrqThreads /\ icurrent \notin IrqThreads

\* Idle parks only when nothing is queued, and an interrupt gets it out of hlt.
IdleOK ==
    /\ curthr = IdleThread /\ idlepc = "hlt" => Queued(runq) = {}
    /\ icurrent = IdleThread => idlepc = "cli"

IInv ==
    TypeOK /\ QueuesConsistent /\ NoPanic /\ HoldersRunnable /\ HandlersOK /\ IdleOK

\* What the invariant says of the run queue.
LEMMA IInvConsistent ==
    ASSUME IInv
    PROVE  /\ Consistent(state, runq, domq, curthr)
           /\ \A t \in Threads : t \in Queued(runq) <=>
                 state[t] = RUNNABLE /\ t \notin {curthr, icurrent, IdleThread}
           /\ Queued(runq) \subseteq Threads
<1>1. Queued(runq) \subseteq Threads
  BY DEF Queued
<1>2. \A t \in Threads : t \in Queued(runq) <=>
                 state[t] = RUNNABLE /\ t \notin {curthr, icurrent, IdleThread}
  BY DEF IInv, QueuesConsistent
<1> QED
  BY <1>1, <1>2 DEF IInv, TypeOK, QueuesConsistent, Consistent, QueuesOK, QueueTypes, curdom

\* The converse, for the next state.
LEMMA ConsistentNext ==
    ASSUME Consistent(state', runq', domq', curthr'),
           \A t \in Threads : t \in Queued(runq') <=>
                 state'[t] = RUNNABLE /\ t \notin {curthr', icurrent', IdleThread}
    PROVE  QueuesConsistent' /\ Queued(runq)' = Queued(runq')
<1>1. Queued(runq)' = Queued(runq') /\ Queued(runq') \subseteq Threads
  BY DEF Queued
<1>2. ThreadQueuesOK(runq)' /\ DomainQueueOK(runq, domq, curdom)'
  BY DEF Consistent, QueuesOK, ThreadQueuesOK, DomainQueueOK, NoDuplicates, curdom
<1>3. Queued(runq)' = ({t \in Threads : state[t] = RUNNABLE} \ {curthr, icurrent, IdleThread})'
  BY <1>1
<1> QED BY <1>1, <1>2, <1>3 DEF QueuesConsistent

\* Boot establishes the invariant.
LEMMA InitIInv == Init => IInv
<1> SUFFICES ASSUME Init PROVE IInv
  OBVIOUS
<1>1. /\ \A d \in Domains : runq[d] = << >> /\ Range(runq[d]) = {}
      /\ Range(domq) = {}
  BY DEF Init, Range
<1>2. Queued(runq) = {}
  BY <1>1, RunqAssumption DEF Queued
<1>3. TypeOK
  <2>1. runq \in [Domains -> Seq(Threads)] /\ domq \in Seq(Domains)
    BY DEF Init
  <2>2. state \in [Threads -> ThreadStates] /\ curthr \in Threads
    BY ThreadSchedAssumption DEF Init, ThreadStates, RUNNABLE, UserThreads
  <2>3. polling \in [Threads -> Polls \cup {NotPolling}]
    BY DEF Init
  <2>4. /\ panic \in BOOLEAN /\ disable_threadswitching \in BOOLEAN
        /\ unblockFlag \in [Threads -> BOOLEAN]
        /\ icurrent \in Threads \cup {NoThread} /\ idlepc \in {"hlt", "cli", "spin"}
    BY DEF Init
  <2> QED BY <2>1, <2>2, <2>3, <2>4 DEF TypeOK
<1>4. ThreadQueuesOK(runq) /\ DomainQueueOK(runq, domq, curdom)
  BY <1>1 DEF Init, ThreadQueuesOK, DomainQueueOK, NoDuplicates
<1>5. Queued(runq) = {t \in Threads : state[t] = RUNNABLE} \ {curthr, icurrent, IdleThread}
  BY <1>2 DEF Init, RUNNABLE
<1>6. HoldersRunnable /\ HandlersOK /\ IdleOK
  BY RunqAssumption, ThreadSchedAssumption, <1>2
     DEF Init, HoldersRunnable, HandlersOK, IdleOK, UserThreads, RUNNABLE
<1> QED BY <1>3, <1>4, <1>5, <1>6 DEF IInv, QueuesConsistent, NoPanic, Init

-----------------------------------------------------------------------------
(* The kinds of steps.                                                     *)

\* Types of the variables that the run queue does not know, in the next state.
AuxTypeOK ==
    /\ icurrent \in Threads \cup {NoThread}
    /\ idlepc \in {"hlt", "cli", "spin"}
    /\ unblockFlag \in [Threads -> BOOLEAN]
    /\ polling \in [Threads -> Polls \cup {NotPolling}]
    /\ disable_threadswitching \in BOOLEAN
    /\ \A i \in IrqThreads : polling[i] = NotPolling

\* The running thread, not a handler, gives up the CPU with state s; it is
\* queued if it stays RUNNABLE and is not idle.
LEMMA LeavePreserves ==
    ASSUME IInv, AuxTypeOK', icurrent = NoThread, icurrent' = NoThread,
           NEW s \in ThreadStates, curthr = IdleThread => s = RUNNABLE,
           NEW Q, Q = IF s = RUNNABLE /\ curthr # IdleThread
                      THEN Queued(runq) \cup {curthr} ELSE Queued(runq),
           Consistent(state', runq', domq', curthr'),
           state' = [state EXCEPT ![curthr] = s], panic' = panic,
           Queued(runq') = Q \ {curthr'},
           curthr' \in Q \/ (curthr' = IdleThread /\ Q = {})
    PROVE  IInv'
<1> USE DEF HoldersRunnable, HandlersOK
<1>1. /\ curthr \in Threads /\ curthr' \in Threads /\ NoThread \notin Threads
      /\ state \in [Threads -> ThreadStates] /\ IdleThread \in Threads
      /\ IrqThreads \subseteq Threads /\ IdleThread \notin IrqThreads
  BY RunqAssumption DEF IInv, TypeOK, Consistent
<1>2. \A t \in Threads : t \in Queued(runq) <=>
                 state[t] = RUNNABLE /\ t \notin {curthr, icurrent, IdleThread}
  BY IInvConsistent
<1>3. \A t \in Threads : state'[t] = IF t = curthr THEN s ELSE state[t]
  BY <1>1
<1>4. IdleThread \notin Q /\ (curthr' = IdleThread => Queued(runq') = {})
  BY <1>1, <1>2
<1>5. \A t \in Threads : t \in Queued(runq') <=>
                 state'[t] = RUNNABLE /\ t \notin {curthr', icurrent', IdleThread}
  BY <1>1, <1>2, <1>3, <1>4
<1>6. QueuesConsistent' /\ Queued(runq)' = Queued(runq')
  BY <1>5, ConsistentNext
<1>7. HoldersRunnable'
  BY <1>1, <1>2, <1>3 DEF IInv
<1>8. HandlersOK'
  BY <1>1, <1>2, <1>3 DEF IInv, AuxTypeOK
<1>9. IdleOK'
  BY <1>1, <1>4, <1>6 DEF IdleOK
<1>10. TypeOK' /\ NoPanic'
  BY DEF IInv, TypeOK, NoPanic, AuxTypeOK, Consistent, QueuesOK, QueueTypes
<1> QED BY <1>6, <1>7, <1>8, <1>9, <1>10 DEF IInv

\* The running thread, which is not idle, makes a thread of its choice runnable.
LEMMA MakeRunnablePreserves ==
    ASSUME IInv, AuxTypeOK', icurrent' = icurrent, idlepc' = idlepc,
           curthr # IdleThread,
           NEW t \in Threads \ IrqThreads, state[t] # RUNNABLE,
           MakeRunnable(t)
    PROVE  IInv'
<1>1. /\ Consistent(state, runq, domq, curthr)
      /\ \A u \in Threads : u \in Queued(runq) <=>
            state[u] = RUNNABLE /\ u \notin {curthr, icurrent, IdleThread}
  BY IInvConsistent
<1>2. /\ Consistent(state', runq', domq', curthr')
      /\ state' = [state EXCEPT ![t] = RUNNABLE]
      /\ curthr' = curthr /\ panic' = panic
      /\ Queued(runq') = Queued(runq) \cup {t}
  BY <1>1, MakeRunnableStep
<1>3. \A u \in Threads : state'[u] = IF u = t THEN RUNNABLE ELSE state[u]
  BY <1>1, <1>2 DEF Consistent
<1>4. t \notin {curthr, icurrent, IdleThread}
  BY RunqAssumption DEF IInv, HoldersRunnable
<1>5. \A u \in Threads : u \in Queued(runq') <=>
            state'[u] = RUNNABLE /\ u \notin {curthr', icurrent', IdleThread}
  BY <1>1, <1>2, <1>3, <1>4
<1>6. QueuesConsistent'
  BY <1>2, <1>5, ConsistentNext
<1>7. curthr \in Threads /\ IdleThread \in Threads /\ icurrent \in Threads \cup {NoThread}
  BY RunqAssumption DEF IInv, TypeOK
<1>8. HoldersRunnable'
  BY <1>2, <1>3, <1>7 DEF IInv, HoldersRunnable
<1>9. HandlersOK'
  BY <1>2, <1>3, RunqAssumption DEF IInv, HandlersOK, AuxTypeOK
<1>10. IdleOK'
  BY <1>2 DEF IInv, IdleOK
<1>11. TypeOK' /\ NoPanic'
  BY <1>2 DEF IInv, TypeOK, NoPanic, AuxTypeOK, Consistent, QueuesOK, QueueTypes
<1> QED BY <1>6, <1>8, <1>9, <1>10, <1>11 DEF IInv

\* A step that leaves the run queue alone, and idle at its place in the loop or
\* past the hlt.
LEMMA QuietPreserves ==
    ASSUME IInv, AuxTypeOK', UNCHANGED <<curthr, state, runq, domq, panic, icurrent>>,
           idlepc' = idlepc \/ (idlepc' # "hlt" /\ icurrent # IdleThread)
    PROVE  IInv'
<1>1. TypeOK' /\ NoPanic'
  BY DEF IInv, TypeOK, NoPanic, AuxTypeOK
<1>2. QueuesConsistent'
  BY DEF IInv, QueuesConsistent, Queued, ThreadQueuesOK, DomainQueueOK, NoDuplicates, curdom
<1>3. HoldersRunnable' /\ HandlersOK'
  BY DEF IInv, HoldersRunnable, HandlersOK, AuxTypeOK
<1>4. IdleOK'
  BY DEF IInv, IdleOK, Queued
<1> QED BY <1>1, <1>2, <1>3, <1>4 DEF IInv

\* A step that leaves the run queue and idle alone.
LEMMA UnchangedPreserves ==
    ASSUME IInv, AuxTypeOK',
           UNCHANGED <<curthr, state, runq, domq, panic, icurrent>>, idlepc' = idlepc
    PROVE  IInv'
<1>1. idlepc' = idlepc \/ (idlepc' # "hlt" /\ icurrent # IdleThread)
  OBVIOUS
<1> QED BY <1>1, QuietPreserves, Zenon

\* A TCB that is not in use gets a state other than RUNNABLE.
LEMMA NewThreadPreserves ==
    ASSUME IInv, UNCHANGED <<curthr, runq, domq, panic,
                   icurrent, idlepc, unblockFlag, polling, disable_threadswitching>>,
           NEW t \in Threads, state[t] = "NONE",
           NEW s \in {"INIT", "AVAILABLE"}, t \in IrqThreads => s = "AVAILABLE",
           state' = [state EXCEPT ![t] = s]
    PROVE  IInv'
<1>1. /\ \A u \in Threads : state'[u] = IF u = t THEN s ELSE state[u]
      /\ state' \in [Threads -> ThreadStates]
      /\ curthr \in Threads /\ IdleThread \in Threads
  BY RunqAssumption DEF IInv, TypeOK, ThreadStates
<1>2. TypeOK' /\ NoPanic'
  BY <1>1 DEF IInv, TypeOK, NoPanic
<1>3. s # RUNNABLE /\ state[t] # RUNNABLE
  BY DEF RUNNABLE
<1>4. QueuesConsistent'
  <2>1. {u \in Threads : state'[u] = RUNNABLE} = {u \in Threads : state[u] = RUNNABLE}
    BY <1>1, <1>3
  <2> QED BY <2>1
     DEF IInv, QueuesConsistent, Queued, ThreadQueuesOK, DomainQueueOK, NoDuplicates, curdom
<1>5. HoldersRunnable'
  BY <1>1, <1>3 DEF IInv, HoldersRunnable, TypeOK
<1>6. HandlersOK'
  BY <1>1, <1>3, RunqAssumption DEF IInv, HandlersOK
<1>7. IdleOK'
  BY DEF IInv, IdleOK, Queued
<1> QED BY <1>2, <1>4, <1>5, <1>6, <1>7 DEF IInv

-----------------------------------------------------------------------------
(* The actions.                                                            *)

\* Sched_block and thread_exit, from a thread that may leave the CPU.
LEMMA BlockPreserves ==
    ASSUME IInv, AuxTypeOK', MayLeave, icurrent' = icurrent,
           NEW s \in ThreadStates, s # RUNNABLE,
           Sched_switch_to_nextThread([state EXCEPT ![curthr] = s], runq, domq)
    PROVE  IInv'
<1> DEFINE st == [state EXCEPT ![curthr] = s]
<1>1. /\ Consistent(state, runq, domq, curthr)
      /\ \A u \in Threads : u \in Queued(runq) <=>
            state[u] = RUNNABLE /\ u \notin {curthr, icurrent, IdleThread}
      /\ Queued(runq) \subseteq Threads
  BY IInvConsistent
<1>2. Consistent(st, runq, domq, curthr)
  BY <1>1 DEF Consistent
<1> HIDE DEF st
<1>3. /\ Consistent(state', runq', domq', curthr')
      /\ state' = st /\ panic' = panic
      /\ Queued(runq') = Queued(runq) \ {curthr'}
      /\ curthr' \in Queued(runq) \/ (curthr' = IdleThread /\ Queued(runq) = {})
  BY <1>2, SwitchStep DEF st
<1> QED
  BY <1>3, LeavePreserves DEF st, MayLeave, InCode

\* threadyield, by the idle thread or one that may leave the CPU.
LEMMA YieldPreserves ==
    ASSUME IInv, AuxTypeOK', icurrent = NoThread, icurrent' = icurrent, threadyield
    PROVE  IInv'
<1>1. /\ Consistent(state, runq, domq, curthr)
      /\ curthr \notin Queued(runq) /\ state[curthr] = RUNNABLE
  BY IInvConsistent DEF IInv, HoldersRunnable, TypeOK
<1> DEFINE Q == IF curthr = IdleThread THEN Queued(runq) ELSE Queued(runq) \cup {curthr}
<1>2. /\ Consistent(state', runq', domq', curthr')
      /\ state' = state /\ panic' = panic
      /\ Queued(runq') = Q \ {curthr'}
      /\ curthr' \in Q \/ (curthr' = IdleThread /\ Q = {})
  BY <1>1, YieldStep
<1>3. state' = [state EXCEPT ![curthr] = RUNNABLE]
  BY <1>1, <1>2 DEF Consistent
<1>4. RUNNABLE \in ThreadStates
  BY DEF ThreadStates
<1>5. Q = IF RUNNABLE = RUNNABLE /\ curthr # IdleThread
          THEN Queued(runq) \cup {curthr} ELSE Queued(runq)
  OBVIOUS
<1> HIDE DEF Q
<1> QED BY <1>2, <1>3, <1>4, <1>5, LeavePreserves

\* The wait loops of join and waitUntilBlocked.
LEMMA PollPreserves ==
    ASSUME IInv, icurrent = NoThread, NEW s \in {"ZOMBIE", "BLOCKEDUSER"}, NEW t \in Threads,
           PollRound(s, t)
    PROVE  IInv'
<1>1. /\ \E p \in {NotPolling, <<s, t>>} : polling' = [polling EXCEPT ![curthr] = p]
      /\ UNCHANGED <<icurrent, idlepc, unblockFlag, disable_threadswitching>>
  BY DEF PollRound
<1>2. <<s, t>> \in Polls /\ curthr \in Threads /\ curthr \notin IrqThreads
  BY DEF Polls, IInv, TypeOK, HandlersOK
<1>3. AuxTypeOK'
  <2>1. PICK p \in Polls \cup {NotPolling} : polling' = [polling EXCEPT ![curthr] = p]
    BY <1>1, <1>2
  <2>2. polling' \in [Threads -> Polls \cup {NotPolling}]
    BY <2>1 DEF IInv, TypeOK
  <2>3. \A i \in IrqThreads : polling'[i] = NotPolling
    BY <1>2, <2>1, RunqAssumption DEF IInv, TypeOK, HandlersOK
  <2> QED BY <1>1, <2>2, <2>3 DEF IInv, TypeOK, AuxTypeOK
<1>4. CASE UNCHANGED runqVars
  <2>1. UNCHANGED <<curthr, state, runq, domq, panic, icurrent>>
    BY <1>1, <1>4 DEF runqVars
  <2>2. idlepc' = idlepc
    BY <1>1
  <2> QED BY <1>3, <2>1, <2>2, UnchangedPreserves
<1>5. CASE threadyield
  BY <1>1, <1>3, <1>5, YieldPreserves
<1> QED BY <1>4, <1>5 DEF PollRound

\* A first-level handler takes the CPU from the thread it interrupts.
LEMMA IrqPreserves ==
    ASSUME IInv, NEW i \in Threads, irq_first_level_handler(i)
    PROVE  IInv'
<1>1. /\ Consistent(state, runq, domq, curthr)
      /\ \A u \in Threads : u \in Queued(runq) <=>
            state[u] = RUNNABLE /\ u \notin {curthr, icurrent, IdleThread}
  BY IInvConsistent
<1>2. /\ curthr \in Threads /\ IdleThread \in Threads /\ NoThread \notin Threads
      /\ state \in [Threads -> ThreadStates]
      /\ IrqThreads \subseteq Threads /\ IdleThread \notin IrqThreads
      /\ Dom[i] \in Domains
      /\ icurrent = NoThread /\ i \in IrqThreads /\ curthr \notin IrqThreads
  BY RunqAssumption DEF IInv, TypeOK, HandlersOK, irq_first_level_handler, IrqsEnabled
<1>3. state[i] = "AVAILABLE"
  BY <1>2 DEF IInv, HandlersOK, irq_first_level_handler
<1> DEFINE q == IF curdom # Dom[i] THEN runqueue_switchdomains(runq, domq, Dom[i]) ELSE domq
<1>4. /\ curdom # Dom[i] => SwitchDomainsAssert(runq, domq)
      /\ QueuesOK(runq, q, Dom[i])
  BY <1>1, <1>2, SwitchDomains DEF Consistent, curdom
<1>5. /\ domq' = q /\ state' = [state EXCEPT ![i] = RUNNABLE]
      /\ icurrent' = curthr /\ curthr' = i /\ runq' = runq /\ panic' = panic
      /\ idlepc' = WokenIdle
      /\ UNCHANGED <<unblockFlag, polling, disable_threadswitching>>
  BY <1>3, <1>4 DEF irq_first_level_handler
<1> HIDE DEF q
<1>6. /\ \A u \in Threads : state'[u] = IF u = i THEN RUNNABLE ELSE state[u]
      /\ state' \in [Threads -> ThreadStates]
  BY <1>2, <1>5 DEF ThreadStates
<1>7. \A u \in Threads : u \in Queued(runq') <=>
            state'[u] = RUNNABLE /\ u \notin {curthr', icurrent', IdleThread}
  BY <1>1, <1>2, <1>3, <1>5, <1>6 DEF RUNNABLE
<1>8. Consistent(state', runq', domq', curthr')
  <2>1. \A x \in Queued(runq') : state'[x] = RUNNABLE
    BY <1>7 DEF Queued
  <2> QED BY <1>2, <1>4, <1>5, <1>6, <2>1 DEF Consistent
<1>9. QueuesConsistent'
  BY <1>7, <1>8, ConsistentNext
<1>10. HoldersRunnable'
  BY <1>2, <1>5, <1>6 DEF IInv, HoldersRunnable
<1>11. HandlersOK'
  BY <1>2, <1>5, <1>6 DEF IInv, HandlersOK
<1>12. IdleOK'
  BY <1>2, <1>5 DEF IdleOK, WokenIdle
<1>13. TypeOK' /\ NoPanic'
  BY <1>2, <1>5, <1>8 DEF IInv, TypeOK, NoPanic, Consistent, QueuesOK, QueueTypes, WokenIdle
<1> QED BY <1>9, <1>10, <1>11, <1>12, <1>13 DEF IInv

\* A handler ends and the interrupted thread gets the CPU back.
LEMMA IrqExitPreserves ==
    ASSUME IInv, irq_exit
    PROVE  IInv'
<1>1. /\ Consistent(state, runq, domq, curthr)
      /\ \A u \in Threads : u \in Queued(runq) <=>
            state[u] = RUNNABLE /\ u \notin {curthr, icurrent, IdleThread}
  BY IInvConsistent
<1> DEFINE c == icurrent
<1>2. /\ curthr \in Threads /\ IdleThread \in Threads /\ NoThread \notin Threads
      /\ state \in [Threads -> ThreadStates] /\ state[curthr] = RUNNABLE
      /\ IrqThreads \subseteq Threads /\ IdleThread \notin IrqThreads
      /\ c \in Threads /\ c \notin IrqThreads /\ curthr \in IrqThreads
      /\ state[c] = RUNNABLE /\ Dom[c] \in Domains
  BY RunqAssumption DEF IInv, TypeOK, HandlersOK, HoldersRunnable, irq_exit
<1> DEFINE q == IF curdom # Dom[c] THEN runqueue_switchdomains(runq, domq, Dom[c]) ELSE domq
<1>3. /\ curdom # Dom[c] => SwitchDomainsAssert(runq, domq)
      /\ QueuesOK(runq, q, Dom[c])
  BY <1>1, <1>2, SwitchDomains DEF Consistent, curdom
<1>4. /\ domq' = q /\ state' = [state EXCEPT ![curthr] = "AVAILABLE"]
      /\ icurrent' = NoThread /\ curthr' = c /\ runq' = runq /\ panic' = panic
      /\ UNCHANGED <<idlepc, unblockFlag, polling, disable_threadswitching>>
  BY <1>2, <1>3 DEF irq_exit
<1> HIDE DEF q
<1>5. /\ \A u \in Threads : state'[u] = IF u = curthr THEN "AVAILABLE" ELSE state[u]
      /\ state' \in [Threads -> ThreadStates]
  BY <1>2, <1>4 DEF ThreadStates
<1>6. \A u \in Threads : u \in Queued(runq') <=>
            state'[u] = RUNNABLE /\ u \notin {curthr', icurrent', IdleThread}
  BY <1>1, <1>2, <1>4, <1>5 DEF RUNNABLE
<1>7. Consistent(state', runq', domq', curthr')
  <2>1. \A x \in Queued(runq') : state'[x] = RUNNABLE
    BY <1>6 DEF Queued
  <2> QED BY <1>2, <1>3, <1>4, <1>5, <2>1 DEF Consistent
<1>8. QueuesConsistent'
  BY <1>6, <1>7, ConsistentNext
<1>9. HoldersRunnable'
  BY <1>2, <1>4, <1>5 DEF IInv, HoldersRunnable
<1>10. HandlersOK'
  BY <1>2, <1>4, <1>5 DEF IInv, HandlersOK, RUNNABLE
<1>11. IdleOK'
  BY <1>2, <1>4, RunqAssumption DEF IInv, IdleOK
<1>12. TypeOK' /\ NoPanic'
  BY <1>2, <1>4, <1>7 DEF IInv, TypeOK, NoPanic, Consistent, QueuesOK, QueueTypes
<1> QED BY <1>8, <1>9, <1>10, <1>11, <1>12 DEF IInv

\* The timer tick takes the CPU from the running thread, which is queued again.
LEMMA ReschedulePreserves ==
    ASSUME IInv, reschedule
    PROVE  IInv'
<1>1. /\ Consistent(state, runq, domq, curthr)
      /\ \A u \in Threads : u \in Queued(runq) <=>
            state[u] = RUNNABLE /\ u \notin {curthr, icurrent, IdleThread}
      /\ Queued(runq) \subseteq Threads
  BY IInvConsistent
<1>2. /\ icurrent = NoThread /\ icurrent' = icurrent /\ idlepc' = WokenIdle
      /\ UNCHANGED <<unblockFlag, polling, disable_threadswitching>>
      /\ NoThread \notin Threads /\ IdleThread \in Threads /\ curthr \in Threads
  BY RunqAssumption DEF reschedule, IrqsEnabled, IInv, TypeOK
<1>3. AuxTypeOK'
  BY <1>2 DEF IInv, TypeOK, AuxTypeOK, HandlersOK, WokenIdle
<1> DEFINE R == runqueue_removeFirstOrNULL(runq, domq)
           rq2 == IF curthr = IdleThread THEN R.rq ELSE threadrunq_append(R.rq, curthr)
           becomes == curthr # IdleThread /\ R.rq[curdom] = << >> /\ Dom[R.next] # curdom
           dq2 == IF becomes THEN domainrunq_append(R.dq, curdom) ELSE R.dq
           Q == IF RUNNABLE = RUNNABLE /\ curthr # IdleThread
                THEN Queued(runq) \cup {curthr} ELSE Queued(runq)
<1>4. /\ RemoveFirstAsserts(state, runq, domq)
      /\ RemoveFirstResult(runq, domq, R)
      /\ check_completerunnable(runq, state) = state
  BY <1>1, RemoveFirst, ScanHarmless DEF Consistent, QueuesOK, curdom
<1>5. \/ UNCHANGED runqVars
      \/ R.next # NoThread
  <2> HIDE DEF R
  <2> QED BY <1>4 DEF reschedule, R, runqVars
<1>6. CASE UNCHANGED runqVars
  <2>1. UNCHANGED <<curthr, state, runq, domq, panic, icurrent>>
    BY <1>2, <1>6 DEF runqVars
  <2> QED BY <1>2, <1>3, <2>1, QuietPreserves DEF WokenIdle
<1>7. CASE ~UNCHANGED runqVars /\ R.next # NoThread
  <2> HIDE DEF R
  <2>1. /\ R.next \in Queued(runq)
        /\ QueuesOK(R.rq, R.dq, Dom[R.next])
        /\ Queued(R.rq) = Queued(runq) \ {R.next}
    BY <1>4, <1>7 DEF RemoveFirstResult
  <2>2. R.next \in Threads /\ R.next \notin {curthr, IdleThread} /\ Dom[R.next] \in Domains
    BY <1>1, <2>1, RunqAssumption
  <2>3. curthr \notin Queued(R.rq) /\ curdom \in Domains /\ curdom = Dom[curthr]
    BY <1>1, <1>2, <2>1, RunqAssumption DEF curdom
  <2>4. /\ becomes => curdom \notin Range(R.dq)
        /\ QueuesOK(rq2, dq2, Dom[R.next])
        /\ Queued(rq2) = Q \ {R.next}
    <3>1. CASE curthr = IdleThread
      BY <2>1, <3>1
    <3>2. CASE curthr # IdleThread
      <4>1. /\ BecomesRunnable(R.rq, curthr, Dom[R.next]) => Dom[curthr] \notin Range(R.dq)
            /\ QueuesOK(threadrunq_append(R.rq, curthr),
                        IF BecomesRunnable(R.rq, curthr, Dom[R.next])
                        THEN Append(R.dq, Dom[curthr]) ELSE R.dq, Dom[R.next])
            /\ Queued(threadrunq_append(R.rq, curthr)) = Queued(R.rq) \cup {curthr}
        BY <1>2, <2>1, <2>2, <2>3, AppendCore
      <4>2. BecomesRunnable(R.rq, curthr, Dom[R.next]) <=> becomes
        BY <2>3, <3>2 DEF BecomesRunnable
      <4> QED BY <2>1, <2>2, <2>3, <3>2, <4>1, <4>2 DEF domainrunq_append
    <3> QED BY <3>1, <3>2
  <2> HIDE DEF Q, dq2
  <2>5. \A d \in {curdom} \cup Range(R.dq) : R.next \notin Range(rq2[d])
    <3>1. R.dq \in Seq(Domains)
      BY <2>1 DEF QueuesOK, QueueTypes
    <3>2. Range(R.dq) \subseteq Domains
      BY <3>1 DEF Range
    <3>3. R.next \notin Queued(rq2)
      BY <2>4
    <3>4. \A d \in Domains : \A x \in Range(rq2[d]) : x \in Queued(rq2)
      <4> HIDE DEF rq2
      <4> QED BY <2>4, QueuedFacts DEF QueuesOK
    <3> QED BY <2>3, <3>2, <3>3, <3>4
  <2>6. /\ curthr' = R.next /\ state' = state
        /\ runq' = rq2 /\ domq' = dq2 /\ panic' = panic
    <3> HIDE DEF rq2, becomes
    <3>1. ~(\/ curthr = R.next
            \/ becomes /\ curdom \in Range(R.dq)
            \/ \E d \in {curdom} \cup Range(R.dq) : R.next \in Range(rq2[d]))
      BY <2>2, <2>4, <2>5
    <3> QED BY <1>4, <1>7, <3>1 DEF reschedule, R, rq2, becomes, dq2
  <2> HIDE DEF rq2
  <2>7. Queued(runq') = Q \ {curthr'} /\ curthr' \in Q
    BY <2>1, <2>4, <2>6 DEF Q
  <2>8. state' = [state EXCEPT ![curthr] = RUNNABLE]
    BY <2>6 DEF IInv, TypeOK, HoldersRunnable
  <2>9. Consistent(state', runq', domq', curthr')
    <3>1. \A x \in Queued(runq') : state'[x] = RUNNABLE
      BY <1>1, <2>6, <2>7 DEF Q, IInv, HoldersRunnable
    <3> QED BY <1>1, <2>2, <2>4, <2>6, <3>1 DEF Consistent
  <2>10. RUNNABLE \in ThreadStates
    BY DEF ThreadStates
  <2> QED BY <1>2, <1>3, <2>6, <2>7, <2>8, <2>9, <2>10, LeavePreserves DEF Q
<1> QED BY <1>5, <1>6, <1>7

\* Every step of the threads, the handlers, the tick and idle preserves the
\* invariant.
LEMMA NextIInv == IInv /\ [Next]_vars => IInv'
<1> SUFFICES ASSUME IInv, [Next]_vars PROVE IInv'
  OBVIOUS
<1>1. AuxTypeOK
  BY DEF IInv, TypeOK, AuxTypeOK, HandlersOK
<1>2. ASSUME UNCHANGED <<icurrent, idlepc, unblockFlag, polling, disable_threadswitching>>
      PROVE  AuxTypeOK'
  BY <1>1, <1>2 DEF AuxTypeOK
<1>3. {"ZOMBIE", "BLOCKEDUSER"} \subseteq ThreadStates \ {RUNNABLE}
  BY DEF ThreadStates, RUNNABLE
<1>4. RUNNABLE \notin {"NONE", "INIT", "BLOCKEDUSER"}
  BY DEF RUNNABLE
<1>5. ASSUME NEW t \in Threads, createCPUState(t) PROVE IInv'
  BY <1>5, NewThreadPreserves DEF createCPUState
<1>6. ASSUME NEW t \in Threads, createThread(t) PROVE IInv'
  BY <1>2, <1>4, <1>6, MakeRunnablePreserves DEF createThread, InCode
<1>7. ASSUME NEW t \in Threads, start(t) PROVE IInv'
  <2>1. t \notin IrqThreads
    BY <1>7 DEF start, IInv, HandlersOK, RUNNABLE
  <2> QED BY <1>2, <1>4, <1>7, <2>1, MakeRunnablePreserves DEF start, InCode
<1>8. ASSUME NEW t \in Threads, unblock(t) PROVE IInv'
  <2>1. t \notin IrqThreads /\ curthr # IdleThread
    BY <1>8 DEF unblock, UserThreads, InCode
  <2>2. CASE state[t] = "BLOCKEDUSER"
    <3>1. MakeRunnable(t) /\ UNCHANGED <<icurrent, idlepc, unblockFlag, polling, disable_threadswitching>>
      BY <1>8, <2>2 DEF unblock
    <3> QED BY <1>2, <1>4, <2>1, <2>2, <3>1, MakeRunnablePreserves
  <2>3. CASE state[t] # "BLOCKEDUSER"
    <3>1. /\ unblockFlag' = [unblockFlag EXCEPT ![t] = TRUE]
          /\ UNCHANGED <<curthr, state, runq, domq, panic, icurrent>>
          /\ UNCHANGED <<idlepc, polling, disable_threadswitching>>
      BY <1>8, <2>3 DEF unblock, runqVars
    <3>2. AuxTypeOK'
      BY <1>1, <3>1 DEF AuxTypeOK
    <3> QED BY <3>1, <3>2, UnchangedPreserves
  <2> QED BY <2>2, <2>3
<1>9. ASSUME NEW t \in Threads, join(t) PROVE IInv'
  BY <1>9, PollPreserves DEF join, MayLeave
<1>10. ASSUME NEW t \in Threads, waitUntilBlocked(t) PROVE IInv'
  BY <1>10, PollPreserves DEF waitUntilBlocked, MayLeave
<1>11. ASSUME NEW t \in Threads, installFirstLevelHandler(t) PROVE IInv'
  BY <1>11, NewThreadPreserves DEF installFirstLevelHandler
<1>12. ASSUME NEW t \in Threads, irq_first_level_handler(t) PROVE IInv'
  BY <1>12, IrqPreserves
<1>13. CASE thread_exit
  BY <1>2, <1>3, <1>13, BlockPreserves DEF thread_exit
<1>14. CASE yield
  BY <1>2, <1>14, YieldPreserves DEF yield, MayLeave
<1>15. CASE block
  BY <1>2, <1>3, <1>15, BlockPreserves DEF block, Sched_block
<1>16. CASE blockIfNotUnblocked
  BY <1>2, <1>3, <1>16, BlockPreserves DEF blockIfNotUnblocked, Sched_block
<1>17. CASE clearUnblockFlag
  <2>1. /\ unblockFlag' = [unblockFlag EXCEPT ![curthr] = FALSE]
        /\ UNCHANGED <<curthr, state, runq, domq, panic, icurrent>>
        /\ UNCHANGED <<idlepc, polling, disable_threadswitching>>
    BY <1>17 DEF clearUnblockFlag
  <2>2. AuxTypeOK'
    BY <1>1, <2>1 DEF AuxTypeOK
  <2> QED BY <2>1, <2>2, UnchangedPreserves
<1>18. CASE PollAgain
  <2>1. polling[curthr] # NotPolling /\ curthr \in Threads
    BY <1>18 DEF PollAgain, IInv, TypeOK
  <2>2. icurrent = NoThread
    BY <2>1 DEF IInv, HandlersOK
  <2>3. polling[curthr] \in Polls
    BY <2>1 DEF IInv, TypeOK
  <2>4. polling[curthr][1] \in {"ZOMBIE", "BLOCKEDUSER"} /\ polling[curthr][2] \in Threads
    BY <2>3 DEF Polls
  <2> QED BY <1>18, <2>2, <2>4, PollPreserves DEF PollAgain
<1>19. CASE UnhandledIrq
  <2>1. /\ UNCHANGED <<curthr, state, runq, domq, panic, icurrent>>
        /\ UNCHANGED <<unblockFlag, polling, disable_threadswitching>>
        /\ idlepc' = WokenIdle /\ icurrent = NoThread
    BY <1>19 DEF UnhandledIrq, IrqsEnabled
  <2>2. AuxTypeOK'
    BY <1>1, <2>1 DEF AuxTypeOK, WokenIdle
  <2>3. icurrent # IdleThread
    BY <2>1, RunqAssumption
  <2> QED BY <2>1, <2>2, <2>3, QuietPreserves DEF WokenIdle
<1>20. CASE irq_exit
  BY <1>20, IrqExitPreserves
<1>21. CASE reschedule
  BY <1>21, ReschedulePreserves
<1>22. ASSUME NEW b \in BOOLEAN, setThreadSwitching(b) PROVE IInv'
  <2>1. /\ UNCHANGED <<curthr, state, runq, domq, panic, icurrent>>
        /\ UNCHANGED <<idlepc, unblockFlag, polling>>
        /\ disable_threadswitching' = b
    BY <1>22 DEF setThreadSwitching
  <2>2. AuxTypeOK'
    BY <1>1, <2>1 DEF AuxTypeOK
  <2> QED BY <2>1, <2>2, UnchangedPreserves
<1>23. CASE blockAndEnableThreadSwitching
  <2>1. /\ UNCHANGED <<icurrent, idlepc, unblockFlag, polling>>
        /\ disable_threadswitching' = FALSE
    BY <1>23 DEF blockAndEnableThreadSwitching
  <2>2. AuxTypeOK'
    BY <1>1, <2>1 DEF AuxTypeOK
  <2> QED
    BY <1>3, <1>23, <2>1, <2>2, BlockPreserves DEF blockAndEnableThreadSwitching, Sched_block
<1>24. CASE IdleCli
  <2>1. /\ UNCHANGED <<curthr, state, runq, domq, panic, icurrent>>
        /\ UNCHANGED <<unblockFlag, polling, disable_threadswitching>>
        /\ idlepc' = "spin" /\ curthr = IdleThread
    BY <1>24 DEF IdleCli
  <2>2. AuxTypeOK'
    BY <1>1, <2>1 DEF AuxTypeOK
  <2>3. icurrent # IdleThread
    BY <2>1, RunqAssumption DEF IInv, HandlersOK
  <2> QED BY <2>1, <2>2, <2>3, QuietPreserves
<1>25. CASE IdleYield
  <2>1. /\ threadyield /\ curthr = IdleThread /\ icurrent' = icurrent
        /\ UNCHANGED <<unblockFlag, polling, disable_threadswitching>>
        /\ idlepc' = "hlt"
    BY <1>25 DEF IdleYield
  <2>2. AuxTypeOK'
    BY <1>1, <2>1 DEF AuxTypeOK
  <2>3. icurrent = NoThread
    BY <2>1, RunqAssumption DEF IInv, HandlersOK
  <2> QED BY <2>1, <2>2, <2>3, YieldPreserves
<1>26. CASE UNCHANGED vars
  <2>1. /\ UNCHANGED <<curthr, state, runq, domq, panic, icurrent>> /\ idlepc' = idlepc
        /\ UNCHANGED <<icurrent, idlepc, unblockFlag, polling, disable_threadswitching>>
    BY <1>26 DEF vars
  <2> QED BY <1>2, <2>1, UnchangedPreserves
<1>27. ASSUME NEW t \in Threads, ThreadStep(t) PROVE IInv'
  BY <1>27, <1>5, <1>6, <1>7, <1>8, <1>9, <1>10, <1>11, <1>12 DEF ThreadStep
<1> QED
  BY <1>13, <1>14, <1>15, <1>16, <1>17, <1>18, <1>19, <1>20, <1>21, <1>22, <1>23,
     <1>24, <1>25, <1>26, <1>27 DEF Next

-----------------------------------------------------------------------------
(* The theorems.                                                           *)

\* The invariant holds in every reachable state.
THEOREM IInvAlways == Spec => []IInv
<1>1. Init => IInv
  BY InitIInv
<1>2. IInv /\ [Next]_vars => IInv'
  BY NextIInv
<1> QED BY <1>1, <1>2, PTL DEF Spec

\* Type correctness of the scheduler.
THEOREM TypeCorrect == Spec => []TypeOK
<1>1. IInv => TypeOK
  BY DEF IInv
<1> QED BY <1>1, IInvAlways, PTL

\* The two levels of the run queue and the thread states always agree: the
\* queued threads are exactly the RUNNABLE ones that neither run nor are
\* interrupted, each linked once, and the domain queue holds exactly the other
\* domains with queued threads.
THEOREM QueuesAlwaysConsistent == Spec => []QueuesConsistent
<1>1. IInv => QueuesConsistent
  BY DEF IInv
<1> QED BY <1>1, IInvAlways, PTL

\* No assertion and no sys_panic of the scheduler can fire.
THEOREM NeverPanics == Spec => []NoPanic
<1>1. IInv => NoPanic
  BY DEF IInv
<1> QED BY <1>1, IInvAlways, PTL

\* A handler always returns to a thread that is RUNNABLE, in no queue and no
\* handler.
THEOREM InterruptedThreadAlwaysKept == Spec => []InterruptedThreadKept
<1>1. IInv => InterruptedThreadKept
  <2> SUFFICES ASSUME IInv, icurrent # NoThread
               PROVE  /\ curthr \in IrqThreads
                      /\ icurrent \notin IrqThreads \cup Queued(runq)
                      /\ state[icurrent] = RUNNABLE
    BY DEF InterruptedThreadKept
  <2> QED BY DEF IInv, HandlersOK, HoldersRunnable, QueuesConsistent
<1> QED BY <1>1, IInvAlways, PTL

\* Idle is never parked at hlt while a thread is runnable.
THEOREM IdleNeverSleepsOnWork == Spec => []IdleParkedOnlyWithoutWork
<1>1. IInv => IdleParkedOnlyWithoutWork
  <2> SUFFICES ASSUME IInv, Queued(runq) = {}
               PROVE  domq = << >> /\ runq[DomainZero] = << >>
    BY DEF IInv, IdleOK, IdleParkedOnlyWithoutWork
  <2>1. QueuesOK(runq, domq, curdom)
    BY IInvConsistent DEF Consistent, curdom
  <2>2. ASSUME NEW d \in Domains PROVE runq[d] = << >>
    <3>1. runq[d] \in Seq(Threads)
      BY DEF IInv, TypeOK
    <3>2. \A x \in Range(runq[d]) : x \in Queued(runq)
      BY <2>1, QueuedFacts DEF QueuesOK
    <3> QED BY <3>1, <3>2, TailFacts
  <2>3. domq \in Seq(Domains)
    BY DEF IInv, TypeOK
  <2>4. \A d \in Domains : d \notin Range(domq)
    BY <2>1, <2>2 DEF QueuesOK, DomainQueueOK
  <2>5. domq = << >>
    BY <2>3, <2>4, TailFacts
  <2> QED BY <2>2, <2>5, RunqAssumption
<1> QED BY <1>1, IInvAlways, PTL

-----------------------------------------------------------------------------
(* Queues are FIFO.  An operation is one append, one removal, or both.     *)

\* A list that is left alone keeps its order.
LEMMA SameOrder ==
    ASSUME NEW s PROVE StaysInOrder(s, s)
BY DEF StaysInOrder

\* The list r has what s has, and e.
AddedTo(s, e, r) == Range(r) = Range(s) \cup {e}

\* Appending adds the element and keeps the others.
LEMMA AppendAdds ==
    ASSUME NEW S, NEW s \in Seq(S), NEW e \in S
    PROVE  AddedTo(s, e, Append(s, e))
BY AppendFacts DEF AddedTo

\* A newcomer is behind everybody.
LEMMA AppendOrder ==
    ASSUME NEW S, NEW s \in Seq(S), NEW e \in S, e \notin Range(s)
    PROVE  StaysInOrder(s, Append(s, e))
<1> DEFINE r == Append(s, e)
<1>1. /\ Len(s) \in Nat /\ DOMAIN s = 1 .. Len(s) /\ DOMAIN r = 1 .. (Len(s) + 1)
      /\ \A i \in 1 .. Len(s) : r[i] = s[i]
      /\ r[Len(s) + 1] = e
  OBVIOUS
<1>2. Range(r) = Range(s) \cup {e}
  BY AppendFacts
<1> HIDE DEF r
<1> SUFFICES ASSUME NEW x \in Range(s), NEW y \in Range(r), Before(s, x, y) \/ y \notin Range(s)
             PROVE  Before(r, x, y)
  BY DEF StaysInOrder, r
<1>3. CASE Before(s, x, y)
  <2>1. PICK i, j \in DOMAIN s : i < j /\ s[i] = x /\ s[j] = y
    BY <1>3 DEF Before
  <2>2. i \in DOMAIN r /\ j \in DOMAIN r /\ r[i] = x /\ r[j] = y
    BY <1>1, <2>1
  <2> QED BY <2>1, <2>2 DEF Before
<1>4. CASE y = e
  <2>1. PICK i \in DOMAIN s : s[i] = x
    BY DEF Range
  <2>2. i \in DOMAIN r /\ r[i] = x /\ Len(s) + 1 \in DOMAIN r /\ i < Len(s) + 1
    BY <1>1, <2>1
  <2> QED BY <1>1, <1>4, <2>2 DEF Before
<1> QED BY <1>2, <1>3, <1>4

\* Taking the first element off disturbs nobody else.
LEMMA TailOrder ==
    ASSUME NEW S, NEW s \in Seq(S), s # << >>, NoDuplicates(s)
    PROVE  StaysInOrder(s, Tail(s))
<1> DEFINE r == Tail(s)
<1>1. /\ Len(s) \in Nat /\ DOMAIN s = 1 .. Len(s) /\ DOMAIN r = 1 .. (Len(s) - 1)
      /\ \A i \in 1 .. (Len(s) - 1) : r[i] = s[i + 1]
      /\ Head(s) = s[1]
  OBVIOUS
<1>2. Range(r) = Range(s) \ {Head(s)}
  BY TailFacts
<1> HIDE DEF r
<1> SUFFICES ASSUME NEW x \in Range(r), NEW y \in Range(r), Before(s, x, y)
             PROVE  Before(r, x, y)
  BY <1>2 DEF StaysInOrder, r
<1>3. PICK i, j \in DOMAIN s : i < j /\ s[i] = x /\ s[j] = y
  BY DEF Before
<1>4. i # 1
  BY <1>1, <1>2, <1>3
<1>5. i - 1 \in DOMAIN r /\ j - 1 \in DOMAIN r /\ r[i - 1] = x /\ r[j - 1] = y /\ i - 1 < j - 1
  BY <1>1, <1>3, <1>4
<1> QED BY <1>5 DEF Before

\* Unlinking a domain disturbs no other.
LEMMA UnlinkOrder ==
    ASSUME NEW s \in Seq(Domains), NEW d \in Domains, NoDuplicates(s)
    PROVE  StaysInOrder(s, domainrunq_remove_domain(s, d))
<1> DEFINE r == domainrunq_remove_domain(s, d)
<1>1. CASE d \notin Range(s)
  BY <1>1, SameOrder DEF domainrunq_remove_domain
<1>2. CASE d \in Range(s)
  <2> DEFINE first(k) == s[k] = d /\ \A j \in DOMAIN s : s[j] = d => k <= j
             i == CHOOSE k \in DOMAIN s : first(k)
  <2>1. Len(s) \in Nat /\ DOMAIN s = 1 .. Len(s)
    OBVIOUS
  <2>2. \E k \in DOMAIN s : first(k)
    <3>1. PICK k \in DOMAIN s : s[k] = d
      BY <1>2 DEF Range
    <3> QED BY <2>1, <3>1 DEF NoDuplicates
  <2>3. i \in 1 .. Len(s) /\ s[i] = d
    <3>1. i \in DOMAIN s /\ first(i)
      <4> HIDE DEF first
      <4> QED BY <2>2
    <3> QED BY <2>1, <3>1
  <2>4. r = [j \in 1 .. (Len(s) - 1) |-> IF j < i THEN s[j] ELSE s[j + 1]]
    BY <1>2 DEF domainrunq_remove_domain
  <2>5. Range(r) = Range(s) \ {d}
    BY UnlinkFacts
  <2> HIDE DEF i, r
  <2>6. /\ DOMAIN r = 1 .. (Len(s) - 1)
        /\ \A j \in 1 .. (Len(s) - 1) : r[j] = IF j < i THEN s[j] ELSE s[j + 1]
    BY <2>4
  <2> SUFFICES ASSUME NEW x \in Range(r), NEW y \in Range(r), Before(s, x, y)
               PROVE  Before(r, x, y)
    BY <2>5 DEF StaysInOrder, r
  <2>7. PICK a, b \in DOMAIN s : a < b /\ s[a] = x /\ s[b] = y
    BY DEF Before
  <2>8. a # i /\ b # i
    BY <2>3, <2>5, <2>7
  <2> DEFINE at(k) == IF k < i THEN k ELSE k - 1
  <2>9. ASSUME NEW k \in DOMAIN s, k # i PROVE at(k) \in DOMAIN r /\ r[at(k)] = s[k]
    BY <2>1, <2>3, <2>6, <2>9
  <2>10. at(a) < at(b)
    BY <2>1, <2>3, <2>7, <2>8
  <2>11. /\ at(a) \in DOMAIN r /\ r[at(a)] = x
         /\ at(b) \in DOMAIN r /\ r[at(b)] = y
    BY <2>7, <2>8, <2>9
  <2> HIDE DEF at
  <2> QED BY <2>10, <2>11 DEF Before
<1> QED BY <1>1, <1>2

\* Two operations in a row, of which the second does not bring back what the
\* first has removed.
LEMMA OrderComposes ==
    ASSUME NEW s, NEW m, NEW r, StaysInOrder(s, m), StaysInOrder(m, r),
           Range(s) \cap Range(r) \subseteq Range(m)
    PROVE  StaysInOrder(s, r)
<1> SUFFICES ASSUME NEW x \in Range(s) \cap Range(r), NEW y \in Range(r),
                    Before(s, x, y) \/ y \notin Range(s)
             PROVE  Before(r, x, y)
  BY DEF StaysInOrder
<1>1. x \in Range(m)
  OBVIOUS
<1>2. CASE y \notin Range(m)
  BY <1>1, <1>2 DEF StaysInOrder
<1>3. CASE y \in Range(m)
  <2>1. Before(m, x, y)
    BY <1>1, <1>3 DEF StaysInOrder
  <2> QED BY <1>1, <2>1 DEF StaysInOrder
<1> QED BY <1>2, <1>3

\* The two levels of queues before and after an operation.
FifoFrom(rq, dq, r, q) ==
    /\ \A d \in Domains : StaysInOrder(rq[d], r[d])
    /\ StaysInOrder(dq, q)

\* Queueing a thread that is not queued.
LEMMA ThreadAppendOrder ==
    ASSUME NEW rq \in [Domains -> Seq(Threads)], NEW t \in Threads, t \notin Range(rq[Dom[t]])
    PROVE  \A d \in Domains :
              /\ StaysInOrder(rq[d], threadrunq_append(rq, t)[d])
              /\ Range(threadrunq_append(rq, t)[d]) \subseteq Range(rq[d]) \cup {t}
              /\ Range(rq[d]) \subseteq Range(threadrunq_append(rq, t)[d])
<1> TAKE d \in Domains
<1> DEFINE D == Dom[t]
<1>1. D \in Domains /\ rq[D] \in Seq(Threads)
  BY RunqAssumption
<1>2. CASE d = D
  <2>1. threadrunq_append(rq, t)[d] = Append(rq[D], t)
    BY <1>1, <1>2 DEF threadrunq_append
  <2>2. Range(Append(rq[D], t)) = Range(rq[D]) \cup {t}
    <3> HIDE DEF D
    <3> QED BY <1>1, AppendFacts, Zenon
  <2>3. StaysInOrder(rq[D], Append(rq[D], t))
    <3>1. t \notin Range(rq[D])
      OBVIOUS
    <3> HIDE DEF D
    <3> QED BY <1>1, <3>1, AppendOrder, Zenon
  <2> QED BY <1>2, <2>1, <2>2, <2>3
<1>3. CASE d # D
  <2>1. threadrunq_append(rq, t)[d] = rq[d]
    BY <1>1, <1>3 DEF threadrunq_append
  <2> QED BY <2>1, SameOrder
<1> QED BY <1>2, <1>3

\* Taking out the next thread moves its domain out of the domain queue and the
\* running domain behind the others.
LEMMA RemoveFirstOrder ==
    ASSUME NEW rq, NEW dq, curthr \in Threads, QueuesOK(rq, dq, curdom)
    PROVE  LET R == runqueue_removeFirstOrNULL(rq, dq) IN
           /\ FifoFrom(rq, dq, R.rq, R.dq)
           /\ \A d \in Domains : Range(R.rq[d]) \subseteq Range(rq[d])
           /\ Range(R.dq) \subseteq Range(dq) \cup {curdom}
<1> DEFINE d == IF dq = << >> THEN curdom ELSE Head(dq)
           R == runqueue_removeFirstOrNULL(rq, dq)
<1>1. curdom \in Domains
  BY RunqAssumption DEF curdom
<1>2. /\ rq \in [Domains -> Seq(Threads)] /\ dq \in Seq(Domains)
      /\ NoDuplicates(dq)
      /\ curdom \notin Range(dq)
      /\ \A e \in Domains : NoDuplicates(rq[e])
  BY <1>1 DEF QueuesOK, QueueTypes, DomainQueueOK, ThreadQueuesOK
<1>3. d \in Domains
  BY <1>1, <1>2, TailFacts
<1>4. /\ R.rq = IF rq[d] = << >> THEN rq ELSE threadrunq_remove(rq, d)
      /\ R.dq = IF dq = << >> THEN dq
                ELSE IF rq[curdom] # << >> THEN Append(Tail(dq), curdom) ELSE Tail(dq)
  BY DEF runqueue_removeFirstOrNULL, domainrunq_append
<1> HIDE DEF d, R
<1>5. ASSUME NEW e \in Domains
      PROVE  StaysInOrder(rq[e], R.rq[e]) /\ Range(R.rq[e]) \subseteq Range(rq[e])
  <2>1. CASE e = d /\ rq[d] # << >>
    <3>1. R.rq[e] = Tail(rq[e])
      BY <1>2, <1>3, <1>4, <2>1 DEF threadrunq_remove
    <3>2. rq[e] \in Seq(Threads) /\ rq[e] # << >> /\ NoDuplicates(rq[e])
      BY <1>2, <2>1
    <3>3. StaysInOrder(rq[e], Tail(rq[e])) /\ Range(Tail(rq[e])) \subseteq Range(rq[e])
      BY <3>2, TailOrder, TailFacts, Zenon
    <3> QED BY <3>1, <3>3
  <2>2. CASE ~(e = d /\ rq[d] # << >>)
    <3>1. R.rq[e] = rq[e]
      BY <1>2, <1>3, <1>4, <2>2 DEF threadrunq_remove
    <3> QED BY <3>1, SameOrder
  <2> QED BY <2>1, <2>2
<1>6. StaysInOrder(dq, R.dq) /\ Range(R.dq) \subseteq Range(dq) \cup {curdom}
  <2>1. CASE dq = << >>
    BY <1>4, <2>1, SameOrder
  <2>2. CASE dq # << >>
    <3>1. /\ StaysInOrder(dq, Tail(dq)) /\ Range(Tail(dq)) \subseteq Range(dq)
          /\ Tail(dq) \in Seq(Domains)
      BY <1>2, <2>2, TailOrder, TailFacts, Zenon
    <3>2. curdom \notin Range(Tail(dq))
      BY <1>2, <3>1
    <3>3. /\ StaysInOrder(Tail(dq), Append(Tail(dq), curdom))
          /\ Range(Append(Tail(dq), curdom)) = Range(Tail(dq)) \cup {curdom}
      <4>1. StaysInOrder(Tail(dq), Append(Tail(dq), curdom))
        BY <1>1, <3>1, <3>2, AppendOrder, Zenon
      <4>2. AddedTo(Tail(dq), curdom, Append(Tail(dq), curdom))
        BY <1>1, <3>1, AppendAdds, Zenon
      <4> QED BY <4>1, <4>2 DEF AddedTo
    <3>4. StaysInOrder(dq, Append(Tail(dq), curdom))
      BY <1>2, <3>1, <3>3, OrderComposes
    <3> QED BY <1>4, <2>2, <3>1, <3>3, <3>4
  <2> QED BY <2>1, <2>2
<1> QED BY <1>5, <1>6 DEF FifoFrom, R

\* A step that leaves the queues alone, as a kernel panic does.
LEMMA SameQueuesOrder ==
    ASSUME runq' = runq, domq' = domq
    PROVE  FifoFrom(runq, domq, runq', domq')
BY SameOrder DEF FifoFrom

\* MakeRunnable of a thread that is not queued.
LEMMA MakeRunnableOrder ==
    ASSUME IInv, NEW t \in Threads, t \notin Queued(runq), MakeRunnable(t)
    PROVE  FifoFrom(runq, domq, runq', domq')
<1>1. CASE Panic
  BY <1>1, SameQueuesOrder DEF Panic
<1>2. CASE runq' = threadrunq_append(runq, t) /\ domq' = DomqAfterAppend(runq, domq, t)
           /\ AppendAssert(runq, domq, t)
  <2>1. runq \in [Domains -> Seq(Threads)] /\ domq \in Seq(Domains)
    BY DEF IInv, TypeOK
  <2>2. t \notin Range(runq[Dom[t]]) /\ Dom[t] \in Domains
    BY RunqAssumption DEF Queued
  <2>3. \A d \in Domains : StaysInOrder(runq[d], runq'[d])
    BY <1>2, <2>1, <2>2, ThreadAppendOrder
  <2>4. CASE BecomesRunnable(runq, t, curdom)
    <3>1. domq' = Append(domq, Dom[t]) /\ Dom[t] \notin Range(domq)
      BY <1>2, <2>4 DEF BecomesRunnable, AppendAssert, DomqAfterAppend, domainrunq_append
    <3>2. StaysInOrder(domq, Append(domq, Dom[t]))
      BY <2>1, <2>2, <3>1, AppendOrder, Zenon
    <3> QED BY <2>3, <3>1, <3>2 DEF FifoFrom
  <2>5. CASE ~BecomesRunnable(runq, t, curdom)
    <3>1. domq' = domq
      BY <1>2, <2>5 DEF BecomesRunnable, DomqAfterAppend
    <3> QED BY <2>3, <3>1, SameOrder DEF FifoFrom
  <2> QED BY <2>4, <2>5
<1> QED BY <1>1, <1>2 DEF MakeRunnable

\* A switch to the next thread, by a thread that leaves or yields the CPU.
LEMMA SwitchOrder ==
    ASSUME curthr \in Threads, NEW st, NEW rq, NEW dq, QueuesOK(rq, dq, curdom),
           Sched_switch_to_nextThread(st, rq, dq)
    PROVE  \/ runq' = runq /\ domq' = domq
           \/ FifoFrom(rq, dq, runq', domq')
<1> DEFINE R == runqueue_removeFirstOrNULL(rq, dq)
<1>1. FifoFrom(rq, dq, R.rq, R.dq)
  BY RemoveFirstOrder
<1>2. /\ runqueue_removeFirstOrIdle(rq, dq).rq = R.rq
      /\ runqueue_removeFirstOrIdle(rq, dq).dq = R.dq
  BY DEF runqueue_removeFirstOrIdle, runqueue_removeFirstOrNULL
<1> HIDE DEF R
<1> QED BY <1>1, <1>2 DEF Sched_switch_to_nextThread, Panic

\* A thread that blocks or exits.
LEMMA LeaveOrder ==
    ASSUME IInv, NEW st, Sched_switch_to_nextThread(st, runq, domq)
    PROVE  FifoFrom(runq, domq, runq', domq')
<1>1. curthr \in Threads /\ QueuesOK(runq, domq, curdom)
  BY IInvConsistent DEF IInv, TypeOK, Consistent, curdom
<1> QED BY <1>1, SwitchOrder, SameQueuesOrder

\* threadyield queues the running thread behind the others of its domain, and
\* its domain behind the other domains.
LEMMA YieldOrder ==
    ASSUME IInv, threadyield
    PROVE  FifoFrom(runq, domq, runq', domq')
<1>1. /\ curthr \in Threads /\ QueuesOK(runq, domq, curdom)
      /\ curthr \notin Queued(runq)
  BY IInvConsistent DEF IInv, TypeOK, Consistent, curdom
<1>2. CASE Panic
  BY <1>2, SameQueuesOrder DEF Panic
<1>3. CASE curthr = IdleThread /\ Sched_switch_to_nextThread(state, runq, domq)
  BY <1>3, LeaveOrder
<1>4. CASE Sched_switch_to_nextThread(state, threadrunq_append(runq, curthr), domq)
  <2> DEFINE m == threadrunq_append(runq, curthr)
  <2>1. QueuesOK(m, domq, curdom)
    <3>1. /\ QueuesOK(m, DomqAfterAppend(runq, domq, curthr), curdom)
          /\ curdom = Dom[curthr] => DomqAfterAppend(runq, domq, curthr) = domq
      BY <1>1, AppendQueues
    <3> QED BY <3>1 DEF curdom
  <2>2. runq \in [Domains -> Seq(Threads)] /\ curthr \notin Range(runq[Dom[curthr]])
    BY <1>1 DEF IInv, TypeOK, Queued
  <2>3. \A d \in Domains : /\ StaysInOrder(runq[d], m[d])
                           /\ Range(runq[d]) \subseteq Range(m[d])
    BY <1>1, <2>2, ThreadAppendOrder
  <2> HIDE DEF m
  <2>4. \/ runq' = runq /\ domq' = domq
        \/ FifoFrom(m, domq, runq', domq')
    BY <1>1, <1>4, <2>1, SwitchOrder DEF m
  <2>5. CASE FifoFrom(m, domq, runq', domq')
    <3>1. ASSUME NEW d \in Domains PROVE StaysInOrder(runq[d], runq'[d])
      BY <2>3, <2>5, OrderComposes DEF FifoFrom
    <3> QED BY <2>5, <3>1 DEF FifoFrom
  <2> QED BY <2>4, <2>5, SameQueuesOrder
<1> QED BY <1>2, <1>3, <1>4 DEF threadyield

\* A wait loop looks, and yields.
LEMMA PollOrder ==
    ASSUME IInv, NEW s, NEW t, PollRound(s, t)
    PROVE  FifoFrom(runq, domq, runq', domq')
BY YieldOrder, SameQueuesOrder DEF PollRound, runqVars

\* An interrupt handler or the end of one takes the CPU past the queues.
LEMMA SwitchDomainsOrder ==
    ASSUME IInv, NEW to \in Domains
    PROVE  StaysInOrder(domq, runqueue_switchdomains(runq, domq, to))
<1> DEFINE m == IF runq[curdom] # << >> THEN Append(domq, curdom) ELSE domq
<1>1. curdom \in Domains /\ domq \in Seq(Domains)
  BY RunqAssumption DEF IInv, TypeOK, curdom
<1>2. NoDuplicates(domq) /\ curdom \notin Range(domq)
  BY <1>1 DEF IInv, QueuesConsistent, DomainQueueOK
<1>3. /\ m \in Seq(Domains) /\ NoDuplicates(m) /\ StaysInOrder(domq, m)
      /\ Range(domq) \subseteq Range(m)
  <2>1. /\ Append(domq, curdom) \in Seq(Domains) /\ NoDuplicates(Append(domq, curdom))
        /\ Range(Append(domq, curdom)) = Range(domq) \cup {curdom}
    BY <1>1, <1>2, AppendFacts, Zenon
  <2>2. StaysInOrder(domq, Append(domq, curdom))
    BY <1>1, <1>2, AppendOrder, Zenon
  <2> QED BY <1>1, <1>2, <2>1, <2>2, SameOrder
<1>4. runqueue_switchdomains(runq, domq, to)
        = IF runq[to] # << >> THEN domainrunq_remove_domain(m, to) ELSE m
  BY DEF runqueue_switchdomains, domainrunq_append
<1> HIDE DEF m
<1>5. StaysInOrder(m, domainrunq_remove_domain(m, to))
  BY <1>3, UnlinkOrder
<1>6. StaysInOrder(domq, domainrunq_remove_domain(m, to))
  BY <1>3, <1>5, OrderComposes
<1> QED BY <1>3, <1>4, <1>6

\* The tick takes out the next thread, then queues the one that ran.
LEMMA RescheduleOrder ==
    ASSUME IInv, reschedule
    PROVE  FifoFrom(runq, domq, runq', domq')
<1> DEFINE R   == runqueue_removeFirstOrNULL(runq, domq)
           rq2 == IF curthr = IdleThread THEN R.rq ELSE threadrunq_append(R.rq, curthr)
           becomesRunnable == /\ curthr # IdleThread
                              /\ R.rq[curdom] = << >>
                              /\ Dom[R.next] # curdom
<1>1. /\ curthr \in Threads /\ QueuesOK(runq, domq, curdom) /\ curthr \notin Queued(runq)
      /\ \A x \in Queued(runq) : state[x] = RUNNABLE
      /\ state \in [Threads -> ThreadStates] /\ curdom \in Domains
  BY IInvConsistent, RunqAssumption DEF IInv, TypeOK, Consistent, curdom
<1>2. /\ FifoFrom(runq, domq, R.rq, R.dq)
      /\ \A d \in Domains : Range(R.rq[d]) \subseteq Range(runq[d])
  BY <1>1, RemoveFirstOrder
<1>3. \/ runq' = runq /\ domq' = domq
      \/ /\ R.next # NoThread
         /\ ~(becomesRunnable /\ curdom \in Range(R.dq))
         /\ runq' = rq2
         /\ domq' = IF becomesRunnable THEN domainrunq_append(R.dq, curdom) ELSE R.dq
  <2> HIDE DEF R
  <2> QED BY DEF reschedule, runqVars, Panic, R
<1>4. RemoveFirstResult(runq, domq, R)
  BY <1>1, RemoveFirst
<1> HIDE DEF R
<1>5. CASE /\ R.next # NoThread
           /\ ~(becomesRunnable /\ curdom \in Range(R.dq))
           /\ runq' = rq2
           /\ domq' = IF becomesRunnable THEN domainrunq_append(R.dq, curdom) ELSE R.dq
  <2>1. R.rq \in [Domains -> Seq(Threads)] /\ R.dq \in Seq(Domains)
    BY <1>4, <1>5 DEF RemoveFirstResult, QueuesOK, QueueTypes
  <2>2. ASSUME NEW d \in Domains PROVE curthr \notin Range(runq[d])
    BY <1>1, QueuedFacts DEF QueuesOK
  <2>3. ASSUME NEW d \in Domains PROVE StaysInOrder(runq[d], rq2[d])
    <3>1. curthr \notin Range(R.rq[Dom[curthr]])
      BY <1>1, <1>2, <2>2 DEF curdom
    <3>2. /\ StaysInOrder(R.rq[d], threadrunq_append(R.rq, curthr)[d])
          /\ Range(threadrunq_append(R.rq, curthr)[d]) \subseteq Range(R.rq[d]) \cup {curthr}
      BY <1>1, <2>1, <3>1, ThreadAppendOrder
    <3>3. StaysInOrder(runq[d], R.rq[d])
      BY <1>2 DEF FifoFrom
    <3>4. StaysInOrder(runq[d], threadrunq_append(R.rq, curthr)[d])
      <4>1. Range(runq[d]) \cap Range(threadrunq_append(R.rq, curthr)[d]) \subseteq Range(R.rq[d])
        BY <2>2, <3>2
      <4> QED BY <3>2, <3>3, <4>1, OrderComposes
    <3> QED BY <3>3, <3>4
  <2>4. StaysInOrder(domq, domq')
    <3>1. CASE ~becomesRunnable
      BY <1>2, <1>5, <3>1 DEF FifoFrom
    <3>2. CASE becomesRunnable
      <4>1. domq' = Append(R.dq, curdom) /\ curdom \notin Range(R.dq)
        BY <1>5, <3>2 DEF domainrunq_append
      <4>2. /\ StaysInOrder(R.dq, Append(R.dq, curdom))
            /\ Range(Append(R.dq, curdom)) = Range(R.dq) \cup {curdom}
        <5>1. StaysInOrder(R.dq, Append(R.dq, curdom))
          BY <1>1, <2>1, <4>1, AppendOrder, Zenon
        <5>2. Range(Append(R.dq, curdom)) = Range(R.dq) \cup {curdom}
          BY <1>1, <2>1, AppendFacts
        <5> QED BY <5>1, <5>2
      <4>3. curdom \notin Range(domq)
        BY <1>1 DEF QueuesOK, DomainQueueOK
      <4>4. StaysInOrder(domq, R.dq)
        BY <1>2 DEF FifoFrom
      <4> QED BY <4>1, <4>2, <4>3, <4>4, OrderComposes
    <3> QED BY <3>1, <3>2
  <2> QED BY <1>5, <2>3, <2>4 DEF FifoFrom
<1> QED BY <1>3, <1>5, SameQueuesOrder

\* Every step keeps the order of the queues.
LEMMA NextFifo ==
    ASSUME IInv, Next
    PROVE  FifoFrom(runq, domq, runq', domq')
<1>1. RUNNABLE \notin {"NONE", "INIT", "BLOCKEDUSER"}
  BY DEF RUNNABLE
<1>2. \A t \in Queued(runq) : state[t] = RUNNABLE
  BY IInvConsistent
<1>3. ASSUME NEW t \in Threads, ThreadStep(t) PROVE FifoFrom(runq, domq, runq', domq')
  <2>1. CASE createCPUState(t) \/ installFirstLevelHandler(t)
    BY <2>1, SameQueuesOrder DEF createCPUState, installFirstLevelHandler
  <2>2. CASE createThread(t) \/ start(t)
    <3>1. t \notin Queued(runq) /\ MakeRunnable(t)
      BY <1>1, <1>2, <2>2 DEF createThread, start
    <3> QED BY <3>1, MakeRunnableOrder
  <2>3. CASE unblock(t)
    <3>1. CASE state[t] = "BLOCKEDUSER"
      <4>1. t \notin Queued(runq) /\ MakeRunnable(t)
        BY <1>1, <1>2, <2>3, <3>1 DEF unblock
      <4> QED BY <4>1, MakeRunnableOrder
    <3>2. CASE state[t] # "BLOCKEDUSER"
      BY <2>3, <3>2, SameQueuesOrder DEF unblock, runqVars
    <3> QED BY <3>1, <3>2
  <2>4. CASE join(t) \/ waitUntilBlocked(t)
    BY <2>4, PollOrder DEF join, waitUntilBlocked
  <2>5. CASE irq_first_level_handler(t)
    <3>1. Dom[t] \in Domains
      BY RunqAssumption
    <3>2. /\ runq' = runq
          /\ domq' = domq \/ domq' = runqueue_switchdomains(runq, domq, Dom[t])
      BY <2>5 DEF irq_first_level_handler, Panic
    <3> QED BY <3>1, <3>2, SwitchDomainsOrder, SameOrder DEF FifoFrom
  <2> QED BY <1>3, <2>1, <2>2, <2>3, <2>4, <2>5 DEF ThreadStep
<1>4. CASE thread_exit \/ block \/ blockIfNotUnblocked \/ blockAndEnableThreadSwitching
  BY <1>4, LeaveOrder DEF thread_exit, block, blockIfNotUnblocked,
                          blockAndEnableThreadSwitching, Sched_block
<1>5. CASE yield \/ IdleYield
  BY <1>5, YieldOrder DEF yield, IdleYield
<1>6. CASE PollAgain
  BY <1>6, PollOrder DEF PollAgain
<1>7. CASE irq_exit
  <2>1. icurrent \in Threads
    BY <1>7 DEF irq_exit, IInv, TypeOK
  <2>2. Dom[icurrent] \in Domains
    BY <2>1, RunqAssumption
  <2>3. /\ runq' = runq
        /\ domq' = domq \/ domq' = runqueue_switchdomains(runq, domq, Dom[icurrent])
    BY <1>7 DEF irq_exit, Panic
  <2> QED BY <2>2, <2>3, SwitchDomainsOrder, SameOrder DEF FifoFrom
<1>8. CASE reschedule
  BY <1>8, RescheduleOrder
<1>9. CASE \/ clearUnblockFlag \/ UnhandledIrq \/ IdleCli
           \/ \E b \in BOOLEAN : setThreadSwitching(b)
  BY <1>9, SameQueuesOrder DEF clearUnblockFlag, UnhandledIrq, IdleCli, setThreadSwitching
<1> QED BY <1>3, <1>4, <1>5, <1>6, <1>7, <1>8, <1>9 DEF Next

\* Queues are FIFO: whatever threads, handlers, ticks and idle do, who stays in
\* a queue of threads or in the queue of domains stays before everybody that
\* was behind it and everybody that joins.
THEOREM QueuesStayFifo == Spec => QueuesAreFifo
<1>1. ASSUME IInv, [Next]_vars
      PROVE  [ /\ \A d \in Domains : StaysInOrder(runq[d], runq'[d])
               /\ StaysInOrder(domq, domq') ]_vars
  BY <1>1, NextFifo DEF FifoFrom
<1> QED BY <1>1, IInvAlways, PTL DEF Spec, QueuesAreFifo
=============================================================================
