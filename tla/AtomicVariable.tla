--------------------------- MODULE AtomicVariable ---------------------------
(***************************************************************************)
(* Atomic variables (Interface/zero_AtomicVariable.c): values that threads  *)
(* test and block on with interrupts disabled.  The blocked threads of a    *)
(* variable are one pointer, or after activateListMode a list linked        *)
(* through thread->next: one field per thread (thread.h 107), shared by all *)
(* variables and by CPUState.setNext, that waking a thread does not clear.  *)
(***************************************************************************)
EXTENDS Integers, Sequences

CONSTANTS
    Variables,      \* the atomic variables
    Waiters,        \* the threads that use them
    Values,         \* the values they take
    Nobody

ASSUME AtomicAssumption == Nobody \notin Waiters /\ Nobody \notin Variables

VARIABLES
    value,          \* self->value of each variable
    listMode,       \* self->listMode
    blockedThread,  \* self->blockedThread
    nextThread,     \* thread->next of each thread
    sleepsOn,       \* the variable a thread is BLOCKEDUSER on; RUNNABLE: Nobody
    relinked,       \* the next field of a thread was set while it was in a list
    trap            \* "none", a failed "assertion", or a loop that is a "ring"

atomicVars == <<value, listMode, blockedThread, nextThread, sleepsOn, relinked, trap>>

AtomicInit ==
    /\ value \in [Variables -> Values]
    /\ listMode = [v \in Variables |-> FALSE]
    /\ blockedThread = [v \in Variables |-> Nobody]
    /\ nextThread = [t \in Waiters |-> Nobody]
    /\ sleepsOn = [t \in Waiters |-> Nobody]
    /\ relinked = FALSE /\ trap = "none"

RunsThread(t) == sleepsOn[t] = Nobody

\* atomicvariable_set wakes nobody.
SetValue(t, v, n) ==
    /\ RunsThread(t) /\ value[v] # n
    /\ value' = [value EXCEPT ![v] = n]
    /\ UNCHANGED <<listMode, blockedThread, nextThread, sleepsOn, relinked, trap>>

\* A set of threads that the next fields do not lead out of.
Closed(S) == \A t \in S : nextThread[t] \in S \cup {Nobody}

\* The threads the loop over the list meets: those in every closed set that has
\* the head of the list.
Listed(v) ==
    { t \in Waiters :
        \A S \in SUBSET Waiters :
            Closed(S) /\ blockedThread[v] \in S \cup {Nobody} => t \in S }

\* The threads an update of the variable looks at.
Found(v) == IF listMode[v] THEN Listed(v) ELSE {blockedThread[v]} \cap Waiters

\* A loop over the list that never meets its end.
Ring(v) == Listed(v) # {} /\ \A t \in Listed(v) : nextThread[t] # Nobody

\* Setting the next field of t, to n.
SetsNext(t, n) ==
    /\ nextThread' = [nextThread EXCEPT ![t] = n]
    /\ relinked' = (relinked \/ \E v \in Variables : listMode[v] /\ t \in Listed(v))

Traps(why) == trap' = why /\ UNCHANGED <<value, listMode, blockedThread, nextThread, sleepsOn, relinked>>

\* atomicvariable_atomicUpdateUnblock
UpdateUnblock(t, v, n, cpuState) ==
    /\ RunsThread(t)
    /\ IF listMode[v] /\ Ring(v) THEN Traps("ring")
       ELSE IF ~listMode[v] /\ cpuState # Nobody /\ blockedThread[v] \notin {Nobody, cpuState} THEN Traps("assertion")
       ELSE /\ value' = [value EXCEPT ![v] = n]
            /\ IF listMode[v]
               THEN /\ sleepsOn' = [x \in Waiters |-> IF x \in Listed(v) THEN Nobody ELSE sleepsOn[x]]
                    /\ blockedThread' = [blockedThread EXCEPT ![v] = Nobody]
               ELSE IF cpuState # Nobody /\ blockedThread[v] # Nobody /\ sleepsOn[cpuState] # Nobody
               THEN /\ sleepsOn' = [sleepsOn EXCEPT ![cpuState] = Nobody]
                    /\ blockedThread' = [blockedThread EXCEPT ![v] = Nobody]
               ELSE UNCHANGED <<sleepsOn, blockedThread>>
            /\ UNCHANGED <<listMode, nextThread, relinked, trap>>

\* Mutant: list mode forgets those who are already there.
BlockHere_Forget(t, v) ==
    IF ~listMode[v] /\ blockedThread[v] \notin {Nobody, t} THEN Traps("assertion")
    ELSE /\ blockedThread' = [blockedThread EXCEPT ![v] = t]
         /\ sleepsOn' = [sleepsOn EXCEPT ![t] = v]
         /\ UNCHANGED <<value, listMode, nextThread, relinked, trap>>

\* The body both tests share.
BlockHere(t, v) ==
    IF ~listMode[v] /\ blockedThread[v] \notin {Nobody, t} THEN Traps("assertion")
    ELSE /\ IF listMode[v] THEN SetsNext(t, blockedThread[v]) ELSE UNCHANGED <<nextThread, relinked>>
         /\ blockedThread' = [blockedThread EXCEPT ![v] = t]
         /\ sleepsOn' = [sleepsOn EXCEPT ![t] = v]
         /\ UNCHANGED <<value, listMode, trap>>

\* atomicvariable_blockIfEqual, atomicvariable_blockIfNotEqual
blockIfEqual(t, v, n) == RunsThread(t) /\ value[v] = n /\ BlockHere(t, v)
blockIfNotEqual(t, v, n) == RunsThread(t) /\ value[v] # n /\ BlockHere(t, v)

\* atomicvariable_activateListMode
activateListMode(t, v) ==
    /\ RunsThread(t) /\ ~listMode[v]
    /\ listMode' = [listMode EXCEPT ![v] = TRUE]
    /\ UNCHANGED <<value, blockedThread, nextThread, sleepsOn, relinked, trap>>

\* cpuManager.unblock of a thread that waits for a variable.
ForeignWakes(t) ==
    /\ ~RunsThread(t)
    /\ sleepsOn' = [sleepsOn EXCEPT ![t] = Nobody]
    /\ UNCHANGED <<value, listMode, blockedThread, nextThread, relinked, trap>>

\* cpuState_setNext: a thread keeps lists of its own through the same field.
setNext(t, x, n) ==
    /\ RunsThread(t) /\ nextThread[x] # n
    /\ SetsNext(x, n)
    /\ UNCHANGED <<value, listMode, blockedThread, sleepsOn, trap>>

AtomicStep(t) ==
    \/ \E v \in Variables, n \in Values :
          \/ SetValue(t, v, n) \/ blockIfEqual(t, v, n) \/ blockIfNotEqual(t, v, n)
          \/ \E c \in Waiters \cup {Nobody} : UpdateUnblock(t, v, n, c)
    \/ \E v \in Variables : activateListMode(t, v)
    \/ ForeignWakes(t)
    \/ \E x \in Waiters, n \in Waiters \cup {Nobody} : setNext(t, x, n)

AtomicNext == trap = "none" /\ \E t \in Waiters : AtomicStep(t)

AtomicSpec == AtomicInit /\ [][AtomicNext]_atomicVars

\* Nobody sleeps on a variable that an update of it does not look at: a thread
\* that waits stays in the list, or is the one thread, of its variable, also when
\* others came before list mode was activated, stale next fields of other
\* variables hang on the list, or a thread was woken by cpuManager.unblock and
\* waits elsewhere (zero_AtomicVariable.c 24-28, 61-66, 80-85).  Left out is what
\* follows once the next field of a thread was set while the thread was in a
\* list: Reachable states the rest and does not hold.
SleepersReachable ==
    trap = "none" /\ ~relinked
        => \A v \in Variables : {t \in Waiters : sleepsOn[t] = v} \subseteq Found(v)

\* Not so: a thread that was woken by cpuManager.unblock and is still in the list
\* waits again, for the same variable or another, and its next field is set anew:
\* who came before it is in no list any more (62-63, 81-82).
Reachable ==
    trap = "none" => \A v \in Variables : {t \in Waiters : sleepsOn[t] = v} \subseteq Found(v)

\* Not so: an update wakes threads that do not sleep on its variable, those
\* that stale next fields lead to (26).
WakesOnlySleepers == \A v \in Variables : Found(v) \subseteq {t \in Waiters : sleepsOn[t] = v}
=============================================================================
