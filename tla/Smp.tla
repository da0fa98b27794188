-------------------------------- MODULE Smp --------------------------------
(***************************************************************************)
(* Several processors (build with SMP): the boot processor starts the       *)
(* others one by one (arch/smp_activate.c), and processors run functions on *)
(* each other with an inter-processor interrupt (arch/smp.c, ipiint.S).     *)
(* How long a processor takes to answer is not bounded by the code: Prompt  *)
(* says whether the boot processor's patience is always enough.            *)
(***************************************************************************)
EXTENDS Integers, Sequences, FiniteSets

CONSTANTS
    Order,          \* present_cpu_ID; the ids are numbers
    Bsp,            \* BSP_id
    MaxPolls,       \* the 500 polls of do_boot_cpu for the answer
    MaxCalls,       \* bound: calls of smp_call_function
    Prompt          \* a processor that will answer answers in time

Cpus == {Order[i] : i \in DOMAIN Order}
ASSUME SmpAssumption ==
    /\ Order \in Seq(Nat) /\ \A i, j \in DOMAIN Order : Order[i] = Order[j] => i = j
    /\ Bsp \in Cpus /\ MaxPolls \in Nat /\ MaxCalls \in Nat /\ Prompt \in BOOLEAN

NoCpu == -1
ALLBUT == -2        \* APIC_DEST_ALLBUT
ALLINC == -3        \* APIC_DEST_ALLINC

VARIABLES
    bootPc,         \* where smp_init is: "next", "startup", "callin", "calibrate", "calibrating", "done"
    bootIdx,        \* i of smp_boot_cpus
    tries,          \* j: STARTUP interrupts sent
    polls,          \* timeout of do_boot_cpu
    cpuState,       \* "off", "waiting" in smp_callin, "ready" at the barrier, "idle", "stopped"
    callout, callin, commenced,
    online,         \* online_cpu_ID
    callLock,       \* the spin lock of smp_call_function: its holder
    call_data,      \* the processor whose record call_data points to
    data,           \* the records on the stacks of the callers
    callPc,         \* "none", "spin", "started", "finished", "returning"
    ipi,            \* processors with a pending CALL_FUNCTION_VECTOR
    handling,       \* what call_function_ipi_handler has read
    calls, wild     \* calls so far; a dead record was written

bootVars == <<bootPc, bootIdx, tries, polls, cpuState, callout, callin, commenced, online>>
callVars == <<callLock, call_data, data, callPc, ipi, handling, calls, wild>>
smpVars == <<bootVars, callVars>>

NoCounts == [c \in Cpus |-> 0]
NoCall == [dest |-> NoCpu, cpus |-> 0, wait |-> FALSE, started |-> 0, finished |-> 0,
           ran |-> NoCounts, ended |-> NoCounts, members |-> {}]
NotHandling == [on |-> FALSE, wait |-> FALSE, caller |-> NoCpu]

SmpInit ==
    /\ bootPc = "next" /\ bootIdx = 1 /\ tries = 0 /\ polls = 0
    /\ cpuState = [c \in Cpus |-> IF c = Bsp THEN "idle" ELSE "off"]
    /\ callout = {} /\ callin = {} /\ commenced = FALSE /\ online = << >>
    /\ callLock = NoCpu /\ call_data = NoCpu
    /\ data = [c \in Cpus |-> NoCall] /\ callPc = [c \in Cpus |-> "none"]
    /\ ipi = {} /\ handling = [c \in Cpus |-> NotHandling]
    /\ calls = 0 /\ wild = FALSE

(***************************************************************************)
(* smp_activate.c: the boot processor                                      *)
(***************************************************************************)

Booting == Order[bootIdx]
NextCpu == bootPc' = "next" /\ bootIdx' = bootIdx + 1

\* smp_boot_cpus: the next processor; the boot processor is online.
BootNext ==
    /\ bootPc = "next"
    /\ IF bootIdx > Len(Order)
       THEN bootPc' = "calibrate" /\ UNCHANGED <<bootIdx, online, callout, tries>>
       ELSE IF Booting = Bsp
       THEN NextCpu /\ online' = Append(online, Bsp) /\ UNCHANGED <<callout, tries>>
       ELSE /\ bootPc' = "startup" /\ tries' = 0
            /\ callout' = callout \ {Booting}
            /\ UNCHANGED <<bootIdx, online>>
    /\ UNCHANGED <<polls, cpuState, callin, commenced>>

\* INIT and a STARTUP interrupt; the APIC reports how it went, and the
\* processor has started or not.  One retry.  82489DX need no STARTUP.
SendStartup(ok, starts) ==
    /\ bootPc = "startup"
    /\ cpuState' = IF starts /\ cpuState[Booting] = "off"
                   THEN [cpuState EXCEPT ![Booting] = "waiting"] ELSE cpuState
    /\ tries' = tries + 1
    /\ IF ok
       THEN /\ callin' = callin \ {Booting} /\ callout' = callout \cup {Booting}
            /\ polls' = 0 /\ bootPc' = "callin" /\ UNCHANGED bootIdx
       ELSE /\ IF tries = 0 THEN UNCHANGED <<bootPc, bootIdx>> ELSE NextCpu
            /\ UNCHANGED <<callin, callout, polls>>
    /\ UNCHANGED <<commenced, online>>

\* The loop that waits for cpu_callin[id], and its end.
PollCallin ==
    /\ bootPc = "callin"
    /\ IF Booting \in callin THEN NextCpu /\ online' = Append(online, Booting) /\ UNCHANGED polls
       ELSE IF polls < MaxPolls THEN polls' = polls + 1 /\ UNCHANGED <<bootPc, bootIdx, online>>
       ELSE /\ Prompt => cpuState[Booting] # "waiting"
            /\ NextCpu /\ UNCHANGED <<polls, online>>
    /\ UNCHANGED <<tries, cpuState, callout, callin, commenced>>

(***************************************************************************)
(* smp_activate.c: the other processors                                    *)
(***************************************************************************)

\* smp_callin, called out: APIC, interrupts, answer.
Callin(c) ==
    /\ cpuState[c] = "waiting" /\ c \in callout
    /\ cpuState' = [cpuState EXCEPT ![c] = "ready"]
    /\ callin' = callin \cup {c}
    /\ UNCHANGED <<bootPc, bootIdx, tries, polls, callout, commenced, online>>

\* stop_this_cpu takes itself off the list, in the place of the last.
WithoutCpu(s, c) ==
    IF \E i \in DOMAIN s : s[i] = c
    THEN LET i == CHOOSE i \in DOMAIN s : s[i] = c
         IN SubSeq([s EXCEPT ![i] = s[Len(s)]], 1, Len(s) - 1)
    ELSE s

GiveUp(c) ==
    /\ cpuState[c] = "waiting" /\ c \notin callout
    /\ cpuState' = [cpuState EXCEPT ![c] = "stopped"]
    /\ online' = WithoutCpu(online, c)
    /\ UNCHANGED <<bootPc, bootIdx, tries, polls, callout, callin, commenced>>

\* start_secondary, past the barrier.
EnterIdle(c) ==
    /\ cpuState[c] = "ready" /\ commenced /\ ~handling[c].on
    /\ cpuState' = [cpuState EXCEPT ![c] = "idle"]
    /\ UNCHANGED <<bootPc, bootIdx, tries, polls, callout, callin, commenced, online>>

(***************************************************************************)
(* smp.c                                                                   *)
(***************************************************************************)

\* How many processors smp_call_function expects.
Expected(dest) ==
    CASE dest = ALLINC -> Len(online) [] dest = ALLBUT -> Len(online) - 1 [] OTHER -> 1

\* Whom the APIC interrupts: everybody who listens, or one.
Listening == {c \in Cpus : cpuState[c] \in {"ready", "idle"}}
Reached(c, dest) ==
    CASE dest = ALLINC -> Listening [] dest = ALLBUT -> Listening \ {c} [] OTHER -> {dest} \cap Listening

\* Those of them that are online: whom the caller means.
Meant(c, dest) ==
    LET on == {online[i] : i \in DOMAIN online}
    IN CASE dest = ALLINC -> on [] dest = ALLBUT -> on \ {c} [] OTHER -> {dest}

Calls(c, dest, wait) ==
    /\ Expected(dest) > 0 /\ callPc[c] = "none" /\ ~handling[c].on
    /\ data' = [data EXCEPT ![c] = [NoCall EXCEPT !.dest = dest, !.cpus = Expected(dest), !.wait = wait,
                                                  !.members = Meant(c, dest)]]
    /\ callPc' = [callPc EXCEPT ![c] = "spin"]
    /\ calls' = calls + 1
    /\ UNCHANGED <<callLock, call_data, ipi, handling, wild>>

\* smp_call_function, by a processor that runs threads.
smp_call_function(c, dest, wait) ==
    /\ cpuState[c] = "idle" /\ (c = Bsp => bootPc = "done") /\ calls < MaxCalls
    /\ Calls(c, dest, wait)
    /\ UNCHANGED bootVars

\* calibrate_APIC_clock has the others set their timers, and waits.
Calibrate ==
    /\ bootPc = "calibrate"
    /\ IF Expected(ALLBUT) > 0
       THEN Calls(Bsp, ALLBUT, TRUE) /\ bootPc' = "calibrating"
       ELSE bootPc' = "calibrating" /\ UNCHANGED callVars
    /\ UNCHANGED <<bootIdx, tries, polls, cpuState, callout, callin, commenced, online>>

\* ... then the barrier opens.
Commence ==
    /\ bootPc = "calibrating" /\ callPc[Bsp] = "none"
    /\ bootPc' = "done" /\ commenced' = TRUE
    /\ UNCHANGED <<bootIdx, tries, polls, cpuState, callout, callin, online, callVars>>

\* Mutant: the lock is not taken.
AcquireAndSend_NoLock(c) ==
    /\ callPc[c] = "spin" /\ ~handling[c].on
    /\ callLock' = c /\ call_data' = c
    /\ ipi' = ipi \cup Reached(c, data[c].dest)
    /\ callPc' = [callPc EXCEPT ![c] = "started"]
    /\ UNCHANGED <<data, handling, calls, wild, bootVars>>

\* spin_lock, call_data = &data, send_IPI
AcquireAndSend(c) ==
    /\ callPc[c] = "spin" /\ ~handling[c].on /\ callLock = NoCpu
    /\ callLock' = c /\ call_data' = c
    /\ ipi' = ipi \cup Reached(c, data[c].dest)
    /\ callPc' = [callPc EXCEPT ![c] = "started"]
    /\ UNCHANGED <<data, handling, calls, wild, bootVars>>

\* The two waits, and the way out.
WaitStarted(c) ==
    /\ callPc[c] = "started" /\ ~handling[c].on /\ data[c].started = data[c].cpus
    /\ callPc' = [callPc EXCEPT ![c] = IF data[c].wait THEN "finished" ELSE "returning"]
    /\ UNCHANGED <<callLock, call_data, data, ipi, handling, calls, wild, bootVars>>
WaitFinished(c) ==
    /\ callPc[c] = "finished" /\ ~handling[c].on /\ data[c].finished = data[c].cpus
    /\ callPc' = [callPc EXCEPT ![c] = "returning"]
    /\ UNCHANGED <<callLock, call_data, data, ipi, handling, calls, wild, bootVars>>
Return(c) ==
    /\ callPc[c] = "returning" /\ ~handling[c].on
    /\ callLock' = NoCpu
    /\ callPc' = [callPc EXCEPT ![c] = "none"]
    /\ data' = [data EXCEPT ![c] = NoCall]
    /\ UNCHANGED <<call_data, ipi, handling, calls, wild, bootVars>>

\* call_function_ipi_handler: up to the call of the function.
HandleIpi(c) ==
    /\ c \in ipi /\ ~handling[c].on /\ cpuState[c] \in {"ready", "idle"}
    /\ ipi' = ipi \ {c}
    /\ handling' = [handling EXCEPT ![c] = [on |-> TRUE, wait |-> data[call_data].wait, caller |-> call_data]]
    /\ data' = [data EXCEPT ![call_data].started = @ + 1, ![call_data].ran[c] = @ + 1]
    /\ wild' = (wild \/ callPc[call_data] \notin {"started", "finished"})
    /\ UNCHANGED <<callLock, call_data, callPc, calls, bootVars>>

\* The function has returned; call_data is read again for the result.
EndIpi(c) ==
    /\ handling[c].on
    /\ handling' = [handling EXCEPT ![c] = NotHandling]
    /\ IF handling[c].wait
       THEN /\ data' = [data EXCEPT ![call_data].finished = @ + 1, ![call_data].ended[c] = @ + 1]
            /\ wild' = (wild \/ callPc[call_data] \notin {"started", "finished"})
       ELSE UNCHANGED <<data, wild>>
    /\ UNCHANGED <<callLock, call_data, callPc, ipi, calls, bootVars>>

SmpNext ==
    \/ ~handling[Bsp].on /\ (BootNext \/ PollCallin \/ \E ok, starts \in BOOLEAN : SendStartup(ok, starts)) /\ UNCHANGED callVars
    \/ ~handling[Bsp].on /\ (Calibrate \/ Commence)
    \/ \E c \in Cpus :
        \/ (Callin(c) \/ GiveUp(c) \/ EnterIdle(c)) /\ UNCHANGED callVars
        \/ \E dest \in {ALLBUT, ALLINC} \cup {online[i] : i \in DOMAIN online}, wait \in BOOLEAN :
            smp_call_function(c, dest, wait)
        \/ AcquireAndSend(c) \/ WaitStarted(c) \/ WaitFinished(c) \/ Return(c)
        \/ HandleIpi(c) \/ EndIpi(c)

SmpSpec == SmpInit /\ [][SmpNext]_smpVars

(***************************************************************************)
(* Properties                                                              *)
(***************************************************************************)

\* smp.c 122-123: the call "Does not return until remote CPUs are nearly ready
\* to execute <<func>> or are or have executed".  When smp_call_function is
\* about to return, every processor meant has begun the function exactly once,
\* has finished it if the caller waits, and nobody has written to the record
\* of a call that is over (smp.c 128-190).
CrossCallComplete ==
    /\ ~wild
    /\ \A c \in Cpus : callPc[c] = "returning" =>
        \A d \in data[c].members : data[c].ran[d] = 1 /\ (data[c].wait => data[c].ended[d] = 1)

\* When all processors have been tried, those that take interrupts are the
\* ones on the list the kernel counts with, whatever start-up interrupts got
\* lost or had to be repeated (smp_activate.c 100-184, 230-295).
OnlineExact ==
    bootPc \in {"calibrate", "calibrating", "done"} => \A c \in Cpus :
        (\E i \in DOMAIN online : online[i] = c) <=> cpuState[c] \in {"ready", "idle"}
=============================================================================
