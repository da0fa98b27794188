-------------------------------- MODULE Pic --------------------------------
(***************************************************************************)
(* Interrupts on one processor (arch/irq.c, Interface/zero_IRQ.c, the traps *)
(* of Assembly/hwint.S): the two 8259 controllers, the interrupt table, the *)
(* first-level handlers that run as threads, the local APIC's timer         *)
(* (arch/lapic.c), and the change of the video mode, which programs the     *)
(* controllers for real mode and back (Interface/zero_FBEmulation.c).       *)
(* The controllers themselves are hardware, modelled as the code uses them: *)
(* edge triggered, fully nested, no automatic end of interrupt.            *)
(***************************************************************************)
EXTENDS Integers, FiniteSets

CONSTANTS
    IrqLines,       \* the lines devices use
    LocalApic       \* detect_lAPIC finds a local APIC

MASTER_VECTOR == 32
SLAVE_VECTOR == 40
NINT == 255                 \* entries idt_load writes (APIC)
CASCADE == 2                \* the line of the master the slave is on
SPURIOUS == 7               \* what the master reports when the request is gone
LAPIC_TIMER_IRQNR == 200
LAPIC_TIMER_VECTOR == 225
Exception == -2             \* a trap of the processor
notDefined == -3
NoHandler == -1

\* The cascade is not a line of a device.
ASSUME PicAssumption == IrqLines \subseteq (0..15) \ {CASCADE} /\ LocalApic \in BOOLEAN

VARIABLES
    imr, irr, isr,  \* mask, request and in-service registers: lines 0-7 master, 8-15 slave
    enabled,        \* the irq with iInfos[irq].enabled = 1
    idt,            \* icore_idt: vector -> trap, an irq or "notDefined"
    installed,      \* the irq with an ifirstlevel_object
    threadState,    \* ithreads[irq]->state
    inumber,        \* inumber[0]: the irq whose handler runs, or NoHandler
    mode,           \* "boot", "pmode", or "rmode" while the BIOS has the controllers
    timer           \* the APIC's timer: "off", "masked" or "on"

picVars == <<imr, irr, isr, enabled, idt, installed, threadState, inumber, mode, timer>>

Master == 0..7
Slave == 8..15
Lowest(S) == CHOOSE x \in S : \A y \in S : x <= y

(***************************************************************************)
(* The interrupt table.                                                    *)
(***************************************************************************)

\* irqhandler[]: the traps of the 16 lines; exceptions are not told apart.
irqhandler(v) ==
    IF v \in MASTER_VECTOR..(SLAVE_VECTOR + 7) THEN v - MASTER_VECTOR
    ELSE IF v < 17 /\ v # 15 THEN Exception ELSE notDefined

\* idt_load writes every entry again whenever it is called.
idt_load == [v \in 0..(NINT - 1) |-> irqhandler(v)]

int_gate(t, v, trap) == [t EXCEPT ![v] = trap]

(***************************************************************************)
(* The controllers.  Each operation yields the new register.               *)
(***************************************************************************)

enable8259IRQ(m, irq) == IF irq \in Master THEN m \ {irq} ELSE m \ {CASCADE, irq}
disable8259IRQ(m, irq) == m \cup {irq}

\* 0x20: the highest in-service bit of the controller is cleared.
NonSpecificEOI(s, lines) == IF s \cap lines = {} THEN s ELSE s \ {Lowest(s \cap lines)}

\* 0x62 to the master ends line 2, 0x20 to the slave its highest.
ack8259IRQ(s, irq) ==
    IF irq \in Master THEN NonSpecificEOI(s, Master)
    ELSE NonSpecificEOI(s \ {CASCADE}, Slave)

\* What the slave, and with it the master, would forward now.
Unblocked(l, s, lines) == \A x \in s \cap lines : l < x
SlaveRequests == {l \in (irr \cap Slave) \ imr : Unblocked(l, isr, Slave)}
MasterRequests ==
    {l \in ((irr \cap Master) \cup (IF SlaveRequests = {} THEN {} ELSE {CASCADE})) \ imr :
        Unblocked(l, isr, Master)}

(***************************************************************************)
(* Start-up.                                                               *)
(***************************************************************************)

PicInit ==
    /\ imr = 0..15 /\ irr = {} /\ isr = {} /\ enabled = {} /\ installed = {}
    /\ idt = idt_load
    /\ threadState = [l \in IrqLines |-> "NONE"]
    /\ inumber = NoHandler /\ mode = "boot" /\ timer = "off"

\* enableIRQ on the controllers: unmask, note it, acknowledge.
Enabled8259(m, s, irq) == <<enable8259IRQ(m, irq), ack8259IRQ(s, irq)>>

\* pic_init_pmode: the initialization words clear the in-service and request
\* registers, all lines are masked, then the enabled ones are enabled again.
ReEnabled ==
    [m |-> 0..15 \ (enabled \cup (IF enabled \cap Slave = {} THEN {} ELSE {CASCADE})), s |-> {}]

\* main: pic_init_pmode and init_irq_data; init_apic in zero.c.
Boot ==
    /\ mode = "boot" /\ mode' = "pmode"
    /\ imr' = ReEnabled.m /\ isr' = ReEnabled.s /\ irr' = {}
    /\ IF LocalApic
       THEN idt' = int_gate(idt, LAPIC_TIMER_VECTOR, LAPIC_TIMER_IRQNR) /\ timer' = "on"
       ELSE UNCHANGED <<idt, timer>>
    /\ UNCHANGED <<enabled, installed, threadState, inumber>>

(***************************************************************************)
(* Requests of threads.  They run with interrupts enabled, a handler with   *)
(* interrupts disabled.                                                    *)
(***************************************************************************)

\* irq_enableIRQ, by a thread or by a handler.
enableIRQ(irq) ==
    /\ mode = "pmode" /\ irq \notin enabled
    /\ imr' = Enabled8259(imr, isr, irq)[1] /\ isr' = Enabled8259(imr, isr, irq)[2]
    /\ enabled' = enabled \cup {irq}
    /\ UNCHANGED <<irr, idt, installed, threadState, inumber, mode, timer>>

\* disableIRQ; the portal's disableIRQ does nothing.
disableIRQ(irq) ==
    /\ mode = "pmode" /\ irq \in enabled
    /\ imr' = disable8259IRQ(imr, irq)
    /\ enabled' = enabled \ {irq}
    /\ UNCHANGED <<irr, isr, idt, installed, threadState, inumber, mode, timer>>

\* irq_installFirstLevelHandler; a second handler is refused.
installFirstLevelHandler(irq) ==
    /\ mode = "pmode" /\ inumber = NoHandler /\ irq \notin installed
    /\ installed' = installed \cup {irq}
    /\ threadState' = [threadState EXCEPT ![irq] = "AVAILABLE"]
    /\ UNCHANGED <<imr, irr, isr, enabled, idt, inumber, mode, timer>>

\* fbemulation_open: pic_init_rmode and the BIOS, interrupts disabled.
EnterRealMode ==
    /\ mode = "pmode" /\ inumber = NoHandler
    /\ mode' = "rmode" /\ imr' = {} /\ isr' = {} /\ irr' = {}
    /\ UNCHANGED <<enabled, idt, installed, threadState, inumber, timer>>

\* ... and back: idt_load, pic_init_pmode.
LeaveRealMode ==
    /\ mode = "rmode" /\ mode' = "pmode"
    /\ idt' = idt_load
    /\ imr' = ReEnabled.m /\ isr' = ReEnabled.s /\ irr' = {}
    /\ UNCHANGED <<enabled, installed, threadState, inumber, timer>>

(***************************************************************************)
(* Interrupts.                                                             *)
(***************************************************************************)

\* A device raises its line.
Raise(l) ==
    /\ mode # "boot" /\ l \notin irr
    /\ irr' = irr \cup {l}
    /\ UNCHANGED <<imr, isr, enabled, idt, installed, threadState, inumber, mode, timer>>

\* The trap: line 7 is acknowledged and nothing else (hwint07); a line without
\* a handler is acknowledged; a handler's thread starts.
irq_first_level_handler(trap, s) ==
    IF trap = SPURIOUS \/ trap \notin installed
    THEN isr' = ack8259IRQ(s, trap) /\ UNCHANGED <<threadState, inumber>>
    ELSE /\ isr' = s
         /\ threadState[trap] = "AVAILABLE"
         /\ threadState' = [threadState EXCEPT ![trap] = "RUNNABLE"]
         /\ inumber' = trap

Interrupted == mode = "pmode" /\ inumber = NoHandler

\* The processor takes the request of highest priority.
Deliver ==
    /\ Interrupted /\ MasterRequests # {}
    /\ LET l == Lowest(MasterRequests)
           line == IF l = CASCADE THEN Lowest(SlaveRequests) ELSE l
           v == IF line \in Master THEN MASTER_VECTOR + line ELSE SLAVE_VECTOR + line - 8
       IN /\ irr' = irr \ {line}
          /\ irq_first_level_handler(idt[v], isr \cup {l, line})
    /\ UNCHANGED <<imr, enabled, idt, installed, mode, timer>>

\* The request is gone when the processor asks for it: line 7 is reported and
\* no in-service bit is set, or line 15 with that of the cascade.
DeliverSpurious ==
    /\ Interrupted /\ MasterRequests # {}
    /\ LET l == Lowest(MasterRequests)
           line == IF l = CASCADE THEN Lowest(SlaveRequests) ELSE l
       IN /\ irr' = irr \ {line}
          /\ isr' = IF l = CASCADE THEN ack8259IRQ(isr \cup {CASCADE}, 15) ELSE ack8259IRQ(isr, SPURIOUS)
    /\ UNCHANGED <<imr, enabled, idt, installed, threadState, inumber, mode, timer>>

\* The handler returns into irq_exit.
irq_exit ==
    /\ inumber # NoHandler
    /\ isr' = ack8259IRQ(isr, inumber)
    /\ threadState' = [threadState EXCEPT ![inumber] = "AVAILABLE"]
    /\ inumber' = NoHandler
    /\ UNCHANGED <<imr, irr, enabled, idt, installed, mode, timer>>

\* enable_APIC_clock and disable_APIC_clock
SwitchTimer ==
    /\ mode = "pmode" /\ timer # "off"
    /\ timer' = IF timer = "on" THEN "masked" ELSE "on"
    /\ UNCHANGED <<imr, irr, isr, enabled, idt, installed, threadState, inumber, mode>>

PicNext ==
    \/ Boot \/ EnterRealMode \/ LeaveRealMode
    \/ Deliver \/ DeliverSpurious \/ irq_exit
    \/ LocalApic /\ SwitchTimer
    \/ \E l \in IrqLines : Raise(l) \/ enableIRQ(l) \/ disableIRQ(l) \/ installFirstLevelHandler(l)

PicSpec == PicInit /\ [][PicNext]_picVars

(***************************************************************************)
(* Properties                                                              *)
(***************************************************************************)

\* The line, if requested alone, would reach the trap of its irq.
Forwarded(l) ==
    /\ l \notin imr /\ Unblocked(l, isr, IF l \in Master THEN Master ELSE Slave)
    /\ l \in Slave => CASCADE \notin imr /\ Unblocked(CASCADE, isr, Master)
    /\ idt[IF l \in Master THEN MASTER_VECTOR + l ELSE SLAVE_VECTOR + l - 8] = l

\* While no handler runs, exactly the lines that were enabled get through to
\* their handlers: every interrupt before was acknowledged at the right
\* controllers, spurious ones did not end others, and a change of the video
\* mode in between has restored masks and traps (irq.c 456-502, 544-608;
\* zero_IRQ.c 172-195, 212-216).
EnabledLinesReachCpu ==
    Interrupted => \A l \in IrqLines : l \in enabled <=> Forwarded(l)

\* irq.h: "following calls will only load the pointer in the IDT-Reg."  The
\* code builds the table again, so this fails: gates other components have
\* installed stay installed.
GatesStay ==
    mode = "pmode" /\ timer # "off" => idt[LAPIC_TIMER_VECTOR] = LAPIC_TIMER_IRQNR
=============================================================================
