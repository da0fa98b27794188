-------------------------- MODULE Platform_proofs --------------------------
(***************************************************************************)
(* Proofs about the machine below the kernel (Platform): the interrupt       *)
(* controllers pass on exactly what is enabled, for any set of lines, and    *)
(* the processors of a multiprocessor are counted and called exactly once,   *)
(* for any number of them.                                                  *)
(***************************************************************************)
EXTENDS Platform, FiniteSetTheorems, WellFoundedInduction, TLAPS

-----------------------------------------------------------------------------
(* Interrupt controllers                                                   *)

Lines == 0..15
Modes == {"boot", "pmode", "rmode"}

PicTypes ==
    /\ imr \subseteq Lines /\ irr \subseteq IrqLines /\ isr \subseteq Lines
    /\ enabled \subseteq IrqLines /\ installed \subseteq IrqLines
    /\ inumber \in IrqLines \cup {NoHandler} /\ mode \in Modes

\* What may be in service: nothing while no handler runs, else the line of the
\* handler and, for a line of the slave, the cascade.  A handler may have ended
\* them already, by enabling a line.
InService(s, n) ==
    /\ n # SPURIOUS
    /\ n = NoHandler => s = {}
    /\ n \in Master => s \subseteq {n}
    /\ n \in Slave => s \subseteq {CASCADE, n}

\* The masks are those of the enabled lines; the cascade is open for them.
MasksRight(m) ==
    /\ \A l \in IrqLines : l \in m <=> l \notin enabled
    /\ enabled \cap Slave # {} => CASCADE \notin m

\* The traps of the lines.
TrapsRight(t) == DOMAIN t = 0..(NINT - 1) /\ \A v \in MASTER_VECTOR..(SLAVE_VECTOR + 7) : t[v] = v - MASTER_VECTOR

PicInv ==
    /\ PicTypes
    /\ InService(isr, inumber)
    /\ mode = "pmode" => MasksRight(imr)
    /\ mode # "pmode" => inumber = NoHandler
    /\ TrapsRight(idt)

\* A nonempty set of numbers has a least element.
LEMMA LeastOf ==
    ASSUME NEW S \in SUBSET Nat, S # {}
    PROVE  \E m \in S : \A y \in S : m <= y
<1>1. IsWellFoundedOn(OpToRel(<, Nat), Nat)
  BY NatLessThanWellFounded, Zenon
<1>2. PICK m \in S : \A y \in S : <<y, m>> \notin OpToRel(<, Nat)
  BY <1>1, WFMin, Zenon
<1>3. ASSUME NEW y \in S, y < m PROVE FALSE
  <2>1. <<y, m>> \in OpToRel(<, Nat)
    BY <1>3 DEF OpToRel
  <2> QED BY <1>2, <2>1
<1> QED BY <1>3

\* The lowest member of a set of lines is one of them.
LEMMA LowestIn ==
    ASSUME NEW S \in SUBSET Lines, S # {}
    PROVE  Lowest(S) \in S
<1>1. S \in SUBSET Nat
  BY DEF Lines
<1>2. \E x \in S : \A y \in S : x <= y
  BY <1>1, LeastOf
<1> QED BY <1>2 DEF Lowest

\* The end of an interrupt that is alone in its controller leaves nothing.
LEMMA EndOfOne ==
    ASSUME NEW lines, NEW l \in lines, NEW s, s \subseteq {l}
    PROVE  NonSpecificEOI(s, lines) = {}
<1>1. CASE s = {}
  BY <1>1 DEF NonSpecificEOI
<1>2. CASE s = {l}
  <2>1. s \cap lines = {l}
    BY <1>2
  <2>2. Lowest({l}) = l
    BY DEF Lowest
  <2> QED BY <1>2, <2>1, <2>2 DEF NonSpecificEOI
<1> QED BY <1>1, <1>2

\* The end of an interrupt takes nothing but bits away.
LEMMA EndShrinks ==
    ASSUME NEW s, NEW irq
    PROVE  ack8259IRQ(s, irq) \subseteq s
BY DEF ack8259IRQ, NonSpecificEOI

\* The handler's acknowledgement ends what is in service.
LEMMA AckEnds ==
    ASSUME NEW l \in IrqLines, NEW s,
           l \in Master => s \subseteq {l}, l \in Slave => s \subseteq {CASCADE, l}
    PROVE  ack8259IRQ(s, l) = {}
<1>1. l \in Lines /\ l # CASCADE
  BY PicAssumption DEF Lines
<1>2. CASE l \in Master
  BY <1>2, EndOfOne DEF ack8259IRQ
<1>3. CASE l \notin Master
  <2>1. l \in Slave
    BY <1>1, <1>3 DEF Lines, Master, Slave
  <2>2. s \ {CASCADE} \subseteq {l}
    BY <2>1
  <2> QED BY <1>3, <2>1, <2>2, EndOfOne DEF ack8259IRQ
<1> QED BY <1>2, <1>3

\* What the controllers forward: a line that is requested and not masked, and,
\* behind the cascade, one of the slave.
LEMMA RequestsAreLines ==
    ASSUME PicInv, MasterRequests # {}
    PROVE  LET l == Lowest(MasterRequests)
               line == IF l = CASCADE THEN Lowest(SlaveRequests) ELSE l
           IN /\ line \in IrqLines
              /\ l = CASCADE => line \in Slave
              /\ l # CASCADE => line \in Master
<1> DEFINE l == Lowest(MasterRequests)
<1>1. irr \subseteq IrqLines /\ IrqLines \subseteq Lines /\ CASCADE \notin IrqLines /\ CASCADE \in Lines
  BY PicAssumption DEF PicInv, PicTypes, Lines, CASCADE
<1>2. MasterRequests \in SUBSET Lines /\ SlaveRequests \in SUBSET Lines
  BY <1>1 DEF MasterRequests, SlaveRequests
<1>3. l \in MasterRequests
  BY <1>2, LowestIn
<1>4. CASE l = CASCADE
  <2>1. SlaveRequests # {}
    BY <1>1, <1>3, <1>4 DEF MasterRequests
  <2>2. Lowest(SlaveRequests) \in SlaveRequests
    BY <1>2, <2>1, LowestIn
  <2>3. Lowest(SlaveRequests) \in irr \cap Slave
    BY <2>2 DEF SlaveRequests
  <2> QED BY <1>1, <1>4, <2>3
<1>5. CASE l # CASCADE
  BY <1>1, <1>3, <1>5 DEF MasterRequests
<1> QED BY <1>4, <1>5

\* After a delivery only the line's handler is in service, or nothing.
LEMMA Delivered ==
    ASSUME PicInv, Deliver
    PROVE  /\ InService(isr', inumber') /\ isr' \subseteq Lines
           /\ inumber' \in IrqLines \cup {NoHandler} /\ irr' \subseteq IrqLines
<1> DEFINE l == Lowest(MasterRequests)
           line == IF l = CASCADE THEN Lowest(SlaveRequests) ELSE l
           v == IF line \in Master THEN MASTER_VECTOR + line ELSE SLAVE_VECTOR + line - 8
           s == isr \cup {l, line}
<1>1. /\ Interrupted /\ MasterRequests # {} /\ irr' = irr \ {line}
      /\ irq_first_level_handler(idt[v], s)
  BY DEF Deliver
<1>2. line \in IrqLines /\ (l = CASCADE => line \in Slave) /\ (l # CASCADE => line \in Master)
  BY <1>1, RequestsAreLines
<1>3. isr = {}
  BY <1>1 DEF PicInv, InService, Interrupted
<1>4. l = CASCADE \/ l = line
  OBVIOUS
<1> HIDE DEF l, line
<1>5. s \subseteq {CASCADE, line} /\ (line \in Master => s \subseteq {line})
  BY <1>2, <1>3, <1>4 DEF Master, Slave, CASCADE
<1>6. line \in Lines
  BY <1>2, PicAssumption DEF Lines
<1>7. v \in MASTER_VECTOR..(SLAVE_VECTOR + 7) /\ v - MASTER_VECTOR = line
  BY <1>6 DEF Lines, Master, MASTER_VECTOR, SLAVE_VECTOR
<1> HIDE DEF v, s
<1>8. idt[v] = line
  BY <1>7 DEF PicInv, TrapsRight
<1>9. s \subseteq Lines
  BY <1>5, <1>6 DEF CASCADE, Lines
<1>10. CASE line = SPURIOUS \/ line \notin installed
  <2>1. isr' = ack8259IRQ(s, line) /\ inumber' = inumber
    BY <1>1, <1>8, <1>10 DEF irq_first_level_handler
  <2>2. isr' = {}
    BY <1>2, <1>5, <2>1, AckEnds
  <2>3. inumber' = NoHandler
    BY <1>1, <2>1 DEF Interrupted
  <2> QED BY <1>1, <2>2, <2>3 DEF InService, NoHandler, SPURIOUS, Master, Slave, PicInv, PicTypes
<1>11. CASE ~(line = SPURIOUS \/ line \notin installed)
  <2>1. isr' = s /\ inumber' = line
    BY <1>1, <1>8, <1>11 DEF irq_first_level_handler
  <2>2. line # NoHandler
    BY <1>6 DEF Lines, NoHandler
  <2> QED BY <1>1, <1>2, <1>5, <1>9, <1>11, <2>1, <2>2 DEF InService, PicInv, PicTypes
<1> QED BY <1>10, <1>11

-----------------------------------------------------------------------------

\* The invariant holds when the machine starts.
LEMMA PicStarts == PicInit => PicInv
<1> SUFFICES ASSUME PicInit PROVE PicInv
  OBVIOUS
<1>1. TrapsRight(idt)
  BY DEF PicInit, TrapsRight, idt_load, irqhandler, NINT, MASTER_VECTOR, SLAVE_VECTOR
<1>2. PicTypes
  BY DEF PicInit, PicTypes, Lines, Modes
<1>3. InService(isr, inumber) /\ mode = "boot" /\ inumber = NoHandler
  BY DEF PicInit, InService, NoHandler, SPURIOUS, Master, Slave
<1> QED BY <1>1, <1>2, <1>3 DEF PicInv

\* The masks pic_init_pmode leaves are those of the enabled lines.
LEMMA ReEnabledMasks ==
    ASSUME enabled \subseteq IrqLines
    PROVE  MasksRight(ReEnabled.m) /\ ReEnabled.m \subseteq Lines /\ ReEnabled.s = {}
BY PicAssumption DEF ReEnabled, MasksRight, Lines

\* Every step keeps it.
LEMMA PicStep == PicInv /\ [PicNext]_picVars => PicInv'
<1> SUFFICES ASSUME PicInv, [PicNext]_picVars PROVE PicInv'
  OBVIOUS
<1> USE DEF PicInv
<1>0. PicTypes /\ IrqLines \subseteq Lines /\ CASCADE \notin IrqLines
  BY PicAssumption DEF Lines
<1>1. CASE UNCHANGED picVars
  BY <1>1 DEF picVars, PicTypes, MasksRight
<1>2. CASE Boot
  <2>1. /\ mode = "boot" /\ mode' = "pmode" /\ imr' = ReEnabled.m /\ isr' = ReEnabled.s /\ irr' = {}
        /\ UNCHANGED <<enabled, installed, threadState, inumber>>
    BY <1>2 DEF Boot
  <2>2. MasksRight(imr') /\ imr' \subseteq Lines /\ isr' = {}
    BY <1>0, <2>1, ReEnabledMasks DEF PicTypes
  <2>3. MasksRight(imr)'
    BY <2>1, <2>2 DEF MasksRight
  <2>4. inumber' = NoHandler /\ InService(isr', inumber')
    BY <2>1, <2>2 DEF InService
  <2>5. TrapsRight(idt')
    <3>1. CASE LocalApic
      <4>1. idt' = [idt EXCEPT ![LAPIC_TIMER_VECTOR] = LAPIC_TIMER_IRQNR]
        BY <1>2, <3>1 DEF Boot, int_gate
      <4> QED BY <4>1 DEF TrapsRight, LAPIC_TIMER_VECTOR, MASTER_VECTOR, SLAVE_VECTOR
    <3>2. CASE ~LocalApic
      BY <1>2, <3>2 DEF Boot
    <3> QED BY <3>1, <3>2
  <2> QED BY <1>0, <2>1, <2>2, <2>3, <2>4, <2>5 DEF PicTypes, Modes
<1>3. CASE EnterRealMode
  <2>1. inumber = NoHandler /\ imr' = {} /\ isr' = {} /\ irr' = {} /\ mode' = "rmode" /\ UNCHANGED <<enabled, idt, installed, inumber>>
    BY <1>3 DEF EnterRealMode
  <2>2. InService(isr', inumber')
    BY <2>1 DEF InService
  <2> QED BY <1>0, <2>1, <2>2 DEF PicTypes, Modes
<1>4. CASE LeaveRealMode
  <2>1. /\ mode = "rmode" /\ mode' = "pmode" /\ imr' = ReEnabled.m /\ isr' = ReEnabled.s /\ irr' = {}
        /\ idt' = idt_load /\ UNCHANGED <<enabled, installed, threadState, inumber>>
    BY <1>4 DEF LeaveRealMode
  <2>2. MasksRight(imr') /\ imr' \subseteq Lines /\ isr' = {}
    BY <1>0, <2>1, ReEnabledMasks DEF PicTypes
  <2>3. MasksRight(imr)'
    BY <2>1, <2>2 DEF MasksRight
  <2>4. inumber' = NoHandler /\ InService(isr', inumber')
    BY <2>1, <2>2 DEF InService
  <2>5. TrapsRight(idt')
    BY <2>1 DEF TrapsRight, idt_load, irqhandler, NINT, MASTER_VECTOR, SLAVE_VECTOR
  <2> QED BY <1>0, <2>1, <2>2, <2>3, <2>4, <2>5 DEF PicTypes, Modes
<1>5. CASE Deliver
  <2>1. InService(isr', inumber') /\ isr' \subseteq Lines /\ inumber' \in IrqLines \cup {NoHandler} /\ irr' \subseteq IrqLines
    BY <1>5, Delivered
  <2>2. mode = "pmode" /\ UNCHANGED <<imr, enabled, idt, installed, mode>>
    BY <1>5 DEF Deliver, Interrupted
  <2> QED BY <1>0, <2>1, <2>2 DEF PicTypes, MasksRight
<1>6. CASE DeliverSpurious
  <2> DEFINE l == Lowest(MasterRequests)
  <2>1. /\ mode = "pmode" /\ inumber = NoHandler /\ isr = {} /\ irr' \subseteq irr
        /\ isr' = IF l = CASCADE THEN ack8259IRQ(isr \cup {CASCADE}, 15) ELSE ack8259IRQ(isr, SPURIOUS)
        /\ UNCHANGED <<imr, enabled, idt, installed, inumber, mode>>
    BY <1>6 DEF DeliverSpurious, Interrupted, InService
  <2>2. ack8259IRQ({}, SPURIOUS) = {}
    BY EndShrinks
  <2>3. ack8259IRQ({CASCADE}, 15) = {}
    BY DEF ack8259IRQ, NonSpecificEOI, Master
  <2>4. isr' = {}
    BY <2>1, <2>2, <2>3
  <2> QED BY <1>0, <2>1, <2>4 DEF PicTypes, MasksRight, InService
<1>7. CASE irq_exit
  <2>1. inumber # NoHandler /\ isr' = ack8259IRQ(isr, inumber) /\ inumber' = NoHandler /\ UNCHANGED <<imr, irr, enabled, idt, installed, mode>>
    BY <1>7 DEF irq_exit
  <2>2. isr' = {}
    <3>1. inumber \in IrqLines
      BY <1>0, <2>1 DEF PicTypes
    <3> QED BY <2>1, <3>1, AckEnds DEF InService
  <2>3. InService(isr', inumber')
    BY <2>1, <2>2 DEF InService, NoHandler, SPURIOUS, Master, Slave
  <2> QED BY <1>0, <2>1, <2>2, <2>3 DEF PicTypes, MasksRight
<1>8. CASE LocalApic /\ SwitchTimer
  BY <1>8 DEF SwitchTimer, PicTypes, MasksRight
<1>9. ASSUME NEW l \in IrqLines, Raise(l) PROVE PicInv'
  BY <1>0, <1>9 DEF Raise, PicTypes, MasksRight
<1>10. ASSUME NEW l \in IrqLines, enableIRQ(l) PROVE PicInv'
  <2>1. /\ mode = "pmode" /\ imr' = enable8259IRQ(imr, l) /\ isr' = ack8259IRQ(isr, l) /\ enabled' = enabled \cup {l}
        /\ UNCHANGED <<irr, idt, installed, inumber, mode>>
    BY <1>10 DEF enableIRQ, Enabled8259
  <2>2. isr' \subseteq isr
    BY <2>1, EndShrinks
  <2>3. InService(isr', inumber')
    BY <2>1, <2>2 DEF InService
  <2>4. MasksRight(imr)'
    <3>1. l \in Lines /\ l # CASCADE
      BY <1>0
    <3>2. MasksRight(imr)
      BY <2>1
    <3>3. CASE l \in Master
      <4>1. imr' = imr \ {l} /\ l \notin Slave
        BY <2>1, <3>3 DEF enable8259IRQ, Master, Slave
      <4> QED BY <2>1, <3>2, <4>1 DEF MasksRight
    <3>4. CASE l \notin Master
      <4>1. imr' = imr \ {CASCADE, l}
        BY <2>1, <3>4 DEF enable8259IRQ
      <4> QED BY <1>0, <2>1, <3>2, <4>1 DEF MasksRight
    <3> QED BY <3>3, <3>4
  <2>5. imr' \subseteq Lines
    BY <1>0, <2>1 DEF PicTypes, enable8259IRQ
  <2> QED BY <1>0, <2>1, <2>2, <2>3, <2>4, <2>5 DEF PicTypes
<1>11. ASSUME NEW l \in IrqLines, disableIRQ(l) PROVE PicInv'
  BY <1>0, <1>11 DEF disableIRQ, disable8259IRQ, PicTypes, MasksRight
<1>12. ASSUME NEW l \in IrqLines, installFirstLevelHandler(l) PROVE PicInv'
  BY <1>0, <1>12 DEF installFirstLevelHandler, PicTypes, MasksRight
<1> QED BY <1>1, <1>2, <1>3, <1>4, <1>5, <1>6, <1>7, <1>8, <1>9, <1>10, <1>11, <1>12 DEF PicNext

\* In a state of the invariant exactly the enabled lines get through.
LEMMA PicEnough == PicInv => EnabledLinesReachCpu
<1> SUFFICES ASSUME PicInv, Interrupted, NEW l \in IrqLines PROVE l \in enabled <=> Forwarded(l)
  BY DEF EnabledLinesReachCpu
<1>1. isr = {} /\ MasksRight(imr) /\ TrapsRight(idt)
  BY DEF PicInv, InService, Interrupted
<1>2. l \in Lines
  BY PicAssumption DEF Lines
<1> DEFINE v == IF l \in Master THEN MASTER_VECTOR + l ELSE SLAVE_VECTOR + l - 8
<1>3. v \in MASTER_VECTOR..(SLAVE_VECTOR + 7) /\ v - MASTER_VECTOR = l
  BY <1>2 DEF Lines, Master, MASTER_VECTOR, SLAVE_VECTOR
<1> HIDE DEF v
<1>4. idt[v] = l
  BY <1>1, <1>3 DEF TrapsRight
<1>5. \A S, x : Unblocked(x, isr, S)
  BY <1>1 DEF Unblocked
<1>6. l \in enabled => l \notin imr /\ (l \in Slave => CASCADE \notin imr)
  BY <1>1 DEF MasksRight
<1>7. l \notin enabled => l \in imr
  BY <1>1 DEF MasksRight
<1> QED BY <1>4, <1>5, <1>6, <1>7 DEF Forwarded, v

\* Exactly the enabled lines reach their handlers, whatever was masked,
\* acknowledged, spurious or programmed for real mode before (irq.c 456-608,
\* zero_IRQ.c 172-216).
THEOREM EnabledLinesAlwaysReachCpu == PicSpec => []EnabledLinesReachCpu
<1>1. PicSpec => []PicInv
  BY PicStarts, PicStep, PTL DEF PicSpec
<1> QED BY <1>1, PicEnough, PTL

-----------------------------------------------------------------------------
(* Processors: start-up                                                    *)

BootPcs == {"next", "startup", "callin", "calibrate", "calibrating", "done"}
CpuStates == {"off", "waiting", "ready", "idle", "stopped"}
Tried == {"calibrate", "calibrating", "done"}
Listens(c) == cpuState[c] \in {"ready", "idle"}
OnSet(o) == {o[i] : i \in DOMAIN o}
NoTwice(o) == \A i, j \in DOMAIN o : o[i] = o[j] => i = j

BootTypes ==
    /\ bootPc \in BootPcs /\ bootIdx \in 1..(Len(Order) + 1)
    /\ cpuState \in [Cpus -> CpuStates] /\ callout \subseteq Cpus /\ callin \subseteq Cpus
    /\ commenced \in BOOLEAN /\ online \in Seq(Cpus)

\* A processor that has been tried is on the list if it listens, and does not
\* answer any more if it has not answered.
TriedRight(c) ==
    /\ c \in OnSet(online) <=> Listens(c)
    /\ c \in callout => cpuState[c] # "waiting"

\* The processor that is being tried.
BootingRight(c) ==
    /\ c \notin OnSet(online)
    /\ bootPc = "next" => c = Bsp \/ cpuState[c] = "off"
    /\ bootPc = "startup" => c # Bsp /\ c \notin callout /\ cpuState[c] \in {"off", "waiting", "stopped"}
    /\ bootPc = "callin" => /\ c # Bsp /\ cpuState[c] \in {"off", "waiting", "stopped", "ready"}
                            /\ c \in callin <=> cpuState[c] = "ready"

CpuRight(i, c) ==
    /\ i < bootIdx => TriedRight(c)
    /\ i = bootIdx => BootingRight(c)
    /\ i > bootIdx => c \notin OnSet(online) /\ (c = Bsp \/ cpuState[c] = "off")

BootInv ==
    /\ BootTypes
    /\ \A i \in DOMAIN Order : CpuRight(i, Order[i])
    /\ bootPc \in {"startup", "callin"} => bootIdx <= Len(Order)
    /\ bootPc \in Tried => bootIdx = Len(Order) + 1
    /\ cpuState[Bsp] = "idle"
    /\ commenced <=> bootPc = "done"
    /\ NoTwice(online)
    /\ ~commenced => \A c \in Cpus : cpuState[c] = "idle" => c = Bsp

-----------------------------------------------------------------------------
(* Processors: calls                                                       *)

CallPcs == {"none", "spin", "started", "finished", "returning"}
Records == [dest : Int, cpus : Int, wait : BOOLEAN, started : Int, finished : Int,
            ran : [Cpus -> Int], ended : [Cpus -> Int], members : SUBSET Cpus]
Handlings == [on : BOOLEAN, wait : BOOLEAN, caller : Cpus \cup {NoCpu}]

CallTypes ==
    /\ callLock \in Cpus \cup {NoCpu} /\ call_data \in Cpus \cup {NoCpu}
    /\ data \in [Cpus -> Records] /\ callPc \in [Cpus -> CallPcs]
    /\ ipi \subseteq Cpus /\ handling \in [Cpus -> Handlings] /\ wild \in BOOLEAN

\* Who has begun the function of record r, and who has finished it.
Begun(r) == {d \in Cpus : r.ran[d] = 1}
Done(r) == {d \in Cpus : r.ended[d] = 1}

\* A record that is in use asks for the processors that are online.
Destinations == {ALLBUT, ALLINC} \cup OnSet(online)
Asks(c, r) ==
    /\ bootPc \in {"calibrating", "done"} /\ c \in OnSet(online) /\ r.dest \in Destinations
    /\ r.members = Meant(c, r.dest) /\ r.cpus = Cardinality(r.members)

Fresh(r) == r.started = 0 /\ r.finished = 0 /\ r.ran = NoCounts /\ r.ended = NoCounts

\* The record of the call that has the lock, at place p of its caller, with
\* the interrupts s pending: each processor asked for has begun the function
\* or has the interrupt pending, never both, and the counts are the numbers of
\* those that have begun and finished.
Served(r, p, s) ==
    /\ \A d \in Cpus : r.ran[d] \in {0, 1} /\ r.ended[d] \in {0, 1} /\ (r.ended[d] = 1 => r.ran[d] = 1)
    /\ Begun(r) \cup s = r.members /\ Begun(r) \cap s = {}
    /\ r.started = Cardinality(Begun(r)) /\ r.finished = Cardinality(Done(r))
    /\ p \in {"finished", "returning"} => Begun(r) = r.members
    /\ p = "finished" => r.wait
    /\ p = "returning" /\ r.wait => Done(r) = r.members

\* A handler that will report its end belongs to the call that has the lock.
HandlerRight(d) ==
    handling[d].on /\ handling[d].wait =>
        /\ callLock # NoCpu /\ data[callLock].wait
        /\ data[callLock].ran[d] = 1 /\ data[callLock].ended[d] = 0

CpuCalls(c) ==
    /\ callPc[c] \in {"started", "finished", "returning"} <=> callLock = c
    /\ callPc[c] # "none" => Asks(c, data[c])
    /\ callPc[c] = "spin" => Fresh(data[c])
    /\ callLock = c => Served(data[c], callPc[c], ipi)

CallInv ==
    /\ CallTypes /\ ~wild
    /\ callLock = NoCpu => ipi = {}
    /\ callLock # NoCpu => call_data = callLock
    /\ \A c \in Cpus : CpuCalls(c) /\ HandlerRight(c)

\* What joins the list of online processors.
LEMMA OnSetAppend == ASSUME NEW S, NEW o \in Seq(S), NEW c \in S
                     PROVE  /\ Append(o, c) \in Seq(S)
                            /\ OnSet(Append(o, c)) = OnSet(o) \cup {c}
                            /\ NoTwice(o) /\ c \notin OnSet(o) => NoTwice(Append(o, c))
<1> DEFINE p == Append(o, c)
<1>1. p \in Seq(S) /\ Len(o) \in Nat /\ Len(p) = Len(o) + 1 /\ DOMAIN o = 1..Len(o) /\ DOMAIN p = 1..Len(p)
  OBVIOUS
<1>2. (\A i \in DOMAIN o : p[i] = o[i]) /\ p[Len(p)] = c
  OBVIOUS
<1> HIDE DEF p
<1>3. OnSet(p) = OnSet(o) \cup {c}
  <2>1. \A i \in DOMAIN p : i \in DOMAIN o \/ i = Len(p)
    BY <1>1
  <2>2. \A i \in DOMAIN o : i \in DOMAIN p
    BY <1>1
  <2>3. Len(p) \in DOMAIN p
    BY <1>1
  <2> QED BY <1>2, <2>1, <2>2, <2>3, Zenon DEF OnSet
<1>4. ASSUME NoTwice(o), c \notin OnSet(o) PROVE NoTwice(p)
  <2>1. \A i \in DOMAIN p : i \in DOMAIN o \/ i = Len(p)
    BY <1>1
  <2>2. \A i \in DOMAIN o : o[i] # c
    BY <1>4 DEF OnSet
  <2> QED BY <1>2, <1>4, <2>1, <2>2, Zenon DEF NoTwice
<1> QED BY <1>1, <1>3, <1>4 DEF p

\* Which processor stands where in the table.
LEMMA Present == /\ Len(Order) \in Nat /\ DOMAIN Order = 1..Len(Order)
                 /\ \A i \in DOMAIN Order : Order[i] \in Cpus
                 /\ \A i, j \in DOMAIN Order : Order[i] = Order[j] => i = j
                 /\ \A c \in Cpus : \E i \in DOMAIN Order : c = Order[i]
                 /\ Bsp \in Cpus /\ Cpus \subseteq Nat /\ NoCpu \notin Cpus
<1>1. Order \in Seq(Nat)
  BY SmpAssumption
<1>2. \A i \in DOMAIN Order : Order[i] \in Nat
  BY <1>1
<1> QED BY <1>1, <1>2, SmpAssumption DEF Cpus, NoCpu

\* No processor has been tried at first.
LEMMA BootStarts == SmpInit => BootInv
<1> SUFFICES ASSUME SmpInit PROVE BootInv
  OBVIOUS
<1>1. OnSet(online) = {} /\ online \in Seq(Cpus) /\ DOMAIN online = {} /\ NoTwice(online)
  BY DEF SmpInit, OnSet, NoTwice
<1>2. BootTypes
  <2>1. cpuState \in [Cpus -> CpuStates]
    BY DEF SmpInit, CpuStates
  <2>2. 1 \in 1..(Len(Order) + 1)
    BY Present
  <2> QED BY <1>1, <2>1, <2>2 DEF SmpInit, BootTypes, BootPcs
<1>3. ASSUME NEW i \in DOMAIN Order PROVE CpuRight(i, Order[i])
  <2>1. Order[i] \in Cpus /\ i >= 1
    BY Present
  <2>2. Order[i] = Bsp \/ cpuState[Order[i]] = "off"
    BY <2>1 DEF SmpInit
  <2> QED BY <1>1, <2>1, <2>2 DEF CpuRight, BootingRight, SmpInit
<1> QED BY <1>1, <1>2, <1>3, Present DEF SmpInit, BootInv, Tried

\* The part of the invariant that is not about one processor's place.
BootFrame ==
    /\ BootTypes
    /\ bootPc \in {"startup", "callin"} => bootIdx <= Len(Order)
    /\ bootPc \in Tried => bootIdx = Len(Order) + 1
    /\ cpuState[Bsp] = "idle"
    /\ commenced <=> bootPc = "done"
    /\ NoTwice(online)
    /\ ~commenced => \A c \in Cpus : cpuState[c] = "idle" => c = Bsp

\* smp_boot_cpus goes to the next processor.
LEMMA BootNextRight == ASSUME BootInv, BootNext PROVE BootInv'
<1>0. /\ BootTypes /\ BootFrame /\ NoTwice(online) /\ bootIdx \in 1..(Len(Order) + 1) /\ bootPc = "next"
      /\ UNCHANGED <<polls, cpuState, callin, commenced>> /\ online \in Seq(Cpus)
  BY DEF BootInv, BootFrame, BootNext, BootTypes
<1>1. CASE bootIdx > Len(Order)
  <2>1. bootIdx = Len(Order) + 1 /\ bootPc' = "calibrate" /\ UNCHANGED <<bootIdx, online, callout, tries>>
    BY <1>0, <1>1, Present DEF BootNext
  <2>2. BootFrame'
    BY <1>0, <2>1 DEF BootFrame, BootTypes, BootPcs, Tried
  <2>3. ASSUME NEW i \in DOMAIN Order PROVE CpuRight(i, Order[i])'
    <3>1. CpuRight(i, Order[i]) /\ i < bootIdx /\ i \in Nat
      BY <2>1, Present DEF BootInv
    <3> QED BY <1>0, <2>1, <3>1 DEF CpuRight, TriedRight, Listens
  <2> QED BY <2>2, <2>3 DEF BootInv, BootFrame
<1>2. CASE bootIdx <= Len(Order) /\ Booting = Bsp
  <2>1. /\ bootIdx \in DOMAIN Order /\ Order[bootIdx] = Bsp /\ bootPc' = "next" /\ bootIdx' = bootIdx + 1
        /\ online' = Append(online, Bsp) /\ UNCHANGED <<callout, tries>>
    BY <1>0, <1>2, Present DEF BootNext, NextCpu, Booting
  <2>2. BootingRight(Bsp)
    BY <1>0, <2>1 DEF BootInv, CpuRight
  <2>3. online' \in Seq(Cpus) /\ OnSet(online') = OnSet(online) \cup {Bsp} /\ NoTwice(online')
    BY <1>0, <2>1, <2>2, OnSetAppend, Present DEF BootingRight
  <2>4. BootFrame'
    BY <1>0, <2>1, <2>3, Present DEF BootFrame, BootTypes, BootPcs, Tried
  <2>5. ASSUME NEW i \in DOMAIN Order PROVE CpuRight(i, Order[i])'
    <3>1. CpuRight(i, Order[i]) /\ i \in Nat /\ bootIdx \in Nat /\ (i = bootIdx <=> Order[i] = Bsp)
      BY <1>0, <2>1, Present DEF BootInv
    <3>2. CASE i < bootIdx
      BY <1>0, <2>1, <2>3, <3>1, <3>2 DEF CpuRight, TriedRight, Listens
    <3>3. CASE i = bootIdx
      BY <1>0, <2>1, <2>3, <3>1, <3>3 DEF CpuRight, TriedRight, Listens, BootFrame
    <3>4. CASE i > bootIdx
      BY <1>0, <2>1, <2>3, <3>1, <3>4 DEF CpuRight, BootingRight
    <3> QED BY <3>1, <3>2, <3>3, <3>4
  <2> QED BY <2>4, <2>5 DEF BootInv, BootFrame
<1>3. CASE bootIdx <= Len(Order) /\ Booting # Bsp
  <2>1. /\ bootIdx \in DOMAIN Order /\ Order[bootIdx] # Bsp /\ bootPc' = "startup"
        /\ callout' = callout \ {Order[bootIdx]} /\ UNCHANGED <<bootIdx, online>>
    BY <1>0, <1>3, Present DEF BootNext, Booting
  <2>2. BootFrame'
    BY <1>0, <1>3, <2>1 DEF BootFrame, BootTypes, BootPcs, Tried
  <2>3. ASSUME NEW i \in DOMAIN Order PROVE CpuRight(i, Order[i])'
    <3>1. CpuRight(i, Order[i]) /\ i \in Nat /\ bootIdx \in Nat
      BY <1>0, <2>1, Present DEF BootInv
    <3>2. CASE i < bootIdx
      BY <1>0, <2>1, <3>1, <3>2 DEF CpuRight, TriedRight, Listens
    <3>3. CASE i = bootIdx
      BY <1>0, <2>1, <3>1, <3>3 DEF CpuRight, BootingRight
    <3>4. CASE i > bootIdx
      BY <1>0, <2>1, <3>1, <3>4 DEF CpuRight
    <3> QED BY <3>1, <3>2, <3>3, <3>4
  <2> QED BY <2>2, <2>3 DEF BootInv, BootFrame
<1> QED BY <1>0, <1>1, <1>2, <1>3, Present DEF BootTypes

\* One STARTUP interrupt: the processor may have started.
LEMMA SendStartupRight == ASSUME BootInv, NEW ok \in BOOLEAN, NEW starts \in BOOLEAN, SendStartup(ok, starts)
                          PROVE  BootInv'
<1>b. PICK b : b = Order[bootIdx]
  OBVIOUS
<1>0. /\ BootTypes /\ BootFrame /\ bootIdx \in Nat \ {0} /\ bootIdx \in DOMAIN Order /\ bootPc = "startup"
      /\ b \in Cpus /\ bootIdx + 1 \in 1..(Len(Order) + 1) /\ ~commenced
      /\ UNCHANGED <<commenced, online>> /\ cpuState \in [Cpus -> CpuStates]
  BY <1>b, Present DEF BootInv, BootFrame, SendStartup, BootTypes
<1>1. BootingRight(b)
  BY <1>b, <1>0 DEF BootInv, CpuRight
<1>2. b # Bsp /\ b \notin callout /\ cpuState[b] \in {"off", "waiting", "stopped"} /\ b \notin OnSet(online)
  BY <1>0, <1>1 DEF BootingRight
<1>3. /\ cpuState' = (IF starts /\ cpuState[b] = "off" THEN [cpuState EXCEPT ![b] = "waiting"] ELSE cpuState)
      /\ ok => callin' = callin \ {b} /\ callout' = callout \cup {b} /\ bootPc' = "callin" /\ bootIdx' = bootIdx
      /\ ~ok => UNCHANGED <<callin, callout>>
      /\ ~ok /\ tries = 0 => UNCHANGED <<bootPc, bootIdx>>
      /\ ~ok /\ tries # 0 => bootPc' = "next" /\ bootIdx' = bootIdx + 1
  BY <1>b DEF SendStartup, Booting, NextCpu
<1>4. /\ cpuState' \in [Cpus -> CpuStates] /\ \A c \in Cpus : c # b => cpuState'[c] = cpuState[c]
      /\ cpuState'[b] \in {"off", "waiting", "stopped"}
  BY <1>0, <1>2, <1>3 DEF CpuStates
<1>5. BootFrame'
  <2>1. BootTypes'
    BY <1>0, <1>3, <1>4 DEF BootTypes, BootPcs
  <2>2. bootPc' \in {"next", "startup", "callin"} /\ bootPc' # "done" /\ (bootPc' # "next" => bootIdx' = bootIdx)
    BY <1>0, <1>3
  <2>3. bootIdx <= Len(Order)
    BY <1>0, Present
  <2>4. \A c \in Cpus : cpuState'[c] = "idle" => c = Bsp
    BY <1>0, <1>4 DEF BootFrame
  <2>5. cpuState'[Bsp] = "idle"
    BY <1>0, <1>2, <1>4, Present DEF BootFrame
  <2> QED BY <1>0, <2>1, <2>2, <2>3, <2>4, <2>5 DEF BootFrame, Tried
<1>6. ASSUME NEW i \in DOMAIN Order PROVE CpuRight(i, Order[i])'
  <2>1. CpuRight(i, Order[i]) /\ i \in Nat /\ (i = bootIdx <=> Order[i] = b) /\ Order[i] \in Cpus
    BY <1>b, <1>0, Present DEF BootInv
  <2>2. CASE i < bootIdx
    <3>1. i < bootIdx' /\ ~(i = bootIdx') /\ ~(i > bootIdx')
      BY <1>0, <1>3, <2>1, <2>2
    <3>2. Order[i] # b /\ TriedRight(Order[i])
      BY <1>0, <2>1, <2>2 DEF CpuRight
    <3>3. cpuState'[Order[i]] = cpuState[Order[i]] /\ (Order[i] \in callout' => Order[i] \in callout)
      BY <1>3, <1>4, <2>1, <3>2
    <3>4. TriedRight(Order[i])'
      BY <1>0, <3>2, <3>3 DEF TriedRight, Listens
    <3> QED BY <3>1, <3>4 DEF CpuRight
  <2>3. CASE i = bootIdx
    <3>1. Order[i] = b
      BY <2>1, <2>3
    <3>2. CASE ok
      <4>1. BootingRight(b)'
        BY <1>0, <1>2, <1>3, <1>4, <3>2 DEF BootingRight
      <4> QED BY <1>0, <1>3, <2>3, <3>1, <3>2, <4>1 DEF CpuRight
    <3>3. CASE ~ok /\ tries = 0
      <4>1. BootingRight(b)'
        BY <1>0, <1>2, <1>3, <1>4, <3>3 DEF BootingRight
      <4> QED BY <1>0, <1>3, <2>3, <3>1, <3>3, <4>1 DEF CpuRight
    <3>4. CASE ~ok /\ tries # 0
      <4>1. TriedRight(b)'
        BY <1>0, <1>2, <1>3, <1>4, <3>4 DEF TriedRight, Listens
      <4> QED BY <1>0, <1>3, <2>3, <3>1, <3>4, <4>1 DEF CpuRight
    <3> QED BY <3>2, <3>3, <3>4
  <2>4. CASE i > bootIdx
    <3>1. Order[i] # b /\ Order[i] \notin OnSet(online) /\ (Order[i] = Bsp \/ cpuState[Order[i]] = "off")
      BY <1>0, <2>1, <2>4 DEF CpuRight
    <3>2. cpuState'[Order[i]] = cpuState[Order[i]]
      BY <1>4, <2>1, <3>1
    <3>3. BootingRight(Order[i])' \/ bootPc' # "next"
      BY <1>0, <3>1, <3>2 DEF BootingRight
    <3>4. ~(i < bootIdx') /\ (i = bootIdx' => bootPc' = "next")
      BY <1>0, <1>3, <2>1, <2>4
    <3> QED BY <1>0, <3>1, <3>2, <3>3, <3>4 DEF CpuRight
  <2> QED BY <1>0, <2>1, <2>2, <2>3, <2>4
<1> QED BY <1>5, <1>6 DEF BootInv, BootFrame

\* The boot processor looks for the answer; it gives up only on a processor
\* that will not answer.
LEMMA PollCallinRight == ASSUME BootInv, PollCallin, Prompt PROVE BootInv'
<1>b. PICK b : b = Order[bootIdx]
  OBVIOUS
<1>0. /\ BootTypes /\ BootFrame /\ bootIdx \in Nat \ {0} /\ bootIdx \in DOMAIN Order /\ bootPc = "callin"
      /\ b \in Cpus /\ bootIdx + 1 \in 1..(Len(Order) + 1) /\ ~commenced
      /\ UNCHANGED <<cpuState, callout, callin, commenced>> /\ online \in Seq(Cpus) /\ NoTwice(online)
  <2>1. BootTypes /\ bootPc = "callin" /\ UNCHANGED <<cpuState, callout, callin, commenced>>
    BY DEF BootInv, PollCallin
  <2>2. BootFrame /\ NoTwice(online) /\ (commenced <=> bootPc = "done")
    BY DEF BootInv, BootFrame
  <2>3. bootIdx \in Nat \ {0} /\ bootIdx \in DOMAIN Order /\ Order[bootIdx] \in Cpus /\ bootIdx + 1 \in 1..(Len(Order) + 1)
    <3>1. bootIdx \in 1..(Len(Order) + 1) /\ bootIdx <= Len(Order)
      BY <2>1, <2>2 DEF BootTypes, BootFrame
    <3>2. Len(Order) \in Nat /\ DOMAIN Order = 1..Len(Order) /\ \A i \in DOMAIN Order : Order[i] \in Cpus
      BY Present
    <3> QED BY <3>1, <3>2
  <2> QED BY <1>b, <2>1, <2>2, <2>3 DEF BootTypes
<1>1. BootingRight(b)
  BY <1>b, <1>0 DEF BootInv, CpuRight
<1>2. /\ b # Bsp /\ b \notin OnSet(online) /\ cpuState[b] \in {"off", "waiting", "stopped", "ready"}
      /\ b \in callin <=> cpuState[b] = "ready"
  BY <1>0, <1>1 DEF BootingRight
<1>3. \/ b \in callin /\ bootPc' = "next" /\ bootIdx' = bootIdx + 1 /\ online' = Append(online, b)
      \/ UNCHANGED <<bootPc, bootIdx, online>>
      \/ /\ b \notin callin /\ cpuState[b] # "waiting"
         /\ bootPc' = "next" /\ bootIdx' = bootIdx + 1 /\ online' = online
  BY <1>b DEF PollCallin, NextCpu, Booting
<1>4. ASSUME UNCHANGED <<bootPc, bootIdx, online>> PROVE BootInv'
  BY <1>0, <1>4 DEF BootInv, BootTypes, CpuRight, TriedRight, BootingRight, Listens
<1>5. ASSUME bootPc' = "next", bootIdx' = bootIdx + 1, online' \in Seq(Cpus), NoTwice(online'),
             OnSet(online') \in {OnSet(online), OnSet(online) \cup {b}},
             b \in OnSet(online') <=> Listens(b), cpuState[b] # "waiting"
      PROVE  BootInv'
  <2>1. BootFrame'
    BY <1>0, <1>5 DEF BootFrame, BootTypes, BootPcs, Tried
  <2>2. ASSUME NEW i \in DOMAIN Order PROVE CpuRight(i, Order[i])'
    <3>1. CpuRight(i, Order[i]) /\ i \in Nat /\ (i = bootIdx <=> Order[i] = b) /\ Order[i] \in Cpus
      BY <1>b, <1>0, Present DEF BootInv
    <3>2. CASE i < bootIdx
      <4>1. TriedRight(Order[i])'
        BY <1>0, <1>5, <3>1, <3>2 DEF CpuRight, TriedRight, Listens
      <4> QED BY <1>0, <1>5, <3>1, <3>2, <4>1 DEF CpuRight
    <3>3. CASE i = bootIdx
      <4>1. TriedRight(b)'
        BY <1>0, <1>5, <1>2 DEF TriedRight, Listens
      <4> QED BY <1>0, <1>5, <3>1, <3>3, <4>1 DEF CpuRight
    <3>4. CASE i > bootIdx
      BY <1>0, <1>5, <3>1, <3>4 DEF CpuRight, BootingRight
    <3> QED BY <1>0, <3>1, <3>2, <3>3, <3>4
  <2> QED BY <2>1, <2>2 DEF BootInv, BootFrame
<1>6. ASSUME b \in callin, bootPc' = "next", bootIdx' = bootIdx + 1, online' = Append(online, b) PROVE BootInv'
  <2>1. online' \in Seq(Cpus) /\ OnSet(online') = OnSet(online) \cup {b} /\ NoTwice(online')
    BY <1>0, <1>2, <1>6, OnSetAppend
  <2>2. Listens(b) /\ cpuState[b] # "waiting"
    BY <1>2, <1>6 DEF Listens
  <2> QED BY <1>5, <1>6, <2>1, <2>2
<1>7. ASSUME b \notin callin, cpuState[b] # "waiting", bootPc' = "next", bootIdx' = bootIdx + 1, online' = online
      PROVE  BootInv'
  <2>1. ~Listens(b)
    BY <1>2, <1>7 DEF Listens
  <2> QED BY <1>0, <1>2, <1>5, <1>7, <2>1
<1> QED BY <1>3, <1>4, <1>6, <1>7

\* Where a processor that has started and not answered can be in the table:
\* only the one that is being tried has been called out.
LEMMA WaitingCpu == ASSUME BootInv, NEW i \in DOMAIN Order, cpuState[Order[i]] = "waiting"
                    PROVE  /\ Order[i] # Bsp /\ Order[i] \notin OnSet(online) /\ i <= bootIdx
                           /\ Order[i] \in callout => i = bootIdx /\ bootPc = "callin"
                           /\ i = bootIdx => BootingRight(Order[i]) /\ bootPc \in {"startup", "callin"}
<1> DEFINE c == Order[i]
<1>1. CpuRight(i, c) /\ c # Bsp /\ i \in 1..Len(Order) /\ bootIdx \in Nat /\ bootPc \in BootPcs /\ Len(Order) \in Nat
  BY Present DEF BootInv, BootTypes
<1>2. bootPc \in Tried => bootIdx = Len(Order) + 1
  BY DEF BootInv
<1> HIDE DEF c
<1>3. CASE i < bootIdx
  <2>1. TriedRight(c)
    BY <1>1, <1>3 DEF CpuRight
  <2> QED BY <1>1, <1>3, <2>1 DEF TriedRight, Listens, c
<1>4. CASE i = bootIdx
  <2>1. BootingRight(c) /\ bootPc \in {"next", "startup", "callin"}
    BY <1>1, <1>2, <1>4 DEF CpuRight, BootPcs, Tried
  <2>2. bootPc # "next" /\ (bootPc = "startup" => c \notin callout) /\ c \notin OnSet(online)
    BY <1>1, <2>1 DEF BootingRight, c
  <2> QED BY <1>1, <1>4, <2>1, <2>2 DEF c
<1>5. CASE i > bootIdx
  <2>1. cpuState[c] = "off"
    BY <1>1, <1>5 DEF CpuRight
  <2> QED BY <2>1 DEF c
<1> QED BY <1>1, <1>3, <1>4, <1>5

\* A processor answers.
LEMMA CallinRight == ASSUME BootInv, NEW c \in Cpus, Callin(c) PROVE BootInv'
<1>1. PICK k \in DOMAIN Order : c = Order[k]
  BY Present
<1>2. /\ cpuState[c] = "waiting" /\ c \in callout /\ callin' = callin \cup {c}
      /\ cpuState' = [cpuState EXCEPT ![c] = "ready"] /\ cpuState \in [Cpus -> CpuStates] /\ BootFrame
      /\ UNCHANGED <<bootPc, bootIdx, callout, commenced, online>>
  BY DEF Callin, BootInv, BootTypes, BootFrame
<1>3. c # Bsp /\ k = bootIdx /\ bootPc = "callin" /\ BootingRight(c)
  BY <1>1, <1>2, WaitingCpu
<1>4. cpuState' \in [Cpus -> CpuStates] /\ cpuState'[c] = "ready" /\ \A d \in Cpus : d # c => cpuState'[d] = cpuState[d]
  BY <1>2 DEF CpuStates
<1>5. BootFrame'
  BY <1>2, <1>3, <1>4, Present DEF BootFrame, BootTypes
<1>6. ASSUME NEW i \in DOMAIN Order PROVE CpuRight(i, Order[i])'
  <2>1. CpuRight(i, Order[i]) /\ Order[i] \in Cpus /\ (i = k <=> Order[i] = c)
    BY <1>1, Present DEF BootInv
  <2>2. CASE i = k
    <3>1. BootingRight(c)'
      BY <1>2, <1>3, <1>4 DEF BootingRight
    <3> QED BY <1>2, <1>3, <2>1, <2>2, <3>1, Present DEF CpuRight
  <2>3. CASE i # k
    <3>1. cpuState'[Order[i]] = cpuState[Order[i]] /\ i # bootIdx'
      BY <1>2, <1>3, <1>4, <2>1, <2>3
    <3> QED BY <1>2, <2>1, <3>1 DEF CpuRight, TriedRight, Listens
  <2> QED BY <2>2, <2>3
<1> QED BY <1>5, <1>6 DEF BootInv, BootFrame

\* A processor that is not called out stops; it is not on the list.
LEMMA GiveUpRight == ASSUME BootInv, NEW c \in Cpus, GiveUp(c) PROVE BootInv'
<1>1. PICK k \in DOMAIN Order : c = Order[k]
  BY Present
<1>2. /\ cpuState[c] = "waiting" /\ online' = WithoutCpu(online, c)
      /\ cpuState' = [cpuState EXCEPT ![c] = "stopped"] /\ cpuState \in [Cpus -> CpuStates] /\ BootFrame
      /\ UNCHANGED <<bootPc, bootIdx, callout, callin, commenced>>
  BY DEF GiveUp, BootInv, BootTypes, BootFrame
<1>3. /\ c # Bsp /\ k <= bootIdx /\ c \notin OnSet(online)
      /\ k = bootIdx => BootingRight(c) /\ bootPc \in {"startup", "callin"}
  BY <1>1, <1>2, WaitingCpu
<1>4. online' = online
  BY <1>2, <1>3 DEF WithoutCpu, OnSet
<1>5. cpuState' \in [Cpus -> CpuStates] /\ cpuState'[c] = "stopped" /\ \A d \in Cpus : d # c => cpuState'[d] = cpuState[d]
  BY <1>2 DEF CpuStates
<1>6. BootFrame'
  BY <1>2, <1>3, <1>4, <1>5, Present DEF BootFrame, BootTypes
<1>7. ASSUME NEW i \in DOMAIN Order PROVE CpuRight(i, Order[i])'
  <2>1. CpuRight(i, Order[i]) /\ Order[i] \in Cpus /\ (i = k <=> Order[i] = c)
    BY <1>1, Present DEF BootInv
  <2>2. CASE i = k /\ i = bootIdx
    <3>1. BootingRight(c)'
      BY <1>2, <1>3, <1>4, <1>5, <2>2 DEF BootingRight
    <3> QED BY <1>2, <1>3, <2>1, <2>2, <3>1, Present DEF CpuRight
  <2>3. CASE i = k /\ i # bootIdx
    <3>1. TriedRight(c)'
      BY <1>2, <1>3, <1>4, <1>5 DEF TriedRight, Listens
    <3>2. i \in Nat /\ bootIdx' \in Nat /\ bootIdx' = bootIdx
      BY <1>2, Present DEF BootFrame, BootTypes
    <3>3. i < bootIdx'
      BY <1>3, <2>3, <3>2
    <3> QED BY <2>1, <2>3, <3>1, <3>2, <3>3 DEF CpuRight
  <2>4. CASE i # k
    <3>1. cpuState'[Order[i]] = cpuState[Order[i]]
      BY <1>2, <1>5, <2>1, <2>4
    <3> QED BY <1>2, <1>4, <2>1, <3>1 DEF CpuRight, TriedRight, BootingRight, Listens
  <2> QED BY <2>2, <2>3, <2>4
<1> QED BY <1>6, <1>7 DEF BootInv, BootFrame

\* A processor passes the barrier.
LEMMA EnterIdleRight == ASSUME BootInv, NEW c \in Cpus, EnterIdle(c) PROVE BootInv'
<1>1. PICK k \in DOMAIN Order : c = Order[k]
  BY Present
<1>2. /\ cpuState[c] = "ready" /\ commenced /\ cpuState' = [cpuState EXCEPT ![c] = "idle"]
      /\ cpuState \in [Cpus -> CpuStates] /\ BootFrame /\ bootPc = "done" /\ bootIdx = Len(Order) + 1
      /\ UNCHANGED <<bootPc, bootIdx, callout, callin, commenced, online>>
  BY DEF EnterIdle, BootInv, BootTypes, BootFrame, Tried
<1>3. /\ cpuState' \in [Cpus -> CpuStates] /\ cpuState'[c] = "idle"
      /\ \A d \in Cpus : d # c => cpuState'[d] = cpuState[d]
  BY <1>2 DEF CpuStates
<1>4. BootFrame'
  BY <1>2, <1>3, Present DEF BootFrame, BootTypes
<1>5. ASSUME NEW i \in DOMAIN Order PROVE CpuRight(i, Order[i])'
  <2>1. CpuRight(i, Order[i]) /\ Order[i] \in Cpus /\ i < bootIdx /\ i \in Nat
    BY <1>2, Present DEF BootInv
  <2>2. TriedRight(Order[i])
    BY <2>1 DEF CpuRight
  <2>3. Listens(Order[i])' <=> Listens(Order[i])
    BY <1>2, <1>3, <2>1 DEF Listens
  <2>4. TriedRight(Order[i])'
    BY <1>2, <1>3, <2>1, <2>2, <2>3 DEF TriedRight
  <2> QED BY <1>2, <2>1, <2>4 DEF CpuRight
<1> QED BY <1>4, <1>5 DEF BootInv, BootFrame

\* The clocks are calibrated and the barrier opens, or nothing is started.
LEMMA BarrierRight == ASSUME BootInv, Calibrate \/ Commence \/ UNCHANGED bootVars PROVE BootInv'
<1>1. CASE Calibrate
  <2>1. /\ bootPc = "calibrate" /\ bootPc' = "calibrating"
        /\ UNCHANGED <<bootIdx, cpuState, callout, callin, commenced, online>>
    BY <1>1 DEF Calibrate
  <2> QED BY <2>1, Present DEF BootInv, BootTypes, BootPcs, Tried, CpuRight, TriedRight, Listens
<1>2. CASE Commence
  <2>1. /\ bootPc = "calibrating" /\ bootPc' = "done" /\ commenced' = TRUE
        /\ UNCHANGED <<bootIdx, cpuState, callout, callin, online>>
    BY <1>2 DEF Commence
  <2> QED BY <2>1, Present DEF BootInv, BootTypes, BootPcs, Tried, CpuRight, TriedRight, Listens
<1>3. CASE UNCHANGED bootVars
  BY <1>3 DEF bootVars, BootInv, BootTypes, CpuRight, TriedRight, BootingRight, Listens
<1> QED BY <1>1, <1>2, <1>3

\* Every step keeps the invariant of the start-up.
LEMMA BootStep == ASSUME BootInv, [SmpNext]_smpVars, Prompt PROVE BootInv'
<1>1. \/ BootNext \/ PollCallin \/ \E ok, starts \in BOOLEAN : SendStartup(ok, starts)
      \/ \E c \in Cpus : Callin(c) \/ GiveUp(c) \/ EnterIdle(c)
      \/ Calibrate \/ Commence \/ UNCHANGED bootVars
  BY DEF SmpNext, smpVars, smp_call_function, AcquireAndSend, WaitStarted, WaitFinished, Return, HandleIpi, EndIpi
<1> QED BY <1>1, BootNextRight, PollCallinRight, SendStartupRight, CallinRight, GiveUpRight, EnterIdleRight, BarrierRight

\* When all have been tried, the list is right.
LEMMA AllTried == ASSUME BootInv, bootPc \in Tried
                  PROVE  /\ \A c \in Cpus : c \in OnSet(online) <=> Listens(c)
                         /\ Bsp \in OnSet(online) /\ OnSet(online) \subseteq Cpus
<1>1. bootIdx = Len(Order) + 1 /\ online \in Seq(Cpus) /\ cpuState[Bsp] = "idle"
  BY DEF BootInv, BootTypes
<1>2. ASSUME NEW c \in Cpus PROVE c \in OnSet(online) <=> Listens(c)
  <2>1. PICK i \in DOMAIN Order : c = Order[i]
    BY Present
  <2>2. CpuRight(i, c) /\ i < bootIdx
    BY <1>1, <2>1, Present DEF BootInv
  <2> QED BY <2>2 DEF CpuRight, TriedRight
<1>3. OnSet(online) \subseteq Cpus
  BY <1>1 DEF OnSet
<1> QED BY <1>1, <1>2, <1>3, Present DEF Listens

\* In a state of the invariant the kernel counts with the processors that listen.
LEMMA BootEnough == BootInv => OnlineExact
<1> SUFFICES ASSUME BootInv, bootPc \in Tried, NEW c \in Cpus
             PROVE  (\E i \in DOMAIN online : online[i] = c) <=> cpuState[c] \in {"ready", "idle"}
  BY DEF OnlineExact, Tried
<1> QED BY AllTried DEF OnSet, Listens

-----------------------------------------------------------------------------
(* Calls: whom they ask                                                    *)

\* A list in which nobody stands twice is as long as the set of those on it.
LEMMA OnSetSize == ASSUME NEW S, NEW o \in Seq(S), NoTwice(o)
                   PROVE  IsFiniteSet(OnSet(o)) /\ Cardinality(OnSet(o)) = Len(o)
<1>1. DOMAIN o = 1..Len(o) /\ Len(o) \in Nat
  OBVIOUS
<1>2. IsFiniteSet(1..Len(o)) /\ Cardinality(1..Len(o)) = Len(o)
  BY <1>1, FS_Interval
<1> DEFINE D == DOMAIN o  T == OnSet(o)
<1>3. o \in [D -> T]
  BY DEF OnSet
<1>4. \A t \in T : \E i \in D : o[i] = t
  BY DEF OnSet
<1>5. \A i, j \in D : o[i] = o[j] => i = j
  BY DEF NoTwice
<1> HIDE DEF D, T
<1>6. o \in Bijection(D, T)
  BY <1>3, <1>4, <1>5 DEF Bijection, Injection, Surjection, IsInjective
<1>7. ExistsBijection(D, T) /\ IsFiniteSet(D)
  BY <1>1, <1>2, <1>6 DEF ExistsBijection, D
<1>8. IsFiniteSet(T) /\ Cardinality(T) = Cardinality(D)
  BY <1>7, FS_Bijection
<1> QED BY <1>1, <1>2, <1>8 DEF D, T

\* The processors are finitely many.
LEMMA CpusFinite == IsFiniteSet(Cpus)
<1>1. Order \in Seq(Nat) /\ NoTwice(Order) /\ Cpus = OnSet(Order)
  BY SmpAssumption DEF NoTwice, OnSet, Cpus
<1> QED BY <1>1, OnSetSize

\* Once all have been tried, smp_call_function counts with the processors it
\* means, and the interrupt reaches them.
LEMMA AskedAreReached ==
    ASSUME BootInv, bootPc \in Tried, NEW c \in OnSet(online), NEW dest \in Destinations
    PROVE  /\ Meant(c, dest) \subseteq Cpus /\ Reached(c, dest) = Meant(c, dest)
           /\ Expected(dest) = Cardinality(Meant(c, dest))
<1> DEFINE on == OnSet(online)
<1>1. online \in Seq(Cpus) /\ NoTwice(online) /\ on \subseteq Cpus /\ \A d \in Cpus : d \in on <=> Listens(d)
  BY AllTried DEF BootInv, BootTypes
<1>2. IsFiniteSet(on) /\ Cardinality(on) = Len(online)
  BY <1>1, OnSetSize
<1>3. Listening = on
  BY <1>1 DEF Listening, Listens
<1>4. Cardinality(on \ {c}) = Len(online) - 1
  BY <1>2, FS_RemoveElement
<1>5. ALLBUT \notin on /\ ALLINC \notin on /\ ALLBUT # ALLINC
  BY <1>1, Present DEF ALLBUT, ALLINC
<1>6. {online[i] : i \in DOMAIN online} = on
  BY DEF OnSet
<1>7. dest \in {ALLBUT, ALLINC} \cup on
  BY DEF Destinations
<1> HIDE DEF on
<1>8. CASE dest = ALLINC
  <2>1. Meant(c, dest) = on /\ Reached(c, dest) = on /\ Expected(dest) = Len(online)
    BY <1>3, <1>5, <1>6, <1>8 DEF Meant, Reached, Expected
  <2> QED BY <1>1, <1>2, <2>1
<1>9. CASE dest = ALLBUT
  <2>1. Meant(c, dest) = on \ {c} /\ Reached(c, dest) = on \ {c} /\ Expected(dest) = Len(online) - 1
    BY <1>3, <1>5, <1>6, <1>9 DEF Meant, Reached, Expected
  <2> QED BY <1>1, <1>4, <2>1
<1>10. CASE dest \in on
  <2>1. Meant(c, dest) = {dest} /\ Reached(c, dest) = {dest} \cap on /\ Expected(dest) = 1
    BY <1>3, <1>5, <1>6, <1>10 DEF Meant, Reached, Expected
  <2>2. Cardinality({dest}) = 1
    BY FS_Singleton
  <2> QED BY <1>1, <1>10, <2>1, <2>2
<1> QED BY <1>7, <1>8, <1>9, <1>10

\* The list does not change any more when calls are made.
LEMMA SettledStays == ASSUME BootInv, [SmpNext]_smpVars, bootPc \in {"calibrating", "done"}
                      PROVE  bootPc' \in {"calibrating", "done"} /\ online' = online
<1>1. \/ BootNext \/ PollCallin \/ \E ok, starts \in BOOLEAN : SendStartup(ok, starts)
      \/ \E c \in Cpus : Callin(c) \/ GiveUp(c) \/ EnterIdle(c)
      \/ Calibrate \/ Commence \/ UNCHANGED bootVars
  BY DEF SmpNext, smpVars, smp_call_function, AcquireAndSend, WaitStarted, WaitFinished, Return, HandleIpi, EndIpi
<1>2. ASSUME NEW c \in Cpus, GiveUp(c) PROVE bootPc' = bootPc /\ online' = online
  <2>1. ~Listens(c) /\ online' = WithoutCpu(online, c) /\ bootPc' = bootPc
    BY <1>2 DEF GiveUp, Listens
  <2>2. c \notin OnSet(online)
    BY <2>1, AllTried DEF Tried
  <2> QED BY <2>1, <2>2 DEF WithoutCpu, OnSet
<1>3. ASSUME NEW c \in Cpus, Callin(c) \/ EnterIdle(c) PROVE bootPc' = bootPc /\ online' = online
  BY <1>3 DEF Callin, EnterIdle
<1>4. ~BootNext /\ ~PollCallin /\ ~Calibrate /\ \A ok, starts \in BOOLEAN : ~SendStartup(ok, starts)
  BY DEF BootNext, PollCallin, Calibrate, SendStartup
<1>5. Commence => bootPc' = "done" /\ online' = online
  BY DEF Commence
<1> QED BY <1>1, <1>2, <1>3, <1>4, <1>5 DEF bootVars

\* ... so that a call goes on asking for the same processors.
LEMMA AsksStays == ASSUME BootInv, [SmpNext]_smpVars, NEW c, NEW r, Asks(c, r) PROVE Asks(c, r)'
<1>1. bootPc' \in {"calibrating", "done"} /\ online' = online
  BY SettledStays DEF Asks
<1> QED BY <1>1 DEF Asks, Destinations, OnSet, Meant

-----------------------------------------------------------------------------
(* Calls: the record                                                       *)

\* What the handler writes when it begins and when it ends on processor d.
BeginOn(r, d) == [r EXCEPT !.started = @ + 1, !.ran[d] = @ + 1]
EndOn(r, d) == [r EXCEPT !.finished = @ + 1, !.ended[d] = @ + 1]

\* What a record says besides its counts.
SameCall(r, n) == n.dest = r.dest /\ n.cpus = r.cpus /\ n.wait = r.wait /\ n.members = r.members

\* The fields the two writes leave alone.
LEMMA BeginFields == ASSUME NEW r \in Records, NEW d \in Cpus
                     PROVE  /\ BeginOn(r, d) \in Records /\ SameCall(r, BeginOn(r, d))
                            /\ BeginOn(r, d).started = r.started + 1 /\ BeginOn(r, d).finished = r.finished
                            /\ BeginOn(r, d).ran = [r.ran EXCEPT ![d] = r.ran[d] + 1]
                            /\ BeginOn(r, d).ended = r.ended
<1>1. r.ran \in [Cpus -> Int] /\ r.started \in Int
  BY DEF Records
<1>2. [r.ran EXCEPT ![d] = r.ran[d] + 1] \in [Cpus -> Int] /\ r.started + 1 \in Int
  BY <1>1
<1> QED BY <1>2 DEF Records, BeginOn, SameCall

\* The same at the end of the function.
LEMMA EndFields == ASSUME NEW r \in Records, NEW d \in Cpus
                   PROVE  /\ EndOn(r, d) \in Records /\ SameCall(r, EndOn(r, d))
                          /\ EndOn(r, d).finished = r.finished + 1 /\ EndOn(r, d).started = r.started
                          /\ EndOn(r, d).ended = [r.ended EXCEPT ![d] = r.ended[d] + 1]
                          /\ EndOn(r, d).ran = r.ran
<1>1. r.ended \in [Cpus -> Int] /\ r.finished \in Int
  BY DEF Records
<1>2. [r.ended EXCEPT ![d] = r.ended[d] + 1] \in [Cpus -> Int] /\ r.finished + 1 \in Int
  BY <1>1
<1> QED BY <1>2 DEF Records, EndOn, SameCall

\* A processor takes the interrupt: it has begun, and counts.
LEMMA BegunGrows ==
    ASSUME NEW r \in Records, NEW p, NEW s, NEW d \in Cpus, d \in s, Served(r, p, s)
    PROVE  /\ Served(BeginOn(r, d), p, s \ {d}) /\ p \notin {"finished", "returning"}
           /\ BeginOn(r, d).ran[d] = 1 /\ r.ended[d] = 0
           /\ \A e \in Cpus : r.ran[e] = 1 => BeginOn(r, d).ran[e] = 1
<1> DEFINE n == BeginOn(r, d)
<1>1. /\ n.started = r.started + 1 /\ n.finished = r.finished /\ n.ended = r.ended
      /\ n.ran = [r.ran EXCEPT ![d] = r.ran[d] + 1] /\ SameCall(r, n)
  BY BeginFields
<1>2. r.ran \in [Cpus -> Int] /\ r.ended \in [Cpus -> Int] /\ r.members \subseteq Cpus
  BY DEF Records
<1>3. /\ \A e \in Cpus : r.ran[e] \in {0, 1} /\ r.ended[e] \in {0, 1} /\ (r.ended[e] = 1 => r.ran[e] = 1)
      /\ Begun(r) \cup s = r.members /\ Begun(r) \cap s = {}
      /\ r.started = Cardinality(Begun(r)) /\ r.finished = Cardinality(Done(r))
      /\ p \in {"finished", "returning"} => Begun(r) = r.members
  BY DEF Served
<1> HIDE DEF n
<1>4. d \notin Begun(r) /\ Begun(r) \subseteq Cpus
  BY <1>3 DEF Begun
<1>5. r.ran[d] = 0 /\ r.ended[d] = 0
  BY <1>3, <1>4 DEF Begun
<1>6. n.ran[d] = 1 /\ \A e \in Cpus : e # d => n.ran[e] = r.ran[e]
  BY <1>1, <1>2, <1>5
<1>7. Begun(n) = Begun(r) \cup {d}
  BY <1>6 DEF Begun
<1>8. Done(n) = Done(r)
  BY <1>1 DEF Done
<1>9. p \notin {"finished", "returning"}
  BY <1>3, <1>4
<1>10. IsFiniteSet(Begun(r))
  BY <1>4, CpusFinite, FS_Subset
<1>11. Cardinality(Begun(n)) = Cardinality(Begun(r)) + 1
  BY <1>4, <1>7, <1>10, FS_AddElement
<1>12. n.started = Cardinality(Begun(n)) /\ n.finished = Cardinality(Done(n))
  BY <1>1, <1>3, <1>8, <1>11
<1>13. Begun(n) \cup (s \ {d}) = n.members /\ Begun(n) \cap (s \ {d}) = {}
  BY <1>1, <1>3, <1>7 DEF SameCall
<1>14. \A e \in Cpus : n.ran[e] \in {0, 1} /\ n.ended[e] \in {0, 1} /\ (n.ended[e] = 1 => n.ran[e] = 1)
  BY <1>1, <1>3, <1>5, <1>6
<1>15. Served(n, p, s \ {d})
  BY <1>9, <1>12, <1>13, <1>14 DEF Served
<1> QED BY <1>5, <1>6, <1>9, <1>15 DEF n

\* A processor has finished.
LEMMA DoneGrows ==
    ASSUME NEW r \in Records, NEW p, NEW s, NEW d \in Cpus, Served(r, p, s), r.wait,
           r.ran[d] = 1, r.ended[d] = 0
    PROVE  /\ Served(EndOn(r, d), p, s) /\ p # "returning"
           /\ \A e \in Cpus : e # d => EndOn(r, d).ended[e] = r.ended[e]
<1> DEFINE n == EndOn(r, d)
<1>1. /\ n.finished = r.finished + 1 /\ n.started = r.started /\ n.ran = r.ran
      /\ n.ended = [r.ended EXCEPT ![d] = r.ended[d] + 1] /\ SameCall(r, n)
  BY EndFields
<1>2. r.ran \in [Cpus -> Int] /\ r.ended \in [Cpus -> Int] /\ r.members \subseteq Cpus
  BY DEF Records
<1>3. /\ \A e \in Cpus : r.ran[e] \in {0, 1} /\ r.ended[e] \in {0, 1} /\ (r.ended[e] = 1 => r.ran[e] = 1)
      /\ Begun(r) \cup s = r.members /\ Begun(r) \cap s = {}
      /\ r.started = Cardinality(Begun(r)) /\ r.finished = Cardinality(Done(r))
      /\ p \in {"finished", "returning"} => Begun(r) = r.members
      /\ p = "returning" => Done(r) = r.members
      /\ p = "finished" => r.wait
  BY DEF Served
<1> HIDE DEF n
<1>4. d \notin Done(r) /\ d \in Begun(r) /\ Done(r) \subseteq Cpus
  BY DEF Done, Begun
<1>5. p # "returning"
  BY <1>3, <1>4
<1>6. n.ended[d] = 1 /\ \A e \in Cpus : e # d => n.ended[e] = r.ended[e]
  BY <1>1, <1>2
<1>7. Done(n) = Done(r) \cup {d}
  BY <1>6 DEF Done
<1>8. Begun(n) = Begun(r)
  BY <1>1 DEF Begun
<1>9. IsFiniteSet(Done(r))
  BY <1>4, CpusFinite, FS_Subset
<1>10. Cardinality(Done(n)) = Cardinality(Done(r)) + 1
  BY <1>4, <1>7, <1>9, FS_AddElement
<1>11. n.started = Cardinality(Begun(n)) /\ n.finished = Cardinality(Done(n))
  BY <1>1, <1>3, <1>8, <1>10
<1>12. \A e \in Cpus : n.ran[e] \in {0, 1} /\ n.ended[e] \in {0, 1} /\ (n.ended[e] = 1 => n.ran[e] = 1)
  BY <1>1, <1>3, <1>6
<1>13. Served(n, p, s)
  BY <1>1, <1>3, <1>5, <1>8, <1>11, <1>12 DEF Served, SameCall
<1> QED BY <1>5, <1>6, <1>13 DEF n

\* A call that has just been sent.
LEMMA ServedFresh == ASSUME NEW r \in Records, Fresh(r) PROVE Served(r, "started", r.members)
<1>1. \A d \in Cpus : r.ran[d] = 0 /\ r.ended[d] = 0
  BY DEF Fresh, NoCounts
<1>2. Begun(r) = {} /\ Done(r) = {}
  BY <1>1 DEF Begun, Done
<1>3. Cardinality({}) = 0
  BY FS_EmptySet
<1> QED BY <1>1, <1>2, <1>3 DEF Served, Fresh

\* The two counts that end the waits: all have begun, all have finished.
LEMMA CountsTell == ASSUME NEW r \in Records, NEW p, NEW s, Served(r, p, s), r.cpus = Cardinality(r.members)
                    PROVE  /\ r.started = r.cpus => Begun(r) = r.members
                           /\ r.finished = r.cpus => Done(r) = r.members
<1>1. /\ r.members \subseteq Cpus /\ Begun(r) \cup s = r.members
      /\ \A d \in Cpus : r.ended[d] = 1 => r.ran[d] = 1
      /\ r.started = Cardinality(Begun(r)) /\ r.finished = Cardinality(Done(r))
  BY DEF Served, Records
<1>2. Begun(r) \subseteq r.members /\ Done(r) \subseteq r.members
  BY <1>1 DEF Begun, Done
<1>3. IsFiniteSet(r.members)
  BY <1>1, CpusFinite, FS_Subset
<1> QED BY <1>1, <1>2, <1>3, FS_Subset

\* A call that is over is not waited for and has no interrupt pending.
LEMMA ServedOver == ASSUME NEW r, NEW s, Served(r, "returning", s)
                    PROVE  /\ s = {}
                           /\ r.wait => \A d \in Cpus : r.ran[d] = 1 => r.ended[d] = 1
                           /\ \A d \in r.members : r.ran[d] = 1 /\ (r.wait => r.ended[d] = 1)
<1>1. Begun(r) \cup s = r.members /\ Begun(r) \cap s = {} /\ Begun(r) = r.members /\ (r.wait => Done(r) = r.members)
  BY DEF Served
<1> QED BY <1>1 DEF Begun, Done

-----------------------------------------------------------------------------
(* Calls: the steps                                                        *)

\* Nobody calls at first.
LEMMA CallStarts == SmpInit => CallInv
<1> SUFFICES ASSUME SmpInit PROVE CallInv
  OBVIOUS
<1>1. NoCall \in Records /\ NotHandling \in Handlings
  BY DEF NoCall, NotHandling, Records, Handlings, NoCounts, NoCpu
<1>2. CallTypes
  BY <1>1 DEF SmpInit, CallTypes, CallPcs
<1>3. \A c \in Cpus : CpuCalls(c) /\ HandlerRight(c)
  BY Present DEF SmpInit, CpuCalls, HandlerRight, NotHandling
<1> QED BY <1>2, <1>3 DEF SmpInit, CallInv

\* Steps of the start-up that make no call.
LEMMA CallsUnchanged == ASSUME BootInv, CallInv, [SmpNext]_smpVars, UNCHANGED callVars PROVE CallInv'
<1>1. \A c \in Cpus : CpuCalls(c)'
  <2> SUFFICES ASSUME NEW c \in Cpus PROVE CpuCalls(c)'
    OBVIOUS
  <2>1. CpuCalls(c) /\ (callPc[c] # "none" => Asks(c, data[c])')
    <3>1. PICK r : r = data[c]
      OBVIOUS
    <3>2. CpuCalls(c) /\ data' = data
      BY DEF CallInv, callVars
    <3>3. Asks(c, r) => Asks(c, r)'
      BY AsksStays
    <3> QED BY <3>1, <3>2, <3>3 DEF CpuCalls
  <2> QED BY <2>1 DEF CpuCalls, callVars, Fresh, Served, Begun, Done
<1> QED BY <1>1 DEF CallInv, CallTypes, callVars, HandlerRight

\* A processor fills in its record.
LEMMA CallsRight == ASSUME BootInv, CallInv, [SmpNext]_smpVars, NEW c \in Cpus, NEW dest, NEW wait \in BOOLEAN,
                           Calls(c, dest, wait), c \in OnSet(online), dest \in Destinations,
                           bootPc \in Tried, bootPc' \in {"calibrating", "done"}, online' = online
                    PROVE  CallInv'
<1> DEFINE r == [NoCall EXCEPT !.dest = dest, !.cpus = Expected(dest), !.wait = wait, !.members = Meant(c, dest)]
<1>1. /\ data' = [data EXCEPT ![c] = r] /\ callPc[c] = "none" /\ callPc' = [callPc EXCEPT ![c] = "spin"]
      /\ UNCHANGED <<callLock, call_data, ipi, handling, wild>> /\ CallTypes
  BY DEF Calls, CallInv
<1>2. Meant(c, dest) \subseteq Cpus /\ Expected(dest) = Cardinality(Meant(c, dest))
  BY AskedAreReached
<1>3. dest \in Int
  BY AllTried, Present DEF Destinations, ALLBUT, ALLINC
<1>4. Expected(dest) \in Int
  <2>1. online \in Seq(Cpus)
    BY DEF BootInv, BootTypes
  <2>2. Len(online) \in Int /\ Len(online) - 1 \in Int
    BY <2>1
  <2> QED BY <2>2 DEF Expected
<1>5. /\ r \in Records /\ r.dest = dest /\ r.members = Meant(c, dest) /\ r.cpus = Expected(dest)
      /\ r.started = 0 /\ r.finished = 0 /\ r.ran = NoCounts /\ r.ended = NoCounts
  <2>1. NoCounts \in [Cpus -> Int] /\ 0 \in Int
    BY DEF NoCounts
  <2>2. PICK x, m : x = Expected(dest) /\ m = Meant(c, dest)
    OBVIOUS
  <2>3. x \in Int /\ m \in SUBSET Cpus
    BY <1>2, <1>4, <2>2
  <2>4. /\ NoCall \in Records /\ NoCall.started = 0 /\ NoCall.finished = 0
        /\ NoCall.ran = NoCounts /\ NoCall.ended = NoCounts
    BY <2>1 DEF NoCall, Records, NoCpu
  <2>5. r = [NoCall EXCEPT !.dest = dest, !.cpus = x, !.wait = wait, !.members = m]
    BY <2>2
  <2> HIDE DEF r
  <2> QED BY <1>3, <2>2, <2>3, <2>4, <2>5 DEF Records
<1>6. PICK n : n = r
  OBVIOUS
<1>7. data' = [data EXCEPT ![c] = n] /\ n \in Records /\ Fresh(n)
  BY <1>1, <1>5, <1>6 DEF Fresh
<1>8. Asks(c, n)'
  BY <1>2, <1>5, <1>6 DEF Asks, Destinations, OnSet, Meant
<1> HIDE DEF r
<1>9. CallTypes'
  BY <1>1, <1>7 DEF CallTypes, CallPcs
<1>10. callLock # c
  BY <1>1 DEF CallInv, CpuCalls
<1>11. data'[c] = n /\ callPc'[c] = "spin" /\ \A e \in Cpus : e # c => data'[e] = data[e] /\ callPc'[e] = callPc[e]
  BY <1>1, <1>7 DEF CallTypes
<1>12. CpuCalls(c)'
  BY <1>1, <1>7, <1>8, <1>10, <1>11 DEF CpuCalls
<1>13. ASSUME NEW e \in Cpus, e # c PROVE CpuCalls(e)'
  <2>1. PICK q : q = data[e]
    OBVIOUS
  <2>2. CpuCalls(e) /\ data'[e] = q /\ callPc'[e] = callPc[e]
    BY <1>11, <1>13, <2>1 DEF CallInv
  <2>3. Asks(e, q) => Asks(e, q)'
    BY AsksStays
  <2> QED BY <1>1, <2>1, <2>2, <2>3 DEF CpuCalls
<1>14. ASSUME NEW d \in Cpus PROVE HandlerRight(d)'
  <2>1. HandlerRight(d) /\ callLock \in Cpus \cup {NoCpu}
    BY <1>1 DEF CallInv, CallTypes
  <2>2. callLock # NoCpu => data'[callLock] = data[callLock]
    BY <1>10, <1>11, <2>1
  <2> QED BY <1>1, <2>1, <2>2 DEF HandlerRight
<1> QED BY <1>1, <1>9, <1>12, <1>13, <1>14 DEF CallInv

\* The lock is taken, and the interrupts go out to those the call means.
LEMMA AcquireRight == ASSUME BootInv, CallInv, [SmpNext]_smpVars, NEW c \in Cpus, AcquireAndSend(c) PROVE CallInv'
<1>1. /\ callPc[c] = "spin" /\ callLock = NoCpu /\ callLock' = c /\ call_data' = c
      /\ ipi' = ipi \cup Reached(c, data[c].dest) /\ callPc' = [callPc EXCEPT ![c] = "started"]
      /\ UNCHANGED <<data, handling, wild>> /\ CallTypes /\ ipi = {} /\ c # NoCpu
  BY Present DEF AcquireAndSend, CallInv
<1>2. PICK r : r = data[c]
  OBVIOUS
<1>3. Asks(c, r) /\ Fresh(r) /\ r \in Records
  BY <1>1, <1>2 DEF CallInv, CpuCalls, CallTypes
<1>4. ipi' = r.members /\ r.members \subseteq Cpus
  <2>1. c \in OnSet(online) /\ r.dest \in Destinations /\ r.members = Meant(c, r.dest) /\ bootPc \in Tried
    BY <1>3 DEF Asks, Tried
  <2> QED BY <1>1, <1>2, <2>1, AskedAreReached
<1>5. Served(r, "started", r.members)
  BY <1>3, ServedFresh
<1>6. CallTypes'
  BY <1>1, <1>4 DEF CallTypes, CallPcs
<1>7. callPc'[c] = "started" /\ \A e \in Cpus : e # c => callPc'[e] = callPc[e]
  BY <1>1 DEF CallTypes
<1>8. CpuCalls(c)'
  <2>1. Asks(c, r)'
    BY <1>3, AsksStays
  <2>2. data'[c] = r
    BY <1>1, <1>2
  <2> QED BY <1>1, <1>4, <1>5, <1>7, <2>1, <2>2 DEF CpuCalls
<1>9. ASSUME NEW e \in Cpus, e # c PROVE CpuCalls(e)'
  <2>1. PICK q : q = data[e]
    OBVIOUS
  <2>2. CpuCalls(e) /\ data'[e] = q /\ callPc'[e] = callPc[e] /\ callLock # e /\ callLock' # e
    BY <1>1, <1>7, <1>9, <2>1, Present DEF CallInv
  <2>3. Asks(e, q) => Asks(e, q)'
    BY AsksStays
  <2> QED BY <2>1, <2>2, <2>3 DEF CpuCalls
<1>10. ASSUME NEW d \in Cpus PROVE HandlerRight(d)'
  <2>1. ~(handling[d].on /\ handling[d].wait)
    BY <1>1 DEF CallInv, HandlerRight
  <2> QED BY <1>1, <2>1 DEF HandlerRight
<1> QED BY <1>1, <1>6, <1>8, <1>9, <1>10 DEF CallInv

\* The caller sees that all have begun, or that all have finished.
LEMMA WaitsRight == ASSUME BootInv, CallInv, [SmpNext]_smpVars, NEW c \in Cpus, WaitStarted(c) \/ WaitFinished(c)
                    PROVE  CallInv'
<1>1. PICK r, p : r = data[c] /\ p = callPc'[c]
  OBVIOUS
<1>2. /\ callPc[c] \in {"started", "finished"} /\ UNCHANGED <<callLock, call_data, data, ipi, handling, wild>> /\ CallTypes
      /\ r \in Records /\ callLock = c
  BY <1>1 DEF WaitStarted, WaitFinished, CallInv, CpuCalls, CallTypes
<1>3. Asks(c, r) /\ Served(r, callPc[c], ipi) /\ r.cpus = Cardinality(r.members)
  BY <1>1, <1>2 DEF CallInv, CpuCalls, Asks
<1>4. (r.started = r.cpus => Begun(r) = r.members) /\ (r.finished = r.cpus => Done(r) = r.members)
  BY <1>2, <1>3, CountsTell
<1>5. /\ \/ callPc[c] = "started" /\ r.started = r.cpus /\ p = (IF r.wait THEN "finished" ELSE "returning")
         \/ callPc[c] = "finished" /\ r.finished = r.cpus /\ p = "returning"
      /\ callPc' = [callPc EXCEPT ![c] = p]
  BY <1>1, <1>2 DEF WaitStarted, WaitFinished, CallTypes
<1>6. Served(r, p, ipi) /\ p \in {"finished", "returning"}
  <2>1. p \in {"finished", "returning"} /\ Begun(r) = r.members
    BY <1>3, <1>4, <1>5 DEF Served
  <2>2. (p = "finished" => r.wait) /\ (p = "returning" /\ r.wait => Done(r) = r.members)
    BY <1>4, <1>5
  <2> QED BY <1>3, <2>1, <2>2 DEF Served
<1>7. CallTypes'
  BY <1>2, <1>5, <1>6 DEF CallTypes, CallPcs
<1>8. callPc'[c] = p /\ \A e \in Cpus : e # c => callPc'[e] = callPc[e]
  BY <1>1, <1>2, <1>5 DEF CallTypes
<1>9. CpuCalls(c)'
  <2>1. Asks(c, r)' /\ data'[c] = r
    BY <1>1, <1>2, <1>3, AsksStays
  <2> QED BY <1>2, <1>6, <1>8, <2>1 DEF CpuCalls
<1>10. ASSUME NEW e \in Cpus, e # c PROVE CpuCalls(e)'
  <2>1. PICK q : q = data[e]
    OBVIOUS
  <2>2. CpuCalls(e) /\ data'[e] = q /\ callPc'[e] = callPc[e] /\ callLock # e /\ callLock' = callLock
    BY <1>2, <1>8, <1>10, <2>1 DEF CallInv
  <2>3. Asks(e, q) => Asks(e, q)'
    BY AsksStays
  <2> QED BY <2>1, <2>2, <2>3 DEF CpuCalls
<1>11. ASSUME NEW d \in Cpus PROVE HandlerRight(d)'
  BY <1>2 DEF CallInv, HandlerRight
<1> QED BY <1>2, <1>7, <1>9, <1>10, <1>11 DEF CallInv

\* The call returns: its record is gone, and nobody will write to it.
LEMMA ReturnRight == ASSUME BootInv, CallInv, [SmpNext]_smpVars, NEW c \in Cpus, Return(c) PROVE CallInv'
<1>1. /\ callPc[c] = "returning" /\ callLock' = NoCpu /\ callPc' = [callPc EXCEPT ![c] = "none"]
      /\ data' = [data EXCEPT ![c] = NoCall] /\ UNCHANGED <<call_data, ipi, handling, wild>> /\ CallTypes
      /\ c # NoCpu
  BY Present DEF Return, CallInv
<1>2. callLock = c /\ Served(data[c], "returning", ipi)
  BY <1>1 DEF CallInv, CpuCalls
<1>3. ipi = {} /\ (data[c].wait => \A d \in Cpus : data[c].ran[d] = 1 => data[c].ended[d] = 1)
  BY <1>2, ServedOver
<1>4. NoCall \in Records
  BY DEF NoCall, Records, NoCounts, NoCpu
<1>5. CallTypes'
  BY <1>1, <1>4 DEF CallTypes, CallPcs
<1>6. callPc'[c] = "none" /\ \A e \in Cpus : e # c => callPc'[e] = callPc[e] /\ data'[e] = data[e]
  BY <1>1 DEF CallTypes
<1>7. CpuCalls(c)'
  BY <1>1, <1>6 DEF CpuCalls
<1>8. ASSUME NEW e \in Cpus, e # c PROVE CpuCalls(e)'
  <2>1. PICK q : q = data[e]
    OBVIOUS
  <2>2. CpuCalls(e) /\ data'[e] = q /\ callPc'[e] = callPc[e] /\ callLock # e /\ callLock' # e
    BY <1>1, <1>2, <1>6, <1>8, <2>1, Present DEF CallInv
  <2>3. Asks(e, q) => Asks(e, q)'
    BY AsksStays
  <2> QED BY <2>1, <2>2, <2>3 DEF CpuCalls
<1>9. ASSUME NEW d \in Cpus PROVE HandlerRight(d)'
  <2>1. ~(handling[d].on /\ handling[d].wait)
    <3> SUFFICES ASSUME handling[d].on, handling[d].wait PROVE FALSE
      OBVIOUS
    <3>1. data[c].wait /\ data[c].ran[d] = 1 /\ data[c].ended[d] = 0
      BY <1>2 DEF CallInv, HandlerRight
    <3> QED BY <1>3, <3>1
  <2> QED BY <1>1, <2>1 DEF HandlerRight
<1> QED BY <1>1, <1>3, <1>5, <1>7, <1>8, <1>9 DEF CallInv

\* What stays right when the record of the call that has the lock, h's, is
\* rewritten to n and s interrupts are left.
LEMMA Rewritten ==
    ASSUME BootInv, CallInv, [SmpNext]_smpVars, NEW h \in Cpus, callLock = h, NEW n \in Records,
           data' = [data EXCEPT ![h] = n], SameCall(data[h], n), Served(n, callPc[h], ipi'),
           UNCHANGED <<callLock, callPc>>
    PROVE  \A c \in Cpus : CpuCalls(c)'
<1>1. CallTypes /\ \A c \in Cpus : CpuCalls(c)
  BY DEF CallInv
<1>2. data'[h] = n /\ \A c \in Cpus : c # h => data'[c] = data[c]
  BY <1>1 DEF CallTypes
<1>3. CpuCalls(h)'
  <2>1. callPc[h] \in {"started", "finished", "returning"} /\ Asks(h, data[h])
    BY <1>1 DEF CpuCalls
  <2>2. Asks(h, n)
    BY <2>1 DEF Asks, SameCall
  <2>3. Asks(h, n)'
    BY <2>2, AsksStays
  <2> QED BY <1>2, <2>1, <2>3 DEF CpuCalls
<1>4. ASSUME NEW c \in Cpus, c # h PROVE CpuCalls(c)'
  <2>1. PICK q : q = data[c]
    OBVIOUS
  <2>2. CpuCalls(c) /\ data'[c] = q /\ callPc'[c] = callPc[c] /\ callLock # c /\ callLock' # c
    BY <1>1, <1>2, <1>4, <2>1
  <2>3. Asks(c, q) => Asks(c, q)'
    BY AsksStays
  <2> QED BY <2>1, <2>2, <2>3 DEF CpuCalls
<1> QED BY <1>3, <1>4

\* call_function_ipi_handler begins: the record it reads is that of the call
\* that sent the interrupt.
LEMMA HandleRight == ASSUME BootInv, CallInv, [SmpNext]_smpVars, NEW d \in Cpus, HandleIpi(d) PROVE CallInv'
<1>1. CallTypes /\ d \in ipi /\ callLock # NoCpu /\ call_data = callLock /\ callLock \in Cpus
  BY DEF HandleIpi, CallInv, CallTypes
<1>2. PICK h, r : h = callLock /\ r = data[h]
  OBVIOUS
<1>3. h \in Cpus /\ r \in Records /\ call_data = h /\ callLock = h /\ h # NoCpu
  BY <1>1, <1>2 DEF CallTypes
<1>4. Served(r, callPc[h], ipi) /\ callPc[h] \in {"started", "finished", "returning"}
  BY <1>2, <1>3 DEF CallInv, CpuCalls
<1>5. PICK n : n = BeginOn(r, d)
  OBVIOUS
<1>6. /\ Served(n, callPc[h], ipi \ {d}) /\ callPc[h] \notin {"finished", "returning"}
      /\ n.ran[d] = 1 /\ r.ended[d] = 0 /\ \A e \in Cpus : r.ran[e] = 1 => n.ran[e] = 1
  BY <1>1, <1>3, <1>4, <1>5, BegunGrows
<1>7. n \in Records /\ SameCall(r, n) /\ n.ended = r.ended
  BY <1>3, <1>5, BeginFields
<1>8. data' = [data EXCEPT ![h] = n]
  <2>1. data' = [data EXCEPT ![h].started = @ + 1, ![h].ran[d] = @ + 1]
    BY <1>3 DEF HandleIpi
  <2>2. data \in [Cpus -> Records]
    BY <1>1 DEF CallTypes
  <2> QED BY <1>2, <1>3, <1>5, <2>1, <2>2 DEF BeginOn
<1>9. /\ ipi' = ipi \ {d} /\ UNCHANGED <<callLock, call_data, callPc>> /\ wild' = FALSE
      /\ handling' = [handling EXCEPT ![d] = [on |-> TRUE, wait |-> r.wait, caller |-> h]]
  <2>1. ~wild
    BY DEF CallInv
  <2>2. callPc[call_data] \in {"started", "finished"}
    BY <1>3, <1>4, <1>6
  <2>3. wild' = FALSE
    BY <2>1, <2>2 DEF HandleIpi
  <2> QED BY <1>2, <1>3, <2>3 DEF HandleIpi
<1>10. \A c \in Cpus : CpuCalls(c)'
  BY <1>2, <1>3, <1>6, <1>7, <1>8, <1>9, Rewritten
<1>11. CallTypes'
  <2>1. r.wait \in BOOLEAN
    BY <1>3 DEF Records
  <2>2. [on |-> TRUE, wait |-> r.wait, caller |-> h] \in Handlings
    BY <1>3, <2>1 DEF Handlings
  <2> QED BY <1>1, <1>3, <1>7, <1>8, <1>9, <2>2 DEF CallTypes
<1>12. data'[h] = n /\ handling'[d].wait = r.wait /\ \A e \in Cpus : e # d => handling'[e] = handling[e]
  BY <1>1, <1>3, <1>8, <1>9 DEF CallTypes
<1>13. HandlerRight(d)'
  BY <1>3, <1>6, <1>7, <1>9, <1>12 DEF HandlerRight, SameCall
<1>14. ASSUME NEW e \in Cpus, e # d PROVE HandlerRight(e)'
  <2>1. HandlerRight(e) /\ handling'[e] = handling[e]
    BY <1>12, <1>14 DEF CallInv
  <2> QED BY <1>2, <1>3, <1>6, <1>7, <1>9, <1>12, <2>1 DEF HandlerRight, SameCall
<1> QED BY <1>3, <1>9, <1>10, <1>11, <1>13, <1>14 DEF CallInv

\* The function has returned.
LEMMA EndRight == ASSUME BootInv, CallInv, [SmpNext]_smpVars, NEW d \in Cpus, EndIpi(d) PROVE CallInv'
<1>1. /\ CallTypes /\ handling[d].on /\ handling' = [handling EXCEPT ![d] = NotHandling]
      /\ UNCHANGED <<callLock, call_data, callPc, ipi, bootVars>>
  BY DEF EndIpi, CallInv
<1>2. NotHandling \in Handlings /\ ~NotHandling.on
  BY DEF NotHandling, Handlings
<1>3. ~handling'[d].on /\ \A e \in Cpus : e # d => handling'[e] = handling[e]
  BY <1>1, <1>2 DEF CallTypes
<1>4. HandlerRight(d)'
  BY <1>3 DEF HandlerRight
<1>5. CASE handling[d].wait
  <2>1. PICK h, r : h = callLock /\ r = data[h]
    OBVIOUS
  <2>2. /\ h \in Cpus /\ h # NoCpu /\ call_data = h /\ callLock = h /\ r.wait /\ r.ran[d] = 1 /\ r.ended[d] = 0
        /\ r \in Records
    BY <1>1, <1>5, <2>1 DEF CallInv, HandlerRight, CallTypes
  <2>3. Served(r, callPc[h], ipi) /\ callPc[h] \in {"started", "finished", "returning"}
    BY <2>1, <2>2 DEF CallInv, CpuCalls
  <2>4. PICK n : n = EndOn(r, d)
    OBVIOUS
  <2>5. Served(n, callPc[h], ipi) /\ callPc[h] # "returning" /\ \A e \in Cpus : e # d => n.ended[e] = r.ended[e]
    BY <2>2, <2>3, <2>4, DoneGrows
  <2>6. n \in Records /\ SameCall(r, n) /\ n.ran = r.ran
    BY <2>2, <2>4, EndFields
  <2>7. data' = [data EXCEPT ![h] = n]
    <3>1. data' = [data EXCEPT ![h].finished = @ + 1, ![h].ended[d] = @ + 1]
      BY <1>5, <2>2 DEF EndIpi
    <3>2. data \in [Cpus -> Records]
      BY <1>1 DEF CallTypes
    <3> QED BY <2>1, <2>2, <2>4, <3>1, <3>2 DEF EndOn
  <2>8. wild' = FALSE
    <3>1. ~wild
      BY DEF CallInv
    <3>2. callPc[call_data] \in {"started", "finished"}
      BY <2>2, <2>3, <2>5
    <3> QED BY <1>5, <3>1, <3>2 DEF EndIpi
  <2>9. \A c \in Cpus : CpuCalls(c)'
    BY <1>1, <2>1, <2>2, <2>5, <2>6, <2>7, Rewritten
  <2>10. CallTypes'
    BY <1>1, <1>2, <2>2, <2>6, <2>7, <2>8 DEF CallTypes
  <2>11. data'[h] = n
    BY <1>1, <2>2, <2>7 DEF CallTypes
  <2>12. ASSUME NEW e \in Cpus, e # d PROVE HandlerRight(e)'
    <3>1. HandlerRight(e) /\ handling'[e] = handling[e]
      BY <1>3, <2>12 DEF CallInv
    <3> QED BY <1>1, <2>1, <2>2, <2>5, <2>6, <2>11, <2>12, <3>1 DEF HandlerRight, SameCall
  <2> QED BY <1>1, <1>4, <2>2, <2>8, <2>9, <2>10, <2>12 DEF CallInv
<1>6. CASE ~handling[d].wait
  <2>1. UNCHANGED <<data, wild>>
    BY <1>6 DEF EndIpi
  <2>2. CallTypes'
    BY <1>1, <1>2, <2>1 DEF CallTypes
  <2>3. \A e \in Cpus : e # d => HandlerRight(e)'
    BY <1>1, <1>3, <2>1 DEF CallInv, HandlerRight
  <2>4. ASSUME NEW c \in Cpus PROVE CpuCalls(c)'
    <3>1. PICK q : q = data[c]
      OBVIOUS
    <3>2. CpuCalls(c) /\ data'[c] = q
      BY <2>1, <3>1 DEF CallInv
    <3>3. Asks(c, q) => Asks(c, q)'
      BY AsksStays
    <3> QED BY <1>1, <3>1, <3>2, <3>3 DEF CpuCalls
  <2> QED BY <1>1, <1>4, <2>1, <2>2, <2>3, <2>4 DEF CallInv
<1> QED BY <1>5, <1>6

\* Every step keeps the invariant of the calls.
LEMMA CallStep == ASSUME BootInv, CallInv, [SmpNext]_smpVars PROVE CallInv'
<1>1. ASSUME NEW c \in Cpus, NEW dest \in Destinations, NEW wait \in BOOLEAN, smp_call_function(c, dest, wait)
      PROVE  CallInv'
  <2>1. /\ cpuState[c] = "idle" /\ (c = Bsp => bootPc = "done") /\ Calls(c, dest, wait)
        /\ UNCHANGED <<bootPc, online>>
    BY <1>1 DEF smp_call_function, bootVars
  <2>2. bootPc = "done"
    BY <2>1 DEF BootInv
  <2>3. c \in OnSet(online)
    BY <2>1, <2>2, AllTried DEF Tried, Listens
  <2> QED BY <2>1, <2>2, <2>3, CallsRight DEF Tried
<1>2. ASSUME Calibrate PROVE CallInv'
  <2>1. bootPc = "calibrate" /\ bootPc' = "calibrating" /\ online' = online
    BY <1>2 DEF Calibrate
  <2>2. CASE UNCHANGED callVars
    BY <2>2, CallsUnchanged
  <2>3. CASE Calls(Bsp, ALLBUT, TRUE)
    <3>1. Bsp \in OnSet(online) /\ ALLBUT \in Destinations /\ Bsp \in Cpus
      BY <2>1, AllTried, Present DEF Tried, Destinations
    <3> QED BY <2>1, <2>3, <3>1, CallsRight DEF Tried
  <2> QED BY <1>2, <2>2, <2>3 DEF Calibrate
<1>3. Commence => UNCHANGED callVars
  BY DEF Commence, callVars
<1>4. Destinations = {ALLBUT, ALLINC} \cup {online[i] : i \in DOMAIN online}
  BY DEF Destinations, OnSet
<1>5. \/ UNCHANGED callVars \/ Calibrate
      \/ \E c \in Cpus : \/ \E dest \in Destinations, wait \in BOOLEAN : smp_call_function(c, dest, wait)
                         \/ AcquireAndSend(c) \/ WaitStarted(c) \/ WaitFinished(c) \/ Return(c)
                         \/ HandleIpi(c) \/ EndIpi(c)
  BY <1>3, <1>4 DEF SmpNext, smpVars
<1> QED BY <1>1, <1>2, <1>5, CallsUnchanged, AcquireRight, WaitsRight, ReturnRight, HandleRight, EndRight

\* In a state of the invariant a call that returns has been carried out.
LEMMA CallEnough == CallInv => CrossCallComplete
<1> SUFFICES ASSUME CallInv, NEW c \in Cpus, callPc[c] = "returning"
             PROVE  \A d \in data[c].members : data[c].ran[d] = 1 /\ (data[c].wait => data[c].ended[d] = 1)
  BY DEF CallInv, CrossCallComplete
<1>1. Served(data[c], "returning", ipi)
  BY DEF CallInv, CpuCalls
<1> QED BY <1>1, ServedOver

\* If every processor that will answer answers in time, the processors that
\* take interrupts are those the kernel counts with, and a cross call returns
\* when each of them has begun it exactly once, whatever start-up interrupts
\* are lost and however calls, handlers and nested calls interleave
\* (smp_activate.c 100-295, smp.c 122-190).
THEOREM CrossCallsAlwaysComplete == ASSUME Prompt PROVE SmpSpec => [](CrossCallComplete /\ OnlineExact)
<1>1. SmpInit => BootInv /\ CallInv
  BY BootStarts, CallStarts
<1>2. (BootInv /\ CallInv) /\ [SmpNext]_smpVars => (BootInv /\ CallInv)'
  BY BootStep, CallStep
<1>3. SmpSpec => [](BootInv /\ CallInv)
  BY <1>1, <1>2, PTL DEF SmpSpec
<1>4. BootInv /\ CallInv => CrossCallComplete /\ OnlineExact
  BY BootEnough, CallEnough
<1> QED BY <1>3, <1>4, PTL

\* The machine as a whole: interrupts arrive where they belong, and the
\* processors count with each other rightly.
THEOREM MachineAlwaysRight == ASSUME Prompt PROVE PlatformSpec => []MachineRight
<1>1. EnabledLinesReachCpu /\ (CrossCallComplete /\ OnlineExact) => MachineRight
  BY DEF MachineRight
<1>2. SmpSpec => [](CrossCallComplete /\ OnlineExact)
  BY CrossCallsAlwaysComplete
<1> QED BY <1>1, <1>2, EnabledLinesAlwaysReachCpu, PTL DEF PlatformSpec
=============================================================================
