----------------------------- MODULE ApicSetup -----------------------------
(***************************************************************************)
(* What a multiprocessor build makes of the BIOS's tables: the search for   *)
(* the MP structure and the reading of its entries (arch/smp_detect.c), the *)
(* routing of the I/O APIC's pins to vectors and traps (arch/io_apic.c) and *)
(* the vectors of the local APIC (arch/lapic.c).                           *)
(***************************************************************************)
EXTENDS Integers, Sequences, FiniteSets

CONSTANTS
    Machines,       \* the memories smp_detect may search
    MaxCpus,        \* MAX_NR_CPUS
    MaxApics,       \* MAX_IO_APICS
    MaxSources,     \* MAX_IRQ_SOURCES
    NPins,          \* pins of an I/O APIC
    NIrqs,          \* NUM_IRQs
    DriverIrqs      \* the irqs some driver asks for

ASSUME ApicAssumption == {MaxCpus, MaxApics, MaxSources, NPins, NIrqs} \subseteq Nat \ {0} /\ DriverIrqs \subseteq 0..(NIrqs - 1)

VARIABLES
    machine,        \* the areas of memory: sequences of paragraphs
    stage,          \* "detect", "route", "run", "single", "panic", or "astray": memory
                    \* that is no redirection table was written as one
    tables,         \* what was found
    iInfos,         \* irq -> where it is routed
    route,          \* the redirection tables: (apic, pin) -> entry
    gate            \* vector -> trap

apicVars == <<machine, stage, tables, iInfos, route, gate>>

NTraps == 16                \* entries of interrupt_trap_name
FIRST_DEVICE_VECTOR == 49
FIRST_SYSTEM_VECTOR == 239
CallFunctionVector == 250
LapicTimerVector == 225
LocalVectors == {LapicTimerVector, CallFunctionVector, 253, 254}
Untrapped == -1             \* no gate
System == -2                \* a trap of the local APIC
NullTrap == -3              \* a gate to address 0
NoApic == 0

(***************************************************************************)
(* smp_detect.c                                                            *)
(***************************************************************************)

\* The initializer gives bus 0 no type; the other buses start as type 0, EISA.
NoTables == [found |-> FALSE, overrun |-> FALSE, cpus |-> << >>, present |-> 0, bsp |-> 0, apics |-> << >>, irqs |-> << >>,
             bus |-> <<"none", "EISA">>]

\* One entry of the table: a disabled one is skipped, one too many is dropped.
\* Processors beyond the limit are counted all the same.  A controller too many
\* is written before it is dropped, behind the end of io_apics.
AddEntry(t, e) ==
    CASE e.type = "processor" /\ e.enabled ->
            [t EXCEPT !.present = @ + 1, !.bsp = IF e.boot THEN e.id ELSE @,
                      !.cpus = IF t.present < MaxCpus THEN Append(@, e.id) ELSE @]
      [] e.type = "bus" -> [t EXCEPT !.bus[e.id] = e.bus]
      [] e.type = "ioapic" /\ e.enabled ->
            [t EXCEPT !.apics = IF Len(@) < MaxApics THEN Append(@, e.id) ELSE @,
                      !.overrun = @ \/ Len(t.apics) >= MaxApics]
      [] e.type = "int" -> [t EXCEPT !.irqs = IF Len(@) < MaxSources - 1 THEN Append(@, e) ELSE @]
      [] OTHER -> t

smp_read_mpct(entries) ==
    LET f[i \in 0..Len(entries)] ==
            IF i = 0 THEN [NoTables EXCEPT !.found = TRUE] ELSE AddEntry(f[i - 1], entries[i])
    IN f[Len(entries)]

\* Lines 0 and 2 are left out, with type 2 line 13 as well.
DefaultIrq(i) ==
    [type |-> "int", irqtype |-> 0, flag |-> 0, srcbus |-> 1, srcbusirq |-> i, dstapic |-> 0, dstirq |-> i]
construct_default_mpct(type, self) ==
    [found |-> TRUE, overrun |-> FALSE, cpus |-> <<self, 3 - self>>, present |-> 2, bsp |-> self, apics |-> <<2>>,
     irqs |-> SelectSeq([i \in 1..15 |-> DefaultIrq(i)],
                        LAMBDA e : e.dstirq # 2 /\ ~(type = 2 /\ e.dstirq = 13)),
     bus |-> <<CASE type \in {1, 5} -> "ISA" [] type \in {2, 3, 6} -> "EISA" [] OTHER -> "MCA",
               IF type > 4 THEN "PCI" ELSE "EISA">>]

\* An MP structure counts when its length, checksum and revision are right.
Valid(p) == p.kind = "mp" /\ p.sumOk /\ p.rev \in {1, 4}

smp_search_config(area) ==
    LET good == {i \in DOMAIN area : Valid(area[i])}
        p == area[CHOOSE i \in good : \A j \in good : i <= j]
    IN IF good = {} THEN NoTables
       ELSE IF p.feature1 # 0 THEN construct_default_mpct(p.feature1, p.self)
       ELSE IF p.tableOk THEN smp_read_mpct(p.entries) ELSE [NoTables EXCEPT !.found = TRUE]

\* The EBDA, the top of base memory, the BIOS ROM: the first that has one.
smp_detect ==
    LET results == [a \in 1..3 |-> smp_search_config(machine[a])]
        hits == {a \in 1..3 : results[a].found}
    IN IF hits = {} THEN NoTables ELSE results[CHOOSE a \in hits : \A b \in hits : a <= b]

(***************************************************************************)
(* io_apic.c                                                               *)
(***************************************************************************)

find_irq_entry(apic, pin) ==
    LET hits == {i \in DOMAIN tables.irqs :
                    /\ tables.irqs[i].irqtype = 0
                    /\ tables.irqs[i].dstapic = tables.apics[apic] /\ tables.irqs[i].dstirq = pin}
    IN IF hits = {} THEN 0 ELSE CHOOSE i \in hits : \A j \in hits : i <= j

BusOf(idx) == tables.bus[tables.irqs[idx].srcbus]

\* Bits 0-1 of the flag, or what the bus prescribes.
irq_polarity(idx) ==
    LET f == tables.irqs[idx].flag % 4
    IN IF f = 1 \/ (f = 0 /\ BusOf(idx) = "ISA") THEN "high" ELSE "low"
irq_trigger(idx) ==
    LET f == (tables.irqs[idx].flag \div 4) % 4
    IN IF f = 1 \/ (f = 0 /\ BusOf(idx) = "ISA") THEN "edge" ELSE "level"

\* Mutant: the pins of the controllers before this one are not counted.
pin_2_irq_PinOnly(idx, apic, pin) ==
    CASE BusOf(idx) \in {"ISA", "EISA"} -> tables.irqs[idx].srcbusirq
      [] BusOf(idx) = "PCI" -> pin
      [] OTHER -> 0

\* The irq of the bus, or one counted over all controllers.
pin_2_irq(idx, apic, pin) ==
    CASE BusOf(idx) \in {"ISA", "EISA"} -> tables.irqs[idx].srcbusirq
      [] BusOf(idx) = "PCI" -> NPins * (apic - 1) + pin
      [] OTHER -> 0

\* The vectors go up by 8; past the end they start again one higher.
assign_irq_vector(s) ==
    LET off == IF s.current > FIRST_SYSTEM_VECTOR THEN s.offset + 1 ELSE s.offset
        cur == IF s.current > FIRST_SYSTEM_VECTOR THEN FIRST_DEVICE_VECTOR + off ELSE s.current
    IN [s EXCEPT !.current = cur + 8, !.offset = off, !.panic = @ \/ cur = FIRST_SYSTEM_VECTOR]

Masked == [vector |-> 0, mask |-> TRUE, dest |-> 0, trigger |-> "edge", polarity |-> "high"]

\* setup_IO_APIC_irqs, pin by pin: an irq on two pins keeps the last.
RoutePin(s, apic, pin) ==
    LET idx == find_irq_entry(apic, pin)
        irq == pin_2_irq(idx, apic, pin)
        a == assign_irq_vector(s)
    IN IF idx = 0 THEN s
       ELSE [a EXCEPT !.infos[irq] = [apic |-> apic, pin |-> pin, vector |-> a.current],
                      !.route[<<apic, pin>>] =
                            [vector |-> a.current, mask |-> TRUE, dest |-> tables.bsp,
                             trigger |-> irq_trigger(idx), polarity |-> irq_polarity(idx)]]

Pins == (1..Len(tables.apics)) \X (0..(NPins - 1))
Unrouted == [current |-> FIRST_DEVICE_VECTOR, offset |-> 0, panic |-> FALSE,
             infos |-> [i \in 0..(NIrqs - 1) |-> [apic |-> NoApic, pin |-> 0, vector |-> 0]],
             route |-> [p \in Pins |-> Masked]]
setup_IO_APIC_irqs ==
    LET f[k \in 0..(NPins * Len(tables.apics))] ==
            IF k = 0 THEN Unrouted ELSE RoutePin(f[k - 1], (k - 1) \div NPins + 1, (k - 1) % NPins)
    IN f[NPins * Len(tables.apics)]

\* init_IO_APIC_traps: the names of 16 traps are known, the others are null.
init_IO_APIC_traps(infos) ==
    LET irqs == {i \in DOMAIN infos : infos[i].apic # NoApic}
        On(v) == {i \in irqs : infos[i].vector = v}
        Last(v) == CHOOSE i \in On(v) : \A j \in On(v) : i >= j
    IN [v \in 0..255 |-> IF On(v) = {} THEN Untrapped ELSE IF Last(v) < NTraps THEN Last(v) ELSE NullTrap]

\* install_apicIRQs: the local APIC's own vectors.
install_apicIRQs(g) == [v \in 0..255 |-> IF v \in LocalVectors THEN System ELSE g[v]]

(***************************************************************************)
(* Actions                                                                 *)
(***************************************************************************)

ApicInit ==
    /\ machine \in Machines
    /\ stage = "detect" /\ tables = NoTables
    /\ iInfos = << >> /\ route = << >> /\ gate = << >>

Detect ==
    /\ stage = "detect"
    /\ tables' = smp_detect
    /\ stage' = IF tables'.found THEN "route" ELSE "single"
    /\ UNCHANGED <<machine, iInfos, route, gate>>

\* setup_IO_APIC and install_apicIRQs
setup_IO_APIC ==
    /\ stage = "route"
    /\ LET s == setup_IO_APIC_irqs
       IN /\ stage' = IF s.panic THEN "panic" ELSE "run"
          /\ iInfos' = s.infos /\ route' = s.route
          /\ gate' = install_apicIRQs(init_IO_APIC_traps(s.infos))
    /\ UNCHANGED <<machine, tables>>

Home(irq) == <<iInfos[irq].apic, iInfos[irq].pin>>
RoutedIrqs == {i \in DOMAIN iInfos : iInfos[i].apic # NoApic}

\* Only irqs the I/O APIC has taken over come here; the entry is read,
\* changed and written back.
enable_IO_APIC_irq(irq) ==
    /\ stage = "run" /\ irq \in RoutedIrqs
    /\ route' = [route EXCEPT ![Home(irq)].mask = FALSE]
    /\ UNCHANGED <<machine, stage, tables, iInfos, gate>>

disable_IO_APIC_irq(irq) ==
    /\ stage = "run" /\ irq \in RoutedIrqs
    /\ route' = [route EXCEPT ![Home(irq)].mask = TRUE]
    /\ UNCHANGED <<machine, stage, tables, iInfos, gate>>

\* Any irq comes here: the one that no pin has is looked up in io_apics[-1].
set_irq_destination(irq, cpu) ==
    /\ stage = "run"
    /\ \/ /\ irq \in RoutedIrqs
          /\ route' = [route EXCEPT ![Home(irq)].dest = cpu]
          /\ UNCHANGED stage
       \/ /\ irq \notin RoutedIrqs /\ stage' = "astray"
          /\ UNCHANGED route
    /\ UNCHANGED <<machine, tables, iInfos, gate>>

ApicNext ==
    \/ Detect \/ setup_IO_APIC
    \/ \E irq \in DriverIrqs :
        \/ enable_IO_APIC_irq(irq) \/ disable_IO_APIC_irq(irq)
        \/ \E cpu \in {tables.cpus[i] : i \in DOMAIN tables.cpus} : set_irq_destination(irq, cpu)

(***************************************************************************)
(* Properties                                                              *)
(***************************************************************************)

\* Whatever the BIOS has left in the other areas, irqs the tables connect to
\* different pins have different vectors, an unmasked pin is one that a driver
\* has asked for, its interrupt goes to a processor that exists and arrives at
\* no trap of another irq; it arrives at its own if the irq has one (it is below
\* 16) and the vector is not one the local APIC takes (smp_detect.c 179-308,
\* 449; io_apic.c 117-276, 439-454).  Said of tables that do not overrun
\* io_apics and until a driver moves an irq that is on no pin.
RoutesRight ==
    stage = "run" /\ ~tables.overrun =>
        /\ \A i, j \in RoutedIrqs : i # j => iInfos[i].vector # iInfos[j].vector
        /\ \A i \in RoutedIrqs :
            LET r == route[Home(i)]
            IN /\ r.vector = iInfos[i].vector /\ gate[r.vector] \in {i, System, NullTrap}
               /\ i < NTraps /\ r.vector \notin LocalVectors => gate[r.vector] = i
               /\ \E c \in DOMAIN tables.cpus : r.dest = tables.cpus[c]
        /\ \A p \in DOMAIN route : route[p].mask \/ \E i \in RoutedIrqs : Home(i) = p
        /\ \A k \in DOMAIN tables.irqs, a \in DOMAIN tables.apics :
            LET e == tables.irqs[k]
                irq == IF tables.bus[e.srcbus] = "PCI" THEN NPins * (a - 1) + e.dstirq ELSE e.srcbusirq
            IN e.irqtype = 0 /\ e.dstapic = tables.apics[a] /\ e.dstirq < NPins
               /\ (\A n \in 1..(k - 1) : <<tables.irqs[n].dstapic, tables.irqs[n].dstirq>> # <<e.dstapic, e.dstirq>>)
               => irq \in RoutedIrqs

\* Not so: every routed irq arrives at a trap of its own.  From irq 16 on the
\* gate is null (io_apic.c 435-437), and the 22nd pin that is connected has the
\* vector of the local timer (io_apic.c 225, irq.h 53).
EveryIrqTrapped == stage = "run" => \A i \in RoutedIrqs : gate[iInfos[i].vector] = i

\* Not so: only redirection tables are written as such, and only entries of
\* io_apics (zero_IRQ.c 348-353, io_apic.c 358-371; smp_detect.c 247-253).
OnlyApicsWritten == stage # "astray" /\ ~tables.overrun

\* The words of io_apic.c 215: at most two of the vectors are at the same
\* interrupt level.  The second round of vectors puts a third there.
AtMostTwoPerLevel ==
    stage = "run" =>
        \A level \in 1..15 : Cardinality({i \in RoutedIrqs : iInfos[i].vector \div 16 = level}) <= 2
=============================================================================
