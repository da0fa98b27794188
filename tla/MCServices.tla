----------------------------- MODULE MCServices -----------------------------
(***************************************************************************)
(* The services of DomainZero and the parts of the platform that keep state *)
(* of their own and share none: a behaviour works on one of them.          *)
(***************************************************************************)
EXTENDS Domains, BootFS, AtomicVariable, Naming, Loader, ApicSetup, Platform, TLC

CONSTANTS Parts, t1, t2, t3

VARIABLE part
services == <<domainVars, fsVars, atomicVars, namingVars, loaderVars>>
platform == <<picVars, apicVars, smpVars>>
vars == <<part, services, platform>>

\* Extra fields of no and of 130 bytes: the length of the second has its top bit
\* set.  Names that fit, that reach into the size of the entry, and behind it.
\* Entries that are compressed or have a wrong local header.
Short(n, sz) == [name |-> n, size |-> sz, nameLen |-> 3, extra |-> <<0, 0>>, stored |-> TRUE, localOk |-> TRUE]
Wide(n, sz) == [Short(n, sz) EXCEPT !.extra = <<130, 0>>]
MCArchives ==
    { <<Short("a", 1), Wide("b", 2), Short("c", 3)>>, <<Wide("b", 4), [Short("a", 5) EXCEPT !.nameLen = 79], Short("b", 6)>>,
      <<Short("a", 1), [Short("b", 2) EXCEPT !.nameLen = 82]>>, <<Short("a", 1), [Short("b", 2) EXCEPT !.nameLen = 130]>>,
      <<Short("a", 1), [Short("b", 2) EXCEPT !.stored = FALSE]>>, <<[Short("b", 2) EXCEPT !.localOk = FALSE]>>, << >> }
MCFiles == { << [kind |-> "int", v |-> 300], [kind |-> "string", v |-> <<200, 7>>],
                [kind |-> "byte", v |-> 200], [kind |-> "code", v |-> <<1, 2, 3>>], [kind |-> "string", v |-> << >>] >> }

MCOrder == <<0, 1, 2>>
MCSymmetry == Permutations(Waiters)

Cpu(id, on, boot) == [type |-> "processor", id |-> id, enabled |-> on, boot |-> boot]
Bus(id, b) == [type |-> "bus", id |-> id, bus |-> b]
IoApic(id, on) == [type |-> "ioapic", id |-> id, enabled |-> on]
Irq(type, flag, bus, irq, apic, pin) ==
    [type |-> "int", irqtype |-> type, flag |-> flag, srcbus |-> bus, srcbusirq |-> irq,
     dstapic |-> apic, dstirq |-> pin]
Lint == [type |-> "lint"]
Paragraph(sum, rev, feature, ok, list) ==
    [kind |-> "mp", sumOk |-> sum, rev |-> rev, feature1 |-> feature, self |-> 1,
     tableOk |-> ok, entries |-> list]
NoStructure == [kind |-> "none"]

\* Processors: one disabled, one too many; buses: ISA and PCI in either
\* place; two or three controllers with interrupts in any order, one of them an
\* SMI and two of them for the same pin; then tables that connect more pins than
\* there are traps, than one round of vectors serves and than there are sources.
CpuEntries == <<Cpu(0, TRUE, TRUE), Cpu(7, FALSE, FALSE), Cpu(1, TRUE, FALSE), Cpu(2, TRUE, FALSE)>>
Interrupts == { Irq(0, 0, 1, 1, 8, 1), Irq(0, 5, 1, 3, 9, 1), Irq(0, 15, 2, 9, 9, 0),
                Irq(2, 0, 1, 0, 8, 2), Irq(0, 10, 2, 4, 8, 2), Irq(0, 0, 1, 3, 8, 1) }
Boards(third, ints) ==
    CpuEntries \o <<Bus(1, "ISA"), Bus(2, "PCI"), IoApic(7, FALSE), IoApic(8, TRUE), IoApic(9, TRUE),
                    IoApic(10, third), Lint>> \o ints
FullBoard(n) == [k \in 1..n |-> Irq(0, 0, 2, 0, IF k <= NPins THEN 8 ELSE 9, (k - 1) % NPins)]
Tables == {Boards(FALSE, ints) : ints \in [1..3 -> Interrupts] \cup {FullBoard(20), FullBoard(28), FullBoard(40)}}
          \cup {Boards(TRUE, ints) : ints \in [1..2 -> Interrupts]}
MCMachines ==
    { << <<NoStructure, Paragraph(FALSE, 4, 0, TRUE, << >>), Paragraph(TRUE, 4, 0, TRUE, t)>>, << >>, << >> >> : t \in Tables }
    \cup { << <<NoStructure, Paragraph(TRUE, 2, 1, TRUE, << >>)>>, << >>, <<Paragraph(TRUE, 1, f, TRUE, << >>)>> >> : f \in 1..7 }
    \cup { << << >>, <<Paragraph(TRUE, 4, 0, FALSE, << >>)>>, <<Paragraph(TRUE, 1, 5, TRUE, << >>)>> >>,
           << << >>, <<NoStructure>>, << >> >> }

\* Code files on top of a base library: e needs c, c needs b and a, b and a need
\* zero; b has a class with an abstract method.  The files list their VM operations in different orders.
Sym(type) == [type |-> type, end |-> 4]
Named(type, name) == [type |-> type, name |-> name, end |-> 8]
Static(name, off) == [type |-> "static", name |-> name, off |-> off, end |-> 8]
VM(type, op) == [type |-> type, op |-> op, end |-> 12]

Cls(name, super, ifs, statics, vtable, syms) ==
    [name |-> name, super |-> super, interfaces |-> ifs, statics |-> statics,
     vtable |-> vtable, syms |-> syms, codeBytes |-> 12]
File(needs, vmtab, classes) ==
    [needs |-> needs, vmtab |-> vmtab, classes |-> classes, checksumOK |-> TRUE]

MCVMOps == <<"none", "monitor", "checkcast">>
MCCodeFiles ==
    [x \in {"zero", "a", "b", "c", "e", "broken"} |->
       CASE x = "zero" -> File(<<>>, <<"none", "monitor", "checkcast">>,
              <<Cls("Z", Object, <<>>, 1, <<"Z">>,
                    <<VM("vm", 1), Sym("fixed"), Static("Z", 0), Named("string", "s")>>)>>)
         [] x = "a" -> File(<<"zero">>, <<"none", "checkcast", "monitor">>,
              <<Cls("A", "Z", <<"I">>, 2, <<"A", "">>,
                    <<VM("vm", 1), Named("call", "Z"), Named("handler", "Z"), Sym("method")>>),
                Cls("I", "", <<>>, 1, <<"">>, <<Static("I", 0), VM("vmabs", 2)>>)>>)
         [] x = "b" -> File(<<"zero">>, <<"none", "checkcast">>,
              <<Cls("B", "Z", <<>>, 0, <<"B", "J">>, <<Named("class", "Z"), VM("vm", 1), Named("call", "J")>>),
                [Cls("J", Object, <<>>, 0, <<"J">>, <<>>) EXCEPT !.codeBytes = 0]>>)
         [] x = "c" -> File(<<"a", "b">>, <<"none", "monitor">>,
              <<Cls("C", "A", <<"I">>, 0, <<"B", "C">>,
                    <<Named("call", "B"), Static("I", 0), Named("class", "A"), VM("vm", 1)>>)>>)
         [] x = "e" -> File(<<"c">>, <<"none", "monitor">>, <<Cls("E", "C", <<>>, 0, <<"E">>, <<Named("class", "A")>>)>>)
         [] OTHER -> [File(<<>>, <<>>, <<>>) EXCEPT !.checksumOK = FALSE]]
MCLoadDomains == {"d1", "d2"}
MCStartLibs == [d \in MCLoadDomains |-> IF d = "d1" THEN <<"b">> ELSE <<"a", "c">>]
MCRequests == {<<"d1", "a">>, <<"d1", "e">>, <<"d2", "broken">>}

Init == /\ part \in Parts
        /\ DomainsInit /\ FsInit /\ AtomicInit /\ NamingInit /\ LoaderInit
        /\ PicInit /\ ApicInit /\ SmpInit
        /\ part = "bootfs" \/ archive = << >>
        /\ part = "atomic" \/ value = [v \in Variables |-> 0]
        /\ part = "apic" \/ machine = << << >>, <<NoStructure>>, << >> >>

Next ==
    \/ /\ part = "domains" /\ DomainsNext
       /\ UNCHANGED <<part, fsVars, atomicVars, namingVars, loaderVars, platform>>
    \/ /\ part = "bootfs" /\ FsNext
       /\ UNCHANGED <<part, domainVars, atomicVars, namingVars, loaderVars, platform>>
    \/ /\ part = "atomic" /\ AtomicNext
       /\ UNCHANGED <<part, domainVars, fsVars, namingVars, loaderVars, platform>>
    \/ /\ part = "naming" /\ NamingNext
       /\ UNCHANGED <<part, domainVars, fsVars, atomicVars, loaderVars, platform>>
    \/ /\ part = "loader" /\ LoaderNext
       /\ UNCHANGED <<part, domainVars, fsVars, atomicVars, namingVars, platform>>
    \/ /\ part = "pic" /\ PicNext
       /\ UNCHANGED <<part, services, apicVars, smpVars>>
    \/ /\ part = "apic" /\ ApicNext
       /\ UNCHANGED <<part, services, picVars, smpVars>>
    \/ /\ part = "smp" /\ SmpNext
       /\ UNCHANGED <<part, services, picVars, apicVars>>

Spec == Init /\ [][Next]_vars
=============================================================================
