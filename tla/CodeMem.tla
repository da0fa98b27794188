------------------------------ MODULE CodeMem ------------------------------
(***************************************************************************)
(* Memory for descriptors and compiled code (core/malloc.c): each domain     *)
(* carves them out of fragments of its code segment, and a library that is   *)
(* being loaded uses temporary memory.  Nothing of it is freed piecewise.   *)
(*                                                                          *)
(* Addresses count units; a block has Block of them and CodeBytes, the size  *)
(* of a fragment, is a number of blocks.  A record remembers the units its   *)
(* owner writes to.                                                         *)
(***************************************************************************)
EXTENDS Integers, Sequences, FiniteSets, FiniteSetsExt, SequencesExt

CONSTANTS
    CodeDomains,        \* the domains; "d0" is domainZero
    Block, Memory,      \* units of a block, blocks there are
    CodeBytes,          \* code_bytes of a domain
    CODE_FRAGMENTS,
    IBUFFER,            \* the alignment of code: 16 in the kernel
    Lengths,            \* lengths of names, tables and methods
    MaxRecords, MaxTemps   \* bounds: records, temporary memories at a time

ASSUME CodeAssumption ==
    /\ "d0" \in CodeDomains
    /\ Block \in Nat \ {0} /\ Memory \in Nat /\ CodeBytes \in Nat /\ IBUFFER \in Nat \ {0}
    /\ CODE_FRAGMENTS \in Nat /\ Lengths \subseteq Nat

DESC == 2               \* sizeof a descriptor
VTABLE == 2             \* entries of an array class's vtable (11 in the kernel)
TEMP == 1               \* sizeof(TempMemory)

VARIABLES
    segs,       \* per domain: its fragments [base, top]; cur_code is Len - 1
    records,    \* what has been allocated, in order: [dom, units, code]
    unnumbered, \* shared libraries without an id
    libIDs,     \* the ids given out
    sharedLibID,
    temps,      \* temporary memories [start, size, free], and the units of their tables
    codeHalt    \* the panic that stopped the kernel

codeVars == <<segs, records, unnumbered, libIDs, sharedLibID, temps, codeHalt>>

CodeInit ==
    /\ segs = [d \in CodeDomains |-> << >>]
    /\ records = << >> /\ unnumbered = 0 /\ libIDs = << >> /\ sharedLibID = 1
    /\ temps = << >> /\ codeHalt = "none"

-----------------------------------------------------------------------------
\* jxmalloc gives a run of blocks nobody has: here the first.
BlocksUnder(base, size) == (base \div Block)..((base + size - 1) \div Block)
UsedBlocks(ss) ==
    (UNION {BlocksUnder(f.base, CodeBytes) : f \in UNION {ToSet(ss[d]) : d \in CodeDomains}})
    \cup (UNION {BlocksUnder(t.start, t.size) : t \in ToSet(temps)})
Gaps(ss, size) == {b \in 0..(Memory - 1) : BlocksUnder(b * Block, size) \cap UsedBlocks(ss) = {} /\
                                            BlocksUnder(b * Block, size) \subseteq 0..(Memory - 1)}
jxmallocCode(ss, size) == Block * Min(Gaps(ss, size))

Fragment(ss) == LET b == jxmallocCode(ss, CodeBytes) IN [base |-> b, top |-> b]
HasRoom(f, size) == f.top + size <= f.base + CodeBytes

Halts(why) == codeHalt' = why /\ UNCHANGED <<segs, records>>

\* The first call takes a fragment.  A request the current fragment has no room
\* for takes the next one and leaves the rest of the old one unused.  rec[a] is
\* what the caller writes to memory it gets at address a.
malloc_code(d, size, rec) ==
    LET ss == IF segs[d] # << >> THEN segs ELSE [segs EXCEPT ![d] = <<Fragment(segs)>>]
        full == ~HasRoom(Last(ss[d]), size)
        s2 == IF full THEN [ss EXCEPT ![d] = Append(@, Fragment(ss))] ELSE ss
        c == Len(s2[d])
    IN IF segs[d] = << >> /\ Gaps(segs, CodeBytes) = {} THEN Halts("out of memory")
       ELSE IF full /\ Len(ss[d]) = CODE_FRAGMENTS THEN Halts("no more code")
       ELSE IF full /\ Gaps(ss, CodeBytes) = {} THEN Halts("out of memory")
       ELSE IF ~HasRoom(Last(s2[d]), size) THEN Halts("can't alloc")
       ELSE /\ segs' = [s2 EXCEPT ![d][c].top = @ + size]
            /\ records' = Append(records, rec[s2[d][c].top])
            /\ UNCHANGED codeHalt

Units(from, n) == from..(from + n - 1)
Record(d, units) == [dom |-> d, units |-> units, code |-> 0]
May == codeHalt = "none" /\ Len(records) < MaxRecords
Others == UNCHANGED <<unnumbered, libIDs, sharedLibID, temps>>

\* A descriptor with its name behind it: classes, primitive classes, libraries.
malloc_named(d, namelen) ==
    /\ May /\ Others
    /\ malloc_code(d, DESC + namelen, [a \in Nat |-> Record(d, Units(a, DESC) \cup Units(a + DESC, namelen))])

\* An array class has its vtable behind the name, and the class pointer in front
\* of the vtable.
malloc_arrayclassdesc(d, namelen) ==
    /\ May /\ Others
    /\ malloc_code(d, DESC + namelen + VTABLE + 1,
           [a \in Nat |-> LET vtable == a + DESC + namelen + 1
                           IN Record(d, Units(a, DESC + namelen) \cup Units(vtable - 1, 1) \cup Units(vtable, VTABLE))])

\* Tables of classes, methods, exceptions, vtables, symbols, lines, ...
malloc_table(d, number, entry) ==
    /\ May /\ Others
    /\ malloc_code(d, number * entry, [a \in Nat |-> Record(d, Units(a, number * entry))])

\* Strings, maps and other bytes: as many as are asked for, a string one more.
malloc_bytes(d, len) ==
    /\ May /\ Others
    /\ malloc_code(d, len, [a \in Nat |-> Record(d, Units(a, len))])
malloc_string(d, len) == malloc_bytes(d, len + 1)

\* Mutant: no slack is asked for.
malloc_nativecode_Exact(d, size) ==
    /\ May /\ Others
    /\ malloc_code(d, size,
           [a \in Nat |-> LET c == ((a + IBUFFER - 1) \div IBUFFER) * IBUFFER
                           IN [dom |-> d, units |-> Units(c, size), code |-> c]])

\* Code is aligned to the instruction buffer, inside of a larger request.
malloc_nativecode(d, size) ==
    /\ May /\ Others
    /\ malloc_code(d, size + IBUFFER,
           [a \in Nat |-> LET c == ((a + IBUFFER - 1) \div IBUFFER) * IBUFFER
                           IN [dom |-> d, units |-> Units(c, size), code |-> c]])

malloc_domainzero_namevalue(namelen) == malloc_named("d0", namelen)

\* A shared library gets its memory and, in a second critical section, its id.
malloc_sharedlibdesc(d, namelen) ==
    /\ May /\ unnumbered < 2
    /\ malloc_code(d, DESC + namelen, [a \in Nat |-> Record(d, Units(a, DESC + namelen))])
    /\ unnumbered' = unnumbered + 1
    /\ UNCHANGED <<libIDs, sharedLibID, temps>>
number_sharedlib ==
    /\ codeHalt = "none" /\ unnumbered > 0
    /\ unnumbered' = unnumbered - 1
    /\ libIDs' = Append(libIDs, sharedLibID) /\ sharedLibID' = sharedLibID + 1
    /\ UNCHANGED <<segs, records, temps, codeHalt>>

-----------------------------------------------------------------------------
ALIGN_NEXT_BLOCK(n) == ((n + Block - 1) \div Block) * Block

jxmalloc_tmp(n) ==
    /\ codeHalt = "none" /\ Len(temps) < MaxTemps
    /\ LET size == ALIGN_NEXT_BLOCK(n + TEMP)
           m == jxmallocCode(segs, size)
       IN IF Gaps(segs, size) = {} THEN codeHalt' = "out of memory" /\ UNCHANGED temps
          ELSE /\ temps' = Append(temps, [start |-> m, size |-> size, free |-> m + TEMP, tables |-> << >>])
               /\ UNCHANGED codeHalt
    /\ UNCHANGED <<segs, records, unnumbered, libIDs, sharedLibID>>

\* A table of number pointers, of four bytes each.
malloc_tmp_stringtable(i, number) ==
    /\ codeHalt = "none" /\ i \in DOMAIN temps
    /\ LET m == temps[i].free IN
       IF m + 4 * number > temps[i].start + temps[i].size
       THEN codeHalt' = "temp space not sufficient" /\ UNCHANGED temps
       ELSE /\ temps' = [temps EXCEPT ![i].free = m + 4 * number,
                                      ![i].tables = Append(@, Units(m, 4 * number))]
            /\ UNCHANGED codeHalt
    /\ UNCHANGED <<segs, records, unnumbered, libIDs, sharedLibID>>

jxfree_tmp(i) ==
    /\ codeHalt = "none" /\ i \in DOMAIN temps
    /\ temps' = RemoveAt(temps, i)
    /\ UNCHANGED <<segs, records, unnumbered, libIDs, sharedLibID, codeHalt>>

CodeNext ==
    \/ \E d \in CodeDomains, n \in Lengths :
        \/ malloc_named(d, n) \/ malloc_arrayclassdesc(d, n) \/ malloc_string(d, n)
        \/ malloc_table(d, n, DESC) \/ malloc_nativecode(d, n) \/ malloc_sharedlibdesc(d, n)
    \/ \E n \in Lengths : malloc_domainzero_namevalue(n) \/ jxmalloc_tmp(n)
    \/ number_sharedlib
    \/ \E i \in DOMAIN temps : jxfree_tmp(i) \/ \E n \in Lengths : malloc_tmp_stringtable(i, n)

CodeSpec == CodeInit /\ [][CodeNext]_codeVars

\* What a fragment and a temporary memory may be written to.
FragmentArea(f) == Units(f.base, CodeBytes)
TempArea(t) == Units(t.start, t.size)

Apart(a, b) == a \cap b = {}

(***************************************************************************)
(* Every descriptor, name, vtable, table and piece of code is written only   *)
(* by its owner: what one request may write lies in a fragment of its own    *)
(* domain or in its own temporary memory, behind its header, nobody else may *)
(* write there, code begins at a multiple of the instruction buffer's size,  *)
(* and no two shared libraries have the same number (malloc.c 568-857).      *)
(***************************************************************************)
CodeMemorySound ==
    /\ \A i \in DOMAIN records :
        /\ \E f \in ToSet(segs[records[i].dom]) : records[i].units \subseteq FragmentArea(f)
        /\ records[i].code % IBUFFER = 0
        /\ \A j \in DOMAIN records : i # j => Apart(records[i].units, records[j].units)
        /\ \A k \in DOMAIN temps : Apart(records[i].units, TempArea(temps[k]))
    /\ \A k, l \in DOMAIN temps : k # l => Apart(TempArea(temps[k]), TempArea(temps[l]))
    /\ \A k \in DOMAIN temps : LET t == temps[k] IN \A a \in DOMAIN t.tables :
        /\ t.tables[a] \subseteq TempArea(t) \ Units(t.start, TEMP)
        /\ \A b \in DOMAIN t.tables : a # b => Apart(t.tables[a], t.tables[b])
    /\ IsInjective(libIDs)
=============================================================================
