---------------------------- MODULE ProfileAging ----------------------------
(***************************************************************************)
(* The log of an object's life (Memory/gc_pa.c, build option               *)
(* PROFILE_AGING): allocations, moves and collections are appended to a    *)
(* buffer that is compressed, block by block, into a pool; what the events *)
(* refer to (names, domains, return addresses) is entered once into paPlain*)
(* and found through sorted tables of offsets.  Every function runs with   *)
(* interrupts disabled.  Strings and addresses are numbers; a compressed   *)
(* block is the block, and has a length in bytes.                          *)
(***************************************************************************)
EXTENDS Integers, Sequences, FiniteSets, SequencesExt

CONSTANTS
    AgingDomains,   \* DomainDesc addresses; a domain's first name is its address
    NextName,       \* the name of the domain that uses a DomainDesc next
    ClassNames, Eips, ThreadNames,
    Libraries,      \* names of the shared libraries
    Symbol,         \* what is at a return address: the names found for it
    TabMax,         \* MAX_PAPLAIN...: the sizes of the tables
    PlainMax,       \* MAX_PAPLAIN, in entries
    InLen, OutLen, PoolMax, \* IN_LEN, OUT_LEN, MAX_PAPOOL
    BlockLens,      \* lengths of compressed blocks
    RecordLen,      \* sizeof of the events
    MaxEvents       \* bound

Tabs == {"paStrings", "paDomains", "paEIPs", "paEIP2s", "paThreads"}

ASSUME AgingAssumption ==
    /\ \A t \in DOMAIN RecordLen : RecordLen[t] \in 1..InLen
    /\ TabMax \in [Tabs -> Nat] /\ \A e \in Eips : e \in DOMAIN Symbol
    /\ BlockLens \subseteq 1..OutLen

VARIABLES
    pa,         \* paPlain, the tables, the buffer in, the pool and its bytes;
                \* stray: what is behind a table or the pool was written
    domainName, \* of the domain that uses a DomainDesc
    logged      \* the calls, with what they were about

agingVars == <<pa, domainName, logged>>

AgingInit ==
    /\ pa = [plain |-> << >>, tab |-> [t \in Tabs |-> << >>], in |-> << >>, pool |-> << >>,
             used |-> 0, stray |-> FALSE, halt |-> "no"]
    /\ domainName = [d \in AgingDomains |-> d]
    /\ logged = << >>

(***************************************************************************)
(* The buffer                                                              *)
(***************************************************************************)

Halted(s, why) == [s EXCEPT !.halt = IF @ = "no" THEN why ELSE @]
\* Four bytes of length and the block.
Compressed(s, block, len) ==
    [s EXCEPT !.pool = Append(@, block), !.in = << >>, !.used = @ + 4 + len, !.stray = @ \/ s.used + 4 + len > PoolMax]

\* The rest of an event that did not fit is lost.
paStore_NoRest(s, units, len) ==
    LET l == InLen - Len(s.in)
    IN IF Len(units) <= l THEN [s EXCEPT !.in = @ \o units]
       ELSE IF s.used + 3 + OutLen > PoolMax THEN Halted(s, "paPool overflow")
       ELSE Compressed(s, s.in \o SubSeq(units, 1, l), len)

\* An event is not longer than the buffer: the recursive call stores the rest.
\* The test leaves room for three of the four bytes.
paStore(s, units, len) ==
    LET l == InLen - Len(s.in)
    IN IF Len(units) <= l THEN [s EXCEPT !.in = @ \o units]
       ELSE IF s.used + 3 + OutLen > PoolMax THEN Halted(s, "paPool overflow")
       ELSE [Compressed(s, s.in \o SubSeq(units, 1, l), len) EXCEPT !.in = SubSeq(units, l + 1, Len(units))]

Full(s) == s.used + 4 + OutLen > PoolMax
paFlush(s, len) == IF Full(s) THEN Halted(s, "paPool overflow") ELSE Compressed(s, s.in, len)

(***************************************************************************)
(* The tables                                                              *)
(***************************************************************************)

\* strncmp, ddcmp, eipcmp, thrcmp: two numbers, the first one decides.
Less(a, b) == a[1] < b[1] \/ (a[1] = b[1] /\ a[2] < b[2])

binsearch(plain, tab, key) ==
    LET search[l \in 0..Len(tab), r \in 0..Len(tab)] ==
          IF l = r THEN -l - 1
          ELSE LET n == l + (r - l) \div 2
                   k == plain[tab[n + 1]].key
               IN IF k = key THEN n ELSE IF Less(key, k) THEN search[l, n] ELSE search[n + 1, r]
    IN search[0, Len(tab)]

\* The entries behind the new one are moved up; the length of the move is
\* 4 * used - n bytes, so that it may end behind the table.  The code goes on;
\* what it has overwritten there is not modelled.
MovesBehind(used, n, max) == used > 0 /\ 4 * (n + 1) + 4 * used - n > 4 * max

paInsert(s, t, rec) ==
    LET tab == s.tab[t]
        n == binsearch(s.plain, tab, rec.key)
        at == -n - 1
    IN IF s.halt # "no" THEN [s |-> s, at |-> 0]
       ELSE IF n >= 0 THEN [s |-> s, at |-> tab[n + 1]]
       ELSE IF Len(tab) = TabMax[t] THEN [s |-> Halted(s, "paTab overflow"), at |-> 0]
       ELSE IF Len(s.plain) = PlainMax THEN [s |-> Halted(s, "paPlain overflow"), at |-> 0]
       ELSE [s |-> [s EXCEPT !.plain = Append(@, rec), !.tab[t] = InsertAt(@, at + 1, Len(s.plain) + 1),
                             !.stray = @ \/ MovesBehind(Len(tab), at, TabMax[t])],
             at |-> Len(s.plain) + 1]

Str(s, name) == paInsert(s, "paStrings", [key |-> <<name, 0>>])

\* ddcmp compares the address of the DomainDesc alone.
paDomainIndex(s, d) ==
    LET n == Str(s, domainName[d]) IN paInsert(n.s, "paDomains", [key |-> <<d, 0>>, name |-> n.at])

(***************************************************************************)
(* Return addresses                                                        *)
(***************************************************************************)

\* A new entry is filled in: with class, method and signature of the method
\* or the portal method at the address, or the name of a core symbol.
Described(s, at, eip) ==
    LET y == Symbol[eip]
        c == Str(s, y.class)
        m == IF y.kind = "core" THEN Str(s, y.method) ELSE Str(c.s, y.method)
        g == Str(m.s, y.signature)
        done == IF y.kind = "core" THEN m.s ELSE g.s
    IN IF s.halt # "no" \/ eip = 0 \/ y.kind = "unknown" THEN s
       ELSE IF done.halt # "no" THEN done
       ELSE IF y.kind = "core" THEN [done EXCEPT !.plain[at].pmn = m.at]
       ELSE [done EXCEPT !.plain[at].pcn = c.at, !.plain[at].pmn = m.at, !.plain[at].pms = g.at]

EipEntry(eip, cn) == [key |-> <<eip, cn>>, pcn |-> 0, pmn |-> 0, pms |-> 0]

paEIP(s, name, eip) ==
    LET cn == Str(s, name)
        i == paInsert(cn.s, "paEIPs", EipEntry(eip, cn.at))
    IN [s |-> IF i.s.tab["paEIPs"] = cn.s.tab["paEIPs"] THEN i.s ELSE Described(i.s, i.at, eip), at |-> i.at]

\* Whether the entry is new is told from the size of the other table.
paEIP2(s, eip) ==
    LET cn == Str(s, 0)
        i == paInsert(cn.s, "paEIP2s", EipEntry(eip, cn.at))
    IN IF Len(i.s.tab["paEIP2s"]) = Len(cn.s.tab["paEIPs"]) THEN i.s ELSE Described(i.s, i.at, eip)

(***************************************************************************)
(* Events                                                                  *)
(***************************************************************************)

Units(e, type) == IF type = "none" THEN << >> ELSE [i \in 1..RecordLen[type] |-> <<e, i>>]
Unlogged(about) == logged' = Append(logged, [type |-> "none", ref |-> 0, about |-> about]) /\ UNCHANGED domainName
Of(d) == <<d, domainName[d]>>
\* An event of the log: its bytes carry the offset of the entry it names.
Log(s, type, ref, about) ==
    /\ logged' = Append(logged, [type |-> type, ref |-> ref, about |-> about])
    /\ \E len \in BlockLens : pa' = IF s.halt # "no" THEN s ELSE paStore(s, Units(Len(logged) + 1, type), len)
    /\ UNCHANGED domainName
Open == pa.halt = "no" /\ Len(logged) < MaxEvents

\* paNew, paGCStart and paGCStop name a domain.
paNew(d) == LET r == paDomainIndex(pa, d) IN Open /\ Log(r.s, "new", r.at, Of(d))
paGCStart(d) == LET r == paDomainIndex(pa, d) IN Open /\ Log(r.s, "gcstart", r.at, Of(d))
paGCStop(d) == LET r == paDomainIndex(pa, d) IN Open /\ Log(r.s, "gcstop", r.at, Of(d))
paMove == Open /\ Log(pa, "move", 0, << >>)
\* paObj, paProxy, paMemProxy, paCSP, paAVP, paDEP differ in the class.
paObj(c, eip) == LET r == paEIP(pa, c, eip) IN Open /\ Log(r.s, "obj", r.at, <<eip, c>>)
paArray(c, eip) == LET r == paEIP(pa, c + 100, eip) IN Open /\ Log(r.s, "array", r.at, <<eip, c + 100>>)

paThread(thread, name, d) ==
    LET n == IF name = 0 THEN [s |-> pa, at |-> 0] ELSE Str(pa, name)
        i == paDomainIndex(n.s, d)
    IN /\ Open
       /\ pa' = paInsert(i.s, "paThreads", [key |-> <<thread, n.at>>, domain |-> i.at]).s
       /\ Unlogged(Of(d))
SampledAddress(eip) == Open /\ pa' = paEIP2(pa, eip) /\ Unlogged(<< >>)

\* The monitor's dump: flushes when there is room, enters the libraries.
printProfileAging ==
    /\ Open
    /\ \E len \in BlockLens :
         pa' = LET f == IF Full(pa) THEN pa ELSE paFlush(pa, len)
               IN FoldLeft(LAMBDA s, lib : Str(s, lib).s, f, Libraries)
    /\ Unlogged(<< >>)

\* The DomainDesc is used by another domain.
createDomain(d) ==
    /\ Open /\ domainName[d] # NextName
    /\ domainName' = [domainName EXCEPT ![d] = NextName]
    /\ UNCHANGED <<pa, logged>>

AgingNext ==
    \/ paMove \/ printProfileAging
    \/ \E d \in AgingDomains : \/ createDomain(d) \/ paNew(d) \/ paGCStart(d) \/ paGCStop(d)
                               \/ \E n \in ThreadNames : paThread(d, n, d)
    \/ \E e \in Eips : SampledAddress(e) \/ \E c \in ClassNames : paObj(c, e) \/ paArray(c, e)

(***************************************************************************)
(* Properties                                                              *)
(***************************************************************************)

NameAt(i) == pa.plain[i].key[1]

\* The name of the first domain that was entered at an address.
FirstName(d) ==
    LET about == {e \in DOMAIN logged : logged[e].type \in {"new", "gcstart", "gcstop", "none"}
                                        /\ logged[e].about # << >> /\ logged[e].about[1] = d}
    IN logged[CHOOSE e \in about : \A f \in about : e <= f].about[2]

EntryMeans(i, about) ==
    LET e == pa.plain[i]
    IN IF i \in ToSet(pa.tab["paDomains"]) THEN e.key[1] = about[1] /\ NameAt(e.name) = FirstName(about[1])
       ELSE /\ e.key[1] = about[1] /\ NameAt(e.key[2]) = about[2]
            /\ CASE Symbol[about[1]].kind = "unknown" -> e.pcn = 0 /\ e.pmn = 0
                 [] Symbol[about[1]].kind = "core" -> NameAt(e.pmn) = Symbol[about[1]].method
                 [] OTHER -> <<NameAt(e.pcn), NameAt(e.pmn), NameAt(e.pms)>> =
                               <<Symbol[about[1]].class, Symbol[about[1]].method, Symbol[about[1]].signature>>

\* The log can be read back until a panic ends it or a table or the pool is
\* written beyond its end: the blocks and the buffer are the bytes of the
\* events in order, each event's offset leads to an entry that says what it
\* was about (for a domain: the DomainDesc, and the name of the first domain
\* that used it), and the tables stay sorted and free of duplicates, though
\* entries of several tables share paPlain and the filling in of one adds
\* others (gc_pa.c 118-146, 167-223, 326-370).
LogReadable ==
    pa.halt = "no" /\ ~pa.stray =>
      /\ FlattenSeq(pa.pool) \o pa.in = FlattenSeq([e \in DOMAIN logged |-> Units(e, logged[e].type)])
      /\ \A e \in DOMAIN logged :
           logged[e].type \notin {"move", "none"} => EntryMeans(logged[e].ref, logged[e].about)
      /\ \A t \in Tabs : \A i \in 2..Len(pa.tab[t]) :
           Less(pa.plain[pa.tab[t][i - 1]].key, pa.plain[pa.tab[t][i]].key)

\* Not so: nothing behind a table or the pool is written.  The memmove of
\* paInsert is 3 * n bytes too long (gc_pa.c 205-208), and paStore tests for a
\* byte less than it may write (127).
NothingBehindWritten == ~pa.stray

\* Not so: an event names the domain it is about.  A DomainDesc that is used
\* again keeps the name of the first domain (gc_pa.c 70-73, 225-237).
DomainsNamed ==
    \A e \in DOMAIN logged :
        logged[e].type \in {"new", "gcstart", "gcstop"} /\ pa.halt = "no"
            => NameAt(pa.plain[logged[e].ref].name) = logged[e].about[2]
=============================================================================
