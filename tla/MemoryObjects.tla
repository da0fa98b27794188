--------------------------- MODULE MemoryObjects ---------------------------
(***************************************************************************)
(* Memory objects (zero_Memory_org.c).  A memory object is a proxy in the  *)
(* heap of a domain that points to a descriptor (DZMemoryProxy) in a table *)
(* shared by all domains.  Splitting, joining and revoking replace         *)
(* descriptors; the ones that belong to one block of memory form a doubly  *)
(* linked chain, and the block goes back to jxmalloc when no descriptor of *)
(* its chain is referenced any more.  Descriptors are recycled through a   *)
(* free list that is popped with a compare-and-swap while interrupts are   *)
(* enabled; the other operations disable interrupts, after they have        *)
(* checked that the object is valid.  A unit of memory is four bytes, and a *)
(* block of jxmalloc is one unit.                                           *)
(***************************************************************************)
EXTENDS Integers, Sequences, FiniteSets, SequencesExt

CONSTANTS
    Domains,        \* identifiers of the domains (domain 1 is DomainInit)
    ND,             \* NUMBER_DZMEM, the size of the descriptor table
    MemSize,        \* bound: units of memory jxmalloc can hand out
    MaxSize,        \* bound: units of one memory object
    MaxProxies,     \* bound: memory proxies that exist at a time
    Bounds,         \* bounds <<c, s>>: c objects created, and s splits, joins, sub
                    \* ranges, revocations and copies, done or refused
    Requests,       \* memory asked for: <<domain, units, alignment in units or 0>>
    Devices,        \* device memory asked for: <<domain, units>>
    Threads,        \* threads that create memory objects
    Preemptible     \* where a thread may be preempted: "alloc", inside dzmemory_alloc;
                    \* "check", after it found a memory object valid

ASSUME MemoryAssumption ==
    /\ Domains \subseteq Nat \ {0}
    /\ {ND, MemSize, MaxSize, MaxProxies} \subseteq Nat \ {0}
    /\ Bounds \subseteq Nat \X Nat
    /\ Requests \subseteq Domains \X (1 .. MaxSize) \X Nat
    /\ Devices \subseteq Domains \X (1 .. MaxSize)
    /\ Preemptible \subseteq {"alloc", "check"}

Dz      == 1 .. ND
Nil     == 0
NoMem   == -1       \* the C code's mem == NULL
NoOwner == 0        \* prevOwner, nextOwner == NULL
DeviceMem == MemSize            \* an address jxmalloc does not manage
dzInvalid == ND     \* dzmemory_init takes the head of the fresh list for it

VARIABLES
    dz,                 \* the descriptor table dzMemory
    dzMemoryFreeList,   \* its free list, linked through next
    blocks,             \* the units jxmalloc handed out and has not got back
    padding,            \* of these, what lies around an aligned memory object
    proxies,            \* the MemoryProxy objects in the heaps of all domains
    alloc,              \* per thread: where it is in dzmemory_alloc
    leaked,             \* per descriptor: references that no proxy stands for
    irqs,               \* "off" once a call returned with interrupts disabled
    fault,              \* "none", or what stopped the system
    created, structural \* bounds

vars == <<dz, dzMemoryFreeList, blocks, padding, proxies, alloc, leaked, irqs, fault, created, structural>>

DzRec == [refcount : 0 .. 2 * MaxProxies, valid : 0 .. 2, mem : NoMem .. MemSize + MaxSize,
          size : 0 .. MaxSize, prev : Nil .. ND, next : Nil .. ND,
          prevOwner : Domains \cup {NoOwner}, nextOwner : Domains \cup {NoOwner}]

ProxyRec == [n : 1 .. MaxProxies, dom : Domains, dz : Dz, mem : NoMem .. MemSize + MaxSize,
             size : 0 .. MaxSize, reachable : BOOLEAN, checked : BOOLEAN]

Idle == [at |-> "idle", dzm |-> Nil, next |-> Nil, dom |-> 0, mem |-> NoMem, size |-> 0]

\* A free descriptor; what else it still holds is overwritten when it is taken.
FreeDz(next) == [refcount |-> 0, valid |-> 2, mem |-> NoMem, size |-> 0, prev |-> Nil,
                 next |-> next, prevOwner |-> NoOwner, nextOwner |-> NoOwner]

\* dzmemory_init: every descriptor is free, the last one linked in front, and
\* the first one popped is dzInvalid, which stays referenced for ever.
dzmemory_init ==
    /\ dz = [d \in Dz |->
               IF d = dzInvalid THEN [FreeDz(Nil) EXCEPT !.refcount = 1, !.valid = 0]
               ELSE FreeDz(d - 1)]
    /\ dzMemoryFreeList = ND - 1

Init ==
    /\ dzmemory_init
    /\ blocks = {} /\ padding = {}
    /\ proxies = {}
    /\ alloc = [t \in Threads |-> Idle]
    /\ leaked = [d \in Dz |-> 0]
    /\ irqs = "on" /\ fault = "none"
    /\ created = 0
    /\ structural = 0

(***************************************************************************)
(* Operations work on the record Now of the shared state and Commit it.    *)
(***************************************************************************)
Now == [dz |-> dz, free |-> dzMemoryFreeList, blocks |-> blocks,
        proxies |-> proxies, fault |-> fault]

Commit(s) ==
    /\ dz' = s.dz
    /\ dzMemoryFreeList' = s.free
    /\ blocks' = s.blocks
    /\ proxies' = s.proxies
    /\ fault' = s.fault

Fail(s, what) == IF s.fault = "none" THEN [s EXCEPT !.fault = what] ELSE s

\* The descriptors reached from d through prev or next, d first.
Follow(s, link, d) ==
    LET f[k \in 0 .. ND] ==
          IF k = 0 THEN d ELSE IF f[k - 1] = Nil THEN Nil ELSE s.dz[f[k - 1]][link]
    IN  SelectSeq([k \in 1 .. ND |-> f[k - 1]], LAMBDA e : e # Nil)

FreeList(s) == IF s.free = Nil THEN <<>> ELSE Follow(s, "next", s.free)

\* dzmemory_free: back to the head of the free list.
dzmemory_free(s, d) == [s EXCEPT !.dz[d] = FreeDz(s.free), !.free = d]

\* Two neighbours are asserted to be adjacent unless one has lost its memory.
Adjacent(s, a, b) ==
    s.dz[a].mem = NoMem \/ s.dz[b].mem = NoMem
        \/ s.dz[a].mem + s.dz[a].size = s.dz[b].mem

\* jxfree marks the blocks unused, whoever they belong to; below or above the
\* memory of jxmalloc it writes past its bitmap.
jxfree(s, mem, size) ==
    LET units == mem .. mem + size - 1
    IN  IF mem >= MemSize THEN Fail(s, "stray free")
        ELSE IF units \subseteq s.blocks THEN [s EXCEPT !.blocks = @ \ units]
        ELSE Fail(s, "bad free")

\* dzmemory_free_chunk: nothing as long as a descriptor of the chain is
\* referenced (the tail is looked at first, then upwards to the top); then the
\* block and all descriptors of the chain are freed.  More than four bytes are
\* asserted to go back.
FreeChain(s, top, chain) ==
    LET total == FoldSeq(LAMBDA e, n : s.dz[e].size + n, 0, chain)
        s1    == FoldLeft(dzmemory_free, s, Tail(chain))
    IN  IF s.dz[top].mem = NoMem THEN dzmemory_free(s1, top)
        ELSE IF total <= 1 THEN Fail(s, "assertion")
        ELSE dzmemory_free(jxfree(s1, s.dz[top].mem, total), top)

\* up and tail: the descriptors from d upwards and downwards.
FreeUnlessUsed(s, up, tail) ==
    LET used == {k \in 2 .. Len(up) : s.dz[up[k]].refcount > 0}
        \* how far upwards the second loop gets
        stop == IF used = {} THEN Len(up) ELSE CHOOSE k \in used : \A j \in used : k <= j
        top  == up[Len(up)]
    IN  IF \E k \in DOMAIN tail : s.dz[tail[k]].refcount > 0 THEN s
        ELSE IF \E k \in 2 .. stop :
                  s.dz[up[k]].next # up[k - 1] \/ ~Adjacent(s, up[k], up[k - 1])
        THEN Fail(s, "assertion")
        ELSE IF used # {} \/ s.dz[top].refcount > 0 THEN s
        ELSE FreeChain(s, top, Follow(s, "next", top))

dzmemory_free_chunk(s, d) == FreeUnlessUsed(s, Follow(s, "prev", d), Follow(s, "next", d))

\* dzmemory_decRefcount, called by the collector for a dead proxy.
dzmemory_decRefcount(s, d) ==
    IF s.dz[d].refcount = 1 THEN dzmemory_free_chunk([s EXCEPT !.dz[d].refcount = 0], d)
    ELSE [s EXCEPT !.dz[d].refcount = @ - 1]

memory_deleted(s, p) ==
    dzmemory_decRefcount([s EXCEPT !.proxies = @ \ {p}], p.dz)

\* A collection of domain d: every unreachable proxy is finalized, in heap order.
gc(s, d) ==
    LET dead == {p \in s.proxies : p.dom = d /\ ~p.reachable}
    IN  FoldLeft(memory_deleted, s, SetToSortSeq(dead, LAMBDA p, q :
                           p.dz < q.dz \/ (p.dz = q.dz /\ p.n < q.n)))

\* dzmemory_gcdomain: not for the first two domains, and not once two
\* descriptors are free.
dzmemory_gcdomain(s, d) == IF d <= 1 \/ Len(FreeList(s)) >= 2 THEN s ELSE gc(s, d)

\* dzmemory_collector: foreachDomain(dzmemory_gcdomain).
dzmemory_collector(s) == FoldLeft(dzmemory_gcdomain, s, SetToSortSeq(Domains, <))

\* dzmemory_alloc and createDZMemory with interrupts disabled.  The result is
\* the state and the descriptor; without a free one the loop never ends.
Take(s, d, next, size, mem) ==
    [s EXCEPT !.free = next,
              !.dz[d] = [refcount |-> 1, valid |-> 1, mem |-> mem, size |-> size,
                         prev |-> Nil, next |-> Nil,
                         prevOwner |-> NoOwner, nextOwner |-> NoOwner]]

TakeFirst(s, size, mem) ==
    IF s.free = Nil THEN <<Fail(s, "hang"), dzInvalid>>
    ELSE <<Take(s, s.free, s.dz[s.free].next, size, mem), s.free>>

createDZMemory(s, size, mem) ==
    TakeFirst(IF s.free = Nil THEN dzmemory_collector(s) ELSE s, size, mem)

\* Descriptors for several parts, made one after the other: the state and the
\* descriptors.
AddPart(parts, r) == <<r[1], Append(parts, r[2])>>
CreateAll(s, parts) ==
    FoldLeft(LAMBDA r, x : AddPart(r[2], createDZMemory(r[1], x.size, x.mem)), <<s, <<>>>>, parts)

\* The heaps hold a bag of proxies: n tells proxies with the same content apart.
AddProxy(ps, p) ==
    LET same == {q \in ps : q = [p EXCEPT !.n = q.n]}
    IN  ps \cup {[p EXCEPT !.n = Cardinality(same) + 1]}

\* allocMemoryProxyInDomainDZM with internalallocMemoryProxyInDomain
allocMemoryProxyInDomainDZM(s, dom, d) ==
    [s EXCEPT !.proxies = AddProxy(@,
       [n |-> 1, dom |-> dom, dz |-> d, mem |-> s.dz[d].mem,
        size |-> s.dz[d].size, reachable |-> TRUE, checked |-> s.dz[d].valid # 0])]

\* Mutant: the replaced descriptor forgets its memory but stays valid.
FREE_DZ_StaysValid(s, d) == [s EXCEPT !.dz[d].mem = NoMem]

\* FREE_DZMEM: the descriptor of self becomes invalid and forgets its memory.
FREE_DZ(s, d) == [s EXCEPT !.dz[d].valid = 0, !.dz[d].mem = NoMem]

SetLink(s, d, link, to) == IF d = Nil THEN s ELSE [s EXCEPT !.dz[d][link] = to]

\* New descriptors take the place of the descriptors first .. last of a chain.
Replace(s, first, last, new) ==
    LET n  == Len(new)
        s1 == SetLink(SetLink(s, s.dz[first].prev, "next", new[1]),
                      s.dz[last].next, "prev", new[n])
    IN  [s1 EXCEPT !.dz = [d \in Dz |->
           IF \E k \in 1 .. n : new[k] = d
           THEN LET k == CHOOSE k \in 1 .. n : new[k] = d
                IN  [@[d] EXCEPT !.prev = IF k = 1 THEN s.dz[first].prev ELSE new[k - 1],
                                 !.next = IF k = n THEN s.dz[last].next ELSE new[k + 1]]
           ELSE @[d]]]

SetOwners(s, d, before, after) ==
    [s EXCEPT !.dz[d].prevOwner = before, !.dz[d].nextOwner = after]

Isolate(s, d) == [s EXCEPT !.dz[d].prev = Nil, !.dz[d].next = Nil,
                           !.dz[d].valid = 0, !.dz[d].mem = NoMem]

\* The parts r[2] take the place of d, and the links between them belong to dom.
SplitInto(r, dom, d) ==
    LET old == r[1].dz[d]
        n   == Len(r[2])
        own(s, k) == SetOwners(s, r[2][k], IF k = 1 THEN old.prevOwner ELSE dom,
                                           IF k = n THEN old.nextOwner ELSE dom)
    IN  IF r[1].fault # "none" THEN r
        ELSE <<Isolate(FoldLeft(own, Replace(r[1], d, d, r[2]), [k \in 1 .. n |-> k]), d), r[2]>>

dzmemory_split2(s, dom, d, offset) ==
    LET m == s.dz[d].mem
    IN  SplitInto(CreateAll(s, << [size |-> offset, mem |-> m],
                                  [size |-> s.dz[d].size - offset, mem |-> m + offset] >>), dom, d)

dzmemory_split3(s, dom, d, offset, len) ==
    LET m == s.dz[d].mem
    IN  SplitInto(CreateAll(s, << [size |-> offset, mem |-> m],
                                  [size |-> len, mem |-> m + offset],
                                  [size |-> s.dz[d].size - len - offset, mem |-> m + len + offset] >>), dom, d)

\* The new descriptor r[2] takes the place of the neighbours first .. last, which
\* keep the links between them and nothing else.
JoinInto(r, first, last) ==
    LET s1 == Replace(r[1], first, last, <<r[2]>>)
    IN  IF r[1].fault # "none" THEN r
        ELSE <<[SetOwners(s1, r[2], r[1].dz[first].prevOwner, r[1].dz[last].nextOwner)
                  EXCEPT !.dz[first].prev = Nil, !.dz[last].next = Nil], r[2]>>

\* dzmemory_join: one descriptor in place of two neighbours.
dzmemory_join(s, a, b) ==
    LET sane == /\ s.dz[a].valid = 1 /\ s.dz[b].valid = 1
                /\ s.dz[a].mem # NoMem /\ s.dz[b].mem # NoMem
                /\ s.dz[a].mem <= s.dz[b].mem
                /\ s.dz[a].next = b /\ s.dz[b].prev = a
        both(r) == IF r[1].fault # "none" THEN r ELSE <<FREE_DZ(FREE_DZ(r[1], a), b), r[2]>>
    IN  IF ~sane THEN <<Fail(s, "assertion"), dzInvalid>>
        ELSE both(JoinInto(createDZMemory(s, s.dz[a].size + s.dz[b].size, s.dz[a].mem), a, b))

(***************************************************************************)
(* Creation.  memoryManager_alloc gets a block from jxmalloc and then a    *)
(* descriptor; the three accesses of dzmemory_alloc to the free list are   *)
(* steps of their own because interrupts are enabled.                      *)
(***************************************************************************)
Quiet(t) == fault = "none" /\ ("alloc" \in Preemptible \/ \A u \in Threads \ {t} : alloc[u] = Idle)
QuietAll == fault = "none" /\ ("alloc" \in Preemptible \/ \A u \in Threads : alloc[u] = Idle)

Room(n) == Cardinality(proxies) + n <= MaxProxies
Within(c, s) == \E b \in Bounds : created + c <= b[1] /\ structural + s <= b[2]

\* jxmalloc: the first range of memory that is not handed out (see Malloc).
jxmalloc(size) ==
    LET ok == {a \in 0 .. MemSize - size : (a .. a + size - 1) \cap blocks = {}}
    IN  IF ok = {} THEN NoMem ELSE CHOOSE a \in ok : \A b \in ok : a <= b

\* A thread goes for a descriptor.
Asks(t, dom, mem, size) ==
    /\ Quiet(t) /\ alloc[t] = Idle /\ Within(1, 0) /\ Room(1)
    /\ created' = created + 1
    /\ alloc' = [alloc EXCEPT ![t] = [at |-> "head", dzm |-> Nil, next |-> Nil, dom |-> dom, mem |-> mem, size |-> size]]
    /\ UNCHANGED <<dz, dzMemoryFreeList, proxies, leaked, irqs, fault, structural>>

\* createMemoryInstance up to the first read of dzMemoryFreeList, for
\* memoryManager_alloc (bytes = 0: no alignment) and memoryManager_allocAligned.
\* The byte less that is asked for does not save a unit.
\* Only where the object begins is remembered, not the block.
createMemoryInstance(t, dom, size, bytes) ==
    LET d     == jxmalloc(size + bytes)
        block == d .. d + size + bytes - 1
        mem   == IF bytes = 0 \/ d % bytes = 0 THEN d ELSE d + bytes - (d % bytes)
    IN  /\ d # NoMem
        /\ blocks' = blocks \cup block
        /\ padding' = padding \cup (block \ (mem .. mem + size - 1))
        /\ Asks(t, dom, mem, size)

\* memoryManager_allocDeviceMemory, allocReadOnlyMemory: memory that is not
\* jxmalloc's.
memoryManager_allocDeviceMemory(t, dom, size) ==
    Asks(t, dom, DeviceMem, size) /\ UNCHANGED <<blocks, padding>>

\* while ((dzm = dzMemoryFreeList) == NULL) ...: the collector is asked for a
\* descriptor when the list is empty, and the loop goes on if it has none.
dzmemory_alloc_head(t) ==
    /\ Quiet(t) /\ alloc[t].at = "head"
    /\ IF dzMemoryFreeList # Nil
       THEN /\ alloc' = [alloc EXCEPT ![t].at = "next", ![t].dzm = dzMemoryFreeList]
            /\ UNCHANGED <<dz, dzMemoryFreeList, blocks, proxies, fault>>
       ELSE LET r == createDZMemory(Now, alloc[t].size, alloc[t].mem)
            IN  /\ r[1].fault # "hang"
                /\ Commit(allocMemoryProxyInDomainDZM(r[1], alloc[t].dom, r[2]))
                /\ alloc' = [alloc EXCEPT ![t] = Idle]
    /\ UNCHANGED <<padding, leaked, irqs, created, structural>>

\* The third argument of cas: dzMemoryFreeList is read again, then its next.
dzmemory_alloc_next(t) ==
    /\ Quiet(t) /\ alloc[t].at = "next"
    /\ IF dzMemoryFreeList = Nil
       THEN fault' = "null" /\ UNCHANGED alloc
       ELSE /\ alloc' = [alloc EXCEPT ![t].at = "cas", ![t].next = dz[dzMemoryFreeList].next]
            /\ UNCHANGED fault
    /\ UNCHANGED <<dz, dzMemoryFreeList, blocks, padding, proxies, leaked, irqs, created, structural>>

\* The compare-and-swap, and on success the rest of createMemoryInstance.
dzmemory_alloc_cas(t) ==
    /\ Quiet(t) /\ alloc[t].at = "cas"
    /\ LET a == alloc[t]
       IN  IF dzMemoryFreeList = a.dzm
           THEN /\ Commit(allocMemoryProxyInDomainDZM(
                            Take(Now, a.dzm, a.next, a.size, a.mem), a.dom, a.dzm))
                /\ alloc' = [alloc EXCEPT ![t] = Idle]
           ELSE /\ alloc' = [alloc EXCEPT ![t].at = "head"]
                /\ UNCHANGED <<dz, dzMemoryFreeList, blocks, proxies, fault>>
    /\ UNCHANGED <<padding, leaked, irqs, created, structural>>

(***************************************************************************)
(* The operations on a memory object.  They throw InvalidMemory, with no    *)
(* change, if its descriptor is not valid.                                  *)
(***************************************************************************)

\* CHECKVALID comes before DISABLE_IRQ: where a thread can be preempted in
\* between, any object it ever found valid passes.
Usable(p) ==
    p.reachable /\ (dz[p.dz].valid # 0 \/ ("check" \in Preemptible /\ p.checked))

Structural(p, n) ==
    /\ QuietAll /\ Usable(p) /\ Room(n) /\ Within(0, 1)
    /\ structural' = structural + 1
    /\ UNCHANGED <<padding, alloc, irqs, created>>

\* A way out, by an exception or a return, that passes RESTORE_IRQ by.
LeftOut(p) ==
    /\ QuietAll /\ Usable(p) /\ Within(0, 1)
    /\ structural' = structural + 1
    /\ irqs' = "off"
    /\ UNCHANGED <<dz, dzMemoryFreeList, blocks, padding, proxies, alloc, leaked, fault, created>>

\* The parts r[2] get proxies in the domain of p, whose descriptor is given up.
Handed(r, p) ==
    IF r[1].fault # "none" THEN r[1]
    ELSE FREE_DZ(FoldLeft(LAMBDA s, d : allocMemoryProxyInDomainDZM(s, p.dom, d), r[1], r[2]), p.dz)

\* The proxy repeats size and address of its descriptor; two operations assert it.
Repeats(p) == p.size = dz[p.dz].size /\ p.mem = dz[p.dz].mem

\* The assertions of dzmemory_split2 and dzmemory_split3.
Splittable(p) == dz[p.dz].valid = 1 /\ dz[p.dz].mem # NoMem

\* memory_split2(offset)
memory_split2(p, offset) ==
    IF Splittable(p) /\ offset > dz[p.dz].size THEN LeftOut(p)
    ELSE /\ Structural(p, 2)
         /\ Commit(IF Splittable(p) THEN Handed(dzmemory_split2(Now, p.dom, p.dz, offset), p)
                   ELSE Fail(Now, "assertion"))
         /\ UNCHANGED leaked

\* memory_split3(offset, len)
memory_split3(p, offset, len) ==
    IF Repeats(p) /\ Splittable(p) /\ offset + len > dz[p.dz].size THEN LeftOut(p)
    ELSE /\ Structural(p, 3)
         /\ Commit(IF Repeats(p) /\ Splittable(p)
                   THEN Handed(dzmemory_split3(Now, p.dom, p.dz, offset, len), p)
                   ELSE Fail(Now, "assertion"))
         /\ UNCHANGED leaked

\* The second of the parts r[2] is handed out.  The parts around it are released
\* with dzmemory_decRefcount, which is handed the descriptor instead of a proxy
\* and so counts down some other word: they stay referenced.
SubRange(r, p) ==
    /\ Commit(Handed(<<r[1], <<r[2][2]>>>>, p))
    /\ leaked' = [d \in Dz |-> leaked[d] +
                    IF r[1].fault = "none" /\ d \in Range(r[2]) \ {r[2][2]} THEN 1 ELSE 0]

\* memory_getSubRange(offset, len)
memory_getSubRange(p, offset, len) ==
    IF Repeats(p) /\ Splittable(p) /\ offset + len > dz[p.dz].size THEN LeftOut(p)
    ELSE
    /\ Structural(p, 1)
    /\ IF ~(Repeats(p) /\ Splittable(p)) THEN Commit(Fail(Now, "assertion")) /\ UNCHANGED leaked
       ELSE SubRange(IF offset + len = dz[p.dz].size THEN dzmemory_split2(Now, p.dom, p.dz, offset)
                     ELSE dzmemory_split3(Now, p.dom, p.dz, offset, len), p)

\* A proxy for what a join has made.
Joined(r, p) ==
    IF r[1].fault # "none" THEN r[1] ELSE allocMemoryProxyInDomainDZM(r[1], p.dom, r[2])

\* memory_joinPrevious: whoever is not the owner of the link panics the system.
memory_joinPrevious(p) ==
    /\ Structural(p, 1)
    /\ LET prev == dz[p.dz].prev
       IN  Commit(IF dz[p.dz].prevOwner # p.dom \/ prev = Nil THEN Fail(Now, "panic")
                  ELSE Joined(dzmemory_join(Now, prev, p.dz), p))
    /\ UNCHANGED leaked

\* memory_joinNext: NULL for whoever is not the owner of the link.
memory_joinNext(p) ==
    IF dz[p.dz].nextOwner # p.dom THEN LeftOut(p)
    ELSE /\ Structural(p, 1)
         /\ LET next == dz[p.dz].next
            IN  Commit(IF next = Nil THEN Fail(Now, "panic")
                       ELSE Joined(dzmemory_join(Now, p.dz, next), p))
         /\ UNCHANGED leaked

\* The neighbours of d in one direction whose links all belong to dom.
Owned(s, dom, d, link, owner) ==
    LET seq == Follow(s, link, d)
        cut == {k \in 1 .. Len(seq) : s.dz[seq[k]][owner] # dom}
    IN  IF cut = {} THEN seq ELSE SubSeq(seq, 1, CHOOSE k \in cut : \A j \in cut : k <= j)

\* memory_joinAll: the whole stretch of the chain whose links the caller owns.
JoinStretch(p, run) ==
    LET sane  == \A d \in Range(run) :
                   /\ dz[d].valid = 1
                   /\ dz[d].next # Nil =>
                        dz[dz[d].next].prev = d /\ dz[d].mem + dz[d].size = dz[dz[d].next].mem
        size  == FoldSeq(LAMBDA d, n : dz[d].size + n, 0, run)
        freed == FoldLeft(FREE_DZ, Now, run)
    IN  IF ~sane THEN Fail(Now, "assertion")
        ELSE Joined(JoinInto(createDZMemory(freed, size, dz[run[1]].mem), run[1], Last(run)), p)

memory_joinAll(p) ==
    /\ Structural(p, 1)
    /\ Commit(JoinStretch(p, Owned(Now, p.dom, Last(Owned(Now, p.dom, p.dz, "prev", "prevOwner")),
                                   "next", "nextOwner")))
    /\ UNCHANGED leaked

\* The links of a fresh chain, all of them the property of dom.
Chained(s, chain, dom) ==
    LET n == Len(chain)
        link(x, k) == [x EXCEPT !.dz[chain[k]] =
                        [@ EXCEPT !.prev = IF k = 1 THEN Nil ELSE chain[k - 1],
                                  !.prevOwner = IF k = 1 THEN NoOwner ELSE dom,
                                  !.next = IF k = n THEN Nil ELSE chain[k + 1],
                                  !.nextOwner = IF k = n THEN NoOwner ELSE dom]]
    IN  FoldLeft(link, s, [k \in 1 .. n |-> k])

\* Where the stretch ends at a link of another domain (before, after) the
\* neighbour is linked through dzmCurNew: the outermost new descriptor if the
\* loop before made one, else whatever the variable holds (curP, curN), and the
\* old descriptor keeps its link to the neighbour.
LinkBefore(s, before, curP, owner) ==
    IF before = Nil THEN s
    ELSE [s EXCEPT !.dz[before].next = curP, !.dz[curP].prev = before, !.dz[curP].prevOwner = owner]
LinkAfter(s, after, curN, owner) ==
    IF after = Nil THEN s
    ELSE [s EXCEPT !.dz[after].prev = curN, !.dz[curN].next = after, !.dz[curN].nextOwner = owner]

\* r: new descriptors for P, p first and then what is before it, and for the
\* neighbours behind it, Tail(N).  No proxy is made for the new neighbours, so
\* their reference is never released.
RevokeStretch(p, P, N, r) ==
    LET dom    == p.dom
        newP   == SubSeq(r[2], 1, Len(P))
        newN   == SubSeq(r[2], Len(P) + 1, Len(r[2]))
        before == IF dz[Last(P)].prevOwner = dom THEN Nil ELSE dz[Last(P)].prev
        after  == IF dz[Last(N)].nextOwner = dom THEN Nil ELSE dz[Last(N)].next
        curP   == IF Len(P) > 1 THEN Last(newP) ELSE Nil
        curN   == IF Len(N) > 1 THEN Last(newN) ELSE curP
        s1     == FoldLeft(FREE_DZ, Chained(r[1], Reverse(newP) \o newN, dom), Tail(P) \o Tail(N))
        s2     == LinkAfter(LinkBefore(s1, before, curP, dz[Last(P)].prevOwner),
                            after, curN, dz[Last(N)].nextOwner)
    IN  IF r[1].fault # "none" THEN Commit(r[1]) /\ UNCHANGED leaked
        ELSE IF (before # Nil /\ curP = Nil) \/ (after # Nil /\ curN = Nil)
        THEN Commit(Fail(Now, "wild pointer")) /\ UNCHANGED leaked
        ELSE /\ Commit(Handed(<<s2, <<r[2][1]>>>>, p))
             /\ leaked' = [d \in Dz |-> leaked[d] + IF d \in Range(Tail(r[2])) THEN 1 ELSE 0]

\* memory_revoke: a fresh chain takes the place of the stretch whose links the
\* caller owns, and the old descriptors become invalid.
Revoke(p, P, N) ==
    RevokeStretch(p, P, N, CreateAll(Now, [k \in 1 .. Len(P \o Tail(N)) |->
        LET d == (P \o Tail(N))[k] IN [size |-> dz[d].size, mem |-> dz[d].mem]]))

memory_revoke(p) ==
    /\ Structural(p, 1) /\ dz[p.dz].valid # 0         \* checked with interrupts disabled
    /\ Revoke(p, Owned(Now, p.dom, p.dz, "prev", "prevOwner"), Owned(Now, p.dom, p.dz, "next", "nextOwner"))

\* copy_memory: a proxy in another domain shares the descriptor.
copy_memory(p, dst) ==
    /\ QuietAll /\ p.reachable /\ p.dom # dst /\ Room(1) /\ Within(0, 1)
    /\ structural' = structural + 1
    /\ LET s1 == allocMemoryProxyInDomainDZM(Now, dst, p.dz)
       IN  Commit([s1 EXCEPT !.dz[p.dz].refcount = @ + 1])
    /\ UNCHANGED <<padding, alloc, leaked, irqs, created>>

\* The program drops its last reference to the proxy.
Drop(p) ==
    /\ QuietAll /\ p.reachable
    /\ \A q \in proxies : q = [p EXCEPT !.n = q.n] => q.n <= p.n
    /\ proxies' = AddProxy(proxies \ {p}, [p EXCEPT !.reachable = FALSE])
    /\ UNCHANGED <<dz, dzMemoryFreeList, blocks, padding, alloc, leaked, irqs, fault, created, structural>>

\* A collection of domain d by its collector thread (finalizeMemory).
Collect(d) ==
    /\ QuietAll
    /\ \E p \in proxies : p.dom = d /\ ~p.reachable
    /\ Commit(gc(Now, d))
    /\ UNCHANGED <<padding, alloc, leaked, irqs, created, structural>>

Next ==
    \/ \E t \in Threads :
         \/ \E r \in Requests : createMemoryInstance(t, r[1], r[2], r[3])
         \/ \E r \in Devices : memoryManager_allocDeviceMemory(t, r[1], r[2])
         \/ dzmemory_alloc_head(t)
         \/ dzmemory_alloc_next(t)
         \/ dzmemory_alloc_cas(t)
    \/ \E p \in proxies :
         \/ \E offset \in 0 .. MaxSize : memory_split2(p, offset)
         \/ \E offset, len \in 0 .. MaxSize : memory_split3(p, offset, len)
         \/ \E offset, len \in 0 .. MaxSize : memory_getSubRange(p, offset, len)
         \/ memory_joinPrevious(p)
         \/ memory_joinNext(p)
         \/ memory_joinAll(p)
         \/ memory_revoke(p)
         \/ \E d \in Domains : copy_memory(p, d)
         \/ Drop(p)
    \/ \E d \in Domains : Collect(d)

Spec == Init /\ [][Next]_vars

-----------------------------------------------------------------------------
(***************************************************************************)
(* Properties                                                              *)
(***************************************************************************)

\* Every piece of the memory table has its type.
TypeOK ==
    /\ dz \in [Dz -> DzRec]
    /\ dzMemoryFreeList \in Dz \cup {Nil}
    /\ proxies \subseteq ProxyRec
    /\ \A t \in Threads : alloc[t].at \in {"idle", "head", "next", "cas"}
    /\ irqs \in {"on", "off"}
    /\ fault \in {"none", "panic", "assertion", "hang", "wild pointer", "null", "bad free", "stray free"}

Refs(d) == Cardinality({p \in proxies : p.dz = d})

\* A descriptor counts exactly the proxies in all heaps that point to it, plus
\* what getSubRange and revoke never release: across copies to other domains, splits,
\* joins, revocations and collections no reference is lost or counted twice.
RefcountExact ==
    fault = "none" =>
        \A d \in Dz \ {dzInvalid} : dz[d].refcount = Refs(d) + leaked[d]

\* What dzmemory_alloc pops is free: the free list holds only descriptors that
\* are marked free and that nobody refers to (the assertions of dzmemory_alloc).
FreeListSound ==
    fault = "none" =>
        LET list == FreeList(Now)
        IN  /\ \A k \in DOMAIN list : dz[list[k]].valid = 2 /\ dz[list[k]].refcount = 0
            /\ \A p \in proxies : dz[p.dz].valid # 2

\* The units of a memory object that are jxmalloc's.
Bytes(mem, size) == {b \in mem .. mem + size - 1 : b < MemSize}

\* No unit of memory can be reached through two valid descriptors, and every
\* unit a usable proxy gives access to is one that jxmalloc handed out and has
\* not got back: revoked, split and joined objects lose their access.  (Device
\* memory may be asked for twice.)
AccessExclusive ==
    fault = "none" =>
        /\ \A d, e \in Dz :
             d # e /\ dz[d].valid = 1 /\ dz[e].valid = 1
               => Bytes(dz[d].mem, dz[d].size) \cap Bytes(dz[e].mem, dz[e].size) = {}
        /\ \A p \in proxies :
             dz[p.dz].valid = 1
               => /\ p.mem = dz[p.dz].mem /\ p.size = dz[p.dz].size
                  /\ Bytes(p.mem, p.size) \subseteq blocks

\* Memory is neither lost nor given back twice: what is handed out belongs to a
\* valid descriptor, is on its way into a new object, or lies around an aligned
\* one; jxmalloc gets nothing of its own back that it has not handed out.
BlocksCovered ==
    /\ fault # "bad free"
    /\ fault = "none" =>
        blocks = UNION {Bytes(dz[d].mem, dz[d].size) : d \in {e \in Dz : dz[e].valid = 1}}
                   \cup UNION {Bytes(alloc[t].mem, alloc[t].size) : t \in Threads} \cup padding

\* Not so: memory that jxmalloc never handed out is freed with the last proxy
\* of a device (zero_MemoryManager.c 49-57, zero_Memory_org.c 380-386); what lies
\* around an aligned object is never freed (783-793); a call that is refused
\* leaves interrupts disabled (1541).
NoStrayFree == fault # "stray free"
PaddingFreed == (\A d \in Dz : dz[d].valid # 1) /\ (\A t \in Threads : alloc[t] = Idle) => blocks = {}
IrqsRestored == irqs = "on"

(***************************************************************************)
(* Memory is reached through one valid descriptor at a time and goes back   *)
(* to jxmalloc once, whole; a descriptor is on the free list or in use,     *)
(* never both, and it is counted as often as it is referred to, through     *)
(* copies, splits, joins, revocations and collections in two domains, also   *)
(* by threads that found an object valid long ago.  Nothing is said after    *)
(* an assertion, a panic, or the free of memory that was never jxmalloc's    *)
(* (zero_Memory_org.c 180-391, 500-664, 1338-1652, 1835-2016).              *)
(***************************************************************************)
MemorySound == TypeOK /\ FreeListSound /\ RefcountExact /\ AccessExclusive /\ BlocksCovered
=============================================================================
