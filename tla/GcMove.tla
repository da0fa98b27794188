------------------------------- MODULE GcMove -------------------------------
(***************************************************************************)
(* The copying collector of a domain (Memory/gc_new.c on gc_move_common.c,  *)
(* gc_move.c, gc_impl.c, gc_common.c, gc.c) and the allocation that starts  *)
(* it.  The heap is a function from word addresses to the objects that      *)
(* begin there; a collection moves what the roots reach into the second     *)
(* semispace, leaving forward pointers, and finalizes what it left behind.  *)
(* A collection runs with interrupts disabled; its phases are steps so that *)
(* what they do to each other can be seen.                                 *)
(***************************************************************************)
EXTENDS Integers, Sequences, FiniteSets, SequencesExt

CONSTANTS
    HeapWords,      \* heapBorder - heap
    HEAP_RESERVE,   \* words that only an interrupt handler may use
    Kinds,          \* kinds of objects the domain allocates, of AllKinds
    MaxAlloc,       \* bound: objects allocated
    MaxStore,       \* bound: reference stores
    MaxEpoch        \* bound: collections

\* OBJFLAGS_*: LEAF stands for CAS and DOMAIN, which hold no reference into the heap.
AllKinds == {"OBJECT", "ARRAY", "PORTAL", "MEMORY", "SERVICE", "ATOMVAR", "CPUSTATE",
             "LEAF", "VMOBJECT"}

\* Services are known to the kernel alone.
JavaKinds == AllKinds \ {"SERVICE"}

\* The references of a kind of object, by the kinds they may refer to.
Fields(k) ==
    CASE k = "OBJECT"   -> <<JavaKinds, JavaKinds>>
      [] k = "ARRAY"    -> <<JavaKinds>>
      [] k = "SERVICE"  -> <<{"OBJECT"}, {"PORTAL"}, {"CPUSTATE"}>>  \* obj, proxy, receiver
      [] k = "ATOMVAR"  -> <<{"CPUSTATE"}, JavaKinds>>                \* blockedThread, value
      [] k = "CPUSTATE" -> <<{"CPUSTATE"}, JavaKinds, {"SERVICE"}>>   \* nextInDomain, entry, processingDEP
      [] OTHER          -> << >>

\* gc_objSize2: the kinds are told apart by flags, their sizes by kind.
gc_objSize2(k) == IF k \in {"PORTAL", "MEMORY", "LEAF", "VMOBJECT"} THEN 1 ELSE 2

ASSUME GcAssumption ==
    /\ HeapWords \in Nat \ {0}
    /\ HEAP_RESERVE \in 0 .. HeapWords
    /\ Kinds \subseteq AllKinds
    /\ MaxAlloc \in Nat /\ MaxStore \in Nat /\ MaxEpoch \in Nat

\* The roots in the order of walkRootSet: stacks, static fields, the service table,
\* registered objects, the references in the domain control block, interrupt handlers.
RootOrder == <<"stack", "static", "services", "handle1", "handle2", "special", "irq">>
Roots == {RootOrder[i] : i \in DOMAIN RootOrder}
Handles == {"handle1", "handle2"}

NULL == 0
External == -1      \* an object outside the heap: a shared string, a class, a CPU descriptor
Heap(s) == s * HeapWords + 1      \* the first word of semispace s
Border(s) == (s + 1) * HeapWords + 1
Addrs == 1 .. (2 * HeapWords)

VARIABLES
    mem,        \* address |-> object: flags, forward pointer, identity, references, data
    space,      \* the semispace in use
    heapTop,
    heapTop2,
    roots,
    phase,      \* "run", "freeze", "roots", "scan", "finalize", "flip", "done"
    pos,        \* the next root (number) or object (address) of the phase
    pending,    \* the kind whose allocation started the collection, and tried
    remote,     \* references this domain holds on services of the other domain
    memrefs,    \* references it holds on memory descriptors
    peerAlive,  \* the other domain lives (targetDomain->id == targetDomainID)
    before,     \* the graph a collection must preserve
    epoch, allocs, stores,
    panic

moveVars == <<mem, space, heapTop, heapTop2, roots, phase, pos, pending, remote, memrefs, peerAlive,
          before, epoch, allocs, stores, panic>>

gcVars == <<before, epoch>>
countVars == <<remote, memrefs, peerAlive>>

NotForwarded == 0
NoKind == "none"
Object(k, id, data) ==
    [flags |-> k, fwd |-> NotForwarded, id |-> id, data |-> data,
     refs |-> [i \in DOMAIN Fields(k) |-> NULL]]

IsObject(m, r) == r \notin {NULL, External} /\ r \in DOMAIN m

-----------------------------------------------------------------------------
(* The graph of the living objects, by identity.                           *)

Targets(m, S) == {r \in UNION {{m[a].refs[i] : i \in DOMAIN m[a].refs} : a \in S} : IsObject(m, r)}

Reachable(m, rts) ==
    LET R[n \in 0 .. MaxAlloc + 1] ==
            IF n = 0 THEN {rts[s] : s \in Roots} \cap DOMAIN m
            ELSE R[n - 1] \cup Targets(m, R[n - 1])
    IN  R[MaxAlloc + 1]

Label(m, r) == IF IsObject(m, r) THEN m[r].id ELSE r

\* What a program sees: roots, and of each living object its kind, data and references.
\* The listMode of an atomic variable is left out, see shallowCopy.
Graph(m, rts) ==
    [roots |-> [s \in Roots |-> Label(m, rts[s])],
     objects |-> {[id |-> m[a].id, kind |-> m[a].flags,
                   data |-> IF m[a].flags = "ATOMVAR" THEN "any" ELSE m[a].data,
                   refs |-> [i \in DOMAIN m[a].refs |-> Label(m, m[a].refs[i])]] :
                  a \in Reachable(m, rts)}]

NoGraph == << >>

\* A thread forgets processingDEP when the service has been deleted (refcount <= 1).
ForgetDEP(m, o) ==
    IF o.flags = "CPUSTATE" /\ IsObject(m, o.refs[3]) /\ m[o.refs[3]].data \in {"0", "1"}
    THEN [o EXCEPT !.refs[3] = NULL] ELSE o

ToPreserve == Graph([a \in DOMAIN mem |-> ForgetDEP(mem, mem[a])], roots)

-----------------------------------------------------------------------------
(* Domain creation: one thread, whose control block is the first object.   *)

gc_new_init ==
    /\ mem = [a \in {Heap(0)} |-> Object("CPUSTATE", 1, "running")]
    /\ space = 0
    /\ heapTop = Heap(0) + gc_objSize2("CPUSTATE")
    /\ heapTop2 = Heap(1)
    /\ roots = [s \in Roots |-> IF s = "special" THEN Heap(0) ELSE NULL]
    /\ phase = "run" /\ pos = 0
    /\ pending = [kind |-> NoKind, tried |-> FALSE]
    /\ remote = 0 /\ memrefs = 0 /\ peerAlive = TRUE
    /\ before = NoGraph
    /\ epoch = 0 /\ allocs = 1 /\ stores = 0
    /\ panic = NoKind

-----------------------------------------------------------------------------
(* Allocation.                                                             *)

GcPanic(why) ==
    /\ panic' = why
    /\ UNCHANGED <<mem, space, heapTop, heapTop2, roots, phase, pos, pending, countVars, gcVars,
                   allocs, stores>>

\* What allocProxyInDomain and the others write into the new object.
InitialData(k) ==
    CASE k = "PORTAL"   -> {"foreign", "own"}
      [] k = "SERVICE"  -> {"2"}
      [] k = "ATOMVAR"  -> {"0"}         \* listMode
      [] k = "CPUSTATE" -> {"idle"}
      [] OTHER          -> {"-"}

\* nonatomic_registerObject: the first free handle.
FreeHandle == IF roots["handle1"] = NULL THEN "handle1" ELSE "handle2"

\* do_alloc: the object is zeroed and registered; a portal counts at its service,
\* a memory proxy at its descriptor.
do_alloc(k) ==
    IF \A h \in Handles : roots[h] # NULL THEN GcPanic("maximal number of registered objects")
    ELSE \E d \in InitialData(k) :
        /\ mem' = [a \in DOMAIN mem \cup {heapTop} |->
                      IF a = heapTop THEN Object(k, allocs + 1, d) ELSE mem[a]]
        /\ heapTop' = heapTop + gc_objSize2(k)
        /\ roots' = [roots EXCEPT ![FreeHandle] = heapTop]
        /\ remote' = IF k = "PORTAL" /\ d = "foreign" /\ peerAlive THEN remote + 1 ELSE remote
        /\ memrefs' = IF k = "MEMORY" THEN memrefs + 1 ELSE memrefs
        /\ allocs' = allocs + 1
        /\ pending' = [kind |-> NoKind, tried |-> FALSE]
        /\ UNCHANGED <<space, heapTop2, phase, pos, peerAlive, gcVars, stores, panic>>

\* start_thread_using_code1(gcThread): gc_in runs to its end before the caller goes on.
gc_in(p) ==
    /\ epoch < MaxEpoch
    /\ phase' = "freeze"
    /\ pos' = 1
    /\ pending' = p
    /\ UNCHANGED <<mem, space, heapTop, heapTop2, roots, countVars, gcVars, allocs, stores, panic>>

\* gc_new_allocDataInDomain by a thread (irq: by an interrupt handler).
gc_new_allocDataInDomain(k, irq) ==
    LET nextObj == heapTop + gc_objSize2(k)
    IN  /\ phase = "run"
        /\ allocs < MaxAlloc
        /\ pending.kind \in {NoKind, k}
        /\ pending.kind # NoKind => ~irq
        /\ IF nextObj <= Border(space) - HEAP_RESERVE THEN do_alloc(k)
           ELSE IF irq THEN IF nextObj > Border(space) THEN GcPanic("no GC in interrupt handler possible!")
                            ELSE do_alloc(k)
           ELSE IF ~pending.tried THEN gc_in([kind |-> k, tried |-> TRUE])
           ELSE \* the exception ends the thread: its allocation is given up
                /\ pending' = [kind |-> NoKind, tried |-> FALSE]
                /\ UNCHANGED <<mem, space, heapTop, heapTop2, roots, phase, pos, countVars, gcVars,
                               allocs, stores, panic>>

-----------------------------------------------------------------------------
(* The program between collections.                                        *)

MutatorRuns == phase = "run" /\ pending.kind = NoKind

Mutated ==
    /\ stores < MaxStore
    /\ stores' = stores + 1
    /\ UNCHANGED <<space, heapTop, heapTop2, phase, pos, pending, gcVars, allocs, panic>>

KindOf(r) == IF IsObject(mem, r) THEN mem[r].flags ELSE NoKind

\* The kernel takes an object out of its handle: a service goes to the service table
\* (createService), a thread to the front of the list of threads (createThreadInMem),
\* everything else to the caller.
unregisterObject(h) ==
    LET o == roots[h]
        svc == KindOf(o) = "SERVICE"
        thr == KindOf(o) = "CPUSTATE"
    IN  /\ MutatorRuns /\ o # NULL
        /\ svc => roots["services"] = NULL
        /\ roots' = [roots EXCEPT ![h] = NULL,
                                  !["services"] = IF svc THEN o ELSE @,
                                  !["special"] = IF thr THEN o ELSE @,
                                  !["stack"] = IF svc THEN @ ELSE o]
        /\ mem' = CASE svc -> [mem EXCEPT ![o].refs = <<IF KindOf(roots["stack"]) = "OBJECT"
                                                        THEN roots["stack"] ELSE NULL, NULL,
                                                        roots["special"]>>]
                    [] thr -> [mem EXCEPT ![o].refs[1] = roots["special"]]
                    [] OTHER -> mem
        /\ UNCHANGED <<space, heapTop, heapTop2, phase, pos, pending, countVars, gcVars, allocs,
                       stores, panic>>

\* A reference is stored into the object on the stack.  A thread that a collection meets
\* between two stack maps is run on until it reaches one (continue_Thread_to_pos).
StoreField(i, r) ==
    LET o == roots["stack"]
    IN  /\ MutatorRuns \/ phase = "freeze"
        /\ KindOf(o) \in {"OBJECT", "ARRAY", "ATOMVAR"}
        /\ i \in DOMAIN mem[o].refs
        /\ r \in {NULL, External} \/ KindOf(r) \in Fields(mem[o].flags)[i]
        /\ mem[o].refs[i] # r
        /\ mem' = [mem EXCEPT ![o].refs[i] = r]
        /\ Mutated
        /\ UNCHANGED <<roots, countVars>>

\* putstatic, installFirstLevelHandler; the stack frame is left.
PutRoot(s) ==
    /\ MutatorRuns /\ roots["stack"] # NULL
    /\ roots' = [roots EXCEPT ![s] = IF s = "stack" THEN NULL ELSE roots["stack"]]
    /\ Mutated
    /\ UNCHANGED <<mem, countVars>>

\* The first thread begins to execute a call of the service.
BeginService ==
    /\ MutatorRuns /\ roots["services"] # NULL
    /\ mem[roots["special"]].refs[3] # roots["services"]
    /\ mem' = [mem EXCEPT ![roots["special"]].refs[3] = roots["services"]]
    /\ Mutated
    /\ UNCHANGED <<roots, countVars>>

\* The first thread waits in the queue of a service of the other domain.
WaitForReceiver ==
    /\ MutatorRuns /\ mem[roots["special"]].data = "running"
    /\ mem' = [mem EXCEPT ![roots["special"]].data = "wait_rcv"]
    /\ Mutated
    /\ UNCHANGED <<roots, countVars>>

\* The other domain gives up the last portal to the service: service_decRefcount.
PeerDrops ==
    /\ MutatorRuns /\ roots["services"] # NULL
    /\ mem' = [mem EXCEPT ![roots["services"]].data = "0"]
    /\ roots' = [roots EXCEPT !["services"] = NULL]
    /\ Mutated
    /\ UNCHANGED countVars

PeerDies ==
    /\ MutatorRuns /\ peerAlive
    /\ peerAlive' = FALSE
    /\ remote' = 0
    /\ Mutated
    /\ UNCHANGED <<mem, roots, memrefs>>

-----------------------------------------------------------------------------
(* Moving.  A state of the collection is the memory, the top of the second   *)
(* semispace and the panic it ended in.                                    *)

Now == [mem |-> mem, top2 |-> heapTop2, panic |-> NoKind]

\* gc_impl_shallowCopy*: the copy of an atomic variable has whatever listMode the
\* second semispace held, since it is neither cleared nor copied.
shallowCopy(o) == [o EXCEPT !.data = IF o.flags = "ATOMVAR" THEN "stale" ELSE @]

\* gc_new_allocHeap2: how far heapTop2 moves.
gc_new_allocHeap2(k) == gc_objSize2(k)

MoveObject(s, r) ==
    LET o == s.mem[r]
    IN  [s EXCEPT !.mem = [a \in DOMAIN s.mem \cup {s.top2} |->
                              IF a = s.top2 THEN shallowCopy(o)
                              ELSE IF a = r THEN [o EXCEPT !.flags = "FORWARD", !.fwd = s.top2]
                              ELSE s.mem[a]],
                  !.top2 = @ + gc_new_allocHeap2(o.flags)]

Stop(s, why) == IF s.panic = NoKind THEN [s EXCEPT !.panic = why] ELSE s

gc_common_move_reference(s, r) ==
    IF ~IsObject(s.mem, r) THEN s
    ELSE IF s.mem[r].flags = "FORWARD" THEN s
    ELSE IF s.mem[r].flags = "VMOBJECT" THEN Stop(s, "Object Type is OBJFLAGS_VMOBJECT")
    ELSE IF s.mem[r].flags = "SERVICE" /\ s.mem[r].data \in {"0", "1"}
         THEN Stop(s, "ASSERT(obj->refcount > 1)")
    ELSE MoveObject(s, r)

\* The reference that replaces r.
Forwarded(s, r) == IF IsObject(s.mem, r) /\ s.mem[r].flags = "FORWARD" THEN s.mem[r].fwd ELSE r

Adopt(s) ==
    /\ mem' = s.mem
    /\ heapTop2' = s.top2
    /\ panic' = s.panic

-----------------------------------------------------------------------------
(* The phases of gc_new_gc.                                                *)

\* freezeThreads is over: every thread is at a stack map.
freezeThreads ==
    /\ phase = "freeze"
    /\ before' = ToPreserve
    /\ phase' = "roots" /\ pos' = 1
    /\ UNCHANGED <<mem, space, heapTop, heapTop2, roots, pending, countVars, epoch, allocs, stores, panic>>

\* walkRootSet: the next root is visited.
walkRootSet ==
    /\ phase = "roots"
    /\ LET slot == RootOrder[pos]
           s == gc_common_move_reference(Now, roots[slot])
       IN  Adopt(s) /\ roots' = [roots EXCEPT ![slot] = Forwarded(s, @)]
    /\ phase' = IF pos = Len(RootOrder) THEN "scan" ELSE phase
    /\ pos' = IF pos = Len(RootOrder) THEN Heap(1 - space) ELSE pos + 1
    /\ UNCHANGED <<space, heapTop, pending, countVars, gcVars, allocs, stores>>

\* gc_impl_walkContent* of the moved object at a.
walkContent(a) ==
    LET o == ForgetDEP(mem, mem[a])
        visited == FoldLeft(gc_common_move_reference, Now, o.refs)
        s == IF o.flags = "CPUSTATE" /\ o.data = "wait_rcv" /\ peerAlive
             THEN Stop(visited, "move TCB in wait queue NYI") ELSE visited
    IN  [s EXCEPT !.mem = [s.mem EXCEPT ![a] =
            [o EXCEPT !.refs = [i \in DOMAIN o.refs |-> Forwarded(s, o.refs[i])]]]]

\* One round of gc_walkContinuesBlock over the second semispace.
gc_new_walkHeap2 ==
    /\ phase = "scan"
    /\ IF pos < heapTop2
       THEN /\ Adopt(walkContent(pos))
            /\ pos' = pos + gc_objSize2(mem[pos].flags)
            /\ UNCHANGED phase
       ELSE /\ phase' = "memory"
            /\ UNCHANGED <<mem, heapTop2, panic, pos>>
    /\ UNCHANGED <<space, heapTop, roots, pending, countVars, gcVars, allocs, stores>>

\* Objects of the first semispace that have not been moved.
Garbage == {a \in DOMAIN mem : a \in Heap(space) .. (heapTop - 1) /\ mem[a].flags # "FORWARD"}
Unwalkable == \E a \in Garbage : mem[a].flags = "VMOBJECT"

\* Mutant: moved proxies are finalized as well.
gc_new_finalizeMemory_All ==
    {a \in DOMAIN mem : /\ a \in Heap(space) .. (heapTop - 1)
                        /\ \/ mem[a].flags = "MEMORY"
                           \/ mem[a].flags = "FORWARD" /\ mem[mem[a].fwd].flags = "MEMORY"}

\* gc_new_finalizeMemory: memory proxies that gc_new_finalizeMemoryCB gives up.
gc_new_finalizeMemory == {a \in Garbage : mem[a].flags = "MEMORY"}

\* gc_new_finalizePortals: portals whose service is told.
gc_new_finalizePortals ==
    {a \in Garbage : mem[a].flags = "PORTAL" /\ mem[a].data = "foreign" /\ peerAlive}

FinalizeMemory ==
    /\ phase = "memory"
    /\ IF Unwalkable THEN GcPanic("WRONG HEAP DATA")
       ELSE /\ memrefs' = memrefs - Cardinality(gc_new_finalizeMemory)
            /\ phase' = "portals"
            /\ UNCHANGED <<mem, space, heapTop, heapTop2, roots, pos, pending, remote, peerAlive, gcVars,
                           allocs, stores, panic>>

FinalizePortals ==
    /\ phase = "portals"
    /\ remote' = remote - Cardinality(gc_new_finalizePortals)
    /\ phase' = "flip"
    /\ UNCHANGED <<mem, space, heapTop, heapTop2, roots, pos, pending, memrefs, peerAlive, gcVars, allocs,
                   stores, panic>>

\* The semispaces change their roles; heap2 is empty.
gc_new_gc ==
    /\ phase = "flip"
    /\ space' = 1 - space
    /\ heapTop' = heapTop2
    /\ heapTop2' = Heap(space)
    /\ mem' = [a \in {b \in DOMAIN mem : b \in Heap(1 - space) .. (heapTop2 - 1)} |-> mem[a]]
    /\ phase' = "flipped"
    /\ UNCHANGED <<roots, pos, pending, countVars, gcVars, allocs, stores, panic>>

\* gc_in ends; the allocation that waited tries again.
EndGC ==
    /\ phase = "flipped"
    /\ epoch' = epoch + 1
    /\ before' = NoGraph
    /\ phase' = "run" /\ pos' = 0
    /\ UNCHANGED <<mem, space, heapTop, heapTop2, roots, pending, countVars, allocs, stores, panic>>

\* The domain ends: everything is finalized and the heap given back.
gc_done ==
    /\ MutatorRuns /\ ~Unwalkable
    /\ memrefs' = memrefs - Cardinality(gc_new_finalizeMemory)
    /\ remote' = remote - Cardinality(gc_new_finalizePortals)
    /\ mem' = << >>
    /\ roots' = [s \in Roots |-> NULL]
    /\ heapTop' = Heap(space)
    /\ phase' = "done"
    /\ UNCHANGED <<space, heapTop2, pos, pending, peerAlive, gcVars, allocs, stores, panic>>

-----------------------------------------------------------------------------
Mutator ==
    \/ \E k \in Kinds, irq \in BOOLEAN : gc_new_allocDataInDomain(k, irq)
    \/ MutatorRuns /\ gc_in([kind |-> NoKind, tried |-> FALSE])     \* domainManager_gc
    \/ \E h \in Handles : unregisterObject(h)
    \/ \E i \in 1 .. 2, r \in {NULL, External} \cup {roots[s] : s \in Roots} : StoreField(i, r)
    \/ \E s \in {"static", "irq", "stack"} : PutRoot(s)
    \/ BeginService
    \/ WaitForReceiver
    \/ PeerDrops
    \/ PeerDies
    \/ gc_done

Collector ==
    \/ freezeThreads
    \/ walkRootSet
    \/ gc_new_walkHeap2
    \/ FinalizeMemory
    \/ FinalizePortals
    \/ gc_new_gc
    \/ EndGC

GcInit == gc_new_init
GcNext == panic = NoKind /\ (Mutator \/ Collector)

GcSpec == GcInit /\ [][GcNext]_moveVars

-----------------------------------------------------------------------------
\* The variables hold values of their types.
GcTypeOK ==
    /\ DOMAIN mem \subseteq Addrs
    /\ space \in {0, 1}
    /\ heapTop \in Addrs \cup {Border(1)} /\ heapTop2 \in Addrs \cup {Border(1)}
    /\ \A s \in Roots : roots[s] \in DOMAIN mem \cup {NULL, External}
    /\ phase \in {"run", "freeze", "roots", "scan", "memory", "portals", "flip", "flipped", "done"}
    /\ remote \in Int /\ memrefs \in Int
    /\ epoch \in 0 .. MaxEpoch

\* A collection preserves what the program can see: the roots lead to the same objects, each
\* of the same kind, with the same data and references, and no object has become two
\* (forwarding in gc_common_move_reference, the root walk and the scan of heap2).
SurvivorsIntact ==
    phase = "flipped" =>
        /\ Graph(mem, roots) = before
        /\ \A a, b \in DOMAIN mem : mem[a].id = mem[b].id => a = b

\* Whenever the program runs, and when the domain is gone, the other domain's services and the
\* memory descriptors count exactly the proxies that are in the heap: none is finalized twice,
\* finalized while it lives, or forgotten (gc_new_finalizeMemoryCB, gc_new_finalizePortalsCB).
FinalizedExactly ==
    phase \in {"run", "flipped", "done"} =>
        /\ memrefs = Cardinality({a \in DOMAIN mem : mem[a].flags = "MEMORY"})
        /\ peerAlive => remote = Cardinality({a \in DOMAIN mem : mem[a].flags = "PORTAL"
                                                               /\ mem[a].data = "foreign"})

ObjectsIn(lo, top) == {a \in DOMAIN mem : a \in lo .. (top - 1)}
SizeAt(a) == gc_objSize2(IF mem[a].flags = "FORWARD" THEN mem[mem[a].fwd].flags ELSE mem[a].flags)

\* Both semispaces are rows of objects without gap or overlap from their first word to their
\* top, which stays inside: the heap walk meets every object, also behind a forward pointer,
\* and the second semispace is never too small.
HeapWalkable ==
    /\ heapTop <= Border(space) /\ heapTop2 <= Border(1 - space)
    /\ \A p \in {<<Heap(space), heapTop>>, <<Heap(1 - space), heapTop2>>} :
          /\ \A a \in ObjectsIn(p[1], p[2]) : a + SizeAt(a) \in ObjectsIn(p[1], p[2]) \cup {p[2]}
          /\ p[1] < p[2] => p[1] \in DOMAIN mem

\* The kernel gives up only for the reasons the code names as unsupported or exhausted: no
\* service is found with a reference count that says it was deleted.
NoServiceResurrected == panic # "ASSERT(obj->refcount > 1)"

(***************************************************************************)
(* A collection changes nothing the program can see and forgets nothing it  *)
(* has to release: the graph of live objects is the one before, both        *)
(* semispaces can be walked, every dead proxy has been finalized exactly    *)
(* once, and no service comes back that was deleted (gc_move_common.c,      *)
(* gc_move.c, gc_new.c, gc_alloc.c).                                        *)
(***************************************************************************)
CollectionRight == SurvivorsIntact /\ HeapWalkable /\ FinalizedExactly /\ NoServiceResurrected
=============================================================================
