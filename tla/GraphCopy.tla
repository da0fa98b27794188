------------------------------ MODULE GraphCopy ------------------------------
(***************************************************************************)
(* The copying of an object graph from the heap of one domain to the heap   *)
(* of another (core/portal.c, copy_reference): parameters and results of    *)
(* portal calls travel that way.  Both algorithms of the source are         *)
(* modelled: the recursive one of the default build, which finds objects    *)
(* it has copied before in a table, and the one of the NEW_COPY build,      *)
(* which copies objects shallowly, leaves a forwarding pointer in their     *)
(* flags word and then scans the target heap from a mark.                   *)
(*                                                                         *)
(* Copying runs with interrupts disabled.  What can happen in between is a  *)
(* collection of the target heap, by any allocation in it: everything       *)
(* copied so far is garbage then, and the copying must start again.  The    *)
(* promotion of a service object allocates in the source heap, and may      *)
(* collect that one: the copying goes on with the old addresses.            *)
(***************************************************************************)
EXTENDS Naturals, Sequences, FiniteSets, TLC

CONSTANTS
    Nodes,          \* objects of the source heap, numbers from 1
    Root,           \* the reference that is passed
    Graphs,         \* source graphs: [kind, slot], slot[n] a sequence of nodes or 0
    Builds,         \* "recursive": default build; "marking": NEW_COPY
    QUOTA,          \* RECEIVE_PORTAL_QUOTA; every object counts as one
    MAX_COPIED,     \* curthr()->max_copied
    MaxCollections, \* bound: collections of the target heap during one call
    MemoryCollects, \* whether the allocation of a memory proxy may collect
    SourceCollects  \* builds in which a promotion may collect the source heap

SourceKinds == {"object", "service", "loaded", "refarray", "nested", "data", "proxy", "home",
          "memory", "domain", "cpustate", "foreign", "string", "atomvar"}

ASSUME GraphCopyAssumption ==
    /\ Nodes \subseteq Nat \ {0} /\ Root \in Nodes
    /\ \A g \in Graphs : /\ g.kind \in [Nodes -> SourceKinds]
                         /\ g.slot \in [Nodes -> Seq(Nodes \cup {0})]
    /\ Builds \subseteq {"recursive", "marking"}
    /\ QUOTA \in Nat /\ MAX_COPIED \in Nat /\ MaxCollections \in Nat
    /\ MemoryCollects \in BOOLEAN /\ SourceCollects \subseteq Builds

\* References: null, to an object of the source heap, to the proxy that the
\* source domain keeps of its own service, to an address of the target heap, and
\* to a service object of the target domain.
Null == <<"null", 0>>
Src(n) == IF n = 0 THEN Null ELSE <<"src", n>>
Own(n) == <<"own", n>>
Dst(a) == <<"dst", a>>
Svc(n) == <<"svc", n>>

SourceRefs == {Src(n) : n \in Nodes} \cup {Own(n) : n \in Nodes}
Plain == <<"flags", 0>>
Moved(n) == <<"moved", n>>     \* left by a collection of the source heap
Unset == <<"unset", 0>>

VARIABLES
    build,
    graph,    \* the source heap
    flags,    \* flags words in the source heap: Plain, or a forwarding pointer
    services, \* objects that have a service description in the source domain
    serving,  \* the service object that has just been promoted, or 0
    copied,   \* curthr()->copied[0 .. n_copied - 1]
    copyHeap,     \* objects of the target heap by address: [of, kind, data]
    copyTop,  \* the next address
    mark,     \* GCM_NEW(dst).mark
    targetEpoch,    \* dst->gc.epoch
    quota,
    stack,    \* activations that fill the slots k..n of a new object: [new, obj, k, n]
    result,   \* what copy_reference is to return
    step        \* "copying", "done", "thrown" or the message of sys_panic

copyVars == <<build, graph, flags, copied, copyHeap, copyTop, mark, targetEpoch, quota, stack, result, step,
              services, serving>>

\* A service object that the graph refers to twice is copied twice, and in the
\* marking build the second entry of its proxy saves a forwarding pointer as the
\* flags to be written back; that build is started without such graphs.
ServiceShared(g) ==
    \E n \in Nodes : /\ g.kind[n] = "service"
                     /\ Cardinality({e \in Nodes \X (1..2) :
                            e[2] \in DOMAIN g.slot[e[1]] /\ g.slot[e[1]][e[2]] = n}) > 1

CopyInit ==
    /\ build \in Builds /\ graph \in Graphs
    /\ build = "marking" => ~ServiceShared(graph)
    /\ flags = [r \in SourceRefs |-> Plain]
    /\ copied = << >> /\ services = {} /\ serving = 0
    /\ copyHeap = << >> /\ copyTop = 1 /\ mark = 1
    /\ targetEpoch = 0 /\ quota = QUOTA
    /\ stack = << >> /\ result = Unset
    /\ step = "copying"

-----------------------------------------------------------------------------
kind(n) == graph.kind[n]
Copying == step = "copying"
Frame == stack[Len(stack)]
InFrame == Copying /\ stack # << >>

\* The slots of an object or an array of the target heap that hold references and
\* are visited.  Arrays of arrays are not: the test is for a name "[L...".
Visited(o) == IF o.kind \in {"object", "refarray"} THEN Len(o.data) ELSE 0

\* The reference to be copied: the root, or the next slot of the activation.
\* Only in the marking build do the slots of the new object hold it.
Arg ==
    IF stack = << >> THEN Src(Root)
    ELSE IF build = "marking" THEN copyHeap[Frame.new].data[Frame.k]
    ELSE Src(graph.slot[Frame.obj][Frame.k])

Visiting ==
    /\ Copying
    /\ IF stack = << >> THEN result = Unset
       ELSE Frame.k <= Frame.n

-----------------------------------------------------------------------------
(* The table of copied objects.                                            *)

\* copy_reference_internal, copy_shallow_reference_internal: copied before?
AlreadyCopied(r) ==
    IF build = "marking" THEN r \in SourceRefs /\ flags[r] # Plain
    ELSE \E i \in DOMAIN copied : copied[i].src = r

CopyOf(r) ==
    IF build = "marking" THEN flags[r]
    ELSE copied[CHOOSE i \in DOMAIN copied :
                  copied[i].src = r /\ \A j \in 1..(i - 1) : copied[j].src # r].dst

addToRefTable(r, a) ==
    /\ copied' = Append(copied, IF build = "marking" THEN [src |-> r, flags |-> flags[r]]
                                ELSE [src |-> r, dst |-> Dst(a)])
    /\ flags' = IF build = "marking" THEN [flags EXCEPT ![r] = Dst(a)] ELSE flags

\* correctFlags, correctFlags2: entries are written back in the order of the
\* table, so the last entry of a reference decides.
correctFlags ==
    IF build # "marking" THEN flags
    ELSE [r \in SourceRefs |->
            LET E == {i \in DOMAIN copied : copied[i].src = r}
            IN  IF E = {} THEN flags[r]
                ELSE copied[CHOOSE i \in E : \A j \in E : j <= i].flags]

-----------------------------------------------------------------------------
(* A value v comes back from copy_reference_internal: it is the result, or   *)
(* it is stored in the slot of the object being filled.                     *)

Store(hp, v) ==
    IF stack # << >> /\ Frame.new \in DOMAIN hp
    THEN [hp EXCEPT ![Frame.new].data[Frame.k] = v] ELSE hp
NextSlot == IF stack = << >> THEN << >> ELSE [stack EXCEPT ![Len(stack)].k = @ + 1]
Result(v) == IF stack = << >> THEN v ELSE result

\* An old address after a collection of the source heap, whose flags word is none
\* of the known ones.  The promoted object itself has been looked at before.
Stale(r) == flags[r][1] = "moved" /\ r[2] # serving

\* References that are not copied: null, an object copied before, a proxy of a
\* service of the target domain, which becomes the service object, and what lies
\* outside the heaps.
NotCopied(r) ==
    CASE r = Null -> TRUE
      [] AlreadyCopied(r) -> TRUE
      [] OTHER -> ~Stale(r) /\ kind(r[2]) \in {"home", "string"}

ReferenceTaken ==
    /\ Visiting
    /\ NotCopied(Arg)
    /\ LET v == CASE Arg = Null -> Null
                  [] AlreadyCopied(Arg) -> CopyOf(Arg)
                  [] kind(Arg[2]) = "home" -> Svc(Arg[2])
                  [] OTHER -> Arg
       IN  /\ copyHeap' = Store(copyHeap, v)
           /\ stack' = NextSlot
           /\ result' = Result(v)
    /\ UNCHANGED <<build, graph, flags, copied, copyTop, mark, targetEpoch, quota, step, services, serving>>

\* The exceptions and the panics of the switch over the flags of the object.
Refused(r) == Stale(r) \/ kind(r[2]) \in {"atomvar", "foreign"} \/ (kind(r[2]) = "loaded" /\ r[2] \in services)

ReferenceRefused ==
    /\ Visiting /\ ~NotCopied(Arg) /\ Refused(Arg)
    /\ step' = CASE Stale(Arg) -> "UNKNOWN OBJECT TYPE"
                 [] ~Stale(Arg) /\ kind(Arg[2]) = "foreign" -> "not implemented"
                 [] OTHER -> "thrown"
    /\ UNCHANGED <<build, graph, flags, copied, copyHeap, copyTop, mark, targetEpoch, quota, stack, result, services, serving>>

\* portal_auto_promo of an object that has no service description yet.  The
\* description, the proxy and the receiver thread are allocated in the source heap.
ToPromote(r) == kind(r[2]) \in {"service", "loaded"} /\ r[2] \notin services

portal_auto_promo ==
    /\ Visiting /\ ~NotCopied(Arg) /\ ~Refused(Arg) /\ ToPromote(Arg)
    /\ services' = services \cup {Arg[2]} /\ serving' = Arg[2]
    /\ \/ UNCHANGED flags
       \/ /\ build \in SourceCollects
          /\ flags' = [r \in SourceRefs |->
                IF flags[r] = Plain /\ r # Own(Arg[2]) /\ kind(r[2]) # "string" THEN Moved(r[2]) ELSE flags[r]]
    /\ UNCHANGED <<build, graph, copied, copyHeap, copyTop, mark, targetEpoch, quota, stack, result, step>>

-----------------------------------------------------------------------------
(* Allocation in the target heap.                                          *)

\* What each copy function leaves in the target heap for node n, when quota,
\* allocation and table let it (QuotaReached, Restart, TableFull).  In the
\* marking build the words of the source are copied at first, in the recursive
\* one only those of arrays that are not taken for arrays of references.
Made(n, k, slots) == [of |-> n, kind |-> k, data |-> slots]
Cleared(n) == [k \in DOMAIN graph.slot[n] |-> Null]
WordsOf(n) == [k \in DOMAIN graph.slot[n] |-> Src(graph.slot[n][k])]

copy_portal(n) == Made(n, "proxy", << >>)
copy_shallow_portal(n) == Made(n, "proxy", << >>)
copy_domainproxy(n) == Made(n, "domain", << >>)
copy_shallow_domainproxy(n) == Made(n, "domain", << >>)
\* A thread of the source is a foreign thread in the target.
copy_cpustate(n) == Made(n, "foreign", << >>)
copy_shallow_cpustate(n) == Made(n, "foreign", << >>)
copy_memory(n) == Made(n, "memory", << >>)
\* A service object is promoted (portal_auto_promo), and its proxy is copied.
copy_object(n) == IF kind(n) = "service" THEN copy_portal(n) ELSE Made(n, "object", Cleared(n))
copy_shallow_object(n) == IF kind(n) = "service" THEN copy_shallow_portal(n) ELSE Made(n, "object", WordsOf(n))
copy_array(n) == Made(n, kind(n), IF kind(n) = "refarray" THEN Cleared(n) ELSE WordsOf(n))
copy_shallow_array(n) == Made(n, kind(n), WordsOf(n))

\* The switches over the flags of the object.
copy_reference_internal(n) ==
    CASE kind(n) \in {"object", "service"} -> copy_object(n)
      [] kind(n) = "proxy" -> copy_portal(n)
      [] kind(n) = "memory" -> copy_memory(n)
      [] kind(n) = "domain" -> copy_domainproxy(n)
      [] kind(n) = "cpustate" -> copy_cpustate(n)
      [] kind(n) \in {"refarray", "nested", "data"} -> copy_array(n)
copy_shallow_reference_internal(n) ==
    CASE kind(n) \in {"object", "service"} -> copy_shallow_object(n)
      [] kind(n) = "proxy" -> copy_shallow_portal(n)
      [] kind(n) = "memory" -> copy_memory(n)
      [] kind(n) = "domain" -> copy_shallow_domainproxy(n)
      [] kind(n) = "cpustate" -> copy_shallow_cpustate(n)
      [] kind(n) \in {"refarray", "nested", "data"} -> copy_shallow_array(n)
NewObject(n) == IF build = "marking" THEN copy_shallow_reference_internal(n) ELSE copy_reference_internal(n)

\* The object in the source heap whose copy is entered in the table.
Entered(r) == IF kind(r[2]) = "service" THEN Own(r[2]) ELSE r

Allocates == Visiting /\ ~NotCopied(Arg) /\ ~Refused(Arg) /\ ~ToPromote(Arg)

\* if the quota is below objsize: sys_panic("")
QuotaReached ==
    /\ Allocates /\ quota = 0
    /\ step' = "quota"
    /\ UNCHANGED <<build, graph, flags, copied, copyHeap, copyTop, mark, targetEpoch, quota, stack, result, services, serving>>

\* addToRefTable: sys_panic("too many objects copied")
TableFull ==
    /\ Allocates /\ quota > 0 /\ Len(copied) = MAX_COPIED
    /\ step' = "too many objects copied"
    /\ UNCHANGED <<build, graph, flags, copied, copyHeap, copyTop, mark, targetEpoch, quota, stack, result, services, serving>>

\* A new object in heap hp.  In the recursive build its own slots are next.
Enter(hp) ==
    LET r == Arg
        o == NewObject(r[2])
        h == [a \in DOMAIN hp \cup {copyTop} |-> IF a = copyTop THEN o ELSE hp[a]]
    IN  /\ addToRefTable(Entered(r), copyTop)
        /\ copyTop' = copyTop + 1
        /\ quota' = quota - 1
        /\ IF build = "recursive" /\ Visited(o) > 0
           THEN /\ copyHeap' = h
                /\ stack' = Append(stack, [new |-> copyTop, obj |-> r[2], k |-> 1, n |-> Visited(o)])
                /\ UNCHANGED result
           ELSE /\ copyHeap' = Store(h, Dst(copyTop))
                /\ stack' = NextSlot
                /\ result' = Result(Dst(copyTop))
        /\ serving' = 0
        /\ UNCHANGED <<build, graph, mark, step, services>>

\* copy_object, copy_array, copy_portal, copy_domainproxy, copy_cpustate and
\* copy_memory, when the target heap has room; copy_memory also when it has not:
\* it does not look at the epoch after its allocation.
ObjectCopied ==
    /\ Allocates /\ quota > 0 /\ Len(copied) < MAX_COPIED
    /\ \E collects \in BOOLEAN :
         /\ collects => MemoryCollects /\ kind(Arg[2]) = "memory" /\ targetEpoch < MaxCollections
         /\ Enter(IF collects THEN << >> ELSE copyHeap)
         /\ targetEpoch' = IF collects THEN targetEpoch + 1 ELSE targetEpoch

\* Mutant: the flags of the source are not corrected before the restart.
RestartFlags_Left == flags

\* The flags of the source after restartCopy.  The reference is read again from the
\* caller's parameters, which a collection of the source heap has updated.
RestartFlags == IF build = "marking" THEN correctFlags ELSE [r \in SourceRefs |-> Plain]

\* curthr()->n_copied = 0
RestartTable == << >>

\* The allocation has collected the target heap: the epoch differs, restartCopy
\* makes every activation return 0xffffffff and receive_portalcall starts again.
\* The quota stays used.
Restart ==
    /\ Allocates /\ quota > 0
    /\ kind(Arg[2]) # "memory" /\ targetEpoch < MaxCollections
    /\ targetEpoch' = targetEpoch + 1
    /\ copyHeap' = copyTop :> NewObject(Arg[2])
    /\ copyTop' = copyTop + 1
    /\ mark' = copyTop + 1
    /\ quota' = quota - 1
    /\ flags' = RestartFlags
    /\ copied' = RestartTable
    /\ stack' = << >>
    /\ result' = Unset /\ serving' = 0
    /\ UNCHANGED <<build, graph, step, services>>

-----------------------------------------------------------------------------
\* The last slot is filled: copy_object and copy_array return the new object.
Leave ==
    /\ InFrame /\ build = "recursive" /\ Frame.k > Frame.n
    /\ LET up == SubSeq(stack, 1, Len(stack) - 1)
           v == Dst(Frame.new)
       IN  IF up = << >>
           THEN /\ result' = v /\ stack' = << >>
                /\ UNCHANGED copyHeap
           ELSE LET f == up[Len(up)]
                IN  /\ copyHeap' = IF f.new \in DOMAIN copyHeap
                               THEN [copyHeap EXCEPT ![f.new].data[f.k] = v] ELSE copyHeap
                    /\ stack' = [up EXCEPT ![Len(up)].k = @ + 1]
                    /\ UNCHANGED result
    /\ UNCHANGED <<build, graph, flags, copied, copyTop, mark, targetEpoch, quota, step, services, serving>>

\* copy_content_reference_internal returns for the object at the mark.
ContentDone ==
    /\ InFrame /\ build = "marking" /\ Frame.k > Frame.n
    /\ stack' = << >>
    /\ UNCHANGED <<build, graph, flags, copied, copyHeap, copyTop, mark, targetEpoch, quota, result, step, services, serving>>

\* gc_new_atMark: the next object of the target heap has its slots copied.
AtMark ==
    /\ Copying /\ build = "marking" /\ stack = << >> /\ result # Unset
    /\ mark < copyTop
    /\ mark' = mark + 1
    /\ stack' = << [new |-> mark, obj |-> copyHeap[mark].of, k |-> 1, n |-> Visited(copyHeap[mark])] >>
    /\ UNCHANGED <<build, graph, flags, copied, copyHeap, copyTop, targetEpoch, quota, result, step, services, serving>>

\* copy_reference returns.
Return ==
    /\ Copying /\ stack = << >> /\ result # Unset
    /\ build = "marking" => mark >= copyTop
    /\ step' = "done"
    /\ flags' = correctFlags
    /\ copied' = IF build = "marking" THEN << >> ELSE copied
    /\ UNCHANGED <<build, graph, copyHeap, copyTop, mark, targetEpoch, quota, stack, result, services, serving>>

CopyNext ==
    \/ ReferenceTaken \/ ReferenceRefused \/ portal_auto_promo
    \/ QuotaReached \/ TableFull
    \/ ObjectCopied \/ Restart
    \/ Leave \/ ContentDone \/ AtMark \/ Return

CopySpec == CopyInit /\ [][CopyNext]_copyVars

-----------------------------------------------------------------------------
(* Properties.                                                             *)

CopiedKind(n) == CASE kind(n) = "service" -> "proxy" [] kind(n) = "cpustate" -> "foreign" [] OTHER -> kind(n)

\* What a copy of node n (0: null) must be.
Matches(n, v) ==
    CASE n = 0 -> v = Null
      [] n # 0 /\ kind(n) = "string" -> v = Src(n)
      [] n # 0 /\ kind(n) = "home" -> v = Svc(n)
      [] OTHER -> /\ v[1] = "dst" /\ v[2] \in DOMAIN copyHeap
                  /\ copyHeap[v[2]].of = n /\ copyHeap[v[2]].kind = CopiedKind(n)

\* The pairs of an original and a copy that are met when both graphs are walked
\* from their roots, i slots deep.
Walked[i \in Nat] ==
    IF i = 0 THEN {<<Root, result>>}
    ELSE LET W == Walked[i - 1]
         IN  W \cup UNION {{<<graph.slot[p[1]][k], copyHeap[p[2][2]].data[k]>> :
                               k \in 1..Visited(copyHeap[p[2][2]])} :
                            p \in {q \in W : q[1] # 0 /\ q[2][1] = "dst"
                                           /\ q[2][2] \in DOMAIN copyHeap}}

\* A reference that copy_reference returns is the root of a copy of the source
\* graph: every object has one copy, of the same kind, wherever it is referred to
\* from (a service may have several proxies), and no slot of the copy refers to
\* the source heap, whatever collections forced the copying to restart.  (The
\* elements of arrays of arrays are left out: the code copies them as words.)
CopyFaithful ==
    step = "done" =>
        LET W == Walked[Cardinality(Nodes) + 1]
        IN  /\ \A p \in W : Matches(p[1], p[2])
            /\ \A p, q \in W : p[1] = q[1] /\ p[1] # 0 /\ kind(p[1]) # "service" => p[2] = q[2]
            /\ \A p, q \in W : p[2] = q[2] => p[1] = q[1]

\* After a copy that returned, and before an attempt to copy, no object of the
\* source heap has a forwarding pointer to the target in its flags word: the next
\* copy and the next collection of the source read these words.
Unmarked == \A r \in SourceRefs : flags[r][1] # "dst"
SourceIntact == step = "done" \/ (Copying /\ copied = << >>) => Unmarked

\* The same after a copy that an exception ended: portal.c 1697, 2079 leave the
\* forwarding pointers of the marking build behind, and this does not hold.
ThrownUnmarked == step = "thrown" => Unmarked

(***************************************************************************)
(* However often a collection of the target makes the copying start again,  *)
(* a copy that returns is faithful and leaves the source without a mark; in *)
(* the default build also when a promotion collects the source heap on the  *)
(* way, where the kernel may stop instead.  Nothing is said of a copy that  *)
(* ends by an exception (ThrownUnmarked) (portal.c 1430-2560, gc_new.c).    *)
(***************************************************************************)
CopyRight == CopyFaithful /\ SourceIntact
=============================================================================
