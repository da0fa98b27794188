----------------------------- MODULE GcChunked -----------------------------
(***************************************************************************)
(* The chunked collector (Memory/gc_chunked.c): a heap is a list of chunks, *)
(* charged to a principal that may not use more than its limit.  A thread   *)
(* that has to wait for memory of the principal blocks in the middle of its *)
(* collection.  Heaps of several domains account to the same principal;    *)
(* collections interleave where they block, and share the one pointer with  *)
(* which a collector thread finds its way back (core/oneshot.c).  Which     *)
(* objects survive is chosen; moving them is the part of GcMove.  A domain  *)
(* has one thread that allocates.                                          *)
(***************************************************************************)
EXTENDS Integers, Sequences, FiniteSets, FiniteSetsExt, SequencesExt

CONSTANTS
    Heaps,          \* the domains
    Limit,          \* of the principal, in words
    InitialWords, ChunkWords, CollectAt,
    ObjectSizes,    \* sizes of objects, in words
    Slots           \* places jxmalloc may take a chunk from

ASSUME ChunkedAssumption ==
    /\ IsFiniteSet(Heaps) /\ {Limit, InitialWords, ChunkWords, CollectAt} \subseteq Nat
    /\ ObjectSizes \subseteq Nat /\ Slots \subseteq Nat

HDR == 1            \* sizeof(ChunkInfo), in words of the model
SlotWords == 16     \* distance of the slots

VARIABLES
    heap,           \* per domain: the two semispaces and the statistics
    consumed,       \* of the principal
    waiting,        \* the principal's list of waiting threads, newest first
    blocked,        \* domains whose thread sleeps in allocChunk
    pc,             \* per domain: where its thread is, or its collector thread in "copy"
    refs,           \* portals to a service of another domain that count for it
    switchBackTo,   \* the domain whose thread started a collection last
    oneshot,        \* domains whose thread is in STATE_WAIT_ONESHOT
    cpu,            \* the domain that runs with interrupts disabled, or "NULL"
    fault           \* what has stopped the kernel: an ASSERT, or a store through NULL

threadVars == <<switchBackTo, oneshot, fault>>
chunkVars == <<heap, consumed, waiting, blocked, pc, refs, switchBackTo, oneshot, fault, cpu>>

NoAlloc == [size |-> 0, kind |-> "object"]
At(l, r, todo) == [at |-> l, req |-> r, todo |-> todo]
EmptyHeap == [chunks |-> << >>, current |-> 0, end |-> 0, chunks2 |-> << >>, current2 |-> 0, end2 |-> 0,
              total |-> 0, free |-> 0, used |-> 0]

ChunkedInit ==
    /\ heap = [d \in Heaps |-> EmptyHeap]
    /\ consumed = 0 /\ waiting = << >> /\ blocked = {} /\ refs = 0
    /\ pc = [d \in Heaps |-> At("off", NoAlloc, << >>)]
    /\ switchBackTo = "NULL" /\ oneshot = {} /\ fault = "none" /\ cpu = "NULL"

(***************************************************************************)
(* Chunks                                                                  *)
(***************************************************************************)

ChunksOf(d) == heap[d].chunks \o heap[d].chunks2
TakenSlots == UNION { {ChunksOf(d)[i].base : i \in DOMAIN ChunksOf(d)} : d \in Heaps }
FreeSlots == {s * SlotWords : s \in Slots} \ TakenSlots

\* jxmalloc takes the first place that is free (Malloc); if there is none the
\* kernel stops.
jxmalloc == {s \in FreeSlots : \A t \in FreeSlots : s <= t}

Words(s) == SumFunction([i \in DOMAIN s |-> s[i].size])

\* A ChunkInfo whose current pointer is not valid: cur = 0.
NewChunk(base, words) == [base |-> base, size |-> words, cur |-> 0, objs |-> << >>]

\* allocChunk: the thread waits until the principal has enough.
MayAlloc(words) == consumed + words <= Limit
WaitForMemory(d) ==
    /\ waiting' = <<d>> \o waiting /\ blocked' = blocked \cup {d}
    /\ UNCHANGED <<heap, consumed, pc, refs, threadVars>>

\* tryAllocChunk keeps back what a collection may need.  The difference is unsigned:
\* when the limit is smaller it is huge and nothing is kept back.
MayTryAlloc(words) == Limit < CollectAt \/ consumed + words <= Limit - CollectAt

\* Mutant: the size charged back is that of a chunk, whatever the piece.
freeChunks_Flat(chunks) ==
    /\ consumed' = consumed - ChunkWords * Len(chunks)
    /\ waiting' = << >> /\ blocked' = blocked \ {waiting[i] : i \in 1..Min({2, Len(waiting)})}

\* freeChunk for each chunk.  The loop wakes the head of the list, clears the
\* link of the second, and so finds no third.
freeChunks(chunks) ==
    /\ consumed' = consumed - Words(chunks)
    /\ IF chunks = << >> THEN UNCHANGED <<waiting, blocked>>
       ELSE waiting' = << >> /\ blocked' = blocked \ {waiting[i] : i \in 1..Min({2, Len(waiting)})}

\* Its last round clears the link of the thread behind the last one, through NULL: the
\* kernel has no page tables and goes on, the emulation gets SIGSEGV.
NullStores(chunks) ==
    IF chunks # << >> /\ waiting # << >> THEN {"none", "NULL store"} ELSE {"none"}

(***************************************************************************)
(* Allocation                                                              *)
(***************************************************************************)

Runs(d, l) == fault = "none" /\ cpu \in {d, "NULL"} /\ d \notin blocked /\ pc[d].at = l

gc_chunked_init(d) ==
    /\ Runs(d, "off")
    /\ IF ~MayAlloc(InitialWords) THEN WaitForMemory(d)
       ELSE \E b \in jxmalloc :
            /\ heap' = [heap EXCEPT ![d] =
                 [EmptyHeap EXCEPT !.chunks = <<NewChunk(b, InitialWords)>>, !.current = b + HDR,
                                   !.end = b + InitialWords, !.total = InitialWords,
                                   !.free = InitialWords - HDR, !.used = HDR]]
            /\ consumed' = consumed + InitialWords
            /\ pc' = [pc EXCEPT ![d] = At("run", NoAlloc, << >>)]
            /\ UNCHANGED <<waiting, blocked, refs, threadVars>>

\* gc_chunked_allocDataInDomain: is it time for a collection?
Request(d, size, kind) ==
    /\ Runs(d, "run")
    /\ pc' = [pc EXCEPT ![d] = At(IF heap[d].used >= CollectAt THEN "gc" ELSE "try",
                                  [size |-> size, kind |-> kind], << >>)]
    /\ UNCHANGED <<heap, consumed, waiting, blocked, refs, threadVars>>

LastOf(chunks) == chunks[Len(chunks)]
WithLast(chunks, c) == [chunks EXCEPT ![Len(chunks)] = c]
Placed(c, addr, r) == [c EXCEPT !.objs = Append(@, [addr |-> addr, size |-> r.size, kind |-> r.kind])]
Goto(d, l) == pc' = [pc EXCEPT ![d] = [@ EXCEPT !.at = l]]

\* The current pointer is written to the chunk when it stops to be current.
Closed(h) == WithLast(h.chunks, [LastOf(h.chunks) EXCEPT !.cur = h.current])

\* try_alloc.  An object placed past its chunk writes into memory of others:
\* the domain ends in "wild", where nothing is said of it any more.
TryAlloc(d) ==
    LET h == heap[d]
        r == pc[d].req
        last == LastOf(h.chunks)
    IN /\ Runs(d, "try")
       /\ IF r.size > ChunkWords - HDR \/ h.current = 0
          THEN Goto(d, "panic") /\ UNCHANGED <<heap, consumed, waiting, blocked, refs, threadVars>>
          ELSE IF h.current + r.size < h.end
          THEN /\ heap' = [heap EXCEPT ![d] =
                    [h EXCEPT !.chunks = WithLast(@, Placed(last, h.current, r)), !.current = @ + r.size,
                              !.free = @ - r.size, !.used = @ + r.size]]
               /\ refs' = IF r.kind = "portal" THEN refs + 1 ELSE refs
               /\ Goto(d, IF h.current + r.size > last.base + last.size THEN "wild" ELSE "run")
               /\ UNCHANGED <<consumed, waiting, blocked, threadVars>>
          ELSE IF ~MayTryAlloc(ChunkWords)
          THEN /\ heap' = [heap EXCEPT ![d] = [h EXCEPT !.chunks = Closed(h)]]
               /\ Goto(d, "gc") /\ UNCHANGED <<consumed, waiting, blocked, refs, threadVars>>
          ELSE \E b \in jxmalloc :
               /\ heap' = [heap EXCEPT ![d] =
                    [h EXCEPT !.chunks = Append(Closed(h), NewChunk(b, ChunkWords)),
                              !.current = b + HDR, !.end = b + ChunkWords,
                              !.total = @ + ChunkWords, !.free = @ + ChunkWords - HDR]]
               /\ consumed' = consumed + ChunkWords
               /\ UNCHANGED <<waiting, blocked, pc, refs, threadVars>>

(***************************************************************************)
(* Collection, in the domain's collector thread                            *)
(***************************************************************************)

\* What a walk of the heap meets, chunk by chunk.
Walk(chunks) == [i \in DOMAIN chunks |-> chunks[i].objs]
gc_chunked_walkHeap(h) == Walk(h.chunks)
gc_chunked_walkHeap2(h) == Walk(h.chunks2)
Met(walk) == UNION {ToSet(walk[i]) : i \in DOMAIN walk}

\* start_thread_using_code1: the thread waits for the collector thread.
start_thread_using_code1(d) == switchBackTo' = d /\ oneshot' = oneshot \cup {d} /\ UNCHANGED fault

\* gc_chunked_gc: the objects that will be moved, in the order in which the
\* roots and the objects moved before lead to them.
GcStart(d) ==
    /\ Runs(d, "gc")
    /\ \E live \in SUBSET Met(gc_chunked_walkHeap(heap[d])) : \E todo \in SetToSeqs(live) :
        pc' = [pc EXCEPT ![d] = At("copy", @.req, todo)]
    /\ heap' = [heap EXCEPT ![d] = [@ EXCEPT !.chunks = Closed(heap[d])]]
    /\ start_thread_using_code1(d)
    /\ UNCHANGED <<consumed, waiting, blocked, refs>>

\* gc_chunked_allocHeap2 for the next object; its first call makes the second
\* semispace and starts the statistics again.
allocHeap2(d) ==
    LET h == heap[d]
        o == Head(pc[d].todo)
        first == h.current2 = 0
        words == IF first THEN InitialWords ELSE ChunkWords
    IN /\ Runs(d, "copy") /\ pc[d].todo # << >>
       /\ IF ~first /\ h.current2 + o.size < h.end2
          THEN /\ heap' = [heap EXCEPT ![d] =
                    [h EXCEPT !.chunks2 = WithLast(@, [Placed(LastOf(@), h.current2, o) EXCEPT !.cur = h.current2 + o.size]),
                              !.current2 = @ + o.size, !.free = @ - o.size, !.used = @ + o.size]]
               /\ pc' = [pc EXCEPT ![d].todo = Tail(@)]
               /\ UNCHANGED <<consumed, waiting, blocked, refs, threadVars>>
          ELSE IF ~MayAlloc(words) THEN WaitForMemory(d)
          ELSE \E b \in jxmalloc :
               /\ heap' = [heap EXCEPT ![d] =
                    [h EXCEPT !.chunks2 = Append(@, NewChunk(b, words)), !.current2 = b + HDR, !.end2 = b + words,
                              !.total = IF first THEN words ELSE @ + words,
                              !.free = IF first THEN words - HDR ELSE @ + words - HDR,
                              !.used = IF first THEN HDR ELSE @]]
               /\ consumed' = consumed + words
               /\ UNCHANGED <<waiting, blocked, pc, refs, threadVars>>

\* The portals a walk meets.
PortalsIn(s) == Cardinality({i \in DOMAIN s : s[i].kind = "portal"})
Portals(walk) == SumFunction([i \in DOMAIN walk |-> PortalsIn(walk[i])])

\* gc_chunked_finalizePortals: a portal that was not moved counts down.
finalizePortals(h) == Portals(gc_chunked_walkHeap(h)) - Portals(gc_chunked_walkHeap2(h))

\* returnfrom_oneshot in the collector thread of d: the thread that switchBackTo
\* points to goes on.  If that is a thread of another domain, whose collection has
\* not ended, the one that waits for this collection is "lost"; what the other one
\* does to its half moved heap is not followed.
returnfrom_oneshot(d, chunks) ==
    /\ oneshot' = oneshot \ {switchBackTo}
    /\ fault' \in IF switchBackTo \in oneshot THEN NullStores(chunks) ELSE {"oneshot"}
    /\ Goto(d, IF switchBackTo = d THEN "try" ELSE "lost")
    /\ UNCHANGED switchBackTo

\* Finalize, free the old chunks, and make the second semispace the heap: the
\* end of the current chunk is not taken over.
GcFinish(d) ==
    LET h == heap[d]
    IN /\ Runs(d, "copy") /\ pc[d].todo = << >>
       /\ refs' = refs - finalizePortals(h)
       /\ heap' = [heap EXCEPT ![d] = [h EXCEPT !.chunks = h.chunks2, !.current = h.current2,
                                                !.chunks2 = << >>, !.current2 = 0]]
       /\ freeChunks(h.chunks)
       /\ returnfrom_oneshot(d, h.chunks)

\* The domain ends.
gc_chunked_done(d) ==
    /\ Runs(d, "run")
    /\ refs' = refs - Portals(gc_chunked_walkHeap(heap[d]))
    /\ freeChunks(heap[d].chunks)
    /\ heap' = [heap EXCEPT ![d] = EmptyHeap]
    /\ fault' \in NullStores(heap[d].chunks)
    /\ Goto(d, "off")
    /\ UNCHANGED <<switchBackTo, oneshot>>

\* GC_LOCK disables interrupts and a collector thread runs with them disabled:
\* the CPU is given up where a thread blocks or its allocation ends.
KeepsCpu(d) == d \notin blocked' /\ pc'[d].at \in {"try", "gc", "copy"}

ChunkedStep(d) ==
    \/ gc_chunked_init(d) \/ TryAlloc(d) \/ GcStart(d) \/ allocHeap2(d) \/ GcFinish(d) \/ gc_chunked_done(d)
    \/ \E size \in ObjectSizes, kind \in {"object", "portal"} : Request(d, size, kind)

ChunkedNext == \E d \in Heaps : ChunkedStep(d) /\ cpu' = IF KeepsCpu(d) THEN d ELSE "NULL"

ChunkedSpec == ChunkedInit /\ [][ChunkedNext]_chunkVars

(***************************************************************************)
(* Properties                                                              *)
(***************************************************************************)

\* The words of the objects a walk meets.
ObjectWords(walk) == SumFunction([i \in DOMAIN walk |-> Words(walk[i])])

\* Nothing is charged over the limit, where tryAllocChunk can keep to it.
InLimit(n) == CollectAt <= Limit => n <= Limit

\* Whatever collections of other domains have done in between, the principal is
\* charged for exactly the chunks its domains hold, and never over its limit
\* unless that is smaller than what is kept back; every portal that is gone has
\* been counted down once; and the statistics of a heap that is in use describe
\* its chunks and objects.  Nothing is said of a thread that a collector thread
\* of another domain has returned to, in the middle of its own collection
\* (gc_chunked.c 73-113, 188-203, 302-335, 355-367, 430-448).
ChunksAccounted ==
    /\ consumed = SumFunction([d \in Heaps |-> Words(heap[d].chunks) + Words(heap[d].chunks2)])
    /\ InLimit(consumed)
    /\ refs = SumFunction([d \in Heaps |-> Portals(gc_chunked_walkHeap(heap[d]))])
    /\ \A d \in Heaps : pc[d].at = "run" =>
        /\ heap[d].total = Words(heap[d].chunks)
        /\ heap[d].used = HDR + ObjectWords(gc_chunked_walkHeap(heap[d]))
        /\ heap[d].used + heap[d].free = heap[d].total - HDR * (Len(heap[d].chunks) - 1)

\* oneshot.c 21: ASSERT(switchBackTo->state == STATE_WAIT_ONESHOT): a collector
\* thread comes back to a thread that waits for one.
ReturnsToWaiter == fault # "oneshot"

\* gc_chunked.c 35: endCurrentChunk is "the end of the current chunk".
EndIsChunkEnd ==
    \A d \in Heaps : pc[d].at = "run" => heap[d].end = LastOf(heap[d].chunks).base + LastOf(heap[d].chunks).size
=============================================================================
