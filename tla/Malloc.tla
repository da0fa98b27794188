------------------------------- MODULE Malloc -------------------------------
(***************************************************************************)
(* The kernel's block allocator (core/malloc.c): a bitmap with one bit per  *)
(* block and a rotating pointer at which every search starts.  It serves    *)
(* heaps, stacks, code, domain descriptors and memory objects.             *)
(*                                                                         *)
(* A search runs with interrupts disabled (LOCK_MALLOC), but reads its      *)
(* start position before that.  One round of its loop is one step, so that  *)
(* a search that does not end is a behaviour.                              *)
(***************************************************************************)
EXTENDS Integers, FiniteSets

CONSTANTS
    Callers,        \* threads and interrupt handlers that allocate
    NoCaller,
    NBlocks,        \* n_blocks
    BitmapBlocks,   \* bitmap_size_blocks: blocks that hold the bitmap itself
    BitsPerByte,    \* 8
    FirstBlock,     \* jxmem_start / BLOCKSIZE, for the alignment of addresses
    Sizes,          \* requested sizes, in blocks (a request for 0 marks nothing)
    Aligns          \* requested alignments, in blocks (1: at most BLOCKSIZE)

ASSUME MallocAssumption ==
    /\ NoCaller \notin Callers
    /\ NBlocks \in Nat /\ BitmapBlocks \in Nat \ {0} /\ BitmapBlocks < NBlocks
    /\ BitsPerByte \in Nat \ {0}
    /\ FirstBlock \in Nat
    /\ Sizes \subseteq Nat \ {0}
    /\ Aligns \subseteq Nat \ {0}

Blocks == 0 .. (NBlocks - 1)
BitmapItself == 0 .. (BitmapBlocks - 1)

VARIABLES
    used,           \* the bits that are set in bitmap[]
    stray,          \* those that jxmalloc_init found set and did not clear
    n_free,
    current_block,  \* "rotating pointer that marks the start of the free block search"
    req,            \* of a caller in jxmalloc_internal: size, alignment, start_block
    lock,           \* the caller that holds LOCK_MALLOC
    regions,        \* what has been handed out and not freed: <<first block, size>>
    panic

vars == <<used, stray, n_free, current_block, req, lock, regions, panic>>

NoRequest == << >>
None == "none"
Panics == {"out of memory", "not marked as used"}

Requests == [size : Sizes, align : Aligns, start : Blocks]
BlocksOf(r) == r[1] .. (r[1] + r[2] - 1)

\* The variables hold values of their types.
TypeOK ==
    /\ used \subseteq Blocks
    /\ stray \subseteq Blocks
    /\ n_free \in 0 .. NBlocks
    /\ current_block \in Blocks
    /\ req \in [Callers -> Requests \cup {NoRequest}]
    /\ lock \in Callers \cup {NoCaller}
    /\ regions \subseteq (Blocks \X Sizes)
    /\ panic \in Panics \cup {None}

\* (x % n_blocks) where x is at most twice n_blocks.
Wrap(x) == IF x >= NBlocks THEN x - NBlocks ELSE x

-----------------------------------------------------------------------------
(* jxmalloc_init clears bitmap_size = n_blocks >> 3 bytes: the bits of the  *)
(* last n_blocks % 8 blocks are what the memory held before.  Their byte is *)
(* taken to lie in a block of the bitmap: when bitmap_size is a multiple of *)
(* BLOCKSIZE it is the first byte of the block behind, which is handed out. *)

Uncleared == (BitsPerByte * (NBlocks \div BitsPerByte)) .. (NBlocks - 1)

jxmalloc_init ==
    /\ stray \in SUBSET (Uncleared \ BitmapItself)
    /\ used = BitmapItself \cup stray
    /\ n_free = NBlocks - BitmapBlocks
    /\ current_block = Wrap(BitmapBlocks)
    /\ req = [c \in Callers |-> NoRequest]
    /\ lock = NoCaller
    /\ regions = {}
    /\ panic = None

-----------------------------------------------------------------------------
(* The search.                                                             *)

Out(why) ==
    /\ panic' = why
    /\ UNCHANGED <<used, stray, n_free, current_block, req, lock, regions>>

\* A request that is out of memory goes unanswered: sys_panic.
OutOfMemory == Out("out of memory")

Aligned(b, align) == (FirstBlock + b) % align = 0

\* Mutant: the last block of the run is not looked at.
FreeRun_OffByOne(b, size) ==
    /\ b + size <= NBlocks
    /\ \A x \in b .. (b + size - 2) : x \notin used

\* There are size free blocks at b.
FreeRun(b, size) ==
    /\ b + size <= NBlocks
    /\ \A x \in b .. (b + size - 1) : x \notin used

\* Mutant: the search goes on one block further.
IsFreeLeaves_SkipsOne(size, b) ==
    \/ current_block + size > NBlocks /\ b = 0
    \/ /\ current_block + size <= NBlocks
       /\ \E x \in current_block .. (current_block + size - 1) :
             /\ x \in used
             /\ \A y \in current_block .. (x - 1) : y \notin used
             /\ b = Wrap(x + 2)

\* isFree(size) has failed and leaves the rotating pointer at b: behind the first
\* used block, or at 0 if the end of the memory is too near.
IsFreeLeaves(size, b) ==
    \/ current_block + size > NBlocks /\ b = 0
    \/ /\ current_block + size <= NBlocks
       /\ \E x \in current_block .. (current_block + size - 1) :
             /\ x \in used
             /\ \A y \in current_block .. (x - 1) : y \notin used
             /\ b = Wrap(x + 1)

\* Mutant: the search goes back to where it started after every failure.
nextFree_Restarts(b) ==
    IF used = Blocks THEN OutOfMemory
    ELSE /\ current_block' = req[lock].start
         /\ UNCHANGED <<used, stray, n_free, req, lock, regions, panic>>

\* nextFree, from b: the rotating pointer goes to the first free block.
nextFree(b) ==
    IF used = Blocks THEN OutOfMemory
    ELSE /\ \E k \in 0 .. (NBlocks - 1) :
               /\ Wrap(b + k) \notin used
               /\ \A j \in 0 .. (k - 1) : Wrap(b + j) \in used
               /\ current_block' = Wrap(b + k)
         /\ UNCHANGED <<used, stray, n_free, req, lock, regions, panic>>

\* Mutant: n_free is not counted down per block.
markUsed_CountsOne(c) ==
    LET size == req[c].size IN
    /\ used' = used \cup (current_block .. (current_block + size - 1))
    /\ n_free' = n_free - 1
    /\ current_block' = Wrap(current_block + size)
    /\ regions' = regions \cup {<<current_block, size>>}
    /\ req' = [req EXCEPT ![c] = NoRequest]
    /\ lock' = NoCaller
    /\ UNCHANGED <<stray, panic>>

\* The blocks at the rotating pointer are marked and handed out.
markUsed(c) ==
    LET size == req[c].size IN
    /\ used' = used \cup (current_block .. (current_block + size - 1))
    /\ n_free' = n_free - size
    /\ current_block' = Wrap(current_block + size)
    /\ regions' = regions \cup {<<current_block, size>>}
    /\ req' = [req EXCEPT ![c] = NoRequest]
    /\ lock' = NoCaller
    /\ UNCHANGED <<stray, panic>>

\* One round of the loop of jxmalloc_internal.
SearchRound(c) ==
    /\ panic = None /\ lock = c
    /\ IF FreeRun(current_block, req[c].size)
       THEN IF Aligned(current_block, req[c].align)
            THEN markUsed(c)
            ELSE nextFree(current_block)
       ELSE IF current_block = 0 /\ req[c].size > NBlocks
       THEN OutOfMemory
       ELSE \E b \in Blocks :
               /\ IsFreeLeaves(req[c].size, b)
               /\ IF b = req[c].start THEN OutOfMemory ELSE nextFree(b)

-----------------------------------------------------------------------------
(* The operations.                                                         *)

\* Before LOCK_MALLOC: u4_t start_block = current_block.
jxmalloc_internal(c, size, align) ==
    /\ panic = None /\ lock = NoCaller /\ req[c] = NoRequest
    /\ req' = [req EXCEPT ![c] = [size |-> size, align |-> align, start |-> current_block]]
    /\ UNCHANGED <<used, stray, n_free, current_block, lock, regions, panic>>

LOCK_MALLOC(c) ==
    /\ panic = None /\ lock = NoCaller /\ req[c] # NoRequest
    /\ lock' = c
    /\ UNCHANGED <<used, stray, n_free, current_block, req, regions, panic>>

\* jxfree with the size the region was allocated with.
jxfree(r) ==
    /\ panic = None /\ lock = NoCaller
    /\ IF BlocksOf(r) \subseteq used
       THEN /\ used' = used \ BlocksOf(r)
            /\ n_free' = n_free + r[2]
            /\ regions' = regions \ {r}
            /\ UNCHANGED <<stray, current_block, req, lock, panic>>
       ELSE Out("not marked as used")

Next ==
    \/ \E c \in Callers, size \in Sizes, align \in Aligns : jxmalloc_internal(c, size, align)
    \/ \E c \in Callers : LOCK_MALLOC(c)
    \/ \E c \in Callers : SearchRound(c)
    \/ \E r \in regions : jxfree(r)

Spec == jxmalloc_init /\ [][Next]_vars

\* The loop runs with interrupts disabled: nothing else does.
FairSpec == Spec /\ \A c \in Callers : WF_vars(SearchRound(c))

-----------------------------------------------------------------------------
(* Safety.                                                                 *)

\* Only blocks whose bit is clear are handed out, and only once: whatever has been
\* allocated and freed before, live regions do not overlap each other, the bitmap
\* or the blocks whose stray bits jxmalloc_init left set.
NoOverlap ==
    /\ \A r \in regions : BlocksOf(r) \cap (BitmapItself \cup stray) = {}
    /\ \A r, q \in regions : r # q => BlocksOf(r) \cap BlocksOf(q) = {}

\* No block is lost and none is counted wrongly: the set bits are those of the
\* bitmap, of the live regions and the stray ones, n_free counts the rest, and
\* so jxfree never finds a block that is not marked.
AccountingExact ==
    /\ used = BitmapItself \cup stray \cup UNION {BlocksOf(r) : r \in regions}
    /\ n_free = NBlocks - Cardinality(used \ stray)
    /\ panic # "not marked as used"

\* The kernel gives up only if the request cannot be met: "Out of memory" means
\* that no run of free blocks fits, wherever the search started and however it
\* jumped.  It needs start_block to be the position at which the search begins.
Fits(b, r) == FreeRun(b, r.size) /\ Aligned(b, r.align)
OutOfMemoryJustified ==
    panic = "out of memory" =>
        /\ lock \in Callers
        /\ \A b \in Blocks : ~Fits(b, req[lock])

-----------------------------------------------------------------------------
(* Liveness.                                                               *)

\* A request without alignment that can be met is met: the search gets to the run
\* from wherever it starts.  (An aligned request may stay at a free run with another
\* address for ever: nextFree does not leave a free block.)
FittingRequestServed ==
    \A c \in Callers :
        (lock = c /\ req[c].align = 1 /\ \E b \in Blocks : Fits(b, req[c])) ~> (lock # c)

\* lessons/0007-malloc.html: "If not found, wrap around to block 0 and scan
\* again", "If still not found: sys_panic("Out of memory")": a search ends.
SearchEnds ==
    \A c \in Callers : (lock = c) ~> (lock # c \/ panic # None)
=============================================================================
