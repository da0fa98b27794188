---------------------------- MODULE Malloc_proofs ----------------------------
(***************************************************************************)
(* What the block allocator guarantees for every memory size and every      *)
(* sequence of requests: no overlap, exact accounting and, as long as       *)
(* nobody else allocates between the read of start_block and the lock, no   *)
(* "Out of memory" while a run of free blocks fits.  And what the memory for *)
(* code carved out of its blocks guarantees (CodeMem): every descriptor,     *)
(* table and piece of code is written only by its owner.  And what the       *)
(* accounts of the chunked heaps guarantee (GcChunked).                     *)
(***************************************************************************)
EXTENDS Malloc, CodeMem, GcChunked, FiniteSetTheorems, WellFoundedInduction, TLAPS

\* Who holds the lock has a request.
LockHolderSearches == lock # NoCaller => req[lock] # NoRequest

\* The marked blocks, by what they are used for; nothing live is stray.
Marked ==
    /\ used = BitmapItself \cup stray \cup UNION {BlocksOf(r) : r \in regions}
    /\ stray \cap BitmapItself = {}
    /\ \A r \in regions : BlocksOf(r) \cap stray = {}
    /\ \A r \in regions : r[1] + r[2] <= NBlocks

\* The part of the type invariant that does not speak of n_free.
Types ==
    /\ used \subseteq Blocks
    /\ stray \subseteq Blocks
    /\ current_block \in Blocks
    /\ req \in [Callers -> Requests \cup {NoRequest}]
    /\ lock \in Callers \cup {NoCaller}
    /\ regions \subseteq (Blocks \X Sizes)
    /\ panic \in Panics \cup {None}

Counted == n_free = NBlocks - Cardinality(used \ stray)

IInv == Types /\ LockHolderSearches /\ Marked /\ NoOverlap /\ Counted
            /\ panic # "not marked as used"

-----------------------------------------------------------------------------
(* The rotating pointer stays inside the memory.                           *)
LEMMA WrapInBlocks ==
    ASSUME NEW x \in Nat, x < 2 * NBlocks
    PROVE  Wrap(x) \in Blocks
  BY MallocAssumption DEF Wrap, Blocks

(* Block numbers are numbers below n_blocks.                               *)
LEMMA BlocksAreNumbers == \A b \in Blocks : b \in Nat /\ b < NBlocks
  BY MallocAssumption DEF Blocks

(* Marking a free run of blocks lowers the number of unmarked ones by its   *)
(* length, freeing a marked run raises it.                                 *)
LEMMA CountRun ==
    ASSUME NEW U, U \subseteq Blocks, NEW b \in Nat, NEW n \in Nat,
           b + n <= NBlocks,
           (b .. (b + n - 1)) \cap U = {}
    PROVE  /\ Cardinality(U) \in Nat
           /\ Cardinality(U \cup (b .. (b + n - 1))) = Cardinality(U) + n
           /\ Cardinality(U \cup (b .. (b + n - 1))) <= NBlocks
<1> DEFINE I == b .. (b + n - 1)
<1>1. IsFiniteSet(Blocks) /\ Cardinality(Blocks) = NBlocks
  <2>1. 0 \in Int /\ NBlocks - 1 \in Int BY MallocAssumption
  <2>2. IsFiniteSet(0 .. (NBlocks - 1))
        /\ Cardinality(0 .. (NBlocks - 1)) = IF 0 > NBlocks - 1 THEN 0 ELSE (NBlocks - 1) - 0 + 1
    BY <2>1, FS_Interval
  <2> QED BY <2>2, MallocAssumption DEF Blocks
<1>2. IsFiniteSet(U) BY <1>1, FS_Subset
<1>3. IsFiniteSet(I) /\ Cardinality(I) = n
  <2>1. b \in Int /\ b + n - 1 \in Int OBVIOUS
  <2>2. IsFiniteSet(b .. (b + n - 1))
        /\ Cardinality(b .. (b + n - 1)) = IF b > b + n - 1 THEN 0 ELSE (b + n - 1) - b + 1
    BY <2>1, FS_Interval
  <2> QED BY <2>2
<1>4. /\ IsFiniteSet(U \cup I)
      /\ Cardinality(U \cup I) = Cardinality(U) + Cardinality(I) - Cardinality(U \cap I)
  BY <1>2, <1>3, FS_Union
<1>5. U \cap I = {} OBVIOUS
<1>6. Cardinality(U \cap I) = 0 BY <1>5, FS_EmptySet
<1>7. Cardinality(U) \in Nat BY <1>2, FS_CardinalityType
<1>8. U \cup I \subseteq Blocks BY MallocAssumption DEF Blocks
<1>9. Cardinality(U \cup I) <= NBlocks BY <1>1, <1>8, FS_Subset
<1> QED BY <1>3, <1>4, <1>6, <1>7, <1>9

-----------------------------------------------------------------------------
(* Inductiveness.                                                          *)

(* jxmalloc_init establishes the invariant, stray bits included.            *)
LEMMA InitHolds == jxmalloc_init => IInv
<1> SUFFICES ASSUME jxmalloc_init PROVE IInv OBVIOUS
<1> USE MallocAssumption
<1>1. Types
  <2>1. BitmapItself \subseteq Blocks BY DEF BitmapItself, Blocks
  <2>2. Uncleared \subseteq Blocks
    BY SMT DEF Uncleared, Blocks
  <2>3. current_block \in Blocks BY WrapInBlocks DEF jxmalloc_init
  <2> QED BY <2>1, <2>2, <2>3 DEF jxmalloc_init, Types, Panics, None
<1>2. LockHolderSearches BY DEF jxmalloc_init, LockHolderSearches
<1>3. Marked /\ NoOverlap BY DEF jxmalloc_init, Marked, NoOverlap
<1>4. Counted
  <2>1. used \ stray = {} \cup (0 .. (0 + BitmapBlocks - 1))
    BY DEF jxmalloc_init, BitmapItself
  <2>2. Cardinality({} \cup (0 .. (0 + BitmapBlocks - 1))) = Cardinality({}) + BitmapBlocks
    <3>1. {} \subseteq Blocks /\ 0 \in Nat /\ BitmapBlocks \in Nat /\ 0 + BitmapBlocks <= NBlocks
      OBVIOUS
    <3>2. (0 .. (0 + BitmapBlocks - 1)) \cap {} = {} OBVIOUS
    <3> QED BY <3>1, <3>2, CountRun
  <2>3. Cardinality({}) = 0 BY FS_EmptySet
  <2>4. Cardinality(used \ stray) = 0 + BitmapBlocks BY <2>1, <2>2, <2>3
  <2>5. n_free = NBlocks - BitmapBlocks BY DEF jxmalloc_init
  <2> QED BY <2>4, <2>5 DEF Counted
<1> QED BY <1>1, <1>2, <1>3, <1>4 DEF IInv, jxmalloc_init, None

(* The run that is handed out was free, so it is nobody else's.            *)
LEMMA MarkKeeps ==
    ASSUME IInv, NEW c \in Callers, lock = c, panic = None,
           FreeRun(current_block, req[c].size), markUsed(c)
    PROVE  IInv'
<1> USE MallocAssumption
<1> DEFINE size == req[c].size
           r == <<current_block, size>>
           I == current_block .. (current_block + size - 1)
<1>1. req[c] \in Requests
  BY DEF IInv, Types, LockHolderSearches
<1>2. size \in Sizes /\ size \in Nat /\ size # 0 /\ current_block \in Nat
  <2>1. size \in Sizes BY <1>1 DEF Requests
  <2>2. current_block \in Nat BY BlocksAreNumbers DEF IInv, Types
  <2> QED BY <2>1, <2>2
<1>3. /\ current_block + size <= NBlocks
      /\ I \cap used = {}
      /\ I \subseteq Blocks
  BY <1>2 DEF FreeRun, Blocks
<1>4. BlocksOf(r) = I BY DEF BlocksOf
<1> HIDE DEF I, r, size
<1>5. /\ used' = used \cup I
      /\ n_free' = n_free - size
      /\ current_block' = Wrap(current_block + size)
      /\ regions' = regions \cup {r}
      /\ req' = [req EXCEPT ![c] = NoRequest]
      /\ lock' = NoCaller
      /\ stray' = stray /\ panic' = panic
  BY DEF markUsed, I, r, size
<1>6. Types'
  <2>1. current_block' \in Blocks
    BY <1>2, <1>3, <1>5, WrapInBlocks
  <2>2. r \in Blocks \X Sizes BY <1>2 DEF r, IInv, Types
  <2> QED BY <2>1, <2>2, <1>3, <1>5 DEF IInv, Types
<1>7. LockHolderSearches' BY <1>5 DEF LockHolderSearches
<1>8. \A q \in regions : BlocksOf(q) \cap I = {}
  BY <1>3 DEF IInv, Marked
<1>9. I \cap stray = {} /\ I \cap BitmapItself = {}
  BY <1>3 DEF IInv, Marked
<1>10. Marked'
  <2>1. UNION {BlocksOf(q) : q \in regions'} = (UNION {BlocksOf(q) : q \in regions}) \cup I
    BY <1>4, <1>5
  <2>2. used' = BitmapItself \cup stray' \cup UNION {BlocksOf(q) : q \in regions'}
    BY <2>1, <1>5 DEF IInv, Marked
  <2>3. \A q \in regions' : BlocksOf(q) \cap stray' = {}
    BY <1>4, <1>5, <1>9 DEF IInv, Marked
  <2>4. r[1] + r[2] <= NBlocks BY <1>3 DEF r, size
  <2>5. \A q \in regions' : q[1] + q[2] <= NBlocks
    BY <2>4, <1>5 DEF IInv, Marked
  <2> QED BY <2>2, <2>3, <2>5, <1>5 DEF IInv, Marked
<1>11. NoOverlap'
  BY <1>4, <1>5, <1>8, <1>9 DEF IInv, NoOverlap
<1>12. Counted'
  <2> DEFINE U == used \ stray
  <2>1. U \subseteq Blocks /\ I \cap U = {}
    BY <1>3 DEF IInv, Types
  <2>2. used' \ stray' = U \cup I BY <1>5, <1>9
  <2>3. Cardinality(U) \in Nat /\ Cardinality(U \cup I) = Cardinality(U) + size
    <3> HIDE DEF U
    <3> QED BY <2>1, <1>2, <1>3, CountRun DEF I
  <2>4. n_free = NBlocks - Cardinality(U) BY DEF IInv, Counted
  <2> HIDE DEF U
  <2>5. n_free' = NBlocks - Cardinality(U \cup I)
    BY <2>3, <2>4, <1>2, <1>5
  <2> QED BY <2>2, <2>5 DEF Counted
<1> QED BY <1>5, <1>6, <1>7, <1>10, <1>11, <1>12 DEF IInv

(* What a live region holds is marked, so that jxfree never panics.         *)
LEMMA FreeKeeps ==
    ASSUME IInv, NEW r \in regions, jxfree(r)
    PROVE  IInv'
<1> USE MallocAssumption
<1> DEFINE I == r[1] .. (r[1] + r[2] - 1)
<1>1. r \in Blocks \X Sizes /\ r[1] \in Nat /\ r[2] \in Nat /\ r[1] + r[2] <= NBlocks
  <2>1. r \in Blocks \X Sizes /\ r[1] + r[2] <= NBlocks BY DEF IInv, Types, Marked
  <2>2. r[1] \in Blocks /\ r[2] \in Sizes BY <2>1
  <2>3. r[1] \in Nat BY <2>2, BlocksAreNumbers
  <2>4. r[2] \in Nat BY <2>2
  <2> QED BY <2>1, <2>3, <2>4
<1>2. BlocksOf(r) = I BY DEF BlocksOf
<1> HIDE DEF I
<1>3. I \subseteq used /\ I \cap stray = {} /\ I \cap BitmapItself = {}
  BY <1>2 DEF IInv, Marked, NoOverlap
<1>4. /\ used' = used \ I
      /\ n_free' = n_free + r[2]
      /\ regions' = regions \ {r}
      /\ UNCHANGED <<stray, current_block, req, lock, panic>>
  BY <1>2, <1>3 DEF jxfree
<1>5. Types' BY <1>4 DEF IInv, Types
<1>6. LockHolderSearches' BY <1>4 DEF IInv, LockHolderSearches
<1>7. \A q \in regions' : BlocksOf(q) \cap I = {}
  BY <1>2, <1>4 DEF IInv, NoOverlap
<1>8. Marked'
  <2>1. used' = BitmapItself \cup stray' \cup UNION {BlocksOf(q) : q \in regions'}
    <3> DEFINE A == UNION {BlocksOf(q) : q \in regions}
               B == UNION {BlocksOf(q) : q \in regions'}
    <3>1. A = B \cup I BY <1>2, <1>4
    <3>2. B \cap I = {} BY <1>7
    <3>3. used = BitmapItself \cup stray \cup A BY DEF IInv, Marked
    <3> HIDE DEF A, B
    <3>4. used' = BitmapItself \cup stray' \cup B BY <3>1, <3>2, <3>3, <1>3, <1>4
    <3> QED BY <3>4 DEF B
  <2> QED BY <2>1, <1>4 DEF IInv, Marked
<1>9. NoOverlap' BY <1>4 DEF IInv, NoOverlap
<1>10. Counted'
  <2> DEFINE U == used' \ stray'
  <2>1. U \subseteq Blocks /\ I \cap U = {}
    BY <1>4 DEF IInv, Types
  <2>2. used \ stray = U \cup I BY <1>3, <1>4
  <2>3. Cardinality(U) \in Nat /\ Cardinality(U \cup I) = Cardinality(U) + r[2]
    <3> HIDE DEF U
    <3> QED BY <2>1, <1>1, CountRun DEF I
  <2>4. n_free = NBlocks - Cardinality(U \cup I) BY <2>2 DEF IInv, Counted
  <2> HIDE DEF U
  <2>5. n_free' = NBlocks - Cardinality(U) BY <2>3, <2>4, <1>1, <1>4
  <2> QED BY <2>5 DEF Counted, U
<1> QED BY <1>4, <1>5, <1>6, <1>8, <1>9, <1>10 DEF IInv

(* A request is noted, or its owner gets the lock.                         *)
LEMMA RequestKeeps ==
    ASSUME IInv, NEW c \in Callers,
           \/ \E size \in Sizes, align \in Aligns : jxmalloc_internal(c, size, align)
           \/ LOCK_MALLOC(c)
    PROVE  IInv'
<1>1. ASSUME NEW size \in Sizes, NEW align \in Aligns, jxmalloc_internal(c, size, align)
      PROVE  IInv'
  <2>1. [size |-> size, align |-> align, start |-> current_block] \in Requests
    BY DEF Requests, IInv, Types
  <2>2. /\ req' = [req EXCEPT ![c] = [size |-> size, align |-> align, start |-> current_block]]
        /\ UNCHANGED <<used, stray, n_free, current_block, lock, regions, panic>>
        /\ lock = NoCaller
    BY <1>1 DEF jxmalloc_internal
  <2>3. Types' BY <2>1, <2>2 DEF IInv, Types
  <2>4. LockHolderSearches' BY <2>2 DEF LockHolderSearches
  <2> QED BY <2>2, <2>3, <2>4 DEF IInv, Marked, NoOverlap, Counted
<1>2. CASE LOCK_MALLOC(c)
  BY <1>2, MallocAssumption
  DEF LOCK_MALLOC, IInv, Types, LockHolderSearches, Marked, NoOverlap, Counted
<1> QED BY <1>1, <1>2

(* A round that finds nothing moves the rotating pointer only, or panics.   *)
LEMMA MoveKeeps ==
    ASSUME IInv, NEW b \in Blocks, nextFree(b) \/ OutOfMemory
    PROVE  IInv'
<1> USE MallocAssumption
<1>1. /\ current_block' \in Blocks
      /\ panic' \in Panics \cup {None} /\ panic' # "not marked as used"
      /\ UNCHANGED <<used, stray, n_free, req, lock, regions>>
  <2>1. CASE OutOfMemory
    BY <2>1 DEF OutOfMemory, Out, IInv, Types, Panics
  <2>2. CASE nextFree(b) /\ used # Blocks
    <3>1. PICK k \in 0 .. (NBlocks - 1) : current_block' = Wrap(b + k)
      BY <2>2 DEF nextFree
    <3>2. current_block' \in Blocks BY <3>1, WrapInBlocks, BlocksAreNumbers
    <3> QED BY <2>2, <3>2 DEF nextFree, IInv, Types
  <2> QED BY <2>1, <2>2 DEF nextFree
<1> QED BY <1>1 DEF IInv, Types, LockHolderSearches, Marked, NoOverlap, Counted

(* A round hands the run at the rotating pointer out, or moves on.          *)
LEMMA RoundCases ==
    ASSUME IInv, NEW c \in Callers, SearchRound(c)
    PROVE  /\ lock = c /\ panic = None
           /\ \/ FreeRun(current_block, req[c].size) /\ markUsed(c)
              \/ \E b \in Blocks : nextFree(b) \/ OutOfMemory
  BY DEF SearchRound, IInv, Types

(* Every step of the allocator preserves the invariant.                     *)
THEOREM StepKeeps == IInv /\ [Next]_vars => IInv'
<1> SUFFICES ASSUME IInv, [Next]_vars PROVE IInv' OBVIOUS
<1>1. ASSUME NEW c \in Callers, NEW size \in Sizes, NEW align \in Aligns,
             jxmalloc_internal(c, size, align)
      PROVE  IInv'
  BY <1>1, RequestKeeps
<1>2. ASSUME NEW c \in Callers, LOCK_MALLOC(c) PROVE IInv' BY <1>2, RequestKeeps
<1>3. ASSUME NEW c \in Callers, SearchRound(c) PROVE IInv'
  BY <1>3, RoundCases, MarkKeeps, MoveKeeps
<1>4. ASSUME NEW r \in regions, jxfree(r) PROVE IInv' BY <1>4, FreeKeeps
<1>5. CASE UNCHANGED vars
  BY <1>5 DEF vars, IInv, Types, LockHolderSearches, Marked, NoOverlap, Counted
<1> QED BY <1>1, <1>2, <1>3, <1>4, <1>5 DEF Next

(* The inductive invariant holds in every reachable state.                  *)
THEOREM Invariance == Spec => []IInv
  BY InitHolds, StepKeeps, PTL DEF Spec

(* Every reachable state is well typed; n_free never goes below zero.       *)
THEOREM TypeCorrect == Spec => []TypeOK
<1>1. IInv => TypeOK
  <2> SUFFICES ASSUME IInv PROVE TypeOK OBVIOUS
  <2> DEFINE U == used \ stray
  <2>1. U \subseteq Blocks BY DEF IInv, Types
  <2>2. Cardinality(U) \in Nat /\ Cardinality(U) <= NBlocks
    <3> HIDE DEF U
    <3>1. Cardinality(U \cup (0 .. (0 + 0 - 1))) <= NBlocks
          /\ Cardinality(U) \in Nat
      <4>1. (0 .. (0 + 0 - 1)) \cap U = {} OBVIOUS
      <4> QED BY <2>1, <4>1, CountRun, MallocAssumption
    <3>2. U \cup (0 .. (0 + 0 - 1)) = U OBVIOUS
    <3> QED BY <3>1, <3>2
  <2>3. n_free = NBlocks - Cardinality(U) BY DEF IInv, Counted
  <2> HIDE DEF U
  <2>4. n_free \in 0 .. NBlocks BY <2>2, <2>3, MallocAssumption
  <2> QED BY <2>4 DEF IInv, Types, TypeOK
<1> QED BY <1>1, Invariance, PTL

(* Live regions never overlap each other or the bitmap.                     *)
THEOREM NeverHandedOutTwice == Spec => []NoOverlap
<1>1. IInv => NoOverlap BY DEF IInv
<1> QED BY <1>1, Invariance, PTL

(* No block is lost, n_free is exact and jxfree never panics.               *)
THEOREM AccountingAlwaysExact == Spec => []AccountingExact
<1>1. IInv => AccountingExact BY DEF IInv, Marked, Counted, AccountingExact
<1> QED BY <1>1, Invariance, PTL

-----------------------------------------------------------------------------
(* Why a search does not pass over a run that fits.  A search that began at *)
(* s and now stands at b has seen everything from s to b or, once it has    *)
(* been at the end of the memory, everything from s on and below b; it      *)
(* jumps over blocks at which no run can start.                            *)

OneCaller == \A d, e \in Callers : d = e

Unfit(r) == {b \in Blocks : ~Fits(b, r)}

Swept(N, s, b) ==
    \/ s <= b /\ \A y \in Blocks : s <= y /\ y < b => y \in N
    \/ \A y \in Blocks : s <= y \/ y < b => y \in N

StartIsCurrent ==
    lock = NoCaller => \A c \in Callers :
        req[c] # NoRequest => req[c].start = current_block

SweptSoFar ==
    lock \in Callers /\ panic = None =>
        Swept(Unfit(req[lock]), req[lock].start, current_block)

JInv == IInv /\ StartIsCurrent /\ SweptSoFar /\ OutOfMemoryJustified

(* A failed isFree at p has shown p .. x unfit and leaves the pointer       *)
(* behind x; being back at s means that everything has been seen.           *)
LEMMA SweepOn ==
    ASSUME NEW N, NEW s \in Blocks, NEW p \in Blocks, NEW x \in Blocks, p <= x,
           Swept(N, s, p), \A y \in Blocks : p <= y /\ y <= x => y \in N
    PROVE  /\ Swept(N, s, Wrap(x + 1))
           /\ Wrap(x + 1) = s => \A y \in Blocks : y \in N
  BY MallocAssumption DEF Swept, Wrap, Blocks

(* nextFree jumps over used blocks only.                                   *)
LEMMA SweepJump ==
    ASSUME NEW N, NEW s \in Blocks, NEW p \in Blocks, NEW k \in 0 .. (NBlocks - 1),
           Swept(N, s, p), \A j \in 0 .. (k - 1) : Wrap(p + j) \in N
    PROVE  Swept(N, s, Wrap(p + k))
<1> USE MallocAssumption
<1>1. s \in Nat /\ s < NBlocks /\ p \in Nat /\ p < NBlocks /\ k \in Nat /\ k < NBlocks
  BY BlocksAreNumbers
<1>2. ASSUME NEW y \in Blocks, p <= y, y < p + k PROVE y \in N
  <2>1. y \in Nat /\ y < NBlocks BY BlocksAreNumbers
  <2>2. y - p \in 0 .. (k - 1) /\ p + (y - p) = y BY <1>1, <1>2, <2>1
  <2>3. Wrap(p + (y - p)) \in N BY <2>2
  <2> QED BY <2>1, <2>2, <2>3 DEF Wrap
<1>3. ASSUME NEW y \in Blocks, y + NBlocks < p + k PROVE y \in N
  <2>1. y \in Nat /\ y < NBlocks BY BlocksAreNumbers
  <2>2. (y + NBlocks) - p \in 0 .. (k - 1) /\ p + ((y + NBlocks) - p) = y + NBlocks
    BY <1>1, <1>3, <2>1
  <2>3. Wrap(p + ((y + NBlocks) - p)) \in N BY <2>2
  <2>4. Wrap(y + NBlocks) = y BY <2>1 DEF Wrap
  <2> QED BY <2>2, <2>3, <2>4
<1>4. \A y \in Blocks : y \in Nat /\ y < NBlocks BY BlocksAreNumbers
<1>5. CASE p + k < NBlocks
  <2>1. Wrap(p + k) = p + k BY <1>1, <1>5 DEF Wrap
  <2> QED BY <2>1, <1>1, <1>2, <1>4 DEF Swept
<1>6. CASE p + k >= NBlocks
  <2>1. Wrap(p + k) = (p + k) - NBlocks BY <1>1, <1>6 DEF Wrap
  <2>2. \A y \in Blocks : p <= y => y \in N BY <1>1, <1>2, <1>4, <1>6
  <2>3. \A y \in Blocks : y < (p + k) - NBlocks => y \in N BY <1>1, <1>3, <1>4
  <2> QED BY <2>1, <2>2, <2>3, <1>1, <1>4 DEF Swept
<1> QED BY <1>1, <1>5, <1>6

(* A used block fits nobody, and nor does a start from which the run would  *)
(* contain it.                                                             *)
LEMMA UsedIsUnfit ==
    ASSUME NEW r \in Requests, NEW y \in Blocks, NEW x \in used, x \in Blocks,
           y <= x, x < y + r.size
    PROVE  y \in Unfit(r)
<1>1. r.size \in Nat BY MallocAssumption DEF Requests
<1>2. x \in y .. (y + r.size - 1) BY <1>1, BlocksAreNumbers
<1> QED BY <1>2 DEF Unfit, Fits, FreeRun

(* A failed isFree that leaves the pointer at b: what lay before b cannot   *)
(* hold the request either.                                                *)
LEMMA FailedRoundSweeps ==
    ASSUME NEW r \in Requests, NEW b \in Blocks, used \subseteq Blocks,
           current_block \in Blocks,
           Swept(Unfit(r), r.start, current_block), IsFreeLeaves(r.size, b)
    PROVE  /\ Swept(Unfit(r), r.start, b)
           /\ b = r.start => \A y \in Blocks : y \in Unfit(r)
<1> USE MallocAssumption
<1>1. r.size \in Nat /\ r.size # 0 /\ r.start \in Blocks
  <2>1. r.size \in Sizes /\ r.start \in Blocks BY DEF Requests
  <2> QED BY <2>1
<1>2. current_block \in Nat /\ current_block < NBlocks BY BlocksAreNumbers
<1>3. CASE current_block + r.size > NBlocks /\ b = 0
  <2>1. NBlocks - 1 \in Blocks /\ current_block <= NBlocks - 1 BY <1>2 DEF Blocks
  <2>2. b = Wrap((NBlocks - 1) + 1) BY <1>3 DEF Wrap
  <2>3. ASSUME NEW y \in Blocks, current_block <= y PROVE y \in Unfit(r)
    <3>1. y + r.size > NBlocks BY <1>1, <1>2, <1>3, <2>3, BlocksAreNumbers
    <3>2. ~(y + r.size <= NBlocks) BY <3>1, <1>1, BlocksAreNumbers
    <3> QED BY <3>2 DEF Unfit, Fits, FreeRun
  <2> QED BY <1>1, <2>1, <2>2, <2>3, SweepOn
<1>4. CASE \E x \in current_block .. (current_block + r.size - 1) : x \in used /\ b = Wrap(x + 1)
  <2>1. PICK x \in current_block .. (current_block + r.size - 1) : x \in used /\ b = Wrap(x + 1)
    BY <1>4
  <2>2. x \in Blocks /\ current_block <= x /\ x < current_block + r.size
    BY <2>1, <1>1, <1>2
  <2>3. ASSUME NEW y \in Blocks, current_block <= y, y <= x PROVE y \in Unfit(r)
    <3>1. x < y + r.size BY <1>1, <1>2, <2>2, <2>3, BlocksAreNumbers
    <3> QED BY <2>1, <2>2, <2>3, <3>1, UsedIsUnfit
  <2> QED BY <1>1, <2>1, <2>2, <2>3, SweepOn
<1> QED BY <1>3, <1>4 DEF IsFreeLeaves

(* nextFree sweeps on, and panics only if every block is used.              *)
LEMMA NextFreeSweeps ==
    ASSUME NEW r \in Requests, NEW b \in Blocks, used \subseteq Blocks,
           Swept(Unfit(r), r.start, b), nextFree(b)
    PROVE  \/ used # Blocks /\ Swept(Unfit(r), r.start, current_block')
              /\ UNCHANGED <<used, req, lock, panic>>
           \/ OutOfMemory /\ \A y \in Blocks : y \in Unfit(r)
<1> USE MallocAssumption
<1>1. r.size \in Nat /\ r.size # 0 /\ r.start \in Blocks
  <2>1. r.size \in Sizes /\ r.start \in Blocks BY DEF Requests
  <2> QED BY <2>1
<1>2. ASSUME NEW y \in used PROVE y \in Unfit(r)
  <2>1. y < y + r.size BY <1>1, BlocksAreNumbers
  <2> QED BY <2>1, UsedIsUnfit, BlocksAreNumbers
<1>3. CASE used = Blocks BY <1>2, <1>3 DEF nextFree
<1>4. CASE used # Blocks
  <2>1. PICK k \in 0 .. (NBlocks - 1) :
            /\ \A j \in 0 .. (k - 1) : Wrap(b + j) \in used
            /\ current_block' = Wrap(b + k)
    BY <1>4 DEF nextFree
  <2>2. Swept(Unfit(r), r.start, current_block')
    <3>1. \A j \in 0 .. (k - 1) : Wrap(b + j) \in Unfit(r) BY <1>2, <2>1
    <3> HIDE DEF Unfit
    <3> QED BY <2>1, <3>1, <1>1, SweepJump
  <2> QED BY <1>4, <2>2 DEF nextFree
<1> QED BY <1>3, <1>4

(* The aligned search that finds a run at the wrong address stays there.    *)
LEMMA RoundSweeps ==
    ASSUME OneCaller, JInv, NEW c \in Callers, SearchRound(c)
    PROVE  StartIsCurrent' /\ SweptSoFar' /\ OutOfMemoryJustified'
<1> USE MallocAssumption
<1> DEFINE r == req[c]
<1>1. lock = c /\ panic = None BY DEF SearchRound
<1>2. /\ r \in Requests /\ used \subseteq Blocks /\ current_block \in Blocks
      /\ Swept(Unfit(r), r.start, current_block)
  BY <1>1 DEF JInv, IInv, Types, LockHolderSearches, SweptSoFar
<1>3. r.size \in Nat /\ r.size # 0
  <2>1. r.size \in Sizes BY <1>2 DEF Requests
  <2> QED BY <2>1
<1> HIDE DEF r
<1>4. ASSUME OutOfMemory, \A y \in Blocks : y \in Unfit(r)
      PROVE  StartIsCurrent' /\ SweptSoFar' /\ OutOfMemoryJustified'
  <2>1. panic' # None /\ UNCHANGED <<used, current_block, req, lock>>
    BY <1>4 DEF OutOfMemory, Out, None
  <2>2. \A y \in Blocks : ~Fits(y, req[lock]) BY <1>1, <1>4 DEF Unfit, r
  <2>3. OutOfMemoryJustified'
    BY <2>1, <2>2, <1>1 DEF OutOfMemoryJustified, Fits, FreeRun
  <2> QED BY <2>1, <2>3, <1>1 DEF StartIsCurrent, SweptSoFar
<1>5. ASSUME Swept(Unfit(r), r.start, current_block'), UNCHANGED <<used, req, lock, panic>>
      PROVE  StartIsCurrent' /\ SweptSoFar' /\ OutOfMemoryJustified'
  <2>1. Unfit(req[lock])' = Unfit(r) BY <1>1, <1>5 DEF Unfit, Fits, FreeRun, r
  <2>2. SweptSoFar' BY <2>1, <1>1, <1>5 DEF SweptSoFar, Swept, r
  <2> QED BY <2>2, <1>1, <1>5 DEF StartIsCurrent, OutOfMemoryJustified, None
<1>6. CASE FreeRun(current_block, r.size) /\ Aligned(current_block, r.align)
  <2>1. markUsed(c) BY <1>6, <1>1 DEF SearchRound, r
  <2>2. lock' = NoCaller /\ panic' = None /\ req' = [req EXCEPT ![c] = NoRequest]
    BY <2>1, <1>1 DEF markUsed
  <2>3. StartIsCurrent' BY <2>2 DEF StartIsCurrent, OneCaller, JInv, IInv, Types
  <2> QED BY <2>2, <2>3 DEF SweptSoFar, OutOfMemoryJustified, None
<1>7. CASE FreeRun(current_block, r.size) /\ ~Aligned(current_block, r.align)
  <2>1. nextFree(current_block) BY <1>7, <1>1 DEF SearchRound, r
  <2> QED BY <2>1, <1>2, <1>4, <1>5, NextFreeSweeps
<1>8. CASE ~FreeRun(current_block, r.size) /\ current_block = 0 /\ r.size > NBlocks
  <2>1. OutOfMemory BY <1>8, <1>1 DEF SearchRound, r
  <2>2. ASSUME NEW y \in Blocks PROVE y \in Unfit(r)
    <3>1. ~(y + r.size <= NBlocks) BY <1>3, <1>8, BlocksAreNumbers
    <3> QED BY <3>1 DEF Unfit, Fits, FreeRun
  <2> QED BY <2>1, <2>2, <1>4
<1>9. CASE ~FreeRun(current_block, r.size) /\ ~(current_block = 0 /\ r.size > NBlocks)
  <2>1. PICK b \in Blocks : /\ IsFreeLeaves(r.size, b)
                            /\ IF b = r.start THEN OutOfMemory ELSE nextFree(b)
    BY <1>9, <1>1 DEF SearchRound, r
  <2>2. /\ Swept(Unfit(r), r.start, b)
        /\ b = r.start => \A y \in Blocks : y \in Unfit(r)
    BY <2>1, <1>2, FailedRoundSweeps
  <2>3. CASE b = r.start BY <2>1, <2>2, <2>3, <1>4
  <2>4. CASE b # r.start BY <2>1, <2>2, <2>4, <1>2, <1>4, <1>5, NextFreeSweeps
  <2> QED BY <2>3, <2>4
<1> QED BY <1>6, <1>7, <1>8, <1>9

(* One caller allocates at a time: the kernel says "Out of memory" only if  *)
(* no aligned run of free blocks is as long as the request, whatever the    *)
(* memory looks like and wherever the search began.                        *)
THEOREM OutOfMemoryOnlyIfNothingFits ==
    ASSUME OneCaller PROVE Spec => []OutOfMemoryJustified
<1>1. jxmalloc_init => JInv
  BY InitHolds, MallocAssumption
  DEF jxmalloc_init, JInv, StartIsCurrent, SweptSoFar, OutOfMemoryJustified, None
<1>2. JInv /\ [Next]_vars => JInv'
  <2> SUFFICES ASSUME JInv, [Next]_vars PROVE JInv' OBVIOUS
  <2>1. IInv /\ IInv' BY StepKeeps DEF JInv
  <2>2. ASSUME NEW c \in Callers, NEW size \in Sizes, NEW align \in Aligns,
               jxmalloc_internal(c, size, align)
        PROVE  JInv'
    <3>1. /\ lock = NoCaller /\ panic = None /\ UNCHANGED <<current_block, lock, panic>>
          /\ req' = [req EXCEPT ![c] = [size |-> size, align |-> align, start |-> current_block]]
      BY <2>2 DEF jxmalloc_internal
    <3>2. StartIsCurrent' BY <3>1 DEF StartIsCurrent, OneCaller, JInv, IInv, Types
    <3> QED BY <2>1, <3>1, <3>2, MallocAssumption
            DEF JInv, SweptSoFar, OutOfMemoryJustified, None
  <2>3. ASSUME NEW c \in Callers, LOCK_MALLOC(c) PROVE JInv'
    <3>1. /\ lock = NoCaller /\ req[c] # NoRequest /\ panic' = None /\ lock' = c
          /\ UNCHANGED <<current_block, req>>
      BY <2>3 DEF LOCK_MALLOC
    <3>2. req[c].start = current_block BY <3>1 DEF JInv, StartIsCurrent
    <3>3. current_block \in Nat BY <2>1, BlocksAreNumbers DEF IInv, Types
    <3>4. \A y \in Blocks : ~(current_block <= y /\ y < current_block)
      BY <3>3, BlocksAreNumbers
    <3>5. SweptSoFar'
      <4>1. current_block <= current_block BY <3>3
      <4> QED BY <3>1, <3>2, <3>4, <4>1 DEF SweptSoFar, Swept
    <3>6. StartIsCurrent' BY <3>1, MallocAssumption DEF StartIsCurrent
    <3> QED BY <2>1, <3>1, <3>5, <3>6 DEF JInv, OutOfMemoryJustified, None
  <2>4. ASSUME NEW c \in Callers, SearchRound(c) PROVE JInv'
    BY <2>1, <2>4, RoundSweeps DEF JInv
  <2>5. ASSUME NEW r \in regions, jxfree(r) PROVE JInv'
    <3>1. lock = NoCaller /\ UNCHANGED <<current_block, req, lock>>
          /\ panic' # "out of memory"
      BY <2>5 DEF jxfree, Out, None
    <3> QED BY <2>1, <3>1, MallocAssumption DEF JInv, StartIsCurrent, SweptSoFar, OutOfMemoryJustified
  <2>6. CASE UNCHANGED vars
    BY <2>1, <2>6
    DEF vars, JInv, StartIsCurrent, SweptSoFar, Swept, Unfit, OutOfMemoryJustified, Fits, FreeRun
  <2> QED BY <2>2, <2>3, <2>4, <2>5, <2>6 DEF Next
<1>3. JInv => OutOfMemoryJustified BY DEF JInv
<1> QED BY <1>1, <1>2, <1>3, PTL DEF Spec

-----------------------------------------------------------------------------
(* Memory for descriptors and code (CodeMem)                               *)

Frags == [base : Nat, top : Nat]
Pieces == [dom : CodeDomains, units : SUBSET Nat, code : Nat]
TempMemories == [start : Nat, size : Nat, free : Nat, tables : Seq(SUBSET Nat)]

\* Fragments ss of the domains, of which no two and no temporary memory of ts
\* have a unit in common, and which are filled up to their tops.
SegsTyped(ss) == ss \in [CodeDomains -> Seq(Frags)]
TopRight(f) == f.base <= f.top /\ f.top <= f.base + CodeBytes
SegsApart(ss) ==
    \A d, e \in CodeDomains : \A i \in DOMAIN ss[d], j \in DOMAIN ss[e] :
        d # e \/ i # j => Apart(FragmentArea(ss[d][i]), FragmentArea(ss[e][j]))
SegsFrom(ss, ts) ==
    \A d \in CodeDomains : \A i \in DOMAIN ss[d], k \in DOMAIN ts : Apart(FragmentArea(ss[d][i]), TempArea(ts[k]))
SegsRight(ss, ts) ==
    /\ SegsTyped(ss) /\ SegsApart(ss) /\ SegsFrom(ss, ts)
    /\ \A d \in CodeDomains : \A i \in DOMAIN ss[d] : TopRight(ss[d][i])

\* Pieces rs that have been carved out of the fragments ss.
Below(f) == f.base .. (f.top - 1)
PieceRight(r, ss) ==
    /\ \E i \in DOMAIN ss[r.dom] : r.units \subseteq Below(ss[r.dom][i])
    /\ r.code % IBUFFER = 0
PiecesRight(rs, ss) ==
    /\ rs \in Seq(Pieces)
    /\ \A i \in DOMAIN rs : PieceRight(rs[i], ss)
    /\ \A i, j \in DOMAIN rs : i # j => Apart(rs[i].units, rs[j].units)

\* Temporary memories.
TempFilled(t) == t.start + TEMP <= t.free /\ t.free <= t.start + t.size
TablesRight(t) ==
    \A a \in DOMAIN t.tables :
        /\ t.tables[a] \subseteq (t.start + TEMP) .. (t.free - 1)
        /\ \A b \in DOMAIN t.tables : a # b => Apart(t.tables[a], t.tables[b])
TempsRight(ts) ==
    /\ ts \in Seq(TempMemories)
    /\ \A k \in DOMAIN ts : TempFilled(ts[k]) /\ TablesRight(ts[k])
    /\ \A k, l \in DOMAIN ts : k # l => Apart(TempArea(ts[k]), TempArea(ts[l]))

\* Numbers of shared libraries.
NumbersRight ==
    /\ libIDs \in Seq(Nat) /\ sharedLibID \in Nat
    /\ \A i \in DOMAIN libIDs : libIDs[i] < sharedLibID
    /\ \A i, j \in DOMAIN libIDs : libIDs[i] = libIDs[j] => i = j

CodeInv == SegsRight(segs, temps) /\ PiecesRight(records, segs) /\ TempsRight(temps) /\ NumbersRight

\* A unit lies in one of the blocks under its area.
LEMMA UnitInBlock == ASSUME NEW base \in Nat, NEW size \in Nat, NEW u \in Units(base, size)
                     PROVE  u \div Block \in BlocksUnder(base, size)
<1>1. Block \in Nat \ {0} /\ u \in Nat /\ base <= u /\ u <= base + size - 1 /\ base + size - 1 \in Nat
  BY CodeAssumption DEF Units
<1>2. \A x, y \in Nat : x <= y => x \div Block <= y \div Block /\ x \div Block \in Nat /\ y \div Block \in Nat
  BY <1>1
<1> QED BY <1>1, <1>2 DEF BlocksUnder

\* Areas over different blocks have no unit in common.
LEMMA BlocksApart == ASSUME NEW a \in Nat, NEW m \in Nat, NEW b \in Nat, NEW n \in Nat,
                            BlocksUnder(a, m) \cap BlocksUnder(b, n) = {}
                     PROVE  Apart(Units(a, m), Units(b, n))
<1>1. \A u \in Units(a, m) : u \div Block \in BlocksUnder(a, m)
  BY UnitInBlock
<1>2. \A u \in Units(b, n) : u \div Block \in BlocksUnder(b, n)
  BY UnitInBlock
<1> QED BY <1>1, <1>2 DEF Apart

\* A nonempty set of numbers has a least element.
LEMMA LeastIn == ASSUME NEW S \in SUBSET Nat, S # {} PROVE Min(S) \in S
<1>1. IsWellFoundedOn(OpToRel(<, Nat), Nat)
  BY NatLessThanWellFounded, Zenon
<1>2. PICK m \in S : \A y \in S : <<y, m>> \notin OpToRel(<, Nat)
  BY <1>1, WFMin, Zenon
<1>3. ASSUME NEW y \in S, y < m PROVE FALSE
  <2>1. <<y, m>> \in OpToRel(<, Nat)
    BY <1>3 DEF OpToRel
  <2> QED BY <1>2, <2>1
<1>4. \A y \in S : m <= y
  BY <1>3
<1> QED BY <1>4 DEF Min

\* The blocks under every area are used.
LEMMA AreasUsed == ASSUME NEW ss
                   PROVE  /\ \A d \in CodeDomains : \A i \in DOMAIN ss[d] : BlocksUnder(ss[d][i].base, CodeBytes) \subseteq UsedBlocks(ss)
                          /\ \A k \in DOMAIN temps : BlocksUnder(temps[k].start, temps[k].size) \subseteq UsedBlocks(ss)
<1>1. ASSUME NEW d \in CodeDomains, NEW i \in DOMAIN ss[d] PROVE BlocksUnder(ss[d][i].base, CodeBytes) \subseteq UsedBlocks(ss)
  <2>1. ss[d][i] \in UNION {ToSet(ss[e]) : e \in CodeDomains}
    <3>1. ss[d][i] \in ToSet(ss[d])
      BY DEF ToSet
    <3> QED BY <3>1
  <2> QED BY <2>1 DEF UsedBlocks
<1>2. ASSUME NEW k \in DOMAIN temps PROVE BlocksUnder(temps[k].start, temps[k].size) \subseteq UsedBlocks(ss)
  <2>1. temps[k] \in ToSet(temps)
    BY DEF ToSet
  <2>2. BlocksUnder(temps[k].start, temps[k].size) \in {BlocksUnder(t.start, t.size) : t \in ToSet(temps)}
    BY <2>1
  <2>3. BlocksUnder(temps[k].start, temps[k].size) \subseteq UNION {BlocksUnder(t.start, t.size) : t \in ToSet(temps)}
    BY <2>2
  <2> QED BY <2>3, Zenon DEF UsedBlocks
<1> QED BY <1>1, <1>2

\* What jxmalloc hands out has no unit in common with what is in use.
LEMMA GapIsFree ==
    ASSUME NEW ss, SegsTyped(ss), TempsRight(temps), NEW size \in Nat, Gaps(ss, size) # {}
    PROVE  /\ jxmallocCode(ss, size) \in Nat
           /\ \A d \in CodeDomains : \A i \in DOMAIN ss[d] : Apart(Units(jxmallocCode(ss, size), size), FragmentArea(ss[d][i]))
           /\ \A k \in DOMAIN temps : Apart(Units(jxmallocCode(ss, size), size), TempArea(temps[k]))
<1>1. PICK m : m = Min(Gaps(ss, size))
  OBVIOUS
<1>2. Gaps(ss, size) \in SUBSET Nat
  BY CodeAssumption DEF Gaps
<1>3. m \in Gaps(ss, size)
  BY <1>1, <1>2, LeastIn
<1>4. m \in Nat /\ BlocksUnder(m * Block, size) \cap UsedBlocks(ss) = {}
  BY <1>2, <1>3 DEF Gaps
<1>5. PICK b : b = jxmallocCode(ss, size)
  OBVIOUS
<1>6. b \in Nat /\ b = m * Block /\ CodeBytes \in Nat
  BY <1>1, <1>4, <1>5, CodeAssumption DEF jxmallocCode
<1>7. ASSUME NEW d \in CodeDomains, NEW i \in DOMAIN ss[d] PROVE Apart(Units(b, size), FragmentArea(ss[d][i]))
  <2>1. ss[d] \in Seq(Frags)
    BY DEF SegsTyped
  <2>2. ss[d][i] \in Frags
    BY <2>1
  <2>3. ss[d][i].base \in Nat
    BY <2>2 DEF Frags
  <2>4. BlocksUnder(b, size) \cap BlocksUnder(ss[d][i].base, CodeBytes) = {}
    BY <1>4, <1>6, AreasUsed
  <2> QED BY <1>6, <2>3, <2>4, BlocksApart DEF FragmentArea
<1>8. ASSUME NEW k \in DOMAIN temps PROVE Apart(Units(b, size), TempArea(temps[k]))
  <2>1. temps[k] \in TempMemories
    BY DEF TempsRight
  <2>2. temps[k].start \in Nat /\ temps[k].size \in Nat
    BY <2>1 DEF TempMemories
  <2>3. BlocksUnder(b, size) \cap BlocksUnder(temps[k].start, temps[k].size) = {}
    BY <1>4, <1>6, AreasUsed
  <2> QED BY <1>6, <2>2, <2>3, BlocksApart DEF TempArea
<1> QED BY <1>5, <1>6, <1>7, <1>8

\* The fragments ss are among the fragments tt.
Among(ss, tt) == \A d \in CodeDomains : \A i \in DOMAIN ss[d] : i \in DOMAIN tt[d] /\ tt[d][i] = ss[d][i]

\* Pieces stay where they are when fragments are added.
LEMMA PiecesStay == ASSUME NEW rs, NEW ss, NEW tt, PiecesRight(rs, ss), Among(ss, tt) PROVE PiecesRight(rs, tt)
<1>1. rs \in Seq(Pieces)
  BY DEF PiecesRight
<1>2. ASSUME NEW i \in DOMAIN rs PROVE PieceRight(rs[i], tt)
  <2>1. rs[i] \in Pieces /\ PieceRight(rs[i], ss)
    BY <1>1 DEF PiecesRight
  <2>2. rs[i].dom \in CodeDomains
    BY <2>1 DEF Pieces
  <2> QED BY <2>1, <2>2 DEF PieceRight, Among
<1> QED BY <1>2 DEF PiecesRight

\* A domain gets one more fragment.
LEMMA FragmentAdded ==
    ASSUME NEW ss, SegsRight(ss, temps), TempsRight(temps), NEW d \in CodeDomains, Gaps(ss, CodeBytes) # {},
           NEW tt, tt = [ss EXCEPT ![d] = Append(ss[d], Fragment(ss))]
    PROVE  SegsRight(tt, temps) /\ Among(ss, tt) /\ tt[d] # << >>
<1>1. PICK f, b : f = Fragment(ss) /\ b = jxmallocCode(ss, CodeBytes)
  OBVIOUS
<1>2. /\ b \in Nat /\ \A e \in CodeDomains : \A i \in DOMAIN ss[e] : Apart(Units(b, CodeBytes), FragmentArea(ss[e][i]))
      /\ \A k \in DOMAIN temps : Apart(Units(b, CodeBytes), TempArea(temps[k]))
  BY <1>1, GapIsFree, CodeAssumption DEF SegsRight
<1>3. f = [base |-> b, top |-> b]
  BY <1>1 DEF Fragment
<1>4. f \in Frags /\ f.base = b /\ f.top = b
  BY <1>2, <1>3 DEF Frags
<1>5. TopRight(f)
  BY <1>2, <1>4, CodeAssumption DEF TopRight
<1>6. FragmentArea(f) = Units(b, CodeBytes)
  BY <1>4 DEF FragmentArea
<1>7. ss \in [CodeDomains -> Seq(Frags)]
  BY DEF SegsRight, SegsTyped
<1>8. ss[d] \in Seq(Frags) /\ tt[d] = Append(ss[d], f) /\ \A e \in CodeDomains : e # d => tt[e] = ss[e]
  BY <1>1, <1>7
<1>9. PICK n : n = Len(ss[d]) + 1
  OBVIOUS
<1>10. /\ DOMAIN ss[d] \subseteq DOMAIN tt[d] /\ DOMAIN tt[d] = DOMAIN ss[d] \cup {n} /\ n \notin DOMAIN ss[d]
       /\ tt[d][n] = f /\ (\A i \in DOMAIN ss[d] : tt[d][i] = ss[d][i]) /\ tt[d] \in Seq(Frags) /\ tt[d] # << >>
  <2>1. PICK s : s = ss[d]
    OBVIOUS
  <2>2. s \in Seq(Frags) /\ f \in Frags /\ n = Len(s) + 1
    BY <1>4, <1>8, <1>9, <2>1
  <2>3. DOMAIN Append(s, f) = DOMAIN s \cup {n} /\ n \notin DOMAIN s
    BY <2>2
  <2>4. Append(s, f)[n] = f /\ (\A i \in DOMAIN s : Append(s, f)[i] = s[i]) /\ Append(s, f) \in Seq(Frags) /\ Append(s, f) # << >>
    BY <2>2
  <2> QED BY <1>8, <2>1, <2>3, <2>4
<1>11. SegsTyped(tt)
  BY <1>7, <1>8, <1>10 DEF SegsTyped
<1>12. Among(ss, tt)
  BY <1>8, <1>10 DEF Among
<1>13. ASSUME NEW e \in CodeDomains, NEW i \in DOMAIN tt[e] PROVE (e = d /\ i = n /\ tt[e][i] = f) \/ (i \in DOMAIN ss[e] /\ tt[e][i] = ss[e][i])
  BY <1>8, <1>10
<1>14. \A e \in CodeDomains : \A i \in DOMAIN tt[e] : TopRight(tt[e][i])
  <2> SUFFICES ASSUME NEW e \in CodeDomains, NEW i \in DOMAIN tt[e] PROVE TopRight(tt[e][i])
    OBVIOUS
  <2>1. \A j \in DOMAIN ss[e] : TopRight(ss[e][j])
    BY DEF SegsRight
  <2> QED BY <1>5, <1>13, <2>1
<1>15. SegsFrom(tt, temps)
  <2> SUFFICES ASSUME NEW e \in CodeDomains, NEW i \in DOMAIN tt[e], NEW k \in DOMAIN temps
               PROVE  Apart(FragmentArea(tt[e][i]), TempArea(temps[k]))
    BY DEF SegsFrom
  <2>1. i \in DOMAIN ss[e] => Apart(FragmentArea(ss[e][i]), TempArea(temps[k]))
    BY DEF SegsRight, SegsFrom
  <2> QED BY <1>2, <1>6, <1>13, <2>1
<1>16. SegsApart(tt)
  <2> SUFFICES ASSUME NEW x \in CodeDomains, NEW y \in CodeDomains, NEW i \in DOMAIN tt[x], NEW j \in DOMAIN tt[y],
                      x # y \/ i # j
               PROVE  Apart(FragmentArea(tt[x][i]), FragmentArea(tt[y][j]))
    BY DEF SegsApart
  <2>1. \A v, w : Apart(v, w) => Apart(w, v)
    BY DEF Apart
  <2>2. i \in DOMAIN ss[x] /\ j \in DOMAIN ss[y] => Apart(FragmentArea(ss[x][i]), FragmentArea(ss[y][j]))
    BY DEF SegsRight, SegsApart
  <2>3. CASE i \in DOMAIN ss[x] /\ tt[x][i] = ss[x][i] /\ j \in DOMAIN ss[y] /\ tt[y][j] = ss[y][j]
    BY <2>2, <2>3
  <2>4. CASE x = d /\ i = n /\ tt[x][i] = f /\ j \in DOMAIN ss[y] /\ tt[y][j] = ss[y][j]
    BY <1>2, <1>6, <2>4
  <2>5. CASE y = d /\ j = n /\ tt[y][j] = f /\ i \in DOMAIN ss[x] /\ tt[x][i] = ss[x][i]
    BY <1>2, <1>6, <2>1, <2>5
  <2> QED BY <1>13, <2>3, <2>4, <2>5
<1> QED BY <1>10, <1>11, <1>12, <1>14, <1>15, <1>16 DEF SegsRight

\* What a caller writes to the memory it has asked for.
WritesRight(d, size, rec) ==
    \A a \in Nat : rec[a] \in Pieces /\ rec[a].dom = d /\ rec[a].units \subseteq Units(a, size) /\ rec[a].code % IBUFFER = 0

\* The piece at the top of the last fragment is nobody else's.
LEMMA Carved ==
    ASSUME NEW ss, SegsRight(ss, temps), PiecesRight(records, ss), NEW d \in CodeDomains, ss[d] # << >>,
           NEW size \in Nat, HasRoom(ss[d][Len(ss[d])], size), NEW rec, WritesRight(d, size, rec),
           NEW tt, tt = [ss EXCEPT ![d][Len(ss[d])].top = @ + size],
           NEW rs, rs = Append(records, rec[ss[d][Len(ss[d])].top])
    PROVE  SegsRight(tt, temps) /\ PiecesRight(rs, tt)
<1>1. PICK n, f : n = Len(ss[d]) /\ f = ss[d][n]
  OBVIOUS
<1>2. ss \in [CodeDomains -> Seq(Frags)] /\ ss[d] \in Seq(Frags)
  BY DEF SegsRight, SegsTyped
<1>3. n \in DOMAIN ss[d] /\ f \in Frags
  <2>1. n \in 1..Len(ss[d]) /\ DOMAIN ss[d] = 1..Len(ss[d])
    BY <1>1, <1>2
  <2> QED BY <1>1, <1>2, <2>1
<1>4. f.base \in Nat /\ f.top \in Nat
  BY <1>3 DEF Frags
<1>5. PICK g : g = [f EXCEPT !.top = f.top + size]
  OBVIOUS
<1>6. g \in Frags /\ g.base = f.base /\ g.top = f.top + size
  <2>1. f.top + size \in Nat
    BY <1>4
  <2> QED BY <1>3, <1>5, <2>1 DEF Frags
<1>7. TopRight(f) /\ f.top + size <= f.base + CodeBytes
  BY <1>1, <1>3 DEF SegsRight, HasRoom
<1>8. TopRight(g) /\ FragmentArea(g) = FragmentArea(f)
  BY <1>4, <1>6, <1>7 DEF TopRight, FragmentArea
<1>9. /\ tt \in [CodeDomains -> Seq(Frags)] /\ DOMAIN tt[d] = DOMAIN ss[d] /\ tt[d][n] = g
      /\ \A i \in DOMAIN ss[d] : i # n => tt[d][i] = ss[d][i]
      /\ \A e \in CodeDomains : e # d => tt[e] = ss[e]
  <2>1. tt = [ss EXCEPT ![d] = [ss[d] EXCEPT ![n] = g]]
    BY <1>1, <1>2, <1>3, <1>5
  <2>2. [ss[d] EXCEPT ![n] = g] \in Seq(Frags)
    BY <1>2, <1>3, <1>6
  <2>3. tt[d] = [ss[d] EXCEPT ![n] = g]
    BY <1>2, <2>1
  <2> QED BY <1>2, <1>3, <2>1, <2>2, <2>3
<1>10. ASSUME NEW e \in CodeDomains, NEW i \in DOMAIN tt[e]
       PROVE  /\ i \in DOMAIN ss[e] /\ FragmentArea(tt[e][i]) = FragmentArea(ss[e][i]) /\ TopRight(tt[e][i])
              /\ Below(ss[e][i]) \subseteq Below(tt[e][i])
  <2>1. CASE e = d /\ i = n
    <3>1. Below(f) \subseteq Below(g)
      BY <1>4, <1>6 DEF Below
    <3> QED BY <1>1, <1>3, <1>8, <1>9, <2>1, <3>1
  <2>2. CASE ~(e = d /\ i = n)
    <3>1. i \in DOMAIN ss[e] /\ tt[e][i] = ss[e][i]
      BY <1>9, <2>2
    <3> QED BY <3>1 DEF SegsRight
  <2> QED BY <2>1, <2>2
<1>11. SegsRight(tt, temps)
  <2>1. SegsApart(tt)
    <3> SUFFICES ASSUME NEW x \in CodeDomains, NEW y \in CodeDomains, NEW i \in DOMAIN tt[x], NEW j \in DOMAIN tt[y],
                        x # y \/ i # j
                 PROVE  Apart(FragmentArea(tt[x][i]), FragmentArea(tt[y][j]))
      BY DEF SegsApart
    <3>1. i \in DOMAIN ss[x] /\ FragmentArea(tt[x][i]) = FragmentArea(ss[x][i])
      BY <1>10
    <3>2. j \in DOMAIN ss[y] /\ FragmentArea(tt[y][j]) = FragmentArea(ss[y][j])
      BY <1>10
    <3>3. Apart(FragmentArea(ss[x][i]), FragmentArea(ss[y][j]))
      BY <3>1, <3>2 DEF SegsRight, SegsApart
    <3> QED BY <3>1, <3>2, <3>3
  <2>2. SegsFrom(tt, temps)
    BY <1>10 DEF SegsRight, SegsFrom
  <2> QED BY <1>9, <1>10, <2>1, <2>2 DEF SegsRight, SegsTyped
<1>12. PICK r : r = rec[f.top]
  OBVIOUS
<1>13. r \in Pieces /\ r.dom = d /\ r.units \subseteq Units(f.top, size) /\ r.code % IBUFFER = 0
  BY <1>4, <1>12 DEF WritesRight
<1>14. r.units \subseteq Below(g) /\ r.units \subseteq FragmentArea(f) /\ Apart(r.units, Below(f))
  <2>1. PICK b, t : b = f.base /\ t = f.top
    OBVIOUS
  <2>2. b \in Nat /\ t \in Nat /\ b <= t /\ t + size <= b + CodeBytes /\ CodeBytes \in Nat
    BY <1>4, <1>7, <2>1, CodeAssumption DEF TopRight
  <2>3. Below(g) = b..(t + size - 1) /\ Below(f) = b..(t - 1) /\ FragmentArea(f) = b..(b + CodeBytes - 1)
    <3>1. g.base = b /\ g.top = t + size
      BY <1>6, <2>1
    <3>2. Below(g) = b..(t + size - 1)
      <4>1. PICK u : u = t + size
        OBVIOUS
      <4>2. u \in Nat /\ g.top = u /\ u - 1 = t + size - 1
        BY <2>2, <3>1, <4>1
      <4> QED BY <3>1, <4>2, Zenon DEF Below
    <3>3. Below(f) = b..(t - 1)
      BY <2>1 DEF Below
    <3>4. FragmentArea(f) = b..(b + CodeBytes - 1)
      BY <2>1 DEF FragmentArea, Units
    <3> QED BY <3>2, <3>3, <3>4
  <2>4. r.units \subseteq t..(t + size - 1)
    BY <1>13, <2>1 DEF Units
  <2>5. t..(t + size - 1) \subseteq b..(t + size - 1) /\ t..(t + size - 1) \subseteq b..(b + CodeBytes - 1)
    BY <2>2
  <2>6. (t..(t + size - 1)) \cap (b..(t - 1)) = {}
    BY <2>2
  <2> QED BY <2>3, <2>4, <2>5, <2>6 DEF Apart
<1>15. PieceRight(r, tt)
  BY <1>3, <1>9, <1>13, <1>14 DEF PieceRight
<1>16. ASSUME NEW i \in DOMAIN records
       PROVE  PieceRight(records[i], tt) /\ Apart(records[i].units, r.units)
  <2>1. records[i] \in Pieces /\ PieceRight(records[i], ss)
    BY DEF PiecesRight
  <2>2. PICK e : e = records[i].dom
    OBVIOUS
  <2>3. e \in CodeDomains
    BY <2>1, <2>2 DEF Pieces
  <2>4. PICK j \in DOMAIN ss[e] : records[i].units \subseteq Below(ss[e][j])
    BY <2>1, <2>2 DEF PieceRight
  <2>5. j \in DOMAIN tt[e]
    BY <1>9, <2>3, <2>4
  <2>6. PieceRight(records[i], tt)
    BY <1>10, <2>1, <2>2, <2>3, <2>4, <2>5 DEF PieceRight
  <2>7. CASE e = d /\ j = n
    BY <1>1, <1>14, <2>4, <2>6, <2>7 DEF Apart
  <2>8. CASE ~(e = d /\ j = n)
    <3>1. Apart(FragmentArea(ss[e][j]), FragmentArea(f))
      BY <1>1, <1>3, <2>3, <2>4, <2>8 DEF SegsRight, SegsApart
    <3>2. ss[e][j] \in Frags /\ TopRight(ss[e][j])
      BY <1>2, <2>3, <2>4 DEF SegsRight
    <3>3. ss[e][j].base \in Nat /\ ss[e][j].top \in Nat
      BY <3>2 DEF Frags
    <3>4. Below(ss[e][j]) \subseteq FragmentArea(ss[e][j])
      <4>1. PICK b, t : b = ss[e][j].base /\ t = ss[e][j].top
        OBVIOUS
      <4>2. b \in Nat /\ t \in Nat /\ t <= b + CodeBytes /\ CodeBytes \in Nat
        BY <3>2, <3>3, <4>1, CodeAssumption DEF TopRight
      <4>3. b..(t - 1) \subseteq b..(b + CodeBytes - 1)
        BY <4>2
      <4> QED BY <4>1, <4>3 DEF Below, FragmentArea, Units
    <3> QED BY <1>14, <2>4, <2>6, <3>1, <3>4 DEF Apart
  <2> QED BY <2>7, <2>8
<1>17. records \in Seq(Pieces) /\ rs = Append(records, r) /\ \A i, j \in DOMAIN records : i # j => Apart(records[i].units, records[j].units)
  BY <1>1, <1>12 DEF PiecesRight
<1>18. PICK m : m = Len(records) + 1
  OBVIOUS
<1>19. /\ rs \in Seq(Pieces) /\ DOMAIN rs = DOMAIN records \cup {m} /\ rs[m] = r /\ m \notin DOMAIN records
       /\ \A i \in DOMAIN records : rs[i] = records[i]
  <2>1. Append(records, r) \in Seq(Pieces) /\ DOMAIN Append(records, r) = DOMAIN records \cup {m} /\ m \notin DOMAIN records
    BY <1>13, <1>17, <1>18
  <2>2. Append(records, r)[m] = r /\ \A i \in DOMAIN records : Append(records, r)[i] = records[i]
    BY <1>13, <1>17, <1>18
  <2> QED BY <1>17, <2>1, <2>2
<1>20. \A i \in DOMAIN rs : PieceRight(rs[i], tt)
  BY <1>15, <1>16, <1>19
<1>21. \A i, j \in DOMAIN rs : i # j => Apart(rs[i].units, rs[j].units)
  <2>1. \A v, w : Apart(v, w) => Apart(w, v)
    BY DEF Apart
  <2> QED BY <1>16, <1>17, <1>19, <2>1
<1> QED BY <1>11, <1>19, <1>20, <1>21 DEF PiecesRight

\* malloc_code: the fragments and the pieces stay right, whether it had to take
\* a new fragment or two, or gave up.
LEMMA CodeGiven ==
    ASSUME CodeInv, NEW d \in CodeDomains, NEW size \in Nat, NEW rec, WritesRight(d, size, rec),
           malloc_code(d, size, rec)
    PROVE  SegsRight(segs', temps) /\ PiecesRight(records', segs')
<1>0. SegsRight(segs, temps) /\ PiecesRight(records, segs) /\ TempsRight(temps)
  BY DEF CodeInv
<1> DEFINE s1 == IF segs[d] # << >> THEN segs ELSE [segs EXCEPT ![d] = <<Fragment(segs)>>]
           full == ~HasRoom(Last(s1[d]), size)
           s2 == IF full THEN [s1 EXCEPT ![d] = Append(@, Fragment(s1))] ELSE s1
<1>1. \/ UNCHANGED <<segs, records>>
      \/ /\ ~(segs[d] = << >> /\ Gaps(segs, CodeBytes) = {}) /\ ~(full /\ Gaps(s1, CodeBytes) = {})
         /\ HasRoom(Last(s2[d]), size)
         /\ segs' = [s2 EXCEPT ![d][Len(s2[d])].top = @ + size]
         /\ records' = Append(records, rec[s2[d][Len(s2[d])].top])
  BY DEF malloc_code, Halts
<1>2. PICK ss : ss = s1
  OBVIOUS
<1>3. PICK tt : tt = s2
  OBVIOUS
<1>4. /\ segs[d] # << >> => ss = segs
      /\ segs[d] = << >> => ss = [segs EXCEPT ![d] = <<Fragment(segs)>>]
      /\ ~HasRoom(Last(ss[d]), size) => tt = [ss EXCEPT ![d] = Append(ss[d], Fragment(ss))]
      /\ HasRoom(Last(ss[d]), size) => tt = ss
  BY <1>2, <1>3
<1>5. CASE UNCHANGED <<segs, records>>
  BY <1>0, <1>5
<1>6. CASE /\ ~(segs[d] = << >> /\ Gaps(segs, CodeBytes) = {}) /\ ~(full /\ Gaps(s1, CodeBytes) = {})
           /\ HasRoom(Last(s2[d]), size)
           /\ segs' = [s2 EXCEPT ![d][Len(s2[d])].top = @ + size]
           /\ records' = Append(records, rec[s2[d][Len(s2[d])].top])
  <2>1. /\ segs[d] = << >> => Gaps(segs, CodeBytes) # {}
        /\ ~HasRoom(Last(ss[d]), size) => Gaps(ss, CodeBytes) # {}
        /\ HasRoom(tt[d][Len(tt[d])], size)
        /\ segs' = [tt EXCEPT ![d][Len(tt[d])].top = @ + size]
        /\ records' = Append(records, rec[tt[d][Len(tt[d])].top])
    BY <1>2, <1>3, <1>6 DEF Last
  <2> HIDE DEF s1, full, s2
  <2>2. SegsRight(ss, temps) /\ PiecesRight(records, ss) /\ ss[d] # << >>
    <3>1. CASE segs[d] # << >>
      BY <1>0, <1>4, <3>1
    <3>2. CASE segs[d] = << >>
      <4>1. PICK f : f = Fragment(segs)
        OBVIOUS
      <4>2. Append(segs[d], f) = <<f>>
        BY <3>2
      <4>3. ss = [segs EXCEPT ![d] = Append(segs[d], Fragment(segs))]
        BY <1>4, <3>2, <4>1, <4>2
      <4>4. SegsRight(ss, temps) /\ Among(segs, ss) /\ ss[d] # << >>
        BY <1>0, <2>1, <3>2, <4>3, FragmentAdded
      <4> QED BY <1>0, <4>4, PiecesStay
    <3> QED BY <3>1, <3>2
  <2>3. SegsRight(tt, temps) /\ PiecesRight(records, tt) /\ tt[d] # << >>
    <3>1. CASE HasRoom(Last(ss[d]), size)
      BY <1>4, <2>2, <3>1
    <3>2. CASE ~HasRoom(Last(ss[d]), size)
      <4>1. SegsRight(tt, temps) /\ Among(ss, tt) /\ tt[d] # << >>
        BY <1>0, <1>4, <2>1, <2>2, <3>2, FragmentAdded
      <4> QED BY <2>2, <4>1, PiecesStay
    <3> QED BY <3>1, <3>2
  <2>4. PICK s9, r9 : s9 = segs' /\ r9 = records'
    OBVIOUS
  <2>5. SegsRight(s9, temps) /\ PiecesRight(r9, s9)
    BY <2>1, <2>3, <2>4, Carved
  <2> QED BY <2>4, <2>5
<1> QED BY <1>1, <1>5, <1>6

\* ... so a request that writes only to what it asked for keeps the invariant.
LEMMA RequestRight ==
    ASSUME CodeInv, NEW d \in CodeDomains, NEW size \in Nat, NEW rec, WritesRight(d, size, rec),
           malloc_code(d, size, rec), UNCHANGED <<libIDs, sharedLibID, temps>>
    PROVE  CodeInv'
<1>1. SegsRight(segs', temps) /\ PiecesRight(records', segs')
  BY CodeGiven
<1>2. TempsRight(temps) /\ NumbersRight
  BY DEF CodeInv
<1>3. SegsRight(segs', temps') /\ TempsRight(temps')
  BY <1>1, <1>2
<1>4. NumbersRight'
  BY <1>2 DEF NumbersRight
<1> QED BY <1>1, <1>3, <1>4 DEF CodeInv

\* A record of the right shape.
LEMMA RecordShape == ASSUME NEW d \in CodeDomains, NEW u \in SUBSET Nat, NEW c \in Nat
                     PROVE  LET r == [dom |-> d, units |-> u, code |-> c]
                            IN  r \in Pieces /\ r.dom = d /\ r.units = u /\ r.code = c
BY DEF Pieces

\* Data that is written inside of what was asked for.
WritesAt(d, size, a, r) ==
    r \in Pieces /\ r.dom = d /\ r.units \subseteq Units(a, size) /\ r.code % IBUFFER = 0

\* A record of such data is right.
LEMMA DataRight ==
    ASSUME NEW d \in CodeDomains, NEW size \in Nat, NEW a \in Nat, NEW u, u \subseteq Units(a, size)
    PROVE  WritesAt(d, size, a, Record(d, u))
<1>1. u \in SUBSET Nat
  BY DEF Units
<1>2. 0 % IBUFFER = 0
  BY CodeAssumption
<1> QED BY <1>1, <1>2, RecordShape DEF Record, WritesAt

\* Classes, primitive classes and libraries, with their names.
LEMMA NamedRight == ASSUME CodeInv, NEW d \in CodeDomains, NEW n \in Nat, malloc_named(d, n) PROVE CodeInv'
<1> DEFINE rec == [a \in Nat |-> Record(d, Units(a, DESC) \cup Units(a + DESC, n))]
<1>1. malloc_code(d, DESC + n, rec) /\ UNCHANGED <<libIDs, sharedLibID, temps>> /\ DESC + n \in Nat
  BY DEF malloc_named, Others, DESC
<1>2. ASSUME NEW a \in Nat PROVE WritesAt(d, DESC + n, a, rec[a])
  <2>1. Units(a, DESC) \subseteq Units(a, DESC + n) /\ Units(a + DESC, n) \subseteq Units(a, DESC + n)
    BY DEF Units, DESC
  <2>2. Units(a, DESC) \cup Units(a + DESC, n) \subseteq Units(a, DESC + n)
    BY <2>1
  <2> QED BY <1>1, <2>2, DataRight
<1>3. WritesRight(d, DESC + n, rec)
  BY <1>2 DEF WritesRight, WritesAt
<1> HIDE DEF rec
<1> QED BY <1>1, <1>3, RequestRight

\* Array classes, with their vtables.
LEMMA ArrayClassRight == ASSUME CodeInv, NEW d \in CodeDomains, NEW n \in Nat, malloc_arrayclassdesc(d, n) PROVE CodeInv'
<1> DEFINE w(a) == Units(a, DESC + n) \cup Units((a + DESC + n + 1) - 1, 1) \cup Units(a + DESC + n + 1, VTABLE)
           rec == [a \in Nat |-> LET vtable == a + DESC + n + 1
                                  IN Record(d, Units(a, DESC + n) \cup Units(vtable - 1, 1) \cup Units(vtable, VTABLE))]
           size == DESC + n + VTABLE + 1
<1>1. malloc_code(d, size, rec) /\ UNCHANGED <<libIDs, sharedLibID, temps>> /\ size \in Nat
  BY DEF malloc_arrayclassdesc, Others, DESC, VTABLE
<1>2. ASSUME NEW a \in Nat PROVE WritesAt(d, size, a, rec[a])
  <2>1. /\ Units(a, DESC + n) \subseteq Units(a, size) /\ Units(a + DESC + n + 1, VTABLE) \subseteq Units(a, size)
        /\ Units((a + DESC + n + 1) - 1, 1) \subseteq Units(a, size)
    BY DEF Units, DESC, VTABLE
  <2>2. w(a) \subseteq Units(a, size)
    BY <2>1
  <2>3. rec[a] = Record(d, w(a))
    BY Zenon
  <2> HIDE DEF size, w, rec
  <2> QED BY <1>1, <2>2, <2>3, DataRight
<1>3. WritesRight(d, size, rec)
  BY <1>2 DEF WritesRight, WritesAt
<1> HIDE DEF rec, size
<1> QED BY <1>1, <1>3, RequestRight

\* Memory that is written all over: tables, strings, maps, shared libraries.
LEMMA WholeRight == ASSUME CodeInv, NEW d \in CodeDomains, NEW n \in Nat,
                           malloc_code(d, n, [a \in Nat |-> Record(d, Units(a, n))]),
                           UNCHANGED <<libIDs, sharedLibID, temps>>
                    PROVE  CodeInv'
<1> DEFINE rec == [a \in Nat |-> Record(d, Units(a, n))]
<1>1. ASSUME NEW a \in Nat PROVE WritesAt(d, n, a, rec[a])
  BY DataRight
<1>2. WritesRight(d, n, rec)
  BY <1>1 DEF WritesRight, WritesAt
<1>3. malloc_code(d, n, rec)
  OBVIOUS
<1> HIDE DEF rec
<1> QED BY <1>2, <1>3, RequestRight

\* The address of code is rounded up inside of the larger request.
LEMMA NativeRight == ASSUME CodeInv, NEW d \in CodeDomains, NEW n \in Nat, malloc_nativecode(d, n) PROVE CodeInv'
<1> DEFINE c(a) == ((a + IBUFFER - 1) \div IBUFFER) * IBUFFER
           rec == [a \in Nat |-> LET k == ((a + IBUFFER - 1) \div IBUFFER) * IBUFFER
                                  IN [dom |-> d, units |-> Units(k, n), code |-> k]]
<1>1. malloc_code(d, n + IBUFFER, rec) /\ UNCHANGED <<libIDs, sharedLibID, temps>> /\ n + IBUFFER \in Nat
  BY CodeAssumption DEF malloc_nativecode, Others
<1>2. ASSUME NEW a \in Nat PROVE WritesAt(d, n + IBUFFER, a, rec[a])
  <2>1. PICK k : k = c(a)
    OBVIOUS
  <2>2. IBUFFER \in Nat \ {0}
    BY CodeAssumption
  <2>3. a <= k /\ k < a + IBUFFER /\ k \in Nat
    BY <2>1, <2>2
  <2>4. k % IBUFFER = 0
    <3>1. PICK q : q = (a + IBUFFER - 1) \div IBUFFER
      OBVIOUS
    <3>2. q \in Nat
      BY <2>2, <3>1
    <3>3. (q * IBUFFER) % IBUFFER = 0
      BY <2>2, <3>2
    <3> QED BY <2>1, <3>1, <3>3
  <2>5. Units(k, n) \subseteq Units(a, n + IBUFFER) /\ Units(k, n) \in SUBSET Nat
    BY <2>2, <2>3 DEF Units
  <2>6. rec[a] = [dom |-> d, units |-> Units(k, n), code |-> k]
    BY <2>1
  <2> HIDE DEF rec, c
  <2>7. rec[a] \in Pieces /\ rec[a].dom = d /\ rec[a].units = Units(k, n) /\ rec[a].code = k
    BY <2>3, <2>5, <2>6, RecordShape
  <2> QED BY <2>4, <2>5, <2>7 DEF WritesAt
<1>3. WritesRight(d, n + IBUFFER, rec)
  BY <1>2 DEF WritesRight, WritesAt
<1> HIDE DEF rec, c
<1> QED BY <1>1, <1>3, RequestRight

\* A shared library gets the next number.
LEMMA NumberRight == ASSUME CodeInv, number_sharedlib PROVE CodeInv'
<1>1. /\ libIDs' = Append(libIDs, sharedLibID) /\ sharedLibID' = sharedLibID + 1
      /\ segs' = segs /\ records' = records /\ temps' = temps
  BY DEF number_sharedlib
<1>2. /\ libIDs \in Seq(Nat) /\ sharedLibID \in Nat /\ \A i \in DOMAIN libIDs : libIDs[i] < sharedLibID
      /\ \A i, j \in DOMAIN libIDs : libIDs[i] = libIDs[j] => i = j
  BY DEF CodeInv, NumbersRight
<1>3. PICK n, s : n = sharedLibID /\ s = libIDs
  OBVIOUS
<1>4. Append(s, n) \in Seq(Nat) /\ DOMAIN Append(s, n) = DOMAIN s \cup {Len(s) + 1} /\ Len(s) + 1 \notin DOMAIN s
  BY <1>2, <1>3
<1>5. Append(s, n)[Len(s) + 1] = n /\ \A i \in DOMAIN s : Append(s, n)[i] = s[i]
  BY <1>2, <1>3
<1>6. NumbersRight'
  <2>1. \A i \in DOMAIN Append(s, n) : Append(s, n)[i] < n + 1
    <3> SUFFICES ASSUME NEW i \in DOMAIN Append(s, n) PROVE Append(s, n)[i] < n + 1
      OBVIOUS
    <3>1. CASE i \in DOMAIN s
      <4>1. s[i] \in Nat /\ s[i] < n /\ Append(s, n)[i] = s[i]
        BY <1>2, <1>3, <1>5, <3>1
      <4> QED BY <1>2, <1>3, <4>1
    <3>2. CASE i = Len(s) + 1
      BY <1>2, <1>3, <1>5, <3>2
    <3> QED BY <1>4, <3>1, <3>2
  <2>2. \A i \in DOMAIN s : s[i] # n
    <3> SUFFICES ASSUME NEW i \in DOMAIN s, s[i] = n PROVE FALSE
      OBVIOUS
    <3>1. n \in Nat /\ s[i] < n
      BY <1>2, <1>3
    <3> QED BY <3>1
  <2>3. \A i, j \in DOMAIN Append(s, n) : Append(s, n)[i] = Append(s, n)[j] => i = j
    <3>1. \A i, j \in DOMAIN s : s[i] = s[j] => i = j
      BY <1>2, <1>3
    <3>2. PICK e, t : e = Len(s) + 1 /\ t = Append(s, n)
      OBVIOUS
    <3>3. DOMAIN t = DOMAIN s \cup {e} /\ t[e] = n /\ \A i \in DOMAIN s : t[i] = s[i]
      BY <1>4, <1>5, <3>2
    <3>4. \A i, j \in DOMAIN t : t[i] = t[j] => i = j
      BY <2>2, <3>1, <3>3, Zenon
    <3> QED BY <3>2, <3>4
  <2> QED BY <1>1, <1>2, <1>3, <1>4, <2>1, <2>3 DEF NumbersRight
<1>7. SegsRight(segs, temps) /\ PiecesRight(records, segs) /\ TempsRight(temps)
  BY DEF CodeInv
<1> QED BY <1>1, <1>6, <1>7 DEF CodeInv

\* The temporary memories change, the rest stays.
LEMMA TempsChange == ASSUME CodeInv, TempsRight(temps'), SegsFrom(segs, temps'),
                            UNCHANGED <<segs, records, libIDs, sharedLibID>>
                     PROVE  CodeInv'
<1>1. SegsRight(segs, temps) /\ PiecesRight(records, segs) /\ NumbersRight
  BY DEF CodeInv
<1>2. PICK ts : ts = temps'
  OBVIOUS
<1>3. SegsRight(segs, ts)
  BY <1>1, <1>2 DEF SegsRight
<1>4. NumbersRight'
  BY <1>1 DEF NumbersRight
<1> QED BY <1>1, <1>2, <1>3, <1>4 DEF CodeInv

\* A temporary memory begins with its header.
LEMMA TempRight == ASSUME CodeInv, NEW n \in Nat, jxmalloc_tmp(n) PROVE CodeInv'
<1>0. TempsRight(temps) /\ SegsTyped(segs) /\ temps \in Seq(TempMemories) /\ SegsFrom(segs, temps)
  BY DEF CodeInv, SegsRight, TempsRight
<1>1. PICK size, m : size = ALIGN_NEXT_BLOCK(n + TEMP) /\ m = jxmallocCode(segs, size)
  OBVIOUS
<1>2. size \in Nat /\ TEMP <= size
  <2>1. PICK x : x = n + TEMP
    OBVIOUS
  <2>2. x \in Nat /\ Block \in Nat \ {0} /\ TEMP <= x /\ TEMP \in Nat
    BY <2>1, CodeAssumption DEF TEMP
  <2>3. x <= ((x + Block - 1) \div Block) * Block /\ ((x + Block - 1) \div Block) * Block \in Nat
    BY <2>2
  <2> QED BY <1>1, <2>1, <2>2, <2>3 DEF ALIGN_NEXT_BLOCK
<1>3. CASE UNCHANGED temps
  <2>1. UNCHANGED <<segs, records, libIDs, sharedLibID>>
    BY DEF jxmalloc_tmp
  <2> QED BY <1>0, <1>3, <2>1, TempsChange
<1>4. CASE /\ Gaps(segs, size) # {}
           /\ temps' = Append(temps, [start |-> m, size |-> size, free |-> m + TEMP, tables |-> << >>])
  <2>1. /\ m \in Nat
        /\ \A d \in CodeDomains : \A i \in DOMAIN segs[d] : Apart(Units(m, size), FragmentArea(segs[d][i]))
        /\ \A k \in DOMAIN temps : Apart(Units(m, size), TempArea(temps[k]))
    BY <1>0, <1>1, <1>2, <1>4, GapIsFree
  <2>2. PICK t : t = [start |-> m, size |-> size, free |-> m + TEMP, tables |-> << >>]
    OBVIOUS
  <2>3. t \in TempMemories /\ t.start = m /\ t.size = size /\ t.free = m + TEMP /\ t.tables = << >>
    <3>1. m + TEMP \in Nat
      BY <2>1 DEF TEMP
    <3> QED BY <1>2, <2>1, <2>2, <3>1 DEF TempMemories
  <2>4. TempFilled(t)
    BY <1>2, <2>1, <2>3 DEF TempFilled, TEMP
  <2>5. TablesRight(t)
    <3>1. DOMAIN t.tables = {}
      BY <2>3
    <3> QED BY <3>1 DEF TablesRight
  <2>6. TempArea(t) = Units(m, size)
    BY <2>3 DEF TempArea
  <2>7. PICK k : k = Len(temps) + 1
    OBVIOUS
  <2>8. /\ temps' \in Seq(TempMemories) /\ DOMAIN temps' = DOMAIN temps \cup {k} /\ k \notin DOMAIN temps
        /\ temps'[k] = t /\ \A j \in DOMAIN temps : temps'[j] = temps[j]
    <3>1. temps' = Append(temps, t)
      BY <1>4, <2>2
    <3>2. Append(temps, t) \in Seq(TempMemories) /\ DOMAIN Append(temps, t) = DOMAIN temps \cup {k} /\ k \notin DOMAIN temps
      BY <1>0, <2>3, <2>7
    <3>3. Append(temps, t)[k] = t /\ \A j \in DOMAIN temps : Append(temps, t)[j] = temps[j]
      BY <1>0, <2>3, <2>7
    <3> QED BY <3>1, <3>2, <3>3
  <2>9. \A v, w : Apart(v, w) => Apart(w, v)
    BY DEF Apart
  <2>10. TempsRight(temps')
    <3>1. \A j \in DOMAIN temps' : TempFilled(temps'[j]) /\ TablesRight(temps'[j])
      BY <1>0, <2>4, <2>5, <2>8 DEF TempsRight
    <3>2. \A j, l \in DOMAIN temps' : j # l => Apart(TempArea(temps'[j]), TempArea(temps'[l]))
      BY <1>0, <2>1, <2>6, <2>8, <2>9 DEF TempsRight
    <3> QED BY <2>8, <3>1, <3>2 DEF TempsRight
  <2>11. SegsFrom(segs, temps')
    <3> SUFFICES ASSUME NEW d \in CodeDomains, NEW i \in DOMAIN segs[d], NEW j \in DOMAIN temps'
                 PROVE  Apart(FragmentArea(segs[d][i]), TempArea(temps'[j]))
      BY DEF SegsFrom
    <3>1. j \in DOMAIN temps => Apart(FragmentArea(segs[d][i]), TempArea(temps[j]))
      BY <1>0 DEF SegsFrom
    <3> QED BY <2>1, <2>6, <2>8, <2>9, <3>1
  <2>12. UNCHANGED <<segs, records, libIDs, sharedLibID>>
    BY DEF jxmalloc_tmp
  <2> QED BY <2>10, <2>11, <2>12, TempsChange
<1> QED BY <1>1, <1>3, <1>4 DEF jxmalloc_tmp

\* A string table takes the next units of its temporary memory.
LEMMA StringTableRight == ASSUME CodeInv, NEW k, NEW n \in Nat, malloc_tmp_stringtable(k, n) PROVE CodeInv'
<1>0. /\ TempsRight(temps) /\ temps \in Seq(TempMemories) /\ SegsFrom(segs, temps) /\ k \in DOMAIN temps
      /\ UNCHANGED <<segs, records, libIDs, sharedLibID>>
  BY DEF CodeInv, SegsRight, TempsRight, malloc_tmp_stringtable
<1>1. CASE UNCHANGED temps
  BY <1>0, <1>1, TempsChange
<1>2. PICK t, m, s, z : t = temps[k] /\ m = t.free /\ s = t.start /\ z = t.size
  OBVIOUS
<1>3. CASE /\ ~(m + 4 * n > s + z)
           /\ temps' = [temps EXCEPT ![k].free = m + 4 * n, ![k].tables = Append(@, Units(m, 4 * n))]
  <2>1. t \in TempMemories /\ TempFilled(t) /\ TablesRight(t)
    BY <1>0, <1>2 DEF TempsRight
  <2>2. m \in Nat /\ s \in Nat /\ z \in Nat /\ t.tables \in Seq(SUBSET Nat)
    BY <1>2, <2>1 DEF TempMemories
  <2>3. s + TEMP <= m /\ TEMP \in Nat /\ 4 * n \in Nat
    BY <1>2, <2>1 DEF TempFilled, TEMP
  <2>4. PICK q, a : q = 4 * n /\ a = Units(m, q)
    OBVIOUS
  <2>5. m + q <= s + z /\ q \in Nat /\ m + q \in Nat /\ a = m..(m + q - 1) /\ a \in SUBSET Nat
    <3>1. m + q <= s + z /\ q \in Nat /\ m + q \in Nat
      BY <1>3, <2>2, <2>3, <2>4
    <3>2. a = m..(m + q - 1)
      BY <2>4 DEF Units
    <3> QED BY <2>2, <3>1, <3>2
  <2>6. PICK u : u = [t EXCEPT !.free = m + q, !.tables = Append(t.tables, a)]
    OBVIOUS
  <2>7. Append(t.tables, a) \in Seq(SUBSET Nat)
    BY <2>2, <2>5
  <2>8. u \in TempMemories /\ u.start = s /\ u.size = z /\ u.free = m + q /\ u.tables = Append(t.tables, a)
    BY <1>2, <2>1, <2>5, <2>6, <2>7 DEF TempMemories
  <2>9. temps' = [temps EXCEPT ![k] = u]
    BY <1>0, <1>2, <1>3, <2>4, <2>6
  <2>10. /\ temps' \in Seq(TempMemories) /\ DOMAIN temps' = DOMAIN temps /\ temps'[k] = u
         /\ \A j \in DOMAIN temps : j # k => temps'[j] = temps[j]
    BY <1>0, <2>8, <2>9
  <2>11. TempFilled(u)
    BY <2>2, <2>3, <2>5, <2>8 DEF TempFilled
  <2>12. TempArea(u) = TempArea(t)
    BY <1>2, <2>8 DEF TempArea
  <2>13. PICK e : e = Len(t.tables) + 1
    OBVIOUS
  <2>14. /\ DOMAIN u.tables = DOMAIN t.tables \cup {e} /\ e \notin DOMAIN t.tables /\ u.tables[e] = a
         /\ \A x \in DOMAIN t.tables : u.tables[x] = t.tables[x]
    <3>1. PICK w : w = t.tables
      OBVIOUS
    <3>2. DOMAIN Append(w, a) = DOMAIN w \cup {e} /\ e \notin DOMAIN w
      BY <2>2, <2>5, <2>13, <3>1
    <3>3. Append(w, a)[e] = a /\ \A x \in DOMAIN w : Append(w, a)[x] = w[x]
      BY <2>2, <2>5, <2>13, <3>1
    <3> QED BY <2>8, <3>1, <3>2, <3>3
  <2>15. ASSUME NEW x \in DOMAIN t.tables
         PROVE  t.tables[x] \subseteq (s + TEMP)..(m + q - 1) /\ Apart(t.tables[x], a)
    <3>1. t.tables[x] \subseteq (s + TEMP)..(m - 1)
      BY <1>2, <2>1 DEF TablesRight
    <3>2. (s + TEMP)..(m - 1) \subseteq (s + TEMP)..(m + q - 1) /\ ((s + TEMP)..(m - 1)) \cap (m..(m + q - 1)) = {}
      BY <2>2, <2>3, <2>5
    <3> QED BY <2>5, <3>1, <3>2 DEF Apart
  <2>16. a \subseteq (s + TEMP)..(m + q - 1)
    BY <2>2, <2>3, <2>5
  <2>17. TablesRight(u)
    <3>1. ASSUME NEW x \in DOMAIN u.tables
          PROVE  /\ u.tables[x] \subseteq (s + TEMP)..(m + q - 1)
                 /\ \A y \in DOMAIN u.tables : x # y => Apart(u.tables[x], u.tables[y])
      <4>1. u.tables[x] \subseteq (s + TEMP)..(m + q - 1)
        BY <2>14, <2>15, <2>16
      <4>2. \A v, w : Apart(v, w) => Apart(w, v)
        BY DEF Apart
      <4>3. \A y, w \in DOMAIN t.tables : y # w => Apart(t.tables[y], t.tables[w])
        BY <2>1 DEF TablesRight
      <4> QED BY <2>14, <2>15, <4>1, <4>2, <4>3
    <3>2. \A x \in DOMAIN u.tables : u.tables[x] \subseteq (u.start + TEMP)..(u.free - 1)
      <4>1. PICK p : p = m + q
        OBVIOUS
      <4>2. (u.start + TEMP)..(u.free - 1) = (s + TEMP)..(m + q - 1)
        <5>1. p - 1 = m + q - 1
          BY <2>2, <2>5, <4>1
        <5> QED BY <2>8, <4>1, <5>1, Zenon
      <4> QED BY <3>1, <4>2
    <3> QED BY <3>1, <3>2 DEF TablesRight
  <2>18. TempsRight(temps')
    <3>1. \A j \in DOMAIN temps' : TempFilled(temps'[j]) /\ TablesRight(temps'[j])
      BY <1>0, <2>10, <2>11, <2>17 DEF TempsRight
    <3>2. \A j \in DOMAIN temps : TempArea(temps'[j]) = TempArea(temps[j])
      BY <1>2, <2>10, <2>12
    <3>3. \A j, l \in DOMAIN temps' : j # l => Apart(TempArea(temps'[j]), TempArea(temps'[l]))
      BY <1>0, <2>10, <3>2 DEF TempsRight
    <3> QED BY <2>10, <3>1, <3>3 DEF TempsRight
  <2>19. SegsFrom(segs, temps')
    <3>1. \A j \in DOMAIN temps : TempArea(temps'[j]) = TempArea(temps[j])
      BY <1>2, <2>10, <2>12
    <3> QED BY <1>0, <2>10, <3>1 DEF SegsFrom
  <2> QED BY <1>0, <2>18, <2>19, TempsChange
<1> QED BY <1>1, <1>2, <1>3 DEF malloc_tmp_stringtable

\* A temporary memory is given back.
LEMMA TempFreed == ASSUME CodeInv, NEW k, jxfree_tmp(k) PROVE CodeInv'
<1>0. /\ TempsRight(temps) /\ temps \in Seq(TempMemories) /\ SegsFrom(segs, temps) /\ k \in DOMAIN temps
      /\ UNCHANGED <<segs, records, libIDs, sharedLibID>> /\ temps' = RemoveAt(temps, k)
  BY DEF CodeInv, SegsRight, TempsRight, jxfree_tmp
<1>1. PICK s : s = temps
  OBVIOUS
<1>2. s \in Seq(TempMemories) /\ k \in 1..Len(s) /\ Len(s) \in Nat
  BY <1>0, <1>1
<1>3. PICK a, b : a = SubSeq(s, 1, k - 1) /\ b = SubSeq(s, k + 1, Len(s))
  OBVIOUS
<1>4. a \in Seq(TempMemories) /\ Len(a) = k - 1 /\ \A j \in 1..(k - 1) : a[j] = s[j]
  BY <1>2, <1>3
<1>5. b \in Seq(TempMemories) /\ Len(b) = Len(s) - k /\ \A j \in 1..(Len(s) - k) : b[j] = s[k + j]
  BY <1>2, <1>3
<1>6. temps' = a \o b /\ temps' \in Seq(TempMemories) /\ Len(temps') = Len(s) - 1
  <2>1. temps' = a \o b
    BY <1>0, <1>1, <1>3 DEF RemoveAt
  <2>2. a \o b \in Seq(TempMemories) /\ Len(a \o b) = Len(a) + Len(b)
    BY <1>4, <1>5
  <2>3. Len(a) + Len(b) = Len(s) - 1
    BY <1>2, <1>4, <1>5
  <2> QED BY <2>1, <2>2, <2>3
<1>7. PICK f : f = [j \in DOMAIN temps' |-> IF j < k THEN j ELSE j + 1]
  OBVIOUS
<1>8. DOMAIN temps' = 1..(Len(s) - 1)
  BY <1>6
<1>9. ASSUME NEW j \in DOMAIN temps' PROVE f[j] \in DOMAIN temps /\ temps'[j] = temps[f[j]]
  <2>1. CASE j < k
    <3>1. (a \o b)[j] = a[j]
      BY <1>2, <1>4, <1>5, <1>8, <2>1
    <3> QED BY <1>1, <1>2, <1>4, <1>6, <1>7, <1>8, <2>1, <3>1
  <2>2. CASE ~(j < k)
    <3>1. j - (k - 1) \in 1..(Len(s) - k) /\ k + (j - (k - 1)) = j + 1 /\ j \in Nat
      BY <1>2, <1>8, <2>2
    <3>2. (a \o b)[j] = b[j - (k - 1)]
      BY <1>2, <1>4, <1>5, <1>8, <2>2
    <3>3. f[j] = j + 1 /\ j + 1 \in 1..Len(s)
      BY <1>2, <1>7, <1>8, <2>2
    <3>4. b[j - (k - 1)] = s[j + 1]
      <4>1. PICK i \in 1..(Len(s) - k) : i = j - (k - 1) /\ k + i = j + 1
        BY <3>1
      <4>2. b[i] = s[k + i]
        BY <1>5
      <4> QED BY <4>1, <4>2
    <3>5. temps'[j] = temps[j + 1]
      BY <1>1, <1>6, <3>2, <3>4
    <3>6. DOMAIN temps = 1..Len(s)
      BY <1>1, <1>2
    <3> QED BY <3>3, <3>5, <3>6
  <2> QED BY <2>1, <2>2
<1>10. \A j, l \in DOMAIN temps' : j # l => f[j] # f[l]
  BY <1>2, <1>7, <1>8
<1>11. TempsRight(temps')
  <2>1. \A j \in DOMAIN temps' : TempFilled(temps'[j]) /\ TablesRight(temps'[j])
    BY <1>0, <1>9 DEF TempsRight
  <2>2. ASSUME NEW j \in DOMAIN temps', NEW l \in DOMAIN temps', j # l
        PROVE  Apart(TempArea(temps'[j]), TempArea(temps'[l]))
    <3>1. f[j] \in DOMAIN temps /\ f[l] \in DOMAIN temps /\ f[j] # f[l] /\ temps'[j] = temps[f[j]] /\ temps'[l] = temps[f[l]]
      BY <1>9, <1>10, <2>2
    <3>2. Apart(TempArea(temps[f[j]]), TempArea(temps[f[l]]))
      BY <1>0, <3>1 DEF TempsRight
    <3> QED BY <3>1, <3>2
  <2> QED BY <1>6, <2>1, <2>2 DEF TempsRight
<1>12. SegsFrom(segs, temps')
  BY <1>0, <1>9 DEF SegsFrom
<1> QED BY <1>0, <1>11, <1>12, TempsChange

\* Nothing has been given out at first.
LEMMA CodeStarts == CodeInit => CodeInv
<1> SUFFICES ASSUME CodeInit PROVE CodeInv
  OBVIOUS
<1>1. /\ segs = [d \in CodeDomains |-> << >>] /\ records = << >> /\ temps = << >> /\ libIDs = << >> /\ sharedLibID = 1
  BY DEF CodeInit
<1>2. \A d \in CodeDomains : segs[d] = << >> /\ DOMAIN segs[d] = {}
  BY <1>1
<1>3. segs \in [CodeDomains -> Seq(Frags)]
  BY <1>1
<1>4. SegsRight(segs, temps)
  BY <1>2, <1>3 DEF SegsRight, SegsTyped, SegsApart, SegsFrom
<1>5. DOMAIN records = {} /\ DOMAIN temps = {} /\ DOMAIN libIDs = {}
  BY <1>1
<1>6. PiecesRight(records, segs) /\ TempsRight(temps) /\ NumbersRight
  BY <1>1, <1>5 DEF PiecesRight, TempsRight, NumbersRight
<1> QED BY <1>4, <1>6 DEF CodeInv

\* Every request keeps the invariant.
LEMMA CodeStep == ASSUME CodeInv, [CodeNext]_codeVars PROVE CodeInv'
<1>0. "d0" \in CodeDomains /\ \A n \in Lengths : n \in Nat /\ n + 1 \in Nat /\ n * DESC \in Nat /\ DESC + n \in Nat
  BY CodeAssumption DEF DESC
<1>1. ASSUME NEW d \in CodeDomains, NEW n \in Lengths,
             malloc_string(d, n) \/ malloc_table(d, n, DESC) \/ malloc_sharedlibdesc(d, n)
      PROVE  CodeInv'
  <2>1. malloc_string(d, n) => CodeInv'
    BY <1>0, WholeRight DEF malloc_string, malloc_bytes, Others
  <2>2. malloc_table(d, n, DESC) => CodeInv'
    BY <1>0, WholeRight DEF malloc_table, Others
  <2>3. malloc_sharedlibdesc(d, n) => CodeInv'
    BY <1>0, WholeRight DEF malloc_sharedlibdesc
  <2> QED BY <1>1, <2>1, <2>2, <2>3
<1>2. ASSUME NEW d \in CodeDomains, NEW n \in Lengths,
             malloc_named(d, n) \/ malloc_arrayclassdesc(d, n) \/ malloc_nativecode(d, n)
      PROVE  CodeInv'
  BY <1>0, <1>2, NamedRight, ArrayClassRight, NativeRight
<1>3. ASSUME NEW n \in Lengths, malloc_domainzero_namevalue(n) \/ jxmalloc_tmp(n) PROVE CodeInv'
  BY <1>0, <1>3, NamedRight, TempRight DEF malloc_domainzero_namevalue
<1>4. ASSUME NEW i \in DOMAIN temps, jxfree_tmp(i) \/ \E n \in Lengths : malloc_tmp_stringtable(i, n) PROVE CodeInv'
  BY <1>0, <1>4, TempFreed, StringTableRight
<1>5. ASSUME UNCHANGED codeVars PROVE CodeInv'
  BY <1>5 DEF codeVars, CodeInv, NumbersRight
<1> QED BY <1>1, <1>2, <1>3, <1>4, <1>5, NumberRight DEF CodeNext

\* In a state of the invariant nobody writes to what another owns.
LEMMA CodeEnough == CodeInv => CodeMemorySound
<1> SUFFICES ASSUME CodeInv PROVE CodeMemorySound
  OBVIOUS
<1>1. SegsRight(segs, temps) /\ PiecesRight(records, segs) /\ TempsRight(temps) /\ NumbersRight
  BY DEF CodeInv
<1>2. ASSUME NEW i \in DOMAIN records
      PROVE  /\ \E f \in ToSet(segs[records[i].dom]) : records[i].units \subseteq FragmentArea(f)
             /\ records[i].code % IBUFFER = 0
             /\ \A k \in DOMAIN temps : Apart(records[i].units, TempArea(temps[k]))
  <2>1. records[i] \in Pieces /\ PieceRight(records[i], segs)
    BY <1>1 DEF PiecesRight
  <2>2. PICK d : d = records[i].dom
    OBVIOUS
  <2>3. d \in CodeDomains
    BY <2>1, <2>2 DEF Pieces
  <2>4. PICK j \in DOMAIN segs[d] : records[i].units \subseteq Below(segs[d][j])
    BY <2>1, <2>2 DEF PieceRight
  <2>5. segs[d] \in Seq(Frags) /\ TopRight(segs[d][j])
    BY <1>1, <2>3 DEF SegsRight, SegsTyped
  <2>6. segs[d][j] \in Frags
    BY <2>5
  <2>7. PICK b, t : b = segs[d][j].base /\ t = segs[d][j].top
    OBVIOUS
  <2>8. b \in Nat /\ t \in Nat
    BY <2>6, <2>7 DEF Frags
  <2>9. t <= b + CodeBytes /\ CodeBytes \in Nat
    BY <2>5, <2>7, CodeAssumption DEF TopRight
  <2>10. b..(t - 1) \subseteq b..(b + CodeBytes - 1)
    BY <2>8, <2>9
  <2>11. records[i].units \subseteq FragmentArea(segs[d][j])
    BY <2>4, <2>7, <2>10 DEF Below, FragmentArea, Units
  <2>12. segs[d][j] \in ToSet(segs[d])
    BY DEF ToSet
  <2>13. \A k \in DOMAIN temps : Apart(FragmentArea(segs[d][j]), TempArea(temps[k]))
    BY <1>1, <2>3 DEF SegsRight, SegsFrom
  <2>14. \A k \in DOMAIN temps : Apart(records[i].units, TempArea(temps[k]))
    BY <2>11, <2>13 DEF Apart
  <2> QED BY <2>1, <2>2, <2>11, <2>12, <2>14 DEF PieceRight
<1>3. \A i, j \in DOMAIN records : i # j => Apart(records[i].units, records[j].units)
  BY <1>1 DEF PiecesRight
<1>4. \A k, l \in DOMAIN temps : k # l => Apart(TempArea(temps[k]), TempArea(temps[l]))
  BY <1>1 DEF TempsRight
<1>5. ASSUME NEW k \in DOMAIN temps, NEW a \in DOMAIN temps[k].tables
      PROVE  /\ temps[k].tables[a] \subseteq TempArea(temps[k]) \ Units(temps[k].start, TEMP)
             /\ \A b \in DOMAIN temps[k].tables : a # b => Apart(temps[k].tables[a], temps[k].tables[b])
  <2>1. temps[k] \in TempMemories /\ TempFilled(temps[k]) /\ TablesRight(temps[k])
    BY <1>1 DEF TempsRight
  <2>2. PICK s, z, f : s = temps[k].start /\ z = temps[k].size /\ f = temps[k].free
    OBVIOUS
  <2>3. s \in Nat /\ z \in Nat /\ f \in Nat
    BY <2>1, <2>2 DEF TempMemories
  <2>4. f <= s + z
    BY <2>1, <2>2 DEF TempFilled
  <2>5. temps[k].tables[a] \subseteq (s + TEMP)..(f - 1)
    BY <2>1, <2>2 DEF TablesRight
  <2>6. (s + TEMP)..(f - 1) \subseteq (s..(s + z - 1)) \ (s..(s + TEMP - 1))
    BY <2>3, <2>4 DEF TEMP
  <2>7. TempArea(temps[k]) = s..(s + z - 1) /\ Units(temps[k].start, TEMP) = s..(s + TEMP - 1)
    BY <2>2 DEF TempArea, Units
  <2> QED BY <2>1, <2>5, <2>6, <2>7 DEF TablesRight
<1>6. IsInjective(libIDs)
  BY <1>1 DEF NumbersRight, IsInjective
<1> QED BY <1>2, <1>3, <1>4, <1>5, <1>6 DEF CodeMemorySound

\* No request for a descriptor, table, name, string or code writes to what was
\* given to another, in whichever fragment it lands, whatever domains,
\* temporary memories and sizes there are (malloc.c 568-857).
THEOREM CodeMemoryAlwaysSound == CodeSpec => []CodeMemorySound
<1>1. CodeSpec => []CodeInv
  BY CodeStarts, CodeStep, PTL DEF CodeSpec
<1> QED BY <1>1, CodeEnough, PTL

(***************************************************************************)
(* Sums.  The fold takes the elements of a set in the order of CHOOSE; what  *)
(* it returns does not depend on it.                                       *)
(***************************************************************************)

Pick(s) == CHOOSE x \in s : TRUE
Rest(s) == s \ {Pick(s)}

\* t sums the values of f over each of the sets U, as the fold does.
Sums(t, f, U) == t = [s \in U |-> IF s = {} THEN 0 ELSE f[Pick(s)] + t[Rest(s)]]
Tab(f) == CHOOSE t : Sums(t, f, SUBSET DOMAIN f)

\* What SumFunction is.
LEMMA SumIsFold == ASSUME NEW f PROVE SumFunction(f) = Tab(f)[DOMAIN f]
BY DEF SumFunction, SumFunctionOnSet, FoldFunctionOnSet, MapThenFoldSet, Sums, Tab, Pick, Rest

\* Taking an element away.
LEMMA RestSmaller == ASSUME NEW S, IsFiniteSet(S), NEW s \in SUBSET S, NEW y \in s
                     PROVE  /\ IsFiniteSet(s) /\ s \ {y} \in SUBSET S /\ Cardinality(s) \in Nat
                            /\ Cardinality(s \ {y}) \in Nat /\ Cardinality(s \ {y}) < Cardinality(s)
<1>1. IsFiniteSet(s)
  BY FS_Subset
<1>2. IsFiniteSet(s \ {y}) /\ Cardinality(s \ {y}) = Cardinality(s) - 1
  BY <1>1, FS_RemoveElement
<1>3. Cardinality(s) \in Nat /\ Cardinality(s \ {y}) \in Nat
  BY <1>1, <1>2, FS_CardinalityType
<1> QED BY <1>1, <1>2, <1>3

\* The element the fold takes.
LEMMA PickIn == ASSUME NEW s, s # {} PROVE Pick(s) \in s
BY DEF Pick

\* A set of numbers has a least one.
LEMMA LeastOf ==
    ASSUME NEW S \in SUBSET Nat, S # {}
    PROVE  \E m \in S : \A y \in S : m <= y
<1>1. IsWellFoundedOn(OpToRel(<, Nat), Nat)
  BY NatLessThanWellFounded, Zenon
<1>2. PICK m \in S : \A y \in S : <<y, m>> \notin OpToRel(<, Nat)
  BY <1>1, WFMin, Zenon
<1>3. ASSUME NEW y \in S, y < m PROVE FALSE
  <2>1. <<y, m>> \in OpToRel(<, Nat)
    BY <1>3 DEF OpToRel
  <2> QED BY <1>2, <2>1
<1> QED BY <1>3

\* Among sets of subsets of a finite set there is a smallest one.
LEMMA Smallest == ASSUME NEW S, IsFiniteSet(S), NEW B \in SUBSET (SUBSET S), B # {}
                  PROVE  \E s \in B : \A r \in B : Cardinality(s) <= Cardinality(r)
<1> DEFINE N == {Cardinality(s) : s \in B}
<1>1. \A s \in B : Cardinality(s) \in Nat
  BY FS_Subset, FS_CardinalityType
<1>2. N \in SUBSET Nat /\ N # {}
  BY <1>1
<1>3. PICK m \in N : \A y \in N : m <= y
  BY <1>2, LeastOf
<1> QED BY <1>3

\* The sums of sets up to a size.
UpTo(S, k) == {s \in SUBSET S : Cardinality(s) <= k}

\* There is such a table.
LEMMA SumsUpTo == ASSUME NEW S, IsFiniteSet(S), NEW f, NEW k \in Nat
                  PROVE  \E t : Sums(t, f, UpTo(S, k))
<1> DEFINE Bad == {n \in Nat : ~\E t : Sums(t, f, UpTo(S, n))}
<1>1. SUFFICES ASSUME Bad # {} PROVE FALSE
  OBVIOUS
<1>2. Bad \in SUBSET Nat
  OBVIOUS
<1>3. PICK m \in Bad : \A y \in Bad : m <= y
  BY <1>1, <1>2, LeastOf
<1>4. m \in Nat /\ ~\E t : Sums(t, f, UpTo(S, m))
  BY <1>3
<1>5. CASE m = 0
  <2>1. \A s \in UpTo(S, 0) : s = {}
    <3>1. ASSUME NEW s \in UpTo(S, 0), s # {} PROVE FALSE
      <4>1. s \in SUBSET S /\ Cardinality(s) <= 0 /\ Pick(s) \in s
        BY <3>1, PickIn DEF UpTo
      <4>2. Cardinality(s) \in Nat /\ Cardinality(s \ {Pick(s)}) \in Nat /\ Cardinality(s \ {Pick(s)}) < Cardinality(s)
        BY <4>1, RestSmaller
      <4> QED BY <4>1, <4>2
    <3> QED BY <3>1
  <2> DEFINE t == [s \in UpTo(S, 0) |-> 0]
  <2>2. t = [s \in UpTo(S, 0) |-> IF s = {} THEN 0 ELSE f[Pick(s)] + t[Rest(s)]]
    BY <2>1
  <2>3. Sums(t, f, UpTo(S, 0))
    BY <2>2 DEF Sums
  <2> QED BY <1>4, <1>5, <2>3
<1>6. CASE m # 0
  <2>1. m - 1 \in Nat /\ m - 1 \notin Bad
    BY <1>3, <1>4, <1>6
  <2>2. PICK t : Sums(t, f, UpTo(S, m - 1))
    BY <2>1
  <2> DEFINE u == [s \in UpTo(S, m) |-> IF s = {} THEN 0 ELSE f[Pick(s)] + t[Rest(s)]]
  <2>3. ASSUME NEW s \in UpTo(S, m), s # {} PROVE u[Rest(s)] = t[Rest(s)]
    <3>1. s \in SUBSET S /\ Cardinality(s) <= m /\ Pick(s) \in s
      BY <2>3, PickIn DEF UpTo
    <3>2. Rest(s) \in SUBSET S /\ Cardinality(s) \in Nat /\ Cardinality(Rest(s)) \in Nat /\ Cardinality(Rest(s)) < Cardinality(s)
      BY <3>1, RestSmaller DEF Rest
    <3>3. Rest(s) \in UpTo(S, m - 1) /\ Rest(s) \in UpTo(S, m)
      BY <1>4, <3>1, <3>2 DEF UpTo
    <3> QED BY <2>2, <3>3 DEF Sums
  <2>4. u = [s \in UpTo(S, m) |-> IF s = {} THEN 0 ELSE f[Pick(s)] + u[Rest(s)]]
    BY <2>3
  <2>5. Sums(u, f, UpTo(S, m))
    BY <2>4 DEF Sums
  <2> QED BY <1>4, <2>5
<1> QED BY <1>5, <1>6

\* The table of a function's sums.
LEMMA TabSums == ASSUME NEW f, IsFiniteSet(DOMAIN f)
                 PROVE  /\ Tab(f)[{}] = 0
                        /\ \A s \in SUBSET DOMAIN f : s # {} => Tab(f)[s] = f[Pick(s)] + Tab(f)[Rest(s)]
<1> DEFINE D == DOMAIN f
<1>1. Cardinality(D) \in Nat
  BY FS_CardinalityType
<1>2. UpTo(D, Cardinality(D)) = SUBSET D
  <2>1. \A s \in SUBSET D : Cardinality(s) <= Cardinality(D)
    BY FS_Subset
  <2> QED BY <2>1 DEF UpTo
<1>3. \E t : Sums(t, f, SUBSET D)
  <2>1. \E t : Sums(t, f, UpTo(D, Cardinality(D)))
    BY <1>1, SumsUpTo
  <2> QED BY <1>2, <2>1
<1>4. Sums(Tab(f), f, SUBSET D)
  BY <1>3 DEF Tab
<1> QED BY <1>4 DEF Sums

\* Sums of a kind of numbers.
LEMMA TabType == ASSUME NEW V, 0 \in V, \A a, b \in V : a + b \in V,
                        NEW D, IsFiniteSet(D), NEW f \in [D -> V], NEW s \in SUBSET D
                 PROVE  Tab(f)[s] \in V
<1> DEFINE Bad == {r \in SUBSET D : Tab(f)[r] \notin V}
<1>1. SUFFICES ASSUME Bad # {} PROVE FALSE
  OBVIOUS
<1>2. Bad \in SUBSET (SUBSET D)
  OBVIOUS
<1>3. PICK m \in Bad : \A r \in Bad : Cardinality(m) <= Cardinality(r)
  BY <1>1, <1>2, Smallest
<1>4. DOMAIN f = D
  OBVIOUS
<1>5. m \in SUBSET D /\ Tab(f)[m] \notin V
  BY <1>3
<1>6. m # {}
  BY <1>4, <1>5, TabSums
<1>7. Pick(m) \in m
  BY <1>6, PickIn
<1>8. Rest(m) \in SUBSET D /\ Cardinality(m) \in Nat /\ Cardinality(Rest(m)) \in Nat /\ Cardinality(Rest(m)) < Cardinality(m)
  BY <1>5, <1>7, RestSmaller DEF Rest
<1>9. Tab(f)[Rest(m)] \in V
  <2>1. Rest(m) \notin Bad
    BY <1>3, <1>8
  <2> QED BY <1>8, <2>1
<1>10. f[Pick(m)] \in V
  BY <1>5, <1>7
<1>11. Tab(f)[m] = f[Pick(m)] + Tab(f)[Rest(m)]
  BY <1>4, <1>5, <1>6, TabSums
<1> QED BY <1>5, <1>9, <1>10, <1>11

\* Functions that agree on a set have the same sum over it.
LEMMA TabLocal == ASSUME NEW f, NEW g, IsFiniteSet(DOMAIN f), IsFiniteSet(DOMAIN g),
                         NEW S, S \subseteq DOMAIN f, S \subseteq DOMAIN g, \A z \in S : f[z] = g[z]
                  PROVE  Tab(f)[S] = Tab(g)[S]
<1> DEFINE Bad == {r \in SUBSET S : Tab(f)[r] # Tab(g)[r]}
<1>1. SUFFICES ASSUME Bad # {} PROVE FALSE
  OBVIOUS
<1>2. Bad \in SUBSET (SUBSET S) /\ IsFiniteSet(S)
  BY FS_Subset
<1>3. PICK m \in Bad : \A r \in Bad : Cardinality(m) <= Cardinality(r)
  BY <1>1, <1>2, Smallest
<1>4. m \in SUBSET S /\ Tab(f)[m] # Tab(g)[m]
  BY <1>3
<1>5. m # {}
  BY <1>4, TabSums
<1>6. Pick(m) \in m
  BY <1>5, PickIn
<1>7. Rest(m) \in SUBSET S /\ Cardinality(m) \in Nat /\ Cardinality(Rest(m)) \in Nat /\ Cardinality(Rest(m)) < Cardinality(m)
  BY <1>2, <1>4, <1>6, RestSmaller DEF Rest
<1>8. Tab(f)[Rest(m)] = Tab(g)[Rest(m)]
  <2>1. Rest(m) \notin Bad
    BY <1>3, <1>7
  <2> QED BY <1>7, <2>1
<1>9. /\ Tab(f)[m] = f[Pick(m)] + Tab(f)[Rest(m)]
      /\ Tab(g)[m] = g[Pick(m)] + Tab(g)[Rest(m)]
  BY <1>4, <1>5, TabSums
<1>10. f[Pick(m)] = g[Pick(m)]
  BY <1>4, <1>6
<1> QED BY <1>4, <1>8, <1>9, <1>10

\* Any element may be taken first.
LEMMA TabTake == ASSUME NEW D, IsFiniteSet(D), NEW f \in [D -> Int], NEW S \in SUBSET D, NEW y \in S
                 PROVE  Tab(f)[S] = f[y] + Tab(f)[S \ {y}]
<1> DEFINE Bad == {r \in SUBSET D : \E z \in r : Tab(f)[r] # f[z] + Tab(f)[r \ {z}]}
<1>1. SUFFICES ASSUME Bad # {} PROVE FALSE
  OBVIOUS
<1>2. Bad \in SUBSET (SUBSET D)
  OBVIOUS
<1>3. PICK m \in Bad : \A r \in Bad : Cardinality(m) <= Cardinality(r)
  BY <1>1, <1>2, Smallest
<1>4. m \in SUBSET D
  BY <1>3
<1>5. PICK z \in m : Tab(f)[m] # f[z] + Tab(f)[m \ {z}]
  BY <1>3
<1>6. PICK x \in m : x = Pick(m)
  BY <1>5, PickIn
<1>7. Tab(f)[m] = f[x] + Tab(f)[m \ {x}]
  BY <1>4, <1>6, TabSums DEF Rest
<1>8. x # z
  BY <1>5, <1>7
<1>9. /\ m \ {x} \in SUBSET D /\ m \ {z} \in SUBSET D /\ z \in m \ {x} /\ x \in m \ {z}
      /\ (m \ {x}) \ {z} = (m \ {z}) \ {x} /\ (m \ {x}) \ {z} \in SUBSET D
  BY <1>4, <1>8
<1>10. m \ {x} \notin Bad /\ m \ {z} \notin Bad
  <2>1. /\ Cardinality(m) \in Nat /\ Cardinality(m \ {x}) \in Nat /\ Cardinality(m \ {x}) < Cardinality(m)
        /\ Cardinality(m \ {z}) \in Nat /\ Cardinality(m \ {z}) < Cardinality(m)
    BY <1>4, RestSmaller
  <2> QED BY <1>3, <2>1
<1>11. /\ Tab(f)[m \ {x}] = f[z] + Tab(f)[(m \ {x}) \ {z}]
       /\ Tab(f)[m \ {z}] = f[x] + Tab(f)[(m \ {x}) \ {z}]
  BY <1>9, <1>10
<1>12. f[x] \in Int /\ f[z] \in Int /\ Tab(f)[(m \ {x}) \ {z}] \in Int
  <2>1. Tab(f)[(m \ {x}) \ {z}] \in Int
    BY <1>9, TabType
  <2> QED BY <1>4, <2>1
<1> QED BY <1>5, <1>7, <1>11, <1>12

\* A sum of numbers is a number.
LEMMA SumType == ASSUME NEW D, IsFiniteSet(D)
                 PROVE  /\ \A f \in [D -> Int] : SumFunction(f) \in Int
                        /\ \A f \in [D -> Nat] : SumFunction(f) \in Nat
<1>1. ASSUME NEW f \in [D -> Int] PROVE SumFunction(f) \in Int
  <2>1. Tab(f)[D] \in Int
    BY TabType
  <2> QED BY <2>1, SumIsFold
<1>2. ASSUME NEW f \in [D -> Nat] PROVE SumFunction(f) \in Nat
  <2>0. 0 \in Nat /\ (\A a, b \in Nat : a + b \in Nat) /\ D \in SUBSET D
    OBVIOUS
  <2>1. Tab(f)[D] \in Nat
    BY <2>0, TabType, Zenon
  <2> QED BY <2>1, SumIsFold
<1> QED BY <1>1, <1>2

\* There is nothing to sum.
LEMMA SumEmpty == ASSUME NEW f, DOMAIN f = {} PROVE SumFunction(f) = 0
<1>1. IsFiniteSet(DOMAIN f)
  BY FS_EmptySet
<1> QED BY <1>1, TabSums, SumIsFold

\* One of the values changes.
LEMMA SumChange == ASSUME NEW D, IsFiniteSet(D), NEW f \in [D -> Int], NEW g \in [D -> Int], NEW y \in D,
                          \A z \in D : z # y => g[z] = f[z]
                   PROVE  SumFunction(g) = SumFunction(f) - f[y] + g[y]
<1>1. /\ Tab(f)[D] = f[y] + Tab(f)[D \ {y}]
      /\ Tab(g)[D] = g[y] + Tab(g)[D \ {y}]
  BY TabTake
<1>2. Tab(f)[D \ {y}] = Tab(g)[D \ {y}]
  <2>1. \A z \in D \ {y} : f[z] = g[z]
    OBVIOUS
  <2>2. D \ {y} \subseteq DOMAIN f /\ D \ {y} \subseteq DOMAIN g /\ IsFiniteSet(DOMAIN f) /\ IsFiniteSet(DOMAIN g)
    OBVIOUS
  <2> QED BY <2>1, <2>2, TabLocal
<1>3. Tab(f)[D \ {y}] \in Int
  BY TabType
<1>4. SumFunction(f) = Tab(f)[D] /\ SumFunction(g) = Tab(g)[D] /\ f[y] \in Int /\ g[y] \in Int
  BY SumIsFold
<1> QED BY <1>1, <1>2, <1>3, <1>4

\* A value is added behind the others.
LEMMA SumAppend == ASSUME NEW n \in Nat, NEW f \in [1..n -> Int], NEW g \in [1..(n + 1) -> Int],
                          \A i \in 1..n : g[i] = f[i]
                   PROVE  SumFunction(g) = SumFunction(f) + g[n + 1]
<1>1. IsFiniteSet(1..n) /\ IsFiniteSet(1..(n + 1))
  BY FS_Interval
<1>2. n + 1 \in 1..(n + 1) /\ (1..(n + 1)) \ {n + 1} = 1..n
  OBVIOUS
<1>3. Tab(g)[1..(n + 1)] = g[n + 1] + Tab(g)[1..n]
  <2>1. Tab(g)[1..(n + 1)] = g[n + 1] + Tab(g)[(1..(n + 1)) \ {n + 1}]
    <3>1. PICK E : E = 1..(n + 1)
      OBVIOUS
    <3>2. IsFiniteSet(E)
      BY <1>1, <3>1
    <3>3. PICK h \in [E -> Int], S \in SUBSET E : h = g /\ S = E
      BY <3>1
    <3>4. PICK z \in S : z = n + 1
      BY <1>2, <3>1, <3>3
    <3>5. Tab(h)[S] = h[z] + Tab(h)[S \ {z}]
      BY <3>2, TabTake
    <3> QED BY <3>1, <3>3, <3>4, <3>5
  <2> QED BY <1>2, <2>1
<1>4. Tab(f)[1..n] = Tab(g)[1..n]
  <2>1. 1..n \subseteq DOMAIN f /\ 1..n \subseteq DOMAIN g /\ IsFiniteSet(DOMAIN f) /\ IsFiniteSet(DOMAIN g)
    BY <1>1
  <2> QED BY <2>1, TabLocal
<1>5. Tab(f)[1..n] \in Int
  BY <1>1, TabType
<1>6. SumFunction(f) = Tab(f)[1..n] /\ SumFunction(g) = Tab(g)[1..(n + 1)] /\ g[n + 1] \in Int
  BY <1>2, SumIsFold
<1> QED BY <1>3, <1>4, <1>5, <1>6

(***************************************************************************)
(* Heaps of chunks (GcChunked)                                             *)
(***************************************************************************)

ObjectRecs == [addr : Nat, size : Nat, kind : {"object", "portal"}]
ChunkRecs == [base : Nat, size : Nat, cur : Nat, objs : Seq(ObjectRecs)]
HeapRecs == [chunks : Seq(ChunkRecs), current : Nat, end : Nat, chunks2 : Seq(ChunkRecs), current2 : Nat, end2 : Nat,
             total : Int, free : Int, used : Int]
ThreadRecs == [at : {"off", "run", "gc", "try", "copy", "panic", "wild", "lost"},
               req : [size : Nat, kind : {"object", "portal"}], todo : Seq(ObjectRecs)]

\* The statistics of heap h describe the chunks cs.
Described(h, cs) ==
    /\ cs # << >> /\ h.total = Words(cs) /\ h.used = HDR + ObjectWords(Walk(cs))
    /\ h.used + h.free = h.total - HDR * (Len(cs) - 1)

\* Heap h while its thread is at p.  After a collection that nothing survived
\* there is no current chunk, and the statistics are those of before.
HeapRight(h, p) ==
    /\ p.at = "off" => h.chunks = << >>
    /\ p.at # "copy" => h.chunks2 = << >> /\ h.current2 = 0
    /\ p.at = "run" => h.current # 0 /\ Described(h, h.chunks)
    /\ p.at = "try" /\ h.current # 0 => Described(h, h.chunks)
    /\ p.at = "gc" => h.chunks # << >>
    /\ p.at = "copy" => IF h.current2 = 0 THEN h.chunks2 = << >> ELSE Described(h, h.chunks2)

\* What heap h counts for.
Held(h) == Words(h.chunks) + Words(h.chunks2)
PortalsHeld(h) == Portals(gc_chunked_walkHeap(h))

ChunkTypes ==
    /\ heap \in [Heaps -> HeapRecs] /\ pc \in [Heaps -> ThreadRecs] /\ consumed \in Int /\ refs \in Int

ChunkInv ==
    /\ ChunkTypes
    /\ consumed = SumFunction([d \in Heaps |-> Held(heap[d])]) /\ InLimit(consumed)
    /\ refs = SumFunction([d \in Heaps |-> PortalsHeld(heap[d])])
    /\ \A d \in Heaps : HeapRight(heap[d], pc[d])

\* A sequence whose last element is replaced.
LEMMA LastReplaced == ASSUME NEW S, NEW s \in Seq(S), s # << >>, NEW c \in S
                      PROVE  /\ WithLast(s, c) \in Seq(S) /\ Len(WithLast(s, c)) = Len(s) /\ DOMAIN s = 1..Len(s)
                             /\ DOMAIN WithLast(s, c) = DOMAIN s /\ Len(s) \in DOMAIN s
                             /\ \A i \in DOMAIN s : WithLast(s, c)[i] = IF i = Len(s) THEN c ELSE s[i]
                             /\ LastOf(s) \in S /\ LastOf(s) = s[Len(s)] /\ WithLast(s, c) # << >>
<1>1. DOMAIN s = 1..Len(s) /\ Len(s) \in Nat /\ Len(s) # 0
  OBVIOUS
<1>2. /\ WithLast(s, c) = [s EXCEPT ![Len(s)] = c] /\ LastOf(s) = s[Len(s)]
  BY DEF WithLast, LastOf
<1>3. WithLast(s, c) \in [1..Len(s) -> S]
  BY <1>1, <1>2
<1>4. WithLast(s, c) \in Seq(S) /\ Len(WithLast(s, c)) = Len(s)
  BY <1>1, <1>3
<1> QED BY <1>1, <1>2, <1>3, <1>4

\* Any measure of elements of a sequence: when the last one is replaced, when

\* one is added, and when there is none.
LEMMA MeasureStep ==
    ASSUME NEW n \in Nat, NEW f \in [1..n -> Int]
    PROVE  /\ \A g \in [1..n -> Int] : n # 0 /\ (\A i \in 1..n : i # n => g[i] = f[i])
                                         => SumFunction(g) = SumFunction(f) - f[n] + g[n]
           /\ \A g \in [1..(n + 1) -> Int] : (\A i \in 1..n : g[i] = f[i])
                                         => SumFunction(g) = SumFunction(f) + g[n + 1]
           /\ SumFunction(f) \in Int
           /\ f \in [1..n -> Nat] => SumFunction(f) \in Nat
           /\ n = 0 => SumFunction(f) = 0
<1>1. IsFiniteSet(1..n)
  BY FS_Interval
<1>2. ASSUME NEW g \in [1..n -> Int], n # 0, \A i \in 1..n : i # n => g[i] = f[i]
      PROVE  SumFunction(g) = SumFunction(f) - f[n] + g[n]
  <2>1. PICK D : D = 1..n
    OBVIOUS
  <2>2. IsFiniteSet(D) /\ f \in [D -> Int] /\ g \in [D -> Int] /\ n \in D /\ \A z \in D : z # n => g[z] = f[z]
    BY <1>1, <1>2, <2>1
  <2> QED BY <2>2, SumChange
<1>3. ASSUME NEW g \in [1..(n + 1) -> Int], \A i \in 1..n : g[i] = f[i]
      PROVE  SumFunction(g) = SumFunction(f) + g[n + 1]
  BY <1>3, SumAppend
<1>4. SumFunction(f) \in Int /\ (f \in [1..n -> Nat] => SumFunction(f) \in Nat)
  BY <1>1, SumType
<1>5. ASSUME n = 0 PROVE SumFunction(f) = 0
  <2>1. DOMAIN f = {}
    BY <1>5
  <2> QED BY <2>1, SumEmpty
<1> QED BY <1>2, <1>3, <1>4, <1>5

\* The words of a sequence.
LEMMA WordsOf ==
    ASSUME NEW S, \A x \in S : x.size \in Nat, NEW s \in Seq(S), NEW c \in S
    PROVE  /\ Words(s) \in Nat
           /\ Words(Append(s, c)) = Words(s) + c.size
           /\ s # << >> => Words(WithLast(s, c)) = Words(s) - LastOf(s).size + c.size
<1> DEFINE F(q) == [i \in DOMAIN q |-> q[i].size]
<1>1. PICK n \in Nat : n = Len(s)
  OBVIOUS
<1>2. DOMAIN s = 1..n /\ \A i \in 1..n : s[i] \in S
  BY <1>1
<1>3. F(s) \in [1..n -> Nat] /\ F(s) \in [1..n -> Int] /\ \A i \in 1..n : F(s)[i] = s[i].size
  BY <1>2
<1>4. Words(s) \in Nat
  <2>1. SumFunction(F(s)) \in Nat
    BY <1>3, MeasureStep
  <2> QED BY <2>1 DEF Words
<1>5. Words(Append(s, c)) = Words(s) + c.size
  <2>1. /\ DOMAIN Append(s, c) = 1..(n + 1) /\ Append(s, c)[n + 1] = c
        /\ \A i \in 1..n : Append(s, c)[i] = s[i]
    BY <1>1
  <2>2. F(Append(s, c)) \in [1..(n + 1) -> Int]
    <3>1. \A i \in 1..(n + 1) : i \in 1..n \/ i = n + 1
      OBVIOUS
    <3> QED BY <1>2, <2>1, <3>1
  <2>3. F(Append(s, c))[n + 1] = c.size /\ \A i \in 1..n : F(Append(s, c))[i] = F(s)[i]
    BY <1>2, <1>3, <2>1
  <2> HIDE DEF F
  <2>4. SumFunction(F(Append(s, c))) = SumFunction(F(s)) + F(Append(s, c))[n + 1]
    BY <1>3, <2>2, <2>3, MeasureStep
  <2> QED BY <2>3, <2>4 DEF Words, F
<1>6. ASSUME s # << >> PROVE Words(WithLast(s, c)) = Words(s) - LastOf(s).size + c.size
  <2>1. /\ DOMAIN WithLast(s, c) = 1..n /\ n \in 1..n /\ LastOf(s) = s[n]
        /\ \A i \in 1..n : WithLast(s, c)[i] = IF i = n THEN c ELSE s[i]
    <3>1. /\ DOMAIN WithLast(s, c) = DOMAIN s /\ Len(s) \in DOMAIN s /\ LastOf(s) = s[Len(s)]
          /\ \A i \in DOMAIN s : WithLast(s, c)[i] = IF i = Len(s) THEN c ELSE s[i]
      BY <1>6, LastReplaced
    <3> QED BY <1>1, <1>2, <3>1
  <2>2. F(WithLast(s, c)) \in [1..n -> Int]
    BY <1>2, <2>1
  <2>3. F(WithLast(s, c))[n] = c.size /\ F(s)[n] = LastOf(s).size /\ \A i \in 1..n : i # n => F(WithLast(s, c))[i] = F(s)[i]
    BY <1>2, <1>3, <2>1
  <2> HIDE DEF F
  <2>4. SumFunction(F(WithLast(s, c))) = SumFunction(F(s)) - F(s)[n] + F(WithLast(s, c))[n]
    <3>1. PICK f \in [1..n -> Int], g \in [1..n -> Int] : f = F(s) /\ g = F(WithLast(s, c))
      BY <1>3, <2>2
    <3>2. n # 0 /\ \A i \in 1..n : i # n => g[i] = f[i]
      BY <2>1, <2>3, <3>1
    <3>3. SumFunction(g) = SumFunction(f) - f[n] + g[n]
      BY <3>2, MeasureStep
    <3> QED BY <3>1, <3>3
  <2> QED BY <2>3, <2>4 DEF Words, F
<1> QED BY <1>4, <1>5, <1>6

\* The portals of a sequence of objects.
LEMMA PortalsOf ==
    ASSUME NEW s \in Seq(ObjectRecs), NEW o \in ObjectRecs
    PROVE  /\ PortalsIn(s) \in Nat
           /\ PortalsIn(Append(s, o)) = PortalsIn(s) + (IF o.kind = "portal" THEN 1 ELSE 0)
<1> DEFINE P(q) == {i \in DOMAIN q : q[i].kind = "portal"}
<1>1. PICK n \in Nat : n = Len(s)
  OBVIOUS
<1>2. DOMAIN s = 1..n
  BY <1>1
<1>3. IsFiniteSet(P(s)) /\ Cardinality(P(s)) \in Nat
  <2>1. IsFiniteSet(1..n) /\ P(s) \subseteq 1..n
    BY <1>2, FS_Interval
  <2>2. IsFiniteSet(P(s))
    BY <2>1, FS_Subset
  <2> QED BY <2>2, FS_CardinalityType
<1>4. /\ DOMAIN Append(s, o) = 1..(n + 1) /\ Append(s, o)[n + 1] = o
      /\ \A i \in 1..n : Append(s, o)[i] = s[i]
  BY <1>1
<1>5. n + 1 \notin P(s)
  BY <1>2
<1>6. P(Append(s, o)) = IF o.kind = "portal" THEN P(s) \cup {n + 1} ELSE P(s)
  <2>1. \A i \in 1..(n + 1) : i \in 1..n \/ i = n + 1
    OBVIOUS
  <2>2. 1..n \subseteq 1..(n + 1) /\ n + 1 \in 1..(n + 1)
    OBVIOUS
  <2> QED BY <1>2, <1>4, <2>1, <2>2
<1>7. Cardinality(P(s) \cup {n + 1}) = Cardinality(P(s)) + 1
  BY <1>3, <1>5, FS_AddElement
<1>8. \A q : PortalsIn(q) = Cardinality(P(q))
  BY DEF PortalsIn
<1> HIDE DEF P
<1>9. PortalsIn(s) = Cardinality(P(s)) /\ PortalsIn(Append(s, o)) = Cardinality(P(Append(s, o)))
  BY <1>8
<1>10. CASE o.kind = "portal"
  BY <1>3, <1>6, <1>7, <1>9, <1>10
<1>11. CASE o.kind # "portal"
  BY <1>3, <1>6, <1>9, <1>11
<1> QED BY <1>10, <1>11

\* What chunks hold.
LEMMA ChunkMeasures ==
    ASSUME NEW cs \in Seq(ChunkRecs)
    PROVE  /\ Words(cs) \in Nat /\ ObjectWords(Walk(cs)) \in Nat /\ Portals(Walk(cs)) \in Nat
           /\ cs = << >> => Words(cs) = 0 /\ ObjectWords(Walk(cs)) = 0 /\ Portals(Walk(cs)) = 0
<1> DEFINE F == [i \in DOMAIN cs |-> cs[i].size]
           W == [i \in DOMAIN Walk(cs) |-> Words(Walk(cs)[i])]
           P == [i \in DOMAIN Walk(cs) |-> PortalsIn(Walk(cs)[i])]
<1>1. PICK n \in Nat : n = Len(cs)
  OBVIOUS
<1>2. DOMAIN cs = 1..n /\ \A i \in 1..n : cs[i] \in ChunkRecs /\ cs[i].size \in Nat /\ cs[i].objs \in Seq(ObjectRecs)
  <2>1. \A x \in ChunkRecs : x.size \in Nat /\ x.objs \in Seq(ObjectRecs)
    BY DEF ChunkRecs
  <2>2. DOMAIN cs = 1..n /\ \A i \in 1..n : cs[i] \in ChunkRecs
    BY <1>1
  <2> QED BY <2>1, <2>2
<1>3. DOMAIN Walk(cs) = 1..n /\ \A i \in 1..n : Walk(cs)[i] = cs[i].objs
  BY <1>2 DEF Walk
<1>4. \A x \in ObjectRecs : x.size \in Nat
  BY DEF ObjectRecs
<1>5. [addr |-> 0, size |-> 0, kind |-> "object"] \in ObjectRecs
  BY DEF ObjectRecs
<1>6. \A i \in 1..n : Words(cs[i].objs) \in Nat
  BY <1>2, <1>4, <1>5, WordsOf
<1>7. \A i \in 1..n : PortalsIn(cs[i].objs) \in Nat
  BY <1>2, <1>5, PortalsOf
<1>8. F \in [1..n -> Nat] /\ W \in [1..n -> Nat] /\ P \in [1..n -> Nat]
  BY <1>2, <1>3, <1>6, <1>7
<1> HIDE DEF F, W, P
<1>9. F \in [1..n -> Int] /\ W \in [1..n -> Int] /\ P \in [1..n -> Int]
  BY <1>8
<1>10. /\ SumFunction(F) \in Nat /\ SumFunction(W) \in Nat /\ SumFunction(P) \in Nat
       /\ n = 0 => SumFunction(F) = 0 /\ SumFunction(W) = 0 /\ SumFunction(P) = 0
  BY <1>8, <1>9, MeasureStep
<1>11. Words(cs) = SumFunction(F) /\ ObjectWords(Walk(cs)) = SumFunction(W) /\ Portals(Walk(cs)) = SumFunction(P)
  BY DEF Words, ObjectWords, Portals, F, W, P
<1>12. cs = << >> => n = 0
  BY <1>1
<1> QED BY <1>10, <1>11, <1>12

\* A chunk is added behind the others, with no object in it.
LEMMA ChunkAdded ==
    ASSUME NEW cs \in Seq(ChunkRecs), NEW c \in ChunkRecs, c.objs = << >>
    PROVE  /\ Append(cs, c) \in Seq(ChunkRecs) /\ Append(cs, c) # << >> /\ Len(Append(cs, c)) = Len(cs) + 1
           /\ Words(Append(cs, c)) = Words(cs) + c.size
           /\ ObjectWords(Walk(Append(cs, c))) = ObjectWords(Walk(cs))
           /\ Portals(Walk(Append(cs, c))) = Portals(Walk(cs))
<1> DEFINE e == Append(cs, c)
           W(q) == [i \in DOMAIN Walk(q) |-> Words(Walk(q)[i])]
           P(q) == [i \in DOMAIN Walk(q) |-> PortalsIn(Walk(q)[i])]
<1>1. PICK n \in Nat : n = Len(cs)
  OBVIOUS
<1>2. /\ e \in Seq(ChunkRecs) /\ e # << >> /\ Len(e) = Len(cs) + 1 /\ DOMAIN cs = 1..n /\ DOMAIN e = 1..(n + 1)
      /\ e[n + 1] = c /\ \A i \in 1..n : e[i] = cs[i]
  BY <1>1
<1>3. \A x \in ChunkRecs : x.size \in Nat /\ x.objs \in Seq(ObjectRecs)
  BY DEF ChunkRecs
<1>4. Words(e) = Words(cs) + c.size
  BY <1>3, WordsOf
<1> HIDE DEF e
<1>5. /\ DOMAIN Walk(cs) = 1..n /\ \A i \in 1..n : Walk(cs)[i] = cs[i].objs
      /\ DOMAIN Walk(e) = 1..(n + 1) /\ \A i \in 1..(n + 1) : Walk(e)[i] = e[i].objs
  BY <1>2 DEF Walk
<1>6. Words(<< >>) = 0 /\ PortalsIn(<< >>) = 0
  <2>1. [i \in DOMAIN << >> |-> << >>[i].size] \in [1..0 -> Int] /\ DOMAIN [i \in DOMAIN << >> |-> << >>[i].size] = {}
    OBVIOUS
  <2>2. SumFunction([i \in DOMAIN << >> |-> << >>[i].size]) = 0
    BY <2>1, SumEmpty
  <2>3. {i \in DOMAIN << >> : << >>[i].kind = "portal"} = {}
    OBVIOUS
  <2> QED BY <2>2, <2>3, FS_EmptySet DEF Words, PortalsIn
<1>7. \A i \in 1..n : Words(cs[i].objs) \in Nat /\ PortalsIn(cs[i].objs) \in Nat
  <2>1. [addr |-> 0, size |-> 0, kind |-> "object"] \in ObjectRecs /\ \A x \in ObjectRecs : x.size \in Nat
    BY DEF ObjectRecs
  <2>2. \A i \in 1..n : cs[i].objs \in Seq(ObjectRecs)
    BY <1>1, <1>2, <1>3
  <2> QED BY <2>1, <2>2, WordsOf, PortalsOf
<1>8. \A i \in 1..(n + 1) : i \in 1..n \/ i = n + 1
  OBVIOUS
<1>a. \A i \in 1..n : Words(Walk(cs)[i]) \in Int /\ PortalsIn(Walk(cs)[i]) \in Int
  <2> SUFFICES ASSUME NEW i \in 1..n PROVE Words(Walk(cs)[i]) \in Int /\ PortalsIn(Walk(cs)[i]) \in Int
    OBVIOUS
  <2>1. Walk(cs)[i] = cs[i].objs
    BY <1>5
  <2> QED BY <1>7, <2>1
<1>b. \A i \in 1..n : Walk(e)[i] = Walk(cs)[i] /\ i \in 1..(n + 1)
  BY <1>2, <1>5
<1>c. Walk(e)[n + 1] = << >> /\ n + 1 \in 1..(n + 1)
  BY <1>2, <1>5
<1>d. \A i \in 1..(n + 1) : Words(Walk(e)[i]) \in Int /\ PortalsIn(Walk(e)[i]) \in Int
  <2> SUFFICES ASSUME NEW i \in 1..(n + 1) PROVE Words(Walk(e)[i]) \in Int /\ PortalsIn(Walk(e)[i]) \in Int
    OBVIOUS
  <2>1. CASE i \in 1..n
    BY <1>a, <1>b, <2>1
  <2>2. CASE i = n + 1
    BY <1>c, <1>6, <2>2
  <2> QED BY <1>8, <2>1, <2>2
<1>9. PICK f \in [1..n -> Int], g \in [1..(n + 1) -> Int] :
          f = W(cs) /\ g = W(e) /\ g[n + 1] = 0 /\ \A i \in 1..n : g[i] = f[i]
  <2>1. W(cs) \in [1..n -> Int]
    BY <1>5, <1>a
  <2>2. W(e) \in [1..(n + 1) -> Int]
    BY <1>5, <1>d
  <2>3. W(e)[n + 1] = 0
    BY <1>5, <1>6, <1>c
  <2>4. \A i \in 1..n : W(e)[i] = W(cs)[i]
    BY <1>5, <1>b
  <2> QED BY <2>1, <2>2, <2>3, <2>4
<1>10. PICK x \in [1..n -> Int], y \in [1..(n + 1) -> Int] :
          x = P(cs) /\ y = P(e) /\ y[n + 1] = 0 /\ \A i \in 1..n : y[i] = x[i]
  <2>1. P(cs) \in [1..n -> Int]
    BY <1>5, <1>a
  <2>2. P(e) \in [1..(n + 1) -> Int]
    BY <1>5, <1>d
  <2>3. P(e)[n + 1] = 0
    BY <1>5, <1>6, <1>c
  <2>4. \A i \in 1..n : P(e)[i] = P(cs)[i]
    BY <1>5, <1>b
  <2> QED BY <2>1, <2>2, <2>3, <2>4
<1>11. SumFunction(g) = SumFunction(f) + 0 /\ SumFunction(y) = SumFunction(x) + 0
  <2>1. SumFunction(g) = SumFunction(f) + g[n + 1]
    BY <1>9, SumAppend
  <2>2. SumFunction(y) = SumFunction(x) + y[n + 1]
    BY <1>10, SumAppend
  <2> QED BY <1>9, <1>10, <2>1, <2>2
<1>12. SumFunction(f) \in Int /\ SumFunction(x) \in Int
  BY <1>9, <1>10, MeasureStep
<1>13. /\ ObjectWords(Walk(cs)) = SumFunction(f) /\ ObjectWords(Walk(e)) = SumFunction(g)
       /\ Portals(Walk(cs)) = SumFunction(x) /\ Portals(Walk(e)) = SumFunction(y)
  BY <1>9, <1>10 DEF ObjectWords, Portals
<1> QED BY <1>2, <1>4, <1>11, <1>12, <1>13 DEF e

\* The last chunk is replaced.
LEMMA ChunkReplaced ==
    ASSUME NEW cs \in Seq(ChunkRecs), cs # << >>, NEW c \in ChunkRecs
    PROVE  /\ WithLast(cs, c) \in Seq(ChunkRecs) /\ WithLast(cs, c) # << >> /\ Len(WithLast(cs, c)) = Len(cs)
           /\ LastOf(cs) \in ChunkRecs
           /\ Words(WithLast(cs, c)) = Words(cs) - LastOf(cs).size + c.size
           /\ ObjectWords(Walk(WithLast(cs, c))) = ObjectWords(Walk(cs)) - Words(LastOf(cs).objs) + Words(c.objs)
           /\ Portals(Walk(WithLast(cs, c))) = Portals(Walk(cs)) - PortalsIn(LastOf(cs).objs) + PortalsIn(c.objs)
<1> DEFINE e == WithLast(cs, c)
           W(q) == [i \in DOMAIN Walk(q) |-> Words(Walk(q)[i])]
           P(q) == [i \in DOMAIN Walk(q) |-> PortalsIn(Walk(q)[i])]
<1>1. PICK n \in Nat : n = Len(cs)
  OBVIOUS
<1>2. /\ e \in Seq(ChunkRecs) /\ e # << >> /\ Len(e) = Len(cs) /\ DOMAIN cs = 1..n /\ DOMAIN e = 1..n /\ n \in 1..n
      /\ (\A i \in 1..n : e[i] = IF i = n THEN c ELSE cs[i]) /\ LastOf(cs) = cs[n] /\ LastOf(cs) \in ChunkRecs
  <2>1. /\ e \in Seq(ChunkRecs) /\ Len(e) = Len(cs) /\ DOMAIN cs = 1..Len(cs)
        /\ DOMAIN e = DOMAIN cs /\ Len(cs) \in DOMAIN cs /\ e # << >>
        /\ (\A i \in DOMAIN cs : e[i] = IF i = Len(cs) THEN c ELSE cs[i]) /\ LastOf(cs) = cs[Len(cs)] /\ LastOf(cs) \in ChunkRecs
    BY LastReplaced
  <2> HIDE DEF e
  <2> QED BY <1>1, <2>1
<1>3. \A x \in ChunkRecs : x.size \in Nat /\ x.objs \in Seq(ObjectRecs)
  BY DEF ChunkRecs
<1>4. Words(e) = Words(cs) - LastOf(cs).size + c.size
  BY <1>3, WordsOf
<1> HIDE DEF e
<1>5. /\ DOMAIN Walk(cs) = 1..n /\ \A i \in 1..n : Walk(cs)[i] = cs[i].objs
      /\ DOMAIN Walk(e) = 1..n /\ \A i \in 1..n : Walk(e)[i] = e[i].objs
  BY <1>2 DEF Walk
<1>6. \A x \in ChunkRecs : Words(x.objs) \in Nat /\ PortalsIn(x.objs) \in Nat
  <2>1. [addr |-> 0, size |-> 0, kind |-> "object"] \in ObjectRecs /\ \A x \in ObjectRecs : x.size \in Nat
    BY DEF ObjectRecs
  <2> QED BY <1>3, <2>1, WordsOf, PortalsOf
<1>7. \A i \in 1..n : cs[i] \in ChunkRecs /\ e[i] \in ChunkRecs
  BY <1>1, <1>2
<1>a. \A i \in 1..n : Words(Walk(cs)[i]) \in Int /\ PortalsIn(Walk(cs)[i]) \in Int
  <2> SUFFICES ASSUME NEW i \in 1..n PROVE Words(Walk(cs)[i]) \in Int /\ PortalsIn(Walk(cs)[i]) \in Int
    OBVIOUS
  <2>1. Walk(cs)[i] = cs[i].objs /\ cs[i] \in ChunkRecs
    BY <1>5, <1>7
  <2> QED BY <1>6, <2>1
<1>b. \A i \in 1..n : Words(Walk(e)[i]) \in Int /\ PortalsIn(Walk(e)[i]) \in Int
  <2> SUFFICES ASSUME NEW i \in 1..n PROVE Words(Walk(e)[i]) \in Int /\ PortalsIn(Walk(e)[i]) \in Int
    OBVIOUS
  <2>1. Walk(e)[i] = e[i].objs /\ e[i] \in ChunkRecs
    BY <1>5, <1>7
  <2> QED BY <1>6, <2>1
<1>8. PICK f \in [1..n -> Int], g \in [1..n -> Int] :
          /\ f = W(cs) /\ g = W(e) /\ g[n] = Words(c.objs) /\ f[n] = Words(LastOf(cs).objs)
          /\ \A i \in 1..n : i # n => g[i] = f[i]
  <2>1. W(cs) \in [1..n -> Int] /\ W(e) \in [1..n -> Int]
    BY <1>5, <1>a, <1>b
  <2>2. W(e)[n] = Words(c.objs) /\ W(cs)[n] = Words(LastOf(cs).objs)
    BY <1>2, <1>5
  <2>3. \A i \in 1..n : i # n => W(e)[i] = W(cs)[i]
    BY <1>2, <1>5
  <2> QED BY <2>1, <2>2, <2>3
<1>9. PICK x \in [1..n -> Int], y \in [1..n -> Int] :
          /\ x = P(cs) /\ y = P(e) /\ y[n] = PortalsIn(c.objs) /\ x[n] = PortalsIn(LastOf(cs).objs)
          /\ \A i \in 1..n : i # n => y[i] = x[i]
  <2>1. P(cs) \in [1..n -> Int] /\ P(e) \in [1..n -> Int]
    BY <1>5, <1>a, <1>b
  <2>2. P(e)[n] = PortalsIn(c.objs) /\ P(cs)[n] = PortalsIn(LastOf(cs).objs)
    BY <1>2, <1>5
  <2>3. \A i \in 1..n : i # n => P(e)[i] = P(cs)[i]
    BY <1>2, <1>5
  <2> QED BY <2>1, <2>2, <2>3
<1>10. n # 0
  BY <1>2
<1>11. SumFunction(g) = SumFunction(f) - f[n] + g[n] /\ SumFunction(y) = SumFunction(x) - x[n] + y[n]
  BY <1>8, <1>9, <1>10, MeasureStep
<1>12. /\ ObjectWords(Walk(cs)) = SumFunction(f) /\ ObjectWords(Walk(e)) = SumFunction(g)
       /\ Portals(Walk(cs)) = SumFunction(x) /\ Portals(Walk(e)) = SumFunction(y)
  BY <1>8, <1>9 DEF ObjectWords, Portals
<1> QED BY <1>2, <1>4, <1>8, <1>9, <1>11, <1>12 DEF e

\* The fields of a heap and of the place of its thread.
LEMMA HeapFields == ASSUME ChunkTypes, NEW d \in Heaps
                    PROVE  /\ heap[d] \in HeapRecs /\ pc[d] \in ThreadRecs
                           /\ heap[d].chunks \in Seq(ChunkRecs) /\ heap[d].chunks2 \in Seq(ChunkRecs)
                           /\ heap[d].current \in Nat /\ heap[d].current2 \in Nat
                           /\ heap[d].total \in Int /\ heap[d].free \in Int /\ heap[d].used \in Int
                           /\ pc[d].req.size \in Nat /\ pc[d].req.kind \in {"object", "portal"}
                           /\ pc[d].todo \in Seq(ObjectRecs)
<1>1. heap[d] \in HeapRecs /\ pc[d] \in ThreadRecs
  BY DEF ChunkTypes
<1>2. /\ heap[d].chunks \in Seq(ChunkRecs) /\ heap[d].chunks2 \in Seq(ChunkRecs)
      /\ heap[d].current \in Nat /\ heap[d].current2 \in Nat
      /\ heap[d].total \in Int /\ heap[d].free \in Int /\ heap[d].used \in Int
  BY <1>1 DEF HeapRecs
<1>3. /\ pc[d].req.size \in Nat /\ pc[d].req.kind \in {"object", "portal"}
      /\ pc[d].todo \in Seq(ObjectRecs)
  BY <1>1 DEF ThreadRecs
<1> QED BY <1>1, <1>2, <1>3

\* What a heap counts for are numbers.
LEMMA HeldType == ASSUME NEW h \in HeapRecs PROVE Held(h) \in Nat /\ PortalsHeld(h) \in Nat
<1>1. h.chunks \in Seq(ChunkRecs) /\ h.chunks2 \in Seq(ChunkRecs)
  BY DEF HeapRecs
<1>2. Words(h.chunks) \in Nat /\ Words(h.chunks2) \in Nat /\ Portals(Walk(h.chunks)) \in Nat
  BY <1>1, ChunkMeasures
<1> QED BY <1>2 DEF Held, PortalsHeld, gc_chunked_walkHeap

\* A step of the thread of one heap.
LEMMA ChunkFrame ==
    ASSUME ChunkInv, NEW d \in Heaps, NEW h \in HeapRecs, NEW p \in ThreadRecs,
           heap' = [heap EXCEPT ![d] = h], pc' = [pc EXCEPT ![d] = p], HeapRight(h, p),
           consumed' = consumed - Held(heap[d]) + Held(h), InLimit(consumed'),
           refs' = refs - PortalsHeld(heap[d]) + PortalsHeld(h)
    PROVE  ChunkInv'
<1>1. heap \in [Heaps -> HeapRecs] /\ pc \in [Heaps -> ThreadRecs] /\ consumed \in Int /\ refs \in Int
  BY DEF ChunkInv, ChunkTypes
<1>2. heap' \in [Heaps -> HeapRecs] /\ pc' \in [Heaps -> ThreadRecs] /\ heap'[d] = h /\ pc'[d] = p
  BY <1>1
<1>3. \A e \in Heaps : e # d => heap'[e] = heap[e] /\ pc'[e] = pc[e]
  BY <1>1
<1>4. \A x \in HeapRecs : Held(x) \in Int /\ PortalsHeld(x) \in Int
  BY HeldType
<1>5. ChunkTypes'
  BY <1>1, <1>2, <1>4 DEF ChunkTypes
<1>6. \A e \in Heaps : HeapRight(heap'[e], pc'[e])
  BY <1>2, <1>3 DEF ChunkInv
<1>7. IsFiniteSet(Heaps)
  BY ChunkedAssumption
<1>8. consumed' = SumFunction([e \in Heaps |-> Held(heap'[e])])
  <2>1. PICK f \in [Heaps -> Int], g \in [Heaps -> Int] :
          /\ f = [e \in Heaps |-> Held(heap[e])] /\ g = [e \in Heaps |-> Held(heap'[e])]
          /\ f[d] = Held(heap[d]) /\ g[d] = Held(h) /\ \A e \in Heaps : e # d => g[e] = f[e]
    <3>1. [e \in Heaps |-> Held(heap[e])] \in [Heaps -> Int]
      BY <1>1, <1>4
    <3>2. [e \in Heaps |-> Held(heap'[e])] \in [Heaps -> Int]
      BY <1>2, <1>4
    <3> QED BY <1>2, <1>3, <3>1, <3>2
  <2>2. SumFunction(g) = SumFunction(f) - f[d] + g[d]
    BY <1>7, <2>1, SumChange
  <2>3. consumed = SumFunction(f)
    BY <2>1 DEF ChunkInv
  <2> QED BY <2>1, <2>2, <2>3
<1>9. refs' = SumFunction([e \in Heaps |-> PortalsHeld(heap'[e])])
  <2>1. PICK f \in [Heaps -> Int], g \in [Heaps -> Int] :
          /\ f = [e \in Heaps |-> PortalsHeld(heap[e])] /\ g = [e \in Heaps |-> PortalsHeld(heap'[e])]
          /\ f[d] = PortalsHeld(heap[d]) /\ g[d] = PortalsHeld(h) /\ \A e \in Heaps : e # d => g[e] = f[e]
    <3>1. [e \in Heaps |-> PortalsHeld(heap[e])] \in [Heaps -> Int]
      BY <1>1, <1>4
    <3>2. [e \in Heaps |-> PortalsHeld(heap'[e])] \in [Heaps -> Int]
      BY <1>2, <1>4
    <3> QED BY <1>2, <1>3, <3>1, <3>2
  <2>2. SumFunction(g) = SumFunction(f) - f[d] + g[d]
    BY <1>7, <2>1, SumChange
  <2>3. refs = SumFunction(f)
    BY <2>1 DEF ChunkInv
  <2> QED BY <2>1, <2>2, <2>3
<1> QED BY <1>5, <1>6, <1>8, <1>9 DEF ChunkInv

\* A step that changes no heap.
LEMMA ChunkStays ==
    ASSUME ChunkInv, NEW d \in Heaps, NEW p \in ThreadRecs, UNCHANGED <<heap, consumed, refs>>,
           pc' = [pc EXCEPT ![d] = p], HeapRight(heap[d], p)
    PROVE  ChunkInv'
<1>1. heap \in [Heaps -> HeapRecs] /\ consumed \in Int /\ refs \in Int /\ InLimit(consumed)
  BY DEF ChunkInv, ChunkTypes
<1>2. heap' = [heap EXCEPT ![d] = heap[d]] /\ heap[d] \in HeapRecs
  BY <1>1
<1>3. Held(heap[d]) \in Nat /\ PortalsHeld(heap[d]) \in Nat
  BY <1>2, HeldType
<1>4. /\ consumed' = consumed - Held(heap[d]) + Held(heap[d]) /\ InLimit(consumed')
      /\ refs' = refs - PortalsHeld(heap[d]) + PortalsHeld(heap[d])
  BY <1>1, <1>3
<1>5. PICK h \in HeapRecs : h = heap[d]
  BY <1>2
<1> QED BY <1>2, <1>4, <1>5, ChunkFrame

\* Waiting for memory.
LEMMA WaitKeeps == ASSUME ChunkInv, NEW d \in Heaps, WaitForMemory(d) PROVE ChunkInv'
BY DEF ChunkInv, ChunkTypes, WaitForMemory

\* A place for a chunk.
LEMMA PlaceType == ASSUME NEW b \in jxmalloc, NEW w \in Nat
                   PROVE  b \in Nat /\ NewChunk(b, w) \in ChunkRecs /\ NewChunk(b, w).objs = << >> /\ NewChunk(b, w).size = w
<1>1. b \in Nat
  BY ChunkedAssumption DEF jxmalloc, FreeSlots, SlotWords
<1> QED BY <1>1 DEF NewChunk, ChunkRecs

\* The current pointer of the last chunk is noted.
LEMMA ClosedSame == ASSUME NEW h \in HeapRecs, h.chunks # << >>
                    PROVE  /\ Closed(h) \in Seq(ChunkRecs) /\ Closed(h) # << >> /\ Len(Closed(h)) = Len(h.chunks)
                           /\ Words(Closed(h)) = Words(h.chunks)
                           /\ ObjectWords(Walk(Closed(h))) = ObjectWords(Walk(h.chunks))
                           /\ Portals(Walk(Closed(h))) = Portals(Walk(h.chunks))
<1>1. h.chunks \in Seq(ChunkRecs) /\ h.current \in Nat
  BY DEF HeapRecs
<1>2. LastOf(h.chunks) \in ChunkRecs
  BY <1>1, LastReplaced
<1>3. PICK c : c = [LastOf(h.chunks) EXCEPT !.cur = h.current]
  OBVIOUS
<1>4. c \in ChunkRecs /\ c.size = LastOf(h.chunks).size /\ c.objs = LastOf(h.chunks).objs
  BY <1>1, <1>2, <1>3 DEF ChunkRecs
<1>5. c.size \in Nat /\ c.objs \in Seq(ObjectRecs)
  BY <1>4 DEF ChunkRecs
<1>6. Words(c.objs) \in Nat /\ PortalsIn(c.objs) \in Nat
  <2>1. [addr |-> 0, size |-> 0, kind |-> "object"] \in ObjectRecs /\ \A x \in ObjectRecs : x.size \in Nat
    BY DEF ObjectRecs
  <2> QED BY <1>5, <2>1, WordsOf, PortalsOf
<1>7. Words(h.chunks) \in Nat /\ ObjectWords(Walk(h.chunks)) \in Nat /\ Portals(Walk(h.chunks)) \in Nat
  BY <1>1, ChunkMeasures
<1>8. Closed(h) = WithLast(h.chunks, c)
  BY <1>3 DEF Closed
<1>9. /\ WithLast(h.chunks, c) \in Seq(ChunkRecs) /\ WithLast(h.chunks, c) # << >> /\ Len(WithLast(h.chunks, c)) = Len(h.chunks)
      /\ Words(WithLast(h.chunks, c)) = Words(h.chunks) - c.size + c.size
      /\ ObjectWords(Walk(WithLast(h.chunks, c))) = ObjectWords(Walk(h.chunks)) - Words(c.objs) + Words(c.objs)
      /\ Portals(Walk(WithLast(h.chunks, c))) = Portals(Walk(h.chunks)) - PortalsIn(c.objs) + PortalsIn(c.objs)
  BY <1>1, <1>4, ChunkReplaced
<1> QED BY <1>5, <1>6, <1>7, <1>8, <1>9

\* Chunks ds are chunks cs with one more object.
Weight(kind) == IF kind = "portal" THEN 1 ELSE 0
Gained(cs, ds, size, kind) ==
    /\ ds \in Seq(ChunkRecs) /\ ds # << >> /\ Len(ds) = Len(cs) /\ Words(ds) = Words(cs)
    /\ ObjectWords(Walk(ds)) = ObjectWords(Walk(cs)) + size
    /\ Portals(Walk(ds)) = Portals(Walk(cs)) + Weight(kind)

\* An object is put into the last chunk.
LEMMA PlacedCounted ==
    ASSUME NEW cs \in Seq(ChunkRecs), cs # << >>, NEW a \in Nat, NEW size \in Nat, NEW kind \in {"object", "portal"},
           NEW c \in ChunkRecs, c.size = LastOf(cs).size,
           c.objs = Append(LastOf(cs).objs, [addr |-> a, size |-> size, kind |-> kind])
    PROVE  Gained(cs, WithLast(cs, c), size, kind)
<1>1. PICK o \in ObjectRecs : o = [addr |-> a, size |-> size, kind |-> kind] /\ o.size = size /\ o.kind = kind
  BY DEF ObjectRecs
<1>2. LastOf(cs) \in ChunkRecs
  BY LastReplaced
<1>3. c.size \in Nat /\ LastOf(cs).objs \in Seq(ObjectRecs)
  BY <1>2 DEF ChunkRecs
<1>4. \A x \in ObjectRecs : x.size \in Nat
  BY DEF ObjectRecs
<1>5. Words(LastOf(cs).objs) \in Nat /\ Words(c.objs) = Words(LastOf(cs).objs) + size
  BY <1>1, <1>3, <1>4, WordsOf
<1>6. PortalsIn(LastOf(cs).objs) \in Nat /\ PortalsIn(c.objs) = PortalsIn(LastOf(cs).objs) + Weight(kind) /\ Weight(kind) \in Nat
  BY <1>1, <1>3, PortalsOf DEF Weight
<1>7. Words(cs) \in Nat /\ ObjectWords(Walk(cs)) \in Nat /\ Portals(Walk(cs)) \in Nat
  BY ChunkMeasures
<1>8. /\ WithLast(cs, c) \in Seq(ChunkRecs) /\ WithLast(cs, c) # << >> /\ Len(WithLast(cs, c)) = Len(cs)
      /\ Words(WithLast(cs, c)) = Words(cs) - LastOf(cs).size + c.size
      /\ ObjectWords(Walk(WithLast(cs, c))) = ObjectWords(Walk(cs)) - Words(LastOf(cs).objs) + Words(c.objs)
      /\ Portals(Walk(WithLast(cs, c))) = Portals(Walk(cs)) - PortalsIn(LastOf(cs).objs) + PortalsIn(c.objs)
  BY ChunkReplaced
<1>9. Words(WithLast(cs, c)) = Words(cs)
  BY <1>3, <1>7, <1>8
<1>10. ObjectWords(Walk(WithLast(cs, c))) = ObjectWords(Walk(cs)) + size
  BY <1>5, <1>7, <1>8
<1>11. Portals(Walk(WithLast(cs, c))) = Portals(Walk(cs)) + Weight(kind)
  BY <1>6, <1>7, <1>8
<1> QED BY <1>8, <1>9, <1>10, <1>11 DEF Gained

\* Nothing is in no chunks.
LEMMA NoChunks == /\ << >> \in Seq(ChunkRecs) /\ Words(<< >>) = 0
                  /\ ObjectWords(Walk(<< >>)) = 0 /\ Portals(Walk(<< >>)) = 0
<1>0. << >> \in Seq(ChunkRecs)
  OBVIOUS
<1>1. PICK e \in Seq(ChunkRecs) : e = << >>
  BY <1>0, Zenon
<1>2. Words(e) = 0 /\ ObjectWords(Walk(e)) = 0 /\ Portals(Walk(e)) = 0
  BY <1>1, ChunkMeasures
<1> QED BY <1>1, <1>2

\* The statistics, with the header's size.
LEMMA DescribedAs == ASSUME NEW h, NEW cs \in Seq(ChunkRecs)
                     PROVE  Described(h, cs) <=> /\ cs # << >> /\ h.total = Words(cs) /\ h.used = 1 + ObjectWords(Walk(cs))
                                                 /\ h.used + h.free = h.total - (Len(cs) - 1)
<1>1. HDR = 1 /\ 1 * (Len(cs) - 1) = Len(cs) - 1
  BY DEF HDR
<1> QED BY <1>1 DEF Described

\* Heap x is heap h with n words more in use, and y with a chunk of w words more.
Used(h, x, n) == x \in HeapRecs /\ x.total = h.total /\ x.free = h.free - n /\ x.used = h.used + n
Grown(h, x, w) == x \in HeapRecs /\ x.total = h.total + w /\ x.free = h.free + w - 1 /\ x.used = h.used

\* Heap h with chunks cs that hold an object of n words more; the same in the
\* second semispace; and with a chunk of w words at b more.
WithObject(h, cs, n) == [h EXCEPT !.chunks = cs, !.current = @ + n, !.free = @ - n, !.used = @ + n]
WithMoved(h, cs, n) == [h EXCEPT !.chunks2 = cs, !.current2 = @ + n, !.free = @ - n, !.used = @ + n]
WithChunk(h, cs, b, w) ==
    [h EXCEPT !.chunks = cs, !.current = b + HDR, !.end = b + w, !.total = @ + w, !.free = @ + w - HDR]
WithChunk2(h, cs, b, w) ==
    [h EXCEPT !.chunks2 = cs, !.current2 = b + HDR, !.end2 = b + w, !.total = @ + w, !.free = @ + w - HDR]
First(h, x, cs, n) ==
    Used(h, x, n) /\ x.chunks = cs /\ x.current = h.current + n /\ x.chunks2 = h.chunks2 /\ x.current2 = h.current2
Second(h, x, cs, n) ==
    Used(h, x, n) /\ x.chunks2 = cs /\ x.current2 = h.current2 + n /\ x.chunks = h.chunks /\ x.current = h.current
FirstGrown(h, x, cs, w) == Grown(h, x, w) /\ x.chunks = cs /\ x.chunks2 = h.chunks2 /\ x.current2 = h.current2
SecondGrown(h, x, cs, b, w) == Grown(h, x, w) /\ x.chunks2 = cs /\ x.current2 = b + 1 /\ x.chunks = h.chunks

\* A heap that got an object.
LEMMA HeapAdded == ASSUME NEW h \in HeapRecs, NEW cs \in Seq(ChunkRecs), NEW n \in Nat
                   PROVE  First(h, WithObject(h, cs, n), cs, n)
<1>0. PICK x : x = WithObject(h, cs, n)
  OBVIOUS
<1>1. h.current \in Nat /\ h.free \in Int /\ h.used \in Int
  BY DEF HeapRecs
<1>2. h.current + n \in Nat /\ h.free - n \in Int /\ h.used + n \in Int
  BY <1>1
<1>3. x = [h EXCEPT !.chunks = cs, !.current = h.current + n, !.free = h.free - n, !.used = h.used + n]
  BY <1>0 DEF WithObject
<1>4. /\ x.total = h.total /\ x.free = h.free - n /\ x.used = h.used + n
      /\ x.chunks = cs /\ x.current = h.current + n /\ x.chunks2 = h.chunks2 /\ x.current2 = h.current2
  BY <1>3 DEF HeapRecs
<1>5. x \in HeapRecs
  BY <1>2, <1>3 DEF HeapRecs
<1> QED BY <1>0, <1>4, <1>5 DEF Used, First

\* The same in the second semispace.
LEMMA HeapMoved == ASSUME NEW h \in HeapRecs, NEW cs \in Seq(ChunkRecs), NEW n \in Nat
                   PROVE  Second(h, WithMoved(h, cs, n), cs, n)
<1>0. PICK x : x = WithMoved(h, cs, n)
  OBVIOUS
<1>1. h.current2 \in Nat /\ h.free \in Int /\ h.used \in Int
  BY DEF HeapRecs
<1>2. h.current2 + n \in Nat /\ h.free - n \in Int /\ h.used + n \in Int
  BY <1>1
<1>3. x = [h EXCEPT !.chunks2 = cs, !.current2 = h.current2 + n, !.free = h.free - n, !.used = h.used + n]
  BY <1>0 DEF WithMoved
<1>4. /\ x.total = h.total /\ x.free = h.free - n /\ x.used = h.used + n
      /\ x.chunks2 = cs /\ x.current2 = h.current2 + n /\ x.chunks = h.chunks /\ x.current = h.current
  BY <1>3 DEF HeapRecs
<1>5. x \in HeapRecs
  BY <1>2, <1>3 DEF HeapRecs
<1> QED BY <1>0, <1>4, <1>5 DEF Used, Second

\* A heap that got a chunk.
LEMMA HeapGrown == ASSUME NEW h \in HeapRecs, NEW cs \in Seq(ChunkRecs), NEW b \in Nat, NEW w \in Nat
                   PROVE  FirstGrown(h, WithChunk(h, cs, b, w), cs, w)
<1>0. PICK x : x = WithChunk(h, cs, b, w)
  OBVIOUS
<1>1. h.total \in Int /\ h.free \in Int
  BY DEF HeapRecs
<1>2. b + 1 \in Nat /\ b + w \in Nat /\ h.total + w \in Int /\ h.free + w - 1 \in Int
  BY <1>1
<1>3. x = [h EXCEPT !.chunks = cs, !.current = b + 1, !.end = b + w, !.total = h.total + w, !.free = h.free + w - 1]
  BY <1>0 DEF WithChunk, HDR
<1>4. /\ x.chunks = cs /\ x.chunks2 = h.chunks2 /\ x.current2 = h.current2
      /\ x.total = h.total + w /\ x.free = h.free + w - 1 /\ x.used = h.used
  BY <1>3 DEF HeapRecs
<1>5. x \in HeapRecs
  BY <1>2, <1>3 DEF HeapRecs
<1> QED BY <1>0, <1>4, <1>5 DEF Grown, FirstGrown

\* A second semispace that got a chunk.
LEMMA HeapGrown2 == ASSUME NEW h \in HeapRecs, NEW cs \in Seq(ChunkRecs), NEW b \in Nat, NEW w \in Nat
                    PROVE  SecondGrown(h, WithChunk2(h, cs, b, w), cs, b, w)
<1>0. PICK x : x = WithChunk2(h, cs, b, w)
  OBVIOUS
<1>1. h.total \in Int /\ h.free \in Int
  BY DEF HeapRecs
<1>2. b + 1 \in Nat /\ b + w \in Nat /\ h.total + w \in Int /\ h.free + w - 1 \in Int
  BY <1>1
<1>3. x = [h EXCEPT !.chunks2 = cs, !.current2 = b + 1, !.end2 = b + w, !.total = h.total + w, !.free = h.free + w - 1]
  BY <1>0 DEF WithChunk2, HDR
<1>4. /\ x.chunks2 = cs /\ x.current2 = b + 1 /\ x.chunks = h.chunks
      /\ x.total = h.total + w /\ x.free = h.free + w - 1 /\ x.used = h.used
  BY <1>3 DEF HeapRecs
<1>5. x \in HeapRecs
  BY <1>2, <1>3 DEF HeapRecs
<1> QED BY <1>0, <1>4, <1>5 DEF Grown, SecondGrown

\* The statistics after an object or a chunk has been added.
LEMMA DescribedUsed == ASSUME NEW h \in HeapRecs, NEW x, NEW n \in Nat, NEW k, Used(h, x, n), NEW cs \in Seq(ChunkRecs),
                              Described(h, cs), NEW ds, Gained(cs, ds, n, k)
                       PROVE  Described(x, ds)
<1>1. /\ h.total = Words(cs) /\ h.used = 1 + ObjectWords(Walk(cs)) /\ h.used + h.free = h.total - (Len(cs) - 1)
      /\ h.total \in Int /\ h.used \in Int /\ h.free \in Int
  BY DescribedAs DEF HeapRecs
<1>2. ObjectWords(Walk(cs)) \in Nat
  BY ChunkMeasures
<1>3. /\ ds \in Seq(ChunkRecs) /\ ds # << >> /\ Len(ds) = Len(cs) /\ Words(ds) = Words(cs)
      /\ ObjectWords(Walk(ds)) = ObjectWords(Walk(cs)) + n
      /\ x.total = h.total /\ x.free = h.free - n /\ x.used = h.used + n
  BY DEF Used, Gained
<1>4. x.used + x.free = h.used + h.free /\ x.used = 1 + ObjectWords(Walk(ds))
  BY <1>1, <1>2, <1>3
<1>5. x.used + x.free = x.total - (Len(ds) - 1) /\ x.total = Words(ds)
  BY <1>1, <1>3, <1>4
<1> QED BY <1>3, <1>4, <1>5, DescribedAs

\* The same of a chunk.
LEMMA DescribedGrown == ASSUME NEW h \in HeapRecs, NEW x, NEW w \in Nat, Grown(h, x, w), NEW cs \in Seq(ChunkRecs),
                               Described(h, cs), NEW ds \in Seq(ChunkRecs), ds # << >>, Len(ds) = Len(cs) + 1,
                               Words(ds) = Words(cs) + w, ObjectWords(Walk(ds)) = ObjectWords(Walk(cs))
                        PROVE  Described(x, ds)
<1>1. /\ h.total = Words(cs) /\ h.used = 1 + ObjectWords(Walk(cs)) /\ h.used + h.free = h.total - (Len(cs) - 1)
      /\ h.total \in Int /\ h.used \in Int /\ h.free \in Int
  BY DescribedAs DEF HeapRecs
<1>2. Len(cs) \in Nat
  OBVIOUS
<1>3. x.total = h.total + w /\ x.free = h.free + w - 1 /\ x.used = h.used
  BY DEF Grown
<1>4. x.used + x.free = (h.used + h.free) + (w - 1)
  BY <1>1, <1>3
<1>5. x.used + x.free = x.total - (Len(ds) - 1)
  BY <1>1, <1>2, <1>3, <1>4
<1>6. x.total = Words(ds) /\ x.used = 1 + ObjectWords(Walk(ds))
  BY <1>1, <1>3
<1> QED BY <1>5, <1>6, DescribedAs

\* The heap is made.
LEMMA InitKeeps == ASSUME ChunkInv, NEW d \in Heaps, gc_chunked_init(d) PROVE ChunkInv'
<1>1. CASE ~MayAlloc(InitialWords)
  BY <1>1, WaitKeeps DEF gc_chunked_init
<1>2. CASE MayAlloc(InitialWords)
  <2>1. PICK b \in jxmalloc :
           /\ heap' = [heap EXCEPT ![d] =
                [EmptyHeap EXCEPT !.chunks = <<NewChunk(b, InitialWords)>>, !.current = b + HDR,
                                  !.end = b + InitialWords, !.total = InitialWords,
                                  !.free = InitialWords - HDR, !.used = HDR]]
           /\ consumed' = consumed + InitialWords
           /\ pc' = [pc EXCEPT ![d] = At("run", NoAlloc, << >>)]
           /\ refs' = refs
    BY <1>2 DEF gc_chunked_init
  <2>2. InitialWords \in Nat /\ b \in Nat
    BY ChunkedAssumption, PlaceType
  <2>3. PICK c \in ChunkRecs : c = NewChunk(b, InitialWords) /\ c.objs = << >> /\ c.size = InitialWords
    BY <2>2, PlaceType
  <2>4. PICK h : h = [EmptyHeap EXCEPT !.chunks = <<c>>, !.current = b + HDR,
                                  !.end = b + InitialWords, !.total = InitialWords,
                                  !.free = InitialWords - HDR, !.used = HDR]
    OBVIOUS
  <2>5. /\ h.chunks = <<c>> /\ h.chunks2 = << >> /\ h.current = b + 1 /\ h.current2 = 0 /\ h.total = InitialWords
        /\ h.free = InitialWords - 1 /\ h.used = 1 /\ h \in HeapRecs
    <3>1. h = [chunks |-> <<c>>, current |-> b + 1, end |-> b + InitialWords, chunks2 |-> << >>, current2 |-> 0, end2 |-> 0,
               total |-> InitialWords, free |-> InitialWords - 1, used |-> 1]
      BY <2>4 DEF EmptyHeap, HDR
    <3>2. <<c>> \in Seq(ChunkRecs) /\ << >> \in Seq(ChunkRecs)
      BY <2>3
    <3>3. b + 1 \in Nat /\ b + InitialWords \in Nat /\ InitialWords \in Int /\ InitialWords - 1 \in Int
      BY <2>2
    <3> QED BY <3>1, <3>2, <3>3 DEF HeapRecs
  <2>6. PICK p \in ThreadRecs : p = At("run", NoAlloc, << >>) /\ p.at = "run"
    <3>1. At("run", NoAlloc, << >>) = [at |-> "run", req |-> [size |-> 0, kind |-> "object"], todo |-> << >>]
      BY DEF At, NoAlloc
    <3>2. << >> \in Seq(ObjectRecs)
      OBVIOUS
    <3>3. At("run", NoAlloc, << >>) \in ThreadRecs
      <4>1. PICK q \in [size : Nat, kind : {"object", "portal"}] : q = [size |-> 0, kind |-> "object"]
        OBVIOUS
      <4>2. PICK e \in Seq(ObjectRecs) : e = << >>
        BY <3>2, Zenon
      <4>3. [at |-> "run", req |-> q, todo |-> e] \in ThreadRecs
        BY DEF ThreadRecs
      <4> QED BY <3>1, <4>1, <4>2, <4>3
    <3>4. At("run", NoAlloc, << >>).at = "run"
      BY <3>1
    <3> QED BY <3>3, <3>4, Zenon
  <2>7. << >> \in Seq(ChunkRecs) /\ <<c>> = Append(<< >>, c) /\ Len(<<c>>) = 1 /\ <<c>> # << >>
    BY <2>3
  <2>8. Words(<< >>) = 0 /\ ObjectWords(Walk(<< >>)) = 0 /\ Portals(Walk(<< >>)) = 0
    BY NoChunks
  <2>9. Words(<<c>>) = InitialWords /\ ObjectWords(Walk(<<c>>)) = 0 /\ Portals(Walk(<<c>>)) = 0
    <3>1. PICK e \in Seq(ChunkRecs) : e = << >>
      BY <2>7
    <3>2. /\ Words(Append(e, c)) = Words(e) + c.size /\ ObjectWords(Walk(Append(e, c))) = ObjectWords(Walk(e))
          /\ Portals(Walk(Append(e, c))) = Portals(Walk(e))
      BY <2>3, ChunkAdded
    <3> QED BY <2>2, <2>3, <2>7, <2>8, <3>1, <3>2
  <2>10. HeapRight(h, p)
    BY <2>2, <2>5, <2>6, <2>7, <2>9 DEF HeapRight, Described, HDR
  <2>11. heap[d].chunks = << >> /\ heap[d].chunks2 = << >>
    BY DEF gc_chunked_init, Runs, ChunkInv, HeapRight
  <2>12. Held(heap[d]) = 0 /\ PortalsHeld(heap[d]) = 0 /\ Held(h) = InitialWords /\ PortalsHeld(h) = 0
    BY <2>2, <2>5, <2>8, <2>9, <2>11 DEF Held, PortalsHeld, gc_chunked_walkHeap
  <2>13. consumed \in Int /\ refs \in Int
    BY DEF ChunkInv, ChunkTypes
  <2>14. /\ consumed' = consumed - Held(heap[d]) + Held(h) /\ InLimit(consumed')
         /\ refs' = refs - PortalsHeld(heap[d]) + PortalsHeld(h)
    BY <1>2, <2>1, <2>2, <2>12, <2>13 DEF MayAlloc, InLimit
  <2>15. heap' = [heap EXCEPT ![d] = h] /\ pc' = [pc EXCEPT ![d] = p]
    BY <2>1, <2>3, <2>4, <2>6
  <2> QED BY <2>5, <2>6, <2>10, <2>14, <2>15, ChunkFrame
<1> QED BY <1>1, <1>2

\* An object is asked for.
LEMMA AskedKeeps == ASSUME ChunkInv, NEW d \in Heaps, NEW size \in ObjectSizes, NEW kind \in {"object", "portal"}, Request(d, size, kind)
                      PROVE  ChunkInv'
<1>1. size \in Nat
  BY ChunkedAssumption
<1>2. PICK p : p = At(IF heap[d].used >= CollectAt THEN "gc" ELSE "try", [size |-> size, kind |-> kind], << >>)
  OBVIOUS
<1>3. p \in ThreadRecs /\ p.at \in {"gc", "try"}
  BY <1>1, <1>2 DEF At, ThreadRecs
<1>4. HeapRight(heap[d], pc[d]) /\ pc[d].at = "run"
  BY DEF ChunkInv, Request, Runs
<1>5. HeapRight(heap[d], p)
  BY <1>3, <1>4 DEF HeapRight, Described
<1>6. pc' = [pc EXCEPT ![d] = p] /\ UNCHANGED <<heap, consumed, refs>>
  BY <1>2 DEF Request
<1> QED BY <1>3, <1>5, <1>6, ChunkStays

\* The thread goes on elsewhere.
LEMMA GotoPlace == ASSUME NEW p \in ThreadRecs, NEW l \in {"off", "run", "gc", "try", "copy", "panic", "wild", "lost"}
                   PROVE  [p EXCEPT !.at = l] \in ThreadRecs /\ [p EXCEPT !.at = l].at = l
BY DEF ThreadRecs

\* An object is placed, or a chunk for it, or there is no room.
LEMMA TryKeeps == ASSUME ChunkInv, NEW d \in Heaps, TryAlloc(d) PROVE ChunkInv'
<1> DEFINE h == heap[d]
           r == pc[d].req
           last == LastOf(h.chunks)
<1>1. /\ h \in HeapRecs /\ pc[d] \in ThreadRecs /\ h.chunks \in Seq(ChunkRecs) /\ h.chunks2 \in Seq(ChunkRecs)
      /\ h.current \in Nat /\ h.total \in Int /\ h.free \in Int /\ h.used \in Int /\ r.size \in Nat
      /\ r.kind \in {"object", "portal"}
  BY HeapFields DEF ChunkInv
<1>2. HeapRight(h, pc[d]) /\ pc[d].at = "try" /\ consumed \in Int /\ refs \in Int /\ InLimit(consumed)
  BY DEF ChunkInv, ChunkTypes, TryAlloc, Runs
<1>3. CASE r.size > ChunkWords - HDR \/ h.current = 0
  <2>1. PICK p \in ThreadRecs : p = [pc[d] EXCEPT !.at = "panic"] /\ p.at = "panic"
    BY <1>1, GotoPlace
  <2>2. pc' = [pc EXCEPT ![d] = p] /\ UNCHANGED <<heap, consumed, refs>>
    BY <1>3, <2>1 DEF TryAlloc, Goto
  <2>3. HeapRight(h, p)
    BY <1>2, <2>1 DEF HeapRight
  <2> QED BY <2>2, <2>3, ChunkStays
<1>4. CASE ~(r.size > ChunkWords - HDR \/ h.current = 0)
  <2>1. Described(h, h.chunks) /\ h.chunks2 = << >> /\ h.current2 = 0 /\ h.chunks # << >> /\ h.current # 0
    BY <1>2, <1>4 DEF HeapRight, Described
  <2>2. CASE h.current + r.size < h.end
    <3>1. PICK c : c = Placed(last, h.current, r)
      OBVIOUS
    <3>2. last \in ChunkRecs
      BY <1>1, <2>1, LastReplaced
    <3>3. c \in ChunkRecs /\ c.size = last.size /\ c.objs = Append(last.objs, [addr |-> h.current, size |-> r.size, kind |-> r.kind])
      <4>1. [addr |-> h.current, size |-> r.size, kind |-> r.kind] \in ObjectRecs
        BY <1>1 DEF ObjectRecs
      <4>2. last.objs \in Seq(ObjectRecs)
        BY <3>2 DEF ChunkRecs
      <4>3. Append(last.objs, [addr |-> h.current, size |-> r.size, kind |-> r.kind]) \in Seq(ObjectRecs)
        BY <4>1, <4>2
      <4> QED BY <3>1, <3>2, <4>3 DEF Placed, ChunkRecs
    <3>4. PICK cs : cs = WithLast(h.chunks, c)
      OBVIOUS
    <3>5. Gained(h.chunks, cs, r.size, r.kind)
      <4>1. PICK os \in Seq(ChunkRecs), a \in Nat, n \in Nat, k \in {"object", "portal"} :
              os = h.chunks /\ a = h.current /\ n = r.size /\ k = r.kind
        BY <1>1
      <4>2. os # << >> /\ c \in ChunkRecs /\ c.size = LastOf(os).size /\ c.objs = Append(LastOf(os).objs, [addr |-> a, size |-> n, kind |-> k])
        BY <2>1, <3>3, <4>1
      <4>3. Gained(os, WithLast(os, c), n, k)
        BY <4>2, PlacedCounted, Zenon
      <4> QED BY <3>4, <4>1, <4>3
    <3>6. PICK x : x = WithObject(h, cs, r.size)
      OBVIOUS
    <3>7. Used(h, x, r.size) /\ x.chunks = cs /\ x.chunks2 = << >> /\ x.current2 = 0 /\ x.current = h.current + r.size
      <4>1. cs \in Seq(ChunkRecs)
        BY <3>5 DEF Gained
      <4>2. First(h, x, cs, r.size)
        BY <1>1, <3>6, <4>1, HeapAdded
      <4> QED BY <2>1, <4>2 DEF First
    <3>8. PICK p \in ThreadRecs : p = [pc[d] EXCEPT !.at = IF h.current + r.size > last.base + last.size THEN "wild" ELSE "run"]
                                  /\ p.at \in {"wild", "run"}
      BY <1>1, GotoPlace
    <3>9. /\ heap' = [heap EXCEPT ![d] = x] /\ pc' = [pc EXCEPT ![d] = p] /\ consumed' = consumed
          /\ refs' = IF r.kind = "portal" THEN refs + 1 ELSE refs
      BY <1>4, <2>2, <3>1, <3>4, <3>6, <3>8 DEF TryAlloc, Goto, WithObject
    <3>11. HeapRight(x, p)
      <4>1. Described(x, x.chunks)
        <5>1. PICK y \in HeapRecs, os \in Seq(ChunkRecs), n \in Nat : y = h /\ os = h.chunks /\ n = r.size
          BY <1>1
        <5>2. Used(y, x, n)
          BY <3>7, <5>1
        <5>3. Described(y, os)
          BY <2>1, <5>1
        <5>4. Gained(os, cs, n, r.kind)
          BY <3>5, <5>1
        <5>5. Described(x, cs)
          BY <5>2, <5>3, <5>4, DescribedUsed
        <5> QED BY <3>7, <5>5
      <4>2. x.current # 0
        BY <1>1, <2>1, <3>7
      <4> QED BY <3>7, <3>8, <4>1, <4>2 DEF HeapRight
    <3>12. Held(x) = Held(h) /\ PortalsHeld(x) = PortalsHeld(h) + Weight(r.kind)
      BY <2>1, <3>5, <3>7 DEF Held, PortalsHeld, gc_chunked_walkHeap, Gained
    <3>13. Held(h) \in Nat /\ PortalsHeld(h) \in Nat
      BY <1>1, HeldType
    <3>14. /\ consumed' = consumed - Held(h) + Held(x) /\ InLimit(consumed')
           /\ refs' = refs - PortalsHeld(h) + PortalsHeld(x)
      BY <1>2, <3>9, <3>12, <3>13 DEF Weight
    <3>15. x \in HeapRecs
      BY <3>7 DEF Used
    <3> QED BY <3>15, <3>8, <3>9, <3>11, <3>14, ChunkFrame
  <2>3. CASE ~(h.current + r.size < h.end) /\ ~MayTryAlloc(ChunkWords)
    <3>1. PICK cs : cs = Closed(h)
      OBVIOUS
    <3>2. /\ cs \in Seq(ChunkRecs) /\ cs # << >> /\ Words(cs) = Words(h.chunks) /\ Portals(Walk(cs)) = Portals(Walk(h.chunks))
      BY <1>1, <2>1, <3>1, ClosedSame
    <3>3. PICK x : x = [h EXCEPT !.chunks = cs]
      OBVIOUS
    <3>4. x \in HeapRecs /\ x.chunks = cs /\ x.chunks2 = << >> /\ x.current2 = 0
      BY <1>1, <2>1, <3>2, <3>3 DEF HeapRecs
    <3>5. PICK p \in ThreadRecs : p = [pc[d] EXCEPT !.at = "gc"] /\ p.at = "gc"
      BY <1>1, GotoPlace
    <3>6. heap' = [heap EXCEPT ![d] = x] /\ pc' = [pc EXCEPT ![d] = p] /\ consumed' = consumed /\ refs' = refs
      BY <1>4, <2>3, <3>1, <3>3, <3>5 DEF TryAlloc, Goto
    <3>7. HeapRight(x, p)
      BY <3>2, <3>4, <3>5 DEF HeapRight
    <3>8. Held(x) = Held(h) /\ PortalsHeld(x) = PortalsHeld(h)
      BY <2>1, <3>2, <3>4 DEF Held, PortalsHeld, gc_chunked_walkHeap
    <3>9. Held(h) \in Nat /\ PortalsHeld(h) \in Nat
      BY <1>1, HeldType
    <3>10. /\ consumed' = consumed - Held(h) + Held(x) /\ InLimit(consumed')
           /\ refs' = refs - PortalsHeld(h) + PortalsHeld(x)
      BY <1>2, <3>6, <3>8, <3>9
    <3> QED BY <3>4, <3>5, <3>6, <3>7, <3>10, ChunkFrame
  <2>4. CASE ~(h.current + r.size < h.end) /\ MayTryAlloc(ChunkWords)
    <3>1. PICK b \in jxmalloc :
            /\ heap' = [heap EXCEPT ![d] =
                 [h EXCEPT !.chunks = Append(Closed(h), NewChunk(b, ChunkWords)),
                           !.current = b + HDR, !.end = b + ChunkWords,
                           !.total = @ + ChunkWords, !.free = @ + ChunkWords - HDR]]
            /\ consumed' = consumed + ChunkWords /\ UNCHANGED <<pc, refs>>
      BY <1>4, <2>4 DEF TryAlloc
    <3>2. ChunkWords \in Nat /\ CollectAt \in Nat /\ Limit \in Nat /\ b \in Nat
      BY ChunkedAssumption, PlaceType
    <3>3. PICK c \in ChunkRecs : c = NewChunk(b, ChunkWords) /\ c.objs = << >> /\ c.size = ChunkWords
      BY <3>2, PlaceType
    <3>4. PICK cl \in Seq(ChunkRecs) :
            /\ cl = Closed(h) /\ Len(cl) = Len(h.chunks) /\ Words(cl) = Words(h.chunks)
            /\ ObjectWords(Walk(cl)) = ObjectWords(Walk(h.chunks)) /\ Portals(Walk(cl)) = Portals(Walk(h.chunks))
      BY <1>1, <2>1, ClosedSame
    <3>5. PICK cs : cs = Append(cl, c)
      OBVIOUS
    <3>6. /\ cs \in Seq(ChunkRecs) /\ cs # << >> /\ Len(cs) = Len(h.chunks) + 1 /\ Words(cs) = Words(h.chunks) + ChunkWords
          /\ ObjectWords(Walk(cs)) = ObjectWords(Walk(h.chunks)) /\ Portals(Walk(cs)) = Portals(Walk(h.chunks))
      BY <3>3, <3>4, <3>5, ChunkAdded
    <3>7. PICK x : x = WithChunk(h, cs, b, ChunkWords)
      OBVIOUS
    <3>8. Grown(h, x, ChunkWords) /\ x \in HeapRecs /\ x.chunks = cs /\ x.chunks2 = << >> /\ x.current2 = 0
      <4>1. FirstGrown(h, x, cs, ChunkWords)
        BY <1>1, <3>2, <3>6, <3>7, HeapGrown
      <4> QED BY <2>1, <4>1 DEF FirstGrown, Grown
    <3>9. Words(h.chunks) \in Nat
      <4>1. h.chunks \in Seq(ChunkRecs)
        BY <1>1
      <4> QED BY <4>1, ChunkMeasures
    <3>10. HeapRight(x, pc[d])
      <4>1. Described(x, x.chunks)
        <5>1. PICK y \in HeapRecs, os \in Seq(ChunkRecs) : y = h /\ os = h.chunks
          BY <1>1
        <5>2. /\ Grown(y, x, ChunkWords) /\ Described(y, os) /\ cs \in Seq(ChunkRecs) /\ cs # << >> /\ Len(cs) = Len(os) + 1
              /\ Words(cs) = Words(os) + ChunkWords /\ ObjectWords(Walk(cs)) = ObjectWords(Walk(os))
          BY <2>1, <3>6, <3>8, <5>1
        <5>3. Described(x, cs)
          BY <3>2, <5>2, DescribedGrown, Zenon
        <5> QED BY <3>8, <5>3
      <4> QED BY <1>2, <3>8, <4>1 DEF HeapRight
    <3>11. Held(h) \in Nat /\ PortalsHeld(h) \in Nat
      BY <1>1, HeldType
    <3>12. Held(x) = Held(h) + ChunkWords /\ PortalsHeld(x) = PortalsHeld(h)
      <4>1. Words(<< >>) = 0
        BY NoChunks
      <4> QED BY <2>1, <3>2, <3>6, <3>8, <3>9, <4>1 DEF Held, PortalsHeld, gc_chunked_walkHeap
    <3>13. heap' = [heap EXCEPT ![d] = x] /\ pc' = [pc EXCEPT ![d] = pc[d]]
      <4>1. pc \in [Heaps -> ThreadRecs]
        BY DEF ChunkInv, ChunkTypes
      <4> QED BY <3>1, <3>3, <3>4, <3>5, <3>7, <4>1 DEF WithChunk
    <3>14. /\ consumed' = consumed - Held(h) + Held(x) /\ InLimit(consumed')
           /\ refs' = refs - PortalsHeld(h) + PortalsHeld(x)
      BY <1>2, <2>4, <3>1, <3>2, <3>11, <3>12 DEF MayTryAlloc, InLimit
    <3>15. PICK p \in ThreadRecs : p = pc[d]
      BY <1>1
    <3> QED BY <3>8, <3>10, <3>13, <3>14, <3>15, ChunkFrame
  <2> QED BY <2>2, <2>3, <2>4
<1> QED BY <1>3, <1>4

\* The values of a function with a finite domain.
LEMMA ImageFinite == ASSUME NEW S, IsFiniteSet(S), NEW T, NEW f \in [S -> T]
                     PROVE  IsFiniteSet({f[x] : x \in S})
<1>1. PICK R : R = {f[x] : x \in S}
  OBVIOUS
<1>2. f \in Surjection(S, R)
  BY <1>1 DEF Surjection
<1>3. IsFiniteSet(R)
  BY <1>2, FS_Surjection
<1> QED BY <1>1, <1>3

\* What a walk meets is a finite set of objects.
LEMMA MetType == ASSUME NEW cs \in Seq(ChunkRecs)
                 PROVE  Met(Walk(cs)) \subseteq ObjectRecs /\ IsFiniteSet(Met(Walk(cs)))
<1>1. DOMAIN Walk(cs) = DOMAIN cs /\ \A i \in DOMAIN cs : Walk(cs)[i] = cs[i].objs
  BY DEF Walk
<1>2. \A i \in DOMAIN cs : cs[i] \in ChunkRecs
  OBVIOUS
<1>3. \A x \in ChunkRecs : x.objs \in Seq(ObjectRecs)
  BY DEF ChunkRecs
<1>4. \A s \in Seq(ObjectRecs) : ToSet(s) \subseteq ObjectRecs /\ IsFiniteSet(ToSet(s))
  <2> SUFFICES ASSUME NEW s \in Seq(ObjectRecs) PROVE ToSet(s) \subseteq ObjectRecs /\ IsFiniteSet(ToSet(s))
    OBVIOUS
  <2>1. ToSet(s) \subseteq ObjectRecs
    BY DEF ToSet
  <2>2. IsFiniteSet(DOMAIN s)
    <3>1. DOMAIN s = 1..Len(s) /\ Len(s) \in Nat
      OBVIOUS
    <3> QED BY <3>1, FS_Interval
  <2>3. IsFiniteSet(ToSet(s))
    <3>1. DOMAIN s = 1..Len(s) /\ Len(s) \in Nat /\ s \in [1..Len(s) -> ObjectRecs]
      OBVIOUS
    <3> QED BY <2>2, <3>1, ImageFinite DEF ToSet
  <2> QED BY <2>1, <2>3
<1>5. PICK g : g = [i \in DOMAIN cs |-> ToSet(Walk(cs)[i])]
  OBVIOUS
<1>6. \A i \in DOMAIN cs : g[i] \subseteq ObjectRecs /\ IsFiniteSet(g[i])
  BY <1>1, <1>2, <1>3, <1>4, <1>5
<1>7. PICK G : G = {g[i] : i \in DOMAIN cs}
  OBVIOUS
<1>8. IsFiniteSet(G)
  <2>1. DOMAIN cs = 1..Len(cs) /\ Len(cs) \in Nat
    OBVIOUS
  <2>2. IsFiniteSet(DOMAIN cs)
    BY <2>1, FS_Interval
  <2>3. g \in [DOMAIN cs -> SUBSET ObjectRecs]
    BY <1>5, <1>6
  <2> QED BY <1>7, <2>2, <2>3, ImageFinite
<1>9. Met(Walk(cs)) = UNION G
  BY <1>1, <1>5, <1>7 DEF Met
<1>10. \A T \in G : T \subseteq ObjectRecs /\ IsFiniteSet(T)
  BY <1>6, <1>7
<1>11. IsFiniteSet(UNION G)
  BY <1>8, <1>10, FS_UNION
<1>12. UNION G \subseteq ObjectRecs
  BY <1>10
<1> QED BY <1>9, <1>11, <1>12

\* A collection starts.
LEMMA StartKeeps == ASSUME ChunkInv, NEW d \in Heaps, GcStart(d) PROVE ChunkInv'
<1> DEFINE h == heap[d]
<1>1. h \in HeapRecs /\ pc[d] \in ThreadRecs /\ h.chunks \in Seq(ChunkRecs) /\ h.chunks2 \in Seq(ChunkRecs)
  BY HeapFields DEF ChunkInv
<1>2. HeapRight(h, pc[d]) /\ pc[d].at = "gc" /\ consumed \in Int /\ refs \in Int /\ InLimit(consumed)
  BY DEF ChunkInv, ChunkTypes, GcStart, Runs
<1>3. h.chunks # << >> /\ h.chunks2 = << >> /\ h.current2 = 0
  BY <1>2 DEF HeapRight
<1>4. PICK live \in SUBSET Met(Walk(h.chunks)) : \E todo \in SetToSeqs(live) :
          pc' = [pc EXCEPT ![d] = At("copy", pc[d].req, todo)]
  BY DEF GcStart, gc_chunked_walkHeap
<1>5. PICK todo \in SetToSeqs(live) : pc' = [pc EXCEPT ![d] = At("copy", pc[d].req, todo)]
  BY <1>4
<1>6. todo \in Seq(ObjectRecs)
  <2>1. live \subseteq ObjectRecs /\ IsFiniteSet(live)
    <3>1. Met(Walk(h.chunks)) \subseteq ObjectRecs /\ IsFiniteSet(Met(Walk(h.chunks)))
      BY <1>1, MetType
    <3> QED BY <3>1, FS_Subset
  <2>2. PICK n \in Nat : n = Cardinality(live)
    BY <2>1, FS_CardinalityType
  <2>3. todo \in [1..n -> live]
    BY <2>2 DEF SetToSeqs
  <2> QED BY <2>1, <2>3
<1>7. PICK p : p = At("copy", pc[d].req, todo)
  OBVIOUS
<1>8. p \in ThreadRecs /\ p.at = "copy"
  BY <1>1, <1>6, <1>7 DEF At, ThreadRecs
<1>9. PICK cs : cs = Closed(h)
  OBVIOUS
<1>10. cs \in Seq(ChunkRecs) /\ Words(cs) = Words(h.chunks) /\ Portals(Walk(cs)) = Portals(Walk(h.chunks))
  BY <1>1, <1>3, <1>9, ClosedSame
<1>11. PICK x : x = [h EXCEPT !.chunks = cs]
  OBVIOUS
<1>12. x \in HeapRecs /\ x.chunks = cs /\ x.chunks2 = << >> /\ x.current2 = 0
  BY <1>1, <1>3, <1>10, <1>11 DEF HeapRecs
<1>13. heap' = [heap EXCEPT ![d] = x] /\ pc' = [pc EXCEPT ![d] = p] /\ consumed' = consumed /\ refs' = refs
  BY <1>5, <1>7, <1>9, <1>11 DEF GcStart
<1>14. HeapRight(x, p)
  BY <1>8, <1>12 DEF HeapRight
<1>15. Held(x) = Held(h) /\ PortalsHeld(x) = PortalsHeld(h)
  BY <1>3, <1>10, <1>12 DEF Held, PortalsHeld, gc_chunked_walkHeap
<1>16. Held(h) \in Nat /\ PortalsHeld(h) \in Nat
  BY <1>1, HeldType
<1>17. /\ consumed' = consumed - Held(h) + Held(x) /\ InLimit(consumed')
       /\ refs' = refs - PortalsHeld(h) + PortalsHeld(x)
  BY <1>2, <1>13, <1>15, <1>16
<1> QED BY <1>8, <1>12, <1>13, <1>14, <1>17, ChunkFrame

\* The next object is moved, or a chunk is taken for it.
LEMMA MovedKeeps == ASSUME ChunkInv, NEW d \in Heaps, allocHeap2(d) PROVE ChunkInv'
<1> DEFINE h == heap[d]
           o == Head(pc[d].todo)
           first == h.current2 = 0
           words == IF first THEN InitialWords ELSE ChunkWords
<1>1. /\ h \in HeapRecs /\ pc[d] \in ThreadRecs /\ h.chunks \in Seq(ChunkRecs) /\ h.chunks2 \in Seq(ChunkRecs)
      /\ h.current2 \in Nat /\ h.total \in Int /\ h.free \in Int /\ h.used \in Int
      /\ pc[d].todo \in Seq(ObjectRecs)
  BY HeapFields DEF ChunkInv
<1>2. /\ HeapRight(h, pc[d]) /\ pc[d].at = "copy" /\ consumed \in Int /\ refs \in Int /\ InLimit(consumed)
      /\ pc[d].todo # << >>
  BY DEF ChunkInv, ChunkTypes, allocHeap2, Runs
<1>3. IF first THEN h.chunks2 = << >> ELSE Described(h, h.chunks2)
  BY <1>2 DEF HeapRight
<1>4. Held(h) \in Nat /\ PortalsHeld(h) \in Nat /\ Words(h.chunks) \in Nat /\ Words(h.chunks2) \in Nat
  BY <1>1, HeldType, ChunkMeasures
<1>5. CASE ~first /\ h.current2 + o.size < h.end2
  <2>1. o \in ObjectRecs /\ Tail(pc[d].todo) \in Seq(ObjectRecs)
    BY <1>1, <1>2
  <2>2. o.size \in Nat /\ o.kind \in {"object", "portal"}
    BY <2>1 DEF ObjectRecs
  <2>3. h.chunks2 # << >> /\ Described(h, h.chunks2)
    BY <1>3, <1>5 DEF Described
  <2>4. PICK last \in ChunkRecs : last = LastOf(h.chunks2)
    BY <1>1, <2>3, LastReplaced
  <2>5. PICK c : c = [Placed(last, h.current2, o) EXCEPT !.cur = h.current2 + o.size]
    OBVIOUS
  <2>6. c \in ChunkRecs /\ c.size = last.size /\ c.objs = Append(last.objs, [addr |-> h.current2, size |-> o.size, kind |-> o.kind])
    <3>1. [addr |-> h.current2, size |-> o.size, kind |-> o.kind] \in ObjectRecs
      BY <1>1, <2>2 DEF ObjectRecs
    <3>2. last.objs \in Seq(ObjectRecs)
      BY <2>4 DEF ChunkRecs
    <3>3. Append(last.objs, [addr |-> h.current2, size |-> o.size, kind |-> o.kind]) \in Seq(ObjectRecs)
      BY <3>1, <3>2
    <3>4. h.current2 + o.size \in Nat
      BY <1>1, <2>2
    <3> QED BY <2>4, <2>5, <3>3, <3>4 DEF Placed, ChunkRecs
  <2>7. PICK cs : cs = WithLast(h.chunks2, c)
    OBVIOUS
  <2>8. Gained(h.chunks2, cs, o.size, o.kind)
    <3>1. PICK os \in Seq(ChunkRecs), a \in Nat, n \in Nat, k \in {"object", "portal"} :
            os = h.chunks2 /\ a = h.current2 /\ n = o.size /\ k = o.kind
      BY <1>1, <2>2
    <3>2. os # << >> /\ c \in ChunkRecs /\ c.size = LastOf(os).size /\ c.objs = Append(LastOf(os).objs, [addr |-> a, size |-> n, kind |-> k])
      BY <2>3, <2>4, <2>6, <3>1
    <3>3. Gained(os, WithLast(os, c), n, k)
      BY <3>2, PlacedCounted, Zenon
    <3> QED BY <2>7, <3>1, <3>3
  <2>9. PICK x : x = WithMoved(h, cs, o.size)
    OBVIOUS
  <2>10. cs \in Seq(ChunkRecs) /\ Words(cs) = Words(h.chunks2)
    BY <2>8 DEF Gained
  <2>11. Used(h, x, o.size) /\ x \in HeapRecs /\ x.chunks2 = cs /\ x.current2 = h.current2 + o.size /\ x.chunks = h.chunks
    <3>1. Second(h, x, cs, o.size)
      BY <1>1, <2>2, <2>9, <2>10, HeapMoved
    <3> QED BY <3>1 DEF Second, Used
  <2>12. PICK p : p = [pc[d] EXCEPT !.todo = Tail(pc[d].todo)]
    OBVIOUS
  <2>13. p \in ThreadRecs /\ p.at = "copy"
    BY <1>1, <1>2, <2>1, <2>12 DEF ThreadRecs
  <2>14. Described(x, cs)
    <3>1. PICK y \in HeapRecs, os \in Seq(ChunkRecs), n \in Nat : y = h /\ os = h.chunks2 /\ n = o.size
      BY <1>1, <2>2
    <3>2. Used(y, x, n)
      BY <2>11, <3>1
    <3>3. Described(y, os)
      BY <2>3, <3>1
    <3>4. Gained(os, cs, n, o.kind)
      BY <2>8, <3>1
    <3> QED BY <3>2, <3>3, <3>4, DescribedUsed
  <2>15. HeapRight(x, p)
    <3>1. x.current2 # 0
      BY <1>1, <1>5, <2>2, <2>11
    <3> QED BY <2>11, <2>13, <2>14, <3>1 DEF HeapRight
  <2>16. heap' = [heap EXCEPT ![d] = x] /\ pc' = [pc EXCEPT ![d] = p] /\ consumed' = consumed /\ refs' = refs
    <3>1. heap' = [heap EXCEPT ![d] =
               [h EXCEPT !.chunks2 = WithLast(@, [Placed(LastOf(@), h.current2, o) EXCEPT !.cur = h.current2 + o.size]),
                         !.current2 = @ + o.size, !.free = @ - o.size, !.used = @ + o.size]]
      BY <1>5, Zenon DEF allocHeap2
    <3>2. pc' = [pc EXCEPT ![d].todo = Tail(@)] /\ UNCHANGED <<consumed, refs>>
      BY <1>5 DEF allocHeap2
    <3>3. x = [h EXCEPT !.chunks2 = WithLast(@, [Placed(LastOf(@), h.current2, o) EXCEPT !.cur = h.current2 + o.size]),
                        !.current2 = @ + o.size, !.free = @ - o.size, !.used = @ + o.size]
      BY <2>4, <2>5, <2>7, <2>9 DEF WithMoved
    <3>4. heap' = [heap EXCEPT ![d] = x]
      BY <3>1, <3>3, Zenon
    <3>5. pc' = [pc EXCEPT ![d] = p]
      BY <2>12, <3>2
    <3> QED BY <3>2, <3>4, <3>5
  <2>17. Held(x) = Held(h) /\ PortalsHeld(x) = PortalsHeld(h)
    BY <2>10, <2>11 DEF Held, PortalsHeld, gc_chunked_walkHeap
  <2>18. /\ consumed' = consumed - Held(h) + Held(x) /\ InLimit(consumed')
         /\ refs' = refs - PortalsHeld(h) + PortalsHeld(x)
    BY <1>2, <1>4, <2>16, <2>17
  <2> QED BY <2>11, <2>13, <2>15, <2>16, <2>18, ChunkFrame
<1>6. CASE ~(~first /\ h.current2 + o.size < h.end2) /\ ~MayAlloc(words)
  BY <1>6, WaitKeeps DEF allocHeap2
<1>7. CASE ~(~first /\ h.current2 + o.size < h.end2) /\ MayAlloc(words)
  <2>1. PICK b \in jxmalloc :
          /\ heap' = [heap EXCEPT ![d] =
               [h EXCEPT !.chunks2 = Append(@, NewChunk(b, words)), !.current2 = b + HDR, !.end2 = b + words,
                         !.total = IF first THEN words ELSE @ + words,
                         !.free = IF first THEN words - HDR ELSE @ + words - HDR,
                         !.used = IF first THEN HDR ELSE @]]
          /\ consumed' = consumed + words /\ UNCHANGED <<pc, refs>>
    BY <1>7 DEF allocHeap2
  <2>2. InitialWords \in Nat /\ ChunkWords \in Nat /\ Limit \in Nat
    BY ChunkedAssumption
  <2>3. PICK w \in Nat : w = words
    BY <2>2
  <2>4. b \in Nat
    BY <2>3, PlaceType
  <2>5. PICK c \in ChunkRecs : c = NewChunk(b, w) /\ c.objs = << >> /\ c.size = w
    BY <2>4, PlaceType
  <2>6. PICK cs : cs = Append(h.chunks2, c)
    OBVIOUS
  <2>7. /\ cs \in Seq(ChunkRecs) /\ cs # << >> /\ Len(cs) = Len(h.chunks2) + 1 /\ Words(cs) = Words(h.chunks2) + w
        /\ ObjectWords(Walk(cs)) = ObjectWords(Walk(h.chunks2))
    BY <1>1, <2>5, <2>6, ChunkAdded
  <2>8. PICK x : heap' = [heap EXCEPT ![d] = x] /\ x =
               [h EXCEPT !.chunks2 = Append(@, NewChunk(b, w)), !.current2 = b + HDR, !.end2 = b + w,
                         !.total = IF first THEN w ELSE @ + w,
                         !.free = IF first THEN w - HDR ELSE @ + w - HDR,
                         !.used = IF first THEN HDR ELSE @]
    BY <2>1, <2>3
  <2>9. x \in HeapRecs /\ x.chunks2 = cs /\ x.current2 = b + 1 /\ x.chunks = h.chunks /\ Described(x, cs)
    <3>1. CASE first
      <4>1. x = [h EXCEPT !.chunks2 = cs, !.current2 = b + 1, !.end2 = b + w, !.total = w, !.free = w - 1, !.used = 1]
        BY <2>5, <2>6, <2>8, <3>1 DEF HDR
      <4>2. x \in HeapRecs
        <5>1. b + 1 \in Nat /\ b + w \in Nat /\ w \in Int /\ w - 1 \in Int
          BY <2>4
        <5>2. h.chunks \in Seq(ChunkRecs) /\ h.current \in Nat /\ h.end \in Nat
          BY <1>1 DEF HeapRecs
        <5>3. x = [chunks |-> h.chunks, current |-> h.current, end |-> h.end, chunks2 |-> cs, current2 |-> b + 1, end2 |-> b + w,
                   total |-> w, free |-> w - 1, used |-> 1]
          BY <1>1, <4>1 DEF HeapRecs
        <5> QED BY <2>7, <5>1, <5>2, <5>3 DEF HeapRecs
      <4>3. x.chunks2 = cs /\ x.current2 = b + 1 /\ x.chunks = h.chunks /\ x.total = w /\ x.free = w - 1 /\ x.used = 1
        BY <1>1, <4>1 DEF HeapRecs
      <4>4. h.chunks2 = << >>
        BY <1>3, <3>1
      <4>5. Len(cs) = 1 /\ Words(cs) = w /\ ObjectWords(Walk(cs)) = 0
        BY <2>7, <4>4, NoChunks
      <4>6. Described(x, cs)
        <5>1. x.total = Words(cs) /\ x.used = 1 + ObjectWords(Walk(cs)) /\ x.used + x.free = x.total - (Len(cs) - 1)
          BY <4>3, <4>5
        <5> QED BY <2>7, <5>1, DescribedAs
      <4> QED BY <4>2, <4>3, <4>6
    <3>2. CASE ~first
      <4>1. x = WithChunk2(h, cs, b, w)
        BY <2>5, <2>6, <2>8, <3>2 DEF WithChunk2
      <4>2. SecondGrown(h, x, cs, b, w)
        BY <1>1, <2>4, <2>7, <4>1, HeapGrown2
      <4>3. Grown(h, x, w) /\ x \in HeapRecs /\ x.chunks2 = cs /\ x.current2 = b + 1 /\ x.chunks = h.chunks
        BY <4>2 DEF SecondGrown, Grown
      <4>4. Described(x, cs)
        <5>1. PICK y \in HeapRecs, os \in Seq(ChunkRecs) : y = h /\ os = h.chunks2
          BY <1>1
        <5>2. /\ Grown(y, x, w) /\ Described(y, os) /\ cs \in Seq(ChunkRecs) /\ cs # << >> /\ Len(cs) = Len(os) + 1
              /\ Words(cs) = Words(os) + w /\ ObjectWords(Walk(cs)) = ObjectWords(Walk(os))
          BY <1>3, <2>7, <3>2, <4>3, <5>1
        <5> QED BY <5>2, DescribedGrown, Zenon
      <4> QED BY <4>3, <4>4
    <3> QED BY <3>1, <3>2
  <2>10. PICK p \in ThreadRecs : p = pc[d] /\ p.at = "copy" /\ pc' = [pc EXCEPT ![d] = p]
    <3>1. pc \in [Heaps -> ThreadRecs]
      BY DEF ChunkInv, ChunkTypes
    <3> QED BY <1>2, <2>1, <3>1
  <2>11. HeapRight(x, p)
    <3>1. x.current2 # 0
      BY <2>4, <2>9
    <3> QED BY <2>9, <2>10, <3>1 DEF HeapRight
  <2>12. Held(x) = Held(h) + w /\ PortalsHeld(x) = PortalsHeld(h)
    BY <1>4, <2>7, <2>9 DEF Held, PortalsHeld, gc_chunked_walkHeap
  <2>13. /\ consumed' = consumed - Held(h) + Held(x) /\ InLimit(consumed')
         /\ refs' = refs - PortalsHeld(h) + PortalsHeld(x)
    <3>1. consumed' = consumed + w /\ refs' = refs /\ consumed + w <= Limit
      BY <1>7, <2>1, <2>3 DEF MayAlloc
    <3> QED BY <1>2, <1>4, <2>2, <2>12, <3>1 DEF InLimit
  <2> QED BY <2>8, <2>9, <2>10, <2>11, <2>13, ChunkFrame
<1> QED BY <1>5, <1>6, <1>7

\* The old chunks are given back, and the second semispace is the heap.
LEMMA FinishKeeps == ASSUME ChunkInv, NEW d \in Heaps, GcFinish(d) PROVE ChunkInv'
<1> DEFINE h == heap[d]
<1>1. /\ h \in HeapRecs /\ pc[d] \in ThreadRecs /\ h.chunks \in Seq(ChunkRecs) /\ h.chunks2 \in Seq(ChunkRecs)
      /\ h.current2 \in Nat
  BY HeapFields DEF ChunkInv
<1>2. HeapRight(h, pc[d]) /\ pc[d].at = "copy" /\ consumed \in Int /\ refs \in Int /\ InLimit(consumed) /\ Limit \in Nat
  BY ChunkedAssumption DEF ChunkInv, ChunkTypes, GcFinish, Runs
<1>3. /\ Words(h.chunks) \in Nat /\ Words(h.chunks2) \in Nat /\ Portals(Walk(h.chunks)) \in Nat /\ Portals(Walk(h.chunks2)) \in Nat
  BY <1>1, ChunkMeasures
<1>4. PICK x : x = [h EXCEPT !.chunks = h.chunks2, !.current = h.current2, !.chunks2 = << >>, !.current2 = 0]
  OBVIOUS
<1>5. << >> \in Seq(ChunkRecs) /\ Words(<< >>) = 0
  BY NoChunks
<1>6. x \in HeapRecs
  BY <1>1, <1>4, <1>5 DEF HeapRecs
<1>7. /\ x.chunks = h.chunks2 /\ x.current = h.current2 /\ x.chunks2 = << >> /\ x.current2 = 0
      /\ x.total = h.total /\ x.free = h.free /\ x.used = h.used
  BY <1>1, <1>4 DEF HeapRecs
<1>8. PICK p \in ThreadRecs : p = [pc[d] EXCEPT !.at = IF switchBackTo = d THEN "try" ELSE "lost"] /\ p.at \in {"try", "lost"}
  BY <1>1, GotoPlace
<1>9. HeapRight(x, p)
  <2>1. h.current2 # 0 => Described(h, h.chunks2)
    BY <1>2 DEF HeapRight
  <2>2. x.current # 0 => Described(x, x.chunks)
    BY <1>7, <2>1 DEF Described
  <2> QED BY <1>7, <1>8, <2>2 DEF HeapRight
<1>10. heap' = [heap EXCEPT ![d] = x] /\ pc' = [pc EXCEPT ![d] = p] /\ consumed' = consumed - Words(h.chunks)
  BY <1>4, <1>8 DEF GcFinish, returnfrom_oneshot, Goto, freeChunks
<1>11. refs' = refs - (Portals(Walk(h.chunks)) - Portals(Walk(h.chunks2)))
  BY DEF GcFinish, finalizePortals, gc_chunked_walkHeap, gc_chunked_walkHeap2
<1>12. Held(h) = Words(h.chunks) + Words(h.chunks2) /\ PortalsHeld(h) = Portals(Walk(h.chunks))
  BY DEF Held, PortalsHeld, gc_chunked_walkHeap
<1>13. Held(x) = Words(h.chunks2) /\ PortalsHeld(x) = Portals(Walk(h.chunks2))
  BY <1>3, <1>5, <1>7 DEF Held, PortalsHeld, gc_chunked_walkHeap
<1>14. /\ consumed' = consumed - Held(h) + Held(x) /\ InLimit(consumed')
       /\ refs' = refs - PortalsHeld(h) + PortalsHeld(x)
  BY <1>2, <1>3, <1>10, <1>11, <1>12, <1>13, ChunkedAssumption DEF InLimit
<1> QED BY <1>6, <1>8, <1>9, <1>10, <1>14, ChunkFrame

\* An empty heap.
LEMMA EmptyType == /\ EmptyHeap \in HeapRecs /\ Held(EmptyHeap) = 0 /\ PortalsHeld(EmptyHeap) = 0
                   /\ EmptyHeap.chunks = << >> /\ EmptyHeap.chunks2 = << >> /\ EmptyHeap.current2 = 0
<1>1. << >> \in Seq(ChunkRecs) /\ Words(<< >>) = 0 /\ Portals(Walk(<< >>)) = 0
  BY NoChunks
<1>2. PICK e \in Seq(ChunkRecs) : e = << >>
  BY <1>1, Zenon
<1>3. EmptyHeap = [chunks |-> e, current |-> 0, end |-> 0, chunks2 |-> e, current2 |-> 0, end2 |-> 0,
                   total |-> 0, free |-> 0, used |-> 0]
  BY <1>2 DEF EmptyHeap
<1>4. EmptyHeap \in HeapRecs /\ EmptyHeap.chunks = e /\ EmptyHeap.chunks2 = e /\ EmptyHeap.current2 = 0
  BY <1>3 DEF HeapRecs
<1> QED BY <1>1, <1>2, <1>4 DEF Held, PortalsHeld, gc_chunked_walkHeap

\* The domain ends.
LEMMA DoneKeeps == ASSUME ChunkInv, NEW d \in Heaps, gc_chunked_done(d) PROVE ChunkInv'
<1> DEFINE h == heap[d]
<1>1. h \in HeapRecs /\ pc[d] \in ThreadRecs /\ h.chunks \in Seq(ChunkRecs)
  BY HeapFields DEF ChunkInv
<1>2. HeapRight(h, pc[d]) /\ pc[d].at = "run" /\ consumed \in Int /\ refs \in Int /\ InLimit(consumed) /\ Limit \in Nat
  BY ChunkedAssumption DEF ChunkInv, ChunkTypes, gc_chunked_done, Runs
<1>3. h.chunks2 = << >>
  BY <1>2 DEF HeapRight
<1>4. Words(h.chunks) \in Nat /\ Portals(Walk(h.chunks)) \in Nat /\ Words(<< >>) = 0
  BY <1>1, ChunkMeasures, NoChunks
<1>5. PICK x \in HeapRecs : x = EmptyHeap /\ Held(x) = 0 /\ PortalsHeld(x) = 0 /\ x.chunks = << >> /\ x.chunks2 = << >> /\ x.current2 = 0
  BY EmptyType
<1>6. PICK p \in ThreadRecs : p = [pc[d] EXCEPT !.at = "off"] /\ p.at = "off"
  BY <1>1, GotoPlace
<1>7. HeapRight(x, p)
  BY <1>5, <1>6 DEF HeapRight
<1>8. /\ heap' = [heap EXCEPT ![d] = x] /\ pc' = [pc EXCEPT ![d] = p] /\ consumed' = consumed - Words(h.chunks)
      /\ refs' = refs - Portals(Walk(h.chunks))
  BY <1>5, <1>6 DEF gc_chunked_done, Goto, freeChunks, gc_chunked_walkHeap
<1>9. Held(h) = Words(h.chunks) /\ PortalsHeld(h) = Portals(Walk(h.chunks))
  BY <1>3, <1>4 DEF Held, PortalsHeld, gc_chunked_walkHeap
<1>10. /\ consumed' = consumed - Held(h) + Held(x) /\ InLimit(consumed')
       /\ refs' = refs - PortalsHeld(h) + PortalsHeld(x)
  BY <1>2, <1>4, <1>5, <1>8, <1>9, ChunkedAssumption DEF InLimit
<1> QED BY <1>6, <1>7, <1>8, <1>10, ChunkFrame

\* At the start nothing is held.
LEMMA ChunksInit == ASSUME ChunkedInit PROVE ChunkInv
<1>1. PICK h \in HeapRecs : h = EmptyHeap /\ Held(h) = 0 /\ PortalsHeld(h) = 0 /\ h.chunks = << >> /\ h.chunks2 = << >> /\ h.current2 = 0
  BY EmptyType
<1>2. PICK p : p = At("off", NoAlloc, << >>)
  OBVIOUS
<1>3. p \in ThreadRecs /\ p.at = "off"
  <2>1. PICK q \in [size : Nat, kind : {"object", "portal"}] : q = NoAlloc
    BY DEF NoAlloc
  <2>2. << >> \in Seq(ObjectRecs)
    OBVIOUS
  <2>3. PICK e \in Seq(ObjectRecs) : e = << >>
    BY <2>2, Zenon
  <2>4. p = [at |-> "off", req |-> q, todo |-> e]
    BY <1>2, <2>1, <2>3 DEF At
  <2> QED BY <2>4 DEF ThreadRecs
<1>4. heap = [d \in Heaps |-> h] /\ pc = [d \in Heaps |-> p] /\ consumed = 0 /\ refs = 0
  BY <1>1, <1>2 DEF ChunkedInit
<1>5. HeapRight(h, p)
  BY <1>1, <1>3 DEF HeapRight
<1>6. SumFunction([d \in Heaps |-> 0]) = 0
  <2>1. PICK f \in [Heaps -> {0}] : f = [d \in Heaps |-> 0] /\ DOMAIN f = Heaps
    <3>1. [d \in Heaps |-> 0] \in [Heaps -> {0}] /\ DOMAIN [d \in Heaps |-> 0] = Heaps
      OBVIOUS
    <3> QED BY <3>1, Zenon
  <2>2. 0 \in {0} /\ (\A a, b \in {0} : a + b \in {0}) /\ Heaps \in SUBSET Heaps
    OBVIOUS
  <2>3. IsFiniteSet(Heaps)
    BY ChunkedAssumption
  <2>4. Tab(f)[Heaps] \in {0}
    BY <2>2, <2>3, TabType, Zenon
  <2> QED BY <2>1, <2>4, SumIsFold
<1>7. [d \in Heaps |-> Held(heap[d])] = [d \in Heaps |-> 0] /\ [d \in Heaps |-> PortalsHeld(heap[d])] = [d \in Heaps |-> 0]
  BY <1>1, <1>4
<1>8. InLimit(0)
  BY ChunkedAssumption DEF InLimit
<1>9. ChunkTypes
  BY <1>3, <1>4 DEF ChunkTypes
<1> QED BY <1>4, <1>5, <1>6, <1>7, <1>8, <1>9 DEF ChunkInv

\* However the collections of the domains interleave, the principal is
\* charged for exactly the chunks they hold, and never over its limit unless
\* that is smaller than what is kept back; a
\* domain that runs has statistics that describe its heap, and the portals
\* that count are those in the heaps (gc_chunked.c).
THEOREM ChunksAlwaysAccounted == ChunkedSpec => []ChunksAccounted
<1>1. ChunkedInit => ChunkInv
  BY ChunksInit
<1>2. ChunkInv /\ [ChunkedNext]_chunkVars => ChunkInv'
  <2> SUFFICES ASSUME ChunkInv, [ChunkedNext]_chunkVars PROVE ChunkInv'
    OBVIOUS
  <2>1. CASE UNCHANGED chunkVars
    BY <2>1 DEF chunkVars, ChunkInv, ChunkTypes
  <2>2. CASE ChunkedNext
    <3>1. PICK d \in Heaps :
            \/ gc_chunked_init(d) \/ TryAlloc(d) \/ GcStart(d) \/ allocHeap2(d) \/ GcFinish(d) \/ gc_chunked_done(d)
            \/ \E size \in ObjectSizes, kind \in {"object", "portal"} : Request(d, size, kind)
      BY <2>2 DEF ChunkedNext, ChunkedStep
    <3> QED BY <3>1, InitKeeps, TryKeeps, StartKeeps, MovedKeeps, FinishKeeps, DoneKeeps, AskedKeeps
  <2> QED BY <2>1, <2>2
<1>3. ChunkInv => ChunksAccounted
  BY DEF ChunkInv, ChunksAccounted, Held, PortalsHeld, HeapRight, Described, gc_chunked_walkHeap
<1> QED BY <1>1, <1>2, <1>3, PTL DEF ChunkedSpec

=============================================================================
