----------------------------- MODULE ArrayAlloc -----------------------------
(***************************************************************************)
(* Array classes (core/load.c) and the allocation of arrays of arrays       *)
(* (Memory/gc_alloc.c).                                                     *)
(*                                                                          *)
(* A class descriptor is a number; I and C are the descriptors of a          *)
(* primitive class and of a class.  The name of an array class is its depth   *)
(* and its base: <<2, I>> is [[I.  There are three ways to a descriptor: the  *)
(* linker goes by name through the list of shared array classes, an          *)
(* allocation by the element class, and a domain by name through a list of    *)
(* its own.  They know nothing of each other.                                *)
(***************************************************************************)
EXTENDS Integers, Sequences, FiniteSets, FiniteSetsExt, SequencesExt

CONSTANTS
    Bases,          \* a subset of {I, C}
    MaxDepth,       \* of array names
    Dims,           \* sizes of an array of arrays, outermost first
    MaxClasses,     \* array classes
    MaxGc           \* collections

I == 1
C == 2

VARIABLES
    descs,      \* descriptors: name, elem, room and need of the name
    shared,     \* sharedArrayClasses, newest first
    arrayClass, \* per descriptor: its arrayClass, 0 if NULL
    inDomain,   \* arrayClasses of the domain, newest first
    frames,     \* activations of doAllocMultiArray, innermost first
    sizes,      \* the sizes of the array of arrays
    epochNow,   \* gc.epoch
    cells,      \* arrays: class, the epoch they are from, their elements
    retval,     \* what the innermost activation returned, 0 if it is running
    astray      \* a store has gone to memory that is in use again

classVars == <<descs, shared, arrayClass, inDomain>>
arrayVars == <<classVars, frames, sizes, epochNow, cells, retval, astray>>

ArrayInit ==
    /\ descs = <<[name |-> <<0, I>>, elem |-> 0, room |-> 2, need |-> 2],
                 [name |-> <<0, C>>, elem |-> 0, room |-> 2, need |-> 2]>>
    /\ shared = << >> /\ arrayClass = <<0, 0>> /\ inDomain = << >>
    /\ frames = << >> /\ sizes = << >> /\ epochNow = 0 /\ cells = << >> /\ retval = 0 /\ astray = FALSE

-----------------------------------------------------------------------------
(* Array classes.  A registry r is a record of the variables classVars.      *)

Registry == [descs |-> descs, shared |-> shared, arrayClass |-> arrayClass, inDomain |-> inDomain]
SetRegistry(r) ==
    descs' = r.descs /\ shared' = r.shared /\ arrayClass' = r.arrayClass /\ inDomain' = r.inDomain

\* strlen: I, C, [I, [LC;, [[LC; and so on.
Strlen(name) == name[1] + (IF name[1] > 0 /\ name[2] = C THEN 3 ELSE 1)
NewDesc(r, name, elem, room) ==
    [r EXCEPT !.descs = Append(@, [name |-> name, elem |-> elem, room |-> room, need |-> Strlen(name) + 1]),
              !.arrayClass = Append(@, 0)]
ByName(r, list, name) == SelectSeq(list, LAMBDA id : r.descs[id].name = name)

\* A class found or made: the registry and the descriptor.
ClassAt(reg, id) == [reg |-> reg, id |-> id]

\* below is the element class, looked up by name.
createSharedArrayClassDesc(below, name) == NewDesc(below.reg, name, below.id, Strlen(name) + 1)

\* The element class is looked up, and made, the same way.
findSharedArrayClassDesc(reg, name) ==
    LET find[k \in 0..name[1]] ==
            LET known == ByName(reg, reg.shared, <<k, name[2]>>) IN
            IF k = 0 THEN ClassAt(reg, name[2])
            ELSE IF known # << >> THEN ClassAt(reg, known[1])
            ELSE LET r == createSharedArrayClassDesc(find[k - 1], <<k, name[2]>>)
                 IN ClassAt([r EXCEPT !.shared = <<Len(r.descs)>> \o @], Len(r.descs))
    IN find[name[1]]

\* The room for the name: [ and the name of an array or primitive class, [L, the
\* name and ; for another class, and one more.
createSharedArrayClassDescUsingElemClass(reg, elem) ==
    LET of == reg.descs[elem].name
        room == Strlen(of) + (IF of[1] > 0 \/ of[2] = I THEN 2 ELSE 4) + 1
    IN NewDesc(reg, <<of[1] + 1, of[2]>>, elem, room)

findSharedArrayClassDescByElemClass(reg, elem) ==
    IF reg.arrayClass[elem] # 0 THEN ClassAt(reg, reg.arrayClass[elem])
    ELSE LET r == createSharedArrayClassDescUsingElemClass(reg, elem)
         IN ClassAt([r EXCEPT !.shared = <<Len(r.descs)>> \o @, !.arrayClass[elem] = Len(r.descs)], Len(r.descs))

\* An array class of the domain's own.
createArrayClass(below, name) ==
    LET r == NewDesc(below.reg, name, below.id, Strlen(name) + 1)
    IN ClassAt([r EXCEPT !.inDomain = <<Len(r.descs)>> \o @], Len(r.descs))

findClass(reg, name) ==
    LET find[k \in 0..name[1]] ==
            LET known == ByName(reg, reg.inDomain, <<k, name[2]>>) IN
            IF k = 0 THEN ClassAt(reg, name[2])
            ELSE IF known # << >> THEN ClassAt(reg, known[1])
            ELSE createArrayClass(find[k - 1], <<k, name[2]>>)
    IN find[name[1]]

Space(n) == Len(descs) + n <= MaxClasses + 2
Idle == frames = << >>

\* patchClassPointer, for a class pointer in code that is being linked.
patchClassPointer(name) ==
    /\ Idle /\ Space(name[1])
    /\ SetRegistry(findSharedArrayClassDesc(Registry, name).reg)
    /\ UNCHANGED <<frames, sizes, epochNow, cells, retval, astray>>

-----------------------------------------------------------------------------
(* Arrays.  Kernel code holds their addresses in C variables, which a         *)
(* collection does not know of: an array it moved or freed is lost to it.     *)

\* specialAllocArray of n elements of class elem in state (reg, epoch): the
\* allocation may collect.
Collects == IF epochNow < MaxGc THEN {0, 1} ELSE {0}
NewArray(cls, n, e) == [class |-> cls, from |-> e, data |-> [i \in 1..n |-> 0]]

\* The class of the elements: a primitive class, a class, or an array class.
findClassOrPrimitive(name) == findClass(Registry, name)

\* One activation: its array class, where in sizes it is, gcEpoch, the array and
\* the next element.
Activation(cls, k) == [class |-> cls, at |-> k, gcEpoch |-> -1, array |-> 0, i |-> 1]
ElemClass(cls) == findClassOrPrimitive(<<descs[cls].name[1] - 1, descs[cls].name[2]>>)

\* vmSpecialAllocMultiArray, called with the descriptor the linker found.
vmSpecialAllocMultiArray(name, dims) ==
    LET f == findSharedArrayClassDesc(Registry, name) IN
    /\ Idle /\ retval = 0 /\ name[1] >= Len(dims) /\ Space(3 * name[1])
    /\ SetRegistry(f.reg)
    /\ sizes' = dims /\ frames' = <<Activation(f.id, 1)>>
    /\ UNCHANGED <<epochNow, cells, retval, astray>>

Top == frames[1]
LastDim == Top.at = Len(sizes)

\* A negative size throws, out of all activations.
NegativeSize ==
    /\ frames # << >> /\ Top.array = 0 /\ sizes[Top.at] < 0
    /\ SetRegistry(ElemClass(Top.class).reg)
    /\ frames' = << >> /\ sizes' = << >> /\ cells' = << >> /\ retval' = 0
    /\ UNCHANGED <<epochNow, astray>>

\* The array of the last dimension is returned as it is; another one is kept if
\* no collection has run since gcEpoch was read, else allocated again.
AllocLevel ==
    /\ frames # << >> /\ Top.array = 0 /\ retval = 0 /\ sizes[Top.at] >= 0
    /\ \E gc \in Collects :
        LET elem == ElemClass(Top.class)
            cls == findSharedArrayClassDescByElemClass(elem.reg, elem.id)
            n == Len(cells) + 1
        IN /\ SetRegistry(cls.reg)
           /\ epochNow' = epochNow + gc
           /\ cells' = Append(cells, NewArray(cls.id, sizes[Top.at], epochNow'))
           /\ IF LastDim THEN retval' = n /\ frames' = Tail(frames)
              ELSE /\ UNCHANGED retval
                   /\ frames' = IF gc = 1 THEN frames
                                ELSE [frames EXCEPT ![1].gcEpoch = epochNow, ![1].array = n]
    /\ UNCHANGED <<sizes, astray>>

CallLevel ==
    /\ frames # << >> /\ Top.array # 0 /\ retval = 0 /\ Top.i <= sizes[Top.at]
    /\ frames' = <<Activation(ElemClass(Top.class).id, Top.at + 1)>> \o frames
    /\ SetRegistry(ElemClass(Top.class).reg)
    /\ UNCHANGED <<sizes, epochNow, cells, retval, astray>>

\* Mutant: only the first element is followed by a look at the epoch.
StoreElement_ChecksOnce ==
    /\ frames # << >> /\ retval # 0
    /\ cells' = [cells EXCEPT ![Top.array].data[Top.i] = retval]
    /\ astray' = (astray \/ epochNow - cells[Top.array].from >= 2)
    /\ retval' = 0
    /\ frames' = [frames EXCEPT ![1] = IF Top.gcEpoch # epochNow /\ Top.i = 1 THEN Activation(Top.class, Top.at)
                                       ELSE [Top EXCEPT !.i = @ + 1]]
    /\ UNCHANGED <<classVars, sizes, epochNow>>

\* The store comes first, then the look at the epoch.  A store to an array from
\* an earlier epoch goes to where the array was: to the unused semispace after
\* one collection, to the one in use after two.  There it may hit any object of the
\* domain; of the arrays being made only retval is of this epoch, and it is dropped.
StoreElement ==
    /\ frames # << >> /\ retval # 0
    /\ cells' = [cells EXCEPT ![Top.array].data[Top.i] = retval]
    /\ astray' = (astray \/ epochNow - cells[Top.array].from >= 2)
    /\ retval' = 0
    /\ frames' = [frames EXCEPT ![1] = IF Top.gcEpoch # epochNow THEN Activation(Top.class, Top.at)
                                       ELSE [Top EXCEPT !.i = @ + 1]]
    /\ UNCHANGED <<classVars, sizes, epochNow>>

ReturnLevel ==
    /\ frames # << >> /\ Top.array # 0 /\ retval = 0 /\ Top.i > sizes[Top.at]
    /\ retval' = Top.array /\ frames' = Tail(frames)
    /\ UNCHANGED <<classVars, sizes, epochNow, cells, astray>>

\* Compiled code takes the result and drops it.
Dropped ==
    /\ Idle /\ retval # 0
    /\ retval' = 0 /\ cells' = << >> /\ sizes' = << >> /\ UNCHANGED astray
    /\ UNCHANGED <<classVars, frames, epochNow>>

ArrayNext ==
    \/ \E k \in 1..MaxDepth, b \in Bases : patchClassPointer(<<k, b>>)
    \/ \E k \in 1..MaxDepth, b \in Bases, dims \in Dims : vmSpecialAllocMultiArray(<<k, b>>, dims)
    \/ NegativeSize \/ AllocLevel \/ CallLevel \/ StoreElement \/ ReturnLevel \/ Dropped

(***************************************************************************)
(* An array of arrays that is returned is whole: however many collections    *)
(* came in between, it and all arrays it holds are of the present epoch, of   *)
(* the sizes asked for, and the class of each has the name of the element     *)
(* class of the array that holds it.  An array class is one level above its   *)
(* element class, its name has room, and all arrays with elements of one      *)
(* class share the array class which that class remembers.  Other objects of  *)
(* the domain are not covered (NoStrayStore).                                *)
(***************************************************************************)
ArraysWhole ==
    /\ Idle /\ retval # 0 =>
        LET whole[k \in 1..Len(sizes), a \in DOMAIN cells] ==
                /\ cells[a].from = epochNow /\ Len(cells[a].data) = sizes[k]
                /\ k < Len(sizes) => \A i \in 1..sizes[k] :
                    LET b == cells[a].data[i] IN
                    /\ b # 0 /\ whole[k + 1, b]
                    /\ descs[cells[b].class].name = descs[descs[cells[a].class].elem].name
        IN whole[1, retval]
    /\ \A id \in DOMAIN descs :
        /\ descs[id].elem # 0 =>
            /\ descs[id].name = <<descs[descs[id].elem].name[1] + 1, descs[descs[id].elem].name[2]>>
            /\ descs[id].need <= descs[id].room
        /\ arrayClass[id] # 0 => descs[arrayClass[id]].elem = id
    /\ \A a \in DOMAIN cells : arrayClass[descs[cells[a].class].elem] = cells[a].class

\* No store of an allocation goes to memory that others use.  It does not hold:
\* the code is "not gc save" (gc_alloc.c 394), and an array of three dimensions
\* can meet two collections during one row.
NoStrayStore == ~astray
=============================================================================
