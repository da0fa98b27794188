----------------------------- MODULE VmSupport -----------------------------
(***************************************************************************)
(* What compiled Java code calls in the kernel (core/vmsupport.c): the type *)
(* tests and the copying of arrays.                                         *)
(*                                                                          *)
(* A class hierarchy h is a function from 1..N to class descriptors; class  *)
(* 1 is java.lang.Object.  The loader defines a class after the classes it  *)
(* names, so superclass, interfaces and element class have smaller numbers; *)
(* 0 is NULL.                                                               *)
(***************************************************************************)
EXTENDS Integers, Sequences, SequencesExt, FiniteSets

Object == 1

isArrayClass(h, c) == h[c].elem # 0
is_interface(h, c) == h[c].kind = "interface"

\* The superclasses of c, c not included.
Superclasses(h, c) ==
    LET up[k \in 0..c] == IF k = 0 THEN {} ELSE LET s == h[k].super IN (IF s = 0 THEN {} ELSE {s} \cup up[s])
    IN up[c]

is_subclass_of(h, sub, super) == sub = super \/ super \in Superclasses(h, sub)

\* Mutant: the interfaces of superclasses are not looked at.
implements_interface_Own(h, cls, ifa) == cls = ifa \/ ifa \in h[cls].interfaces

\* implements_interface and is_subinterface_of call each other.
implements_interface(h, cls, ifa) ==
    LET impl[c \in 1..cls] ==
            LET subif(x) == x = ifa \/ \E s \in Superclasses(h, x) : s = ifa \/ impl[s]
            IN subif(c) \/ \E i \in h[c].interfaces : impl[i] \/ subif(i)
    IN impl[cls]

check_assign(h, variable, reference) ==
    LET assign[v \in 1..variable, r \in 1..reference] ==
            CASE v = r -> TRUE
              [] v # r /\ isArrayClass(h, r) ->
                    v = Object \/ (isArrayClass(h, v) /\ assign[h[v].elem, h[r].elem])
              [] OTHER -> is_subclass_of(h, r, v) \/ (is_interface(h, v) /\ implements_interface(h, r, v))
    IN assign[variable, reference]

\* vm_instanceof answers TRUE for null (0), vm_checkcast lets null pass.
vm_instanceof(h, oclass, c) == oclass = 0 \/ oclass = c \/ check_assign(h, c, oclass)
vm_checkcast(h, oclass, c) == IF oclass = 0 \/ check_assign(h, c, oclass) THEN "done" ELSE "ClassCastException"

-----------------------------------------------------------------------------
(* Arrays of words.  A heap is a function from the addresses 0 .. UINT - 1  *)
(* to words, where UINT is the number of values of an unsigned int; an array  *)
(* is its address, its length and its class, or Null.  Offsets and counts    *)
(* are unsigned, so that -1 is UINT - 1, and their sum wraps.                *)

Null == [class |-> 0]

Returned(heap) == [heap |-> heap, ok |-> TRUE]
Thrown(heap, ex) == [heap |-> heap, ok |-> FALSE, throws |-> ex]

CopyWord(heap, from, to) ==
    LET UINT == Cardinality(DOMAIN heap) IN [heap EXCEPT ![to % UINT] = heap[from % UINT]]

\* What both functions refuse: the sums are tested, the offsets are not.
OutOfBounds(heap, src, soff, dst, doff, count) ==
    LET UINT == Cardinality(DOMAIN heap)
    IN  (doff + count) % UINT > dst.size \/ (soff + count) % UINT > src.size

\* The overlapping copy decrements both offsets before the first word.
vm_arraycopy(heap, h, src, soff, dst, doff, count) ==
    CASE Null \in {src, dst} -> Thrown(heap, "NullPointerException")
      [] Null \notin {src, dst} /\ ~(/\ isArrayClass(h, src.class) /\ isArrayClass(h, dst.class)
                                   /\ check_assign(h, dst.class, src.class)) -> Thrown(heap, "RuntimeException")
      [] OTHER ->
            IF OutOfBounds(heap, src, soff, dst, doff, count) THEN Thrown(heap, "ArrayIndexOutOfBounds")
            ELSE Returned(FoldLeft(LAMBDA m, i :
                                     IF src.data = dst.data /\ doff > soff
                                     THEN CopyWord(m, src.data + soff - i, dst.data + doff - i)
                                     ELSE CopyWord(m, src.data + soff + i - 1, dst.data + doff + i - 1),
                                   heap, [i \in 1..count |-> i]))

\* Words from the front, whatever the ranges; that these are arrays is not tested.
vm_arraycopy_right(heap, h, src, soff, dst, doff, count) ==
    CASE Null \in {src, dst} -> Thrown(heap, "NullPointerException")
      [] Null \notin {src, dst} /\ ~check_assign(h, dst.class, src.class) -> Thrown(heap, "RuntimeException")
      [] OTHER ->
            IF OutOfBounds(heap, src, soff, dst, doff, count) THEN Thrown(heap, "ArrayIndexOutOfBounds")
            ELSE Returned(FoldLeft(LAMBDA m, i : CopyWord(m, src.data + soff + i - 1, dst.data + doff + i - 1),
                                   heap, [i \in 1..count |-> i]))

\* The index is signed and only its upper bound is tested.
vm_put_array_field32(heap, arr, index, value) ==
    IF index < arr.size THEN Returned([heap EXCEPT ![arr.data + index] = value])
    ELSE Thrown(heap, "ArrayIndexOutOfBounds")
=============================================================================
