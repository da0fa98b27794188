------------------------------- MODULE MCHeap -------------------------------
(***************************************************************************)
(* The memory of a domain: a moving collection, the chunked collector, the  *)
(* copy of a graph from one domain's heap to another's, memory for code and  *)
(* descriptors, and arrays of arrays.  They share no state here; a behaviour *)
(* works on one of them.                                                    *)
(***************************************************************************)
EXTENDS GcMove, GcChunked, GraphCopy, CodeMem, ArrayAlloc

CONSTANTS Parts

VARIABLE part
vars == <<part, moveVars, chunkVars, copyVars, codeVars, arrayVars>>

\* Graphs of a root object with two slots, an object, a reference array or a
\* leaf, and one more object or leaf.
Leaves == SourceKinds \ {"object", "refarray"}
Shape(a, b, c) == [kind |-> <<a[1], b[1], c[1]>>, slot |-> <<a[2], b[2], c[2]>>]
Two == (0..3) \X (0..3)
Wide == ({"object", "refarray"} \X Two) \cup ((Leaves \ {"nested"}) \X {<< >>}) \cup {<<"nested", <<3>>>>}
Narrow == ({"object", "refarray"} \X {<<1>>, <<2>>, <<3>>}) \cup ((Leaves \ {"nested"}) \X {<< >>})

MCNodes == 1..3
MCGraphs == {Shape(<<"object", s>>, b, c) : s \in {<<2, 2>>, <<2, 3>>, <<2, 1>>}, b \in Wide, c \in Narrow}
MCDims == {<<2>>, <<0, 1>>, <<2, 1>>, <<1, 2>>, <<1, -1>>, <<1, 1, 2>>}
OneGraph == CHOOSE g \in MCGraphs : TRUE

Init == /\ part \in Parts
        /\ GcInit /\ ChunkedInit /\ CopyInit /\ CodeInit /\ ArrayInit
        /\ part = "copy" \/ (graph = OneGraph /\ build = "recursive")

Next ==
    \/ /\ part = "move" /\ GcNext
       /\ UNCHANGED <<part, chunkVars, copyVars, codeVars, arrayVars>>
    \/ /\ part = "chunked" /\ ChunkedNext
       /\ UNCHANGED <<part, moveVars, copyVars, codeVars, arrayVars>>
    \/ /\ part = "copy" /\ CopyNext
       /\ UNCHANGED <<part, moveVars, chunkVars, codeVars, arrayVars>>
    \/ /\ part = "code" /\ CodeNext
       /\ UNCHANGED <<part, moveVars, chunkVars, copyVars, arrayVars>>
    \/ /\ part = "arrays" /\ ArrayNext
       /\ UNCHANGED <<part, moveVars, chunkVars, copyVars, codeVars>>

Spec == Init /\ [][Next]_vars
=============================================================================
