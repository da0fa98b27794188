------------------------------ MODULE MCPortal ------------------------------
EXTENDS Portal
CONSTANTS idle, a, a2, b, c, r1, r2, f2, Zero, A, B, C, s1, s2
MCDom == [t \in Threads |-> CASE t = idle -> Zero
                              [] t \in {a, a2, r2, f2} -> A
                              [] t \in {b, r1} -> B
                              [] t = c -> C]
MCOwner == [s \in Services |-> IF s = s1 THEN B ELSE A]
MCRecv == [s \in Services |-> IF s = s1 THEN r1 ELSE r2]
MCFinalizer == [s \in Services |-> IF s = s2 /\ f2 \in Threads THEN f2 ELSE NoThread]
MCMayCall == [t \in Threads |-> CASE t = a -> {s1}
                                  [] t = c -> {s1, s2}
                                  [] t = r1 -> {s2}
                                  [] OTHER -> {}]
MCInitialRefs == {<<A, s1>>, <<C, s1>>} \cap (Domains \X Services)
\* s1 calls s2, and s2 nobody.
ASSUME MCCallsDescend == CallsDescend([s \in Services |-> IF s = s1 THEN 1 ELSE 0])
=============================================================================
