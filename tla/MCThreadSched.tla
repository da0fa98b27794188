---------------------------- MODULE MCThreadSched ----------------------------
EXTENDS ThreadSched
CONSTANTS idle, z, a1, a2, b, irq, Zero, A, B
MCDom == [t \in Threads |-> CASE t \in {idle, z} -> Zero
                              [] t \in {a1, a2, irq} -> A
                              [] t = b -> B]
=============================================================================
