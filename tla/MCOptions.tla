----------------------------- MODULE MCOptions -----------------------------
(***************************************************************************)
(* Components that build options select: the method profiler, the log of    *)
(* object lifetimes, binary transmission over the serial line, schedulers   *)
(* written in Java, and the round-robin schedulers.  They share no state; a  *)
(* behaviour works on one of them.                                          *)
(***************************************************************************)
EXTENDS Profile, ProfileAging, Bdt, JavaSched, SchedRR, TLC

CONSTANTS Parts

VARIABLE part
vars == <<part, profVars, agingVars, bdtVars, javaVars, rrVars>>

MCMethodAt == [c \in {4, 5, 9} |-> IF c = 4 THEN 20 ELSE 24]

MCSymbol ==
    0 :> [kind |-> "unknown", class |-> 0, method |-> 0, signature |-> 0] @@
    3 :> [kind |-> "method", class |-> 2, method |-> 9, signature |-> 4] @@
    5 :> [kind |-> "core", class |-> 0, method |-> 6, signature |-> 0]
MCTabMax == [t \in Tabs |-> IF t = "paStrings" THEN 14 ELSE 4]
MCLibraries == <<5>>
MCRecordLen == [t \in {"new", "gcstart", "gcstop", "move", "obj", "array"} |-> IF t \in {"move", "obj"} THEN 2 ELSE 3]

Chunk(id, lzo) == [op |-> "chunk", id |-> id, compressed |-> lzo]
Data(bytes) == [op |-> "send", data |-> bytes]
MCProgram ==
    << [op |-> "start"], Chunk(<<"i">>, FALSE), Data(<<"1", "2", "3">>), Chunk(<<"j">>, TRUE),
       Data(<<"4", "5">>), Data(<<"6">>), [op |-> "stop"] >>

\* A thread and a server in domain zero and in domain "d", which creates "e".
MCHome == [t \in Threads |-> IF t \in {"z", "y"} THEN "zero" ELSE IF t = "w" THEN "e" ELSE "d"]

\* Two threads in a domain, one in another, none but idle in DomainZero.
MCRRHome == [t \in RRThreads |-> IF t = "b1" THEN "b" ELSE "a"]

Init == /\ part \in Parts
        /\ ProfInit /\ AgingInit /\ BdtInit /\ JavaInit /\ RRInit
        /\ implements = IF part = "java" THEN {"d"} ELSE {}

Next ==
    \/ /\ part = "profile" /\ ProfNext
       /\ UNCHANGED <<part, agingVars, bdtVars, javaVars, rrVars>>
    \/ /\ part = "aging" /\ AgingNext
       /\ UNCHANGED <<part, profVars, bdtVars, javaVars, rrVars>>
    \/ /\ part = "bdt" /\ BdtNext
       /\ UNCHANGED <<part, profVars, agingVars, javaVars, rrVars>>
    \/ /\ part = "java" /\ JavaNext
       /\ UNCHANGED <<part, profVars, agingVars, bdtVars, rrVars>>
    \/ /\ part = "rr" /\ RRNext
       /\ UNCHANGED <<part, profVars, agingVars, bdtVars, javaVars>>

Spec == Init /\ [][Next]_vars
=============================================================================
