------------------------------- MODULE Naming -------------------------------
(***************************************************************************)
(* The initial naming service (Interface/zero_Naming.c): a linked list of   *)
(* names that lives outside every heap, with references into the heap of    *)
(* DomainZero.  A portal is registered by a call from another domain, which *)
(* leaves a proxy of it in DomainZero; a lookup copies that proxy into the  *)
(* caller's domain.  Names are never removed.                              *)
(***************************************************************************)
EXTENDS Integers, Sequences

CONSTANTS
    Names,        \* the names used
    Portals,      \* the services that are registered
    MaxEntries    \* bound: registrations

ASSUME NamingAssumption == MaxEntries \in Nat

VARIABLES
    entries,      \* the cells allocated by malloc_domainzero_namevalue: name, obj, next
    lastNameValue,\* the cell whose next field receives the next registration, 0: the head
    nameValue,    \* the head of the list
    lookedUp      \* the last lookup: name and portal

namingVars == <<entries, lastNameValue, nameValue, lookedUp>>

NoCell == 0
NoPortal == "null"

NamingInit ==
    /\ entries = << >> /\ lastNameValue = NoCell /\ nameValue = NoCell
    /\ lookedUp = << >>

\* Mutant: cell c becomes the first one.
Link_First(cells, c) == [head |-> c, cells |-> [cells EXCEPT ![c].next = nameValue]]

\* Cell c becomes the last one: *lastNameValue = n.
Link(cells, c) ==
    IF lastNameValue = NoCell THEN [head |-> c, cells |-> cells]
    ELSE [head |-> nameValue, cells |-> [cells EXCEPT ![lastNameValue].next = c]]

\* naming_registerPortal and registerPortal
registerPortal(n, p) ==
    /\ Len(entries) < MaxEntries
    /\ LET c == Len(entries) + 1
           l == Link(Append(entries, [name |-> n, obj |-> p, next |-> NoCell]), c)
       IN entries' = l.cells /\ nameValue' = l.head /\ lastNameValue' = c
    /\ UNCHANGED lookedUp

\* lookupPortal: the first cell of the name, from the head.
Reach(k) == LET f[i \in 1..(MaxEntries + 1)] ==
                  IF i = 1 THEN nameValue
                  ELSE IF f[i - 1] = NoCell THEN NoCell ELSE entries[f[i - 1]].next
            IN f[k]
lookupPortal(n) ==
    LET hits == {k \in 1..MaxEntries : Reach(k) # NoCell /\ entries[Reach(k)].name = n}
    IN IF hits = {} THEN NoPortal ELSE entries[Reach(CHOOSE k \in hits : \A j \in hits : k <= j)].obj

\* naming_lookup
naming_lookup(n) ==
    /\ lookedUp' = [name |-> n, obj |-> lookupPortal(n)]
    /\ lookedUp' # lookedUp
    /\ UNCHANGED <<entries, lastNameValue, nameValue>>

NamingNext ==
    \/ \E n \in Names, p \in Portals : registerPortal(n, p)
    \/ \E n \in Names : naming_lookup(n)

NamingSpec == NamingInit /\ [][NamingNext]_namingVars

\* A name that has been found keeps its meaning: whoever registers it again
\* cannot replace the portal (zero_Naming.c 10-18 and 108-112).
NameKept ==
    [][\A n \in Names : lookupPortal(n) # NoPortal => lookupPortal(n)' = lookupPortal(n)]_namingVars
=============================================================================
