-------------------------- MODULE Services_proofs --------------------------
(***************************************************************************)
(* Safety of services of DomainZero, for any number of threads, names and   *)
(* control blocks: atomic variables, the list of names, and domains.       *)
(***************************************************************************)
EXTENDS Domains, Naming, AtomicVariable, FiniteSetTheorems, WellFoundedInduction, TLAPS

-----------------------------------------------------------------------------
(* Atomic variables.                                                       *)

\* The threads that sleep on a variable.
Sleepers(v) == {t \in Waiters : sleepsOn[t] = v}

AtomicTypes ==
    /\ blockedThread \in [Variables -> Waiters \cup {Nobody}]
    /\ nextThread \in [Waiters -> Waiters \cup {Nobody}]
    /\ sleepsOn \in [Waiters -> Variables \cup {Nobody}]
    /\ listMode \in [Variables -> BOOLEAN]

\* Those who sleep on a variable are found through it.  A thread that is linked
\* into a list was in none, so that no other list changes.
AtomicInv == AtomicTypes /\ (~relinked => \A v \in Variables : Sleepers(v) \subseteq Found(v))

\* Listed for next fields nx and head b.
Leads(nx, S) == \A t \in S : nx[t] \in S \cup {Nobody}
ListFrom(nx, b) ==
    {t \in Waiters : \A S \in SUBSET Waiters : Leads(nx, S) /\ b \in S \cup {Nobody} => t \in S}

\* The list of a variable before and after a step, as a function of the next
\* fields and the head of that state.
LEMMA ListedIsListFrom ==
    ASSUME NEW v \in Variables
    PROVE  /\ Listed(v) = ListFrom(nextThread, blockedThread[v])
           /\ Listed(v)' = ListFrom(nextThread', blockedThread'[v])
BY DEF Listed, ListFrom, Leads, Closed

\* The list is the least set that has the head and does not lead out of itself.
LEMMA ListLeast ==
    ASSUME NEW nx \in [Waiters -> Waiters \cup {Nobody}], NEW b \in Waiters \cup {Nobody}
    PROVE  /\ ListFrom(nx, b) \in SUBSET Waiters /\ Leads(nx, ListFrom(nx, b))
           /\ b \in ListFrom(nx, b) \cup {Nobody}
           /\ \A S \in SUBSET Waiters :
                 Leads(nx, S) /\ b \in S \cup {Nobody} => ListFrom(nx, b) \subseteq S
<1>1. Leads(nx, ListFrom(nx, b))
  <2> SUFFICES ASSUME NEW t \in ListFrom(nx, b), nx[t] # Nobody PROVE nx[t] \in ListFrom(nx, b)
    BY DEF Leads
  <2>1. t \in Waiters /\ nx[t] \in Waiters
    BY DEF ListFrom
  <2>2. ASSUME NEW S \in SUBSET Waiters, Leads(nx, S), b \in S \cup {Nobody}
        PROVE  nx[t] \in S
    BY <2>2 DEF ListFrom, Leads
  <2> QED BY <2>1, <2>2 DEF ListFrom
<1> QED BY <1>1 DEF ListFrom

\* The next field of a thread that is not in a list may change: the list has
\* lost nobody.
LEMMA ListKept ==
    ASSUME NEW nx \in [Waiters -> Waiters \cup {Nobody}], NEW b \in Waiters \cup {Nobody},
           NEW t \in Waiters, t \notin ListFrom(nx, b),
           NEW nx2 \in [Waiters -> Waiters \cup {Nobody}],
           \A x \in Waiters \ {t} : nx2[x] = nx[x]
    PROVE  ListFrom(nx, b) \subseteq ListFrom(nx2, b)
<1> DEFINE old == ListFrom(nx, b)
           new == ListFrom(nx2, b)
<1>1. /\ old \in SUBSET Waiters /\ Leads(nx, old) /\ b \in old \cup {Nobody}
      /\ \A S \in SUBSET Waiters : Leads(nx, S) /\ b \in S \cup {Nobody} => old \subseteq S
  BY ListLeast
<1>2. new \in SUBSET Waiters /\ Leads(nx2, new) /\ b \in new \cup {Nobody}
  BY ListLeast
<1>3. t \notin old
  OBVIOUS
<1> HIDE DEF old, new
<1>4. Leads(nx, new \cap old)
  <2> SUFFICES ASSUME NEW x \in new \cap old PROVE nx[x] \in (new \cap old) \cup {Nobody}
    BY DEF Leads
  <2>1. nx[x] = nx2[x]
    BY <1>1, <1>3
  <2>2. nx2[x] \in new \cup {Nobody} /\ nx[x] \in old \cup {Nobody}
    BY <1>1, <1>2 DEF Leads
  <2> QED BY <2>1, <2>2
<1>5. b \in (new \cap old) \cup {Nobody} /\ new \cap old \in SUBSET Waiters
  BY <1>1, <1>2
<1>6. old \subseteq new
  BY <1>1, <1>4, <1>5
<1> QED BY <1>6 DEF old, new

\* A thread that is not in the list is linked in front of it: the list has it in
\* addition, and loses nobody.
LEMMA ListPush ==
    ASSUME NEW nx \in [Waiters -> Waiters \cup {Nobody}], NEW b \in Waiters \cup {Nobody},
           NEW t \in Waiters, t \notin ListFrom(nx, b),
           NEW nx2 \in [Waiters -> Waiters \cup {Nobody}],
           nx2[t] = b, \A x \in Waiters \ {t} : nx2[x] = nx[x]
    PROVE  ListFrom(nx, b) \cup {t} \subseteq ListFrom(nx2, t)
<1> DEFINE old == ListFrom(nx2, b)
           new == ListFrom(nx2, t)
<1>1. ListFrom(nx, b) \subseteq old
  BY ListKept
<1>2. \A S \in SUBSET Waiters : Leads(nx2, S) /\ b \in S \cup {Nobody} => old \subseteq S
  BY ListLeast
<1>3. new \in SUBSET Waiters /\ Leads(nx2, new) /\ t \in new
  BY ListLeast, AtomicAssumption
<1>4. b \in new \cup {Nobody}
  BY <1>3 DEF Leads
<1>5. old \subseteq new
  BY <1>2, <1>3, <1>4
<1> QED BY <1>1, <1>3, <1>5

\* The variables are created with nobody asleep.
LEMMA AtomicInitInv == AtomicInit => AtomicInv
BY AtomicAssumption DEF AtomicInit, AtomicInv, AtomicTypes, Sleepers

\* The next field of a thread in no list is set: nobody is lost from any.
LEMMA SetsNextKeeps ==
    ASSUME AtomicTypes, NEW t \in Waiters, NEW n \in Waiters \cup {Nobody}, SetsNext(t, n), ~relinked',
           NEW v \in Variables, listMode[v]
    PROVE  /\ t \notin Listed(v)
           /\ Listed(v) \subseteq ListFrom(nextThread', blockedThread[v])
           /\ n = blockedThread[v] => Listed(v) \cup {t} \subseteq ListFrom(nextThread', t)
<1>1. t \notin Listed(v)
  BY DEF SetsNext
<1>2. /\ nextThread' \in [Waiters -> Waiters \cup {Nobody}]
      /\ nextThread'[t] = n /\ \A x \in Waiters \ {t} : nextThread'[x] = nextThread[x]
  BY DEF SetsNext, AtomicTypes
<1>3. /\ nextThread \in [Waiters -> Waiters \cup {Nobody}] /\ blockedThread[v] \in Waiters \cup {Nobody}
      /\ Listed(v) = ListFrom(nextThread, blockedThread[v])
  BY ListedIsListFrom DEF AtomicTypes
<1>4. t \notin ListFrom(nextThread, blockedThread[v])
  BY <1>1, <1>3
<1>5. ListFrom(nextThread, blockedThread[v]) \subseteq ListFrom(nextThread', blockedThread[v])
  BY <1>2, <1>3, <1>4, ListKept
<1>6. n = blockedThread[v] => ListFrom(nextThread, blockedThread[v]) \cup {t} \subseteq ListFrom(nextThread', t)
  BY <1>2, <1>3, <1>4, ListPush
<1> QED BY <1>1, <1>3, <1>5, <1>6

\* Going to sleep on a variable.
LEMMA BlockHereInv ==
    ASSUME AtomicInv, NEW t \in Waiters, NEW v \in Variables, RunsThread(t), BlockHere(t, v), trap' = trap, trap = "none"
    PROVE  AtomicInv'
<1>1. /\ listMode[v] \/ blockedThread[v] \in {Nobody, t}
      /\ IF listMode[v] THEN SetsNext(t, blockedThread[v]) ELSE UNCHANGED <<nextThread, relinked>>
      /\ blockedThread' = [blockedThread EXCEPT ![v] = t]
      /\ sleepsOn' = [sleepsOn EXCEPT ![t] = v]
      /\ listMode' = listMode
  BY DEF BlockHere, Traps
<1>2. AtomicTypes'
  BY <1>1 DEF AtomicInv, AtomicTypes, SetsNext
<1>3. ASSUME ~relinked', NEW w \in Variables PROVE Sleepers(w)' \subseteq Found(w)'
  <2>1. ~relinked /\ Sleepers(w) \subseteq Found(w) /\ Sleepers(v) \subseteq Found(v)
    BY <1>1, <1>3 DEF AtomicInv, SetsNext
  <2>2. Sleepers(w)' = IF w = v THEN Sleepers(w) \cup {t} ELSE Sleepers(w)
    BY <1>1, AtomicAssumption DEF Sleepers, AtomicInv, AtomicTypes, RunsThread
  <2>3. blockedThread'[w] = IF w = v THEN t ELSE blockedThread[w]
    BY <1>1 DEF AtomicInv, AtomicTypes
  <2>4. Listed(w)' = ListFrom(nextThread', blockedThread'[w]) /\ Listed(w) = ListFrom(nextThread, blockedThread[w])
    BY ListedIsListFrom
  <2>5. CASE ~listMode[w]
    <3>1. Sleepers(w) \subseteq {blockedThread[w]} /\ Found(w)' = {blockedThread'[w]} \cap Waiters
      BY <1>1, <2>1, <2>5 DEF Found
    <3>2. Sleepers(w) \subseteq Waiters /\ Sleepers(w)' \subseteq Waiters
      BY DEF Sleepers
    <3>3. CASE w = v
      BY <1>1, <2>2, <2>3, <2>5, <3>1, <3>2, <3>3, AtomicAssumption
    <3>4. CASE w # v
      BY <2>2, <2>3, <3>1, <3>2, <3>4
    <3> QED BY <3>3, <3>4
  <2>6. CASE listMode[w] /\ w = v
    <3>1. Sleepers(w) \subseteq Listed(w) /\ Found(w)' = Listed(w)'
      BY <1>1, <2>1, <2>6 DEF Found
    <3>2. SetsNext(t, blockedThread[v]) /\ blockedThread[v] \in Waiters \cup {Nobody} /\ AtomicTypes
      BY <1>1, <2>6 DEF AtomicInv, AtomicTypes
    <3>3. Listed(v) \cup {t} \subseteq ListFrom(nextThread', t)
      BY <1>3, <2>6, <3>2, SetsNextKeeps
    <3> QED BY <2>2, <2>3, <2>4, <2>6, <3>1, <3>3
  <2>7. CASE listMode[w] /\ w # v
    <3>1. Sleepers(w) \subseteq Listed(w) /\ Found(w)' = Listed(w)'
      BY <1>1, <2>1, <2>7 DEF Found
    <3>2. CASE listMode[v]
      <4>1. SetsNext(t, blockedThread[v]) /\ blockedThread[v] \in Waiters \cup {Nobody} /\ AtomicTypes
        BY <1>1, <3>2 DEF AtomicInv, AtomicTypes
      <4>2. Listed(w) \subseteq ListFrom(nextThread', blockedThread[w])
        BY <1>3, <2>7, <4>1, SetsNextKeeps
      <4> QED BY <2>2, <2>3, <2>4, <2>7, <3>1, <4>2
    <3>3. CASE ~listMode[v]
      BY <1>1, <2>2, <2>3, <2>4, <2>7, <3>1, <3>3
    <3> QED BY <3>2, <3>3
  <2> QED BY <2>5, <2>6, <2>7
<1> QED BY <1>2, <1>3 DEF AtomicInv

\* The next field is set from elsewhere.
LEMMA SetNextInv ==
    ASSUME AtomicInv, NEW t \in Waiters, NEW x \in Waiters, NEW n \in Waiters \cup {Nobody}, setNext(t, x, n)
    PROVE  AtomicInv'
<1>1. SetsNext(x, n) /\ UNCHANGED <<listMode, blockedThread, sleepsOn>>
  BY DEF setNext
<1>2. AtomicTypes /\ AtomicTypes'
  BY <1>1 DEF AtomicInv, AtomicTypes, SetsNext
<1>3. ASSUME ~relinked', NEW w \in Variables PROVE Sleepers(w)' \subseteq Found(w)'
  <2>1. Sleepers(w) \subseteq Found(w) /\ Sleepers(w)' = Sleepers(w)
    BY <1>1, <1>3 DEF AtomicInv, SetsNext, Sleepers
  <2>2. CASE ~listMode[w]
    BY <1>1, <2>1, <2>2 DEF Found
  <2>3. CASE listMode[w]
    <3>1. Listed(w) \subseteq ListFrom(nextThread', blockedThread[w])
      BY <1>1, <1>2, <1>3, <2>3, SetsNextKeeps
    <3>2. Listed(w)' = ListFrom(nextThread', blockedThread'[w])
      BY ListedIsListFrom
    <3> QED BY <1>1, <2>1, <2>3, <3>1, <3>2 DEF Found
  <2> QED BY <2>2, <2>3
<1> QED BY <1>2, <1>3 DEF AtomicInv

\* Fewer sleep, and no variable but one, on which nobody sleeps now, has another
\* list.
LEMMA WakesInv ==
    ASSUME AtomicInv, UNCHANGED <<listMode, nextThread, relinked>>, AtomicTypes',
           \A w \in Variables : Sleepers(w)' \subseteq Sleepers(w),
           \A w \in Variables : Sleepers(w)' = {} \/ blockedThread'[w] = blockedThread[w]
    PROVE  AtomicInv'
<1> SUFFICES ASSUME ~relinked', NEW w \in Variables, Sleepers(w)' # {} PROVE Sleepers(w)' \subseteq Found(w)'
  BY DEF AtomicInv
<1>1. Sleepers(w)' \subseteq Found(w) /\ blockedThread'[w] = blockedThread[w]
  BY DEF AtomicInv
<1>2. Listed(w)' = ListFrom(nextThread', blockedThread'[w]) /\ Listed(w) = ListFrom(nextThread, blockedThread[w])
  BY ListedIsListFrom
<1>3. Found(w)' = Found(w)
  BY <1>1, <1>2 DEF Found
<1> QED BY <1>1, <1>3

\* An update that wakes the sleepers of list mode, or the one that is named.
LEMMA UpdateUnblockInv ==
    ASSUME AtomicInv, NEW t \in Waiters, NEW v \in Variables, NEW n, NEW c \in Waiters \cup {Nobody},
           UpdateUnblock(t, v, n, c), trap' = trap, trap = "none"
    PROVE  AtomicInv'
<1>1. /\ UNCHANGED <<listMode, nextThread, relinked>>
      /\ IF listMode[v]
         THEN /\ sleepsOn' = [x \in Waiters |-> IF x \in Listed(v) THEN Nobody ELSE sleepsOn[x]]
              /\ blockedThread' = [blockedThread EXCEPT ![v] = Nobody]
         ELSE IF c # Nobody /\ blockedThread[v] # Nobody /\ sleepsOn[c] # Nobody
         THEN /\ blockedThread[v] = c
              /\ sleepsOn' = [sleepsOn EXCEPT ![c] = Nobody]
              /\ blockedThread' = [blockedThread EXCEPT ![v] = Nobody]
         ELSE UNCHANGED <<sleepsOn, blockedThread>>
  BY DEF UpdateUnblock, Traps
<1>2. AtomicTypes
  BY DEF AtomicInv
<1>3. AtomicTypes'
  BY <1>1, <1>2 DEF AtomicTypes
<1>4. CASE UNCHANGED <<sleepsOn, blockedThread>>
  BY <1>1, <1>3, <1>4, WakesInv DEF Sleepers
<1>6. CASE relinked
  BY <1>1, <1>3, <1>6 DEF AtomicInv
<1>7. CASE ~relinked /\ listMode[v]
  <2>1. Sleepers(v) \subseteq Listed(v)
    BY <1>7 DEF AtomicInv, Found
  <2>2. \A w \in Variables : Sleepers(w)' \subseteq Sleepers(w) /\ (w # v => blockedThread'[w] = blockedThread[w])
    BY <1>1, <1>2, <1>7, AtomicAssumption DEF Sleepers, AtomicTypes
  <2>3. Sleepers(v)' = {}
    BY <1>1, <1>2, <1>7, <2>1, AtomicAssumption DEF Sleepers, AtomicTypes
  <2> QED BY <1>1, <1>3, <2>2, <2>3, WakesInv
<1>8. CASE ~relinked /\ ~listMode[v] /\ ~UNCHANGED <<sleepsOn, blockedThread>>
  <2>1. /\ blockedThread[v] = c /\ c \in Waiters
        /\ sleepsOn' = [sleepsOn EXCEPT ![c] = Nobody]
        /\ blockedThread' = [blockedThread EXCEPT ![v] = Nobody]
    BY <1>1, <1>8
  <2>2. Sleepers(v) \subseteq {c}
    BY <1>8, <2>1 DEF AtomicInv, Found
  <2>3. \A w \in Variables : Sleepers(w)' \subseteq Sleepers(w) /\ (w # v => blockedThread'[w] = blockedThread[w])
    BY <1>2, <2>1, AtomicAssumption DEF Sleepers, AtomicTypes
  <2>4. Sleepers(v)' = {}
    BY <1>2, <2>1, <2>2, AtomicAssumption DEF Sleepers, AtomicTypes
  <2> QED BY <1>1, <1>3, <2>3, <2>4, WakesInv
<1> QED BY <1>4, <1>6, <1>7, <1>8

\* List mode begins with the thread that waits, if any.
LEMMA ActivateInv ==
    ASSUME AtomicInv, NEW t \in Waiters, NEW v \in Variables, activateListMode(t, v)
    PROVE  AtomicInv'
<1>1. /\ listMode' = [listMode EXCEPT ![v] = TRUE] /\ ~listMode[v]
      /\ UNCHANGED <<blockedThread, nextThread, sleepsOn, relinked>>
  BY DEF activateListMode
<1>2. AtomicTypes /\ AtomicTypes'
  BY <1>1 DEF AtomicInv, AtomicTypes
<1>3. ASSUME ~relinked', NEW w \in Variables PROVE Sleepers(w)' \subseteq Found(w)'
  <2>1. Sleepers(w) \subseteq Found(w) /\ Sleepers(w)' = Sleepers(w)
    BY <1>1, <1>3 DEF AtomicInv, Sleepers
  <2>2. Listed(w)' = ListFrom(nextThread', blockedThread'[w]) /\ Listed(w) = ListFrom(nextThread, blockedThread[w])
    BY ListedIsListFrom
  <2>3. blockedThread[w] \in Listed(w) \cup {Nobody}
    BY <1>2, <2>2, ListLeast DEF AtomicTypes
  <2>4. Listed(w)' = Listed(w)
    BY <1>1, <2>2
  <2>5. Found(w) \subseteq Found(w)'
    <3>1. CASE w = v
      BY <1>1, <1>2, <2>3, <2>4, <3>1, AtomicAssumption DEF Found, AtomicTypes
    <3>2. CASE w # v
      BY <1>1, <1>2, <2>4, <3>2 DEF Found, AtomicTypes
    <3> QED BY <3>1, <3>2
  <2> QED BY <2>1, <2>5
<1> QED BY <1>2, <1>3 DEF AtomicInv

\* While no assertion fails and no loop is a ring, the invariant is kept.
LEMMA AtomicNextInv ==
    ASSUME AtomicInv \/ trap # "none", [AtomicNext]_atomicVars
    PROVE  (AtomicInv \/ trap # "none")'
<1>1. CASE trap' # "none"
  BY <1>1
<1>2. CASE UNCHANGED atomicVars
  BY <1>2 DEF atomicVars, AtomicInv, AtomicTypes, Sleepers, Found, Listed, Closed
<1>3. CASE trap' = "none" /\ AtomicNext
  <2>1. AtomicInv /\ trap = "none" /\ trap' = trap
    BY <1>3 DEF AtomicNext
  <2>2. PICK t \in Waiters : AtomicStep(t)
    BY <1>3 DEF AtomicNext
  <2>3. CASE \E v \in Variables, n \in Values : SetValue(t, v, n)
    BY <2>1, <2>3 DEF SetValue, AtomicInv, AtomicTypes, Sleepers, Found, Listed, Closed
  <2>4. CASE \E v \in Variables, n \in Values : blockIfEqual(t, v, n) \/ blockIfNotEqual(t, v, n)
    <3>1. PICK v \in Variables : RunsThread(t) /\ BlockHere(t, v)
      BY <2>4 DEF blockIfEqual, blockIfNotEqual
    <3> QED BY <2>1, <3>1, BlockHereInv
  <2>5. CASE \E v \in Variables, n \in Values, c \in Waiters \cup {Nobody} : UpdateUnblock(t, v, n, c)
    BY <2>1, <2>5, UpdateUnblockInv
  <2>6. CASE \E v \in Variables : activateListMode(t, v)
    BY <2>1, <2>6, ActivateInv
  <2>7. CASE ForeignWakes(t)
    <3>1. /\ sleepsOn' = [sleepsOn EXCEPT ![t] = Nobody]
          /\ UNCHANGED <<listMode, blockedThread, nextThread, relinked>>
      BY <2>7 DEF ForeignWakes
    <3>2. AtomicTypes' /\ \A w \in Variables : Sleepers(w)' \subseteq Sleepers(w)
      BY <2>1, <3>1, AtomicAssumption DEF AtomicInv, AtomicTypes, Sleepers
    <3> QED BY <2>1, <3>1, <3>2, WakesInv
  <2>8. CASE \E x \in Waiters, n \in Waiters \cup {Nobody} : setNext(t, x, n)
    BY <2>1, <2>8, SetNextInv
  <2> QED BY <2>2, <2>3, <2>4, <2>5, <2>6, <2>7, <2>8 DEF AtomicStep
<1> QED BY <1>1, <1>2, <1>3

\* For any number of variables and threads, and however they share next fields
\* with each other and with CPUState.setNext: who sleeps on a variable is found
\* by the next update of it, as long as the next field of no thread is set while
\* the thread is still in a list, and no assertion has failed.
THEOREM SleepersAlwaysReachable == AtomicSpec => []SleepersReachable
<1>1. AtomicInit => AtomicInv \/ trap # "none"
  BY AtomicInitInv
<1>2. (AtomicInv \/ trap # "none") /\ [AtomicNext]_atomicVars => (AtomicInv \/ trap # "none")'
  BY AtomicNextInv
<1>3. AtomicInv \/ trap # "none" => SleepersReachable
  BY DEF AtomicInv, SleepersReachable, Sleepers
<1> QED BY <1>1, <1>2, <1>3, PTL DEF AtomicSpec

-----------------------------------------------------------------------------
(* Naming.                                                                 *)

\* A nonempty set of numbers has a least element.
LEMMA LeastNumber ==
    ASSUME NEW S \in SUBSET Nat, S # {}
    PROVE  \E m \in S : \A y \in S : m <= y
<1>1. IsWellFoundedOn(OpToRel(<, Nat), Nat)
  BY NatLessThanWellFounded, Zenon
<1>2. PICK m \in S : \A y \in S : ~(<<y, m>> \in OpToRel(<, Nat))
  BY <1>1, WFMin, Zenon
<1>3. ASSUME NEW y \in S, y < m PROVE FALSE
  <2>1. <<y, m>> \in OpToRel(<, Nat)
    BY <1>3 DEF OpToRel
  <2> QED BY <1>2, <2>1
<1> QED BY <1>3

\* A list of cells in the order of their registration, with head hd.
Cells == [name : Names, obj : Portals, next : Nat]
InOrder(es, hd) ==
    /\ es \in Seq(Cells) /\ Len(es) <= MaxEntries
    /\ hd = IF Len(es) = 0 THEN NoCell ELSE 1
    /\ \A i \in 1..Len(es) : es[i].next = IF i < Len(es) THEN i + 1 ELSE NoCell
NamingInv == InOrder(entries, nameValue) /\ lastNameValue = Len(entries)

\* f walks the next fields of a list es from its head hd (Reach).
Walk(es, hd, f) ==
    f = [i \in 1..(MaxEntries + 1) |->
            IF i = 1 THEN hd ELSE IF f[i - 1] = NoCell THEN NoCell ELSE es[f[i - 1]].next]

\* The walk of a list in order visits cell i at step i, and stops after the last.
LEMMA WalkReaches ==
    ASSUME NEW es, NEW hd, InOrder(es, hd), NEW f, Walk(es, hd, f)
    PROVE  \A i \in 1..(MaxEntries + 1) : f[i] = IF i <= Len(es) THEN i ELSE NoCell
<1> DEFINE ok(i) == f[i] = IF i <= Len(es) THEN i ELSE NoCell
           bad == {i \in 1..(MaxEntries + 1) : ~ok(i)}
<1>1. Len(es) \in Nat /\ MaxEntries \in Nat
  BY NamingAssumption DEF InOrder
<1>2. \A i \in 1..(MaxEntries + 1) :
        f[i] = IF i = 1 THEN hd ELSE IF f[i - 1] = NoCell THEN NoCell ELSE es[f[i - 1]].next
  BY DEF Walk
<1> SUFFICES ASSUME NEW x \in bad PROVE FALSE
  BY DEF bad
<1>3. bad \in SUBSET Nat
  BY <1>1
<1> HIDE DEF bad
<1>4. PICK m \in bad : \A y \in bad : m <= y
  BY <1>3, LeastNumber
<1>5. m \in 1..(MaxEntries + 1) /\ ~ok(m)
  BY <1>4 DEF bad
<1>6. CASE m = 1
  BY <1>1, <1>2, <1>5, <1>6 DEF InOrder, NoCell
<1>7. CASE m # 1
  <2>1. m - 1 \in 1..(MaxEntries + 1) /\ m - 1 \notin bad
    BY <1>1, <1>3, <1>4, <1>5, <1>7
  <2>2. ok(m - 1)
    BY <2>1 DEF bad
  <2>3. f[m] = IF f[m - 1] = NoCell THEN NoCell ELSE es[f[m - 1]].next
    BY <1>2, <1>5, <1>7
  <2>4. CASE m - 1 <= Len(es)
    <3>1. f[m - 1] = m - 1 /\ m - 1 \in 1..Len(es)
      BY <1>1, <1>5, <1>7, <2>2, <2>4
    <3>2. f[m] = es[m - 1].next
      BY <1>1, <1>5, <1>7, <2>3, <3>1 DEF NoCell
    <3>3. es[m - 1].next = IF m - 1 < Len(es) THEN (m - 1) + 1 ELSE NoCell
      BY <3>1 DEF InOrder
    <3>4. f[m] = IF m <= Len(es) THEN m ELSE NoCell
      BY <1>1, <1>5, <3>2, <3>3
    <3> QED BY <1>5, <3>4
  <2>5. CASE ~(m - 1 <= Len(es))
    BY <1>1, <1>5, <2>2, <2>3, <2>5
  <2> QED BY <2>4, <2>5
<1> QED BY <1>6, <1>7

\* Reach of a list es with head hd.
ReachIn(es, hd, k) ==
    LET f[i \in 1..(MaxEntries + 1)] ==
            IF i = 1 THEN hd ELSE IF f[i - 1] = NoCell THEN NoCell ELSE es[f[i - 1]].next
    IN f[k]

\* The walk the recursive definition names exists, and reaches cell k at step k.
LEMMA ReachIsIndex ==
    ASSUME NEW es, NEW hd, InOrder(es, hd)
    PROVE  \A k \in 1..(MaxEntries + 1) : ReachIn(es, hd, k) = IF k <= Len(es) THEN k ELSE NoCell
<1> DEFINE g == [i \in 1..(MaxEntries + 1) |-> IF i <= Len(es) THEN i ELSE NoCell]
           c == CHOOSE f : Walk(es, hd, f)
<1>1. Len(es) \in Nat /\ MaxEntries \in Nat
  BY NamingAssumption DEF InOrder
<1>2. Walk(es, hd, g)
  <2> SUFFICES ASSUME NEW i \in 1..(MaxEntries + 1)
               PROVE  g[i] = IF i = 1 THEN hd
                             ELSE IF g[i - 1] = NoCell THEN NoCell ELSE es[g[i - 1]].next
    BY DEF Walk
  <2>1. CASE i = 1
    BY <1>1, <2>1 DEF InOrder
  <2>2. CASE i # 1 /\ i - 1 <= Len(es)
    <3>1. g[i - 1] = i - 1 /\ i - 1 \in 1..Len(es)
      BY <1>1, <2>2
    <3>2. es[i - 1].next = IF i - 1 < Len(es) THEN (i - 1) + 1 ELSE NoCell
      BY <3>1 DEF InOrder
    <3> QED BY <1>1, <2>2, <3>1, <3>2 DEF NoCell
  <2>3. CASE i # 1 /\ ~(i - 1 <= Len(es))
    BY <1>1, <2>3 DEF NoCell
  <2> QED BY <2>1, <2>2, <2>3
<1> HIDE DEF g
<1>3. Walk(es, hd, c)
  <2> HIDE DEF Walk
  <2> QED BY <1>2
<1>4. \A k : ReachIn(es, hd, k) = c[k]
  BY DEF ReachIn, Walk
<1> HIDE DEF c
<1> QED BY <1>3, <1>4, WalkReaches

\* lookupPortal of a list es with head hd, and the registrations of a name in it.
LookupIn(es, hd, n) ==
    LET hits == {k \in 1..MaxEntries : ReachIn(es, hd, k) # NoCell /\ es[ReachIn(es, hd, k)].name = n}
    IN IF hits = {} THEN NoPortal
       ELSE es[ReachIn(es, hd, CHOOSE k \in hits : \A j \in hits : k <= j)].obj
Hits(es, n) == {k \in 1..Len(es) : es[k].name = n}

\* lookupPortal before and after a step, as a function of the list and the head
\* of that state.
LEMMA LookupIsLookupIn ==
    ASSUME NEW n
    PROVE  /\ lookupPortal(n) = LookupIn(entries, nameValue, n)
           /\ lookupPortal(n)' = LookupIn(entries', nameValue', n)
BY DEF lookupPortal, LookupIn, Reach, ReachIn

\* The first registration of a name counts.
LEMMA LookupFirst ==
    ASSUME NEW es, NEW hd, InOrder(es, hd), NEW n
    PROVE  /\ Hits(es, n) = {} => LookupIn(es, hd, n) = NoPortal
           /\ \A m \in Hits(es, n) : (\A j \in Hits(es, n) : m <= j) => LookupIn(es, hd, n) = es[m].obj
<1> DEFINE hits == {k \in 1..MaxEntries : ReachIn(es, hd, k) # NoCell /\ es[ReachIn(es, hd, k)].name = n}
           H == Hits(es, n)
<1>1. Len(es) \in Nat /\ MaxEntries \in Nat /\ Len(es) <= MaxEntries
  BY NamingAssumption DEF InOrder
<1>3. \A k \in 1..(MaxEntries + 1) : ReachIn(es, hd, k) = IF k <= Len(es) THEN k ELSE NoCell
  BY ReachIsIndex
<1>4. LookupIn(es, hd, n) = IF hits = {} THEN NoPortal
                            ELSE es[ReachIn(es, hd, CHOOSE k \in hits : \A j \in hits : k <= j)].obj
  BY DEF LookupIn
<1>5. hits = H
  <2>1. ASSUME NEW k \in hits PROVE k \in H
    BY <1>1, <1>3 DEF Hits
  <2>2. ASSUME NEW k \in H PROVE k \in hits
    BY <1>1, <1>3 DEF Hits, NoCell
  <2> QED BY <2>1, <2>2
<1>6. H \subseteq 1..Len(es)
  BY DEF Hits
<1> HIDE DEF hits, H
<1>7. ASSUME NEW m \in H, \A j \in H : m <= j
      PROVE  LookupIn(es, hd, n) = es[m].obj
  <2> DEFINE c == CHOOSE k \in H : \A j \in H : k <= j
  <2>1. c \in H /\ \A j \in H : c <= j
    BY <1>7
  <2>4. LookupIn(es, hd, n) = es[ReachIn(es, hd, c)].obj
    BY <1>4, <1>5, <1>7
  <2> HIDE DEF c
  <2>2. c = m
    BY <1>1, <1>6, <1>7, <2>1
  <2>3. ReachIn(es, hd, m) = m
    BY <1>1, <1>3, <1>6
  <2> QED BY <2>2, <2>3, <2>4
<1> QED BY <1>4, <1>5, <1>7 DEF H

\* A registration is linked in at the end.
LEMMA RegisterInv ==
    ASSUME NamingInv, NEW n \in Names, NEW p \in Portals, registerPortal(n, p)
    PROVE  /\ NamingInv'
           /\ Len(entries') = Len(entries) + 1
           /\ \A k \in 1..Len(entries) : /\ entries'[k].name = entries[k].name
                                         /\ entries'[k].obj = entries[k].obj
<1> DEFINE L == Len(entries)
           cell == [name |-> n, obj |-> p, next |-> NoCell]
           app == Append(entries, cell)
<1>1. /\ entries \in Seq(Cells) /\ L \in Nat /\ L < MaxEntries /\ MaxEntries \in Nat
      /\ nameValue = IF L = 0 THEN NoCell ELSE 1
      /\ \A i \in 1..L : entries[i].next = IF i < L THEN i + 1 ELSE NoCell
      /\ lastNameValue = L
  BY NamingAssumption DEF NamingInv, InOrder, registerPortal
<1>2. cell \in Cells
  BY DEF Cells, NoCell
<1> HIDE DEF cell
<1>3. /\ app \in Seq(Cells) /\ Len(app) = L + 1
      /\ \A i \in 1..L : app[i] = entries[i]
      /\ app[L + 1] = cell
  BY <1>1, <1>2
<1>4. cell.next = NoCell
  BY DEF cell
<1>5. /\ entries' = Link(app, L + 1).cells /\ nameValue' = Link(app, L + 1).head
      /\ lastNameValue' = L + 1
  BY DEF registerPortal, cell
<1> HIDE DEF app
<1>6. CASE L = 0
  <2>1. entries' = app /\ nameValue' = 1
    BY <1>1, <1>5, <1>6 DEF Link, NoCell
  <2>2. \A i \in 1..Len(app) : app[i].next = IF i < Len(app) THEN i + 1 ELSE NoCell
    BY <1>3, <1>4, <1>6
  <2>3. InOrder(entries', nameValue')
    <3>1. Len(app) = 1 /\ 1 <= MaxEntries
      BY <1>1, <1>3, <1>6
    <3>2. InOrder(app, 1)
      <4>1. app \in Seq(Cells) /\ Len(app) <= MaxEntries /\ 1 = IF Len(app) = 0 THEN NoCell ELSE 1
        BY <1>1, <1>3, <3>1
      <4> QED BY <2>2, <4>1, Zenon DEF InOrder
    <3> QED BY <2>1, <3>2
  <2> QED BY <1>3, <1>5, <2>1, <2>3 DEF NamingInv
<1>7. CASE L # 0
  <2>1. entries' = [app EXCEPT ![L].next = L + 1] /\ nameValue' = 1
    BY <1>1, <1>5, <1>7 DEF Link, NoCell
  <2>2. L \in 1..Len(app) /\ app[L] \in Cells
    BY <1>1, <1>3, <1>7
  <2>3. [app[L] EXCEPT !.next = L + 1] \in Cells
    BY <1>1, <2>2 DEF Cells
  <2>4. /\ entries' \in Seq(Cells) /\ Len(entries') = L + 1
        /\ entries'[L] = [app[L] EXCEPT !.next = L + 1]
        /\ \A i \in 1..(L + 1) : i # L => entries'[i] = app[i]
    BY <1>1, <1>3, <2>1, <2>2, <2>3
  <2>5. /\ entries'[L].next = L + 1 /\ entries'[L].name = app[L].name
        /\ entries'[L].obj = app[L].obj
    BY <2>2, <2>4 DEF Cells
  <2>6. \A i \in 1..(L + 1) : entries'[i].next = IF i < L + 1 THEN i + 1 ELSE NoCell
    <3> TAKE i \in 1..(L + 1)
    <3>1. CASE i = L
      BY <1>1, <2>5, <3>1
    <3>2. CASE i = L + 1
      BY <1>1, <1>3, <1>4, <2>4, <3>2
    <3>3. CASE i < L
      <4>1. entries'[i] = entries[i] /\ i \in 1..L
        BY <1>1, <1>3, <2>4, <3>3
      <4>2. entries[i].next = i + 1
        BY <1>1, <3>3, <4>1
      <4>3. i < L + 1
        BY <1>1, <3>3
      <4> QED BY <4>1, <4>2, <4>3
    <3> QED BY <1>1, <3>1, <3>2, <3>3
  <2>7. \A k \in 1..L : entries'[k].name = entries[k].name /\ entries'[k].obj = entries[k].obj
    <3> TAKE k \in 1..L
    <3>1. CASE k = L
      BY <1>3, <1>7, <2>5, <3>1
    <3>2. CASE k # L
      BY <1>1, <1>3, <2>4, <3>2
    <3> QED BY <3>1, <3>2
  <2> QED BY <1>1, <1>5, <2>1, <2>4, <2>6, <2>7 DEF NamingInv, InOrder
<1> QED BY <1>6, <1>7

\* Every step keeps the list in order and the meaning of names.
LEMMA NamingStep ==
    ASSUME NamingInv, [NamingNext]_namingVars
    PROVE  /\ NamingInv'
           /\ \A n \in Names : lookupPortal(n) # NoPortal => lookupPortal(n)' = lookupPortal(n)
<1>1. CASE UNCHANGED <<entries, nameValue, lastNameValue>>
  <2>1. entries' = entries /\ nameValue' = nameValue /\ lastNameValue' = lastNameValue
    BY <1>1
  <2>2. NamingInv'
    BY <2>1 DEF NamingInv
  <2> QED BY <2>1, <2>2, LookupIsLookupIn
<1>2. ASSUME NEW n \in Names, NEW p \in Portals, registerPortal(n, p)
      PROVE  /\ NamingInv'
             /\ \A x \in Names : lookupPortal(x) # NoPortal => lookupPortal(x)' = lookupPortal(x)
  <2>1. /\ NamingInv' /\ Len(entries') = Len(entries) + 1
        /\ \A k \in 1..Len(entries) : /\ entries'[k].name = entries[k].name
                                      /\ entries'[k].obj = entries[k].obj
    BY <1>2, RegisterInv
  <2>2. InOrder(entries, nameValue) /\ InOrder(entries', nameValue') /\ Len(entries) \in Nat
    BY <2>1 DEF NamingInv, InOrder
  <2>3. ASSUME NEW x \in Names, lookupPortal(x) # NoPortal
        PROVE  lookupPortal(x)' = lookupPortal(x)
    <3>1. Hits(entries, x) # {}
      BY <2>2, <2>3, LookupFirst, LookupIsLookupIn
    <3>2. Hits(entries, x) \in SUBSET Nat /\ Hits(entries, x) \subseteq 1..Len(entries)
      BY <2>2 DEF Hits
    <3>3. PICK m \in Hits(entries, x) : \A j \in Hits(entries, x) : m <= j
      BY <3>1, <3>2, LeastNumber
    <3>4. m \in Hits(entries', x)
      BY <2>1, <2>2, <3>3 DEF Hits
    <3>5. ASSUME NEW j \in Hits(entries', x) PROVE m <= j
      <4>1. CASE j <= Len(entries)
        <5>1. j \in Hits(entries, x)
          BY <2>1, <2>2, <4>1 DEF Hits
        <5> QED BY <3>3, <5>1
      <4>2. CASE ~(j <= Len(entries))
        <5>1. j \in Nat /\ m \in Nat /\ m <= Len(entries)
          BY <2>1, <2>2, <3>2, <3>3 DEF Hits
        <5> QED BY <2>2, <4>2, <5>1
      <4> QED BY <4>1, <4>2
    <3>6. LookupIn(entries, nameValue, x) = entries[m].obj
      BY <2>2, <3>3, LookupFirst
    <3>7. LookupIn(entries', nameValue', x) = entries'[m].obj
      BY <2>2, <3>4, <3>5, LookupFirst
    <3>8. entries'[m].obj = entries[m].obj
      BY <2>1, <3>2, <3>3
    <3> QED BY <3>6, <3>7, <3>8, LookupIsLookupIn
  <2> QED BY <2>1, <2>3
<1> QED BY <1>1, <1>2 DEF NamingNext, naming_lookup, namingVars

\* A name keeps its portal, however often it is registered again and whatever
\* the number of names and registrations.
THEOREM NamesAlwaysKept == NamingSpec => NameKept
<1>1. NamingInit => NamingInv
  <2> SUFFICES ASSUME NamingInit PROVE NamingInv
    OBVIOUS
  <2>1. entries = << >> /\ nameValue = NoCell /\ lastNameValue = NoCell
    BY DEF NamingInit
  <2>2. entries \in Seq(Cells) /\ Len(entries) = 0
    BY <2>1
  <2>3. \A i \in 1..Len(entries) : FALSE
    BY <2>2
  <2> QED BY <2>1, <2>2, <2>3, NamingAssumption DEF NamingInv, InOrder, NoCell
<1>2. NamingInv /\ [NamingNext]_namingVars => NamingInv'
  BY NamingStep
<1>3. NamingInv /\ [NamingNext]_namingVars
        => [\A n \in Names : lookupPortal(n) # NoPortal => lookupPortal(n)' = lookupPortal(n)]_namingVars
  BY NamingStep
<1> QED BY <1>1, <1>2, <1>3, PTL DEF NamingSpec, NameKept

-----------------------------------------------------------------------------
(* Domains.                                                                *)

UsedSlots == {s \in Slots : Used(s)}

ClientStates == {"absent", "running", "WAIT_FOR_RCV", "WAIT_FOR_RET", "UNBLOCKED"}
Clients == [st : ClientStates, at : Slots \cup {NoSlot}]
ServiceRecs == [open : BOOLEAN, senders : Seq(Ids), last : Ids \cup {NoCaller},
                serving : Ids \cup {NoCaller}, abort : BOOLEAN]
Blocks == [state : {"FREE", "ACTIVE", "TERMINATING"}, id : Ids, epoch : Nat]

DomainTypes ==
    /\ dcb \in [Slots -> Blocks]
    /\ cursor \in Slots /\ nextId \in 1..(MaxId + 1) /\ starting \in Slots \cup {NoSlot}
    /\ proxies \subseteq [slot : Slots, id : Ids]
    /\ client \in [Ids -> Clients]
    /\ svc \in [Slots -> ServiceRecs]

\* Identifiers are never given out again: two domains that live have different
\* ones, and a proxy's identifier belongs to its block or to nobody.
IdsOK ==
    /\ count = Cardinality(UsedSlots)
    /\ \A s \in Slots : Used(s) => dcb[s].id < nextId
    /\ \A s, r \in Slots : Used(s) /\ Used(r) /\ dcb[s].id = dcb[r].id => s = r
    /\ \A p \in proxies : /\ p.id < nextId
                          /\ \A s \in Slots : Used(s) /\ dcb[s].id = p.id => s = p.slot
    /\ starting # NoSlot => Used(starting)

\* The identifiers of domains that lived and do not live any more.
DeadIds(dc, n) == {i \in Ids : i < n /\ \A r \in Slots : dc[r].id # i \/ dc[r].state # "ACTIVE"}

\* The service record v of block s agrees with what the clients cl wait for; it
\* may work for a client whose domain is gone.
Waits(st, s) == [st |-> st, at |-> s]
ServiceOK(s, v, cl, dead) ==
    /\ \A k \in DOMAIN v.senders : cl[v.senders[k]] = Waits("WAIT_FOR_RCV", s)
    /\ \A j, k \in DOMAIN v.senders : v.senders[j] = v.senders[k] => j = k
    /\ v.serving # NoCaller => cl[v.serving] = Waits("WAIT_FOR_RET", s) \/ v.serving \in dead
    /\ v.serving = NoCaller => v.senders = << >>

\* Whom a client waits for an answer from lives and serves it.
CallerOK(i, dc, sv, cl) ==
    cl[i].st = "WAIT_FOR_RET" =>
        cl[i].at \in Slots /\ dc[cl[i].at].state # "FREE" /\ sv[cl[i].at].serving = i

CallsInOrder ==
    /\ \A i \in Ids : i >= nextId => client[i] = Absent
    /\ starting # NoSlot => client[dcb[starting].id] = Absent /\ svc[starting] = NoService
    /\ \A i \in Ids : CallerOK(i, dcb, svc, client)
    /\ \A s \in Slots : Used(s) => ServiceOK(s, svc[s], client, DeadIds(dcb, nextId))
    /\ \A i \in Ids : client[i] # Absent => i \notin DeadIds(dcb, nextId)
    /\ \A s \in Slots : Used(s) => dcb[s].state = "ACTIVE"

DomainsInv == DomainTypes /\ IdsOK /\ (stopped = "no" /\ ~dropped => CallsInOrder)

\* Control blocks are numbered from zero; -1 is none of them.
LEMMA SlotFacts ==
    /\ IsFiniteSet(Slots) /\ 0 \in Slots /\ NoSlot \notin Slots /\ Slots \subseteq Nat
    /\ 0 \in Ids /\ NoCaller \notin Ids /\ Ids \subseteq Nat
    /\ NSlots \in Nat /\ NSlots > 1 /\ MaxId \in Nat
<1>1. IsFiniteSet(0..(NSlots - 1))
  BY DomainsAssumption, FS_Interval
<1> QED BY <1>1, DomainsAssumption DEF Slots, NoSlot, Ids, NoCaller

\* The circular search stays in the table.
LEMMA Circular ==
    ASSUME NEW a \in Nat
    PROVE  a % NSlots \in Slots
BY SlotFacts DEF Slots

\* The records of services that are not there, and of new ones.
LEMMA ServiceTypes ==
    /\ NoService \in ServiceRecs /\ NewService \in ServiceRecs
    /\ NoService.senders = << >> /\ NoService.serving = NoCaller /\ NoService.abort = FALSE
    /\ NewService.senders = << >> /\ NewService.serving = NoCaller /\ NewService.abort = FALSE
    /\ NoService.open = FALSE
<1>1. << >> \in Seq(Ids)
  OBVIOUS
<1> QED BY <1>1 DEF NoService, NewService, ServiceRecs

\* The system starts with DomainZero alone.
LEMMA DomainsInitInv == DomainsInit => DomainsInv
<1> SUFFICES ASSUME DomainsInit PROVE DomainsInv
  OBVIOUS
<1>1. \A s \in Slots : dcb[s] = [state |-> IF s = 0 THEN "ACTIVE" ELSE "FREE", id |-> 0, epoch |-> 0]
  BY DEF DomainsInit
<1>9. ASSUME NEW s \in Slots
      PROVE  dcb[s].id = 0 /\ (dcb[s].state # "FREE" <=> s = 0) /\ (s = 0 => dcb[s].state = "ACTIVE")
  <2>1. CASE s = 0
    <3>1. dcb[s] = [state |-> "ACTIVE", id |-> 0, epoch |-> 0]
      BY <1>1, <2>1
    <3> QED BY <2>1, <3>1
  <2>2. CASE s # 0
    <3>1. dcb[s] = [state |-> "FREE", id |-> 0, epoch |-> 0]
      BY <1>1, <2>2
    <3> QED BY <2>2, <3>1
  <2> QED BY <2>1, <2>2
<1>2. UsedSlots = {0}
  BY <1>9, SlotFacts DEF UsedSlots, Used
<1>3. Cardinality({0}) = 1
  BY FS_Singleton
<1>4. NoService \in ServiceRecs /\ NewService \in ServiceRecs
  BY ServiceTypes
<1>5. Absent \in Clients /\ Running \in Clients
  BY DEF Absent, Running, Clients, ClientStates
<1>6. DomainTypes
  <2>1. dcb \in [Slots -> Blocks]
    BY SlotFacts DEF DomainsInit, Blocks
  <2>2. client \in [Ids -> Clients] /\ svc \in [Slots -> ServiceRecs]
    BY <1>4, <1>5 DEF DomainsInit
  <2>3. /\ cursor \in Slots /\ nextId \in 1..(MaxId + 1) /\ starting \in Slots \cup {NoSlot}
        /\ proxies \subseteq [slot : Slots, id : Ids]
    BY SlotFacts DEF DomainsInit, Slots
  <2> QED BY <2>1, <2>2, <2>3 DEF DomainTypes
<1>7. IdsOK
  <2>1. \A s \in Slots : Used(s) => s = 0 /\ dcb[s].id = 0
    BY <1>9 DEF Used
  <2>2. proxies = {[slot |-> 0, id |-> 0]} /\ nextId = 1 /\ count = 1 /\ starting = NoSlot
    BY DEF DomainsInit
  <2> QED BY <1>2, <1>3, <2>1, <2>2 DEF IdsOK
<1>8. CallsInOrder
  <2>1. \A i \in Ids : client[i] = IF i = 0 THEN Running ELSE Absent
    BY DEF DomainsInit
  <2>2. \A i \in Ids : client[i].st # "WAIT_FOR_RET"
    BY <2>1 DEF Running, Absent
  <2>3. \A s \in Slots : ServiceOK(s, svc[s], client, DeadIds(dcb, nextId))
    <3> TAKE s \in Slots
    <3>1. svc[s].senders = << >> /\ svc[s].serving = NoCaller
      BY DEF DomainsInit, NewService, NoService
    <3> QED BY <3>1 DEF ServiceOK
  <2>4. nextId = 1 /\ starting = NoSlot
    BY DEF DomainsInit
  <2>5. \A i \in Ids : i >= nextId => client[i] = Absent
    BY <2>1, <2>4
  <2>6. \A i \in Ids : CallerOK(i, dcb, svc, client)
    BY <2>2 DEF CallerOK
  <2>7. \A i \in Ids : client[i] # Absent => i \notin DeadIds(dcb, nextId)
    <3>1. dcb[0].id = 0 /\ dcb[0].state = "ACTIVE" /\ 0 \in Slots
      BY <1>9, SlotFacts
    <3> QED BY <2>1, <3>1 DEF DeadIds
  <2>8. \A s \in Slots : Used(s) => dcb[s].state = "ACTIVE"
    BY <1>9 DEF Used
  <2> QED BY <2>3, <2>4, <2>5, <2>6, <2>7, <2>8 DEF CallsInOrder
<1> QED BY <1>6, <1>7, <1>8 DEF DomainsInv

\* A step that gives out no identifier and frees or keeps blocks.
LEMMA BlocksKept ==
    ASSUME IdsOK, nextId' = nextId, proxies' = proxies, starting' = starting,
           \A s \in Slots : Used(s)' => Used(s) /\ dcb'[s].id = dcb[s].id,
           count' = Cardinality(UsedSlots'),
           starting # NoSlot => Used(starting)'
    PROVE  IdsOK'
<1>1. \A s \in Slots : Used(s)' => dcb'[s].id < nextId'
  BY DEF IdsOK
<1>2. \A s, r \in Slots : Used(s)' /\ Used(r)' /\ dcb'[s].id = dcb'[r].id => s = r
  BY DEF IdsOK
<1>3. \A p \in proxies' : /\ p.id < nextId'
                          /\ \A s \in Slots : Used(s)' /\ dcb'[s].id = p.id => s = p.slot
  BY DEF IdsOK
<1>4. starting' # NoSlot => Used(starting)'
  OBVIOUS
<1> QED BY <1>1, <1>2, <1>3, <1>4 DEF IdsOK

\* One that leaves the blocks alone.
LEMMA BlocksSame ==
    ASSUME IdsOK, nextId' = nextId, proxies' = proxies, starting' = starting,
           dcb' = dcb, count' = count
    PROVE  IdsOK'
<1>1. \A s : Used(s)' <=> Used(s)
  BY DEF Used
<1>2. UsedSlots' = UsedSlots
  BY <1>1 DEF UsedSlots
<1> QED BY <1>1, <1>2, BlocksKept DEF IdsOK

\* The block createDomain chooses is free.
LEMMA ChosenBlock ==
    ASSUME DomainTypes, CreateDomain
    PROVE  \E s \in Slots :
              /\ ~Used(s)
              /\ dcb' = [dcb EXCEPT ![s] = [state |-> "ACTIVE", id |-> nextId, epoch |-> 0]]
              /\ svc' = [svc EXCEPT ![s] = NoService]
              /\ cursor' \in Slots /\ starting' = s
<1> DEFINE i == CHOOSE k \in Examined : \A j \in Examined : k <= j
           s == (cursor + i) % NSlots
<1>1. Examined # {} /\ Examined \in SUBSET Nat
  BY SlotFacts DEF CreateDomain, Examined
<1>2. \E k \in Examined : \A j \in Examined : k <= j
  BY <1>1, LeastNumber
<1>3. i \in Examined
  BY <1>2
<1>4. /\ dcb' = [dcb EXCEPT ![s] = [state |-> "ACTIVE", id |-> nextId, epoch |-> 0]]
      /\ svc' = [svc EXCEPT ![s] = NoService]
      /\ cursor' = (s + 1) % NSlots /\ starting' = s
  BY DEF CreateDomain, FreshId
<1> HIDE DEF i
<1>5. ~Used(s)
  BY <1>3 DEF Examined
<1>6. cursor + i \in Nat
  BY <1>1, <1>3, SlotFacts DEF DomainTypes
<1>7. s \in Slots
  BY <1>6, Circular
<1>8. (s + 1) % NSlots \in Slots
  <2> HIDE DEF s
  <2>1. s + 1 \in Nat
    BY <1>7, SlotFacts
  <2> QED BY <2>1, Circular
<1> QED BY <1>4, <1>5, <1>7, <1>8

\* What a client waits for is its state and its block.
LEMMA WaitsIs ==
    ASSUME NEW c \in Clients, NEW st, NEW s
    PROVE  c = Waits(st, s) <=> c.st = st /\ c.at = s
BY DEF Clients, Waits

\* States of clients are not confused.
LEMMA WaitsDiffer ==
    /\ \A s, r : Waits("WAIT_FOR_RCV", s) # Waits("WAIT_FOR_RET", r)
    /\ \A st, s, r : Waits(st, s) = Waits(st, r) => s = r
    /\ \A s : Waits("WAIT_FOR_RET", s).st = "WAIT_FOR_RET" /\ Waits("WAIT_FOR_RET", s).at = s
    /\ \A s : Waits("WAIT_FOR_RCV", s).st = "WAIT_FOR_RCV" /\ Waits("WAIT_FOR_RCV", s).at = s
    /\ \A s : /\ Absent # Waits("WAIT_FOR_RET", s) /\ Running # Waits("WAIT_FOR_RET", s)
              /\ Absent # Waits("WAIT_FOR_RCV", s) /\ Running # Waits("WAIT_FOR_RCV", s)
    /\ Absent.st = "absent" /\ Running.st = "running" /\ Absent \in Clients /\ Running \in Clients
    /\ \A s \in Slots : Waits("WAIT_FOR_RET", s) \in Clients /\ Waits("WAIT_FOR_RCV", s) \in Clients
    /\ \A s \in Slots : Waits("UNBLOCKED", s) \in Clients /\ Waits("UNBLOCKED", s).st = "UNBLOCKED"
    /\ \A s : Waits("UNBLOCKED", s) # Absent /\ Waits("WAIT_FOR_RET", s) # Absent /\ Waits("WAIT_FOR_RCV", s) # Absent
    /\ Absent # Running
BY DEF Waits, Absent, Running, Clients, ClientStates

\* A service is not touched by what happens to clients that do not wait for it.
LEMMA ServiceFrame ==
    ASSUME NEW s \in Slots, NEW v \in ServiceRecs, NEW cl \in [Ids -> Clients],
           NEW c2 \in [Ids -> Clients], NEW dead, NEW dead2, ServiceOK(s, v, cl, dead), dead \subseteq dead2,
           \A j \in Ids : cl[j] \in {Waits("WAIT_FOR_RCV", s), Waits("WAIT_FOR_RET", s)} => c2[j] = cl[j]
    PROVE  ServiceOK(s, v, c2, dead2)
<1>1. /\ v.senders \in Seq(Ids) /\ v.serving \in Ids \cup {NoCaller}
      /\ \A k \in DOMAIN v.senders : v.senders[k] \in Ids
  BY DEF ServiceRecs
<1>2. \A k \in DOMAIN v.senders : c2[v.senders[k]] = Waits("WAIT_FOR_RCV", s)
  BY <1>1 DEF ServiceOK
<1>3. v.serving # NoCaller => c2[v.serving] = Waits("WAIT_FOR_RET", s) \/ v.serving \in dead2
  BY <1>1 DEF ServiceOK
<1> QED BY <1>2, <1>3 DEF ServiceOK

\* A service that has nobody to serve.
LEMMA ServiceEmpty ==
    ASSUME NEW s, NEW v, NEW cl, NEW dead, v.senders = << >>, v.serving = NoCaller
    PROVE  ServiceOK(s, v, cl, dead)
BY DEF ServiceOK

\* Who is dead stays dead: no identifier is given out again.
LEMMA DeadStay ==
    ASSUME DomainTypes, nextId' \in Nat, nextId <= nextId',
           \A r \in Slots : \/ dcb'[r].state # "ACTIVE"
                            \/ dcb[r].state = "ACTIVE" /\ dcb'[r].id = dcb[r].id
                            \/ dcb'[r].id = nextId
    PROVE  DeadIds(dcb, nextId) \subseteq DeadIds(dcb', nextId')
<1> SUFFICES ASSUME NEW i \in DeadIds(dcb, nextId) PROVE i \in DeadIds(dcb', nextId')
  OBVIOUS
<1>1. /\ i \in Ids /\ i \in Nat /\ i < nextId /\ nextId \in Nat
      /\ \A r \in Slots : dcb[r].id # i \/ dcb[r].state # "ACTIVE"
  BY SlotFacts DEF DeadIds, DomainTypes
<1>2. i < nextId' /\ i # nextId
  BY <1>1
<1>3. \A r \in Slots : dcb'[r].id # i \/ dcb'[r].state # "ACTIVE"
  BY <1>1, <1>2
<1> QED BY <1>1, <1>2, <1>3 DEF DeadIds

\* The parts of the invariant.
LEMMA DomainsParts ==
    ASSUME DomainsInv
    PROVE  /\ DomainTypes /\ IdsOK
           /\ dcb \in [Slots -> Blocks] /\ client \in [Ids -> Clients] /\ svc \in [Slots -> ServiceRecs]
           /\ \A s \in Slots : dcb[s].id \in Ids /\ svc[s] \in ServiceRecs
           /\ \A s \in Slots : svc[s].serving \in Ids \cup {NoCaller}
           /\ \A i \in Ids : client[i] \in Clients
<1>1. /\ DomainTypes /\ IdsOK
      /\ dcb \in [Slots -> Blocks] /\ client \in [Ids -> Clients] /\ svc \in [Slots -> ServiceRecs]
  BY DEF DomainsInv, DomainTypes
<1>3. \A s \in Slots : dcb[s].id \in Ids
  BY <1>1 DEF Blocks
<1>4. \A s \in Slots : svc[s] \in ServiceRecs
  BY <1>1
<1>5. \A s \in Slots : svc[s].serving \in Ids \cup {NoCaller}
  BY <1>4 DEF ServiceRecs
<1> QED BY <1>1, <1>3, <1>4, <1>5

\* Those of a system that runs and has dropped no answer.
LEMMA CallsParts ==
    ASSUME CallsInOrder
    PROVE  /\ \A i \in Ids : i >= nextId => client[i] = Absent
           /\ \A i \in Ids : CallerOK(i, dcb, svc, client)
           /\ \A s \in Slots : Used(s) => ServiceOK(s, svc[s], client, DeadIds(dcb, nextId))
           /\ \A i \in Ids : client[i] # Absent => i \notin DeadIds(dcb, nextId)
           /\ \A s \in Slots : Used(s) => dcb[s].state = "ACTIVE"
BY DEF CallsInOrder

\* createDomain.
LEMMA CreateInv ==
    ASSUME DomainsInv, stopped = "no", CreateDomain
    PROVE  DomainsInv'
<1>0. /\ DomainTypes /\ IdsOK
      /\ dcb \in [Slots -> Blocks] /\ client \in [Ids -> Clients] /\ svc \in [Slots -> ServiceRecs]
  BY DomainsParts
<1>1. PICK s \in Slots :
              /\ ~Used(s)
              /\ dcb' = [dcb EXCEPT ![s] = [state |-> "ACTIVE", id |-> nextId, epoch |-> 0]]
              /\ svc' = [svc EXCEPT ![s] = NoService]
              /\ cursor' \in Slots /\ starting' = s
  BY <1>0, ChosenBlock
<1>2. /\ nextId <= MaxId /\ starting = NoSlot /\ nextId' = nextId + 1 /\ count' = count + 1
      /\ proxies' = proxies /\ client' = client /\ dropped' = dropped
  BY DEF CreateDomain
<1>3. nextId \in Ids /\ nextId \in Nat /\ nextId + 1 \in 1..(MaxId + 1)
  BY <1>0, <1>2, SlotFacts DEF DomainTypes, Ids
<1>4. /\ dcb' \in [Slots -> Blocks]
      /\ dcb'[s].id = nextId /\ dcb'[s].state = "ACTIVE"
      /\ \A r \in Slots \ {s} : dcb'[r] = dcb[r]
  <2>1. [state |-> "ACTIVE", id |-> nextId, epoch |-> 0] \in Blocks
    BY <1>3 DEF Blocks
  <2>2. dcb'[s] = [state |-> "ACTIVE", id |-> nextId, epoch |-> 0]
    BY <1>0, <1>1
  <2> QED BY <1>0, <1>1, <2>1, <2>2
<1>5. /\ svc' \in [Slots -> ServiceRecs] /\ svc'[s] = NoService
      /\ \A r \in Slots \ {s} : svc'[r] = svc[r]
  BY <1>0, <1>1, ServiceTypes
<1>6. DomainTypes'
  <2>1. nextId' \in 1..(MaxId + 1) /\ starting' \in Slots \cup {NoSlot}
    BY <1>1, <1>2, <1>3
  <2>2. proxies \subseteq [slot : Slots, id : Ids]
    BY <1>0 DEF DomainTypes
  <2> QED BY <1>0, <1>1, <1>2, <1>4, <1>5, <2>1, <2>2 DEF DomainTypes
<1>7. /\ Used(s)' /\ \A r \in Slots \ {s} : Used(r)' <=> Used(r)
  BY <1>4 DEF Used
<1>8. IdsOK'
  <2>1. UsedSlots' = UsedSlots \cup {s} /\ s \notin UsedSlots
    BY <1>1, <1>7 DEF UsedSlots
  <2>2. IsFiniteSet(UsedSlots)
    BY SlotFacts, FS_Subset DEF UsedSlots
  <2>3. Cardinality(UsedSlots \cup {s}) = Cardinality(UsedSlots) + 1
    BY <2>1, <2>2, FS_AddElement
  <2>4. \A r \in Slots : Used(r)' => dcb'[r].id < nextId'
    <3> SUFFICES ASSUME NEW r \in Slots, Used(r)' PROVE dcb'[r].id < nextId + 1
      BY <1>2
    <3>1. CASE r = s
      BY <1>3, <1>4, <3>1
    <3>2. CASE r # s
      <4>1. dcb[r].id < nextId /\ dcb'[r].id = dcb[r].id
        BY <1>0, <1>4, <1>7, <3>2 DEF IdsOK
      <4>2. dcb[r].id \in Nat
        BY <1>0, SlotFacts DEF Blocks
      <4> QED BY <1>3, <4>1, <4>2
    <3> QED BY <3>1, <3>2
  <2>5. \A r \in Slots \ {s} : Used(r) => dcb[r].id # nextId
    <3> SUFFICES ASSUME NEW r \in Slots \ {s}, Used(r) PROVE dcb[r].id # nextId
      OBVIOUS
    <3>1. dcb[r].id < nextId
      BY <1>0 DEF IdsOK
    <3> QED BY <1>3, <3>1
  <2>6. \A q, r \in Slots : Used(q)' /\ Used(r)' /\ dcb'[q].id = dcb'[r].id => q = r
    BY <1>0, <1>4, <1>7, <2>5 DEF IdsOK
  <2>7. \A p \in proxies' : /\ p.id < nextId'
                            /\ \A r \in Slots : Used(r)' /\ dcb'[r].id = p.id => r = p.slot
    <3> SUFFICES ASSUME NEW p \in proxies
                 PROVE  /\ p.id < nextId + 1
                        /\ \A r \in Slots : Used(r)' /\ dcb'[r].id = p.id => r = p.slot
      BY <1>2
    <3>1. p.id < nextId /\ \A r \in Slots : Used(r) /\ dcb[r].id = p.id => r = p.slot
      BY <1>0 DEF IdsOK
    <3>2. p.id \in Nat
      BY <1>0, SlotFacts DEF DomainTypes
    <3>3. p.id # nextId /\ p.id < nextId + 1
      BY <1>3, <3>1, <3>2
    <3> QED BY <1>4, <1>7, <3>1, <3>3
  <2>8. starting' # NoSlot => Used(starting)'
    BY <1>1, <1>7
  <2>9. count' = Cardinality(UsedSlots)'
    BY <1>0, <1>2, <2>1, <2>3 DEF IdsOK
  <2> QED BY <2>4, <2>6, <2>7, <2>8, <2>9 DEF IdsOK
<1>9. ASSUME CallsInOrder PROVE CallsInOrder'
  <2>0. /\ \A i \in Ids : i >= nextId => client[i] = Absent
        /\ \A i \in Ids : CallerOK(i, dcb, svc, client)
        /\ \A r \in Slots : Used(r) => ServiceOK(r, svc[r], client, DeadIds(dcb, nextId))
        /\ \A i \in Ids : client[i] # Absent => i \notin DeadIds(dcb, nextId)
        /\ \A r \in Slots : Used(r) => dcb[r].state = "ACTIVE"
    BY <1>9, CallsParts
  <2>1. \A i \in Ids : i >= nextId + 1 => client[i] = Absent
    <3> SUFFICES ASSUME NEW i \in Ids, i >= nextId + 1 PROVE client[i] = Absent
      OBVIOUS
    <3>1. i >= nextId
      BY <1>3, SlotFacts
    <3> QED BY <2>0, <3>1
  <2>2. client[nextId] = Absent
    BY <1>3, <2>0
  <2>3. ASSUME NEW i \in Ids PROVE CallerOK(i, dcb', svc', client)
    <3>1. CallerOK(i, dcb, svc, client)
      BY <2>0
    <3> QED BY <1>1, <1>4, <1>5, <3>1 DEF CallerOK, Used
  <2>4. DeadIds(dcb, nextId) \subseteq DeadIds(dcb', nextId')
    <3>1. nextId' \in Nat /\ nextId <= nextId'
      BY <1>2, <1>3
    <3>2. \A r \in Slots : \/ dcb'[r].state # "ACTIVE"
                           \/ dcb[r].state = "ACTIVE" /\ dcb'[r].id = dcb[r].id
                           \/ dcb'[r].id = nextId
      BY <1>4
    <3> QED BY <1>0, <3>1, <3>2, DeadStay
  <2>5. ASSUME NEW r \in Slots, Used(r)' PROVE ServiceOK(r, svc'[r], client, DeadIds(dcb', nextId'))
    <3>1. CASE r = s
      BY <1>5, <3>1, ServiceTypes, ServiceEmpty
    <3>2. CASE r # s
      <4>1. ServiceOK(r, svc[r], client, DeadIds(dcb, nextId)) /\ svc'[r] = svc[r] /\ svc[r] \in ServiceRecs
        BY <1>0, <1>5, <1>7, <2>0, <2>5, <3>2
      <4> QED BY <1>0, <2>4, <4>1, ServiceFrame
    <3> QED BY <3>1, <3>2
  <2>6. ASSUME NEW i \in Ids, client[i] # Absent PROVE i \notin DeadIds(dcb', nextId')
    <3>1. i < nextId /\ i \notin DeadIds(dcb, nextId)
      BY <1>3, <2>0, <2>6, SlotFacts
    <3>2. PICK r \in Slots : dcb[r].id = i /\ dcb[r].state = "ACTIVE"
      BY <3>1 DEF DeadIds
    <3>3. r # s /\ dcb'[r] = dcb[r]
      BY <1>1, <1>4, <3>2 DEF Used
    <3> QED BY <3>2, <3>3 DEF DeadIds
  <2>7. \A r \in Slots : Used(r)' => dcb'[r].state = "ACTIVE"
    BY <1>4, <1>7, <2>0
  <2> QED BY <1>1, <1>2, <1>4, <1>5, <2>1, <2>2, <2>3, <2>5, <2>6, <2>7 DEF CallsInOrder
<1> QED BY <1>2, <1>6, <1>8, <1>9 DEF DomainsInv

\* start_initial_thread.
LEMMA StartInv ==
    ASSUME DomainsInv, stopped = "no", StartDomain
    PROVE  DomainsInv'
<1> DEFINE s == starting
           i == dcb[s].id
<1>0. /\ DomainTypes /\ IdsOK
      /\ dcb \in [Slots -> Blocks] /\ client \in [Ids -> Clients] /\ svc \in [Slots -> ServiceRecs]
  BY DomainsParts
<1>1. s \in Slots /\ s # NoSlot /\ Used(s) /\ i \in Ids /\ i < nextId
  BY <1>0, DomainsParts DEF StartDomain, DomainTypes, IdsOK
<1>2. /\ client' = [client EXCEPT ![i] = Running]
      /\ svc' = [svc EXCEPT ![s] = NewService]
      /\ proxies' = proxies \cup {[slot |-> s, id |-> i]}
      /\ starting' = NoSlot /\ dcb' = dcb /\ cursor' = cursor /\ nextId' = nextId /\ count' = count
      /\ dropped' = dropped /\ s = starting /\ i = dcb[s].id
  BY DEF StartDomain
<1> HIDE DEF s, i
<1>3. /\ client' \in [Ids -> Clients] /\ client'[i] = Running
      /\ \A x \in Ids \ {i} : client'[x] = client[x]
  BY <1>0, <1>1, <1>2, WaitsDiffer
<1>4. /\ svc' \in [Slots -> ServiceRecs] /\ svc'[s] = NewService
      /\ \A r \in Slots \ {s} : svc'[r] = svc[r]
  BY <1>0, <1>1, <1>2, ServiceTypes
<1>5. DomainTypes'
  <2>1. [slot |-> s, id |-> i] \in [slot : Slots, id : Ids]
    BY <1>1
  <2>2. proxies' \subseteq [slot : Slots, id : Ids]
    BY <1>0, <1>2, <2>1 DEF DomainTypes
  <2> QED BY <1>0, <1>2, <1>3, <1>4, <2>2 DEF DomainTypes
<1>6. \A r : Used(r)' <=> Used(r)
  BY <1>2 DEF Used
<1>7. IdsOK'
  <2>1. UsedSlots' = UsedSlots
    BY <1>6 DEF UsedSlots
  <2>2. \A p \in proxies' : /\ p.id < nextId
                            /\ \A r \in Slots : Used(r) /\ dcb[r].id = p.id => r = p.slot
    <3>1. \A p \in proxies : /\ p.id < nextId
                             /\ \A r \in Slots : Used(r) /\ dcb[r].id = p.id => r = p.slot
      BY <1>0 DEF IdsOK
    <3>2. \A r \in Slots : Used(r) /\ dcb[r].id = i => r = s
      BY <1>0, <1>1 DEF IdsOK, i
    <3> QED BY <1>1, <1>2, <3>1, <3>2
  <2> QED BY <1>0, <1>2, <1>6, <2>1, <2>2 DEF IdsOK
<1>8. ASSUME CallsInOrder PROVE CallsInOrder'
  <2>0. /\ \A x \in Ids : x >= nextId => client[x] = Absent
        /\ \A x \in Ids : CallerOK(x, dcb, svc, client)
        /\ \A r \in Slots : Used(r) => ServiceOK(r, svc[r], client, DeadIds(dcb, nextId))
        /\ \A x \in Ids : client[x] # Absent => x \notin DeadIds(dcb, nextId)
        /\ \A r \in Slots : Used(r) => dcb[r].state = "ACTIVE"
    BY <1>8, CallsParts
  <2>9. client[i] = Absent /\ svc[s] = NoService
    BY <1>1, <1>2, <1>8 DEF CallsInOrder
  <2>1. \A x \in Ids : x >= nextId => client'[x] = Absent
    <3> SUFFICES ASSUME NEW x \in Ids, x >= nextId PROVE client'[x] = Absent
      OBVIOUS
    <3>1. x # i
      BY <1>0, <1>1, SlotFacts DEF DomainTypes
    <3> QED BY <1>3, <2>0, <3>1
  <2>2. ASSUME NEW x \in Ids PROVE CallerOK(x, dcb', svc', client')
    <3>1. CASE x = i
      BY <1>3, <3>1, WaitsDiffer DEF CallerOK
    <3>2. CASE x # i
      <4>1. CallerOK(x, dcb, svc, client) /\ client'[x] = client[x]
        BY <1>3, <2>0, <3>2
      <4>2. svc[s].serving = NoCaller /\ x # NoCaller
        BY <2>9, ServiceTypes, SlotFacts
      <4> QED BY <1>2, <1>4, <4>1, <4>2 DEF CallerOK
    <3> QED BY <3>1, <3>2
  <2>3. ASSUME NEW r \in Slots, Used(r)' PROVE ServiceOK(r, svc'[r], client', DeadIds(dcb', nextId'))
    <3>1. CASE r = s
      BY <1>4, <3>1, ServiceTypes, ServiceEmpty
    <3>2. CASE r # s
      <4>1. ServiceOK(r, svc[r], client, DeadIds(dcb, nextId)) /\ svc'[r] = svc[r] /\ svc[r] \in ServiceRecs
        BY <1>0, <1>4, <1>6, <2>0, <2>3, <3>2
      <4>2. \A j \in Ids : client[j] \in {Waits("WAIT_FOR_RCV", r), Waits("WAIT_FOR_RET", r)}
                              => client'[j] = client[j]
        BY <1>3, <2>9, WaitsDiffer
      <4>3. DeadIds(dcb, nextId) = DeadIds(dcb', nextId')
        BY <1>2
      <4> QED BY <1>0, <1>3, <4>1, <4>2, <4>3, ServiceFrame
    <3> QED BY <3>1, <3>2
  <2>4. ASSUME NEW x \in Ids, client'[x] # Absent PROVE x \notin DeadIds(dcb, nextId)
    <3>1. CASE x = i
      BY <1>1, <1>2, <2>0, <3>1 DEF DeadIds
    <3>2. CASE x # i
      BY <1>3, <2>0, <2>4, <3>2
    <3> QED BY <3>1, <3>2
  <2>5. \A r \in Slots : Used(r)' => dcb'[r].state = "ACTIVE"
    BY <1>2, <1>6, <2>0
  <2> QED BY <1>2, <2>1, <2>2, <2>3, <2>4, <2>5 DEF CallsInOrder
<1> QED BY <1>2, <1>5, <1>7, <1>8 DEF DomainsInv

\* A sender is queued, or is linked behind one that has left the queue.
LEMMA AppendSenderFacts ==
    ASSUME NEW v \in ServiceRecs, NEW i \in Ids
    PROVE  LET w == AppendSender(v, i) IN
           /\ w \in ServiceRecs /\ w.serving = v.serving
           /\ w.senders = v.senders \/ w.senders = Append(v.senders, i) \/ w.senders = <<i>>
           /\ v.senders = << >> => w.senders = << >> \/ w.senders = <<i>>
<1> DEFINE w == AppendSender(v, i)
<1>1. v.senders \in Seq(Ids)
  BY DEF ServiceRecs
<1>2. Append(v.senders, i) \in Seq(Ids) /\ <<i>> \in Seq(Ids)
  BY <1>1
<1>3. CASE v.last = NoCaller
  <2>1. w = [v EXCEPT !.senders = <<i>>, !.last = i]
    BY <1>3 DEF AppendSender
  <2> QED BY <1>2, <2>1 DEF ServiceRecs
<1>4. CASE v.last # NoCaller /\ v.senders # << >> /\ v.senders[Len(v.senders)] = v.last
  <2>1. w = [v EXCEPT !.senders = Append(v.senders, i), !.last = i]
    BY <1>4 DEF AppendSender
  <2> QED BY <1>2, <1>4, <2>1 DEF ServiceRecs
<1>5. CASE v.last # NoCaller /\ ~(v.senders # << >> /\ v.senders[Len(v.senders)] = v.last)
  <2>1. w = [v EXCEPT !.last = i]
    BY <1>5 DEF AppendSender
  <2> QED BY <1>2, <2>1 DEF ServiceRecs
<1> QED BY <1>3, <1>4, <1>5

\* The next sender is taken, if there is one.
LEMMA DequeueFacts ==
    ASSUME NEW v \in ServiceRecs
    PROVE  LET w == Dequeue(v) IN
           /\ w \in ServiceRecs /\ w.serving = Served(v)
           /\ v.senders = << >> => w.serving = NoCaller /\ w.senders = << >>
           /\ v.senders # << >> => /\ w.serving \in Ids /\ w.serving = v.senders[1]
                                   /\ 1 \in DOMAIN v.senders /\ w.senders = Tail(v.senders)
<1> DEFINE w == Dequeue(v)
<1>1. v.senders \in Seq(Ids) /\ v.last \in Ids \cup {NoCaller}
  BY DEF ServiceRecs
<1>2. CASE v.senders = << >>
  <2>1. w = [v EXCEPT !.serving = NoCaller] /\ Served(v) = NoCaller
    BY <1>2 DEF Dequeue, Served
  <2> QED BY <1>2, <2>1 DEF ServiceRecs
<1>3. CASE v.senders # << >>
  <2> DEFINE l == IF Len(v.senders) = 1 THEN NoCaller ELSE v.last
  <2>1. /\ w = [v EXCEPT !.serving = Head(v.senders), !.senders = Tail(v.senders), !.last = l]
        /\ Served(v) = Head(v.senders)
    BY <1>3 DEF Dequeue, Served
  <2>2. l \in Ids \cup {NoCaller}
    BY <1>1
  <2>3. /\ Head(v.senders) \in Ids /\ Head(v.senders) = v.senders[1] /\ 1 \in DOMAIN v.senders
        /\ Tail(v.senders) \in Seq(Ids)
    BY <1>1, <1>3
  <2> HIDE DEF l
  <2> QED BY <1>3, <2>1, <2>2, <2>3 DEF ServiceRecs
<1> QED BY <1>2, <1>3

\* The senders that are left when the first is taken.
LEMMA TailFacts ==
    ASSUME NEW q \in Seq(Ids), q # << >>, \A j, k \in DOMAIN q : q[j] = q[k] => j = k
    PROVE  /\ \A k \in DOMAIN Tail(q) : \E j \in DOMAIN q : Tail(q)[k] = q[j] /\ q[j] # q[1]
           /\ \A j, k \in DOMAIN Tail(q) : Tail(q)[j] = Tail(q)[k] => j = k
<1> DEFINE t == Tail(q)
<1>1. /\ 1 \in DOMAIN q
      /\ \A k \in DOMAIN t : k + 1 \in DOMAIN q /\ t[k] = q[k + 1] /\ k \in Nat /\ k # 0
  OBVIOUS
<1> HIDE DEF t
<1>2. ASSUME NEW k \in DOMAIN t PROVE \E j \in DOMAIN q : t[k] = q[j] /\ q[j] # q[1]
  <2>1. k + 1 # 1
    BY <1>1
  <2> QED BY <1>1, <2>1
<1>3. ASSUME NEW j \in DOMAIN t, NEW k \in DOMAIN t, t[j] = t[k] PROVE j = k
  <2>1. j + 1 = k + 1
    BY <1>1, <1>3
  <2> QED BY <1>1, <2>1
<1> QED BY <1>2, <1>3 DEF t

\* What a call makes of the record v of a service.
Called(v, i) == IF v.serving = NoCaller THEN Dequeue(AppendSender(v, i)) ELSE AppendSender(v, i)
CallsAs(v, i) ==
    IF v.serving = NoCaller /\ Served(AppendSender(v, i)) = i THEN "WAIT_FOR_RET" ELSE "WAIT_FOR_RCV"

\* A call keeps the record of the service well-formed.
LEMMA CalledFacts ==
    ASSUME NEW v \in ServiceRecs, NEW i \in Ids
    PROVE  /\ Called(v, i) \in ServiceRecs
           /\ v.serving # NoCaller => Called(v, i).serving = v.serving
           /\ CallsAs(v, i) = "WAIT_FOR_RET" => Called(v, i).serving = i
           /\ CallsAs(v, i) \in {"WAIT_FOR_RET", "WAIT_FOR_RCV"}
<1> DEFINE a == AppendSender(v, i)
<1>1. a \in ServiceRecs /\ a.serving = v.serving
  BY AppendSenderFacts
<1> HIDE DEF a
<1>2. Dequeue(a) \in ServiceRecs /\ Dequeue(a).serving = Served(a)
  BY <1>1, DequeueFacts
<1>3. Called(v, i) = (IF v.serving = NoCaller THEN Dequeue(a) ELSE a)
  BY DEF Called, a
<1>4. CallsAs(v, i) = (IF v.serving = NoCaller /\ Served(a) = i THEN "WAIT_FOR_RET" ELSE "WAIT_FOR_RCV")
  BY DEF CallsAs, a
<1> QED BY <1>1, <1>2, <1>3, <1>4

\* The service a running client calls.
LEMMA CalledService ==
    ASSUME NEW s \in Slots, NEW v \in ServiceRecs, NEW cl \in [Ids -> Clients],
           NEW c2 \in [Ids -> Clients], NEW i \in Ids, NEW dead,
           ServiceOK(s, v, cl, dead), cl[i] = Running, i \notin dead,
           c2[i] = Waits(CallsAs(v, i), s), \A j \in Ids \ {i} : c2[j] = cl[j]
    PROVE  ServiceOK(s, Called(v, i), c2, dead)
<1> DEFINE a == AppendSender(v, i)
           w == Called(v, i)
<1>1. /\ v.senders \in Seq(Ids) /\ v.serving \in Ids \cup {NoCaller}
      /\ \A k \in DOMAIN v.senders : v.senders[k] \in Ids
  BY DEF ServiceRecs
<1>2. /\ a \in ServiceRecs /\ a.serving = v.serving
      /\ a.senders = v.senders \/ a.senders = Append(v.senders, i) \/ a.senders = <<i>>
      /\ v.senders = << >> => a.senders = << >> \/ a.senders = <<i>>
  BY AppendSenderFacts
<1>3. /\ w = (IF v.serving = NoCaller THEN Dequeue(a) ELSE a)
      /\ CallsAs(v, i) = (IF v.serving = NoCaller /\ Served(a) = i THEN "WAIT_FOR_RET" ELSE "WAIT_FOR_RCV")
  BY DEF Called, CallsAs
<1> HIDE DEF a, w
<1>4. CASE v.serving = NoCaller
  <2>0. v.senders = << >>
    BY <1>4 DEF ServiceOK
  <2>1. CASE a.senders = << >>
    <3>1. w.serving = NoCaller /\ w.senders = << >>
      BY <1>2, <1>3, <1>4, <2>1, DequeueFacts
    <3> QED BY <3>1, ServiceEmpty DEF w
  <2>2. CASE a.senders = <<i>>
    <3>0. a.senders # << >> /\ w = Dequeue(a)
      BY <1>3, <1>4, <2>2
    <3>1. /\ w.serving = a.senders[1] /\ w.serving = Served(a) /\ w.senders = Tail(a.senders)
      BY <1>2, <3>0, DequeueFacts
    <3>2. w.serving = i /\ w.senders = << >> /\ Served(a) = i
      BY <2>2, <3>1
    <3>3. c2[i] = Waits("WAIT_FOR_RET", s)
      BY <1>3, <1>4, <3>2
    <3>4. /\ \A k \in DOMAIN w.senders : c2[w.senders[k]] = Waits("WAIT_FOR_RCV", s)
          /\ \A j, k \in DOMAIN w.senders : w.senders[j] = w.senders[k] => j = k
      BY <3>2
    <3> QED BY <3>2, <3>3, <3>4 DEF ServiceOK, w
  <2> QED BY <1>2, <2>0, <2>1, <2>2
<1>5. CASE v.serving # NoCaller
  <2>1. w = a /\ c2[i] = Waits("WAIT_FOR_RCV", s)
    BY <1>3, <1>5
  <2>2. c2[a.serving] = Waits("WAIT_FOR_RET", s) \/ a.serving \in dead
    <3>1. cl[v.serving] = Waits("WAIT_FOR_RET", s) \/ v.serving \in dead
      BY <1>5 DEF ServiceOK
    <3>2. v.serving # i
      BY <3>1, WaitsDiffer
    <3> QED BY <1>1, <1>2, <1>5, <3>1, <3>2
  <2>3. /\ \A k \in DOMAIN v.senders : v.senders[k] # i /\ c2[v.senders[k]] = Waits("WAIT_FOR_RCV", s)
        /\ \A j, k \in DOMAIN v.senders : v.senders[j] = v.senders[k] => j = k
    BY <1>1, WaitsDiffer DEF ServiceOK
  <2>4. /\ \A k \in DOMAIN a.senders : c2[a.senders[k]] = Waits("WAIT_FOR_RCV", s)
        /\ \A j, k \in DOMAIN a.senders : a.senders[j] = a.senders[k] => j = k
    <3>1. CASE a.senders = v.senders
      BY <2>3, <3>1
    <3>2. CASE a.senders = <<i>>
      <4>1. DOMAIN a.senders = {1} /\ a.senders[1] = i
        BY <3>2
      <4> QED BY <2>1, <4>1
    <3>3. CASE a.senders = Append(v.senders, i)
      <4> DEFINE n == Len(v.senders)
      <4>1. /\ n \in Nat /\ DOMAIN v.senders = 1..n /\ DOMAIN a.senders = 1..(n + 1)
            /\ \A k \in 1..n : a.senders[k] = v.senders[k]
            /\ a.senders[n + 1] = i
        BY <1>1, <3>3
      <4> HIDE DEF n
      <4>3. \A k \in DOMAIN a.senders : k \in 1..n \/ k = n + 1
        BY <4>1
      <4>4. \A k \in DOMAIN a.senders : c2[a.senders[k]] = Waits("WAIT_FOR_RCV", s)
        BY <2>1, <2>3, <4>1, <4>3
      <4>5. \A j, k \in DOMAIN a.senders : a.senders[j] = a.senders[k] => j = k
        BY <2>3, <4>1, <4>3
      <4> QED BY <4>4, <4>5
    <3> QED BY <1>2, <3>1, <3>2, <3>3
  <2>5. a.serving # NoCaller
    BY <1>2, <1>5
  <2> QED BY <2>1, <2>2, <2>4, <2>5 DEF ServiceOK, w
<1> QED BY <1>4, <1>5

\* direct_send_portal.
LEMMA CallInv ==
    ASSUME DomainsInv, stopped = "no", NEW i \in Ids, NEW p \in proxies, CallService(i, p)
    PROVE  DomainsInv'
<1> DEFINE s == p.slot
           v == svc[s]
           w == Called(v, i)
           st == CallsAs(v, i)
<1>0. /\ DomainTypes /\ IdsOK
      /\ dcb \in [Slots -> Blocks] /\ client \in [Ids -> Clients] /\ svc \in [Slots -> ServiceRecs]
  BY DomainsParts
<1>1. /\ dcb' = dcb /\ cursor' = cursor /\ nextId' = nextId /\ count' = count
      /\ starting' = starting /\ proxies' = proxies /\ dropped' = dropped
      /\ client[i] = Running /\ Used(s) /\ v.open
      /\ svc' = [svc EXCEPT ![s] = w]
      /\ client' = [client EXCEPT ![i] = Waits(st, s)]
  BY DEF CallService, Called, CallsAs, Waits
<1>2. IdsOK'
  BY <1>0, <1>1, BlocksSame
<1>3. s \in Slots
  BY <1>0 DEF DomainTypes
<1>4. /\ v \in ServiceRecs /\ w \in ServiceRecs
      /\ v.serving # NoCaller => w.serving = v.serving
      /\ st = "WAIT_FOR_RET" => w.serving = i
      /\ st \in {"WAIT_FOR_RET", "WAIT_FOR_RCV"} /\ Waits(st, s) \in Clients
  BY <1>0, <1>3, CalledFacts, WaitsDiffer
<1> HIDE DEF w, st
<1>5. /\ client' \in [Ids -> Clients] /\ client'[i] = Waits(st, s)
      /\ \A x \in Ids \ {i} : client'[x] = client[x]
  BY <1>0, <1>1, <1>4
<1>6. /\ svc' \in [Slots -> ServiceRecs] /\ svc'[s] = w
      /\ \A r \in Slots \ {s} : svc'[r] = svc[r]
  BY <1>0, <1>1, <1>3, <1>4
<1>7. DomainTypes'
  BY <1>0, <1>1, <1>5, <1>6 DEF DomainTypes
<1>8. ASSUME CallsInOrder PROVE CallsInOrder'
  <2>0. /\ \A x \in Ids : x >= nextId => client[x] = Absent
        /\ \A x \in Ids : CallerOK(x, dcb, svc, client)
        /\ \A r \in Slots : Used(r) => ServiceOK(r, svc[r], client, DeadIds(dcb, nextId))
        /\ \A x \in Ids : client[x] # Absent => x \notin DeadIds(dcb, nextId)
        /\ \A r \in Slots : Used(r) => dcb[r].state = "ACTIVE"
    BY <1>8, CallsParts
  <2>1. i \notin DeadIds(dcb, nextId)
    BY <1>1, <2>0, WaitsDiffer
  <2>2. ServiceOK(s, w, client', DeadIds(dcb, nextId))
    <3>1. ServiceOK(s, v, client, DeadIds(dcb, nextId))
      BY <1>1, <1>3, <2>0
    <3>2. client'[i] = Waits(CallsAs(v, i), s)
      BY <1>5 DEF st
    <3> HIDE DEF v, s
    <3> QED BY <1>0, <1>1, <1>3, <1>4, <1>5, <2>1, <3>1, <3>2, CalledService DEF w
  <2>3. \A x \in Ids : x >= nextId => client'[x] = Absent
    BY <1>1, <1>5, <2>0, WaitsDiffer
  <2>4. starting # NoSlot => client'[dcb[starting].id] = Absent /\ svc'[starting] = NoService
    <3> SUFFICES ASSUME starting # NoSlot
                 PROVE  client'[dcb[starting].id] = Absent /\ svc'[starting] = NoService
      OBVIOUS
    <3>1. /\ starting \in Slots /\ client[dcb[starting].id] = Absent /\ svc[starting] = NoService
          /\ dcb[starting].id \in Ids
      BY <1>0, <1>8, DomainsParts DEF DomainTypes, CallsInOrder
    <3>2. starting # s
      BY <1>1, <3>1, ServiceTypes
    <3> QED BY <1>1, <1>5, <1>6, <3>1, <3>2, WaitsDiffer
  <2>5. ASSUME NEW x \in Ids PROVE CallerOK(x, dcb', svc', client')
    <3>1. CASE x = i
      <4> SUFFICES ASSUME client'[i].st = "WAIT_FOR_RET"
                   PROVE  client'[i].at = s /\ svc'[s].serving = i
        BY <1>1, <1>3, <3>1 DEF CallerOK, Used
      <4>1. st = "WAIT_FOR_RET"
        BY <1>4, <1>5, WaitsDiffer
      <4> QED BY <1>4, <1>5, <1>6, <4>1, WaitsDiffer
    <3>2. CASE x # i
      <4>1. CallerOK(x, dcb, svc, client) /\ client'[x] = client[x]
        BY <1>5, <2>0, <3>2
      <4>2. svc[s].serving = x => w.serving = x
        BY <1>4, SlotFacts
      <4> QED BY <1>1, <1>6, <4>1, <4>2 DEF CallerOK
    <3> QED BY <3>1, <3>2
  <2>6. ASSUME NEW r \in Slots, Used(r)' PROVE ServiceOK(r, svc'[r], client', DeadIds(dcb, nextId))
    <3>1. CASE r = s
      BY <1>6, <2>2, <3>1
    <3>2. CASE r # s
      <4>1. ServiceOK(r, svc[r], client, DeadIds(dcb, nextId)) /\ svc'[r] = svc[r] /\ svc[r] \in ServiceRecs
        BY <1>0, <1>1, <1>6, <2>0, <2>6, <3>2 DEF Used
      <4>2. \A j \in Ids : client[j] \in {Waits("WAIT_FOR_RCV", r), Waits("WAIT_FOR_RET", r)}
                              => client'[j] = client[j]
        BY <1>1, <1>5, WaitsDiffer
      <4> QED BY <1>0, <1>5, <4>1, <4>2, ServiceFrame
    <3> QED BY <3>1, <3>2
  <2>7. \A x \in Ids : client'[x] # Absent => x \notin DeadIds(dcb, nextId)
    BY <1>5, <2>0, <2>1
  <2> QED BY <1>1, <2>0, <2>3, <2>4, <2>5, <2>6, <2>7 DEF CallsInOrder, Used
<1> QED BY <1>1, <1>2, <1>7, <1>8 DEF DomainsInv

\* The service once it has answered: the next sender is served.
LEMMA AnsweredService ==
    ASSUME NEW s \in Slots, NEW v \in ServiceRecs, NEW cl \in [Ids -> Clients],
           NEW c2 \in [Ids -> Clients], NEW dead, ServiceOK(s, v, cl, dead), NEW w \in ServiceRecs,
           w.serving = Served(v), w.senders = Dequeue(v).senders,
           v.senders # << >> => c2[w.serving] = Waits("WAIT_FOR_RET", s),
           \A j \in Ids : cl[j] = Waits("WAIT_FOR_RCV", s) /\ j # w.serving => c2[j] = cl[j]
    PROVE  ServiceOK(s, w, c2, dead)
<1>1. /\ v.senders \in Seq(Ids) /\ \A k \in DOMAIN v.senders : v.senders[k] \in Ids
  BY DEF ServiceRecs
<1>2. CASE v.senders = << >>
  <2>1. w.serving = NoCaller /\ w.senders = << >>
    BY <1>2, DequeueFacts
  <2> QED BY <2>1, ServiceEmpty
<1>3. CASE v.senders # << >>
  <2> DEFINE q == v.senders
             t == Tail(v.senders)
  <2>1. w.senders = t /\ w.serving = q[1] /\ w.serving \in Ids
    BY <1>3, DequeueFacts
  <2>2. /\ \A k \in DOMAIN q : cl[q[k]] = Waits("WAIT_FOR_RCV", s)
        /\ \A j, k \in DOMAIN q : q[j] = q[k] => j = k
    BY DEF ServiceOK
  <2>3. /\ \A k \in DOMAIN t : \E j \in DOMAIN q : t[k] = q[j] /\ q[j] # q[1]
        /\ \A j, k \in DOMAIN t : t[j] = t[k] => j = k
    BY <1>1, <1>3, <2>2, TailFacts
  <2> HIDE DEF q, t
  <2>4. \A k \in DOMAIN t : c2[t[k]] = Waits("WAIT_FOR_RCV", s)
    BY <1>1, <2>1, <2>2, <2>3 DEF q
  <2>5. c2[w.serving] = Waits("WAIT_FOR_RET", s) /\ w.serving # NoCaller
    BY <1>3, <2>1, SlotFacts
  <2> QED BY <2>1, <2>3, <2>4, <2>5 DEF ServiceOK
<1> QED BY <1>2, <1>3

\* receive_portalcall.
LEMMA AnswerInv ==
    ASSUME DomainsInv, stopped = "no", NEW s \in Slots, Answer(s)
    PROVE  DomainsInv'
<1> DEFINE v == svc[s]
           c == v.serving
           next == Served(v)
           looks == ~CallerGone(c)
           w == [Dequeue(v) EXCEPT !.abort = Dequeue(v).abort /\ ~looks]
           freed(i) == i = c /\ looks /\ ~v.abort
<1>0. /\ DomainTypes /\ IdsOK
      /\ dcb \in [Slots -> Blocks] /\ client \in [Ids -> Clients] /\ svc \in [Slots -> ServiceRecs]
      /\ v \in ServiceRecs /\ c \in Ids \cup {NoCaller} /\ \A x \in Ids : client[x] \in Clients
  BY DomainsParts
<1>1. /\ dcb' = dcb /\ cursor' = cursor /\ nextId' = nextId /\ count' = count
      /\ starting' = starting /\ proxies' = proxies
      /\ Used(s) /\ c # NoCaller
      /\ dropped' = (dropped \/ (looks /\ v.abort))
      /\ svc' = [svc EXCEPT ![s] = w]
      /\ client' = [i \in Ids |-> IF freed(i) THEN Running
                                  ELSE IF i = next THEN [client[i] EXCEPT !.st = "WAIT_FOR_RET"]
                                  ELSE client[i]]
  BY DEF Answer
<1>2. IdsOK'
  BY <1>0, <1>1, BlocksSame
<1>3. /\ w \in ServiceRecs /\ w.serving = next /\ w.senders = Dequeue(v).senders
      /\ next \in Ids \cup {NoCaller}
  <2> DEFINE d == Dequeue(v)
             b == d.abort /\ ~looks
  <2>1. d \in ServiceRecs /\ d.serving = next
    BY <1>0, DequeueFacts
  <2>2. w = [d EXCEPT !.abort = b] /\ b \in BOOLEAN
    OBVIOUS
  <2> HIDE DEF d, w, looks, next
  <2>3. w \in ServiceRecs /\ w.serving = d.serving /\ w.senders = d.senders /\ d.serving \in Ids \cup {NoCaller}
    BY <2>1, <2>2 DEF ServiceRecs
  <2> QED BY <2>1, <2>3 DEF d
<1>4. /\ v.senders # << >> => 1 \in DOMAIN v.senders /\ next = v.senders[1] /\ next \in Ids
      /\ v.senders = << >> => next = NoCaller
  BY <1>0, DequeueFacts
<1> HIDE DEF w, next, looks
<1>5. /\ svc' \in [Slots -> ServiceRecs] /\ svc'[s] = w
      /\ \A r \in Slots \ {s} : svc'[r] = svc[r]
  BY <1>0, <1>1, <1>3
<1>6. /\ \A x \in Ids : freed(x) => client'[x] = Running
      /\ \A x \in Ids : ~freed(x) /\ x = next => client'[x] = [client[x] EXCEPT !.st = "WAIT_FOR_RET"]
      /\ \A x \in Ids : ~freed(x) /\ x # next => client'[x] = client[x]
  BY <1>1
<1>7. client' \in [Ids -> Clients]
  <2>1. ASSUME NEW x \in Ids PROVE client'[x] \in Clients
    <3>1. [client[x] EXCEPT !.st = "WAIT_FOR_RET"] \in Clients
      BY <1>0 DEF Clients, ClientStates
    <3> QED BY <1>0, <1>6, <3>1, WaitsDiffer
  <2>2. DOMAIN client' = Ids /\ client' = [x \in DOMAIN client' |-> client'[x]]
    BY <1>1
  <2> QED BY <2>1, <2>2
<1>8. DomainTypes'
  BY <1>0, <1>1, <1>5, <1>7 DEF DomainTypes
<1>9. ASSUME CallsInOrder, ~dropped' PROVE CallsInOrder'
  <2>0. /\ \A x \in Ids : x >= nextId => client[x] = Absent
        /\ \A x \in Ids : CallerOK(x, dcb, svc, client)
        /\ \A r \in Slots : Used(r) => ServiceOK(r, svc[r], client, DeadIds(dcb, nextId))
        /\ \A x \in Ids : client[x] # Absent => x \notin DeadIds(dcb, nextId)
        /\ \A r \in Slots : Used(r) => dcb[r].state = "ACTIVE"
    BY <1>9, CallsParts
  <2>1. ServiceOK(s, v, client, DeadIds(dcb, nextId)) /\ c \in Ids
    BY <1>0, <1>1, <2>0
  <2>2. client[c] = Waits("WAIT_FOR_RET", s) \/ c \in DeadIds(dcb, nextId)
    BY <1>1, <2>1 DEF ServiceOK
  <2>3. ASSUME ~freed(c) PROVE client[c] # Waits("WAIT_FOR_RET", s)
    <3>1. ~looks
      BY <1>1, <1>9, <2>3
    <3>2. \A r \in Slots : dcb[r].id # c \/ dcb[r].state # "ACTIVE"
      BY <3>1 DEF looks, CallerGone
    <3>3. CASE c < nextId
      <4>1. c \in DeadIds(dcb, nextId)
        BY <2>1, <3>2, <3>3 DEF DeadIds
      <4>2. client[c] = Absent
        BY <2>0, <2>1, <4>1
      <4> QED BY <4>2, WaitsDiffer
    <3>4. CASE ~(c < nextId)
      <4>3. nextId \in 1..(MaxId + 1) /\ MaxId \in Nat
        BY <1>0, SlotFacts DEF DomainTypes
      <4>4. c \in Ids /\ Ids \subseteq Nat
        BY <2>1, SlotFacts
      <4>0. c \in Nat /\ nextId \in Nat
        <5> HIDE DEF c
        <5> QED BY <4>3, <4>4
      <4>1. c >= nextId
        <5> HIDE DEF c
        <5> QED BY <3>4, <4>0
      <4>2. client[c] = Absent
        BY <2>0, <2>1, <4>1
      <4> QED BY <4>2, WaitsDiffer
    <3> QED BY <3>3, <3>4
  <2>4. freed(c) => client[c] = Waits("WAIT_FOR_RET", s)
    <3> SUFFICES ASSUME freed(c) PROVE c \notin DeadIds(dcb, nextId)
      BY <2>2
    <3>1. \E r \in Slots : dcb[r].id = c /\ dcb[r].state = "ACTIVE"
      BY DEF looks, CallerGone
    <3> QED BY <3>1 DEF DeadIds
  <2>5. v.senders # << >> => client[next] = Waits("WAIT_FOR_RCV", s)
    BY <1>4, <2>1 DEF ServiceOK
  <2>6. \A x \in Ids : x = next => v.senders # << >> /\ client[x] = Waits("WAIT_FOR_RCV", s)
    BY <1>4, <2>5, SlotFacts
  <2>7. \A x \in Ids : x = next => ~freed(x) /\ client'[x] = Waits("WAIT_FOR_RET", s)
    <3> SUFFICES ASSUME NEW x \in Ids, x = next
                 PROVE  ~freed(x) /\ client'[x] = Waits("WAIT_FOR_RET", s)
      OBVIOUS
    <3>1. client[x] = Waits("WAIT_FOR_RCV", s)
      BY <2>6
    <3>2. ~freed(x)
      BY <2>4, <3>1, WaitsDiffer
    <3>3. [client[x] EXCEPT !.st = "WAIT_FOR_RET"] = Waits("WAIT_FOR_RET", s)
      BY <3>1 DEF Waits
    <3> QED BY <1>6, <3>2, <3>3
  <2>8. \A x \in Ids : freed(x) => client[x] = Waits("WAIT_FOR_RET", s) /\ client'[x] = Running
    BY <1>6, <2>4
  <2>9. \A x \in Ids : ~freed(x) /\ x # next => client'[x] = client[x]
    BY <1>6
  <2>10. \A x \in Ids : freed(x) => x = c
    OBVIOUS
  <2>11. \A x \in Ids : x = c => (freed(x) <=> freed(c))
    OBVIOUS
  <2> HIDE DEF freed
  <2>12. \A x \in Ids : client[x] = Absent <=> client'[x] = Absent
    <3> TAKE x \in Ids
    <3>1. CASE freed(x)
      BY <2>8, <3>1, WaitsDiffer
    <3>2. CASE x = next
      BY <2>6, <2>7, <3>2, WaitsDiffer
    <3>3. CASE ~freed(x) /\ x # next
      BY <2>9, <3>3
    <3> QED BY <3>1, <3>2, <3>3
  <2>13. starting # NoSlot => client'[dcb[starting].id] = Absent /\ svc'[starting] = NoService
    <3> SUFFICES ASSUME starting # NoSlot
                 PROVE  client'[dcb[starting].id] = Absent /\ svc'[starting] = NoService
      OBVIOUS
    <3>1. /\ starting \in Slots /\ client[dcb[starting].id] = Absent /\ svc[starting] = NoService
          /\ dcb[starting].id \in Ids
      BY <1>0, <1>9, DomainsParts DEF DomainTypes, CallsInOrder
    <3>2. starting # s
      BY <1>1, <3>1, ServiceTypes
    <3> QED BY <1>5, <2>12, <3>1, <3>2
  <2>14. ASSUME NEW x \in Ids PROVE CallerOK(x, dcb', svc', client')
    <3>1. CASE freed(x)
      BY <2>8, <3>1, WaitsDiffer DEF CallerOK
    <3>2. CASE x = next
      <4>1. client'[x].at = s /\ svc'[s].serving = x
        BY <1>3, <1>5, <2>7, <3>2, WaitsDiffer
      <4> QED BY <1>1, <4>1 DEF CallerOK, Used
    <3>3. CASE ~freed(x) /\ x # next
      <4>1. CallerOK(x, dcb, svc, client) /\ client'[x] = client[x] /\ client[x] \in Clients
        BY <1>0, <2>0, <2>9, <3>3
      <4>2. client[x].st = "WAIT_FOR_RET" => client[x].at # s
        <5> SUFFICES ASSUME client[x].st = "WAIT_FOR_RET", client[x].at = s PROVE FALSE
          OBVIOUS
        <5>1. x = c
          BY <4>1 DEF CallerOK
        <5>2. client[x] = Waits("WAIT_FOR_RET", s)
          BY <4>1, WaitsIs
        <5> QED BY <2>3, <2>11, <3>3, <5>1, <5>2
      <4> QED BY <1>1, <1>5, <4>1, <4>2 DEF CallerOK
    <3> QED BY <3>1, <3>2, <3>3
  <2>15. ASSUME NEW r \in Slots, Used(r)' PROVE ServiceOK(r, svc'[r], client', DeadIds(dcb, nextId))
    <3>1. CASE r = s
      <4>1. \A j \in Ids : client[j] = Waits("WAIT_FOR_RCV", s) /\ j # w.serving => client'[j] = client[j]
        BY <1>3, <2>8, <2>9, WaitsDiffer
      <4>2. v.senders # << >> => client'[w.serving] = Waits("WAIT_FOR_RET", s)
        BY <1>3, <1>4, <2>7
      <4>3. w.serving = Served(v)
        BY <1>3 DEF next
      <4> HIDE DEF v, c
      <4>4. ServiceOK(s, w, client', DeadIds(dcb, nextId))
        BY <1>0, <1>3, <1>7, <2>1, <4>1, <4>2, <4>3, AnsweredService
      <4> QED BY <1>5, <3>1, <4>4
    <3>2. CASE r # s
      <4>1. ServiceOK(r, svc[r], client, DeadIds(dcb, nextId)) /\ svc'[r] = svc[r] /\ svc[r] \in ServiceRecs
        BY <1>0, <1>1, <1>5, <2>0, <2>15, <3>2 DEF Used
      <4>2. \A j \in Ids : client[j] \in {Waits("WAIT_FOR_RCV", r), Waits("WAIT_FOR_RET", r)}
                              => client'[j] = client[j]
        BY <2>6, <2>8, <2>9, <3>2, WaitsDiffer
      <4> QED BY <1>0, <1>7, <4>1, <4>2, ServiceFrame
    <3> QED BY <3>1, <3>2
  <2>16. \A x \in Ids : x >= nextId => client'[x] = Absent
    BY <2>0, <2>12
  <2>17. \A x \in Ids : client'[x] # Absent => x \notin DeadIds(dcb, nextId)
    BY <2>0, <2>12
  <2> QED BY <1>1, <2>0, <2>13, <2>14, <2>15, <2>16, <2>17 DEF CallsInOrder, Used
<1> QED BY <1>1, <1>2, <1>8, <1>9 DEF DomainsInv

\* A client that was unblocked leaves its call.
LEMMA LeavesInv ==
    ASSUME DomainsInv, stopped = "no", NEW i \in Ids, LeavesCall(i)
    PROVE  DomainsInv'
<1>0. /\ DomainTypes /\ IdsOK
      /\ dcb \in [Slots -> Blocks] /\ client \in [Ids -> Clients] /\ svc \in [Slots -> ServiceRecs]
  BY DomainsParts
<1>1. /\ dcb' = dcb /\ cursor' = cursor /\ nextId' = nextId /\ count' = count
      /\ starting' = starting /\ proxies' = proxies /\ dropped' = dropped /\ svc' = svc
      /\ client[i].st = "UNBLOCKED" /\ client' = [client EXCEPT ![i] = Running]
  BY DEF LeavesCall
<1>2. IdsOK'
  BY <1>0, <1>1, BlocksSame
<1>3. /\ client' \in [Ids -> Clients] /\ client'[i] = Running
      /\ \A x \in Ids \ {i} : client'[x] = client[x]
  BY <1>0, <1>1, WaitsDiffer
<1>4. DomainTypes'
  BY <1>0, <1>1, <1>3 DEF DomainTypes
<1>5. ASSUME CallsInOrder PROVE CallsInOrder'
  <2>0. /\ \A x \in Ids : x >= nextId => client[x] = Absent
        /\ \A x \in Ids : CallerOK(x, dcb, svc, client)
        /\ \A r \in Slots : Used(r) => ServiceOK(r, svc[r], client, DeadIds(dcb, nextId))
        /\ \A x \in Ids : client[x] # Absent => x \notin DeadIds(dcb, nextId)
        /\ \A r \in Slots : Used(r) => dcb[r].state = "ACTIVE"
    BY <1>5, CallsParts
  <2>1. client[i] # Absent /\ \A r : client[i] \notin {Waits("WAIT_FOR_RCV", r), Waits("WAIT_FOR_RET", r)}
    BY <1>1, WaitsDiffer
  <2>2. \A x \in Ids : x >= nextId => client'[x] = Absent
    BY <1>3, <2>0, <2>1
  <2>3. starting # NoSlot => client'[dcb[starting].id] = Absent /\ svc[starting] = NoService
    <3> SUFFICES ASSUME starting # NoSlot
                 PROVE  client'[dcb[starting].id] = Absent /\ svc[starting] = NoService
      OBVIOUS
    <3>1. /\ client[dcb[starting].id] = Absent /\ svc[starting] = NoService /\ dcb[starting].id \in Ids
      BY <1>0, <1>5, DomainsParts DEF DomainTypes, CallsInOrder
    <3> QED BY <1>3, <2>1, <3>1
  <2>4. \A x \in Ids : CallerOK(x, dcb, svc, client')
    BY <1>3, <2>0, WaitsDiffer DEF CallerOK
  <2>5. ASSUME NEW r \in Slots, Used(r) PROVE ServiceOK(r, svc[r], client', DeadIds(dcb, nextId))
    <3>1. ServiceOK(r, svc[r], client, DeadIds(dcb, nextId)) /\ svc[r] \in ServiceRecs
      BY <1>0, <2>0, <2>5
    <3>2. \A j \in Ids : client[j] \in {Waits("WAIT_FOR_RCV", r), Waits("WAIT_FOR_RET", r)}
                            => client'[j] = client[j]
      BY <1>3, <2>1
    <3> QED BY <1>0, <1>3, <3>1, <3>2, ServiceFrame
  <2>6. \A x \in Ids : client'[x] # Absent => x \notin DeadIds(dcb, nextId)
    BY <1>3, <2>0, <2>1
  <2> QED BY <1>1, <2>0, <2>2, <2>3, <2>4, <2>5, <2>6 DEF CallsInOrder, Used
<1> QED BY <1>1, <1>2, <1>4, <1>5 DEF DomainsInv

\* A step that leaves the table, the clients and the services alone.
LEMMA DomainsSame ==
    ASSUME DomainsInv, stopped = "no", dcb' = dcb, cursor' = cursor, nextId' = nextId, count' = count,
           starting' = starting, proxies' = proxies, client' = client, svc' = svc, dropped' = dropped
    PROVE  DomainsInv'
<1>1. DomainTypes /\ IdsOK
  BY DomainsParts
<1>2. IdsOK'
  BY <1>1, BlocksSame
<1>3. DomainTypes'
  BY <1>1 DEF DomainTypes
<1>4. CallsInOrder => CallsInOrder'
  BY DEF CallsInOrder, Used
<1> QED BY <1>2, <1>3, <1>4 DEF DomainsInv

\* portal_remove_sender: the sender is unlinked, the others stay.
LEMMA WithoutSenderFacts ==
    ASSUME NEW q \in Seq(Ids), NEW i \in Ids
    PROVE  LET u == WithoutSender(q, i) IN
           /\ u \in Seq(Ids)
           /\ q = << >> => u = << >>
           /\ \A k \in DOMAIN u : \E j \in DOMAIN q : u[k] = q[j]
           /\ (\A j, k \in DOMAIN q : q[j] = q[k] => j = k)
                => /\ \A k \in DOMAIN u : u[k] # i
                   /\ \A j, k \in DOMAIN u : u[j] = u[k] => j = k
<1> DEFINE u == WithoutSender(q, i)
           k0 == CHOOSE k \in DOMAIN q : q[k] = i
           n == Len(q)
<1>1. n \in Nat /\ DOMAIN q = 1..n /\ \A k \in 1..n : q[k] \in Ids
  OBVIOUS
<1>2. CASE ~InSeq(i, q)
  <2>1. u = q
    BY <1>2 DEF WithoutSender
  <2> QED BY <1>2, <2>1 DEF InSeq
<1>3. CASE InSeq(i, q)
  <2>1. k0 \in DOMAIN q /\ q[k0] = i
    BY <1>3 DEF InSeq
  <2>2. u = [j \in 1..(n - 1) |-> IF j < k0 THEN q[j] ELSE q[j + 1]]
    BY <1>3 DEF WithoutSender
  <2> HIDE DEF k0, u, n
  <2>3. k0 \in 1..n /\ n - 1 \in Nat
    BY <1>1, <2>1
  <2> DEFINE at(j) == IF j < k0 THEN j ELSE j + 1
  <2>4. ASSUME NEW j \in 1..(n - 1) PROVE at(j) \in 1..n /\ at(j) # k0 /\ u[j] = q[at(j)]
    <3>1. at(j) \in 1..n /\ at(j) # k0
      BY <1>1, <2>3
    <3> QED BY <2>2, <3>1
  <2>5. \A j, k \in 1..(n - 1) : at(j) = at(k) => j = k
    BY <1>1, <2>3
  <2>6. DOMAIN u = 1..(n - 1)
    BY <2>2
  <2> HIDE DEF at
  <2>7. u \in Seq(Ids)
    <3>1. \A j \in 1..(n - 1) : u[j] \in Ids
      BY <1>1, <2>4
    <3>2. u \in [1..(n - 1) -> Ids]
      BY <2>2, <2>6, <3>1
    <3> QED BY <2>3, <3>2
  <2>8. \A k \in DOMAIN u : \E j \in DOMAIN q : u[k] = q[j]
    BY <1>1, <2>4, <2>6
  <2>9. ASSUME \A j, k \in DOMAIN q : q[j] = q[k] => j = k
        PROVE  /\ \A k \in DOMAIN u : u[k] # i
               /\ \A j, k \in DOMAIN u : u[j] = u[k] => j = k
    BY <1>1, <2>1, <2>3, <2>4, <2>5, <2>6, <2>9
  <2>10. q # << >>
    BY <1>1, <2>1
  <2> QED BY <2>7, <2>8, <2>9, <2>10 DEF u
<1> QED BY <1>2, <1>3

\* What ending the call of a client does to the services.
LEMMA CallEndedFacts ==
    ASSUME svc \in [Slots -> ServiceRecs], client \in [Ids -> Clients], NEW i \in Ids
    PROVE  LET e == CallEnded(i)
               t == client[i].at
           IN /\ e \in [Slots -> ServiceRecs]
              /\ \A r \in Slots : e[r].serving = svc[r].serving
              /\ \A r \in Slots : r # t => e[r] = svc[r]
              /\ client[i].st \notin {"WAIT_FOR_RCV", "WAIT_FOR_RET"} => e = svc
              /\ client[i].st = "WAIT_FOR_RCV" /\ t \in Slots
                    => e[t].senders = WithoutSender(svc[t].senders, i)
              /\ client[i].st = "WAIT_FOR_RET" /\ t \in Slots
                    => e[t].senders = svc[t].senders
<1> DEFINE e == CallEnded(i)
           t == client[i].at
           v == svc[t]
<1>1. CASE client[i].st = "WAIT_FOR_RCV"
  <2> DEFINE w == [v EXCEPT !.senders = WithoutSender(v.senders, i)]
  <2>1. e = [svc EXCEPT ![t] = w]
    BY <1>1 DEF CallEnded
  <2>2. CASE t \notin Slots
    <3>1. e = svc
      BY <2>1, <2>2
    <3> QED BY <1>1, <2>2, <3>1
  <2>3. CASE t \in Slots
    <3>1. v \in ServiceRecs /\ WithoutSender(v.senders, i) \in Seq(Ids)
      <4>1. v \in ServiceRecs
        BY <2>3
      <4>2. v.senders \in Seq(Ids)
        BY <4>1 DEF ServiceRecs
      <4> QED BY <4>1, <4>2, WithoutSenderFacts
    <3>2. /\ w \in ServiceRecs /\ w.senders = WithoutSender(v.senders, i)
          /\ w.serving = v.serving
      BY <3>1 DEF ServiceRecs
    <3> HIDE DEF w
    <3>3. /\ e \in [Slots -> ServiceRecs] /\ e[t] = w /\ \A r \in Slots : r # t => e[r] = svc[r]
      BY <2>1, <2>3, <3>2
    <3>4. \A r \in Slots : e[r].serving = svc[r].serving
      BY <3>2, <3>3
    <3> QED BY <1>1, <2>3, <3>2, <3>3, <3>4
  <2> QED BY <2>2, <2>3
<1>2. CASE client[i].st = "WAIT_FOR_RET"
  <2> DEFINE w == [v EXCEPT !.abort = TRUE]
  <2>1. e = [svc EXCEPT ![t] = w]
    BY <1>2 DEF CallEnded
  <2>2. CASE t \notin Slots
    <3>1. e = svc
      BY <2>1, <2>2
    <3> QED BY <1>2, <2>2, <3>1
  <2>3. CASE t \in Slots
    <3>1. v \in ServiceRecs
      BY <2>3
    <3>2. /\ w \in ServiceRecs /\ w.senders = v.senders
          /\ w.serving = v.serving
      BY <3>1 DEF ServiceRecs
    <3> HIDE DEF w
    <3>3. /\ e \in [Slots -> ServiceRecs] /\ e[t] = w /\ \A r \in Slots : r # t => e[r] = svc[r]
      BY <2>1, <2>3, <3>2
    <3>4. \A r \in Slots : e[r].serving = svc[r].serving
      BY <3>2, <3>3
    <3> QED BY <1>2, <2>3, <3>2, <3>3, <3>4
  <2> QED BY <2>2, <2>3
<1>3. CASE client[i].st \notin {"WAIT_FOR_RCV", "WAIT_FOR_RET"}
  <2>1. e = svc
    BY <1>3 DEF CallEnded
  <2> QED BY <1>3, <2>1
<1> QED BY <1>1, <1>2, <1>3

\* The client of domain i stops waiting: the service record v of block r becomes
\* w, and the clients cl become c2.
Released(i, r, v, w, cl, c2) ==
    /\ w.serving = v.serving
    /\ cl[i] = Waits("WAIT_FOR_RCV", r) => w.senders = WithoutSender(v.senders, i)
    /\ cl[i] # Waits("WAIT_FOR_RCV", r) => w.senders = v.senders
    /\ \A j \in Ids \ {i} : cl[j] \in {Waits("WAIT_FOR_RCV", r), Waits("WAIT_FOR_RET", r)} => c2[j] = cl[j]

\* The service of another domain when a client of the dying one stops waiting.
LEMMA SurvivingService ==
    ASSUME NEW r \in Slots, NEW v \in ServiceRecs, NEW w \in ServiceRecs,
           NEW cl \in [Ids -> Clients], NEW c2 \in [Ids -> Clients], NEW i \in Ids,
           NEW dead, NEW dead2, dead \subseteq dead2, i \in dead2,
           ServiceOK(r, v, cl, dead), Released(i, r, v, w, cl, c2)
    PROVE  ServiceOK(r, w, c2, dead2)
<1>1. /\ v.senders \in Seq(Ids) /\ v.serving \in Ids \cup {NoCaller}
      /\ \A k \in DOMAIN v.senders : v.senders[k] \in Ids
  BY DEF ServiceRecs
<1>2. /\ \A k \in DOMAIN v.senders : cl[v.senders[k]] = Waits("WAIT_FOR_RCV", r)
      /\ \A j, k \in DOMAIN v.senders : v.senders[j] = v.senders[k] => j = k
      /\ v.serving # NoCaller => cl[v.serving] = Waits("WAIT_FOR_RET", r) \/ v.serving \in dead
      /\ v.serving = NoCaller => v.senders = << >>
  BY DEF ServiceOK
<1>3. w.serving # NoCaller => c2[w.serving] = Waits("WAIT_FOR_RET", r) \/ w.serving \in dead2
  <2> SUFFICES ASSUME w.serving # NoCaller, w.serving # i
               PROVE  c2[w.serving] = Waits("WAIT_FOR_RET", r) \/ w.serving \in dead2
    OBVIOUS
  <2>1. w.serving = v.serving /\ v.serving \in Ids \ {i}
    BY <1>1 DEF Released
  <2> QED BY <1>2, <2>1 DEF Released
<1>4. CASE cl[i] = Waits("WAIT_FOR_RCV", r)
  <2> DEFINE u == WithoutSender(v.senders, i)
  <2>1. /\ \A k \in DOMAIN u : \E j \in DOMAIN v.senders : u[k] = v.senders[j]
        /\ \A k \in DOMAIN u : u[k] # i
        /\ \A j, k \in DOMAIN u : u[j] = u[k] => j = k
        /\ v.senders = << >> => u = << >>
    BY <1>1, <1>2, WithoutSenderFacts
  <2>2. w.senders = u /\ w.serving = v.serving
    BY <1>4 DEF Released
  <2> HIDE DEF u
  <2>3. ASSUME NEW k \in DOMAIN u PROVE c2[u[k]] = Waits("WAIT_FOR_RCV", r)
    <3>1. u[k] \in Ids \ {i} /\ cl[u[k]] = Waits("WAIT_FOR_RCV", r)
      BY <1>1, <1>2, <2>1
    <3> QED BY <3>1 DEF Released
  <2> QED BY <1>2, <1>3, <2>1, <2>2, <2>3 DEF ServiceOK
<1>5. CASE cl[i] # Waits("WAIT_FOR_RCV", r)
  <2>1. w.senders = v.senders /\ w.serving = v.serving
    BY <1>5 DEF Released
  <2>2. \A k \in DOMAIN v.senders : c2[v.senders[k]] = Waits("WAIT_FOR_RCV", r)
    BY <1>1, <1>2, <1>5 DEF Released
  <2> QED BY <1>2, <1>3, <2>1, <2>2 DEF ServiceOK
<1> QED BY <1>4, <1>5

\* terminateDomain with NEW_SCHED: the domain is taken apart.
LEMMA TakenApartInv ==
    ASSUME DomainsInv, stopped = "no", NEW s \in Slots, Used(s), starting = NoSlot,
           svc[s].serving # NoCaller => client[svc[s].serving].at = s,
           dcb' = [dcb EXCEPT ![s].state = "FREE"], count' = count - 1,
           svc' = [CallEnded(dcb[s].id) EXCEPT ![s].serving = NoCaller],
           client' = [j \in Ids |-> IF j = dcb[s].id THEN Absent
                                    ELSE IF j = svc[s].serving THEN Waits("UNBLOCKED", s)
                                    ELSE client[j]],
           cursor' = cursor, nextId' = nextId, starting' = starting, proxies' = proxies,
           dropped' = dropped
    PROVE  DomainsInv'
<1> DEFINE i == dcb[s].id
           v == svc[s]
           e == CallEnded(i)
<1>0. /\ DomainTypes /\ IdsOK
      /\ dcb \in [Slots -> Blocks] /\ client \in [Ids -> Clients] /\ svc \in [Slots -> ServiceRecs]
      /\ i \in Ids /\ v.serving \in Ids \cup {NoCaller} /\ v \in ServiceRecs
  BY DomainsParts
<1>2. /\ client'[i] = Absent
      /\ \A x \in Ids \ {i} : x = v.serving => client'[x] = Waits("UNBLOCKED", s)
      /\ \A x \in Ids \ {i} : x # v.serving => client'[x] = client[x]
  BY <1>0
<1>3. client' \in [Ids -> Clients]
  <2>1. \A x \in Ids : client'[x] \in Clients
    BY <1>0, <1>2, WaitsDiffer
  <2>2. DOMAIN client' = Ids /\ client' = [x \in DOMAIN client' |-> client'[x]]
    OBVIOUS
  <2> QED BY <2>1, <2>2
<1>4. /\ e \in [Slots -> ServiceRecs]
      /\ \A r \in Slots : e[r].serving = svc[r].serving
      /\ \A r \in Slots : r # client[i].at => e[r] = svc[r]
      /\ client[i].st \notin {"WAIT_FOR_RCV", "WAIT_FOR_RET"} => e = svc
      /\ client[i].st = "WAIT_FOR_RCV" /\ client[i].at \in Slots
            => e[client[i].at].senders = WithoutSender(svc[client[i].at].senders, i)
      /\ client[i].st = "WAIT_FOR_RET" /\ client[i].at \in Slots
            => e[client[i].at].senders = svc[client[i].at].senders
  BY <1>0, CallEndedFacts
<1>5. /\ svc' \in [Slots -> ServiceRecs]
      /\ \A r \in Slots \ {s} : svc'[r] = e[r]
  <2> HIDE DEF e
  <2> DEFINE w == [e[s] EXCEPT !.serving = NoCaller]
  <2>1. svc' = [e EXCEPT ![s] = w]
    BY DEF e
  <2>2. w \in ServiceRecs
    <3>1. e[s] \in ServiceRecs
      BY <1>4
    <3> QED BY <3>1 DEF ServiceRecs
  <2> HIDE DEF w
  <2> QED BY <1>4, <2>1, <2>2
<1> HIDE DEF e
<1>6. /\ dcb' \in [Slots -> Blocks] /\ dcb'[s].state = "FREE"
      /\ \A r \in Slots \ {s} : dcb'[r] = dcb[r]
  <2>1. dcb[s] \in Blocks /\ [dcb[s] EXCEPT !.state = "FREE"] \in Blocks
    BY <1>0 DEF Blocks
  <2>2. dcb' = [dcb EXCEPT ![s] = [dcb[s] EXCEPT !.state = "FREE"]]
    OBVIOUS
  <2>3. dcb'[s].state = "FREE"
    BY <1>0, <2>1, <2>2 DEF Blocks
  <2> QED BY <1>0, <2>1, <2>2, <2>3
<1>7. DomainTypes'
  BY <1>0, <1>3, <1>5, <1>6 DEF DomainTypes
<1>8. ~Used(s)' /\ \A r \in Slots \ {s} : Used(r)' <=> Used(r)
  BY <1>6 DEF Used
<1>9. IdsOK'
  <2>1. UsedSlots' = UsedSlots \ {s} /\ s \in UsedSlots
    BY <1>8 DEF UsedSlots
  <2>2. IsFiniteSet(UsedSlots)
    BY SlotFacts, FS_Subset DEF UsedSlots
  <2>3. Cardinality(UsedSlots \ {s}) = Cardinality(UsedSlots) - 1
    BY <2>1, <2>2, FS_RemoveElement
  <2>4. count' = Cardinality(UsedSlots')
    BY <1>0, <2>1, <2>3 DEF IdsOK
  <2>5. \A r \in Slots : Used(r)' => Used(r) /\ dcb'[r].id = dcb[r].id
    BY <1>6, <1>8
  <2> QED BY <1>0, <2>4, <2>5, BlocksKept
<1>10. ASSUME CallsInOrder PROVE CallsInOrder'
  <2>0. /\ \A x \in Ids : x >= nextId => client[x] = Absent
        /\ \A x \in Ids : CallerOK(x, dcb, svc, client)
        /\ \A r \in Slots : Used(r) => ServiceOK(r, svc[r], client, DeadIds(dcb, nextId))
        /\ \A x \in Ids : client[x] # Absent => x \notin DeadIds(dcb, nextId)
        /\ \A r \in Slots : Used(r) => dcb[r].state = "ACTIVE"
    BY <1>10, CallsParts
  <2>1. v.serving # NoCaller => client[v.serving] = Waits("WAIT_FOR_RET", s)
    <3> SUFFICES ASSUME v.serving # NoCaller PROVE client[v.serving] = Waits("WAIT_FOR_RET", s)
      OBVIOUS
    <3>1. v.serving \in Ids /\ client[v.serving].at = s
      BY <1>0
    <3>2. client[v.serving] = Waits("WAIT_FOR_RET", s) \/ v.serving \in DeadIds(dcb, nextId)
      BY <2>0 DEF ServiceOK
    <3>3. client[v.serving] # Absent
      BY <3>1, SlotFacts DEF Absent
    <3> QED BY <2>0, <3>1, <3>2, <3>3
  <2>2. \A x \in Ids : x = v.serving => client[x] = Waits("WAIT_FOR_RET", s)
    BY <2>1, SlotFacts
  <2>3. DeadIds(dcb, nextId) \subseteq DeadIds(dcb', nextId') /\ i \in DeadIds(dcb', nextId')
    <3>1. nextId \in Nat /\ nextId' = nextId /\ nextId <= nextId'
      BY <1>0, SlotFacts DEF DomainTypes
    <3>2. \A r \in Slots : \/ dcb'[r].state # "ACTIVE"
                           \/ dcb[r].state = "ACTIVE" /\ dcb'[r].id = dcb[r].id
                           \/ dcb'[r].id = nextId
      BY <1>6
    <3>3. i < nextId
      BY <1>0 DEF IdsOK
    <3>4. ASSUME NEW r \in Slots PROVE dcb'[r].id # i \/ dcb'[r].state # "ACTIVE"
      <4>1. CASE r = s
        BY <1>6, <4>1
      <4>2. CASE r # s
        <5>1. dcb'[r] = dcb[r] /\ (dcb[r].id = i => ~Used(r))
          BY <1>0, <1>6, <4>2 DEF IdsOK
        <5> QED BY <5>1 DEF Used
      <4> QED BY <4>1, <4>2
    <3>5. i \in DeadIds(dcb', nextId')
      <4> HIDE DEF i
      <4> QED BY <1>0, <3>1, <3>3, <3>4 DEF DeadIds
    <3>6. DeadIds(dcb, nextId) \subseteq DeadIds(dcb', nextId')
      BY <1>0, <3>1, <3>2, DeadStay
    <3> QED BY <3>5, <3>6
  <2>4. \A x \in Ids : client[x] = Absent => client'[x] = Absent
    BY <1>2, <2>2, WaitsDiffer
  <2>5. ASSUME NEW x \in Ids PROVE CallerOK(x, dcb', svc', client')
    <3> SUFFICES ASSUME client'[x].st = "WAIT_FOR_RET"
                 PROVE  /\ client'[x].at \in Slots /\ dcb'[client'[x].at].state # "FREE"
                        /\ svc'[client'[x].at].serving = x
      BY DEF CallerOK
    <3>1. x # i /\ x # v.serving /\ client'[x] = client[x]
      BY <1>2, WaitsDiffer
    <3>2. /\ client[x].at \in Slots /\ dcb[client[x].at].state # "FREE"
          /\ svc[client[x].at].serving = x
      BY <2>0, <3>1 DEF CallerOK
    <3>3. client[x].at # s
      BY <3>1, <3>2
    <3> QED BY <1>4, <1>5, <1>6, <3>1, <3>2, <3>3
  <2>6. ASSUME NEW r \in Slots, Used(r)' PROVE ServiceOK(r, svc'[r], client', DeadIds(dcb', nextId'))
    <3>1. r # s /\ Used(r) /\ svc'[r] = e[r]
      BY <1>5, <1>8, <2>6
    <3>2. /\ ServiceOK(r, svc[r], client, DeadIds(dcb, nextId)) /\ svc[r] \in ServiceRecs
          /\ e[r] \in ServiceRecs /\ e[r].serving = svc[r].serving
      BY <1>0, <1>4, <2>0, <3>1
    <3>3. client[i] = Waits("WAIT_FOR_RCV", r) => e[r].senders = WithoutSender(svc[r].senders, i)
      BY <1>4, WaitsDiffer
    <3>4. client[i] # Waits("WAIT_FOR_RCV", r) => e[r].senders = svc[r].senders
      <4> SUFFICES ASSUME client[i] # Waits("WAIT_FOR_RCV", r) PROVE e[r].senders = svc[r].senders
        OBVIOUS
      <4>1. client[i] \in Clients
        BY <1>0
      <4>2. ~(client[i].st = "WAIT_FOR_RCV" /\ client[i].at = r)
        BY <4>1, WaitsIs
      <4>3. CASE client[i].at # r
        BY <1>4, <4>3
      <4>4. CASE client[i].at = r /\ client[i].st # "WAIT_FOR_RCV"
        BY <1>4, <4>4
      <4> QED BY <4>2, <4>3, <4>4
    <3>5. \A j \in Ids \ {i} : client[j] \in {Waits("WAIT_FOR_RCV", r), Waits("WAIT_FOR_RET", r)}
                                  => client'[j] = client[j]
      BY <1>2, <2>2, <3>1, WaitsDiffer
    <3> HIDE DEF i
    <3>6. Released(i, r, svc[r], e[r], client, client')
      BY <3>2, <3>3, <3>4, <3>5 DEF Released
    <3>7. ServiceOK(r, e[r], client', DeadIds(dcb', nextId'))
      BY <1>0, <1>3, <2>3, <3>2, <3>6, SurvivingService
    <3> QED BY <3>1, <3>7
  <2>7. ASSUME NEW x \in Ids, client'[x] # Absent PROVE x \notin DeadIds(dcb', nextId')
    <3>1. x # i /\ client[x] # Absent
      BY <1>2, <2>2, <2>7, WaitsDiffer
    <3>2. x \notin DeadIds(dcb, nextId) /\ x < nextId
      <4>1. x \in Nat /\ nextId \in Nat
        BY <1>0, SlotFacts DEF DomainTypes
      <4> QED BY <2>0, <3>1, <4>1
    <3>3. PICK r \in Slots : dcb[r].id = x /\ dcb[r].state = "ACTIVE"
      BY <3>2 DEF DeadIds
    <3>4. r # s /\ dcb'[r] = dcb[r]
      BY <1>6, <3>1, <3>3
    <3> QED BY <3>3, <3>4 DEF DeadIds
  <2>8. \A x \in Ids : x >= nextId' => client'[x] = Absent
    BY <2>0, <2>4
  <2>9. \A r \in Slots : Used(r)' => dcb'[r].state = "ACTIVE"
    BY <1>6, <1>8, <2>0
  <2> QED BY <2>5, <2>6, <2>7, <2>8, <2>9 DEF CallsInOrder
<1> QED BY <1>7, <1>9, <1>10 DEF DomainsInv

\* terminateDomain, whoever asks for it.
LEMMA TerminateDomainInv ==
    ASSUME DomainsInv, stopped = "no", NEW s \in Slots, TerminateDomain(s),
           starting = NoSlot, cursor' = cursor, nextId' = nextId,
           starting' = starting, proxies' = proxies, dropped' = dropped
    PROVE  DomainsInv'
<1> DEFINE i == dcb[s].id
<1>0. /\ DomainTypes /\ IdsOK
      /\ dcb \in [Slots -> Blocks] /\ client \in [Ids -> Clients] /\ svc \in [Slots -> ServiceRecs]
      /\ i \in Ids
  BY DomainsParts
<1>1. CASE TerminationFails(s) # "no"
  <2>1. dcb' = dcb /\ count' = count /\ client' = client /\ svc' = svc
    BY <1>1 DEF TerminateDomain
  <2> QED BY <2>1, DomainsSame
<1>2. CASE TerminationFails(s) = "no"
  <2>2. /\ Used(s)
        /\ svc[s].serving # NoCaller => client[svc[s].serving].at = s
    BY <1>2 DEF TerminationFails
  <2>3. CASE ~NewSched
    <3>1. /\ stopped' = "panic" /\ dcb' = [dcb EXCEPT ![s].state = "TERMINATING"]
          /\ svc' = CallEnded(i) /\ count' = count /\ client' = client
      BY <1>2, <2>3 DEF TerminateDomain
    <3>2. svc' \in [Slots -> ServiceRecs]
      BY <1>0, <3>1, CallEndedFacts
    <3>3. /\ dcb' \in [Slots -> Blocks] /\ dcb'[s].state = "TERMINATING" /\ dcb'[s].id = dcb[s].id
          /\ \A r \in Slots \ {s} : dcb'[r] = dcb[r]
      <4>1. dcb[s] \in Blocks /\ [dcb[s] EXCEPT !.state = "TERMINATING"] \in Blocks
        BY <1>0 DEF Blocks
      <4>2. dcb' = [dcb EXCEPT ![s] = [dcb[s] EXCEPT !.state = "TERMINATING"]]
        BY <3>1
      <4>3. dcb'[s].state = "TERMINATING" /\ dcb'[s].id = dcb[s].id
        BY <1>0, <4>1, <4>2 DEF Blocks
      <4> QED BY <1>0, <4>1, <4>2, <4>3
    <3> HIDE DEF i
    <3>4. DomainTypes'
      BY <1>0, <3>1, <3>2, <3>3 DEF DomainTypes
    <3>5. \A r \in Slots : Used(r)' <=> Used(r)
      BY <2>2, <3>3 DEF Used
    <3>6. \A r \in Slots : Used(r)' => Used(r) /\ dcb'[r].id = dcb[r].id
      BY <3>3, <3>5
    <3>7. UsedSlots' = UsedSlots
      BY <3>5 DEF UsedSlots
    <3>8. count' = Cardinality(UsedSlots')
      BY <1>0, <3>1, <3>7 DEF IdsOK
    <3>9. IdsOK'
      BY <1>0, <3>6, <3>8, BlocksKept
    <3> QED BY <3>1, <3>4, <3>9 DEF DomainsInv
  <2>4. CASE NewSched
    <3>1. /\ dcb' = [dcb EXCEPT ![s].state = "FREE"] /\ count' = count - 1
          /\ svc' = [CallEnded(dcb[s].id) EXCEPT ![s].serving = NoCaller]
          /\ client' = [j \in Ids |-> IF j = dcb[s].id THEN Absent
                                      ELSE IF j = svc[s].serving THEN Waits("UNBLOCKED", s)
                                      ELSE client[j]]
      BY <1>2, <2>4 DEF TerminateDomain, Waits
    <3> QED BY <2>2, <3>1, TakenApartInv
  <2> QED BY <2>3, <2>4
<1> QED BY <1>1, <1>2

\* domainManager_terminate, through a proxy that may be old.
LEMMA TerminateInv ==
    ASSUME DomainsInv, stopped = "no", NEW p \in proxies, Terminate(p)
    PROVE  DomainsInv'
<1>1. p.slot \in Slots
  BY DEF DomainsInv, DomainTypes
<1>2. /\ starting = NoSlot /\ cursor' = cursor /\ nextId' = nextId
      /\ starting' = starting /\ proxies' = proxies /\ dropped' = dropped
  BY DEF Terminate
<1>3. CASE IsDomain(p)
  <2>1. TerminateDomain(p.slot)
    BY <1>3 DEF Terminate
  <2> QED BY <1>1, <1>2, <2>1, TerminateDomainInv
<1>4. CASE ~IsDomain(p)
  <2>1. dcb' = dcb /\ count' = count /\ client' = client /\ svc' = svc
    BY <1>4 DEF Terminate
  <2> QED BY <1>2, <2>1, DomainsSame
<1> QED BY <1>3, <1>4

\* domainManager_gc.
LEMMA CollectInv ==
    ASSUME DomainsInv, stopped = "no", NEW p \in proxies, CollectDomain(p)
    PROVE  DomainsInv'
<1> DEFINE s == p.slot
<1>0. /\ DomainTypes /\ IdsOK /\ s \in Slots /\ dcb \in [Slots -> Blocks]
  BY DomainsParts DEF DomainTypes
<1>1. /\ starting' = starting /\ cursor' = cursor /\ nextId' = nextId /\ dropped' = dropped
      /\ count' = count /\ proxies' = proxies /\ client' = client /\ svc' = svc
  BY DEF CollectDomain
<1>2. CASE dcb' = dcb
  BY <1>1, <1>2, DomainsSame
<1>3. CASE dcb' # dcb
  <2>1. dcb' = [dcb EXCEPT ![s] = [dcb[s] EXCEPT !.epoch = dcb[s].epoch + 1]]
    BY <1>3 DEF CollectDomain
  <2>2. dcb[s] \in Blocks /\ dcb[s].epoch + 1 \in Nat
    BY <1>0 DEF Blocks
  <2>3. [dcb[s] EXCEPT !.epoch = dcb[s].epoch + 1] \in Blocks
    BY <2>2 DEF Blocks
  <2>4. dcb' \in [Slots -> Blocks]
    BY <1>0, <2>1, <2>3
  <2>5. \A r \in Slots : dcb'[r].id = dcb[r].id /\ dcb'[r].state = dcb[r].state
    BY <1>0, <2>1, <2>2 DEF Blocks
  <2> HIDE DEF s
  <2>6. \A r \in Slots : Used(r)' <=> Used(r)
    BY <2>5 DEF Used
  <2>7. UsedSlots' = UsedSlots
    BY <2>6 DEF UsedSlots
  <2>8. IdsOK'
    <3>1. \A r \in Slots : Used(r)' => Used(r) /\ dcb'[r].id = dcb[r].id
      BY <2>5, <2>6
    <3>2. count' = Cardinality(UsedSlots')
      BY <1>0, <1>1, <2>7 DEF IdsOK
    <3>3. starting # NoSlot => Used(starting)'
      BY <1>0, <1>1, <2>5 DEF IdsOK, DomainTypes, Used
    <3> QED BY <1>0, <1>1, <3>1, <3>2, <3>3, BlocksKept
  <2>9. DomainTypes'
    BY <1>0, <1>1, <2>4 DEF DomainTypes
  <2>10. ASSUME CallsInOrder PROVE CallsInOrder'
    <3>0. /\ \A i \in Ids : i >= nextId => client[i] = Absent
          /\ \A i \in Ids : CallerOK(i, dcb, svc, client)
          /\ \A r \in Slots : Used(r) => ServiceOK(r, svc[r], client, DeadIds(dcb, nextId))
          /\ \A i \in Ids : client[i] # Absent => i \notin DeadIds(dcb, nextId)
          /\ \A r \in Slots : Used(r) => dcb[r].state = "ACTIVE"
      BY <2>10, CallsParts
    <3>1. DeadIds(dcb', nextId) = DeadIds(dcb, nextId)
      BY <2>5 DEF DeadIds
    <3>2. \A i \in Ids : CallerOK(i, dcb', svc, client)
      BY <2>5, <3>0 DEF CallerOK
    <3>3. \A r \in Slots : Used(r)' => ServiceOK(r, svc[r], client, DeadIds(dcb', nextId))
      BY <2>6, <3>0, <3>1
    <3>4. starting # NoSlot => client[dcb'[starting].id] = Absent /\ svc[starting] = NoService
      BY <1>0, <2>5, <2>10 DEF CallsInOrder, DomainTypes
    <3>5. \A i \in Ids : client[i] # Absent => i \notin DeadIds(dcb', nextId)
      BY <3>0, <3>1
    <3>6. \A r \in Slots : Used(r)' => dcb'[r].state = "ACTIVE"
      BY <2>5, <2>6, <3>0
    <3> QED BY <1>1, <3>0, <3>2, <3>3, <3>4, <3>5, <3>6 DEF CallsInOrder
  <2> QED BY <1>1, <2>8, <2>9, <2>10 DEF DomainsInv
<1> QED BY <1>2, <1>3

\* The invariant holds along every run.
LEMMA DomainsInductive == DomainsInv /\ [DomainsNext]_domainVars => DomainsInv'
<1> SUFFICES ASSUME DomainsInv, [DomainsNext]_domainVars PROVE DomainsInv'
  OBVIOUS
<1>1. CASE UNCHANGED domainVars
  <2>1. /\ dcb' = dcb /\ cursor' = cursor /\ nextId' = nextId /\ count' = count /\ stopped' = stopped
        /\ starting' = starting /\ proxies' = proxies /\ client' = client /\ svc' = svc
        /\ dropped' = dropped
    BY <1>1 DEF domainVars
  <2>2. IdsOK'
    BY <2>1, BlocksSame DEF DomainsInv
  <2>3. DomainTypes' /\ (CallsInOrder => CallsInOrder')
    BY <2>1 DEF DomainsInv, DomainTypes, CallsInOrder, Used
  <2> QED BY <2>1, <2>2, <2>3 DEF DomainsInv
<1>2. CASE DomainsNext
  <2>0. stopped = "no"
    BY <1>2 DEF DomainsNext
  <2>1. CASE CreateDomain
    BY <2>0, <2>1, CreateInv
  <2>2. CASE StartDomain
    BY <2>0, <2>2, StartInv
  <2>3. CASE \E i \in Ids, p \in proxies : CallService(i, p)
    BY <2>0, <2>3, CallInv
  <2>4. CASE \E s \in Slots : Answer(s)
    BY <2>0, <2>4, AnswerInv
  <2>5. ASSUME NEW s \in Slots, TerminateCaller(s) PROVE DomainsInv'
    <3>1. /\ starting = NoSlot /\ cursor' = cursor /\ nextId' = nextId /\ TerminateDomain(s)
          /\ starting' = starting /\ proxies' = proxies /\ dropped' = dropped
      BY <2>5 DEF TerminateCaller
    <3> QED BY <2>0, <3>1, TerminateDomainInv
  <2>6. CASE \E i \in Ids : LeavesCall(i)
    BY <2>0, <2>6, LeavesInv
  <2>7. CASE \E p \in proxies : Terminate(p)
    BY <2>0, <2>7, TerminateInv
  <2>8. CASE \E p \in proxies : CollectDomain(p)
    BY <2>0, <2>8, CollectInv
  <2> QED BY <1>2, <2>1, <2>2, <2>3, <2>4, <2>5, <2>6, <2>7, <2>8 DEF DomainsNext
<1> QED BY <1>1, <1>2

\* findDomain returns a used block with the identifier, when there is one.
LEMMA FindDomainFinds ==
    ASSUME NEW i
    PROVE  \/ findDomain(i) = NoSlot /\ \A s \in Slots : ~(Used(s) /\ dcb[s].id = i)
           \/ findDomain(i) \in Slots /\ Used(findDomain(i)) /\ dcb[findDomain(i)].id = i
<1> DEFINE found == {s \in Slots : Used(s) /\ dcb[s].id = i}
<1>1. CASE found = {}
  <2>1. findDomain(i) = NoSlot
    BY <1>1 DEF findDomain
  <2> QED BY <1>1, <2>1
<1>2. CASE found # {}
  <2>1. found \in SUBSET Nat
    BY SlotFacts
  <2>2. findDomain(i) = CHOOSE s \in found : \A r \in found : s <= r
    BY <1>2 DEF findDomain
  <2> HIDE DEF found
  <2>3. \E s \in found : \A r \in found : s <= r
    BY <1>2, <2>1, LeastNumber
  <2>4. findDomain(i) \in found
    BY <2>2, <2>3
  <2> QED BY <2>4 DEF found
<1> QED BY <1>1, <1>2

\* What an identifier stands for never changes under its holder: the table says
\* where each domain lives though control blocks are used again.  And no client
\* waits for the answer of a domain that had begun to serve it and is gone, as
\* long as no answer was dropped because of the abort flag of an earlier call, for
\* every number of control blocks and with either scheduler; terminations that
\* stop the system half way are left out (domain.c 63-97, 470-490, 604-720;
\* portal.c 788-805).
THEOREM DomainsAlwaysSound == DomainsSpec => []DomainsSound
<1>1. DomainsInit => DomainsInv
  BY DomainsInitInv
<1>2. DomainsInv /\ [DomainsNext]_domainVars => DomainsInv'
  BY DomainsInductive
<1>3. DomainsInv => DomainsSound
  <2> SUFFICES ASSUME DomainsInv PROVE DomainsSound
    OBVIOUS
  <2>1. DomainTypes /\ IdsOK
    BY DEF DomainsInv
  <2>2. \A p \in proxies : findDomain(p.id) \in {NoSlot, p.slot}
    <3> TAKE p \in proxies
    <3>1. \A s \in Slots : Used(s) /\ dcb[s].id = p.id => s = p.slot
      BY <2>1 DEF IdsOK
    <3> QED BY <3>1, FindDomainFinds
  <2>3. \A s \in Slots : Used(s) => findDomain(dcb[s].id) = s
    <3> SUFFICES ASSUME NEW s \in Slots, Used(s) PROVE findDomain(dcb[s].id) = s
      OBVIOUS
    <3>1. \A r \in Slots : Used(r) /\ dcb[r].id = dcb[s].id => r = s
      BY <2>1 DEF IdsOK
    <3> QED BY <3>1, FindDomainFinds
  <2>4. count = Cardinality({s \in Slots : Used(s)}) /\ cursor \in Slots
    BY <2>1 DEF IdsOK, UsedSlots, DomainTypes
  <2>5. dropped \/ AnswersCome
    BY DEF DomainsInv, CallsInOrder, CallerOK, AnswersCome, Used
  <2> QED BY <2>2, <2>3, <2>4, <2>5 DEF DomainsSound, DomainTableRight
<1> QED BY <1>1, <1>2, <1>3, PTL DEF DomainsSpec

\* A request through an old proxy never reaches the domain that has moved into
\* the control block (zero_DomainManager.c:462 and :490): whatever a step does to
\* a block in use, it was asked of the domain that lives there.
THEOREM StaleProxiesHarmless == DomainsSpec => StaleProxyHarmless
<1>1. DomainsInit => DomainsInv
  BY DomainsInitInv
<1>2. DomainsInv /\ [DomainsNext]_domainVars => DomainsInv'
  BY DomainsInductive
<1>3. DomainsInv /\ [DomainsNext]_domainVars
        => [\A s \in Slots : Used(s) /\ dcb'[s] # dcb[s] => meant' = dcb[s].id]_domainVars
  <2> SUFFICES ASSUME DomainsInv, DomainsNext, NEW s \in Slots, Used(s), dcb'[s] # dcb[s]
               PROVE  meant' = dcb[s].id
    OBVIOUS
  <2>0. DomainTypes /\ dcb \in [Slots -> Blocks] /\ \A p \in proxies : p.slot \in Slots
    BY DEF DomainsInv, DomainTypes
  <2>1. CASE CreateDomain
    BY <2>0, <2>1, ChosenBlock
  <2>2. CASE StartDomain
    BY <2>2 DEF StartDomain
  <2>3. CASE \E i \in Ids, p \in proxies : CallService(i, p)
    BY <2>3 DEF CallService
  <2>4. CASE \E r \in Slots : Answer(r)
    BY <2>4 DEF Answer
  <2>5. ASSUME NEW t \in Slots, TerminateDomain(t) PROVE \A r \in Slots : r # t => dcb'[r] = dcb[r]
    BY <2>0, <2>5 DEF TerminateDomain
  <2>6. ASSUME NEW p \in proxies, Terminate(p) PROVE meant' = dcb[s].id
    <3>1. meant' = p.id /\ IsDomain(p) /\ TerminateDomain(p.slot)
      BY <2>6 DEF Terminate
    <3>2. \A r \in Slots : r # p.slot => dcb'[r] = dcb[r]
      BY <2>0, <2>5, <3>1
    <3> QED BY <3>1, <3>2 DEF IsDomain
  <2>7. ASSUME NEW p \in proxies, CollectDomain(p) PROVE meant' = dcb[s].id
    <3>1. meant' = p.id /\ IsDomain(p) /\ \A r \in Slots : r # p.slot => dcb'[r] = dcb[r]
      BY <2>0, <2>7 DEF CollectDomain
    <3> QED BY <3>1 DEF IsDomain
  <2>8. ASSUME NEW t \in Slots, TerminateCaller(t) PROVE meant' = dcb[s].id
    <3>1. meant' = dcb[t].id /\ TerminateDomain(t)
      BY <2>8 DEF TerminateCaller
    <3> QED BY <2>5, <3>1
  <2>9. CASE \E i \in Ids : LeavesCall(i)
    BY <2>9 DEF LeavesCall
  <2> QED BY <2>1, <2>2, <2>3, <2>4, <2>6, <2>7, <2>8, <2>9 DEF DomainsNext
<1> QED BY <1>1, <1>2, <1>3, PTL DEF DomainsSpec, StaleProxyHarmless
=============================================================================
