-------------------------- MODULE Options_proofs --------------------------
(***************************************************************************)
(* Proofs about two components of optional builds.                         *)
(*                                                                         *)
(* Round-robin schedulers (SchedRR): whatever wake-ups, handoffs,           *)
(* preemptions and deaths follow each other, no thread is lost or queued    *)
(* twice, for every number of threads and domains.                         *)
(*                                                                         *)
(* Binary transmission (Bdt): whatever the line loses, the packages are     *)
(* taken once and in order, and they carry what the calls were given, for   *)
(* every sequence of calls and every length of the packages.               *)
(***************************************************************************)
EXTENDS SchedRR, Bdt, FiniteSetTheorems, SequenceTheorems, WellFoundedInduction, TLAPS

-----------------------------------------------------------------------------
(* Round-robin schedulers: the invariant                                   *)

TStates == {"INIT", "RUNNABLE", "BLOCKED", "ZOMBIE", "FREED"}
MaybeThread == RRThreads \cup {NULL}
MaybeDomain == RRDomains \cup {NULL}
LocalRecs == [current : MaybeThread, queue : Seq(RRThreads)]
RunQs == [first : MaybeDomain, last : MaybeDomain, next : [RRDomains -> MaybeDomain],
          queued : SUBSET RRDomains]

\* The local scheduler r of domain d holds the domain's runnable threads, each
\* in one place.
LocalOK(d, r, ts) ==
    /\ \A k \in DOMAIN r.queue : /\ RRHome[r.queue[k]] = d /\ ts[r.queue[k]] = "RUNNABLE"
                                 /\ r.queue[k] # r.current
    /\ \A j, k \in DOMAIN r.queue : r.queue[j] = r.queue[k] => j = k
    /\ r.current # NULL => RRHome[r.current] = d /\ ts[r.current] = "RUNNABLE"
    /\ \A t \in RRThreads : RRHome[t] = d /\ ts[t] = "RUNNABLE"
            => r.current = t \/ \E k \in DOMAIN r.queue : r.queue[k] = t

Known(l, ts) ==
    /\ l \in [RRDomains -> LocalRecs] /\ ts \in [RRThreads -> TStates]
    /\ \A d \in RRDomains : LocalOK(d, l[d], ts)

\* The processor runs the current thread of its domain.
RunsCurrent(c, l) == c \in MaybeThread /\ (c # NULL => l[RRHome[c]].current = c)

RRInv ==
    /\ Known(local, tstate) /\ RunsCurrent(curthr, local)
    /\ RunQ \in RunQs /\ handler \in MaybeDomain

-----------------------------------------------------------------------------
(* Local schedulers                                                        *)

\* Threads of other domains do not matter.
LEMMA LocalFrame ==
    ASSUME NEW d \in RRDomains, NEW r \in LocalRecs, NEW ts, NEW t2, LocalOK(d, r, ts),
           \A t \in RRThreads : RRHome[t] = d => t2[t] = ts[t]
    PROVE  LocalOK(d, r, t2)
<1>1. /\ r.queue \in Seq(RRThreads) /\ \A k \in DOMAIN r.queue : r.queue[k] \in RRThreads
      /\ r.current \in MaybeThread
  BY DEF LocalRecs
<1>2. \A k \in DOMAIN r.queue : /\ RRHome[r.queue[k]] = d /\ t2[r.queue[k]] = "RUNNABLE"
                                /\ r.queue[k] # r.current
  BY <1>1 DEF LocalOK
<1>3. r.current # NULL => RRHome[r.current] = d /\ t2[r.current] = "RUNNABLE"
  BY <1>1 DEF LocalOK, MaybeThread
<1>4. \A t \in RRThreads : RRHome[t] = d /\ t2[t] = "RUNNABLE"
            => r.current = t \/ \E k \in DOMAIN r.queue : r.queue[k] = t
  BY DEF LocalOK
<1> QED BY <1>2, <1>3, <1>4 DEF LocalOK

\* insertThread: a thread that becomes runnable is queued.
LEMMA LocalInsert ==
    ASSUME NEW d \in RRDomains, NEW r \in LocalRecs, NEW ts, NEW t2, NEW x \in RRThreads,
           LocalOK(d, r, ts), RRHome[x] = d, ts[x] # "RUNNABLE", t2[x] = "RUNNABLE",
           \A t \in RRThreads \ {x} : t2[t] = ts[t],
           NEW w \in LocalRecs, w.current = r.current, w.queue = Append(r.queue, x)
    PROVE  LocalOK(d, w, t2)
<1> DEFINE q == r.queue
           n == Len(q)
<1>1. /\ q \in Seq(RRThreads) /\ \A k \in DOMAIN q : q[k] \in RRThreads
      /\ r.current \in MaybeThread
  BY DEF LocalRecs
<1>2. /\ n \in Nat /\ DOMAIN q = 1..n /\ DOMAIN w.queue = 1..(n + 1)
      /\ \A k \in 1..n : w.queue[k] = q[k]
      /\ w.queue[n + 1] = x
  BY <1>1
<1>3. /\ \A k \in DOMAIN q : RRHome[q[k]] = d /\ ts[q[k]] = "RUNNABLE" /\ q[k] # r.current
      /\ \A j, k \in DOMAIN q : q[j] = q[k] => j = k
      /\ r.current # NULL => RRHome[r.current] = d /\ ts[r.current] = "RUNNABLE"
      /\ \A t \in RRThreads : RRHome[t] = d /\ ts[t] = "RUNNABLE"
            => r.current = t \/ \E k \in DOMAIN q : q[k] = t
  BY DEF LocalOK
<1> HIDE DEF q, n
<1>4. \A k \in DOMAIN w.queue : k \in 1..n \/ k = n + 1
  BY <1>2
<1>5. x # r.current /\ \A k \in 1..n : q[k] # x
  <2>1. x # NULL
    BY RRAssumption
  <2>2. x # r.current
    BY <1>3, <2>1
  <2>3. \A k \in 1..n : q[k] # x
    BY <1>2, <1>3
  <2> QED BY <2>2, <2>3
<1>6. \A k \in DOMAIN w.queue : /\ RRHome[w.queue[k]] = d /\ t2[w.queue[k]] = "RUNNABLE"
                                /\ w.queue[k] # w.current
  BY <1>1, <1>2, <1>3, <1>4, <1>5
<1>7. \A j, k \in DOMAIN w.queue : w.queue[j] = w.queue[k] => j = k
  BY <1>2, <1>3, <1>4, <1>5
<1>8. w.current # NULL => RRHome[w.current] = d /\ t2[w.current] = "RUNNABLE"
  BY <1>1, <1>3, <1>5 DEF MaybeThread
<1>9. ASSUME NEW t \in RRThreads, RRHome[t] = d, t2[t] = "RUNNABLE"
      PROVE  w.current = t \/ \E k \in DOMAIN w.queue : w.queue[k] = t
  <2>1. n + 1 \in DOMAIN w.queue /\ \A k \in 1..n : k \in DOMAIN w.queue
    BY <1>2
  <2>2. CASE t = x
    BY <1>2, <2>1, <2>2
  <2>3. CASE t # x
    BY <1>2, <1>3, <1>9, <2>1, <2>3
  <2> QED BY <2>2, <2>3
<1> QED BY <1>6, <1>7, <1>8, <1>9 DEF LocalOK

\* nextThread: the current thread, if there is one, has stopped to be runnable,
\* and the first of the queue becomes the current one.
LEMMA LocalAdvance ==
    ASSUME NEW d \in RRDomains, NEW r \in LocalRecs, NEW ts, NEW t2, LocalOK(d, r, ts),
           \A t \in RRThreads : t # r.current => t2[t] = ts[t],
           r.current # NULL => t2[r.current] # "RUNNABLE",
           NEW w \in LocalRecs,
           r.queue = << >> => w.current = NULL /\ w.queue = << >>,
           r.queue # << >> => w.current = Head(r.queue) /\ w.queue = Tail(r.queue)
    PROVE  LocalOK(d, w, t2)
<1> DEFINE q == r.queue
           n == Len(q)
<1>1. /\ q \in Seq(RRThreads) /\ \A k \in DOMAIN q : q[k] \in RRThreads
      /\ r.current \in MaybeThread
  BY DEF LocalRecs
<1>3. /\ \A k \in DOMAIN q : RRHome[q[k]] = d /\ ts[q[k]] = "RUNNABLE" /\ q[k] # r.current
      /\ \A j, k \in DOMAIN q : q[j] = q[k] => j = k
      /\ r.current # NULL => RRHome[r.current] = d /\ ts[r.current] = "RUNNABLE"
      /\ \A t \in RRThreads : RRHome[t] = d /\ ts[t] = "RUNNABLE"
            => r.current = t \/ \E k \in DOMAIN q : q[k] = t
  BY DEF LocalOK
<1>4. \A k \in DOMAIN q : t2[q[k]] = "RUNNABLE"
  BY <1>1, <1>3
<1>5. ASSUME NEW t \in RRThreads, RRHome[t] = d, t2[t] = "RUNNABLE"
      PROVE  \E k \in DOMAIN q : q[k] = t
  BY <1>3, <1>5, RRAssumption
<1>6. CASE q = << >>
  <2>1. DOMAIN q = {} /\ w.current = NULL /\ w.queue = q
    BY <1>6
  <2> QED BY <1>5, <2>1 DEF LocalOK
<1>7. CASE q # << >>
  <2>0. /\ n \in Nat /\ n # 0 /\ DOMAIN q = 1..n
        /\ w.current = q[1] /\ DOMAIN w.queue = 1..(n - 1)
        /\ \A k \in 1..(n - 1) : w.queue[k] = q[k + 1]
    <3>1. w.current = Head(q) /\ w.queue = Tail(q)
      BY <1>7
    <3> HIDE DEF q
    <3>2. /\ n \in Nat /\ n # 0 /\ DOMAIN q = 1..n /\ Head(q) = q[1]
          /\ Tail(q) \in Seq(RRThreads) /\ Len(Tail(q)) = n - 1
      BY <1>1, <1>7
    <3>3. DOMAIN Tail(q) = 1..(n - 1) /\ \A k \in 1..(n - 1) : Tail(q)[k] = q[k + 1]
      BY <1>1, <1>7, <3>2
    <3> QED BY <3>1, <3>2, <3>3
  <2> HIDE DEF n
  <2>1. /\ w.current = q[1] /\ 1 \in DOMAIN q
        /\ \A k \in DOMAIN w.queue : k + 1 \in DOMAIN q /\ w.queue[k] = q[k + 1] /\ k \in Nat /\ k # 0
        /\ \A k \in DOMAIN q : k = 1 \/ (k - 1 \in DOMAIN w.queue /\ w.queue[k - 1] = q[k])
    <3> HIDE DEF q
    <3>1. \A k \in 1..n : k = 1 \/ (k - 1 \in 1..(n - 1) /\ (k - 1) + 1 = k)
      BY <2>0
    <3>2. \A k \in DOMAIN q : k = 1 \/ (k - 1 \in DOMAIN w.queue /\ w.queue[k - 1] = q[k])
      BY <2>0, <3>1
    <3> QED BY <2>0, <3>2
  <2> HIDE DEF q, n
  <2>2. ASSUME NEW k \in DOMAIN w.queue
        PROVE  RRHome[w.queue[k]] = d /\ t2[w.queue[k]] = "RUNNABLE" /\ w.queue[k] # w.current
    <3>1. k + 1 # 1
      BY <2>1
    <3> QED BY <1>3, <1>4, <2>1, <3>1
  <2>3. ASSUME NEW j \in DOMAIN w.queue, NEW k \in DOMAIN w.queue, w.queue[j] = w.queue[k] PROVE j = k
    <3>1. j + 1 = k + 1
      BY <1>3, <2>1, <2>3
    <3> QED BY <2>1, <3>1
  <2>4. RRHome[w.current] = d /\ t2[w.current] = "RUNNABLE"
    BY <1>3, <1>4, <2>1
  <2>5. \A t \in RRThreads : RRHome[t] = d /\ t2[t] = "RUNNABLE"
            => w.current = t \/ \E k \in DOMAIN w.queue : w.queue[k] = t
    BY <1>5, <2>1
  <2> QED BY <2>2, <2>3, <2>4, <2>5 DEF LocalOK
<1> QED BY <1>6, <1>7

\* A nonempty set of numbers has a least element.
LEMMA LeastNumber ==
    ASSUME NEW S \in SUBSET Nat, S # {}
    PROVE  \E m \in S : \A y \in S : m <= y
<1>1. IsWellFoundedOn(OpToRel(<, Nat), Nat)
  BY NatLessThanWellFounded, Zenon
<1>2. PICK m \in S : \A y \in S : ~(<<y, m>> \in OpToRel(<, Nat))
  BY <1>1, WFMin, Zenon
<1>3. ASSUME NEW y \in S, y < m PROVE FALSE
  <2>1. <<y, m>> \in OpToRel(<, Nat)
    BY <1>3 DEF OpToRel
  <2> QED BY <1>2, <2>1
<1> QED BY <1>3

\* Unlinking takes the one occurrence of a thread out of a queue.
LEMMA UnlinkedFacts ==
    ASSUME NEW q \in Seq(RRThreads), NEW x \in RRThreads,
           \A j, k \in DOMAIN q : q[j] = q[k] => j = k
    PROVE  LET u == Unlinked(q, x) IN
           /\ u \in Seq(RRThreads)
           /\ \A k \in DOMAIN u : u[k] # x /\ \E j \in DOMAIN q : u[k] = q[j]
           /\ \A k \in DOMAIN q : q[k] # x => \E j \in DOMAIN u : u[j] = q[k]
           /\ \A j, k \in DOMAIN u : u[j] = u[k] => j = k
<1> DEFINE u == Unlinked(q, x)
           found == {k \in DOMAIN q : q[k] = x}
           k0 == CHOOSE k \in found : \A j \in found : k <= j
           n == Len(q)
<1>1. n \in Nat /\ DOMAIN q = 1..n /\ \A k \in 1..n : q[k] \in RRThreads
  OBVIOUS
<1>2. CASE found = {}
  <2>1. u = q
    BY <1>2 DEF Unlinked
  <2> QED BY <1>2, <2>1
<1>3. CASE found # {}
  <2>0. u = [j \in 1..(n - 1) |-> IF j < k0 THEN q[j] ELSE q[j + 1]]
    BY <1>3 DEF Unlinked
  <2>1. k0 \in found
    <3>1. found \in SUBSET Nat
      BY <1>1
    <3> HIDE DEF found
    <3>2. \E k \in found : \A j \in found : k <= j
      BY <1>3, <3>1, LeastNumber
    <3> QED BY <3>2
  <2> HIDE DEF k0, u, n
  <2>2. k0 \in 1..n /\ q[k0] = x /\ n - 1 \in Nat
    BY <1>1, <2>1
  <2> DEFINE at(j) == IF j < k0 THEN j ELSE j + 1
  <2>3. ASSUME NEW j \in 1..(n - 1) PROVE at(j) \in 1..n /\ at(j) # k0 /\ u[j] = q[at(j)]
    <3>1. at(j) \in 1..n /\ at(j) # k0
      BY <1>1, <2>2
    <3> QED BY <2>0, <3>1
  <2>4. \A j, k \in 1..(n - 1) : at(j) = at(k) => j = k
    BY <1>1, <2>2
  <2>5. \A k \in 1..n : k # k0 => \E j \in 1..(n - 1) : at(j) = k
    <3> SUFFICES ASSUME NEW k \in 1..n, k # k0 PROVE \E j \in 1..(n - 1) : at(j) = k
      OBVIOUS
    <3>1. CASE k < k0
      <4>1. k \in 1..(n - 1) /\ at(k) = k
        BY <1>1, <2>2, <3>1
      <4> QED BY <4>1
    <3>2. CASE k > k0
      <4>1. k - 1 \in 1..(n - 1) /\ at(k - 1) = k
        BY <1>1, <2>2, <3>2
      <4> QED BY <4>1
    <3> QED BY <1>1, <2>2, <3>1, <3>2
  <2>6. DOMAIN u = 1..(n - 1)
    BY <2>0
  <2> HIDE DEF at
  <2>7. u \in Seq(RRThreads)
    <3>1. \A j \in 1..(n - 1) : u[j] \in RRThreads
      BY <1>1, <2>3
    <3>2. u \in [1..(n - 1) -> RRThreads]
      BY <2>0, <2>6, <3>1
    <3> QED BY <2>2, <3>2
  <2>8. \A k \in DOMAIN u : u[k] # x /\ \E j \in DOMAIN q : u[k] = q[j]
    BY <1>1, <2>2, <2>3, <2>6
  <2>9. \A k \in DOMAIN q : q[k] # x => \E j \in DOMAIN u : u[j] = q[k]
    BY <1>1, <2>2, <2>3, <2>5, <2>6
  <2>10. \A j, k \in DOMAIN u : u[j] = u[k] => j = k
    BY <1>1, <2>3, <2>4, <2>6
  <2> QED BY <2>7, <2>8, <2>9, <2>10 DEF u
<1> QED BY <1>2, <1>3

\* removeThread: a thread that is not the current one stops to be runnable.
LEMMA LocalRemove ==
    ASSUME NEW d \in RRDomains, NEW r \in LocalRecs, NEW ts, NEW t2, NEW x \in RRThreads,
           LocalOK(d, r, ts), x # r.current, t2[x] # "RUNNABLE",
           \A t \in RRThreads \ {x} : t2[t] = ts[t],
           NEW w \in LocalRecs, w.current = r.current, w.queue = Unlinked(r.queue, x)
    PROVE  LocalOK(d, w, t2)
<1> DEFINE q == r.queue
           u == w.queue
<1>1. /\ q \in Seq(RRThreads) /\ \A k \in DOMAIN q : q[k] \in RRThreads
      /\ r.current \in MaybeThread
  BY DEF LocalRecs
<1>3. /\ \A k \in DOMAIN q : RRHome[q[k]] = d /\ ts[q[k]] = "RUNNABLE" /\ q[k] # r.current
      /\ \A j, k \in DOMAIN q : q[j] = q[k] => j = k
      /\ r.current # NULL => RRHome[r.current] = d /\ ts[r.current] = "RUNNABLE"
      /\ \A t \in RRThreads : RRHome[t] = d /\ ts[t] = "RUNNABLE"
            => r.current = t \/ \E k \in DOMAIN q : q[k] = t
  BY DEF LocalOK
<1>4. /\ \A k \in DOMAIN u : u[k] # x /\ \E j \in DOMAIN q : u[k] = q[j]
      /\ \A k \in DOMAIN q : q[k] # x => \E j \in DOMAIN u : u[j] = q[k]
      /\ \A j, k \in DOMAIN u : u[j] = u[k] => j = k
  BY <1>1, <1>3, UnlinkedFacts
<1> HIDE DEF q, u
<1>5. \A k \in DOMAIN u : RRHome[u[k]] = d /\ t2[u[k]] = "RUNNABLE" /\ u[k] # r.current
  BY <1>1, <1>3, <1>4
<1>6. r.current # NULL => RRHome[r.current] = d /\ t2[r.current] = "RUNNABLE"
  BY <1>1, <1>3 DEF MaybeThread
<1>7. \A t \in RRThreads : RRHome[t] = d /\ t2[t] = "RUNNABLE"
            => r.current = t \/ \E k \in DOMAIN u : u[k] = t
  BY <1>3, <1>4
<1> QED BY <1>4, <1>5, <1>6, <1>7 DEF LocalOK, u

-----------------------------------------------------------------------------
(* All local schedulers                                                    *)

\* One local scheduler changes, and the states of threads of its domain.
LEMMA KnownStep ==
    ASSUME NEW l, NEW ts, Known(l, ts), NEW d \in RRDomains, NEW t2 \in [RRThreads -> TStates],
           NEW w \in LocalRecs, LocalOK(d, w, t2),
           \A t \in RRThreads : RRHome[t] # d => t2[t] = ts[t]
    PROVE  Known([l EXCEPT ![d] = w], t2)
<1> DEFINE m == [l EXCEPT ![d] = w]
<1>1. l \in [RRDomains -> LocalRecs]
  BY DEF Known
<1>2. m \in [RRDomains -> LocalRecs] /\ m[d] = w /\ \A e \in RRDomains \ {d} : m[e] = l[e]
  BY <1>1
<1> HIDE DEF m
<1>3. ASSUME NEW e \in RRDomains PROVE LocalOK(e, m[e], t2)
  <2>1. CASE e = d
    BY <1>2, <2>1
  <2>2. CASE e # d
    <3>1. LocalOK(e, l[e], ts) /\ l[e] \in LocalRecs /\ m[e] = l[e]
      BY <1>1, <1>2, <2>2 DEF Known
    <3>2. \A t \in RRThreads : RRHome[t] = e => t2[t] = ts[t]
      BY <2>2
    <3> QED BY <3>1, <3>2, LocalFrame
  <2> QED BY <2>1, <2>2
<1>4. Known(m, t2)
  BY <1>2, <1>3 DEF Known
<1> QED BY <1>4 DEF m

\* A thread becomes runnable and is inserted into the queue of its domain.
LEMMA KnownInsert ==
    ASSUME NEW l, NEW ts, Known(l, ts), NEW x \in RRThreads, ts[x] # "RUNNABLE"
    PROVE  /\ Known(insertThread(l, RRHome[x], x), [ts EXCEPT ![x] = "RUNNABLE"])
           /\ \A d \in RRDomains : insertThread(l, RRHome[x], x)[d].current = l[d].current
<1> DEFINE d == RRHome[x]
           t2 == [ts EXCEPT ![x] = "RUNNABLE"]
           r == l[d]
           w == [r EXCEPT !.queue = Append(r.queue, x)]
<1>1. /\ d \in RRDomains /\ l \in [RRDomains -> LocalRecs] /\ r \in LocalRecs
      /\ ts \in [RRThreads -> TStates] /\ LocalOK(d, r, ts)
  BY RRAssumption DEF Known
<1>2. r.queue \in Seq(RRThreads)
  BY <1>1 DEF LocalRecs
<1>3. Append(r.queue, x) \in Seq(RRThreads)
  BY <1>2
<1>4. w \in LocalRecs /\ w.current = r.current /\ w.queue = Append(r.queue, x)
  BY <1>1, <1>3 DEF LocalRecs
<1>5. /\ t2 \in [RRThreads -> TStates] /\ t2[x] = "RUNNABLE" /\ \A t \in RRThreads \ {x} : t2[t] = ts[t]
  BY <1>1 DEF TStates
<1>6. insertThread(l, d, x) = [l EXCEPT ![d] = w]
  BY DEF insertThread
<1> HIDE DEF w, t2, r
<1>7. LocalOK(d, w, t2)
  BY <1>1, <1>4, <1>5, LocalInsert
<1>8. \A t \in RRThreads : RRHome[t] # d => t2[t] = ts[t]
  BY <1>5
<1> HIDE DEF d
<1>9. Known([l EXCEPT ![d] = w], t2)
  BY <1>1, <1>4, <1>5, <1>7, <1>8, KnownStep
<1>10. \A e \in RRDomains : [l EXCEPT ![d] = w][e].current = l[e].current
  BY <1>1, <1>4 DEF r
<1> QED BY <1>6, <1>9, <1>10 DEF t2, d

\* The local scheduler of d goes on to the next thread.
LEMMA KnownAdvance ==
    ASSUME NEW l, NEW ts, Known(l, ts), NEW d \in RRDomains, NEW t2 \in [RRThreads -> TStates],
           \A t \in RRThreads : t # l[d].current => t2[t] = ts[t],
           l[d].current # NULL => t2[l[d].current] # "RUNNABLE"
    PROVE  /\ Known(Advance(l, d), t2)
           /\ \A e \in RRDomains \ {d} : Advance(l, d)[e] = l[e]
           /\ l[d].queue # << >> => Advance(l, d)[d].current \in RRThreads
<1> DEFINE r == l[d]
           w == IF r.queue = << >> THEN [r EXCEPT !.current = NULL]
                ELSE [current |-> Head(r.queue), queue |-> Tail(r.queue)]
<1>1. l \in [RRDomains -> LocalRecs] /\ r \in LocalRecs /\ LocalOK(d, r, ts)
  BY DEF Known
<1>2. r.queue \in Seq(RRThreads) /\ r.current \in MaybeThread
  BY <1>1 DEF LocalRecs
<1>3. /\ w \in LocalRecs
      /\ r.queue = << >> => w.current = NULL /\ w.queue = << >>
      /\ r.queue # << >> => w.current = Head(r.queue) /\ w.queue = Tail(r.queue) /\ w.current \in RRThreads
  <2>1. CASE r.queue = << >>
    BY <1>1, <1>2, <2>1 DEF LocalRecs, MaybeThread
  <2>2. CASE r.queue # << >>
    <3>1. Head(r.queue) \in RRThreads /\ Tail(r.queue) \in Seq(RRThreads)
      BY <1>2, <2>2
    <3> QED BY <2>2, <3>1 DEF LocalRecs, MaybeThread
  <2> QED BY <2>1, <2>2
<1>4. Advance(l, d) = [l EXCEPT ![d] = w]
  BY DEF Advance
<1> HIDE DEF w
<1>5. LocalOK(d, w, t2)
  <2>1. /\ \A t \in RRThreads : t # r.current => t2[t] = ts[t]
        /\ r.current # NULL => t2[r.current] # "RUNNABLE"
    OBVIOUS
  <2> HIDE DEF r
  <2> QED BY <1>1, <1>3, <2>1, LocalAdvance
<1>6. ASSUME NEW t \in RRThreads, RRHome[t] # d PROVE t2[t] = ts[t]
  <2>1. t # r.current
    BY <1>1, <1>6, RRAssumption DEF LocalOK
  <2> QED BY <2>1
<1>7. Known([l EXCEPT ![d] = w], t2)
  BY <1>3, <1>5, <1>6, KnownStep
<1>8. [l EXCEPT ![d] = w][d] = w /\ \A e \in RRDomains \ {d} : [l EXCEPT ![d] = w][e] = l[e]
  BY <1>1
<1> QED BY <1>3, <1>4, <1>7, <1>8

\* A thread that is not its domain's current one is taken out.
LEMMA KnownRemove ==
    ASSUME NEW l, NEW ts, Known(l, ts), NEW x \in RRThreads, x # l[RRHome[x]].current,
           NEW t2 \in [RRThreads -> TStates], t2[x] # "RUNNABLE",
           \A t \in RRThreads \ {x} : t2[t] = ts[t]
    PROVE  /\ Known(removeThread(l, RRHome[x], x), t2)
           /\ \A e \in RRDomains : removeThread(l, RRHome[x], x)[e].current = l[e].current
<1> DEFINE d == RRHome[x]
           r == l[d]
           w == [r EXCEPT !.queue = Unlinked(r.queue, x)]
<1>1. /\ d \in RRDomains /\ l \in [RRDomains -> LocalRecs] /\ r \in LocalRecs /\ LocalOK(d, r, ts)
  BY RRAssumption DEF Known
<1>2. r.queue \in Seq(RRThreads) /\ \A j, k \in DOMAIN r.queue : r.queue[j] = r.queue[k] => j = k
  BY <1>1 DEF LocalRecs, LocalOK
<1>3. Unlinked(r.queue, x) \in Seq(RRThreads)
  BY <1>2, UnlinkedFacts
<1>4. w \in LocalRecs /\ w.current = r.current /\ w.queue = Unlinked(r.queue, x)
  BY <1>1, <1>3 DEF LocalRecs
<1>5. removeThread(l, d, x) = [l EXCEPT ![d] = w]
  BY DEF removeThread
<1>6. x # r.current
  OBVIOUS
<1> HIDE DEF w, r
<1>7. LocalOK(d, w, t2)
  BY <1>1, <1>4, <1>6, LocalRemove
<1>8. \A t \in RRThreads : RRHome[t] # d => t2[t] = ts[t]
  OBVIOUS
<1> HIDE DEF d
<1>9. Known([l EXCEPT ![d] = w], t2)
  BY <1>1, <1>4, <1>7, <1>8, KnownStep
<1>10. \A e \in RRDomains : [l EXCEPT ![d] = w][e].current = l[e].current
  BY <1>1, <1>4 DEF r
<1> QED BY <1>5, <1>9, <1>10 DEF d

-----------------------------------------------------------------------------
(* The queue of domains, and the loop over it                              *)

\* queue_append and queue_remove keep the queue's pointers pointing to domains.
LEMMA RunQTypes ==
    ASSUME NEW q \in RunQs
    PROVE  /\ queue_remove(q) \in RunQs /\ q.first \in MaybeDomain
           /\ \A d \in RRDomains : queue_append(q, d) \in RunQs
<1>1. /\ q.first \in MaybeDomain /\ q.last \in MaybeDomain /\ q.queued \in SUBSET RRDomains
      /\ q.next \in [RRDomains -> MaybeDomain]
  BY DEF RunQs
<1>2. queue_remove(q) \in RunQs
  <2>1. CASE q.first = NULL
    BY <2>1 DEF queue_remove
  <2>2. CASE q.first # NULL
    <3>1. q.first \in RRDomains
      BY <1>1, <2>2 DEF MaybeDomain
    <3> DEFINE nx == [q.next EXCEPT ![q.first] = NULL]
               ls == IF q.first = q.last THEN NULL ELSE q.last
    <3>2. /\ nx \in [RRDomains -> MaybeDomain] /\ q.next[q.first] \in MaybeDomain
          /\ q.queued \ {q.first} \in SUBSET RRDomains /\ ls \in MaybeDomain
      BY <1>1, <3>1 DEF MaybeDomain
    <3>3. queue_remove(q) = [q EXCEPT !.first = q.next[q.first], !.last = ls,
                                      !.next = nx, !.queued = q.queued \ {q.first}]
      BY <2>2 DEF queue_remove
    <3> HIDE DEF nx, ls
    <3> QED BY <3>2, <3>3 DEF RunQs
  <2> QED BY <2>1, <2>2
<1>3. ASSUME NEW d \in RRDomains PROVE queue_append(q, d) \in RunQs
  <2> DEFINE n1 == [q.next EXCEPT ![d] = NULL]
             nx == IF q.last = NULL THEN n1 ELSE [n1 EXCEPT ![q.last] = d]
             fs == IF q.last = NULL THEN d ELSE q.first
  <2>1. n1 \in [RRDomains -> MaybeDomain]
    BY <1>1 DEF MaybeDomain
  <2>2. nx \in [RRDomains -> MaybeDomain]
    <3> HIDE DEF n1
    <3> QED BY <2>1 DEF MaybeDomain
  <2>3. queue_append(q, d) = [q EXCEPT !.queued = q.queued \cup {d}, !.last = d, !.first = fs, !.next = nx]
    BY DEF queue_append
  <2>4. q.queued \cup {d} \in SUBSET RRDomains /\ d \in MaybeDomain /\ fs \in MaybeDomain
    BY <1>1 DEF MaybeDomain
  <2> HIDE DEF nx, fs
  <2> QED BY <2>2, <2>3, <2>4 DEF RunQs
<1> QED BY <1>1, <1>2, <1>3

Drops == [q : RunQs, d : MaybeDomain]

\* Once around the loop.
LEMMA DropOneType ==
    ASSUME NEW l, NEW p \in Drops
    PROVE  DropOne(l, p) \in Drops
<1>1. p.q \in RunQs
  BY DEF Drops
<1>2. queue_remove(p.q) \in RunQs /\ p.q.first \in MaybeDomain
  BY <1>1, RunQTypes
<1> QED BY <1>2 DEF DropOne, Drops

\* The loop of activateNext leaves a queue, and a domain or none.
LEMMA DroppedType ==
    ASSUME NEW q \in RunQs, NEW l, NEW d \in MaybeDomain
    PROVE  Dropped(q, l, d) \in Drops
<1> DEFINE p0 == [q |-> q, d |-> d]
           Steps(m, f) == \A n \in 0..m : f[n] = IF n = 0 THEN p0 ELSE DropOne(l, f[n - 1])
           Bad == {m \in Nat : ~\E f \in [0..m -> Drops] : Steps(m, f)}
           N == MaxDrops
<1>0. p0 \in Drops /\ N \in Nat
  <2>1. Cardinality(RRDomains) \in Nat
    BY RRAssumption, FS_CardinalityType
  <2> QED BY <2>1 DEF Drops, MaxDrops
<1> HIDE DEF p0, N
<1>1. Bad = {}
  <2> SUFFICES ASSUME Bad # {} PROVE FALSE
    OBVIOUS
  <2>1. PICK m \in Bad : \A y \in Bad : m <= y
    <3>1. Bad \in SUBSET Nat
      OBVIOUS
    <3> HIDE DEF Bad
    <3> QED BY <3>1, LeastNumber
  <2>2. CASE m = 0
    <3> DEFINE f == [n \in 0..0 |-> p0]
    <3>1. f \in [0..m -> Drops]
      BY <1>0, <2>2
    <3>2. ASSUME NEW n \in 0..m PROVE n = 0 /\ f[n] = p0
      BY <2>2
    <3>3. Steps(m, f)
      BY <3>2
    <3> HIDE DEF Steps, f
    <3> QED BY <3>1, <3>3
  <2>3. CASE m # 0
    <3>1. m \in Nat /\ m - 1 \in Nat
      BY <2>3
    <3>2. m - 1 \notin Bad
      <4> HIDE DEF Bad
      <4> QED BY <2>1, <3>1
    <3>3. PICK f \in [0..(m - 1) -> Drops] : Steps(m - 1, f)
      <4> HIDE DEF Steps
      <4> QED BY <3>1, <3>2
    <3> DEFINE g == [n \in 0..m |-> IF n = m THEN DropOne(l, f[m - 1]) ELSE f[n]]
    <3>4. m - 1 \in 0..(m - 1) /\ \A n \in 0..m : n # m => n \in 0..(m - 1)
      BY <3>1
    <3>5. DropOne(l, f[m - 1]) \in Drops
      BY <3>3, <3>4, DropOneType
    <3>6. g \in [0..m -> Drops]
      BY <3>3, <3>4, <3>5
    <3>7. ASSUME NEW n \in 0..m PROVE g[n] = IF n = 0 THEN p0 ELSE DropOne(l, g[n - 1])
      <4>1. CASE n = m
        <5>1. m - 1 \in 0..m /\ m - 1 # m
          BY <3>1
        <5>2. g[m - 1] = f[m - 1] /\ g[m] = DropOne(l, f[m - 1])
          BY <5>1, <3>1
        <5> QED BY <2>3, <4>1, <5>2
      <4>2. CASE n # m
        <5>1. n \in 0..(m - 1) /\ g[n] = f[n]
          BY <3>4, <4>2
        <5>2. n # 0 => n - 1 \in 0..m /\ n - 1 # m
          BY <3>1, <5>1
        <5>3. n # 0 => g[n - 1] = f[n - 1]
          BY <5>2
        <5> QED BY <3>3, <5>1, <5>3
      <4> QED BY <4>1, <4>2
    <3>8. Steps(m, g)
      BY <3>7
    <3> HIDE DEF Steps, g
    <3> QED BY <3>6, <3>8
  <2> QED BY <2>2, <2>3
<1>2. PICK g \in [0..N -> Drops] : Steps(N, g)
  <2> HIDE DEF Steps
  <2> QED BY <1>0, <1>1
<1> DEFINE Drop == CHOOSE f : f = [n \in 0..N |-> IF n = 0 THEN p0 ELSE DropOne(l, f[n - 1])]
<1>3. g = [n \in 0..N |-> IF n = 0 THEN p0 ELSE DropOne(l, g[n - 1])]
  BY <1>2
<1>4. Drop = [n \in 0..N |-> IF n = 0 THEN p0 ELSE DropOne(l, Drop[n - 1])]
  BY <1>3, Zenon
<1>5. Dropped(q, l, d) = Drop[N]
  BY DEF Dropped, p0, N
<1> HIDE DEF Drop
<1>6. \A n \in 0..N : Drop[n] = IF n = 0 THEN p0 ELSE DropOne(l, Drop[n - 1])
  BY <1>4
<1> DEFINE Wild == {n \in 0..N : Drop[n] \notin Drops}
<1>7. Wild = {}
  <2> SUFFICES ASSUME Wild # {} PROVE FALSE
    OBVIOUS
  <2>1. PICK m \in Wild : \A y \in Wild : m <= y
    <3>1. Wild \in SUBSET Nat
      BY <1>0
    <3> HIDE DEF Wild
    <3> QED BY <3>1, LeastNumber
  <2>2. m # 0
    BY <1>0, <1>6
  <2>3. m \in Nat /\ m - 1 \in 0..N
    BY <1>0, <2>2
  <2>4. m - 1 \notin Wild
    <3> HIDE DEF Wild
    <3> QED BY <2>1, <2>3
  <2>5. Drop[m - 1] \in Drops
    BY <2>3, <2>4
  <2>6. Drop[m] = DropOne(l, Drop[m - 1])
    BY <1>6, <2>2
  <2> QED BY <2>5, <2>6, DropOneType
<1> QED BY <1>0, <1>5, <1>7

-----------------------------------------------------------------------------
(* The entry points                                                        *)

\* The variables of the queue are the parts of the record.
LEMMA RunQParts ==
    ASSUME NEW q \in RunQs, SetRunQ(q)
    PROVE  RunQ' \in RunQs
<1>1. q = [first |-> q.first, last |-> q.last, next |-> q.next, queued |-> q.queued]
  BY DEF RunQs
<1>2. RunQ' = q
  BY <1>1 DEF RunQ, SetRunQ
<1> QED BY <1>2

\* activateNext: a local scheduler that was left without a current thread takes
\* the next one, and the processor runs the current thread of some domain.
LEMMA ActivateInv ==
    ASSUME NEW l, Known(l, tstate'), NEW q \in RunQs, NEW d \in MaybeDomain, activateNext(q, l, d),
           handler' \in MaybeDomain
    PROVE  RRInv'
<1> DEFINE r == Dropped(q, l, d)
           act == IF r.d # NULL /\ l[r.d].current = NULL THEN Advance(l, r.d) ELSE l
<1>1. r.q \in RunQs /\ r.d \in MaybeDomain
  BY DroppedType DEF Drops
<1>2. /\ SetRunQ(r.q)
      /\ IF r.d = NULL \/ ~isRunnable(l, r.d)
         THEN curthr' = NULL /\ local' = l
         ELSE curthr' = act[r.d].current /\ local' = act
  BY DEF activateNext
<1>3. RunQ' \in RunQs
  BY <1>1, <1>2, RunQParts
<1> HIDE DEF r
<1>4. l \in [RRDomains -> LocalRecs] /\ tstate' \in [RRThreads -> TStates]
  BY DEF Known
<1>5. Known(local', tstate') /\ RunsCurrent(curthr', local')
  <2>1. CASE r.d = NULL \/ ~isRunnable(l, r.d)
    BY <1>2, <2>1 DEF RunsCurrent, MaybeThread
  <2>2. CASE r.d # NULL /\ isRunnable(l, r.d)
    <3>1. r.d \in RRDomains /\ curthr' = local'[r.d].current /\ local' = act
      BY <1>1, <1>2, <2>2 DEF MaybeDomain
    <3>2. Known(act, tstate') /\ act[r.d].current # NULL
      <4>1. CASE l[r.d].current = NULL
        <5>1. act = Advance(l, r.d)
          BY <2>2, <4>1
        <5>2. l[r.d].queue # << >>
          BY <2>2, <4>1 DEF isRunnable
        <5>3. Known(Advance(l, r.d), tstate') /\ Advance(l, r.d)[r.d].current \in RRThreads
          BY <1>4, <3>1, <4>1, <5>2, KnownAdvance
        <5> QED BY <5>1, <5>3, RRAssumption
      <4>2. CASE l[r.d].current # NULL
        BY <4>2
      <4> QED BY <4>1, <4>2
    <3> HIDE DEF act
    <3>3. local'[r.d] \in LocalRecs /\ LocalOK(r.d, local'[r.d], tstate')
      BY <3>1, <3>2 DEF Known
    <3>4. curthr' \in MaybeThread /\ RRHome[curthr'] = r.d
      BY <3>1, <3>2, <3>3 DEF LocalRecs, LocalOK
    <3> QED BY <3>1, <3>2, <3>4 DEF RunsCurrent
  <2> QED BY <2>1, <2>2
<1> QED BY <1>3, <1>5 DEF RRInv

\* The domain the processor works for.
LEMMA CurdomType ==
    ASSUME RRInv
    PROVE  curdom \in RRDomains
BY RRAssumption DEF RRInv, RunsCurrent, curdom, MaybeThread, MaybeDomain

\* What Sched_unblock does to the schedulers.
LEMMA WokenFacts ==
    ASSUME NEW q \in RunQs, NEW l, NEW ts, Known(l, ts), NEW x \in RRThreads, ts[x] # "RUNNABLE"
    PROVE  LET w == Woken(q, l, x) IN
           /\ w.q \in RunQs
           /\ Known(w.l, [ts EXCEPT ![x] = "RUNNABLE"])
           /\ \A d \in RRDomains : w.l[d].current = l[d].current
<1> DEFINE d == RRHome[x]
           l2 == insertThread(l, d, x)
           q2 == IF l[d].queue = << >> THEN Sched_becomesRunnable(q, l2, d) ELSE q
           q3 == IF d \notin q2.queued /\ isRunnable(l2, d) /\ curdom # d THEN queue_append(q2, d) ELSE q2
<1>1. d \in RRDomains
  BY RRAssumption
<1>2. Woken(q, l, x) = [l |-> l2, q |-> q3]
  BY DEF Woken
<1>3. q2 \in RunQs
  BY <1>1, RunQTypes DEF Sched_becomesRunnable
<1> HIDE DEF q2
<1>4. q3 \in RunQs
  BY <1>1, <1>3, RunQTypes
<1>5. Known(l2, [ts EXCEPT ![x] = "RUNNABLE"]) /\ \A e \in RRDomains : l2[e].current = l[e].current
  BY KnownInsert
<1> HIDE DEF q3
<1> QED BY <1>2, <1>4, <1>5

\* The initial state has no threads.
LEMMA RRInitInv == RRInit => RRInv
<1> SUFFICES ASSUME RRInit PROVE RRInv
  OBVIOUS
<1>1. /\ local \in [RRDomains -> LocalRecs]
      /\ \A d \in RRDomains : local[d].current = NULL /\ local[d].queue = << >>
  <2>1. [current |-> NULL, queue |-> << >>] \in LocalRecs
    BY DEF LocalRecs, MaybeThread
  <2> QED BY <2>1 DEF RRInit
<1>2. tstate \in [RRThreads -> TStates] /\ \A t \in RRThreads : tstate[t] = "INIT"
  BY DEF RRInit, TStates
<1>3. \A d \in RRDomains : LocalOK(d, local[d], tstate)
  <2> TAKE d \in RRDomains
  <2>1. DOMAIN local[d].queue = {}
    BY <1>1
  <2> QED BY <1>1, <1>2, <2>1 DEF LocalOK
<1>4. RunQ \in RunQs
  BY DEF RRInit, RunQ, RunQs, MaybeDomain
<1> QED BY <1>1, <1>2, <1>3, <1>4 DEF RRInv, Known, RunsCurrent, RRInit, MaybeThread, MaybeDomain

\* Sched_unblock.
LEMMA UnblockInv ==
    ASSUME RRInv, NEW x \in RRThreads, Sched_unblock(x)
    PROVE  RRInv'
<1> DEFINE w == Woken(RunQ, local, x)
<1>1. /\ tstate[x] # "RUNNABLE" /\ tstate' = [tstate EXCEPT ![x] = "RUNNABLE"]
      /\ SetRunQ(w.q) /\ local' = w.l /\ curthr' = curthr /\ handler' = handler
  BY DEF Sched_unblock
<1>2. Known(local, tstate) /\ RunQ \in RunQs /\ RunsCurrent(curthr, local) /\ handler \in MaybeDomain
  BY DEF RRInv
<1>3. /\ w.q \in RunQs /\ Known(w.l, [tstate EXCEPT ![x] = "RUNNABLE"])
      /\ \A d \in RRDomains : w.l[d].current = local[d].current
  <2>1. tstate[x] # "RUNNABLE"
    BY <1>1
  <2> QED BY <1>2, <2>1, WokenFacts
<1> HIDE DEF w
<1>4. RunQ' \in RunQs
  BY <1>1, <1>3, RunQParts
<1>5. RunsCurrent(curthr, w.l)
  BY <1>2, <1>3, RRAssumption DEF RunsCurrent, MaybeThread
<1> QED BY <1>1, <1>2, <1>3, <1>4, <1>5 DEF RRInv

\* The current thread is its domain's current one.
LEMMA CurrentFacts ==
    ASSUME RRInv, curthr # NULL
    PROVE  /\ curthr \in RRThreads /\ RRHome[curthr] \in RRDomains /\ RRHome[curthr] \in MaybeDomain
           /\ local[RRHome[curthr]].current = curthr /\ tstate[curthr] = "RUNNABLE"
           /\ tstate \in [RRThreads -> TStates] /\ Known(local, tstate) /\ RunQ \in RunQs
           /\ handler \in MaybeDomain
<1>1. /\ Known(local, tstate) /\ RunQ \in RunQs /\ RunsCurrent(curthr, local) /\ handler \in MaybeDomain
      /\ tstate \in [RRThreads -> TStates]
  BY DEF RRInv, Known
<1>2. curthr \in RRThreads /\ RRHome[curthr] \in RRDomains /\ local[RRHome[curthr]].current = curthr
  BY <1>1, RRAssumption DEF RunsCurrent, MaybeThread
<1>3. tstate[curthr] = "RUNNABLE"
  BY <1>1, <1>2 DEF Known, LocalOK
<1> QED BY <1>1, <1>2, <1>3 DEF MaybeDomain

\* Sched_block.
LEMMA BlockInv ==
    ASSUME RRInv, RRSched_block
    PROVE  RRInv'
<1> DEFINE d == RRHome[curthr]
<1>1. /\ curthr # NULL /\ tstate' = [tstate EXCEPT ![curthr] = "BLOCKED"]
      /\ activateNext(RunQ, Advance(local, d), d) /\ handler' = handler
  BY DEF RRSched_block
<1>2. /\ curthr \in RRThreads /\ d \in RRDomains /\ d \in MaybeDomain
      /\ local[d].current = curthr /\ tstate[curthr] = "RUNNABLE"
      /\ tstate \in [RRThreads -> TStates] /\ Known(local, tstate) /\ RunQ \in RunQs
      /\ handler \in MaybeDomain
  BY <1>1, CurrentFacts
<1> HIDE DEF d
<1>3. /\ tstate' \in [RRThreads -> TStates] /\ tstate'[curthr] = "BLOCKED"
      /\ \A t \in RRThreads : t # curthr => tstate'[t] = tstate[t]
  BY <1>1, <1>2 DEF TStates
<1>4. Known(Advance(local, d), tstate')
  BY <1>2, <1>3, KnownAdvance
<1> QED BY <1>1, <1>2, <1>4, ActivateInv

\* A handoff: one thread is unblocked, the current one blocks.
LEMMA HandoffInv ==
    ASSUME RRInv, NEW x \in RRThreads, Handoff(x)
    PROVE  RRInv'
<1> DEFINE d == RRHome[curthr]
           w == Woken(RunQ, local, x)
           t1 == [tstate EXCEPT ![x] = "RUNNABLE"]
<1>1. /\ curthr # NULL /\ x # curthr /\ tstate[x] = "BLOCKED"
      /\ tstate' = [tstate EXCEPT ![x] = "RUNNABLE", ![curthr] = "BLOCKED"]
      /\ activateNext(w.q, Advance(w.l, d), d) /\ handler' = handler
  BY DEF Handoff
<1>2. /\ curthr \in RRThreads /\ d \in RRDomains /\ d \in MaybeDomain
      /\ local[d].current = curthr
      /\ tstate \in [RRThreads -> TStates] /\ Known(local, tstate) /\ RunQ \in RunQs
      /\ handler \in MaybeDomain
  BY <1>1, CurrentFacts
<1>3. /\ w.q \in RunQs /\ Known(w.l, t1) /\ w.l[d].current = curthr
  BY <1>1, <1>2, WokenFacts
<1> HIDE DEF w, d
<1>4. /\ tstate' \in [RRThreads -> TStates] /\ tstate'[curthr] = "BLOCKED"
      /\ \A t \in RRThreads : t # curthr => tstate'[t] = t1[t]
  BY <1>1, <1>2 DEF TStates
<1> HIDE DEF t1
<1>5. Known(Advance(w.l, d), tstate')
  BY <1>2, <1>3, <1>4, KnownAdvance
<1> QED BY <1>1, <1>2, <1>3, <1>5, ActivateInv

\* Sched_preempted, and idle when it finds work.
LEMMA SwitchInv ==
    ASSUME RRInv, Sched_preempted \/ IdleLeaves
    PROVE  RRInv'
<1>1. Known(local, tstate) /\ RunQ \in RunQs /\ handler \in MaybeDomain
  BY DEF RRInv
<1>2. NULL \in MaybeDomain
  BY DEF MaybeDomain
<1>3. CASE Sched_preempted
  <2>1. activateNext(queue_append(RunQ, curdom), local, NULL) /\ tstate' = tstate /\ handler' = handler
    BY <1>3 DEF Sched_preempted
  <2>2. queue_append(RunQ, curdom) \in RunQs
    BY <1>1, CurdomType, RunQTypes
  <2>3. Known(local, tstate')
    BY <1>1, <2>1
  <2> QED BY <1>1, <1>2, <2>1, <2>2, <2>3, ActivateInv
<1>4. CASE IdleLeaves
  <2>1. activateNext(RunQ, local, NULL) /\ tstate' = tstate /\ handler' = handler
    BY <1>4 DEF IdleLeaves
  <2>2. Known(local, tstate')
    BY <1>1, <2>1
  <2> QED BY <1>1, <1>2, <2>1, <2>2, ActivateInv
<1> QED BY <1>3, <1>4

\* Sched_destroyed: the dead thread leaves the scheduler of its domain.
LEMMA DestroyedFacts ==
    ASSUME RRInv, NEW x \in RRThreads, tstate' \in [RRThreads -> TStates], tstate'[x] # "RUNNABLE",
           \A t \in RRThreads \ {x} : tstate'[t] = tstate[t]
    PROVE  /\ Destroyed(x).q \in RunQs /\ Known(Destroyed(x).l, tstate')
           /\ \A y \in RRThreads \ {x} : local[RRHome[y]].current = y
                => Destroyed(x).l[RRHome[y]].current = y
<1> DEFINE d == RRHome[x]
           l == IF local[d].current = x THEN Advance(local, d) ELSE removeThread(local, d, x)
           q == IF d \in queued /\ ~isRunnable(l, d) THEN queue_remove(RunQ) ELSE RunQ
<1>1. Destroyed(x) = [l |-> l, q |-> q]
  BY DEF Destroyed
<1>2. /\ Known(local, tstate) /\ RunQ \in RunQs /\ tstate \in [RRThreads -> TStates] /\ d \in RRDomains
      /\ local \in [RRDomains -> LocalRecs]
  BY RRAssumption DEF RRInv, Known
<1>3. q \in RunQs
  BY <1>2, RunQTypes
<1>5. /\ Known(l, tstate')
      /\ \A y \in RRThreads \ {x} : local[RRHome[y]].current = y => l[RRHome[y]].current = y
  <2>1. CASE local[d].current = x
    <3>1. l = Advance(local, d)
      BY <2>1
    <3>2. Known(Advance(local, d), tstate') /\ \A e \in RRDomains \ {d} : Advance(local, d)[e] = local[e]
      <4>1. /\ \A t \in RRThreads : t # local[d].current => tstate'[t] = tstate[t]
            /\ local[d].current # NULL => tstate'[local[d].current] # "RUNNABLE"
        BY <2>1
      <4> HIDE DEF d, l
      <4> QED BY <1>2, <4>1, KnownAdvance
    <3>3. \A y \in RRThreads \ {x} : local[RRHome[y]].current = y => RRHome[y] \in RRDomains \ {d}
      BY <2>1, RRAssumption
    <3> HIDE DEF l
    <3> QED BY <3>1, <3>2, <3>3
  <2>2. CASE local[d].current # x
    <3>1. l = removeThread(local, d, x)
      BY <2>2
    <3>2. /\ Known(removeThread(local, d, x), tstate')
          /\ \A e \in RRDomains : removeThread(local, d, x)[e].current = local[e].current
      <4>1. x # local[RRHome[x]].current
        BY <2>2
      <4> HIDE DEF l
      <4> QED BY <1>2, <4>1, KnownRemove
    <3>3. \A y \in RRThreads : RRHome[y] \in RRDomains
      BY RRAssumption
    <3> HIDE DEF l
    <3> QED BY <3>1, <3>2, <3>3
  <2> QED BY <2>1, <2>2
<1> HIDE DEF l, q
<1> QED BY <1>1, <1>3, <1>5

\* terminateThread.
LEMMA TerminateThreadInv ==
    ASSUME RRInv, NEW x \in RRThreads, terminateThread(x)
    PROVE  RRInv'
<1>1. /\ curthr # NULL /\ x # curthr /\ tstate' = [tstate EXCEPT ![x] = "FREED"]
      /\ SetRunQ(Destroyed(x).q) /\ local' = Destroyed(x).l /\ curthr' = curthr /\ handler' = handler
  BY DEF terminateThread
<1>2. /\ curthr \in RRThreads /\ local[RRHome[curthr]].current = curthr /\ handler \in MaybeDomain
      /\ tstate \in [RRThreads -> TStates]
  BY <1>1, CurrentFacts
<1>0. /\ tstate' \in [RRThreads -> TStates] /\ tstate'[x] # "RUNNABLE"
      /\ \A t \in RRThreads \ {x} : tstate'[t] = tstate[t]
  BY <1>1, <1>2 DEF TStates
<1>3. /\ Destroyed(x).q \in RunQs /\ Known(Destroyed(x).l, tstate')
      /\ Destroyed(x).l[RRHome[curthr]].current = curthr
  <2>1. curthr \in RRThreads \ {x}
    BY <1>1, <1>2
  <2> QED BY <1>0, <1>2, <2>1, DestroyedFacts
<1>4. RunQ' \in RunQs
  BY <1>1, <1>3, RunQParts
<1>5. RunsCurrent(curthr', local')
  BY <1>1, <1>2, <1>3 DEF RunsCurrent, MaybeThread
<1> QED BY <1>1, <1>2, <1>3, <1>4, <1>5 DEF RRInv

\* destroyCurrentThread.
LEMMA DestroyInv ==
    ASSUME RRInv, RRdestroyCurrentThread
    PROVE  RRInv'
<1>1. /\ curthr # NULL /\ tstate' = [tstate EXCEPT ![curthr] = "ZOMBIE"]
      /\ activateNext(Destroyed(curthr).q, Destroyed(curthr).l, RRHome[curthr]) /\ handler' = handler
  BY DEF RRdestroyCurrentThread
<1>2. /\ curthr \in RRThreads /\ RRHome[curthr] \in MaybeDomain /\ handler \in MaybeDomain
      /\ tstate \in [RRThreads -> TStates]
  BY <1>1, CurrentFacts
<1>0. /\ tstate' \in [RRThreads -> TStates] /\ tstate'[curthr] # "RUNNABLE"
      /\ \A t \in RRThreads \ {curthr} : tstate'[t] = tstate[t]
  BY <1>1, <1>2 DEF TStates
<1>3. Destroyed(curthr).q \in RunQs /\ Known(Destroyed(curthr).l, tstate')
  BY <1>0, <1>2, DestroyedFacts
<1> QED BY <1>1, <1>2, <1>3, ActivateInv

\* Steps that leave the schedulers alone.
LEMMA RRSameInv ==
    ASSUME RRInv, UNCHANGED <<first, last, nextIn, queued, local, tstate, curthr>>,
           handler' \in MaybeDomain
    PROVE  RRInv'
<1>1. RunQ' = RunQ /\ local' = local /\ tstate' = tstate /\ curthr' = curthr
  BY DEF RunQ
<1> QED BY <1>1 DEF RRInv

\* The invariant holds along every run.
LEMMA RRInductive == RRInv /\ [RRNext]_rrVars => RRInv'
<1> SUFFICES ASSUME RRInv, [RRNext]_rrVars PROVE RRInv'
  OBVIOUS
<1>0. handler \in MaybeDomain /\ NULL \in MaybeDomain /\ RRDomains \subseteq MaybeDomain
  BY DEF RRInv, MaybeDomain
<1>1. CASE UNCHANGED rrVars
  BY <1>0, <1>1, RRSameInv DEF rrVars
<1>2. CASE RRSched_block
  BY <1>2, BlockInv
<1>3. CASE Sched_preempted \/ IdleLeaves
  BY <1>3, SwitchInv
<1>4. CASE RRdestroyCurrentThread
  BY <1>4, DestroyInv
<1>5. CASE InterruptEnds
  BY <1>0, <1>5, RRSameInv DEF InterruptEnds
<1>6. CASE \E d \in RRDomains : Interrupt(d)
  BY <1>0, <1>6, RRSameInv DEF Interrupt
<1>7. CASE \E t \in RRThreads : Sched_unblock(t) \/ Handoff(t) \/ terminateThread(t)
  BY <1>7, UnblockInv, HandoffInv, TerminateThreadInv
<1> QED BY <1>1, <1>2, <1>3, <1>4, <1>5, <1>6, <1>7 DEF RRNext

\* No wake-up, handoff, preemption or death loses a thread or queues it twice,
\* for every number of threads and domains: the threads that can run are exactly
\* the current threads of the domains and those in their queues, each once, and
\* the processor runs its domain's current thread (sched_local_rr.c 33-150,
\* sched_global_rr.c 71-108, 253-386, 502-545).
THEOREM RoundRobinKeepsThreads == RRSpec => []RRThreadsKept
<1>1. RRInit => RRInv
  BY RRInitInv
<1>2. RRInv /\ [RRNext]_rrVars => RRInv'
  BY RRInductive
<1>3. RRInv => RRThreadsKept
  <2> SUFFICES ASSUME RRInv PROVE RRThreadsKept
    OBVIOUS
  <2>0. /\ local \in [RRDomains -> LocalRecs] /\ \A d \in RRDomains : LocalOK(d, local[d], tstate)
    BY DEF RRInv, Known
  <2>1. ASSUME NEW t \in RRThreads
        PROVE  LET l == local[RRHome[t]]
                   places == Cardinality({i \in DOMAIN l.queue : l.queue[i] = t})
                               + (IF l.current = t THEN 1 ELSE 0)
               IN places = IF tstate[t] = "RUNNABLE" THEN 1 ELSE 0
    <3> DEFINE l == local[RRHome[t]]
               S == {i \in DOMAIN l.queue : l.queue[i] = t}
    <3>1. LocalOK(RRHome[t], l, tstate)
      BY <2>0, RRAssumption
    <3>2. CASE tstate[t] # "RUNNABLE"
      <4>1. S = {} /\ l.current # t
        BY <3>1, <3>2, RRAssumption DEF LocalOK
      <4> QED BY <3>2, <4>1, FS_EmptySet
    <3>3. CASE tstate[t] = "RUNNABLE" /\ l.current = t
      <4>1. S = {}
        BY <3>1, <3>3 DEF LocalOK
      <4> QED BY <3>3, <4>1, FS_EmptySet
    <3>4. CASE tstate[t] = "RUNNABLE" /\ l.current # t
      <4>1. PICK k \in DOMAIN l.queue : l.queue[k] = t
        BY <3>1, <3>4 DEF LocalOK
      <4>2. S = {k}
        BY <3>1, <4>1 DEF LocalOK
      <4>3. Cardinality({k}) = 1
        BY FS_Singleton
      <4> QED BY <3>4, <4>2, <4>3
    <3> QED BY <3>2, <3>3, <3>4
  <2>2. \A d \in RRDomains : \A t \in ToSet(local[d].queue) : RRHome[t] = d
    BY <2>0 DEF LocalOK, ToSet
  <2>3. curthr # NULL => local[RRHome[curthr]].current = curthr /\ tstate[curthr] = "RUNNABLE"
    BY CurrentFacts
  <2> QED BY <2>1, <2>2, <2>3 DEF RRThreadsKept
<1> QED BY <1>1, <1>2, <1>3, PTL DEF RRSpec
-----------------------------------------------------------------------------
(* Binary transmission: the packages and their acknowledgements            *)

Packages == [seq : Int, data : Seq(Bytes), plain : BOOLEAN]

LinkTyped ==
    /\ bdtSeqNum \in Nat /\ expected \in Nat
    /\ package \in Packages /\ line \in Seq(Packages)
    /\ acks \in Seq(Int) /\ ackBuf \in [1..3 -> Int] /\ ackPos \in 0..2
    /\ received \in Seq(Seq(Bytes)) /\ sent \in Seq(Seq(Bytes))

\* The number of the package under way, and what it carries.
Counts ==
    /\ bdtSeqNum = FirstSeq + Len(sent) /\ expected = FirstSeq + Len(received)
    /\ Sending => /\ Len(sent) > 0 /\ package.seq = (bdtSeqNum - 1) % 256
                  /\ package.data = sent[Len(sent)]

\* The bytes of an acknowledgement of package k, and what is in the ring before
\* the first is read.
Nums(k) == IF k < FirstSeq THEN {0} ELSE {0, 65, k % 256, 255 - (k % 256)}

\* What the sender has read last and what it will read, oldest first.
StreamLen == 3 + Len(acks)
Stream(i) == IF i <= 3 THEN ackBuf[((ackPos + (i - 1)) % 3) + 1] ELSE acks[i - 3]

\* Nothing is being sent: all that is under way belongs to the last package.
Quiet ==
    /\ received = sent
    /\ \A i \in 1..StreamLen : Stream(i) \in Nums(bdtSeqNum - 1)
    /\ \A i \in 1..Len(line) : line[i].seq = (bdtSeqNum - 1) % 256 /\ bdtSeqNum > FirstSeq

\* The package was not taken yet: repetitions of the one before it are ahead of
\* it on the line, and every acknowledgement under way is of that one.
Waiting ==
    /\ Len(sent) = Len(received) + 1 /\ \A i \in 1..Len(received) : received[i] = sent[i]
    /\ \A i \in 1..StreamLen : Stream(i) \in Nums(bdtSeqNum - 2)
    /\ \E m \in 0..Len(line) :
         /\ \A i \in 1..m : line[i].seq = (bdtSeqNum - 2) % 256 /\ bdtSeqNum - 1 > FirstSeq
         /\ \A i \in (m + 1)..Len(line) : line[i] = package

\* The package was taken: its acknowledgements follow those of the one before.
Taken ==
    /\ received = sent
    /\ \E j \in 0..StreamLen : /\ \A i \in 1..j : Stream(i) \in Nums(bdtSeqNum - 2)
                               /\ \A i \in (j + 1)..StreamLen : Stream(i) \in Nums(bdtSeqNum - 1)
    /\ \A i \in 1..Len(line) : line[i].seq = (bdtSeqNum - 1) % 256

Delivery == IF Sending THEN Waiting \/ Taken ELSE Quiet

LinkInv == LinkTyped /\ Counts /\ (NoTurn => Delivery)

\* Bytes of acknowledgements of the package before k are never read as one of k,
\* except at the numbers NoTurn leaves out.
LEMMA AckFresh ==
    ASSUME NEW k \in Nat, k >= FirstSeq, k > FirstSeq => k % 128 # 0,
           NEW a \in Nums(k - 1), NEW b \in Nums(k - 1), a = k % 256, b = 255 - (k % 256)
    PROVE  FALSE
<1>1. FirstSeq \in Nat
  BY BdtAssumption
<1>2. CASE k = FirstSeq
  BY <1>1, <1>2 DEF Nums
<1>3. CASE k > FirstSeq
  <2>1. a \in {0, 65, (k - 1) % 256, 255 - ((k - 1) % 256)} /\ b \in {0, 65, (k - 1) % 256, 255 - ((k - 1) % 256)}
    BY <1>1, <1>3 DEF Nums
  <2>2. k % 128 # 0
    BY <1>3
  <2> QED BY <2>1, <2>2
<1> QED BY <1>1, <1>2, <1>3

\* bdtAck moves the stream on by a byte.
LEMMA StreamRead ==
    ASSUME LinkTyped, bdtAck
    PROVE  /\ StreamLen' = StreamLen - 1 /\ StreamLen' >= 3 /\ StreamLen' \in Nat
           /\ \A i \in 1..StreamLen' : i + 1 \in 1..StreamLen /\ Stream(i)' = Stream(i + 1)
<1>1. /\ acks \in Seq(Int) /\ acks # << >> /\ acks' = Tail(acks) /\ ackBuf \in [1..3 -> Int] /\ ackPos \in 0..2
      /\ ackBuf' = [ackBuf EXCEPT ![ackPos + 1] = Head(acks)] /\ ackPos' = (ackPos + 1) % 3
  BY DEF LinkTyped, bdtAck
<1>2. /\ Len(acks) \in Nat /\ Len(acks) > 0 /\ Len(acks') = Len(acks) - 1 /\ Head(acks) = acks[1]
      /\ \A i \in 1..(Len(acks) - 1) : acks'[i] = acks[i + 1]
  BY <1>1
<1>3. /\ ackPos = 0 => ackPos' = 1 /\ ackBuf'[1] = acks[1] /\ ackBuf'[2] = ackBuf[2] /\ ackBuf'[3] = ackBuf[3]
      /\ ackPos = 1 => ackPos' = 2 /\ ackBuf'[2] = acks[1] /\ ackBuf'[1] = ackBuf[1] /\ ackBuf'[3] = ackBuf[3]
      /\ ackPos = 2 => ackPos' = 0 /\ ackBuf'[3] = acks[1] /\ ackBuf'[2] = ackBuf[2] /\ ackBuf'[1] = ackBuf[1]
      /\ ackPos \in {0, 1, 2}
  BY <1>1, <1>2
<1>4. StreamLen' = StreamLen - 1 /\ StreamLen' >= 3 /\ StreamLen' \in Nat /\ StreamLen = 3 + Len(acks)
  BY <1>2 DEF StreamLen
<1>5. ASSUME NEW i \in 1..StreamLen' PROVE i + 1 \in 1..StreamLen /\ Stream(i)' = Stream(i + 1)
  <2>1. i \in Int /\ i >= 1 /\ i <= StreamLen - 1 /\ i + 1 \in 1..StreamLen
    BY <1>2, <1>4
  <2>2. CASE i > 3
    <3>1. i - 3 \in 1..(Len(acks) - 1) /\ (i + 1) - 3 = (i - 3) + 1
      BY <1>2, <1>4, <2>1, <2>2
    <3>2. acks'[i - 3] = acks[(i + 1) - 3]
      BY <1>2, <3>1
    <3> QED BY <2>1, <2>2, <3>2 DEF Stream
  <2>3. CASE i = 3
    BY <1>3, <2>1, <2>3 DEF Stream
  <2>4. CASE i = 2
    BY <1>3, <2>1, <2>4 DEF Stream
  <2>5. CASE i = 1
    BY <1>3, <2>1, <2>5 DEF Stream
  <2> QED BY <2>1, <2>2, <2>3, <2>4, <2>5
<1> QED BY <1>4, <1>5

\* An acknowledgement adds its three bytes to the end of the stream.
LEMMA StreamGrows ==
    ASSUME LinkTyped, NEW a \in Int, NEW b \in Int, acks' = acks \o <<65, a, b>>, UNCHANGED <<ackBuf, ackPos>>
    PROVE  /\ StreamLen \in Nat /\ StreamLen' = StreamLen + 3
           /\ \A i \in 1..StreamLen : Stream(i)' = Stream(i)
           /\ \A i \in (StreamLen + 1)..StreamLen' : Stream(i)' \in {65, a, b}
<1>1. acks \in Seq(Int) /\ Len(acks) \in Nat
  BY DEF LinkTyped
<1>2. /\ Len(acks') = Len(acks) + 3
      /\ \A i \in 1..Len(acks) : acks'[i] = acks[i]
      /\ acks'[Len(acks) + 1] = 65 /\ acks'[Len(acks) + 2] = a /\ acks'[Len(acks) + 3] = b
  <2>1. <<65, a, b>> \in Seq(Int) /\ Len(<<65, a, b>>) = 3
    OBVIOUS
  <2>2. Len(acks') = Len(acks) + 3 /\ \A i \in 1..Len(acks) : acks'[i] = acks[i]
    BY <1>1, <2>1
  <2>3. \A i \in 1..3 : acks'[Len(acks) + i] = <<65, a, b>>[i]
    BY <1>1, <2>1
  <2> QED BY <1>1, <2>2, <2>3
<1>3. StreamLen = 3 + Len(acks) /\ StreamLen' = StreamLen + 3 /\ StreamLen \in Nat
  BY <1>1, <1>2 DEF StreamLen
<1>4. ASSUME NEW i \in 1..StreamLen PROVE Stream(i)' = Stream(i)
  <2>1. CASE i <= 3
    BY <2>1 DEF Stream
  <2>2. CASE i > 3
    <3>1. i - 3 \in 1..Len(acks)
      BY <1>1, <1>3, <2>2
    <3> QED BY <1>2, <2>2, <3>1 DEF Stream
  <2> QED BY <1>3, <2>1, <2>2
<1>5. ASSUME NEW i \in (StreamLen + 1)..StreamLen' PROVE Stream(i)' \in {65, a, b}
  <2>1. i > 3 /\ i - 3 \in {Len(acks) + 1, Len(acks) + 2, Len(acks) + 3}
    <3>1. PICK n \in Nat : n = Len(acks)
      BY <1>1
    <3>2. StreamLen = 3 + n /\ StreamLen' = n + 6
      BY <1>3, <3>1
    <3>3. i \in (n + 4)..(n + 6)
      BY <3>2
    <3>4. i > 3 /\ i - 3 \in {n + 1, n + 2, n + 3}
      BY <3>3
    <3> QED BY <3>1, <3>4
  <2>2. acks'[i - 3] \in {65, a, b}
    BY <1>2, <2>1
  <2>3. Stream(i)' = acks'[i - 3]
    BY <1>3, <2>1 DEF Stream
  <2> QED BY <2>2, <2>3
<1> QED BY <1>3, <1>4, <1>5

\* A lost byte is missing from the stream.
LEMMA StreamLoses ==
    ASSUME LinkTyped, NEW q \in DOMAIN acks, acks' = RemoveAt(acks, q), UNCHANGED <<ackBuf, ackPos>>
    PROVE  /\ StreamLen \in Nat /\ StreamLen' = StreamLen - 1 /\ q \in Nat /\ q + 3 <= StreamLen
           /\ \A i \in 1..StreamLen' : Stream(i)' = IF i < q + 3 THEN Stream(i) ELSE Stream(i + 1)
           /\ acks' \in Seq(Int)
<1>1. acks \in Seq(Int) /\ Len(acks) \in Nat /\ q \in 1..Len(acks)
  BY DEF LinkTyped
<1>2. PICK u, v \in Seq(Int) :
         /\ acks' = u \o v /\ Len(u) = q - 1 /\ Len(v) = Len(acks) - q
         /\ \A i \in 1..(q - 1) : u[i] = acks[i]
         /\ \A i \in 1..(Len(acks) - q) : v[i] = acks[q + i]
  <2> DEFINE x == SubSeq(acks, 1, q - 1)
             y == SubSeq(acks, q + 1, Len(acks))
  <2>1. acks' = x \o y
    BY DEF RemoveAt
  <2>2. x \in Seq(Int) /\ Len(x) = q - 1 /\ \A i \in 1..(q - 1) : x[i] = acks[i]
    BY <1>1
  <2>3. y \in Seq(Int) /\ Len(y) = Len(acks) - q /\ \A i \in 1..(Len(acks) - q) : y[i] = acks[q + i]
    BY <1>1
  <2> QED BY <2>1, <2>2, <2>3
<1>3. /\ acks' \in Seq(Int) /\ Len(acks') = Len(acks) - 1
      /\ \A i \in 1..(Len(acks) - 1) : acks'[i] = IF i < q THEN acks[i] ELSE acks[i + 1]
  <2>1. acks' \in Seq(Int) /\ Len(acks') = Len(acks) - 1
    BY <1>1, <1>2
  <2>2. ASSUME NEW i \in 1..(Len(acks) - 1) PROVE acks'[i] = IF i < q THEN acks[i] ELSE acks[i + 1]
    <3>1. PICK n \in Nat : n = Len(acks)
      BY <1>1
    <3>0. q \in Nat /\ q >= 1 /\ q <= n /\ i \in Nat /\ i >= 1 /\ i <= n - 1
      BY <1>1, <3>1
    <3>2. Len(u) = q - 1 /\ Len(v) = n - q /\ i \in 1..(Len(u) + Len(v))
      BY <1>2, <3>0, <3>1
    <3>3. (u \o v)[i] = IF i <= Len(u) THEN u[i] ELSE v[i - Len(u)]
      BY <3>2, ConcatProperties
    <3>4. CASE i < q
      <4>1. i <= Len(u) /\ i \in 1..(q - 1)
        BY <3>0, <3>2, <3>4
      <4> QED BY <1>2, <3>3, <3>4, <4>1
    <3>5. CASE ~(i < q)
      <4>1. ~(i <= q - 1) /\ i - (q - 1) \in 1..(n - q) /\ q + (i - (q - 1)) = i + 1
        BY <3>0, <3>5
      <4>2. (u \o v)[i] = v[i - (q - 1)]
        BY <3>2, <3>3, <4>1
      <4>3. v[i - (q - 1)] = acks[i + 1]
        BY <1>2, <3>1, <4>1
      <4> QED BY <1>2, <3>5, <4>2, <4>3
    <3> QED BY <3>4, <3>5
  <2> QED BY <2>1, <2>2
<1>4. StreamLen = 3 + Len(acks) /\ StreamLen' = StreamLen - 1 /\ StreamLen \in Nat /\ q + 3 <= StreamLen
  BY <1>1, <1>3 DEF StreamLen
<1>5. ASSUME NEW i \in 1..StreamLen' PROVE Stream(i)' = IF i < q + 3 THEN Stream(i) ELSE Stream(i + 1)
  <2>1. CASE i <= 3
    BY <1>1, <2>1 DEF Stream
  <2>2. CASE i > 3
    <3>1. i - 3 \in 1..(Len(acks) - 1) /\ (i + 1) - 3 = (i - 3) + 1 /\ i + 1 > 3
      BY <1>1, <1>4, <2>2
    <3>2. acks'[i - 3] = IF i - 3 < q THEN acks[i - 3] ELSE acks[(i - 3) + 1]
      BY <1>3, <3>1
    <3>3. Stream(i)' = acks'[i - 3] /\ Stream(i) = acks[i - 3] /\ Stream(i + 1) = acks[(i - 3) + 1]
      BY <2>2, <3>1, <1>4 DEF Stream
    <3>4. (i - 3 < q) <=> (i < q + 3)
      BY <1>1, <3>1, <1>4
    <3> QED BY <3>2, <3>3, <3>4
  <2> QED BY <1>4, <2>1, <2>2
<1> QED BY <1>1, <1>3, <1>4, <1>5

\* What a step of the sender does to the line: nothing, or it has a package.
Stays == UNCHANGED <<package, bdtSeqNum, sent>> /\ Unchanged
Sends(d, p) ==
    /\ ~Sending /\ Unchanged
    /\ package' = [seq |-> bdtSeqNum % 256, data |-> d, plain |-> p]
    /\ bdtSeqNum' = bdtSeqNum + 1 /\ sent' = Append(sent, d)

\* One less in a range that is one shorter.
LEMMA OneLess ==
    ASSUME NEW s \in Nat, NEW j \in 0..(s + 1), j > 0
    PROVE  j - 1 \in 0..s
OBVIOUS

\* A longer range of numbers holds the shorter one.
LEMMA WiderRange ==
    ASSUME NEW f \in Nat, NEW n \in Nat, NEW w \in Nat, n <= w, NEW k \in (f + 1)..(n - 1)
    PROVE  k \in (f + 1)..(w - 1)
OBVIOUS

\* Numbers grow, so a transmission that has not come to the turn had not before.
LEMMA TurnStays ==
    ASSUME bdtSeqNum \in Nat, bdtSeqNum' \in Nat, bdtSeqNum <= bdtSeqNum', NoTurn'
    PROVE  NoTurn
<1>1. FirstSeq \in Nat
  BY BdtAssumption
<1>2. \A k \in (FirstSeq + 1)..(bdtSeqNum' - 1) : k % 128 # 0
  BY DEF NoTurn
<1>3. ASSUME NEW k \in (FirstSeq + 1)..(bdtSeqNum - 1) PROVE k \in (FirstSeq + 1)..(bdtSeqNum' - 1)
  BY <1>1, WiderRange
<1> QED BY <1>2, <1>3 DEF NoTurn

\* Nothing read and nothing added.
LEMMA StreamSame ==
    ASSUME UNCHANGED <<acks, ackBuf, ackPos>>
    PROVE  StreamLen' = StreamLen /\ \A i : Stream(i)' = Stream(i)
BY DEF StreamLen, Stream

\* Nothing is under way at the beginning.
LEMMA LinkInit ==
    ASSUME BdtInit
    PROVE  LinkInv
<1>0. FirstSeq \in Nat
  BY BdtAssumption
<1>1. /\ bdtSeqNum = FirstSeq /\ package = NoPackage /\ line = << >> /\ acks = << >> /\ ackBuf = <<0, 0, 0>>
      /\ ackPos = 0 /\ received = << >> /\ expected = FirstSeq /\ sent = << >>
  BY DEF BdtInit
<1>2. ackBuf \in [1..3 -> Int] /\ ackBuf[1] = 0 /\ ackBuf[2] = 0 /\ ackBuf[3] = 0
  BY <1>1
<1>3. NoPackage \in Packages
  BY DEF NoPackage, Packages
<1>4. LinkTyped
  BY <1>0, <1>1, <1>2, <1>3 DEF LinkTyped
<1>5. Counts
  BY <1>0, <1>1 DEF Counts, Sending
<1>6. Quiet
  <2>1. StreamLen = 3
    BY <1>1 DEF StreamLen
  <2>2. Stream(1) = 0 /\ Stream(2) = 0 /\ Stream(3) = 0
    BY <1>1, <1>2 DEF Stream
  <2>3. 0 \in Nums(bdtSeqNum - 1)
    BY DEF Nums
  <2>4. \A i \in 1..StreamLen : i \in {1, 2, 3}
    BY <2>1
  <2>5. Len(line) = 0
    BY <1>1
  <2> QED BY <1>1, <2>2, <2>3, <2>4, <2>5 DEF Quiet
<1> QED BY <1>1, <1>4, <1>5, <1>6 DEF LinkInv, Delivery, Sending

\* A step of the sender on its buffer only.
LEMMA LinkStays ==
    ASSUME LinkInv, Stays
    PROVE  LinkInv'
<1>1. UNCHANGED <<package, bdtSeqNum, sent, line, acks, ackBuf, ackPos, received, expected>>
  BY DEF Stays, Unchanged
<1>2. StreamLen' = StreamLen /\ \A i : Stream(i)' = Stream(i)
  BY <1>1, StreamSame
<1>3. LinkTyped' /\ Counts' /\ (NoTurn' => NoTurn)
  BY <1>1 DEF LinkInv, LinkTyped, Counts, NoTurn, Sending
<1>4. Delivery => Delivery'
  BY <1>1, <1>2 DEF Delivery, Sending, Quiet, Waiting, Taken
<1> QED BY <1>3, <1>4 DEF LinkInv

\* A package gets the next number: what is under way is of the one before it.
LEMMA LinkSends ==
    ASSUME LinkInv, NEW d \in Seq(Bytes), NEW p \in BOOLEAN, Sends(d, p)
    PROVE  LinkInv'
<1>1. /\ UNCHANGED <<line, acks, ackBuf, ackPos, received, expected>> /\ ~Sending
      /\ package' = [seq |-> bdtSeqNum % 256, data |-> d, plain |-> p]
      /\ bdtSeqNum' = bdtSeqNum + 1 /\ sent' = Append(sent, d)
  BY DEF Sends, Unchanged
<1>2. LinkTyped /\ Counts /\ (NoTurn => Quiet) /\ FirstSeq \in Nat
  BY <1>1, BdtAssumption DEF LinkInv, Delivery
<1>3. /\ sent \in Seq(Seq(Bytes)) /\ received \in Seq(Seq(Bytes)) /\ line \in Seq(Packages) /\ bdtSeqNum \in Nat
      /\ bdtSeqNum % 256 \in Int /\ bdtSeqNum % 256 >= 0
      /\ Len(sent) \in Nat /\ Len(line) \in Nat /\ Len(received) \in Nat
      /\ bdtSeqNum = FirstSeq + Len(sent) /\ expected = FirstSeq + Len(received)
  BY <1>2 DEF LinkTyped, Counts
<1>4. package'.seq = bdtSeqNum % 256 /\ package'.data = d /\ package' \in Packages /\ package' # NoPackage
  <2>1. package'.seq = bdtSeqNum % 256 /\ package'.data = d
    BY <1>1
  <2>2. package' \in Packages
    BY <1>1, <1>3 DEF Packages
  <2>3. NoPackage.seq = -1
    BY DEF NoPackage
  <2> QED BY <1>3, <2>1, <2>2, <2>3
<1>5. /\ sent' \in Seq(Seq(Bytes)) /\ Len(sent') = Len(sent) + 1 /\ sent'[Len(sent) + 1] = d
      /\ \A i \in 1..Len(sent) : sent'[i] = sent[i]
  BY <1>1, <1>3
<1>6. LinkTyped'
  BY <1>1, <1>2, <1>3, <1>4, <1>5 DEF LinkTyped
<1>7. Counts'
  <2>1. bdtSeqNum' - 1 = bdtSeqNum /\ bdtSeqNum' = FirstSeq + Len(sent') /\ Len(sent') > 0
    BY <1>1, <1>2, <1>3, <1>5
  <2>2. package'.seq = (bdtSeqNum' - 1) % 256 /\ package'.data = sent'[Len(sent')]
    BY <1>4, <1>5, <2>1
  <2> QED BY <1>1, <1>3, <2>1, <2>2 DEF Counts
<1>8. Sending'
  BY <1>4 DEF Sending
<1>9. ASSUME NoTurn' PROVE Waiting'
  <2>1. Quiet
    <3>1. bdtSeqNum' \in Nat /\ bdtSeqNum <= bdtSeqNum'
      BY <1>1, <1>3
    <3> QED BY <1>2, <1>3, <1>9, <3>1, TurnStays
  <2>2. bdtSeqNum' - 2 = bdtSeqNum - 1
    BY <1>1, <1>3
  <2>3. StreamLen' = StreamLen /\ \A i : Stream(i)' = Stream(i)
    BY <1>1, StreamSame
  <2>4. \A i \in 1..StreamLen' : Stream(i)' \in Nums(bdtSeqNum' - 2)
    BY <2>1, <2>2, <2>3 DEF Quiet
  <2>5. Len(sent') = Len(received') + 1 /\ \A i \in 1..Len(received') : received'[i] = sent'[i]
    BY <1>1, <1>3, <1>5, <2>1 DEF Quiet
  <2>6. /\ \A i \in 1..Len(line) : line[i].seq = (bdtSeqNum' - 2) % 256 /\ bdtSeqNum' - 1 > FirstSeq
        /\ Len(line) \in 0..Len(line') /\ \A i \in (Len(line) + 1)..Len(line') : FALSE
    <3>1. \A i \in 1..Len(line) : line[i].seq = (bdtSeqNum - 1) % 256 /\ bdtSeqNum > FirstSeq
      BY <2>1 DEF Quiet
    <3>2. line' = line /\ bdtSeqNum' - 1 = bdtSeqNum
      BY <1>1, <1>3
    <3>3. Len(line) \in 0..Len(line) /\ \A i \in (Len(line) + 1)..Len(line) : FALSE
      BY <1>3
    <3> QED BY <2>2, <3>1, <3>2, <3>3
  <2> QED BY <1>1, <2>4, <2>5, <2>6 DEF Waiting
<1> QED BY <1>6, <1>7, <1>8, <1>9 DEF LinkInv, Delivery

\* The facts about types and lengths that the steps of the line use.
LEMMA LinkFacts ==
    ASSUME LinkInv
    PROVE  /\ bdtSeqNum \in Nat /\ expected \in Nat /\ FirstSeq \in Nat
           /\ package \in Packages /\ line \in Seq(Packages)
           /\ Len(line) \in Nat /\ Len(sent) \in Nat /\ Len(received) \in Nat
           /\ received \in Seq(Seq(Bytes)) /\ sent \in Seq(Seq(Bytes))
           /\ bdtSeqNum = FirstSeq + Len(sent) /\ expected = FirstSeq + Len(received)
<1>1. FirstSeq \in Nat
  BY BdtAssumption
<1>2. LinkTyped /\ Counts
  BY DEF LinkInv
<1> QED BY <1>1, <1>2 DEF LinkTyped, Counts

\* The package is sent again.
LEMMA LinkSendPackage ==
    ASSUME LinkInv, SendPackage
    PROVE  LinkInv'
<1>1. /\ Sending /\ line' = Append(line, package)
      /\ UNCHANGED <<bdtSeqNum, package, acks, ackBuf, ackPos, received, expected, sent>>
  BY DEF SendPackage
<1>2. /\ package \in Packages /\ line \in Seq(Packages) /\ Len(line) \in Nat
      /\ package.seq = (bdtSeqNum - 1) % 256
  BY <1>1, LinkFacts DEF LinkInv, Counts
<1>3. /\ line' \in Seq(Packages) /\ Len(line') = Len(line) + 1 /\ line'[Len(line) + 1] = package
      /\ \A i \in 1..Len(line) : line'[i] = line[i]
  BY <1>1, <1>2
<1>4. LinkTyped' /\ Counts' /\ (NoTurn' => NoTurn) /\ Sending'
  BY <1>1, <1>3 DEF LinkInv, LinkTyped, Counts, NoTurn, Sending
<1>5. StreamLen' = StreamLen /\ \A i : Stream(i)' = Stream(i)
  BY <1>1, StreamSame
<1>6. \A i \in 1..Len(line') : i \in 1..Len(line) \/ i = Len(line) + 1
  BY <1>2, <1>3
<1>7. ASSUME Taken PROVE Taken'
  <2>1. received' = sent'
    BY <1>1, <1>7 DEF Taken
  <2>2. \A i \in 1..Len(line') : line'[i].seq = (bdtSeqNum' - 1) % 256
    BY <1>1, <1>2, <1>3, <1>6, <1>7 DEF Taken
  <2>3. \E j \in 0..StreamLen' : /\ \A i \in 1..j : Stream(i)' \in Nums(bdtSeqNum' - 2)
                                 /\ \A i \in (j + 1)..StreamLen' : Stream(i)' \in Nums(bdtSeqNum' - 1)
    BY <1>1, <1>5, <1>7 DEF Taken
  <2> QED BY <2>1, <2>2, <2>3 DEF Taken
<1>8. ASSUME Waiting PROVE Waiting'
  <2>1. PICK m \in 0..Len(line) :
           /\ \A i \in 1..m : line[i].seq = (bdtSeqNum - 2) % 256 /\ bdtSeqNum - 1 > FirstSeq
           /\ \A i \in (m + 1)..Len(line) : line[i] = package
    BY <1>8 DEF Waiting
  <2>2. m \in 0..Len(line') /\ \A i \in 1..m : i \in 1..Len(line)
    BY <1>2, <1>3
  <2>3. \A i \in (m + 1)..Len(line') : i \in (m + 1)..Len(line) \/ i = Len(line) + 1
    BY <1>2, <1>3
  <2>4. \A i \in 1..m : line'[i].seq = (bdtSeqNum' - 2) % 256 /\ bdtSeqNum' - 1 > FirstSeq
    BY <1>1, <1>3, <2>1, <2>2
  <2>5. \A i \in (m + 1)..Len(line') : line'[i] = package'
    <3>1. \A i \in (m + 1)..Len(line) : i \in 1..Len(line)
      BY <1>2
    <3> QED BY <1>1, <1>3, <2>1, <2>3, <3>1
  <2>6. Len(sent') = Len(received') + 1 /\ \A i \in 1..Len(received') : received'[i] = sent'[i]
    BY <1>1, <1>8 DEF Waiting
  <2>7. \A i \in 1..StreamLen' : Stream(i)' \in Nums(bdtSeqNum' - 2)
    BY <1>1, <1>5, <1>8 DEF Waiting
  <2> QED BY <2>2, <2>4, <2>5, <2>6, <2>7 DEF Waiting
<1> QED BY <1>1, <1>4, <1>7, <1>8 DEF LinkInv, Delivery

\* The sender reads a byte: it takes an acknowledgement only of a package that
\* was taken, and everything behind the acknowledgement is of that package.
LEMMA LinkAck ==
    ASSUME LinkInv, bdtAck
    PROVE  LinkInv'
<1> DEFINE n == bdtSeqNum
           k == n - 1
           Match == AckMatches(ackBuf', ackPos', package.seq)
<1>1. /\ Sending /\ acks # << >> /\ acks' = Tail(acks) /\ package' = IF Match THEN NoPackage ELSE package
      /\ ackBuf' = [ackBuf EXCEPT ![ackPos + 1] = Head(acks)] /\ ackPos' = (ackPos + 1) % 3
      /\ UNCHANGED <<bdtSeqNum, line, received, expected, sent>>
  BY DEF bdtAck
<1>2. LinkTyped /\ Counts /\ (NoTurn => Waiting \/ Taken)
  BY <1>1 DEF LinkInv, Delivery
<1>3. /\ StreamLen' = StreamLen - 1 /\ StreamLen' >= 3 /\ StreamLen' \in Nat
      /\ \A i \in 1..StreamLen' : i + 1 \in 1..StreamLen /\ Stream(i)' = Stream(i + 1)
  BY <1>2, StreamRead
<1>4. /\ n \in Nat /\ FirstSeq \in Nat /\ k >= FirstSeq /\ k \in Nat /\ package.seq = k % 256
      /\ n > FirstSeq
  <2>1. Len(sent) > 0 /\ package.seq = (bdtSeqNum - 1) % 256
    BY <1>1, <1>2 DEF Counts
  <2> QED BY <2>1, LinkFacts
<1>5. LinkTyped'
  <2>1. acks \in Seq(Int) /\ ackBuf \in [1..3 -> Int] /\ ackPos \in 0..2 /\ package \in Packages
    BY <1>2 DEF LinkTyped
  <2>2. acks' \in Seq(Int) /\ Head(acks) \in Int /\ ackPos' \in 0..2
    BY <1>1, <2>1
  <2>3. ackBuf' \in [1..3 -> Int]
    BY <1>1, <2>1, <2>2
  <2>4. package' \in Packages
    BY <1>1, <2>1 DEF NoPackage, Packages
  <2> QED BY <1>1, <1>2, <2>2, <2>3, <2>4 DEF LinkTyped
<1>6. Counts'
  BY <1>1, <1>2 DEF Counts, Sending
<1>7. Match <=> Stream(1)' = 65 /\ Stream(2)' = k % 256 /\ Stream(3)' = 255 - (k % 256)
  <2>1. ackPos' \in 0..2
    BY <1>5 DEF LinkTyped
  <2>2. /\ Stream(1)' = ackBuf'[(ackPos' % 3) + 1] /\ Stream(2)' = ackBuf'[((ackPos' + 1) % 3) + 1]
        /\ Stream(3)' = ackBuf'[((ackPos' + 2) % 3) + 1]
    BY <2>1 DEF Stream
  <2> QED BY <1>4, <2>2 DEF AckMatches, Complement
<1> HIDE DEF Match
<1>8. ASSUME NoTurn, Waiting PROVE ~Match /\ Waiting'
  <2>1. n - 2 = k - 1 /\ (k > FirstSeq => k % 128 # 0)
    <3>1. k > FirstSeq => k \in (FirstSeq + 1)..(bdtSeqNum - 1)
      BY <1>4
    <3> QED BY <1>4, <1>8, <3>1 DEF NoTurn
  <2>2. \A i \in 1..StreamLen' : Stream(i)' \in Nums(k - 1)
    BY <1>3, <1>8, <2>1 DEF Waiting
  <2>3. Stream(2)' \in Nums(k - 1) /\ Stream(3)' \in Nums(k - 1)
    <3>1. 2 \in 1..StreamLen' /\ 3 \in 1..StreamLen'
      BY <1>3
    <3> QED BY <2>2, <3>1
  <2>4. ~Match
    <3> SUFFICES ASSUME Match PROVE FALSE
      OBVIOUS
    <3>1. Stream(2)' = k % 256 /\ Stream(3)' = 255 - (k % 256)
      BY <1>7
    <3> QED BY <1>4, <2>1, <2>3, <3>1, AckFresh
  <2>5. bdtSeqNum' - 2 = k - 1 /\ package' = package
    BY <1>1, <2>1, <2>4
  <2> HIDE DEF n, k
  <2> QED BY <1>1, <1>8, <2>2, <2>4, <2>5 DEF Waiting
<1>9. ASSUME NoTurn, Taken PROVE IF Match THEN Quiet' ELSE Taken'
  <2>1. n - 2 = k - 1 /\ (k > FirstSeq => k % 128 # 0)
    <3>1. k > FirstSeq => k \in (FirstSeq + 1)..(bdtSeqNum - 1)
      BY <1>4
    <3> QED BY <1>4, <1>9, <3>1 DEF NoTurn
  <2>2. PICK j \in 0..StreamLen : /\ \A i \in 1..j : Stream(i) \in Nums(k - 1)
                                  /\ \A i \in (j + 1)..StreamLen : Stream(i) \in Nums(k)
    BY <1>9, <2>1 DEF Taken
  <2>3. PICK h \in 0..StreamLen' : (j = 0 /\ h = 0) \/ (j > 0 /\ h = j - 1)
    <3>1. 0 \in 0..StreamLen' /\ j \in Nat
      BY <1>3
    <3>2. ASSUME j > 0 PROVE j - 1 \in 0..StreamLen'
      <4>1. PICK s \in Nat : s = StreamLen' /\ StreamLen = s + 1
        BY <1>3, LinkFacts, <1>2 DEF StreamLen, LinkTyped
      <4>2. j \in 0..(s + 1)
        BY <4>1
      <4>3. j - 1 \in 0..s
        BY <3>2, <4>2, OneLess
      <4> QED BY <4>1, <4>3
    <3> QED BY <3>1, <3>2
  <2>4. ASSUME NEW i \in 1..h PROVE Stream(i)' \in Nums(k - 1)
    <3>1. i \in 1..StreamLen' /\ i + 1 \in 1..j
      BY <1>3, <2>3
    <3> QED BY <1>3, <2>2, <3>1
  <2>5. ASSUME NEW i \in (h + 1)..StreamLen' PROVE Stream(i)' \in Nums(k)
    <3>1. i \in 1..StreamLen' /\ i + 1 \in (j + 1)..StreamLen
      BY <1>3, <2>3
    <3> QED BY <1>3, <2>2, <3>1
  <2>6. bdtSeqNum' - 2 = k - 1 /\ bdtSeqNum' - 1 = k /\ bdtSeqNum' > FirstSeq
    BY <1>1, <1>4
  <2>7. ASSUME ~Match PROVE Taken'
    <3> HIDE DEF n, k
    <3> QED BY <1>1, <1>9, <2>1, <2>4, <2>5, <2>6 DEF Taken
  <2>8. ASSUME Match PROVE Quiet'
    <3>1. h < 3
      <4> SUFFICES ASSUME h >= 3 PROVE FALSE
        BY <2>3, <1>3
      <4>1. 2 \in 1..h /\ 3 \in 1..h
        BY <2>3, <1>3
      <4>2. Stream(2)' \in Nums(k - 1) /\ Stream(3)' \in Nums(k - 1)
        BY <2>4, <4>1
      <4> QED BY <1>4, <1>7, <2>1, <2>8, <4>2, AckFresh
    <3>2. Stream(1)' \in Nums(k) /\ Stream(2)' \in Nums(k) /\ Stream(3)' \in Nums(k)
      <4>1. Nums(k) = {0, 65, k % 256, 255 - (k % 256)}
        BY <1>4 DEF Nums
      <4> QED BY <1>7, <2>8, <4>1
    <3>3. ASSUME NEW i \in 1..StreamLen' PROVE Stream(i)' \in Nums(k)
      <4>1. i = 1 \/ i = 2 \/ i = 3 \/ i \in (h + 1)..StreamLen'
        BY <1>3, <2>3, <3>1
      <4> QED BY <2>5, <3>2, <4>1
    <3>4. received' = sent' /\ \A i \in 1..Len(line') : line'[i].seq = (bdtSeqNum' - 1) % 256
      BY <1>1, <1>9 DEF Taken
    <3> QED BY <2>6, <3>3, <3>4 DEF Quiet
  <2> QED BY <2>7, <2>8
<1>10. NoTurn' => Delivery'
  <2> SUFFICES ASSUME NoTurn' PROVE Delivery'
    OBVIOUS
  <2>1. NoTurn
    BY <1>1 DEF NoTurn
  <2>2. Sending' <=> ~Match
    BY <1>1 DEF Sending
  <2> QED BY <1>2, <1>8, <1>9, <2>1, <2>2 DEF Delivery
<1> QED BY <1>5, <1>6, <1>10 DEF LinkInv

\* The first package leaves the line.
LEMMA LineTail ==
    ASSUME line \in Seq(Packages), line # << >>, line' = Tail(line)
    PROVE  /\ line' \in Seq(Packages) /\ Len(line) \in Nat /\ Len(line) >= 1 /\ Len(line') = Len(line) - 1
           /\ \A i \in 1..Len(line') : i + 1 \in 1..Len(line) /\ line'[i] = line[i + 1]
           /\ Head(line) = line[1] /\ Head(line) \in Packages /\ 1 \in 1..Len(line)
<1>1. /\ line' \in Seq(Packages) /\ Len(line) \in Nat /\ Len(line) >= 1 /\ Len(line') = Len(line) - 1
      /\ Head(line) = line[1] /\ Head(line) \in Packages /\ 1 \in 1..Len(line)
  OBVIOUS
<1>2. ASSUME NEW i \in 1..Len(line') PROVE i + 1 \in 1..Len(line) /\ line'[i] = line[i + 1]
  BY <1>1
<1> QED BY <1>1, <1>2

\* The numbers of two packages after another differ, wherever they wrap around.
LEMMA NextNumber ==
    ASSUME NEW k \in Int
    PROVE  (k - 1) % 256 # k % 256
OBVIOUS

\* A split of the line with its first package gone.
LEMMA SplitTail ==
    ASSUME NEW s \in Nat, NEW m \in 0..(s + 1)
    PROVE  \E h \in 0..s : /\ \A i \in 1..h : i + 1 \in 1..m
                           /\ \A i \in (h + 1)..s : i + 1 \in (m + 1)..(s + 1)
<1>1. CASE m = 0
  <2>1. /\ 0 \in 0..s /\ \A i \in 1..0 : i + 1 \in 1..m
        /\ \A i \in (0 + 1)..s : i + 1 \in (m + 1)..(s + 1)
    BY <1>1
  <2> QED BY <2>1
<1>2. CASE m > 0
  <2>1. /\ m - 1 \in 0..s /\ \A i \in 1..(m - 1) : i + 1 \in 1..m
        /\ \A i \in ((m - 1) + 1)..s : i + 1 \in (m + 1)..(s + 1)
    BY <1>2
  <2> QED BY <2>1
<1> QED BY <1>1, <1>2

\* With its first package gone, what is known of the line still holds.
LEMMA WaitingLine ==
    ASSUME line \in Seq(Packages), line # << >>, line' = Tail(line), UNCHANGED <<bdtSeqNum, package>>,
           NEW m \in 0..Len(line),
           \A i \in 1..m : line[i].seq = (bdtSeqNum - 2) % 256 /\ bdtSeqNum - 1 > FirstSeq,
           \A i \in (m + 1)..Len(line) : line[i] = package
    PROVE  \E h \in 0..Len(line') :
             /\ \A i \in 1..h : line'[i].seq = (bdtSeqNum' - 2) % 256 /\ bdtSeqNum' - 1 > FirstSeq
             /\ \A i \in (h + 1)..Len(line') : line'[i] = package'
<1>1. /\ Len(line) \in Nat /\ Len(line) >= 1 /\ Len(line') = Len(line) - 1
      /\ \A i \in 1..Len(line') : line'[i] = line[i + 1]
  BY LineTail
<1>2. PICK s \in Nat : s = Len(line') /\ s + 1 = Len(line)
  <2>1. Len(line') \in Nat /\ Len(line') + 1 = Len(line)
    BY <1>1
  <2> QED BY <2>1
<1>3. m \in 0..(s + 1)
  BY <1>2
<1>4. PICK h \in 0..s : /\ \A i \in 1..h : i + 1 \in 1..m
                        /\ \A i \in (h + 1)..s : i + 1 \in (m + 1)..(s + 1)
  BY <1>3, SplitTail
<1>5. \A i \in 1..h : i \in 1..s
  OBVIOUS
<1>6. \A i \in (h + 1)..s : i \in 1..s
  OBVIOUS
<1>7. \A i \in 1..h : line'[i].seq = (bdtSeqNum' - 2) % 256 /\ bdtSeqNum' - 1 > FirstSeq
  BY <1>1, <1>2, <1>4, <1>5
<1>8. \A i \in (h + 1)..s : line'[i] = package'
  BY <1>1, <1>2, <1>4, <1>6
<1> QED BY <1>2, <1>7, <1>8

\* A package is lost.
LEMMA LinkLosesPackage ==
    ASSUME LinkInv, LosesPackage
    PROVE  LinkInv'
<1>1. /\ line # << >> /\ line' = Tail(line)
      /\ UNCHANGED <<bdtSeqNum, package, acks, ackBuf, ackPos, received, expected, sent>>
  BY DEF LosesPackage
<1>2. line \in Seq(Packages)
  BY LinkFacts
<1>3. /\ line' \in Seq(Packages) /\ Len(line') = Len(line) - 1
      /\ \A i \in 1..Len(line') : i + 1 \in 1..Len(line) /\ line'[i] = line[i + 1]
  BY <1>1, <1>2, LineTail
<1>4. LinkTyped' /\ Counts' /\ (NoTurn' => NoTurn) /\ (Sending' <=> Sending)
  BY <1>1, <1>3 DEF LinkInv, LinkTyped, Counts, NoTurn, Sending
<1>5. StreamLen' = StreamLen /\ \A i : Stream(i)' = Stream(i)
  BY <1>1, StreamSame
<1>6. Quiet => Quiet'
  BY <1>1, <1>3, <1>5 DEF Quiet
<1>7. Taken => Taken'
  BY <1>1, <1>3, <1>5 DEF Taken
<1>8. ASSUME Waiting PROVE Waiting'
  <2>1. PICK m \in 0..Len(line) :
           /\ \A i \in 1..m : line[i].seq = (bdtSeqNum - 2) % 256 /\ bdtSeqNum - 1 > FirstSeq
           /\ \A i \in (m + 1)..Len(line) : line[i] = package
    BY <1>8 DEF Waiting
  <2>2. \E h \in 0..Len(line') :
           /\ \A i \in 1..h : line'[i].seq = (bdtSeqNum' - 2) % 256 /\ bdtSeqNum' - 1 > FirstSeq
           /\ \A i \in (h + 1)..Len(line') : line'[i] = package'
    BY <1>1, <1>2, <2>1, WaitingLine
  <2> QED BY <1>1, <1>5, <1>8, <2>2 DEF Waiting
<1> QED BY <1>4, <1>6, <1>7, <1>8 DEF LinkInv, Delivery

\* A split of the stream with a byte gone.
LEMMA SplitLoses ==
    ASSUME NEW s \in Nat, NEW j \in 0..(s + 1), NEW q \in Nat, q + 3 <= s + 1
    PROVE  \E h \in 0..s : /\ \A i \in 1..h : (i < q + 3 => i \in 1..j) /\ (~(i < q + 3) => i + 1 \in 1..j)
                           /\ \A i \in (h + 1)..s : /\ i < q + 3 => i \in (j + 1)..(s + 1)
                                                    /\ ~(i < q + 3) => i + 1 \in (j + 1)..(s + 1)
<1>1. CASE j < q + 3
  <2>1. /\ j \in 0..s
        /\ \A i \in 1..j : (i < q + 3 => i \in 1..j) /\ (~(i < q + 3) => i + 1 \in 1..j)
    BY <1>1
  <2>2. \A i \in (j + 1)..s : /\ i < q + 3 => i \in (j + 1)..(s + 1)
                              /\ ~(i < q + 3) => i + 1 \in (j + 1)..(s + 1)
    BY <1>1
  <2> QED BY <2>1, <2>2
<1>2. CASE j >= q + 3
  <2>1. /\ j - 1 \in 0..s
        /\ \A i \in 1..(j - 1) : (i < q + 3 => i \in 1..j) /\ (~(i < q + 3) => i + 1 \in 1..j)
    BY <1>2
  <2>2. \A i \in ((j - 1) + 1)..s : /\ i < q + 3 => i \in (j + 1)..(s + 1)
                                    /\ ~(i < q + 3) => i + 1 \in (j + 1)..(s + 1)
    BY <1>2
  <2> QED BY <2>1, <2>2
<1> QED BY <1>1, <1>2

\* A byte of an acknowledgement is lost.
LEMMA LinkLosesByte ==
    ASSUME LinkInv, LosesByte
    PROVE  LinkInv'
<1>1. PICK q \in DOMAIN acks : acks' = RemoveAt(acks, q)
  BY DEF LosesByte
<1>2. UNCHANGED <<bdtSeqNum, package, line, ackBuf, ackPos, received, expected, sent>>
  BY DEF LosesByte
<1>3. LinkTyped
  BY DEF LinkInv
<1>4. /\ StreamLen \in Nat /\ StreamLen' = StreamLen - 1 /\ q \in Nat /\ q + 3 <= StreamLen
      /\ \A i \in 1..StreamLen' : Stream(i)' = IF i < q + 3 THEN Stream(i) ELSE Stream(i + 1)
      /\ acks' \in Seq(Int)
  BY <1>1, <1>2, <1>3, StreamLoses
<1>5. LinkTyped' /\ Counts' /\ (NoTurn' => NoTurn) /\ (Sending' <=> Sending)
  BY <1>2, <1>4 DEF LinkInv, LinkTyped, Counts, NoTurn, Sending
<1>6. PICK s \in Nat : s = StreamLen' /\ s + 1 = StreamLen
  BY <1>4
<1>7. \A i \in 1..s : i \in 1..(s + 1) /\ i + 1 \in 1..(s + 1)
  OBVIOUS
<1>8. Quiet => Quiet'
  BY <1>2, <1>4, <1>6, <1>7 DEF Quiet
<1>9. ASSUME Waiting PROVE Waiting'
  <2>1. \A i \in 1..StreamLen' : Stream(i)' \in Nums(bdtSeqNum' - 2)
    BY <1>2, <1>4, <1>6, <1>7, <1>9 DEF Waiting
  <2>2. /\ Len(sent') = Len(received') + 1 /\ \A i \in 1..Len(received') : received'[i] = sent'[i]
        /\ \E m \in 0..Len(line') :
             /\ \A i \in 1..m : line'[i].seq = (bdtSeqNum' - 2) % 256 /\ bdtSeqNum' - 1 > FirstSeq
             /\ \A i \in (m + 1)..Len(line') : line'[i] = package'
    BY <1>2, <1>9 DEF Waiting
  <2> QED BY <2>1, <2>2 DEF Waiting
<1>10. ASSUME Taken PROVE Taken'
  <2>1. PICK j \in 0..(s + 1) : /\ \A i \in 1..j : Stream(i) \in Nums(bdtSeqNum - 2)
                                /\ \A i \in (j + 1)..(s + 1) : Stream(i) \in Nums(bdtSeqNum - 1)
    BY <1>6, <1>10 DEF Taken
  <2>2. PICK h \in 0..s : /\ \A i \in 1..h : (i < q + 3 => i \in 1..j) /\ (~(i < q + 3) => i + 1 \in 1..j)
                          /\ \A i \in (h + 1)..s : /\ i < q + 3 => i \in (j + 1)..(s + 1)
                                                   /\ ~(i < q + 3) => i + 1 \in (j + 1)..(s + 1)
    <3>1. q + 3 <= s + 1
      BY <1>4, <1>6
    <3> QED BY <1>4, <3>1, SplitLoses
  <2>3. ASSUME NEW i \in 1..h PROVE Stream(i)' \in Nums(bdtSeqNum' - 2)
    <3>1. i \in 1..s
      OBVIOUS
    <3> QED BY <1>2, <1>4, <1>6, <2>1, <2>2, <3>1
  <2>4. ASSUME NEW i \in (h + 1)..s PROVE Stream(i)' \in Nums(bdtSeqNum' - 1)
    <3>1. i \in 1..s
      OBVIOUS
    <3> QED BY <1>2, <1>4, <1>6, <2>1, <2>2, <3>1
  <2> QED BY <1>2, <1>6, <1>10, <2>3, <2>4 DEF Taken
<1> QED BY <1>5, <1>8, <1>9, <1>10 DEF LinkInv, Delivery

\* The other side: it takes the package it expects, and no other.
LEMMA LinkArrives ==
    ASSUME LinkInv, Arrives
    PROVE  LinkInv'
<1>1. /\ line # << >> /\ line' = Tail(line)
      /\ IF Head(line).seq = expected % 256
         THEN received' = Append(received, Head(line).data) /\ expected' = expected + 1
         ELSE UNCHANGED <<received, expected>>
      /\ acks' = acks \o <<65, Head(line).seq, Complement(Head(line).seq)>>
      /\ UNCHANGED <<bdtSeqNum, package, ackBuf, ackPos, sent>>
  BY DEF Arrives
<1>2. /\ bdtSeqNum \in Nat /\ expected \in Nat /\ FirstSeq \in Nat
      /\ line \in Seq(Packages)
      /\ Len(sent) \in Nat /\ Len(received) \in Nat
      /\ received \in Seq(Seq(Bytes)) /\ sent \in Seq(Seq(Bytes))
      /\ bdtSeqNum = FirstSeq + Len(sent) /\ expected = FirstSeq + Len(received)
  BY LinkFacts
<1>3. /\ line' \in Seq(Packages) /\ Len(line) \in Nat /\ Len(line) >= 1 /\ Len(line') = Len(line) - 1
      /\ \A i \in 1..Len(line') : i + 1 \in 1..Len(line) /\ line'[i] = line[i + 1]
      /\ Head(line) = line[1] /\ Head(line) \in Packages /\ 1 \in 1..Len(line)
  BY <1>1, <1>2, LineTail
<1>4. PICK a \in Int : a = Head(line).seq /\ a = line[1].seq /\ acks' = acks \o <<65, a, 255 - a>>
  BY <1>1, <1>3 DEF Packages, Complement
<1>5. LinkTyped /\ Counts /\ acks \in Seq(Int)
  BY DEF LinkInv, LinkTyped
<1>6. /\ StreamLen \in Nat /\ StreamLen' = StreamLen + 3
      /\ \A i \in 1..StreamLen : Stream(i)' = Stream(i)
      /\ \A i \in (StreamLen + 1)..StreamLen' : Stream(i)' \in {65, a, 255 - a}
  <2>1. 255 - a \in Int
    OBVIOUS
  <2> QED BY <1>1, <1>4, <1>5, <2>1, StreamGrows
<1>7. PICK d \in Seq(Bytes) : d = Head(line).data
  BY <1>3 DEF Packages
<1>8. /\ received' \in Seq(Seq(Bytes)) /\ expected' \in Nat /\ expected' = FirstSeq + Len(received')
  <2>1. CASE a = expected % 256
    <3>1. received' = Append(received, d) /\ expected' = expected + 1
      BY <1>1, <1>4, <1>7, <2>1
    <3>2. received' \in Seq(Seq(Bytes)) /\ Len(received') = Len(received) + 1
      BY <1>2, <3>1
    <3> QED BY <1>2, <3>1, <3>2
  <2>2. CASE a # expected % 256
    BY <1>1, <1>2, <1>4, <2>2
  <2> QED BY <2>1, <2>2
<1>9. LinkTyped' /\ Counts' /\ (NoTurn' => NoTurn) /\ (Sending' <=> Sending)
  <2>1. acks' \in Seq(Int)
    <3>1. <<65, a, 255 - a>> \in Seq(Int)
      OBVIOUS
    <3> QED BY <1>4, <1>5, <3>1
  <2>2. LinkTyped'
    BY <1>1, <1>3, <1>5, <1>8, <2>1 DEF LinkTyped
  <2>3. Sending' <=> Sending
    BY <1>1 DEF Sending
  <2>4. Counts'
    BY <1>1, <1>2, <1>5, <1>8, <2>3 DEF Counts
  <2> QED BY <1>1, <2>2, <2>3, <2>4 DEF NoTurn
<1>10. \A i \in 1..StreamLen' : i \in 1..StreamLen \/ i \in (StreamLen + 1)..StreamLen'
  BY <1>6
<1>11. ASSUME NEW k \in Int, a = k % 256, k >= FirstSeq PROVE {65, a, 255 - a} \subseteq Nums(k)
  BY <1>2, <1>11 DEF Nums
\* The last package again: nothing is taken.
<1>12. ASSUME Quiet PROVE Quiet'
  <2>1. a = (bdtSeqNum - 1) % 256 /\ bdtSeqNum > FirstSeq
    BY <1>3, <1>4, <1>12 DEF Quiet
  <2>2. expected = bdtSeqNum /\ a # expected % 256
    BY <1>2, <1>12, <2>1, NextNumber DEF Quiet
  <2>3. UNCHANGED <<received, expected>>
    BY <1>1, <1>4, <2>2
  <2>4. {65, a, 255 - a} \subseteq Nums(bdtSeqNum - 1)
    BY <1>2, <1>11, <2>1
  <2>5. ASSUME NEW i \in 1..StreamLen' PROVE Stream(i)' \in Nums(bdtSeqNum' - 1)
    <3>1. \A x \in 1..StreamLen : Stream(x) \in Nums(bdtSeqNum - 1)
      BY <1>12 DEF Quiet
    <3>2. bdtSeqNum' = bdtSeqNum
      BY <1>1
    <3>3. CASE i \in 1..StreamLen
      BY <1>6, <3>1, <3>2, <3>3
    <3>4. CASE i \in (StreamLen + 1)..StreamLen'
      BY <1>6, <2>4, <3>2, <3>4
    <3> QED BY <1>10, <3>3, <3>4
  <2>6. \A i \in 1..Len(line') : line'[i].seq = (bdtSeqNum' - 1) % 256 /\ bdtSeqNum' > FirstSeq
    BY <1>1, <1>3, <1>12 DEF Quiet
  <2> QED BY <1>1, <1>12, <2>3, <2>5, <2>6 DEF Quiet
\* A package that was taken again.
<1>13. ASSUME Taken, Sending PROVE Taken'
  <2>1. a = (bdtSeqNum - 1) % 256 /\ bdtSeqNum > FirstSeq
    <3>1. Len(sent) > 0
      BY <1>5, <1>13 DEF Counts
    <3>2. line[1].seq = (bdtSeqNum - 1) % 256
      BY <1>3, <1>13 DEF Taken
    <3>3. bdtSeqNum > FirstSeq
      BY <1>2, <3>1
    <3> QED BY <1>4, <3>2, <3>3
  <2>2. expected = bdtSeqNum /\ a # expected % 256
    <3>1. received = sent
      BY <1>13 DEF Taken
    <3>2. expected = bdtSeqNum /\ bdtSeqNum \in Int
      BY <1>2, <3>1
    <3>3. (bdtSeqNum - 1) % 256 # bdtSeqNum % 256
      BY <3>2, NextNumber
    <3> QED BY <2>1, <3>2, <3>3
  <2>3. UNCHANGED <<received, expected>>
    BY <1>1, <1>4, <2>2
  <2>4. {65, a, 255 - a} \subseteq Nums(bdtSeqNum - 1)
    BY <1>2, <1>11, <2>1
  <2>5. PICK j \in 0..StreamLen : /\ \A i \in 1..j : Stream(i) \in Nums(bdtSeqNum - 2)
                                  /\ \A i \in (j + 1)..StreamLen : Stream(i) \in Nums(bdtSeqNum - 1)
    BY <1>13 DEF Taken
  <2>6. /\ j \in 0..StreamLen' /\ \A i \in 1..j : i \in 1..StreamLen
        /\ \A i \in (j + 1)..StreamLen' : \/ i \in 1..StreamLen /\ i \in (j + 1)..StreamLen
                                          \/ i \in (StreamLen + 1)..StreamLen'
    BY <1>6
  <2>7. \A i \in 1..j : Stream(i)' \in Nums(bdtSeqNum' - 2)
    BY <1>1, <1>6, <2>5, <2>6
  <2>8. \A i \in (j + 1)..StreamLen' : Stream(i)' \in Nums(bdtSeqNum' - 1)
    BY <1>1, <1>6, <2>4, <2>5, <2>6
  <2>9. \A i \in 1..Len(line') : line'[i].seq = (bdtSeqNum' - 1) % 256
    BY <1>1, <1>3, <1>13 DEF Taken
  <2> QED BY <1>1, <1>13, <2>3, <2>6, <2>7, <2>8, <2>9 DEF Taken
\* The package that is waited for, or one before it.
<1>14. ASSUME Waiting, Sending PROVE Waiting' \/ Taken'
  <2>1. PICK m \in 0..Len(line) :
           /\ \A i \in 1..m : line[i].seq = (bdtSeqNum - 2) % 256 /\ bdtSeqNum - 1 > FirstSeq
           /\ \A i \in (m + 1)..Len(line) : line[i] = package
    BY <1>14 DEF Waiting
  <2>2. /\ expected = bdtSeqNum - 1 /\ package.seq = (bdtSeqNum - 1) % 256 /\ package.data = sent[Len(sent)]
        /\ Len(sent) = Len(received) + 1 /\ bdtSeqNum - 1 >= FirstSeq
    <3>1. Len(sent) = Len(received) + 1
      BY <1>14 DEF Waiting
    <3>2. package.seq = (bdtSeqNum - 1) % 256 /\ package.data = sent[Len(sent)]
      BY <1>5, <1>14 DEF Counts
    <3>3. expected = bdtSeqNum - 1 /\ bdtSeqNum - 1 >= FirstSeq
      BY <1>2, <3>1
    <3> QED BY <3>1, <3>2, <3>3
  <2>3. CASE m > 0
    <3>1. a = (bdtSeqNum - 2) % 256 /\ bdtSeqNum - 1 > FirstSeq
      <4>1. 1 \in 1..m
        BY <2>3
      <4> QED BY <1>4, <2>1, <4>1
    <3>2. a # expected % 256
      <4>1. (bdtSeqNum - 1) - 1 = bdtSeqNum - 2 /\ bdtSeqNum - 1 \in Int
        BY <1>2
      <4>2. ((bdtSeqNum - 1) - 1) % 256 # (bdtSeqNum - 1) % 256
        BY <4>1, NextNumber
      <4> QED BY <2>2, <3>1, <4>1, <4>2
    <3>3. UNCHANGED <<received, expected>>
      BY <1>1, <1>4, <3>2
    <3>4. {65, a, 255 - a} \subseteq Nums(bdtSeqNum - 2)
      <4>1. bdtSeqNum - 2 \in Int /\ bdtSeqNum - 2 >= FirstSeq
        BY <1>2, <3>1
      <4> QED BY <1>11, <3>1, <4>1
    <3>5. ASSUME NEW i \in 1..StreamLen' PROVE Stream(i)' \in Nums(bdtSeqNum' - 2)
      <4>1. \A x \in 1..StreamLen : Stream(x) \in Nums(bdtSeqNum - 2)
        BY <1>14 DEF Waiting
      <4>2. bdtSeqNum' = bdtSeqNum
        BY <1>1
      <4>3. CASE i \in 1..StreamLen
        BY <1>6, <4>1, <4>2, <4>3
      <4>4. CASE i \in (StreamLen + 1)..StreamLen'
        BY <1>6, <3>4, <4>2, <4>4
      <4> QED BY <1>10, <4>3, <4>4
    <3>6. \E h \in 0..Len(line') :
             /\ \A i \in 1..h : line'[i].seq = (bdtSeqNum' - 2) % 256 /\ bdtSeqNum' - 1 > FirstSeq
             /\ \A i \in (h + 1)..Len(line') : line'[i] = package'
      BY <1>1, <1>2, <2>1, WaitingLine
    <3>7. Len(sent') = Len(received') + 1 /\ \A i \in 1..Len(received') : received'[i] = sent'[i]
      BY <1>1, <1>14, <3>3 DEF Waiting
    <3> QED BY <3>5, <3>6, <3>7 DEF Waiting
  <2>4. CASE m = 0
    <3>1. \A i \in 1..Len(line) : line[i] = package
      BY <2>1, <2>4
    <3>2. a = expected % 256 /\ d = sent[Len(sent)]
      BY <1>3, <1>4, <1>7, <2>2, <3>1
    <3>3. received' = Append(received, d)
      BY <1>1, <1>4, <1>7, <3>2
    <3>4. received' = sent
      <4>1. /\ received' \in Seq(Seq(Bytes)) /\ Len(received') = Len(sent)
            /\ \A i \in 1..Len(received) : received'[i] = received[i]
            /\ received'[Len(received) + 1] = d
        BY <1>2, <2>2, <3>3
      <4>2. ASSUME NEW i \in 1..Len(received') PROVE received'[i] = sent[i]
        <5>1. i \in 1..Len(received) \/ i = Len(received) + 1
          BY <1>2, <2>2, <4>1
        <5>2. \A x \in 1..Len(received) : received[x] = sent[x]
          BY <1>14 DEF Waiting
        <5> QED BY <2>2, <3>2, <4>1, <5>1, <5>2
      <4> QED BY <1>2, <4>1, <4>2, SeqEqual
    <3>5. {65, a, 255 - a} \subseteq Nums(bdtSeqNum - 1)
      <4>1. expected = bdtSeqNum - 1 /\ bdtSeqNum - 1 >= FirstSeq
        BY <2>2
      <4>2. expected \in Int /\ expected >= FirstSeq
        BY <1>2
      <4>3. {65, a, 255 - a} \subseteq Nums(expected)
        BY <1>11, <3>2, <4>2
      <4> QED BY <4>1, <4>3
    <3>6. \A i \in 1..StreamLen : Stream(i)' \in Nums(bdtSeqNum' - 2)
      BY <1>1, <1>6, <1>14 DEF Waiting
    <3>7. \A i \in (StreamLen + 1)..StreamLen' : Stream(i)' \in Nums(bdtSeqNum' - 1)
      <4>1. bdtSeqNum' = bdtSeqNum
        BY <1>1
      <4>2. ASSUME NEW i \in (StreamLen + 1)..StreamLen' PROVE Stream(i)' \in Nums(bdtSeqNum - 1)
        BY <1>6, <3>5, <4>2
      <4> QED BY <4>1, <4>2
    <3>8. StreamLen \in 0..StreamLen'
      BY <1>6
    <3>9. \A i \in 1..Len(line') : line'[i].seq = (bdtSeqNum' - 1) % 256
      BY <1>1, <1>3, <2>2, <3>1
    <3> QED BY <1>1, <3>4, <3>6, <3>7, <3>8, <3>9 DEF Taken
  <2> QED BY <2>3, <2>4
<1> QED BY <1>9, <1>12, <1>13, <1>14 DEF LinkInv, Delivery

-----------------------------------------------------------------------------
(* Flattened sequences                                                     *)

\* f joins the first n sequences of s, the first m for every m up to n.
Joins(f, s, n) == \A i \in 1..n : f[i] = IF i = 1 THEN s[i] ELSE f[i - 1] \o s[i]

\* The partial results exist.
LEMMA JoinsExist ==
    ASSUME NEW S, NEW s \in Seq(Seq(S)), NEW k \in 0..Len(s)
    PROVE  \E f \in [1..k -> Seq(S)] : Joins(f, s, k)
<1> DEFINE Bad == {m \in Nat : m <= Len(s) /\ ~\E f \in [1..m -> Seq(S)] : Joins(f, s, m)}
<1>1. Bad = {}
  <2> SUFFICES ASSUME Bad # {} PROVE FALSE
    OBVIOUS
  <2>1. PICK m \in Bad : \A y \in Bad : m <= y
    <3>1. Bad \in SUBSET Nat
      OBVIOUS
    <3> HIDE DEF Bad
    <3> QED BY <3>1, LeastNumber
  <2>2. m \in Nat /\ m <= Len(s) /\ ~\E f \in [1..m -> Seq(S)] : Joins(f, s, m)
    OBVIOUS
  <2>3. CASE m = 0
    <3>1. [i \in 1..0 |-> << >>] \in [1..m -> Seq(S)] /\ \A i \in 1..m : FALSE
      BY <2>3
    <3>2. Joins([i \in 1..0 |-> << >>], s, m)
      BY <3>1 DEF Joins
    <3> QED BY <2>2, <3>1, <3>2
  <2>4. CASE m # 0
    <3>1. m - 1 \in Nat /\ m - 1 <= Len(s) /\ m \in 1..Len(s)
      BY <2>2, <2>4
    <3>2. m - 1 \notin Bad
      <4> HIDE DEF Bad
      <4> QED BY <2>1, <2>2, <3>1
    <3>3. PICK f \in [1..(m - 1) -> Seq(S)] : Joins(f, s, m - 1)
      BY <3>1, <3>2
    <3> DEFINE x == IF m = 1 THEN s[m] ELSE f[m - 1] \o s[m]
               g == [i \in 1..m |-> IF i = m THEN x ELSE f[i]]
    <3>4. s[m] \in Seq(S) /\ (m # 1 => f[m - 1] \in Seq(S))
      <4>1. m # 1 => m - 1 \in 1..(m - 1)
        BY <3>1
      <4> QED BY <3>1, <3>3, <4>1
    <3>5. x \in Seq(S)
      BY <3>4, ConcatProperties
    <3> HIDE DEF x
    <3>6. \A i \in 1..m : i # m => i \in 1..(m - 1)
      BY <2>2
    <3>7. g \in [1..m -> Seq(S)]
      BY <3>3, <3>5, <3>6
    <3>8. g[m] = x /\ \A i \in 1..(m - 1) : g[i] = f[i]
      BY <2>2, <2>4
    <3> HIDE DEF g
    <3>9. ASSUME NEW i \in 1..m PROVE g[i] = IF i = 1 THEN s[i] ELSE g[i - 1] \o s[i]
      <4>1. CASE i = m
        <5>1. m # 1 => m - 1 \in 1..(m - 1)
          BY <3>1
        <5> QED BY <3>8, <4>1, <5>1 DEF x
      <4>2. CASE i # m
        <5>1. i \in 1..(m - 1) /\ (i # 1 => i - 1 \in 1..(m - 1))
          BY <2>2, <3>6, <4>2
        <5> QED BY <3>3, <3>8, <5>1 DEF Joins
      <4> QED BY <4>1, <4>2
    <3> QED BY <2>2, <3>7, <3>9 DEF Joins
  <2> QED BY <2>3, <2>4
<1>2. k \in Nat /\ k <= Len(s)
  OBVIOUS
<1> QED BY <1>1, <1>2

\* They depend on what they join only.
LEMMA JoinsSame ==
    ASSUME NEW f, NEW g, NEW s, NEW t, NEW n \in Nat,
           Joins(f, s, n), Joins(g, t, n), \A i \in 1..n : s[i] = t[i]
    PROVE  \A i \in 1..n : f[i] = g[i]
<1> DEFINE Bad == {i \in 1..n : f[i] # g[i]}
<1> SUFFICES ASSUME Bad # {} PROVE FALSE
  OBVIOUS
<1>1. PICK m \in Bad : \A y \in Bad : m <= y
  <2>1. Bad \in SUBSET Nat
    OBVIOUS
  <2> HIDE DEF Bad
  <2> QED BY <2>1, LeastNumber
<1>2. m \in 1..n /\ f[m] # g[m] /\ m \in Nat /\ s[m] = t[m]
  OBVIOUS
<1>3. CASE m = 1
  BY <1>2, <1>3 DEF Joins
<1>4. CASE m # 1
  <2>1. m - 1 \in 1..n
    BY <1>2, <1>4
  <2>2. m - 1 \notin Bad
    <3> HIDE DEF Bad
    <3> QED BY <1>1, <1>2, <2>1
  <2>3. f[m - 1] = g[m - 1]
    BY <2>1, <2>2
  <2> QED BY <1>2, <1>4, <2>3 DEF Joins
<1> QED BY <1>3, <1>4

\* FlattenSeq is the last of its partial results.
LEMMA FlattenUnfold ==
    ASSUME NEW S, NEW s \in Seq(Seq(S)), Len(s) > 0
    PROVE  \E f \in [1..Len(s) -> Seq(S)] : Joins(f, s, Len(s)) /\ FlattenSeq(s) = f[Len(s)]
<1> DEFINE N == Len(s)
           F == CHOOSE f : f = [i \in 1..N |-> IF i = 1 THEN s[i] ELSE f[i - 1] \o s[i]]
<1>0. N \in Nat /\ N \in 0..Len(s)
  OBVIOUS
<1>1. PICK g \in [1..N -> Seq(S)] : Joins(g, s, N)
  BY <1>0, JoinsExist
<1>2. g = [i \in 1..N |-> IF i = 1 THEN s[i] ELSE g[i - 1] \o s[i]]
  BY <1>1 DEF Joins
<1>3. F = [i \in 1..N |-> IF i = 1 THEN s[i] ELSE F[i - 1] \o s[i]]
  BY <1>2, Zenon
<1>4. FlattenSeq(s) = F[N]
  BY <1>0 DEF FlattenSeq
<1> HIDE DEF F
<1>5. Joins(F, s, N)
  BY <1>3 DEF Joins
<1>6. \A i \in 1..N : F[i] = g[i]
  <2>1. \A i \in 1..N : s[i] = s[i]
    OBVIOUS
  <2> QED BY <1>0, <1>1, <1>5, <2>1, JoinsSame
<1>7. F \in [1..N -> Seq(S)]
  BY <1>1, <1>3, <1>6
<1> QED BY <1>4, <1>5, <1>7

\* The flattened sequence grows by what is appended.
LEMMA FlattenAppend ==
    ASSUME NEW S, NEW s \in Seq(Seq(S)), NEW x \in Seq(S)
    PROVE  /\ FlattenSeq(s) \in Seq(S) /\ FlattenSeq(Append(s, x)) = FlattenSeq(s) \o x
           /\ FlattenSeq(Append(s, x)) \in Seq(S)
<1> DEFINE t == Append(s, x)
<1>1. /\ t \in Seq(Seq(S)) /\ Len(s) \in Nat /\ Len(t) = Len(s) + 1 /\ Len(t) > 0 /\ t[Len(t)] = x
      /\ \A i \in 1..Len(s) : t[i] = s[i]
  OBVIOUS
<1> HIDE DEF t
<1>2. PICK g \in [1..Len(t) -> Seq(S)] : Joins(g, t, Len(t)) /\ FlattenSeq(t) = g[Len(t)]
  BY <1>1, FlattenUnfold
<1>3. Len(t) \in 1..Len(t) /\ g[Len(t)] \in Seq(S)
  <2>1. Len(t) \in Nat /\ Len(t) \in 1..Len(t)
    BY <1>1
  <2> QED BY <1>2, <2>1
<1>4. CASE Len(s) = 0
  <2>1. s = << >> /\ FlattenSeq(s) = << >>
    BY <1>4 DEF FlattenSeq
  <2>2. g[Len(t)] = x
    BY <1>1, <1>2, <1>3, <1>4 DEF Joins
  <2>3. << >> \o x = x /\ << >> \in Seq(S)
    BY ConcatEmptySeq
  <2> QED BY <1>2, <1>3, <2>1, <2>2, <2>3 DEF t
<1>5. CASE Len(s) > 0
  <2>1. PICK f \in [1..Len(s) -> Seq(S)] : Joins(f, s, Len(s)) /\ FlattenSeq(s) = f[Len(s)]
    BY <1>5, FlattenUnfold
  <2>2. Len(s) \in 1..Len(s) /\ Len(s) <= Len(t) /\ Len(t) \in Nat /\ Len(t) - 1 = Len(s) /\ Len(t) # 1
    BY <1>1, <1>5
  <2>3. \A i \in 1..Len(s) : f[i] = g[i]
    <3>1. PICK n \in Nat : n = Len(s)
      BY <1>1
    <3>2. \A i \in 1..n : i \in 1..Len(t)
      BY <1>1, <3>1
    <3>4. Joins(f, s, n)
      BY <2>1, <3>1
    <3>5. Joins(g, t, n)
      BY <1>2, <3>2 DEF Joins
    <3>6. \A i \in 1..n : s[i] = t[i]
      BY <1>1, <3>1
    <3>7. \A i \in 1..n : f[i] = g[i]
      BY <3>4, <3>5, <3>6, JoinsSame
    <3> QED BY <3>1, <3>7
  <2>4. g[Len(t)] = g[Len(s)] \o x
    BY <1>1, <1>2, <1>3, <2>2 DEF Joins
  <2> QED BY <1>2, <1>3, <2>1, <2>2, <2>3, <2>4 DEF t
<1> QED BY <1>1, <1>4, <1>5

-----------------------------------------------------------------------------
(* Binary transmission: what the packages carry                            *)

Bufs == [data : Seq(Bytes), plain : BOOLEAN]
Word(w) == Add(<<w>>, MAX_LEN)

\* What is left of the steps of bdtStartChunk.
ChunkId(id, c) == IF c THEN <<Add(id, MAX_LEN), Flush, New(FALSE)>> ELSE <<Add(id, MAX_LEN)>>
ChunkHead(id, c) == IF c THEN <<Word("head"), Add(id, MAX_LEN), Flush, New(FALSE)>>
                    ELSE <<Word("head"), Add(id, MAX_LEN)>>
ChunkNew(id, c) == IF c THEN <<New(TRUE), Word("head"), Add(id, MAX_LEN), Flush, New(FALSE)>>
                   ELSE <<New(TRUE), Word("head"), Add(id, MAX_LEN)>>
ChunkAll(id, c) == IF c THEN <<Flush, New(TRUE), Word("head"), Add(id, MAX_LEN), Flush, New(FALSE)>>
                   ELSE <<Flush, New(TRUE), Word("head"), Add(id, MAX_LEN)>>

\* With the steps td to do and the bytes b in the buffer, the bytes r are to be
\* added; a buffer is started only when the last one is empty.
AtWord(td, b, r, w) ==
    /\ r = <<w>>
    /\ \/ td = <<Word(w), Flush>> /\ b = << >>
       \/ td = <<New(TRUE), Word(w), Flush>> /\ b = << >>
       \/ td = <<Flush, New(TRUE), Word(w), Flush>>
AtChunk(td, b, r, id, c) ==
    \/ td = ChunkId(id, c) /\ r = id /\ Len(b) + Len(id) <= SendMax
    \/ /\ 1 + Len(id) <= SendMax /\ r = <<"head">> \o id
       /\ \/ td = ChunkHead(id, c) /\ b = << >>
          \/ td = ChunkNew(id, c) /\ b = << >>
          \/ td = ChunkAll(id, c)
AtTail(td, b) ==
    \/ td \in {<< >>, <<Flush>>, <<Flush, New(FALSE)>>}
    \/ td = <<New(FALSE)>> /\ b = << >>
SenderAt(td, b, r) ==
    \/ AtTail(td, b) /\ r = << >>
    \/ AtWord(td, b, r, "start")
    \/ AtWord(td, b, r, "stop")
    \/ \E id \in Seq(Bytes), c \in BOOLEAN : AtChunk(td, b, r, id, c)
    \/ td = <<Add(r, SendMax)>>

SenderInv ==
    /\ call \in 1..Len(Program) /\ buf \in Bufs /\ Len(buf.data) <= SendMax
    /\ \E r \in Seq(Bytes) : /\ SenderAt(todo, buf.data, r)
                             /\ FlattenSeq(sent) \o (buf.data \o r) = GivenSoFar

\* The steps after the first.
LEMMA TailOfTwo ==
    ASSUME NEW a, NEW b
    PROVE  Tail(<<a, b>>) = <<b>>
OBVIOUS

\* The steps after the first of four.
LEMMA TailOfFour ==
    ASSUME NEW a, NEW b, NEW c, NEW d
    PROVE  Tail(<<a, b, c, d>>) = <<b, c, d>>
OBVIOUS

\* The steps apart.
LEMMA StepOps ==
    ASSUME NEW a, NEW b
    PROVE  /\ Flush.op = "flush" /\ New(a).op = "new" /\ New(a).plain = a
           /\ Add(a, b).op = "add" /\ Add(a, b).bytes = a /\ Add(a, b).max = b
           /\ Word(a).op = "add" /\ Word(a).bytes = <<a>> /\ Word(a).max = MAX_LEN
BY DEF Flush, New, Add, Word

\* After a flush the buffer is empty.
LEMMA FlushStep ==
    ASSUME NEW td, NEW b, NEW r \in Seq(Bytes), SenderAt(td, b, r), td # << >>, Head(td).op = "flush"
    PROVE  SenderAt(Tail(td), << >>, r)
<1>1. ASSUME AtTail(td, b), r = << >> PROVE SenderAt(Tail(td), << >>, r)
  <2>1. td # <<New(FALSE)>>
    BY DEF New
  <2>2. td \in {<<Flush>>, <<Flush, New(FALSE)>>}
    BY <1>1, <2>1 DEF AtTail
  <2>3. td = <<Flush>> => Tail(td) = << >>
    OBVIOUS
  <2>5. td = <<Flush, New(FALSE)>> => Tail(td) = <<New(FALSE)>>
    <3>1. Tail(<<Flush, New(FALSE)>>) = <<New(FALSE)>>
      BY TailOfTwo, Zenon
    <3> QED BY <3>1
  <2>6. AtTail(Tail(td), << >>)
    BY <2>2, <2>3, <2>5 DEF AtTail
  <2> QED BY <1>1, <2>6 DEF SenderAt
<1>2. ASSUME NEW w, AtWord(td, b, r, w) PROVE AtWord(Tail(td), << >>, r, w)
  <2>1. td # <<Word(w), Flush>> /\ td # <<New(TRUE), Word(w), Flush>>
    BY DEF Word, Add, New
  <2>2. td = <<Flush, New(TRUE), Word(w), Flush>> /\ r = <<w>>
    BY <1>2, <2>1 DEF AtWord
  <2>3. Tail(td) = <<New(TRUE), Word(w), Flush>>
    <3>1. Tail(<<Flush, New(TRUE), Word(w), Flush>>) = <<New(TRUE), Word(w), Flush>>
      BY TailOfFour, Zenon
    <3> QED BY <2>2, <3>1
  <2> QED BY <2>2, <2>3 DEF AtWord
<1>3. ASSUME NEW id \in Seq(Bytes), NEW c \in BOOLEAN, AtChunk(td, b, r, id, c)
      PROVE  AtChunk(Tail(td), << >>, r, id, c)
  <2>1. /\ Head(ChunkId(id, c)).op = "add" /\ Head(ChunkHead(id, c)).op = "add" /\ Head(ChunkNew(id, c)).op = "new"
        /\ Tail(ChunkAll(id, c)) = ChunkNew(id, c)
    BY DEF ChunkId, ChunkHead, ChunkNew, ChunkAll, Flush, New, Add, Word
  <2> QED BY <1>3, <2>1 DEF AtChunk
<1>4. td # <<Add(r, SendMax)>>
  BY StepOps
<1> QED BY <1>1, <1>2, <1>3, <1>4 DEF SenderAt

\* A buffer is started when the last one is empty.
LEMMA NewStep ==
    ASSUME NEW td, NEW b, NEW r \in Seq(Bytes), SenderAt(td, b, r), td # << >>, Head(td).op = "new"
    PROVE  b = << >> /\ Head(td).plain \in BOOLEAN /\ SenderAt(Tail(td), << >>, r)
<1>1. ASSUME AtTail(td, b), r = << >> PROVE b = << >> /\ Head(td).plain \in BOOLEAN /\ SenderAt(Tail(td), << >>, r)
  <2>0. Head(<<Flush>>).op = "flush" /\ Head(<<Flush, New(FALSE)>>).op = "flush"
    BY DEF Flush
  <2>1. td # <<Flush>> /\ td # <<Flush, New(FALSE)>>
    BY <2>0
  <2>2. td = <<New(FALSE)>> /\ b = << >>
    BY <1>1, <2>1 DEF AtTail
  <2>3. Tail(td) = << >> /\ Head(td) = New(FALSE)
    BY <2>2
  <2>4. SenderAt(Tail(td), << >>, r)
    BY <1>1, <2>3 DEF SenderAt, AtTail
  <2>5. New(TRUE).plain \in BOOLEAN /\ New(FALSE).plain \in BOOLEAN
    BY DEF New
  <2> QED BY <2>2, <2>3, <2>4, <2>5
<1>2. ASSUME NEW w, AtWord(td, b, r, w)
      PROVE  b = << >> /\ Head(td).plain \in BOOLEAN /\ AtWord(Tail(td), << >>, r, w)
  <2>0. Head(<<Word(w), Flush>>).op = "add" /\ Head(<<Flush, New(TRUE), Word(w), Flush>>).op = "flush"
    BY DEF Word, Add, Flush
  <2>1. td # <<Word(w), Flush>> /\ td # <<Flush, New(TRUE), Word(w), Flush>>
    BY <2>0
  <2>2. td = <<New(TRUE), Word(w), Flush>> /\ r = <<w>> /\ b = << >>
    BY <1>2, <2>1 DEF AtWord
  <2>3. Tail(td) = <<Word(w), Flush>> /\ Head(td) = New(TRUE)
    BY <2>2
  <2>4. AtWord(Tail(td), << >>, r, w)
    BY <2>2, <2>3 DEF AtWord
  <2>5. New(TRUE).plain \in BOOLEAN /\ New(FALSE).plain \in BOOLEAN
    BY DEF New
  <2> QED BY <2>2, <2>3, <2>4, <2>5
<1>3. ASSUME NEW id \in Seq(Bytes), NEW c \in BOOLEAN, AtChunk(td, b, r, id, c)
      PROVE  b = << >> /\ Head(td).plain \in BOOLEAN /\ AtChunk(Tail(td), << >>, r, id, c)
  <2>1. /\ Head(ChunkId(id, c)).op = "add" /\ Head(ChunkHead(id, c)).op = "add" /\ Head(ChunkAll(id, c)).op = "flush"
        /\ Tail(ChunkNew(id, c)) = ChunkHead(id, c) /\ Head(ChunkNew(id, c)).plain = TRUE
    BY DEF ChunkId, ChunkHead, ChunkNew, ChunkAll, Flush, New, Add, Word
  <2> QED BY <1>3, <2>1 DEF AtChunk
<1>4. td # <<Add(r, SendMax)>>
  BY StepOps
<1> QED BY <1>1, <1>2, <1>3, <1>4 DEF SenderAt

\* Bytes are added: all at once to the head of a chunk and the words of a
\* transmission, which fit, or as data.
LEMMA AddStep ==
    ASSUME NEW td, NEW b \in Seq(Bytes), NEW r \in Seq(Bytes), SenderAt(td, b, r), td # << >>,
           Head(td).op = "add", Len(b) <= SendMax
    PROVE  \/ td = <<Add(r, SendMax)>>
           \/ \E q \in Seq(Bytes), y \in Seq(Bytes) :
                /\ Head(td).bytes = y /\ Head(td).max = MAX_LEN /\ r = y \o q
                /\ Len(b) + Len(y) <= SendMax
                /\ SenderAt(Tail(td), << >>, q) /\ SenderAt(Tail(td), b \o y, q)
<1>0. SendMax \in Nat /\ SendMax > 0 /\ "start" \in Bytes /\ "stop" \in Bytes /\ "head" \in Bytes
  BY BdtAssumption
<1>1. ~AtTail(td, b)
  BY DEF AtTail, Flush, New
<1>2. ASSUME NEW w \in Bytes, AtWord(td, b, r, w)
      PROVE  /\ Head(td).bytes = <<w>> /\ Head(td).max = MAX_LEN /\ r = <<w>> \o << >>
             /\ Len(b) + Len(<<w>>) <= SendMax
             /\ SenderAt(Tail(td), << >>, << >>) /\ SenderAt(Tail(td), b \o <<w>>, << >>)
  <2>1. td = <<Word(w), Flush>> /\ b = << >> /\ r = <<w>>
    BY <1>2 DEF AtWord, Flush, New, Add, Word
  <2>2. Tail(td) = <<Flush>> /\ Head(td) = Word(w)
    BY <2>1
  <2>3. SenderAt(Tail(td), << >>, << >>) /\ SenderAt(Tail(td), b \o <<w>>, << >>)
    BY <2>2 DEF SenderAt, AtTail
  <2>4. <<w>> \in Seq(Bytes) /\ Len(<<w>>) = 1 /\ Len(<< >>) = 0
    OBVIOUS
  <2>5. <<w>> \o << >> = <<w>>
    BY <2>4, ConcatEmptySeq
  <2> QED BY <1>0, <2>1, <2>2, <2>3, <2>4, <2>5, StepOps
<1>3. ASSUME NEW id \in Seq(Bytes), NEW c \in BOOLEAN, AtChunk(td, b, r, id, c)
      PROVE  \E q \in Seq(Bytes), y \in Seq(Bytes) :
                /\ Head(td).bytes = y /\ Head(td).max = MAX_LEN /\ r = y \o q
                /\ Len(b) + Len(y) <= SendMax
                /\ SenderAt(Tail(td), << >>, q) /\ SenderAt(Tail(td), b \o y, q)
  <2>1. /\ Head(ChunkNew(id, c)).op = "new" /\ Head(ChunkAll(id, c)).op = "flush"
        /\ Head(ChunkId(id, c)) = Add(id, MAX_LEN) /\ Head(ChunkHead(id, c)) = Word("head")
        /\ Tail(ChunkHead(id, c)) = ChunkId(id, c) /\ Tail(ChunkId(id, c)) \in {<< >>, <<Flush, New(FALSE)>>}
    BY DEF ChunkId, ChunkHead, ChunkNew, ChunkAll, Flush, New, Add, Word
  <2>2. CASE td = ChunkId(id, c) /\ r = id /\ Len(b) + Len(id) <= SendMax
    <3>1. << >> \in Seq(Bytes) /\ r = id \o << >>
      BY <2>2, ConcatEmptySeq
    <3>2. SenderAt(Tail(td), << >>, << >>) /\ SenderAt(Tail(td), b \o id, << >>)
      BY <2>1, <2>2 DEF SenderAt, AtTail
    <3>3. Head(td).bytes = id /\ Head(td).max = MAX_LEN
      BY <2>1, <2>2, StepOps
    <3> QED BY <2>2, <3>1, <3>2, <3>3
  <2>3. CASE td = ChunkHead(id, c) /\ b = << >> /\ 1 + Len(id) <= SendMax /\ r = <<"head">> \o id
    <3>1. <<"head">> \in Seq(Bytes) /\ Len(<<"head">>) = 1 /\ Len(<< >>) = 0 /\ Len(id) \in Nat
      BY <1>0
    <3>2. b \o <<"head">> = <<"head">>
      BY <2>3, <3>1, ConcatEmptySeq
    <3>3. AtChunk(Tail(td), << >>, id, id, c) /\ AtChunk(Tail(td), b \o <<"head">>, id, id, c)
      <4>1. Len(<< >>) + Len(id) <= SendMax /\ Len(<<"head">>) + Len(id) <= SendMax
        BY <1>0, <2>3, <3>1
      <4> QED BY <2>1, <2>3, <3>2, <4>1 DEF AtChunk
    <3>4. SenderAt(Tail(td), << >>, id) /\ SenderAt(Tail(td), b \o <<"head">>, id)
      BY <3>3 DEF SenderAt
    <3>5. Head(td).bytes = <<"head">> /\ Head(td).max = MAX_LEN
      BY <2>1, <2>3 DEF Word, Add
    <3>6. Len(b) + Len(<<"head">>) <= SendMax
      BY <1>0, <2>3, <3>1
    <3> QED BY <2>3, <3>1, <3>4, <3>5, <3>6
  <2>4. td # ChunkNew(id, c) /\ td # ChunkAll(id, c)
    BY <2>1
  <2> QED BY <1>3, <2>2, <2>3, <2>4 DEF AtChunk
<1>4. ASSUME NEW w \in Bytes, AtWord(td, b, r, w)
      PROVE  \E q \in Seq(Bytes), y \in Seq(Bytes) :
                /\ Head(td).bytes = y /\ Head(td).max = MAX_LEN /\ r = y \o q
                /\ Len(b) + Len(y) <= SendMax
                /\ SenderAt(Tail(td), << >>, q) /\ SenderAt(Tail(td), b \o y, q)
  <2>1. <<w>> \in Seq(Bytes) /\ << >> \in Seq(Bytes)
    OBVIOUS
  <2> QED BY <1>2, <1>4, <2>1
<1> QED BY <1>0, <1>1, <1>3, <1>4 DEF SenderAt

\* A sequence that is another with an element after it.
LEMMA IsAppend ==
    ASSUME NEW T, NEW u \in Seq(T), NEW e \in T, NEW w \in Seq(T), Len(w) = Len(u) + 1,
           \A i \in 1..Len(u) : w[i] = u[i], w[Len(u) + 1] = e
    PROVE  Append(u, e) = w
<1>1. /\ Append(u, e) \in Seq(T) /\ Len(Append(u, e)) = Len(u) + 1 /\ Len(u) \in Nat
      /\ \A i \in 1..Len(u) : Append(u, e)[i] = u[i]
      /\ Append(u, e)[Len(u) + 1] = e
  OBVIOUS
<1>2. \A i \in 1..(Len(u) + 1) : i \in 1..Len(u) \/ i = Len(u) + 1
  BY <1>1
<1>3. \A i \in 1..Len(w) : Append(u, e)[i] = w[i]
  BY <1>1, <1>2
<1> QED BY <1>1, <1>3, SeqEqual

\* An element after one.
LEMMA AfterOne ==
    ASSUME NEW a, NEW b
    PROVE  Append(<<a>>, b) = <<a, b>>
<1> DEFINE T == {a, b}
<1>1. /\ <<a>> \in Seq(T) /\ <<a, b>> \in Seq(T) /\ Len(<<a>>) = 1 /\ Len(<<a, b>>) = 1 + 1
      /\ \A i \in 1..1 : <<a, b>>[i] = <<a>>[i]
      /\ <<a, b>>[1 + 1] = b /\ b \in T
  OBVIOUS
<1> HIDE DEF T
<1> QED BY <1>1, IsAppend

\* An element after two.
LEMMA AfterTwo ==
    ASSUME NEW a, NEW b, NEW c
    PROVE  Append(<<a, b>>, c) = <<a, b, c>>
<1> DEFINE T == {a, b, c}
<1>1. /\ <<a, b>> \in Seq(T) /\ <<a, b, c>> \in Seq(T) /\ Len(<<a, b>>) = 2 /\ Len(<<a, b, c>>) = 2 + 1
      /\ \A i \in 1..2 : <<a, b, c>>[i] = <<a, b>>[i]
      /\ <<a, b, c>>[2 + 1] = c /\ c \in T
  OBVIOUS
<1> HIDE DEF T
<1> QED BY <1>1, IsAppend

\* An element after three.
LEMMA AfterThree ==
    ASSUME NEW a, NEW b, NEW c, NEW d
    PROVE  Append(<<a, b, c>>, d) = <<a, b, c, d>>
<1> DEFINE T == {a, b, c, d}
<1>1. /\ <<a, b, c>> \in Seq(T) /\ <<a, b, c, d>> \in Seq(T) /\ Len(<<a, b, c>>) = 3 /\ Len(<<a, b, c, d>>) = 3 + 1
      /\ \A i \in 1..3 : <<a, b, c, d>>[i] = <<a, b, c>>[i]
      /\ <<a, b, c, d>>[3 + 1] = d /\ d \in T
  OBVIOUS
<1> HIDE DEF T
<1> QED BY <1>1, IsAppend

\* An element after four.
LEMMA AfterFour ==
    ASSUME NEW a, NEW b, NEW c, NEW d, NEW e
    PROVE  Append(<<a, b, c, d>>, e) = <<a, b, c, d, e>>
<1> DEFINE T == {a, b, c, d, e}
<1>1. /\ <<a, b, c, d>> \in Seq(T) /\ <<a, b, c, d, e>> \in Seq(T) /\ Len(<<a, b, c, d>>) = 4 /\ Len(<<a, b, c, d, e>>) = 4 + 1
      /\ \A i \in 1..4 : <<a, b, c, d, e>>[i] = <<a, b, c, d>>[i]
      /\ <<a, b, c, d, e>>[4 + 1] = e /\ e \in T
  OBVIOUS
<1> HIDE DEF T
<1> QED BY <1>1, IsAppend

\* An element after five.
LEMMA AfterFive ==
    ASSUME NEW a, NEW b, NEW c, NEW d, NEW e, NEW f
    PROVE  Append(<<a, b, c, d, e>>, f) = <<a, b, c, d, e, f>>
<1> DEFINE T == {a, b, c, d, e, f}
<1>1. /\ <<a, b, c, d, e>> \in Seq(T) /\ <<a, b, c, d, e, f>> \in Seq(T) /\ Len(<<a, b, c, d, e>>) = 5 /\ Len(<<a, b, c, d, e, f>>) = 5 + 1
      /\ \A i \in 1..5 : <<a, b, c, d, e, f>>[i] = <<a, b, c, d, e>>[i]
      /\ <<a, b, c, d, e, f>>[5 + 1] = f /\ f \in T
  OBVIOUS
<1> HIDE DEF T
<1> QED BY <1>1, IsAppend

\* What a sequence of one sequence is flattened to.
LEMMA FlattenOne ==
    ASSUME NEW a \in Seq(Bytes)
    PROVE  FlattenSeq(<<a>>) = a
<1>0. << >> \in Seq(Seq(Bytes))
  OBVIOUS
<1>1. Append(<< >>, a) = <<a>>
  OBVIOUS
<1>2. FlattenSeq(<< >>) = << >>
  BY DEF FlattenSeq
<1>3. << >> \o a = a
  BY ConcatEmptySeq
<1> QED BY <1>0, <1>1, <1>2, <1>3, FlattenAppend

\* Three of them.
LEMMA FlattenThree ==
    ASSUME NEW a \in Seq(Bytes), NEW b \in Seq(Bytes), NEW c \in Seq(Bytes)
    PROVE  FlattenSeq(<<a, b, c>>) = (a \o b) \o c
<1>1. FlattenSeq(<<a, b>>) = a \o b
  <2>1. <<a>> \in Seq(Seq(Bytes))
    OBVIOUS
  <2>2. Append(<<a>>, b) = <<a, b>>
    BY AfterOne, Zenon
  <2>3. FlattenSeq(<<a>>) = a
    BY FlattenOne
  <2> QED BY <2>1, <2>2, <2>3, FlattenAppend
<1>2. <<a, b>> \in Seq(Seq(Bytes))
  OBVIOUS
<1>3. Append(<<a, b>>, c) = <<a, b, c>>
  BY AfterTwo, Zenon
<1> QED BY <1>1, <1>2, <1>3, FlattenAppend

\* Four.
LEMMA FlattenFour ==
    ASSUME NEW a \in Seq(Bytes), NEW b \in Seq(Bytes), NEW c \in Seq(Bytes), NEW d \in Seq(Bytes)
    PROVE  FlattenSeq(<<a, b, c, d>>) = ((a \o b) \o c) \o d
<1>1. FlattenSeq(<<a, b, c>>) = (a \o b) \o c
  BY FlattenThree
<1>2. <<a, b, c>> \in Seq(Seq(Bytes))
  OBVIOUS
<1>3. Append(<<a, b, c>>, d) = <<a, b, c, d>>
  BY AfterThree, Zenon
<1> QED BY <1>1, <1>2, <1>3, FlattenAppend

\* Two short sequences after another.
LEMMA FourAndTwo ==
    ASSUME NEW a, NEW b, NEW c, NEW d, NEW e, NEW f
    PROVE  <<a, b, c, d>> \o <<e, f>> = <<a, b, c, d, e, f>> /\ <<a, b, c, d>> \o << >> = <<a, b, c, d>>
<1> DEFINE S == {a, b, c, d, e, f}
<1>1. <<a, b, c, d>> \in Seq(S) /\ <<e, f>> \in Seq(S) /\ <<a, b, c, d, e, f>> \in Seq(S)
  OBVIOUS
<1>2. PICK u \in Seq(S) : u = <<a, b, c, d>> /\ Len(u) = 4 /\ u[1] = a /\ u[2] = b /\ u[3] = c /\ u[4] = d
  BY <1>1
<1>3. PICK v \in Seq(S) : v = <<e, f>> /\ Len(v) = 2 /\ v[1] = e /\ v[2] = f
  BY <1>1
<1>4. PICK w \in Seq(S) : /\ w = <<a, b, c, d, e, f>> /\ Len(w) = 6 /\ w[1] = a /\ w[2] = b /\ w[3] = c /\ w[4] = d
                          /\ w[5] = e /\ w[6] = f
  BY <1>1
<1> HIDE DEF S
<1>5. /\ u \o v \in Seq(S) /\ Len(u \o v) = 6
      /\ \A i \in 1..6 : (u \o v)[i] = IF i <= 4 THEN u[i] ELSE v[i - 4]
  BY <1>2, <1>3
<1>6. \A i \in 1..6 : i \in {1, 2, 3, 4, 5, 6}
  OBVIOUS
<1>7. \A i \in 1..6 : (u \o v)[i] = w[i]
  BY <1>2, <1>3, <1>4, <1>5, <1>6
<1>8. u \o v = w
  BY <1>4, <1>5, <1>7, SeqEqual
<1>9. u \o << >> = u
  BY ConcatEmptySeq
<1> QED BY <1>2, <1>3, <1>4, <1>8, <1>9

\* The steps of bdtStartChunk one by one.
LEMMA ChunkSteps ==
    ASSUME NEW id, NEW c
    PROVE  bdtStartChunk(id, c) = ChunkAll(id, c)
BY FourAndTwo DEF bdtStartChunk, ChunkAll, Word

\* A call begins with its steps ahead of it, and they add what it was given.
LEMMA CallForm ==
    ASSUME NEW x \in Calls, x.op = "chunk" => 1 + Len(x.id) <= SendMax,
           NEW b, x.op = "start" => b = << >>
    PROVE  PayloadOf(x) \in Seq(Bytes) /\ SenderAt(StepsOf(x), b, PayloadOf(x))
<1> DEFINE st == StepsOf(x)
           parts == [i \in DOMAIN st |-> IF st[i].op = "add" THEN st[i].bytes ELSE << >>]
<1>0. "start" \in Bytes /\ "stop" \in Bytes /\ "head" \in Bytes /\ PayloadOf(x) = FlattenSeq(parts)
  BY BdtAssumption DEF PayloadOf
<1>1. \/ x.op = "start" \/ x.op = "stop"
      \/ x.op = "chunk" /\ x.id \in Seq(Bytes) /\ x.compressed \in BOOLEAN
      \/ x.op = "send" /\ x.data \in Seq(Bytes)
  BY DEF Calls
<1>2. << >> \in Seq(Bytes) /\ \A w \in Bytes : <<w>> \in Seq(Bytes)
  OBVIOUS
<1>3. CASE x.op = "start"
  <2>1. st = <<New(TRUE), Word("start"), Flush>>
    BY <1>3 DEF StepsOf, bdtStart, Word
  <2>2. parts = << << >>, <<"start">>, << >> >>
    BY <2>1 DEF New, Word, Add, Flush
  <2>3. FlattenSeq(parts) = (<< >> \o <<"start">>) \o << >>
    <3>1. PICK e \in Seq(Bytes) : e = << >>
      BY <1>2
    <3>2. PICK y \in Seq(Bytes) : y = <<"start">>
      BY <1>0, <1>2
    <3>3. FlattenSeq(<<e, y, e>>) = (e \o y) \o e
      BY FlattenThree, Zenon
    <3> QED BY <2>2, <3>1, <3>2, <3>3
  <2>4. (<< >> \o <<"start">>) \o << >> = <<"start">>
    BY <1>0, <1>2, ConcatEmptySeq
  <2> QED BY <1>0, <1>2, <1>3, <2>1, <2>3, <2>4 DEF SenderAt, AtWord
<1>4. CASE x.op = "stop"
  <2>1. st = <<Flush, New(TRUE), Word("stop"), Flush>>
    BY <1>4 DEF StepsOf, bdtStop, Word
  <2>2. parts = << << >>, << >>, <<"stop">>, << >> >>
    BY <2>1 DEF New, Word, Add, Flush
  <2>3. FlattenSeq(parts) = ((<< >> \o << >>) \o <<"stop">>) \o << >>
    <3>1. PICK e \in Seq(Bytes) : e = << >>
      BY <1>2
    <3>2. PICK y \in Seq(Bytes) : y = <<"stop">>
      BY <1>0, <1>2
    <3>3. FlattenSeq(<<e, e, y, e>>) = ((e \o e) \o y) \o e
      BY FlattenFour, Zenon
    <3> QED BY <2>2, <3>1, <3>2, <3>3
  <2>4. ((<< >> \o << >>) \o <<"stop">>) \o << >> = <<"stop">>
    BY <1>0, <1>2, ConcatEmptySeq
  <2> QED BY <1>0, <1>2, <1>4, <2>1, <2>3, <2>4 DEF SenderAt, AtWord
<1>5. CASE x.op = "send" /\ x.data \in Seq(Bytes)
  <2>1. st = <<Add(x.data, SendMax)>>
    BY <1>5 DEF StepsOf, bdtSend
  <2>2. parts = <<x.data>>
    BY <2>1 DEF Add
  <2>3. FlattenSeq(parts) = x.data
    BY <1>5, <2>2, FlattenOne
  <2> QED BY <1>0, <1>5, <2>1, <2>3 DEF SenderAt
<1>6. CASE x.op = "chunk" /\ x.id \in Seq(Bytes) /\ x.compressed \in BOOLEAN
  <2>1. st = ChunkAll(x.id, x.compressed)
    <3>1. st = bdtStartChunk(x.id, x.compressed)
      BY <1>6 DEF StepsOf
    <3>2. bdtStartChunk(x.id, x.compressed) = ChunkAll(x.id, x.compressed)
      BY ChunkSteps
    <3> QED BY <3>1, <3>2
  <2>2. FlattenSeq(parts) = ((<< >> \o << >>) \o <<"head">>) \o x.id
    <3>1. CASE x.compressed
      <4>1. st = <<Flush, New(TRUE), Word("head"), Add(x.id, MAX_LEN), Flush, New(FALSE)>>
        BY <2>1, <3>1 DEF ChunkAll
      <4>2. parts = << << >>, << >>, <<"head">>, x.id, << >>, << >> >>
        BY <4>1 DEF New, Word, Add, Flush
      <4>3. PICK e \in Seq(Bytes) : e = << >>
        BY <1>2
      <4>4. PICK y \in Seq(Bytes) : y = <<"head">>
        BY <1>0, <1>2
      <4>5. PICK id \in Seq(Bytes) : id = x.id
        BY <1>6
      <4>6. FlattenSeq(<<e, e, y, id, e, e>>) = ((e \o e) \o y) \o id
        <5>0. PICK T : T = Seq(Bytes)
          OBVIOUS
        <5>a. <<e, e, y, id>> \in Seq(T)
          <6>1. e \in T /\ y \in T /\ id \in T
            BY <5>0
          <6> QED BY ONLY <6>1
        <5>1. PICK u \in Seq(Seq(Bytes)) : u = <<e, e, y, id>>
          BY <5>0, <5>a
        <5>2. FlattenSeq(u) = ((e \o e) \o y) \o id
          BY <5>1, FlattenFour
        <5>3. Append(u, e) = <<e, e, y, id, e>>
          BY <5>1, AfterFour
        <5>4. PICK v \in Seq(Seq(Bytes)) : v = Append(u, e)
          <6>1. Append(u, e) \in Seq(Seq(Bytes))
            BY AppendProperties
          <6> QED BY <6>1
        <5>5. FlattenSeq(v) = FlattenSeq(u) \o e /\ FlattenSeq(v) \in Seq(Bytes) /\ FlattenSeq(u) \in Seq(Bytes)
          BY <5>4, FlattenAppend
        <5>6. FlattenSeq(Append(v, e)) = FlattenSeq(v) \o e
          BY FlattenAppend
        <5>7. Append(v, e) = <<e, e, y, id, e, e>>
          BY <5>3, <5>4, AfterFive
        <5>8. FlattenSeq(u) \o e = FlattenSeq(u)
          BY <4>3, <5>5, ConcatEmptySeq
        <5> QED BY <5>2, <5>5, <5>6, <5>7, <5>8
      <4> QED BY <4>2, <4>3, <4>4, <4>5, <4>6
    <3>2. CASE ~x.compressed
      <4>1. st = <<Flush, New(TRUE), Word("head"), Add(x.id, MAX_LEN)>>
        BY <2>1, <3>2 DEF ChunkAll
      <4>2. parts = << << >>, << >>, <<"head">>, x.id >>
        BY <4>1 DEF New, Word, Add, Flush
      <4>3. PICK e \in Seq(Bytes) : e = << >>
        BY <1>2
      <4>4. PICK y \in Seq(Bytes) : y = <<"head">>
        BY <1>0, <1>2
      <4>5. PICK id \in Seq(Bytes) : id = x.id
        BY <1>6
      <4>6. FlattenSeq(<<e, e, y, id>>) = ((e \o e) \o y) \o id
        BY FlattenFour, Zenon
      <4> QED BY <4>2, <4>3, <4>4, <4>5, <4>6
    <3> QED BY <3>1, <3>2
  <2>3. ((<< >> \o << >>) \o <<"head">>) \o x.id = <<"head">> \o x.id
    BY <1>0, <1>2, ConcatEmptySeq
  <2>4. <<"head">> \o x.id \in Seq(Bytes)
    BY <1>0, <1>2, <1>6
  <2>5. AtChunk(st, b, <<"head">> \o x.id, x.id, x.compressed)
    BY <1>6, <2>1 DEF AtChunk
  <2> QED BY <1>0, <1>6, <2>2, <2>3, <2>4, <2>5 DEF SenderAt
<1> QED BY <1>1, <1>3, <1>4, <1>5, <1>6

\* Bytes may be joined in any order of the joints.
LEMMA JoinedBytes ==
    ASSUME NEW f \in Seq(Bytes), NEW d \in Seq(Bytes), NEW q \in Seq(Bytes)
    PROVE  (f \o d) \o q = f \o (d \o q)
BY ConcatAssociative

\* Bytes that go from what is to be added into the buffer or into a package.
LEMMA Carry ==
    ASSUME NEW s \in Seq(Seq(Bytes)), NEW b \in Seq(Bytes), NEW y \in Seq(Bytes), NEW q \in Seq(Bytes)
    PROVE  /\ FlattenSeq(s) \in Seq(Bytes)
           /\ FlattenSeq(Append(s, b \o y)) \o (<< >> \o q) = FlattenSeq(s) \o (b \o (y \o q))
           /\ (b \o y) \o q = b \o (y \o q)
<1>1. b \o y \in Seq(Bytes) /\ << >> \o q = q
  BY ConcatEmptySeq
<1>2. PICK d \in Seq(Bytes) : d = b \o y
  BY <1>1
<1>3. FlattenSeq(s) \in Seq(Bytes) /\ FlattenSeq(Append(s, d)) = FlattenSeq(s) \o d
  BY FlattenAppend
<1>4. (b \o y) \o q = b \o (y \o q)
  BY ConcatAssociative
<1>5. PICK f \in Seq(Bytes) : f = FlattenSeq(s)
  BY <1>3
<1>6. (f \o d) \o q = f \o (d \o q)
  BY <1>2, <1>5, JoinedBytes
<1> QED BY <1>1, <1>2, <1>3, <1>4, <1>5, <1>6

\* The same of what has been put on the line alone.
LEMMA CarryOut ==
    ASSUME NEW s \in Seq(Seq(Bytes)), NEW b \in Seq(Bytes), NEW y \in Seq(Bytes), NEW q \in Seq(Bytes)
    PROVE  FlattenSeq(Append(s, b \o y)) \o (<< >> \o q) = FlattenSeq(s) \o (b \o (y \o q))
BY Carry

\* A flush carries the whole buffer.
LEMMA CarryAll ==
    ASSUME NEW s \in Seq(Seq(Bytes)), NEW b \in Seq(Bytes), NEW q \in Seq(Bytes)
    PROVE  FlattenSeq(Append(s, b)) \o (<< >> \o q) = FlattenSeq(s) \o (b \o q)
<1>0. << >> \in Seq(Bytes)
  OBVIOUS
<1>1. PICK e \in Seq(Bytes) : e = << >>
  BY <1>0
<1>2. b \o e = b /\ e \o q = q
  BY <1>1, ConcatEmptySeq
<1>3. FlattenSeq(Append(s, b \o e)) \o (<< >> \o q) = FlattenSeq(s) \o (b \o (e \o q))
  BY Carry
<1> QED BY <1>2, <1>3

\* What the sender's steps leave alone.
LEMMA GivenSame ==
    ASSUME UNCHANGED call
    PROVE  GivenSoFar' = GivenSoFar
BY DEF GivenSoFar

\* The sender's buffer becomes a package.
LEMMA SendBufferSends ==
    ASSUME NEW b \in Bufs, ~Sending, bdtSendBuffer(b), Unchanged
    PROVE  Sends(b.data, b.plain) /\ buf' = [data |-> << >>, plain |-> b.plain]
<1>1. b.data \in Seq(Bytes) /\ b.plain \in BOOLEAN /\ b = [data |-> b.data, plain |-> b.plain]
  BY DEF Bufs
<1> QED BY <1>1 DEF bdtSendBuffer, Sends

\* A sequence cut in two.
LEMMA CutBytes ==
    ASSUME NEW s \in Seq(Bytes), NEW l \in 0..Len(s)
    PROVE  /\ SubSeq(s, 1, l) \in Seq(Bytes) /\ Len(SubSeq(s, 1, l)) = l
           /\ SubSeq(s, l + 1, Len(s)) \in Seq(Bytes)
           /\ s = SubSeq(s, 1, l) \o SubSeq(s, l + 1, Len(s))
           /\ l = Len(s) => SubSeq(s, 1, l) = s /\ SubSeq(s, l + 1, Len(s)) = << >>
<1>1. /\ Len(s) \in Nat /\ l \in Nat /\ 1 \in 1..(Len(s) + 1) /\ l \in (1 - 1)..Len(s) /\ Len(s) \in l..Len(s)
      /\ l <= Len(s)
  OBVIOUS
<1>2. SubSeq(s, 1, l) \o SubSeq(s, l + 1, Len(s)) = SubSeq(s, 1, Len(s))
  BY <1>1, ConcatAdjacentSubSeq
<1>3. SubSeq(s, 1, Len(s)) = s
  BY SubSeqFull
<1>4. SubSeq(s, 1, l) \in Seq(Bytes) /\ Len(SubSeq(s, 1, l)) = l
  <2>1. \A i \in 1..l : s[i] \in Bytes
    BY <1>1
  <2>2. /\ SubSeq(s, 1, l) \in Seq(Bytes)
        /\ Len(SubSeq(s, 1, l)) = IF 1 <= l THEN l - 1 + 1 ELSE 0
    BY <1>1, <2>1, SubSeqProperties
  <2> QED BY <1>1, <2>2
<1>5. SubSeq(s, l + 1, Len(s)) \in Seq(Bytes)
  <2>1. \A i \in (l + 1)..Len(s) : s[i] \in Bytes
    BY <1>1
  <2>2. l + 1 \in Int /\ Len(s) \in Int
    BY <1>1
  <2> QED BY <2>1, <2>2, SubSeqProperties
<1>6. l = Len(s) => SubSeq(s, l + 1, Len(s)) = << >>
  <2>1. l + 1 \in Int /\ Len(s) \in Int /\ (l = Len(s) => Len(s) < l + 1)
    BY <1>1
  <2> QED BY <2>1, SubSeqEmpty
<1> QED BY <1>2, <1>3, <1>4, <1>5, <1>6

\* As many of k bytes as fit after n of m.
LEMMA Fitting ==
    ASSUME NEW k \in Nat, NEW n \in Nat, NEW m \in Nat, n <= m
    PROVE  LET l == IF k < m - n THEN k ELSE m - n
           IN l \in 0..k /\ n + l <= m /\ l \in Nat /\ (l # k => n + k > m)
OBVIOUS

\* One round of bdtAddToBuffer: as many bytes as fit go into the buffer, and a
\* full buffer becomes a package.
LEMMA AddEffect ==
    ASSUME bdtAddToBuffer, buf \in Bufs, NEW x \in Seq(Bytes), Head(todo).bytes = x,
           NEW m \in Nat, Head(todo).max = m, Len(buf.data) <= m
    PROVE  \E l \in 0..Len(x) :
             LET y == SubSeq(x, 1, l)
                 q == SubSeq(x, l + 1, Len(x))
             IN /\ Len(buf.data) + l <= m
                /\ \/ l = Len(x) /\ todo' = Tail(todo)
                   \/ /\ l # Len(x) /\ Len(buf.data) + Len(x) > m
                      /\ todo' = <<[Head(todo) EXCEPT !.bytes = q]>> \o Tail(todo)
                /\ \/ Stays /\ buf' = [data |-> buf.data \o y, plain |-> buf.plain]
                   \/ Sends(buf.data \o y, buf.plain) /\ buf' = [data |-> << >>, plain |-> buf.plain]
<1> DEFINE room == m - Len(buf.data)
           l == IF Len(x) < room THEN Len(x) ELSE room
           y == SubSeq(x, 1, l)
           q == SubSeq(x, l + 1, Len(x))
           b == [buf EXCEPT !.data = @ \o y]
<1>1. /\ ~Sending /\ Unchanged
      /\ todo' = IF l = Len(x) THEN Tail(todo) ELSE <<[Head(todo) EXCEPT !.bytes = q]>> \o Tail(todo)
      /\ IF x # << >> /\ Len(b.data) = m THEN bdtSendBuffer(b)
         ELSE buf' = b /\ UNCHANGED <<package, bdtSeqNum, sent>>
  <2>1. [Head(todo) EXCEPT !.bytes = SubSeq(@, l + 1, Len(@))] = [Head(todo) EXCEPT !.bytes = q]
    OBVIOUS
  <2> QED BY <2>1 DEF bdtAddToBuffer
<1>2. buf.data \in Seq(Bytes) /\ buf.plain \in BOOLEAN /\ buf = [data |-> buf.data, plain |-> buf.plain]
  BY DEF Bufs
<1>3. /\ l \in 0..Len(x) /\ Len(buf.data) + l <= m /\ l \in Nat
      /\ (l # Len(x) => Len(buf.data) + Len(x) > m)
  <2>1. Len(x) \in Nat /\ Len(buf.data) \in Nat
    BY <1>2
  <2> QED BY <2>1, Fitting
<1> HIDE DEF l
<1>4. y \in Seq(Bytes)
  BY <1>3, CutBytes
<1> HIDE DEF y, q
<1>5. b = [data |-> buf.data \o y, plain |-> buf.plain] /\ b \in Bufs
  <2>1. buf.data \o y \in Seq(Bytes)
    BY <1>2, <1>4
  <2>2. PICK v \in Seq(Bytes) : v = buf.data \o y
    BY <2>1
  <2>3. b = [buf EXCEPT !.data = v]
    BY <2>2
  <2>4. [buf EXCEPT !.data = v] = [data |-> v, plain |-> buf.plain]
    BY <1>2
  <2>5. [data |-> v, plain |-> buf.plain] \in Bufs
    BY <1>2, <2>2 DEF Bufs
  <2> QED BY <2>2, <2>3, <2>4, <2>5
<1> HIDE DEF b
<1>6. b.data = buf.data \o y /\ b.plain = buf.plain
  BY <1>5
<1>7. \/ Stays /\ buf' = [data |-> buf.data \o y, plain |-> buf.plain]
      \/ Sends(buf.data \o y, buf.plain) /\ buf' = [data |-> << >>, plain |-> buf.plain]
  <2>1. CASE bdtSendBuffer(b)
    <3>1. Sends(b.data, b.plain) /\ buf' = [data |-> << >>, plain |-> b.plain]
      BY <1>1, <1>5, <2>1, SendBufferSends
    <3> QED BY <1>6, <3>1
  <2>2. CASE buf' = b /\ UNCHANGED <<package, bdtSeqNum, sent>>
    BY <1>1, <1>5, <2>2 DEF Stays
  <2> QED BY <1>1, <2>1, <2>2
<1> QED BY <1>1, <1>3, <1>7 DEF y, q

\* The sender's steps: bytes go from what is to be added into the buffer and from
\* there into packages, and none is lost or doubled.
SenderStep == SenderInv' /\ (Stays \/ \E d \in Seq(Bytes) : \E p \in BOOLEAN : Sends(d, p))

\* The state of the sender in parts.
LEMMA SenderFacts ==
    ASSUME LinkInv, SenderInv
    PROVE  /\ call \in 1..Len(Program) /\ buf \in Bufs /\ Len(buf.data) <= SendMax
           /\ buf.data \in Seq(Bytes) /\ buf.plain \in BOOLEAN
           /\ sent \in Seq(Seq(Bytes)) /\ SendMax \in Nat /\ MAX_LEN \in Nat /\ SendMax <= MAX_LEN
           /\ << >> \in Seq(Bytes) /\ Len(<< >>) = 0
<1>1. sent \in Seq(Seq(Bytes))
  BY LinkFacts
<1>2. SendMax \in Nat /\ MAX_LEN \in Nat /\ SendMax <= MAX_LEN
  BY BdtAssumption
<1>3. << >> \in Seq(Bytes) /\ Len(<< >>) = 0
  OBVIOUS
<1>4. buf \in Bufs /\ call \in 1..Len(Program) /\ Len(buf.data) <= SendMax
  BY DEF SenderInv
<1>5. buf.data \in Seq(Bytes) /\ buf.plain \in BOOLEAN
  BY <1>4 DEF Bufs
<1> QED BY <1>1, <1>2, <1>3, <1>4, <1>5

\* What the sender has to show after a step.
LEMMA SenderAfter ==
    ASSUME LinkInv, SenderInv, UNCHANGED call,
           NEW d \in Seq(Bytes), NEW p \in BOOLEAN, buf' = [data |-> d, plain |-> p], Len(d) <= SendMax,
           NEW q \in Seq(Bytes), SenderAt(todo', d, q),
           FlattenSeq(sent') \o (d \o q) = GivenSoFar
    PROVE  SenderInv'
<1>1. buf'.data = d /\ buf' \in Bufs
  BY DEF Bufs
<1>2. GivenSoFar' = GivenSoFar
  BY GivenSame
<1>3. call' \in 1..Len(Program)
  BY SenderFacts
<1> QED BY <1>1, <1>2, <1>3 DEF SenderInv

\* bdtFlushBuffer sends the buffer unless it is empty.
LEMMA SenderFlush ==
    ASSUME LinkInv, SenderInv, bdtFlushBuffer
    PROVE  SenderStep
<1>1. /\ ~Sending /\ todo # << >> /\ Head(todo).op = "flush" /\ todo' = Tail(todo) /\ UNCHANGED call /\ Unchanged
      /\ IF buf.data # << >> THEN bdtSendBuffer(buf) ELSE UNCHANGED <<package, bdtSeqNum, buf, sent>>
  BY DEF bdtFlushBuffer
<1>2. PICK r \in Seq(Bytes) : SenderAt(todo, buf.data, r) /\ FlattenSeq(sent) \o (buf.data \o r) = GivenSoFar
  BY DEF SenderInv
<1>3. SenderAt(todo', << >>, r)
  BY <1>1, <1>2, FlushStep
<1>4. CASE buf.data # << >>
  <2>1. Sends(buf.data, buf.plain) /\ buf' = [data |-> << >>, plain |-> buf.plain]
    BY <1>1, <1>4, SenderFacts, SendBufferSends
  <2>2. FlattenSeq(sent') \o (<< >> \o r) = FlattenSeq(sent) \o (buf.data \o r)
    <3>1. sent' = Append(sent, buf.data)
      BY <2>1 DEF Sends
    <3> QED BY <1>2, <3>1, SenderFacts, CarryAll
  <2>3. SenderInv'
    <3>1. buf.plain \in BOOLEAN /\ << >> \in Seq(Bytes) /\ Len(<< >>) <= SendMax /\ UNCHANGED call
      BY <1>1, SenderFacts
    <3>2. FlattenSeq(sent') \o (<< >> \o r) = GivenSoFar
      BY <1>2, <2>2, Zenon
    <3> QED BY <1>2, <1>3, <2>1, <3>1, <3>2, SenderAfter
  <2> QED BY <2>1, <2>3, SenderFacts DEF SenderStep
<1>5. CASE buf.data = << >>
  <2>1. Stays /\ UNCHANGED <<buf, sent>>
    BY <1>1, <1>5 DEF Stays
  <2>2. buf' = [data |-> << >>, plain |-> buf.plain]
    BY <1>5, <2>1, SenderFacts DEF Bufs
  <2>3. FlattenSeq(sent') \o (<< >> \o r) = GivenSoFar
    BY <1>2, <1>5, <2>1
  <2>4. SenderInv'
    <3>1. buf.plain \in BOOLEAN /\ << >> \in Seq(Bytes) /\ Len(<< >>) <= SendMax /\ UNCHANGED call
      BY <1>1, SenderFacts
    <3> QED BY <1>2, <1>3, <2>2, <2>3, <3>1, SenderAfter
  <2> QED BY <2>1, <2>4 DEF SenderStep
<1> QED BY <1>4, <1>5

\* A buffer is started when the last one is empty.
LEMMA SenderNew ==
    ASSUME LinkInv, SenderInv, NewBuffer
    PROVE  SenderStep
<1>1. /\ ~Sending /\ todo # << >> /\ Head(todo).op = "new" /\ todo' = Tail(todo) /\ Unchanged
      /\ buf' = [data |-> << >>, plain |-> Head(todo).plain]
      /\ UNCHANGED <<call, bdtSeqNum, package, sent>>
  BY DEF NewBuffer, bdtBufferInit
<1>2. PICK r \in Seq(Bytes) : SenderAt(todo, buf.data, r) /\ FlattenSeq(sent) \o (buf.data \o r) = GivenSoFar
  BY DEF SenderInv
<1>3. buf.data = << >> /\ Head(todo).plain \in BOOLEAN /\ SenderAt(todo', << >>, r)
  BY <1>1, <1>2, NewStep
<1>4. FlattenSeq(sent') \o (<< >> \o r) = GivenSoFar
  BY <1>1, <1>2, <1>3
<1>5. SenderInv'
  BY <1>1, <1>2, <1>3, <1>4, SenderFacts, SenderAfter
<1> QED BY <1>1, <1>5 DEF SenderStep, Stays

\* What a round of bdtAddToBuffer leaves in the buffer and puts on the line.
LEMMA AddCarries ==
    ASSUME LinkInv, SenderInv, UNCHANGED call, NEW y \in Seq(Bytes), NEW q \in Seq(Bytes),
           FlattenSeq(sent) \o (buf.data \o (y \o q)) = GivenSoFar,
           Len(buf.data) + Len(y) <= SendMax,
           SenderAt(todo', buf.data \o y, q), SenderAt(todo', << >>, q),
           \/ Stays /\ buf' = [data |-> buf.data \o y, plain |-> buf.plain]
           \/ Sends(buf.data \o y, buf.plain) /\ buf' = [data |-> << >>, plain |-> buf.plain]
    PROVE  SenderStep
<1>0. buf.data \in Seq(Bytes)
  BY SenderFacts
<1>1. PICK d \in Seq(Bytes) : d = buf.data \o y
  <2>1. buf.data \o y \in Seq(Bytes)
    BY <1>0, ConcatProperties
  <2> QED BY <2>1
<1>2. PICK p \in BOOLEAN : p = buf.plain
  BY SenderFacts
<1>3. Len(d) <= SendMax
  BY <1>0, <1>1, ConcatProperties
<1>4. << >> \in Seq(Bytes) /\ Len(<< >>) <= SendMax
  BY SenderFacts
<1>5. /\ FlattenSeq(Append(sent, d)) \o (<< >> \o q) = FlattenSeq(sent) \o (buf.data \o (y \o q))
      /\ d \o q = buf.data \o (y \o q)
  <2>1. PICK b \in Seq(Bytes) : b = buf.data
    BY SenderFacts
  <2>2. PICK s \in Seq(Seq(Bytes)) : s = sent
    BY SenderFacts
  <2>3. FlattenSeq(Append(s, b \o y)) \o (<< >> \o q) = FlattenSeq(s) \o (b \o (y \o q))
    BY ONLY CarryOut, s \in Seq(Seq(Bytes)), b \in Seq(Bytes), y \in Seq(Bytes), q \in Seq(Bytes), Zenon
  <2>4. (b \o y) \o q = b \o (y \o q)
    BY JoinedBytes
  <2> QED BY <1>1, <2>1, <2>2, <2>3, <2>4
<1>6. CASE Stays /\ buf' = [data |-> buf.data \o y, plain |-> buf.plain]
  <2>1. buf' = [data |-> d, plain |-> p] /\ sent' = sent
    BY <1>1, <1>2, <1>6 DEF Stays
  <2>2. FlattenSeq(sent') \o (d \o q) = GivenSoFar /\ SenderAt(todo', d, q)
    BY <1>1, <1>5, <2>1
  <2>3. SenderInv'
    BY <1>3, <2>1, <2>2, SenderAfter
  <2> QED BY <1>6, <2>3 DEF SenderStep
<1>7. CASE Sends(buf.data \o y, buf.plain) /\ buf' = [data |-> << >>, plain |-> buf.plain]
  <2>1. buf' = [data |-> << >>, plain |-> p] /\ sent' = Append(sent, d) /\ Sends(d, p)
    BY <1>1, <1>2, <1>7 DEF Sends
  <2>2. FlattenSeq(sent') \o (<< >> \o q) = GivenSoFar
    BY <1>5, <2>1
  <2>3. SenderInv'
    BY <1>4, <2>1, <2>2, SenderAfter
  <2> QED BY <2>1, <2>3 DEF SenderStep
<1> QED BY <1>6, <1>7

\* bdtAddToBuffer.
LEMMA SenderAdd ==
    ASSUME LinkInv, SenderInv, bdtAddToBuffer
    PROVE  SenderStep
<1>1. ~Sending /\ todo # << >> /\ Head(todo).op = "add" /\ UNCHANGED call
  BY DEF bdtAddToBuffer
<1>2. PICK r \in Seq(Bytes) : SenderAt(todo, buf.data, r) /\ FlattenSeq(sent) \o (buf.data \o r) = GivenSoFar
  BY DEF SenderInv
<1>3. PICK b \in Seq(Bytes) : b = buf.data /\ Len(b) <= SendMax
  BY SenderFacts
<1>4. \/ todo = <<Add(r, SendMax)>>
      \/ \E q \in Seq(Bytes), y \in Seq(Bytes) :
           /\ Head(todo).bytes = y /\ Head(todo).max = MAX_LEN /\ r = y \o q
           /\ Len(b) + Len(y) <= SendMax
           /\ SenderAt(Tail(todo), << >>, q) /\ SenderAt(Tail(todo), b \o y, q)
  BY <1>1, <1>2, <1>3, AddStep
<1>5. CASE todo = <<Add(r, SendMax)>>
  <2>1. Head(todo) = Add(r, SendMax) /\ Tail(todo) = << >>
    BY <1>5
  <2>2. Head(todo).bytes = r /\ Head(todo).max = SendMax
    BY <2>1, StepOps
  <2>3. SendMax \in Nat /\ buf \in Bufs /\ Len(buf.data) <= SendMax
    BY SenderFacts
  <2>4. PICK l \in 0..Len(r) :
             /\ Len(buf.data) + l <= SendMax
             /\ \/ l = Len(r) /\ todo' = Tail(todo)
                \/ /\ l # Len(r) /\ Len(buf.data) + Len(r) > SendMax
                   /\ todo' = <<[Head(todo) EXCEPT !.bytes = SubSeq(r, l + 1, Len(r))]>> \o Tail(todo)
             /\ \/ Stays /\ buf' = [data |-> buf.data \o SubSeq(r, 1, l), plain |-> buf.plain]
                \/ Sends(buf.data \o SubSeq(r, 1, l), buf.plain) /\ buf' = [data |-> << >>, plain |-> buf.plain]
    BY <2>2, <2>3, AddEffect
  <2> DEFINE y == SubSeq(r, 1, l)
             q == SubSeq(r, l + 1, Len(r))
  <2>5. y \in Seq(Bytes) /\ Len(y) = l /\ q \in Seq(Bytes) /\ r = y \o q /\ (l = Len(r) => q = << >>)
    BY CutBytes
  <2> HIDE DEF y, q
  <2>6. SenderAt(todo', buf.data \o y, q) /\ SenderAt(todo', << >>, q)
    <3>1. CASE l = Len(r) /\ todo' = Tail(todo)
      BY <2>1, <2>5, <3>1 DEF SenderAt, AtTail
    <3>2. CASE todo' = <<[Head(todo) EXCEPT !.bytes = q]>> \o Tail(todo)
      <4>1. [Head(todo) EXCEPT !.bytes = q] = Add(q, SendMax)
        BY <2>1 DEF Add
      <4>2. <<Add(q, SendMax)>> \o << >> = <<Add(q, SendMax)>>
        <5>1. \A z : <<z>> \o << >> = <<z>>
          OBVIOUS
        <5> QED BY <5>1
      <4>3. todo' = <<Add(q, SendMax)>>
        BY <2>1, <3>2, <4>1, <4>2
      <4> QED BY <4>3 DEF SenderAt
    <3> QED BY <2>4, <3>1, <3>2 DEF q
  <2>7. /\ Len(buf.data) + Len(y) <= SendMax
        /\ FlattenSeq(sent) \o (buf.data \o (y \o q)) = GivenSoFar
        /\ \/ Stays /\ buf' = [data |-> buf.data \o y, plain |-> buf.plain]
           \/ Sends(buf.data \o y, buf.plain) /\ buf' = [data |-> << >>, plain |-> buf.plain]
    BY <1>2, <2>4, <2>5 DEF y
  <2> QED BY <1>1, <2>5, <2>6, <2>7, AddCarries
<1>6. ASSUME NEW q \in Seq(Bytes), NEW y \in Seq(Bytes),
             Head(todo).bytes = y, Head(todo).max = MAX_LEN, r = y \o q, Len(b) + Len(y) <= SendMax,
             SenderAt(Tail(todo), << >>, q), SenderAt(Tail(todo), b \o y, q)
      PROVE  SenderStep
  <2>1. /\ MAX_LEN \in Nat /\ SendMax \in Nat /\ buf \in Bufs /\ Len(buf.data) <= MAX_LEN /\ SendMax <= MAX_LEN
        /\ Len(buf.data) \in Nat /\ Len(y) \in Nat
    BY SenderFacts
  <2>2. PICK l \in 0..Len(y) :
             /\ Len(buf.data) + l <= MAX_LEN
             /\ \/ l = Len(y) /\ todo' = Tail(todo)
                \/ /\ l # Len(y) /\ Len(buf.data) + Len(y) > MAX_LEN
                   /\ todo' = <<[Head(todo) EXCEPT !.bytes = SubSeq(y, l + 1, Len(y))]>> \o Tail(todo)
             /\ \/ Stays /\ buf' = [data |-> buf.data \o SubSeq(y, 1, l), plain |-> buf.plain]
                \/ Sends(buf.data \o SubSeq(y, 1, l), buf.plain) /\ buf' = [data |-> << >>, plain |-> buf.plain]
    BY <1>6, <2>1, AddEffect
  <2>3. Len(buf.data) + Len(y) <= MAX_LEN /\ Len(buf.data) + Len(y) <= SendMax
    BY <1>3, <1>6, <2>1
  <2>4. l = Len(y) /\ todo' = Tail(todo)
    BY <2>1, <2>2, <2>3
  <2>5. SubSeq(y, 1, l) = y
    BY <2>4, CutBytes
  <2>6. /\ FlattenSeq(sent) \o (buf.data \o (y \o q)) = GivenSoFar
        /\ SenderAt(todo', buf.data \o y, q) /\ SenderAt(todo', << >>, q)
    BY <1>2, <1>3, <1>6, <2>4
  <2>7. \/ Stays /\ buf' = [data |-> buf.data \o y, plain |-> buf.plain]
        \/ Sends(buf.data \o y, buf.plain) /\ buf' = [data |-> << >>, plain |-> buf.plain]
    BY <2>2, <2>5
  <2> QED BY <1>1, <2>3, <2>6, <2>7, AddCarries
<1> QED BY <1>4, <1>5, <1>6

\* Every call of the program has something to send, in bytes.
LEMMA ProgramCalls ==
    ASSUME NEW i \in 1..Len(Program), NEW b, i = 1 => b = << >>
    PROVE  PayloadOf(Program[i]) \in Seq(Bytes) /\ SenderAt(StepsOf(Program[i]), b, PayloadOf(Program[i]))
<1>1. /\ Program \in Seq(Calls) /\ i \in DOMAIN Program
      /\ Program[i].op = "start" => i = 1
      /\ Program[i].op = "chunk" => 1 + Len(Program[i].id) <= SendMax
  BY BdtAssumption
<1>2. PICK x \in Calls : x = Program[i]
  BY <1>1
<1>3. (x.op = "chunk" => 1 + Len(x.id) <= SendMax) /\ (x.op = "start" => b = << >>)
  BY <1>1, <1>2
<1>4. PayloadOf(x) \in Seq(Bytes) /\ SenderAt(StepsOf(x), b, PayloadOf(x))
  BY <1>3, CallForm
<1> QED BY <1>2, <1>4

\* What the calls were given, one call more.
LEMMA GivenGrows ==
    ASSUME NEW n \in Nat, n + 1 <= Len(Program)
    PROVE  FlattenSeq([i \in 1..(n + 1) |-> PayloadOf(Program[i])])
             = FlattenSeq([i \in 1..n |-> PayloadOf(Program[i])]) \o PayloadOf(Program[n + 1])
<1> DEFINE P(i) == PayloadOf(Program[i])
           s == [i \in 1..n |-> P(i)]
           t == [i \in 1..(n + 1) |-> P(i)]
<1>0. Len(Program) \in Nat
  BY BdtAssumption
<1>1. \A i \in 1..Len(Program) : P(i) \in Seq(Bytes)
  <2>1. ASSUME NEW i \in 1..Len(Program) PROVE P(i) \in Seq(Bytes)
    BY ProgramCalls
  <2> QED BY <2>1
<1>2. \A i \in 1..(n + 1) : i \in 1..Len(Program)
  BY <1>0
<1> HIDE DEF P
<1>3. \A i \in 1..(n + 1) : P(i) \in Seq(Bytes)
  BY <1>1, <1>2
<1>4. n + 1 \in 1..(n + 1) /\ \A i \in 1..n : i \in 1..(n + 1)
  OBVIOUS
<1>5. s \in Seq(Seq(Bytes)) /\ Len(s) = n /\ t \in Seq(Seq(Bytes)) /\ Len(t) = n + 1
  BY <1>3, <1>4
<1>6. \A i \in 1..n : t[i] = s[i]
  BY <1>4
<1>7. t[n + 1] = P(n + 1) /\ P(n + 1) \in Seq(Bytes)
  BY <1>3, <1>4
<1> HIDE DEF s, t
<1>8. Append(s, P(n + 1)) = t
  BY <1>5, <1>6, <1>7, IsAppend
<1>9. FlattenSeq(Append(s, P(n + 1))) = FlattenSeq(s) \o P(n + 1)
  BY <1>5, <1>7, FlattenAppend
<1>10. FlattenSeq(t) = FlattenSeq(s) \o P(n + 1)
  BY <1>8, <1>9
<1> QED BY <1>10 DEF P, s, t

\* Nothing is sent at the beginning.
LEMMA SenderInit ==
    ASSUME BdtInit
    PROVE  SenderInv
<1>1. call = 1 /\ todo = StepsOf(Program[1]) /\ buf = [data |-> << >>, plain |-> TRUE] /\ sent = << >>
  BY DEF BdtInit, bdtBufferInit
<1>2. Len(Program) \in Nat /\ 1 <= Len(Program) /\ SendMax \in Nat /\ << >> \in Seq(Bytes) /\ Len(<< >>) = 0
  BY BdtAssumption
<1>3. call \in 1..Len(Program) /\ 1 \in 1..Len(Program)
  BY <1>1, <1>2
<1>4. buf \in Bufs /\ buf.data = << >> /\ Len(buf.data) <= SendMax
  BY <1>1, <1>2 DEF Bufs
<1>5. PICK r \in Seq(Bytes) : r = PayloadOf(Program[1]) /\ SenderAt(todo, << >>, r)
  BY <1>1, <1>3, ProgramCalls
<1>6. GivenSoFar = r
  <2>1. [i \in 1..1 |-> PayloadOf(Program[i])] = <<r>>
    <3>1. \A i \in 1..1 : i = 1
      OBVIOUS
    <3>2. [i \in 1..1 |-> PayloadOf(Program[i])] = [i \in 1..1 |-> r]
      BY <1>5, <3>1
    <3>3. [i \in 1..1 |-> r] = <<r>>
      OBVIOUS
    <3> QED BY <3>2, <3>3
  <2>2. FlattenSeq(<<r>>) = r
    BY FlattenOne
  <2> QED BY <1>1, <2>1, <2>2 DEF GivenSoFar
<1>7. FlattenSeq(<< >>) = << >>
  BY DEF FlattenSeq
<1>8. << >> \o (<< >> \o r) = r
  BY ConcatEmptySeq
<1>9. FlattenSeq(sent) \o (buf.data \o r) = GivenSoFar
  BY <1>1, <1>4, <1>6, <1>7, <1>8
<1> QED BY <1>3, <1>4, <1>5, <1>9 DEF SenderInv

\* With nothing left to do nothing is left to add.
LEMMA SenderDone ==
    ASSUME LinkInv, SenderInv, todo = << >>
    PROVE  FlattenSeq(sent) \o buf.data = GivenSoFar
<1>1. PICK r \in Seq(Bytes) : SenderAt(todo, buf.data, r) /\ FlattenSeq(sent) \o (buf.data \o r) = GivenSoFar
  BY DEF SenderInv
<1>2. r = << >>
  <2>1. \A w : ~AtWord(<< >>, buf.data, r, w)
    BY DEF AtWord
  <2>2. \A id, c : ~AtChunk(<< >>, buf.data, r, id, c)
    BY DEF AtChunk, ChunkId, ChunkHead, ChunkNew, ChunkAll
  <2>3. << >> # <<Add(r, SendMax)>>
    OBVIOUS
  <2> QED BY <1>1, <2>1, <2>2, <2>3 DEF SenderAt
<1>3. buf.data \o << >> = buf.data
  BY SenderFacts, ConcatEmptySeq
<1> QED BY <1>1, <1>2, <1>3

\* The next call is begun.
LEMMA SenderCall ==
    ASSUME LinkInv, SenderInv, NextCall
    PROVE  SenderStep
<1>1. /\ todo = << >> /\ call < Len(Program) /\ call' = call + 1 /\ todo' = StepsOf(Program[call + 1])
      /\ UNCHANGED <<buf, bdtSeqNum, package, sent>> /\ Unchanged
  BY DEF NextCall
<1>2. /\ call \in Nat /\ call >= 1 /\ call + 1 \in 1..Len(Program) /\ call + 1 # 1 /\ call + 1 <= Len(Program)
      /\ call' \in 1..Len(Program)
  <2>1. Len(Program) \in Nat
    BY BdtAssumption
  <2>2. call \in 1..Len(Program)
    BY SenderFacts
  <2> QED BY <1>1, <2>1, <2>2
<1>3. PICK r \in Seq(Bytes) : r = PayloadOf(Program[call + 1]) /\ SenderAt(todo', buf.data, r)
  BY <1>1, <1>2, ProgramCalls
<1>4. GivenSoFar' = GivenSoFar \o r
  BY <1>1, <1>2, <1>3, GivenGrows DEF GivenSoFar
<1>5. FlattenSeq(sent) \o buf.data = GivenSoFar
  BY <1>1, SenderDone
<1>6. (FlattenSeq(sent) \o buf.data) \o r = FlattenSeq(sent) \o (buf.data \o r)
  <2>1. buf.data \in Seq(Bytes)
    BY SenderFacts
  <2>2. FlattenSeq(sent) \in Seq(Bytes)
    <3>1. sent \in Seq(Seq(Bytes)) /\ << >> \in Seq(Bytes)
      BY SenderFacts
    <3> QED BY <3>1, FlattenAppend
  <2> QED BY <2>1, <2>2, JoinedBytes
<1>7. FlattenSeq(sent') \o (buf'.data \o r) = GivenSoFar'
  BY <1>1, <1>4, <1>5, <1>6
<1>8. SenderInv'
  <2>1. buf' \in Bufs /\ Len(buf'.data) <= SendMax /\ SenderAt(todo', buf'.data, r)
    BY <1>1, <1>3, SenderFacts
  <2> QED BY <1>2, <1>3, <1>7, <2>1 DEF SenderInv
<1> QED BY <1>1, <1>8 DEF SenderStep, Stays

\* Steps that are not the sender's calls.
LEMMA SenderSame ==
    ASSUME SenderInv, UNCHANGED <<call, todo, buf, sent>>
    PROVE  SenderInv'
<1>1. GivenSoFar' = GivenSoFar
  BY GivenSame
<1>2. PICK r \in Seq(Bytes) : SenderAt(todo, buf.data, r) /\ FlattenSeq(sent) \o (buf.data \o r) = GivenSoFar
  BY DEF SenderInv
<1>3. SenderAt(todo', buf'.data, r) /\ FlattenSeq(sent') \o (buf'.data \o r) = GivenSoFar'
  BY <1>1, <1>2
<1> QED BY <1>2, <1>3 DEF SenderInv

\* Both halves of the invariant are kept by every step.
LEMMA BdtInductive == LinkInv /\ SenderInv /\ [BdtNext]_bdtVars => LinkInv' /\ SenderInv'
<1> SUFFICES ASSUME LinkInv, SenderInv, [BdtNext]_bdtVars
             PROVE  LinkInv' /\ SenderInv'
  OBVIOUS
<1>1. ASSUME SenderStep PROVE LinkInv' /\ SenderInv'
  <2>1. CASE Stays
    BY <1>1, <2>1, LinkStays DEF SenderStep
  <2>2. CASE \E d \in Seq(Bytes) : \E p \in BOOLEAN : Sends(d, p)
    BY <1>1, <2>2, LinkSends DEF SenderStep
  <2> QED BY <1>1, <2>1, <2>2 DEF SenderStep
<1>2. CASE bdtFlushBuffer
  BY <1>1, <1>2, SenderFlush
<1>3. CASE NewBuffer
  BY <1>1, <1>3, SenderNew
<1>4. CASE bdtAddToBuffer
  BY <1>1, <1>4, SenderAdd
<1>5. CASE NextCall
  BY <1>1, <1>5, SenderCall
<1>6. CASE SendPackage
  BY <1>6, LinkSendPackage, SenderSame DEF SendPackage
<1>7. CASE bdtAck
  BY <1>7, LinkAck, SenderSame DEF bdtAck
<1>8. CASE Arrives
  BY <1>8, LinkArrives, SenderSame DEF Arrives
<1>9. CASE LosesPackage
  BY <1>9, LinkLosesPackage, SenderSame DEF LosesPackage
<1>10. CASE LosesByte
  BY <1>10, LinkLosesByte, SenderSame DEF LosesByte
<1>11. CASE UNCHANGED bdtVars
  BY <1>11, LinkStays, SenderSame DEF bdtVars, Stays, Unchanged
<1> QED BY <1>2, <1>3, <1>4, <1>5, <1>6, <1>7, <1>8, <1>9, <1>10, <1>11 DEF BdtNext

\* What the other side has taken is the beginning of what was sent, and all of
\* it when nothing is under way.
LEMMA LinkDelivers ==
    ASSUME LinkInv, NoTurn
    PROVE  IsPrefix(received, sent) /\ (~Sending => received = sent)
<1>1. received \in Seq(Seq(Bytes)) /\ sent \in Seq(Seq(Bytes)) /\ Len(received) \in Nat /\ Len(sent) \in Nat
  BY LinkFacts
<1>2. Delivery
  BY DEF LinkInv
<1>3. ~Sending => received = sent
  BY <1>2 DEF Delivery, Quiet
<1>4. Len(received) <= Len(sent) /\ \A i \in 1..Len(received) : received[i] = sent[i]
  <2>1. CASE received = sent
    BY <1>1, <2>1
  <2>2. CASE Waiting
    BY <1>1, <2>2 DEF Waiting
  <2> QED BY <1>2, <2>1, <2>2 DEF Delivery, Quiet, Taken
<1>5. SubSeq(sent, 1, Len(received)) = SubSeq(received, 1, Len(received))
  BY <1>1, <1>4
<1> QED BY <1>3, <1>4, <1>5 DEF IsPrefix

\* Every byte reaches the other side once and in order, and none of what the
\* calls are given is lost or doubled on its way into packages, for every
\* program of calls, every loss of packages and of bytes of acknowledgements,
\* and every length of the line (bdt.c 197-302).
THEOREM TransmissionInOrder == BdtSpec => []BdtInOrder
<1>1. BdtInit => LinkInv /\ SenderInv
  BY LinkInit, SenderInit
<1>2. (LinkInv /\ SenderInv) /\ [BdtNext]_bdtVars => (LinkInv /\ SenderInv)'
  BY BdtInductive
<1>3. LinkInv /\ SenderInv => BdtInOrder
  BY LinkDelivers, SenderDone DEF BdtInOrder
<1> QED BY <1>1, <1>2, <1>3, PTL DEF BdtSpec
=============================================================================
