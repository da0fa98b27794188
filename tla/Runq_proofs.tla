---------------------------- MODULE Runq_proofs ----------------------------
(***************************************************************************)
(* Facts about the run queue primitives that the invariance proofs of the  *)
(* modules built on Runq share.                                            *)
(***************************************************************************)
EXTENDS Runq, TLAPS

-----------------------------------------------------------------------------
(* Lists as sequences.                                                     *)

\* Appending to a list adds the element at the end and nothing else.
LEMMA AppendFacts ==
    ASSUME NEW S, NEW s \in Seq(S), NEW e \in S
    PROVE  /\ Append(s, e) \in Seq(S)
           /\ Append(s, e) # << >>
           /\ Range(Append(s, e)) = Range(s) \cup {e}
           /\ NoDuplicates(s) /\ e \notin Range(s) => NoDuplicates(Append(s, e))
<1> DEFINE r == Append(s, e)
<1>1. /\ r \in Seq(S) /\ Len(r) = Len(s) + 1 /\ DOMAIN r = 1 .. (Len(s) + 1)
      /\ \A i \in 1 .. Len(s) : r[i] = s[i]
      /\ r[Len(s) + 1] = e
      /\ DOMAIN s = 1 .. Len(s) /\ Len(s) \in Nat
  OBVIOUS
<1>2. r # << >>
  BY <1>1
<1>3. Range(r) = Range(s) \cup {e}
  <2> HIDE DEF r
  <2>1. \A x : x \in Range(r) <=> x \in Range(s) \cup {e}
    BY <1>1 DEF Range
  <2> QED BY <2>1
<1>4. ASSUME NoDuplicates(s), e \notin Range(s) PROVE NoDuplicates(r)
  <2> HIDE DEF r
  <2> QED BY <1>1, <1>4 DEF NoDuplicates, Range
<1> QED BY <1>1, <1>2, <1>3, <1>4

\* Taking the head off a list removes the first element and nothing else.
LEMMA TailFacts ==
    ASSUME NEW S, NEW s \in Seq(S), s # << >>
    PROVE  /\ Head(s) \in S /\ Head(s) \in Range(s)
           /\ Tail(s) \in Seq(S)
           /\ Range(Tail(s)) \subseteq Range(s)
           /\ NoDuplicates(s) => /\ Range(Tail(s)) = Range(s) \ {Head(s)}
                                 /\ NoDuplicates(Tail(s))
<1> DEFINE r == Tail(s)
<1>1. /\ Len(s) \in Nat /\ Len(s) >= 1 /\ DOMAIN s = 1 .. Len(s)
      /\ Head(s) = s[1] /\ s[1] \in S
      /\ r \in Seq(S) /\ DOMAIN r = 1 .. (Len(s) - 1)
      /\ \A i \in 1 .. (Len(s) - 1) : r[i] = s[i + 1]
  OBVIOUS
<1> HIDE DEF r
<1>2. Head(s) \in Range(s)
  BY <1>1 DEF Range
<1>3. Range(r) \subseteq Range(s)
  BY <1>1 DEF Range
<1>4. ASSUME NoDuplicates(s) PROVE Range(r) = Range(s) \ {Head(s)} /\ NoDuplicates(r)
  <2>1. ASSUME NEW x \in Range(r) PROVE x \in Range(s) /\ x # Head(s)
    BY <1>1, <1>4, <2>1 DEF Range, NoDuplicates
  <2>2. ASSUME NEW x \in Range(s), x # Head(s) PROVE x \in Range(r)
    <3>1. PICK i \in 1 .. Len(s) : s[i] = x
      BY <1>1 DEF Range
    <3>2. i - 1 \in 1 .. (Len(s) - 1) /\ r[i - 1] = x
      BY <1>1, <2>2, <3>1
    <3> QED BY <1>1, <3>2 DEF Range
  <2>3. NoDuplicates(r)
    BY <1>1, <1>4 DEF NoDuplicates
  <2> QED BY <2>1, <2>2, <2>3
<1> QED BY <1>1, <1>2, <1>3, <1>4 DEF r

\* Unlinking a domain removes it and nothing else.
LEMMA UnlinkFacts ==
    ASSUME NEW s \in Seq(Domains), NEW d \in Domains, NoDuplicates(s)
    PROVE  LET r == domainrunq_remove_domain(s, d) IN
           /\ r \in Seq(Domains)
           /\ Range(r) = Range(s) \ {d}
           /\ NoDuplicates(r)
<1> DEFINE r == domainrunq_remove_domain(s, d)
<1>1. CASE d \notin Range(s)
  BY <1>1 DEF domainrunq_remove_domain
<1>2. CASE d \in Range(s)
  <2> DEFINE first(i) == s[i] = d /\ \A j \in DOMAIN s : s[j] = d => i <= j
             i == CHOOSE i \in DOMAIN s : first(i)
             q == [j \in 1 .. (Len(s) - 1) |-> IF j < i THEN s[j] ELSE s[j + 1]]
  <2>1. Len(s) \in Nat /\ DOMAIN s = 1 .. Len(s) /\ \A j \in DOMAIN s : s[j] \in Domains
    OBVIOUS
  <2>2. \E k \in DOMAIN s : first(k)
    <3>1. PICK k \in DOMAIN s : s[k] = d
      BY <1>2 DEF Range
    <3> QED BY <2>1, <3>1 DEF NoDuplicates
  <2>3. i \in 1 .. Len(s) /\ s[i] = d
    <3>1. i \in DOMAIN s /\ first(i)
      <4> HIDE DEF first
      <4> QED BY <2>2
    <3> QED BY <2>1, <3>1
  <2>4. r = q
    BY <1>2 DEF domainrunq_remove_domain
  <2> HIDE DEF i, r
  <2>5. Len(s) - 1 \in Nat /\ q \in [1 .. (Len(s) - 1) -> Domains]
    BY <2>1, <2>3
  <2>6. q \in Seq(Domains) /\ DOMAIN q = 1 .. (Len(s) - 1)
    BY <2>5
  <2>7. ASSUME NEW x \in Range(q) PROVE x \in Range(s) /\ x # d
    BY <2>1, <2>3, <2>6, <2>7 DEF Range, NoDuplicates
  <2>8. ASSUME NEW x \in Range(s), x # d PROVE x \in Range(q)
    <3>1. PICK k \in 1 .. Len(s) : s[k] = x
      BY <2>1 DEF Range
    <3>2. CASE k < i
      <4>1. k \in DOMAIN q /\ q[k] = x
        BY <2>1, <2>3, <2>6, <3>1, <3>2
      <4> QED BY <4>1 DEF Range
    <3>3. CASE k > i
      <4>1. k - 1 \in DOMAIN q /\ q[k - 1] = x
        BY <2>1, <2>3, <2>6, <3>1, <3>3
      <4> QED BY <4>1 DEF Range
    <3>4. k # i
      BY <2>3, <2>8, <3>1
    <3> QED BY <2>3, <3>1, <3>2, <3>3, <3>4
  <2>9. NoDuplicates(q)
    BY <2>1, <2>3, <2>6 DEF NoDuplicates
  <2> HIDE DEF q
  <2>10. Range(q) = Range(s) \ {d}
    BY <2>7, <2>8
  <2> QED BY <2>4, <2>6, <2>9, <2>10 DEF r
<1> QED BY <1>1, <1>2
-----------------------------------------------------------------------------
(* The two levels together.                                                *)

\* The shape of the queues; rq and dq may be those in the middle of an operation.
QueueTypes(rq, dq) == rq \in [Domains -> Seq(Threads)] /\ dq \in Seq(Domains)
QueuesOK(rq, dq, cd) ==
    QueueTypes(rq, dq) /\ ThreadQueuesOK(rq) /\ DomainQueueOK(rq, dq, cd)

\* The elements of a list are the values of its positions.
LEMMA RangeElements ==
    ASSUME NEW s
    PROVE  \A i \in DOMAIN s : s[i] \in Range(s)
BY DEF Range

\* A queued thread is in the queue of its own domain, which is nonempty.
LEMMA QueuedFacts ==
    ASSUME NEW rq, NEW dq, QueueTypes(rq, dq), ThreadQueuesOK(rq)
    PROVE  /\ \A d \in Domains : \A x \in Range(rq[d]) :
                 x \in Threads /\ Dom[x] = d /\ x \in Queued(rq)
           /\ \A x \in Queued(rq) : x \in Range(rq[Dom[x]]) /\ rq[Dom[x]] # << >>
<1>1. \A d \in Domains : \A i \in DOMAIN rq[d] : rq[d][i] \in Threads
  BY DEF QueueTypes
<1>2. \A d \in Domains : \A x \in Range(rq[d]) : x \in Threads /\ Dom[x] = d
  BY <1>1 DEF ThreadQueuesOK, Range
<1>3. Range(<< >>) = {}
  BY DEF Range
<1> QED BY <1>2, <1>3 DEF Queued

\* Appending t while domain cd runs puts the domain of t on the domain queue too.
BecomesRunnable(rq, t, cd) == rq[Dom[t]] = << >> /\ cd # Dom[t]

\* A thread that is not queued yet is appended while domain cd runs: its domain
\* was not in the domain queue if it has to be put there, the thread is queued
\* and both levels stay consistent.
LEMMA AppendCore ==
    ASSUME NEW rq, NEW dq, NEW t \in Threads, NEW cd \in Domains,
           QueuesOK(rq, dq, cd), t \notin Queued(rq)
    PROVE  /\ BecomesRunnable(rq, t, cd) => Dom[t] \notin Range(dq)
           /\ QueuesOK(threadrunq_append(rq, t),
                       IF BecomesRunnable(rq, t, cd) THEN Append(dq, Dom[t]) ELSE dq, cd)
           /\ Queued(threadrunq_append(rq, t)) = Queued(rq) \cup {t}
<1> DEFINE D == Dom[t]
           r == threadrunq_append(rq, t)
           q == IF BecomesRunnable(rq, t, cd) THEN Append(dq, D) ELSE dq
<1>1. D \in Domains
  BY RunqAssumption
<1>2. /\ rq \in [Domains -> Seq(Threads)] /\ dq \in Seq(Domains)
      /\ rq[D] \in Seq(Threads)
  BY <1>1 DEF QueuesOK, QueueTypes
<1>3. /\ r \in [Domains -> Seq(Threads)]
      /\ r[D] = Append(rq[D], t)
      /\ \A d \in Domains \ {D} : r[d] = rq[d]
  BY <1>1, <1>2 DEF threadrunq_append
<1>4. t \notin Range(rq[D])
  BY DEF Queued
<1>5. /\ r[D] # << >>
      /\ Range(r[D]) = Range(rq[D]) \cup {t}
      /\ NoDuplicates(r[D])
  <2>1. NoDuplicates(rq[D])
    BY <1>1 DEF QueuesOK, ThreadQueuesOK
  <2>2. /\ Append(rq[D], t) # << >>
        /\ Range(Append(rq[D], t)) = Range(rq[D]) \cup {t}
        /\ NoDuplicates(rq[D]) /\ t \notin Range(rq[D]) => NoDuplicates(Append(rq[D], t))
    BY <1>2, AppendFacts, Zenon
  <2> QED BY <1>3, <1>4, <2>1, <2>2
<1>6. BecomesRunnable(rq, t, cd) => D \notin Range(dq)
  BY <1>1 DEF BecomesRunnable, QueuesOK, DomainQueueOK
<1>7. /\ q \in Seq(Domains)
      /\ NoDuplicates(q)
      /\ Range(q) = IF rq[D] = << >> /\ cd # D THEN Range(dq) \cup {D} ELSE Range(dq)
  <2>1. NoDuplicates(dq)
    BY DEF QueuesOK, DomainQueueOK
  <2>2. /\ Append(dq, D) \in Seq(Domains)
        /\ Range(Append(dq, D)) = Range(dq) \cup {D}
        /\ NoDuplicates(dq) /\ D \notin Range(dq) => NoDuplicates(Append(dq, D))
    <3> HIDE DEF D, q, r
    <3> QED BY <1>1, <1>2, AppendFacts, Zenon
  <2> QED BY <1>2, <1>6, <2>1, <2>2 DEF BecomesRunnable
<1> HIDE DEF r, q, D
<1>8. ThreadQueuesOK(r)
  <2>1. \A d \in Domains : \A x \in Range(rq[d]) : Dom[x] = d
    BY QueuedFacts DEF QueuesOK
  <2>2. ASSUME NEW d \in Domains
        PROVE  NoDuplicates(r[d]) /\ \A x \in Range(r[d]) : Dom[x] = d
    <3>1. CASE d = D
      BY <1>1, <1>5, <2>1, <3>1 DEF D
    <3>2. CASE d # D
      BY <1>3, <2>1, <3>2 DEF QueuesOK, ThreadQueuesOK
    <3> QED BY <3>1, <3>2
  <2> QED BY <2>2, RangeElements DEF ThreadQueuesOK
<1>9. DomainQueueOK(r, q, cd)
  <2> SUFFICES ASSUME NEW d \in Domains
               PROVE  d \in Range(q) <=> (r[d] # << >> /\ d # cd)
    BY <1>7 DEF DomainQueueOK
  <2>1. d \in Range(dq) <=> (rq[d] # << >> /\ d # cd)
    BY DEF QueuesOK, DomainQueueOK
  <2>2. CASE d = D
    BY <1>5, <1>7, <2>1, <2>2
  <2>3. CASE d # D
    BY <1>3, <1>7, <2>1, <2>3
  <2> QED BY <2>2, <2>3
<1>10. Queued(r) = Queued(rq) \cup {t}
  <2> SUFFICES ASSUME NEW x \in Threads
               PROVE  x \in Range(r[Dom[x]]) <=> x \in Range(rq[Dom[x]]) \/ x = t
    BY DEF Queued
  <2>1. Dom[x] \in Domains
    BY RunqAssumption
  <2>2. CASE Dom[x] = D
    BY <1>5, <2>2
  <2>3. CASE Dom[x] # D
    BY <1>3, <2>1, <2>3 DEF D
  <2> QED BY <2>2, <2>3
<1> QED
  BY <1>3, <1>6, <1>7, <1>8, <1>9, <1>10 DEF QueuesOK, QueueTypes, r, q, D

\* Sched_created and Sched_unblocked, for a thread that is not queued yet.
LEMMA AppendQueues ==
    ASSUME NEW rq, NEW dq, NEW t \in Threads, curthr \in Threads,
           QueuesOK(rq, dq, curdom), t \notin Queued(rq)
    PROVE  /\ AppendAssert(rq, dq, t)
           /\ QueuesOK(threadrunq_append(rq, t), DomqAfterAppend(rq, dq, t), curdom)
           /\ Queued(threadrunq_append(rq, t)) = Queued(rq) \cup {t}
           /\ curdom = Dom[t] => DomqAfterAppend(rq, dq, t) = dq
<1>1. curdom \in Domains
  BY RunqAssumption DEF curdom
<1>2. /\ BecomesRunnable(rq, t, curdom) => Dom[t] \notin Range(dq)
      /\ QueuesOK(threadrunq_append(rq, t),
                  IF BecomesRunnable(rq, t, curdom) THEN Append(dq, Dom[t]) ELSE dq, curdom)
      /\ Queued(threadrunq_append(rq, t)) = Queued(rq) \cup {t}
  BY <1>1, AppendCore, Zenon
<1> QED
  BY <1>2 DEF BecomesRunnable, AppendAssert, DomqAfterAppend, domainrunq_append

\* runqueue_removeFirstOrNULL, called when the queues are consistent and every
\* queued thread is RUNNABLE: no assertion fires, the debug scan changes no
\* state, and either nothing is queued and nothing changes, or a queued thread
\* is taken out and the queues are consistent for its domain.
RemoveFirstResult(rq, dq, R) ==
    \/ R.next = NoThread /\ Queued(rq) = {} /\ R.rq = rq /\ R.dq = dq
    \/ /\ R.next \in Queued(rq)
       /\ QueuesOK(R.rq, R.dq, Dom[R.next])
       /\ Queued(R.rq) = Queued(rq) \ {R.next}

\* The debug scan stores RUNNABLE in threads that are RUNNABLE.
LEMMA ScanHarmless ==
    ASSUME NEW st \in [Threads -> ThreadStates], NEW rq, NEW dq,
           QueueTypes(rq, dq), ThreadQueuesOK(rq),
           \A x \in Queued(rq) : st[x] = RUNNABLE
    PROVE  check_completerunnable(rq, st) = st
<1>1. ASSUME NEW x \in Threads, rq[Dom[x]] # << >>, x = Head(rq[Dom[x]])
      PROVE  st[x] = RUNNABLE
  <2>1. Dom[x] \in Domains /\ rq[Dom[x]] \in Seq(Threads)
    BY RunqAssumption DEF QueueTypes
  <2>2. x \in Range(rq[Dom[x]])
    BY <1>1, <2>1, TailFacts
  <2> QED BY <2>2 DEF Queued
<1> QED BY <1>1 DEF check_completerunnable

\* Taking the first thread of the first domain (or of the running one) off
\* consistent queues meets every assertion of runqueue_removeFirstOrNULL, and
\* leaves the queues it promises.
LEMMA RemoveFirst ==
    ASSUME NEW st \in [Threads -> ThreadStates], NEW rq, NEW dq, curthr \in Threads,
           QueuesOK(rq, dq, curdom),
           \A x \in Queued(rq) : st[x] = RUNNABLE
    PROVE  /\ RemoveFirstAsserts(st, rq, dq)
           /\ RemoveFirstResult(rq, dq, runqueue_removeFirstOrNULL(rq, dq))
<1> DEFINE d == IF dq = << >> THEN curdom ELSE Head(dq)
           h == Head(rq[d])
           R == runqueue_removeFirstOrNULL(rq, dq)
           r == threadrunq_remove(rq, d)
           q == IF dq = << >> THEN dq
                ELSE IF rq[curdom] # << >> THEN Append(Tail(dq), curdom) ELSE Tail(dq)
<1>1. curdom \in Domains
  BY RunqAssumption DEF curdom
<1>2. /\ rq \in [Domains -> Seq(Threads)] /\ dq \in Seq(Domains)
      /\ NoDuplicates(dq)
      /\ \A e \in Domains : e \in Range(dq) <=> (rq[e] # << >> /\ e # curdom)
      /\ \A e \in Domains : NoDuplicates(rq[e])
  BY DEF QueuesOK, QueueTypes, DomainQueueOK, ThreadQueuesOK
<1>3. Range(<< >>) = {}
  BY DEF Range
<1>4. dq # << >> => /\ Head(dq) \in Domains /\ Head(dq) \in Range(dq)
                    /\ Tail(dq) \in Seq(Domains)
                    /\ Range(Tail(dq)) = Range(dq) \ {Head(dq)}
                    /\ NoDuplicates(Tail(dq))
  BY <1>2, TailFacts, Zenon
<1>5. d \in Domains /\ rq[d] \in Seq(Threads)
  BY <1>1, <1>2, <1>4
<1>6. \A e \in Domains : \A x \in Range(rq[e]) : x \in Threads /\ Dom[x] = e /\ x \in Queued(rq)
  BY QueuedFacts DEF QueuesOK
<1>7. dq # << >> => rq[d] # << >> /\ d # curdom
  BY <1>2, <1>4
<1>8. /\ q \in Seq(Domains)
      /\ NoDuplicates(q)
      /\ \A e \in Domains :
            e \in Range(q) <=> /\ e # d
                              /\ rq[e] # << >>
  <2>1. CASE dq = << >>
    BY <1>2, <1>3, <2>1
  <2>2. CASE dq # << >> /\ rq[curdom] # << >>
    <3>1. curdom \notin Range(Tail(dq))
      BY <1>1, <1>2, <1>4, <2>2
    <3>2. /\ Append(Tail(dq), curdom) \in Seq(Domains)
          /\ Range(Append(Tail(dq), curdom)) = Range(Tail(dq)) \cup {curdom}
          /\ NoDuplicates(Append(Tail(dq), curdom))
      <4>1. Tail(dq) \in Seq(Domains) /\ NoDuplicates(Tail(dq))
        BY <1>4, <2>2
      <4> HIDE DEF d, h, R, r, q
      <4> QED BY <1>1, <3>1, <4>1, AppendFacts, Zenon
    <3> QED BY <1>2, <1>4, <1>7, <2>2, <3>2
  <2>3. CASE dq # << >> /\ rq[curdom] = << >>
    BY <1>2, <1>4, <2>3
  <2> QED BY <2>1, <2>2, <2>3
<1>9. R = [next |-> IF rq[d] = << >> THEN NoThread ELSE h,
           rq |-> IF rq[d] = << >> THEN rq ELSE r,
           dq |-> q]
  BY DEF runqueue_removeFirstOrNULL, domainrunq_append
<1>10. /\ \A e \in Domains \ {curdom} : rq[e] # << >> => e \in Range(dq)
       /\ dq # << >> => Head(dq) # curdom
       /\ dq # << >> => rq[Head(dq)] # << >>
       /\ dq # << >> /\ rq[curdom] # << >> => curdom \notin Range(Tail(dq))
  BY <1>1, <1>2, <1>4, <1>7
<1>11. check_completerunnable(rq, st) = st
  BY ScanHarmless DEF QueuesOK
<1> HIDE DEF d, h, R, r, q
<1>12. CASE rq[d] = << >>
  <2>1. dq = << >> /\ q = << >>
    BY <1>7, <1>12 DEF q
  <2>2. \A e \in Domains : rq[e] = << >>
    BY <1>2, <1>3, <1>12, <2>1 DEF d
  <2>3. Queued(rq) = {}
    BY <1>3, <2>2, RunqAssumption DEF Queued
  <2>4. R = [next |-> NoThread, rq |-> rq, dq |-> dq]
    BY <1>9, <1>12, <2>1
  <2>5. \A e \in Domains : NoThread \notin Range(rq[e])
    BY <1>3, <2>2
  <2>6. RemoveFirstAsserts(st, rq, dq)
    BY <1>1, <1>10, <1>12, <2>1, <2>4, <2>5, <1>3 DEF RemoveFirstAsserts, d, R
  <2> QED BY <2>3, <2>4, <2>6 DEF RemoveFirstResult, R
<1>13. CASE rq[d] # << >>
  <2>1. /\ h \in Range(rq[d])
        /\ Tail(rq[d]) \in Seq(Threads)
        /\ Range(Tail(rq[d])) = Range(rq[d]) \ {h}
        /\ NoDuplicates(Tail(rq[d]))
    <3>1. NoDuplicates(rq[d])
      BY <1>2, <1>5
    <3> QED BY <1>5, <1>13, <3>1, TailFacts, Zenon DEF h
  <2>2. h \in Threads /\ Dom[h] = d /\ h \in Queued(rq) /\ st[h] = RUNNABLE
    BY <1>5, <1>6, <2>1
  <2>3. /\ r \in [Domains -> Seq(Threads)]
        /\ r[d] = Tail(rq[d])
        /\ \A e \in Domains \ {d} : r[e] = rq[e]
    BY <1>2, <1>5, <2>1 DEF r, threadrunq_remove
  <2>4. R = [next |-> h, rq |-> r, dq |-> q]
    BY <1>9, <1>13
  <2>5. ASSUME NEW e \in Domains
        PROVE  /\ NoDuplicates(r[e])
               /\ \A x \in Range(r[e]) : Dom[x] = e
               /\ h \notin Range(r[e])
    <3>1. CASE e = d
      BY <1>6, <2>1, <2>3, <3>1
    <3>2. CASE e # d
      BY <1>2, <1>6, <2>2, <2>3, <3>2
    <3> QED BY <3>1, <3>2
  <2>6. ThreadQueuesOK(r)
    BY <2>5, RangeElements DEF ThreadQueuesOK
  <2>7. DomainQueueOK(r, q, d)
    BY <1>8, <2>3 DEF DomainQueueOK
  <2>8. Queued(r) = Queued(rq) \ {h}
    <3> SUFFICES ASSUME NEW x \in Threads
                 PROVE  x \in Range(r[Dom[x]]) <=> x \in Range(rq[Dom[x]]) /\ x # h
      BY DEF Queued
    <3>1. Dom[x] \in Domains
      BY RunqAssumption
    <3>2. CASE Dom[x] = d
      BY <2>1, <2>3, <3>2
    <3>3. CASE Dom[x] # d
      BY <2>2, <2>3, <3>1, <3>3
    <3> QED BY <3>2, <3>3
  <2>9. RemoveFirstResult(rq, dq, R)
    BY <1>8, <2>2, <2>3, <2>4, <2>6, <2>7, <2>8
       DEF RemoveFirstResult, QueuesOK, QueueTypes
  <2>10. Range(q) \subseteq Domains
    BY <1>8 DEF Range
  <2>11. RemoveFirstAsserts(st, rq, dq)
    BY <1>1, <1>10, <1>11, <2>2, <2>4, <2>5, <2>10 DEF RemoveFirstAsserts, d, h, R
  <2> QED BY <2>9, <2>11 DEF R
<1> QED BY <1>12, <1>13

\* runqueue_removeFirstOrIdle: the idle thread is chosen when nothing is queued.
LEMMA RemoveFirstOrIdle ==
    ASSUME NEW st \in [Threads -> ThreadStates], NEW rq, NEW dq, curthr \in Threads,
           QueuesOK(rq, dq, curdom),
           \A x \in Queued(rq) : st[x] = RUNNABLE
    PROVE  LET R == runqueue_removeFirstOrIdle(rq, dq) IN
           /\ R.next \in Queued(rq) \/ (R.next = IdleThread /\ Queued(rq) = {})
           /\ QueuesOK(R.rq, R.dq, Dom[R.next])
           /\ Queued(R.rq) = Queued(rq) \ {R.next}
<1> DEFINE N == runqueue_removeFirstOrNULL(rq, dq)
           R == runqueue_removeFirstOrIdle(rq, dq)
<1>1. RemoveFirstResult(rq, dq, N)
  BY RemoveFirst
<1>2. /\ R.next = IF N.next = NoThread THEN IdleThread ELSE N.next
      /\ R.rq = N.rq /\ R.dq = N.dq
  BY DEF runqueue_removeFirstOrIdle, runqueue_removeFirstOrNULL
<1> HIDE DEF N, R
<1>3. CASE N.next = NoThread /\ Queued(rq) = {} /\ N.rq = rq /\ N.dq = dq
  <2>1. \A e \in Domains : \A x \in Range(rq[e]) : x \in Queued(rq)
    BY QueuedFacts DEF QueuesOK
  <2>2. ASSUME NEW e \in Domains PROVE rq[e] = << >>
    <3>1. rq[e] \in Seq(Threads)
      BY DEF QueuesOK, QueueTypes
    <3> QED BY <1>3, <2>1, <3>1, TailFacts
  <2>3. dq \in Seq(Domains)
    BY DEF QueuesOK, QueueTypes
  <2>4. Range(dq) \subseteq Domains
    BY <2>3 DEF Range
  <2>5. Range(dq) = {}
    BY <2>2, <2>4 DEF QueuesOK, DomainQueueOK
  <2>6. QueuesOK(rq, dq, Dom[IdleThread])
    BY <2>2, <2>5 DEF QueuesOK, DomainQueueOK
  <2> QED BY <1>2, <1>3, <2>6 DEF R
<1>4. CASE /\ N.next \in Queued(rq)
           /\ QueuesOK(N.rq, N.dq, Dom[N.next])
           /\ Queued(N.rq) = Queued(rq) \ {N.next}
  <2>1. N.next # NoThread
    BY <1>4, RunqAssumption DEF Queued
  <2> QED BY <1>2, <1>4, <2>1 DEF R
<1> QED BY <1>1, <1>3, <1>4 DEF RemoveFirstResult

\* runqueue_switchdomains: the domain that was running is queued if it has
\* runnable threads, the one that takes over leaves the queue.
LEMMA SwitchDomains ==
    ASSUME NEW rq, NEW dq, NEW to \in Domains, curthr \in Threads,
           QueuesOK(rq, dq, curdom), to # curdom
    PROVE  /\ SwitchDomainsAssert(rq, dq)
           /\ QueuesOK(rq, runqueue_switchdomains(rq, dq, to), to)
<1> DEFINE dq1 == IF rq[curdom] # << >> THEN domainrunq_append(dq, curdom) ELSE dq
           q == runqueue_switchdomains(rq, dq, to)
<1>1. curdom \in Domains
  BY RunqAssumption DEF curdom
<1>2. /\ dq \in Seq(Domains) /\ NoDuplicates(dq)
      /\ \A e \in Domains : e \in Range(dq) <=> (rq[e] # << >> /\ e # curdom)
  BY DEF QueuesOK, QueueTypes, DomainQueueOK
<1>3. curdom \notin Range(dq)
  BY <1>1, <1>2
<1>4. /\ dq1 \in Seq(Domains) /\ NoDuplicates(dq1)
      /\ \A e \in Domains : e \in Range(dq1) <=> rq[e] # << >>
  <2>1. /\ Append(dq, curdom) \in Seq(Domains)
        /\ Range(Append(dq, curdom)) = Range(dq) \cup {curdom}
        /\ NoDuplicates(Append(dq, curdom))
    <3> HIDE DEF dq1, q
    <3> QED BY <1>1, <1>2, <1>3, AppendFacts, Zenon
  <2> QED BY <1>1, <1>2, <2>1 DEF domainrunq_append
<1> HIDE DEF dq1
<1>5. LET u == domainrunq_remove_domain(dq1, to) IN
      u \in Seq(Domains) /\ Range(u) = Range(dq1) \ {to} /\ NoDuplicates(u)
  BY <1>4, UnlinkFacts, Zenon
<1>6. q = IF rq[to] # << >> THEN domainrunq_remove_domain(dq1, to) ELSE dq1
  BY DEF runqueue_switchdomains, dq1
<1>7. q \in Seq(Domains) /\ DomainQueueOK(rq, q, to)
  BY <1>4, <1>5, <1>6 DEF DomainQueueOK
<1> QED BY <1>3, <1>7 DEF SwitchDomainsAssert, QueuesOK, QueueTypes

-----------------------------------------------------------------------------
(* Steps.                                                                  *)

\* The run queue is consistent, and every queued thread is RUNNABLE, when the
\* states are st, the queues rq and dq, and thread ct runs.
Consistent(st, rq, dq, ct) ==
    /\ ct \in Threads
    /\ st \in [Threads -> ThreadStates]
    /\ QueuesOK(rq, dq, Dom[ct])
    /\ \A x \in Queued(rq) : st[x] = RUNNABLE

\* A switch to the next thread panics nowhere and changes no state; it takes the
\* new running thread, idle if there is none, out of the queues.
LEMMA SwitchStep ==
    ASSUME NEW st, NEW rq, NEW dq,
           Consistent(st, rq, dq, curthr),
           Sched_switch_to_nextThread(st, rq, dq)
    PROVE  /\ Consistent(state', runq', domq', curthr')
           /\ state' = st /\ panic' = panic
           /\ Queued(runq') = Queued(rq) \ {curthr'}
           /\ curthr' \in Queued(rq) \/ (curthr' = IdleThread /\ Queued(rq) = {})
<1> USE DEF Consistent, curdom
<1>1. RemoveFirstAsserts(st, rq, dq)
  BY RemoveFirst
<1>2. check_completerunnable(rq, st) = st
  BY ScanHarmless DEF QueuesOK
<1> DEFINE R == runqueue_removeFirstOrIdle(rq, dq)
<1>3. /\ R.next \in Queued(rq) \/ (R.next = IdleThread /\ Queued(rq) = {})
      /\ QueuesOK(R.rq, R.dq, Dom[R.next])
      /\ Queued(R.rq) = Queued(rq) \ {R.next}
  BY RemoveFirstOrIdle
<1> HIDE DEF R
<1>4. curthr' = R.next /\ state' = st /\ runq' = R.rq /\ domq' = R.dq /\ panic' = panic
  BY <1>1, <1>2 DEF Sched_switch_to_nextThread, R
<1> QED BY <1>3, <1>4, RunqAssumption DEF Queued

\* threadunblock and Sched_created on a thread that is in no queue.
LEMMA MakeRunnableStep ==
    ASSUME NEW t \in Threads,
           Consistent(state, runq, domq, curthr), t \notin Queued(runq),
           MakeRunnable(t)
    PROVE  /\ Consistent(state', runq', domq', curthr')
           /\ state' = [state EXCEPT ![t] = RUNNABLE]
           /\ curthr' = curthr /\ panic' = panic
           /\ Queued(runq') = Queued(runq) \cup {t}
<1> USE DEF Consistent, curdom
<1>1. /\ AppendAssert(runq, domq, t)
      /\ QueuesOK(threadrunq_append(runq, t), DomqAfterAppend(runq, domq, t), curdom)
      /\ Queued(threadrunq_append(runq, t)) = Queued(runq) \cup {t}
  BY AppendQueues
<1>2. /\ state' = [state EXCEPT ![t] = RUNNABLE]
      /\ runq' = threadrunq_append(runq, t)
      /\ domq' = DomqAfterAppend(runq, domq, t)
      /\ curthr' = curthr /\ panic' = panic
  BY <1>1 DEF MakeRunnable
<1> QED BY <1>1, <1>2 DEF RUNNABLE, ThreadStates, Queued

\* threadyield by a RUNNABLE thread that is in no queue: it is queued, unless it
\* is idle, and the next thread runs.
LEMMA YieldStep ==
    ASSUME Consistent(state, runq, domq, curthr),
           curthr \notin Queued(runq), state[curthr] = RUNNABLE,
           threadyield
    PROVE  LET Q == IF curthr = IdleThread THEN Queued(runq) ELSE Queued(runq) \cup {curthr} IN
           /\ Consistent(state', runq', domq', curthr')
           /\ state' = state /\ panic' = panic
           /\ Queued(runq') = Q \ {curthr'}
           /\ curthr' \in Q \/ (curthr' = IdleThread /\ Q = {})
<1> DEFINE r == IF curthr = IdleThread THEN runq ELSE threadrunq_append(runq, curthr)
           Q == IF curthr = IdleThread THEN Queued(runq) ELSE Queued(runq) \cup {curthr}
<1>1. Queued(r) = Q /\ Consistent(state, r, domq, curthr)
  <2>1. CASE curthr = IdleThread
    BY <2>1
  <2>2. CASE curthr # IdleThread
    <3>1. /\ QueuesOK(threadrunq_append(runq, curthr),
                      DomqAfterAppend(runq, domq, curthr), curdom)
          /\ Queued(threadrunq_append(runq, curthr)) = Queued(runq) \cup {curthr}
          /\ DomqAfterAppend(runq, domq, curthr) = domq
      BY AppendQueues DEF Consistent, curdom
    <3> QED BY <2>2, <3>1 DEF Consistent, curdom
  <2> QED BY <2>1, <2>2
<1>2. Sched_switch_to_nextThread(state, r, domq)
  BY DEF threadyield
<1> HIDE DEF r, Q
<1>3. /\ Consistent(state', runq', domq', curthr')
      /\ state' = state /\ panic' = panic
      /\ Queued(runq') = Queued(r) \ {curthr'}
      /\ curthr' \in Queued(r) \/ (curthr' = IdleThread /\ Queued(r) = {})
  BY <1>1, <1>2, SwitchStep
<1> QED BY <1>1, <1>3 DEF Q

\* threadunblock of a thread that is in no queue, and then the switch, by a
\* running thread whose new state and place are in st and rq already.
LEMMA UnblockStep ==
    ASSUME NEW st, NEW rq, NEW t \in Threads,
           Consistent(st, rq, domq, curthr), t \notin Queued(rq),
           UnblockAndSwitch(st, rq, t)
    PROVE  /\ Consistent(state', runq', domq', curthr')
           /\ state' = [st EXCEPT ![t] = RUNNABLE] /\ panic' = panic
           /\ Queued(runq') = (Queued(rq) \cup {t}) \ {curthr'}
           /\ curthr' \in Queued(rq) \cup {t}
<1> DEFINE st2 == [st EXCEPT ![t] = RUNNABLE]
           r == threadrunq_append(rq, t)
           q == DomqAfterAppend(rq, domq, t)
<1>1. AppendAssert(rq, domq, t) /\ QueuesOK(r, q, curdom) /\ Queued(r) = Queued(rq) \cup {t}
  BY AppendQueues DEF Consistent, curdom
<1>2. Sched_switch_to_nextThread(st2, r, q)
  BY <1>1 DEF UnblockAndSwitch
<1>3. Consistent(st2, r, q, curthr)
  BY <1>1 DEF Consistent, curdom, RUNNABLE, ThreadStates, Queued
<1> HIDE DEF st2, r, q
<1>4. /\ Consistent(state', runq', domq', curthr')
      /\ state' = st2 /\ panic' = panic
      /\ Queued(runq') = Queued(r) \ {curthr'}
      /\ curthr' \in Queued(r) \/ (curthr' = IdleThread /\ Queued(r) = {})
  BY <1>2, <1>3, SwitchStep
<1> QED BY <1>1, <1>4 DEF st2
=============================================================================
