-------------------------- MODULE DispatcherProofs --------------------------
(***************************************************************************)
(* Lemmas on the queues of ReserveQueues, what linking and unlinking a     *)
(* reserve does to the members of a queue and to their order, and on the   *)
(* functions of Zsrmv that change the dispatcher: each yields a            *)
(* dispatcher, adds or removes one member of the ready queue and keeps it  *)
(* sorted, and leaves no timer armed but the head's.                       *)
(***************************************************************************)
EXTENDS ZsrmvProperties, SequenceTheorems, WellFoundedInduction, TLAPS

-----------------------------------------------------------------------------
(***************************************************************************)
(* Queues.                                                                 *)
(***************************************************************************)

\* Earlier members of q are related to later ones by R.
OrderedBy(q, R) ==
  \A i, j \in DOMAIN q : i < j => <<q[i], q[j]>> \in R

Distinct(q) == \A i, j \in DOMAIN q : i < j => q[i] # q[j]

\* k is where the walk along q stops.
StopsAt(q, Later, k) ==
  /\ k \in 1 .. Len(q) + 1
  /\ k <= Len(q) => q[k] \in Later
  /\ \A j \in 1 .. k - 1 : q[j] \notin Later

\* The least-number principle for sets.
LEMMA LeastNat ==
  ASSUME NEW T \in SUBSET Nat, T # {}
  PROVE  \E x \in T : \A y \in T : x <= y
PROOF
<1> DEFINE R == OpToRel(<, Nat)
<1>1. IsWellFoundedOn(R, Nat)
  BY NatLessThanWellFounded
<1>2. \A x, y \in T : y < x => <<y, x>> \in R
  BY DEF OpToRel
<1> HIDE DEF R
<1>3. PICK x \in T : \A y \in T : ~ (<<y, x>> \in R)
  BY <1>1, WFMin
<1>4. \A y \in T : ~ (y < x)
  BY <1>2, <1>3, Zenon
<1>5. QED
  BY <1>4

\* InsertAt, member by member.
LEMMA InsertAtProperties ==
  ASSUME NEW S, NEW q \in Seq(S), NEW r \in S, NEW k \in 1 .. Len(q) + 1
  PROVE  /\ InsertAt(q, k, r) \in Seq(S)
         /\ Len(InsertAt(q, k, r)) = Len(q) + 1
         /\ \A i \in 1 .. Len(q) + 1 :
              InsertAt(q, k, r)[i] = IF i < k THEN q[i]
                                     ELSE IF i = k THEN r ELSE q[i - 1]
PROOF
<1> DEFINE a == SubSeq(q, 1, k - 1)
           b == SubSeq(q, k, Len(q))
           u == <<r>>
           c == a \o u
           d == c \o b
<1>1. /\ a \in Seq(S) /\ Len(a) = k - 1
      /\ \A i \in 1 .. k - 1 : a[i] = q[i]
  BY SubSeqProperties
<1>2. /\ b \in Seq(S) /\ Len(b) = Len(q) - k + 1
      /\ \A i \in 1 .. Len(q) - k + 1 : b[i] = q[k + i - 1]
  BY SubSeqProperties
<1>3. u \in Seq(S) /\ Len(u) = 1 /\ u[1] = r
  OBVIOUS
<1> HIDE DEF a, b, u
<1>4. /\ c \in Seq(S) /\ Len(c) = k
      /\ \A i \in 1 .. k : c[i] = IF i < k THEN a[i] ELSE r
  <2>1. /\ c \in Seq(S) /\ Len(c) = Len(a) + Len(u)
        /\ \A i \in 1 .. Len(a) + Len(u) :
             c[i] = IF i <= Len(a) THEN a[i] ELSE u[i - Len(a)]
    BY <1>1, <1>3, ConcatProperties
  <2>2. QED
    BY <2>1, <1>1, <1>3
<1> HIDE DEF c
<1>5. /\ d \in Seq(S) /\ Len(d) = Len(q) + 1
      /\ \A i \in 1 .. Len(q) + 1 :
           d[i] = IF i <= k THEN c[i] ELSE b[i - k]
  BY <1>2, <1>4, ConcatProperties
<1>6. InsertAt(q, k, r) = d
  BY DEF InsertAt, a, b, c, u
<1> HIDE DEF d
<1>7. QED
  BY <1>1, <1>2, <1>4, <1>5, <1>6

\* RemoveAt, member by member.
LEMMA RemoveAtProperties ==
  ASSUME NEW S, NEW q \in Seq(S), NEW k \in 1 .. Len(q)
  PROVE  /\ RemoveAt(q, k) \in Seq(S)
         /\ Len(RemoveAt(q, k)) = Len(q) - 1
         /\ \A i \in 1 .. Len(q) - 1 :
              RemoveAt(q, k)[i] = IF i < k THEN q[i] ELSE q[i + 1]
PROOF
<1> DEFINE a == SubSeq(q, 1, k - 1)
           b == SubSeq(q, k + 1, Len(q))
           d == a \o b
<1>1. /\ a \in Seq(S) /\ Len(a) = k - 1
      /\ \A i \in 1 .. k - 1 : a[i] = q[i]
  BY SubSeqProperties
<1>2. /\ b \in Seq(S) /\ Len(b) = Len(q) - k
      /\ \A i \in 1 .. Len(q) - k : b[i] = q[k + i]
  BY SubSeqProperties
<1> HIDE DEF a, b
<1>3. /\ d \in Seq(S) /\ Len(d) = Len(q) - 1
      /\ \A i \in 1 .. Len(q) - 1 :
           d[i] = IF i <= k - 1 THEN a[i] ELSE b[i - (k - 1)]
  BY <1>1, <1>2, ConcatProperties
<1>4. RemoveAt(q, k) = d
  BY DEF RemoveAt, a, b
<1> HIDE DEF d
<1>5. QED
  BY <1>1, <1>2, <1>3, <1>4

\* The walk along a queue stops somewhere.
LEMMA SlotProperties ==
  ASSUME NEW S, NEW q \in Seq(S), NEW Later
  PROVE  StopsAt(q, Later, Slot(q, Later))
PROOF
<1> DEFINE T == {k \in 1 .. Len(q) + 1 : k = Len(q) + 1 \/ q[k] \in Later}
<1>1. Len(q) \in Nat
  OBVIOUS
<1>2. T \in SUBSET Nat /\ Len(q) + 1 \in T
  BY <1>1
<1>3. PICK k \in T : \A y \in T : k <= y
  BY <1>2, LeastNat
<1>4. StopsAt(q, Later, k)
  BY <1>1, <1>2, <1>3 DEF StopsAt
<1>5. QED
  BY <1>4 DEF Slot, StopsAt

\* Linking r adds it to the members of the queue.
LEMMA EnqueueMembers ==
  ASSUME NEW S, NEW q \in Seq(S), NEW r \in S, NEW Later
  PROVE  /\ Enqueue(q, Later, r) \in Seq(S)
         /\ Enqueue(q, Later, r) # <<>>
         /\ ToSet(Enqueue(q, Later, r)) = ToSet(q) \cup {r}
PROOF
<1> DEFINE k == Slot(q, Later)
           e == InsertAt(q, k, r)
<1>1. Len(q) \in Nat /\ k \in 1 .. Len(q) + 1
  BY SlotProperties DEF StopsAt
<1>2. Enqueue(q, Later, r) = e
  BY DEF Enqueue
<1> HIDE DEF k
<1>3. /\ e \in Seq(S) /\ Len(e) = Len(q) + 1
      /\ \A i \in 1 .. Len(q) + 1 :
           e[i] = IF i < k THEN q[i] ELSE IF i = k THEN r ELSE q[i - 1]
  BY <1>1, InsertAtProperties
<1> HIDE DEF e
<1>4. ToSet(e) \subseteq ToSet(q) \cup {r}
  BY <1>1, <1>3 DEF ToSet
<1>5. ASSUME NEW i \in DOMAIN q
      PROVE  q[i] \in ToSet(e)
  <2>1. CASE i < k
    BY <1>1, <1>3, <2>1 DEF ToSet
  <2>2. CASE i >= k
    <3>1. i + 1 \in DOMAIN e /\ e[i + 1] = q[i]
      BY <1>1, <1>3, <2>2
    <3>2. QED
      BY <3>1 DEF ToSet
  <2>3. QED
    BY <1>1, <2>1, <2>2
<1>6. r \in ToSet(e)
  BY <1>1, <1>3 DEF ToSet
<1>7. e # <<>>
  BY <1>1, <1>3
<1>8. ToSet(q) \cup {r} \subseteq ToSet(e)
  BY <1>5, <1>6 DEF ToSet
<1>9. QED
  BY <1>3, <1>2, <1>4, <1>7, <1>8

\* A queue stays ordered if r is related to the members before and behind
\* the place where the walk stops.
LEMMA EnqueueOrdered ==
  ASSUME NEW S, NEW q \in Seq(S), NEW r \in S, NEW Later, NEW R,
         OrderedBy(q, R),
         \A k \in 1 .. Len(q) + 1 : StopsAt(q, Later, k) =>
           /\ \A i \in 1 .. k - 1 : <<q[i], r>> \in R
           /\ \A i \in k .. Len(q) : <<r, q[i]>> \in R
  PROVE  OrderedBy(Enqueue(q, Later, r), R)
PROOF
<1> DEFINE k == Slot(q, Later)
           e == InsertAt(q, k, r)
<1>1. Len(q) \in Nat /\ k \in 1 .. Len(q) + 1 /\ StopsAt(q, Later, k)
  BY SlotProperties DEF StopsAt
<1>2. Enqueue(q, Later, r) = e
  BY DEF Enqueue
<1> HIDE DEF k
<1>3. /\ e \in Seq(S) /\ Len(e) = Len(q) + 1
      /\ \A i \in 1 .. Len(q) + 1 :
           e[i] = IF i < k THEN q[i] ELSE IF i = k THEN r ELSE q[i - 1]
  BY <1>1, InsertAtProperties
<1>4. /\ \A i \in 1 .. k - 1 : <<q[i], r>> \in R
      /\ \A i \in k .. Len(q) : <<r, q[i]>> \in R
  BY <1>1
<1> HIDE DEF e
<1>5. ASSUME NEW i \in DOMAIN e, NEW j \in DOMAIN e, i < j
      PROVE  <<e[i], e[j]>> \in R
  <2>1. i \in 1 .. Len(q) + 1 /\ j \in 1 .. Len(q) + 1
    BY <1>1, <1>3
  <2>2. CASE j < k
    <3>1. e[i] = q[i] /\ e[j] = q[j] /\ i \in DOMAIN q /\ j \in DOMAIN q
      BY <1>1, <1>3, <1>5, <2>1, <2>2
    <3>2. QED
      BY <1>5, <3>1 DEF OrderedBy
  <2>3. CASE j = k
    <3>1. e[i] = q[i] /\ e[j] = r /\ i \in 1 .. k - 1
      BY <1>1, <1>3, <1>5, <2>1, <2>3
    <3>2. QED
      BY <1>4, <3>1
  <2>4. CASE i = k
    <3>1. e[i] = r /\ e[j] = q[j - 1] /\ j - 1 \in k .. Len(q)
      BY <1>1, <1>3, <1>5, <2>1, <2>4
    <3>2. QED
      BY <1>4, <3>1
  <2>5. CASE i < k /\ k < j
    <3>1. /\ e[i] = q[i] /\ e[j] = q[j - 1]
          /\ i \in DOMAIN q /\ j - 1 \in DOMAIN q /\ i < j - 1
      BY <1>1, <1>3, <2>1, <2>5
    <3>2. QED
      BY <3>1 DEF OrderedBy
  <2>6. CASE k < i
    <3>1. /\ e[i] = q[i - 1] /\ e[j] = q[j - 1]
          /\ i - 1 \in DOMAIN q /\ j - 1 \in DOMAIN q /\ i - 1 < j - 1
      BY <1>1, <1>3, <1>5, <2>1, <2>6
    <3>2. QED
      BY <3>1 DEF OrderedBy
  <2>7. QED
    BY <1>1, <1>5, <2>1, <2>2, <2>3, <2>4, <2>5, <2>6
<1>6. QED
  BY <1>2, <1>5 DEF OrderedBy

\* Unlinking r from a queue without duplicates takes r, and nothing else,
\* from its members, and keeps them in order.
LEMMA DequeueProperties ==
  ASSUME NEW S, NEW q \in Seq(S), NEW r, Distinct(q)
  PROVE  /\ Dequeue(q, r) \in Seq(S)
         /\ ToSet(Dequeue(q, r)) = ToSet(q) \ {r}
         /\ \A R : OrderedBy(q, R) => OrderedBy(Dequeue(q, r), R)
PROOF
<1>1. CASE r \notin ToSet(q)
  BY <1>1 DEF Dequeue, ToSet
<1>2. CASE r \in ToSet(q)
  <2> DEFINE k == CHOOSE i \in DOMAIN q : q[i] = r
             e == RemoveAt(q, k)
  <2>1. Len(q) \in Nat /\ k \in 1 .. Len(q) /\ q[k] = r
    BY <1>2 DEF ToSet
  <2>2. Dequeue(q, r) = e
    BY <1>2 DEF Dequeue, ToSet
  <2>3. /\ e \in Seq(S) /\ Len(e) = Len(q) - 1
        /\ \A i \in 1 .. Len(q) - 1 :
             e[i] = IF i < k THEN q[i] ELSE q[i + 1]
    BY <2>1, RemoveAtProperties
  <2> HIDE DEF k, e
  <2>4. ToSet(e) \subseteq ToSet(q) \ {r}
    <3>1. ASSUME NEW i \in DOMAIN e
          PROVE  e[i] \in ToSet(q) \ {r}
      <4>1. CASE i < k
        <5>1. i \in DOMAIN q /\ e[i] = q[i]
          BY <2>1, <2>3, <4>1
        <5>2. QED
          BY <2>1, <4>1, <5>1 DEF Distinct, ToSet
      <4>2. CASE i >= k
        <5>1. i + 1 \in DOMAIN q /\ e[i] = q[i + 1] /\ k < i + 1
          BY <2>1, <2>3, <4>2
        <5>2. QED
          BY <2>1, <5>1 DEF Distinct, ToSet
      <4>3. QED
        BY <2>1, <2>3, <4>1, <4>2
    <3>2. QED
      BY <3>1 DEF ToSet
  <2>5. ASSUME NEW i \in DOMAIN q, q[i] # r
        PROVE  q[i] \in ToSet(e)
    <3>1. CASE i < k
      <4>1. i \in DOMAIN e /\ e[i] = q[i]
        BY <2>1, <2>3, <3>1
      <4>2. QED
        BY <4>1 DEF ToSet
    <3>2. CASE i > k
      <4>1. i - 1 \in DOMAIN e /\ e[i - 1] = q[i]
        BY <2>1, <2>3, <3>2
      <4>2. QED
        BY <4>1 DEF ToSet
    <3>3. QED
      BY <2>1, <2>5, <3>1, <3>2
  <2>6. ASSUME NEW R, OrderedBy(q, R)
        PROVE  OrderedBy(e, R)
    <3>1. ASSUME NEW i \in DOMAIN e, NEW j \in DOMAIN e, i < j
          PROVE  <<e[i], e[j]>> \in R
      <4> DEFINE m == IF i < k THEN i ELSE i + 1
                 n == IF j < k THEN j ELSE j + 1
      <4>1. m \in DOMAIN q /\ e[i] = q[m]
        BY <2>1, <2>3, <3>1
      <4>2. n \in DOMAIN q /\ e[j] = q[n]
        BY <2>1, <2>3, <3>1
      <4>3. m < n
        BY <2>1, <2>3, <3>1
      <4> HIDE DEF m, n
      <4>4. QED
        BY <2>6, <4>1, <4>2, <4>3 DEF OrderedBy
    <3>2. QED
      BY <3>1 DEF OrderedBy
  <2>7. ToSet(e) = ToSet(q) \ {r}
    BY <2>4, <2>5 DEF ToSet
  <2>8. QED
    BY <2>2, <2>3, <2>6, <2>7
<1>3. QED
  BY <1>1, <1>2

\* Unlinking the head leaves the tail.
LEMMA DequeueHeadIsTail ==
  ASSUME NEW S, NEW q \in Seq(S), q # <<>>, Distinct(q)
  PROVE  Dequeue(q, Head(q)) = Tail(q)
PROOF
<1>1. Len(q) \in Nat /\ 1 \in DOMAIN q /\ Head(q) = q[1]
  OBVIOUS
<1>2. (CHOOSE i \in DOMAIN q : q[i] = Head(q)) = 1
  BY <1>1 DEF Distinct
<1>3. Dequeue(q, Head(q)) = RemoveAt(q, 1)
  BY <1>1, <1>2 DEF Dequeue
<1>4. /\ RemoveAt(q, 1) \in Seq(S) /\ Len(RemoveAt(q, 1)) = Len(q) - 1
      /\ \A i \in 1 .. Len(q) - 1 : RemoveAt(q, 1)[i] = q[i + 1]
  BY <1>1, RemoveAtProperties
<1>5. /\ Tail(q) \in Seq(S) /\ Len(Tail(q)) = Len(q) - 1
      /\ \A i \in 1 .. Len(q) - 1 : Tail(q)[i] = q[i + 1]
  BY <1>1, HeadTailProperties
<1>6. RemoveAt(q, 1) = Tail(q)
  BY <1>4, <1>5, SeqEqual
<1>7. QED
  BY <1>3, <1>6

\* Unlinking another member leaves the head where it is.
LEMMA DequeueKeepsHead ==
  ASSUME NEW S, NEW q \in Seq(S), q # <<>>, NEW r, Head(q) # r
  PROVE  Dequeue(q, r) # <<>> /\ Head(Dequeue(q, r)) = Head(q)
PROOF
<1>1. Len(q) \in Nat /\ Len(q) >= 1 /\ Head(q) = q[1]
  OBVIOUS
<1>2. CASE r \notin ToSet(q)
  BY <1>2 DEF Dequeue, ToSet
<1>3. CASE r \in ToSet(q)
  <2> DEFINE k == CHOOSE i \in DOMAIN q : q[i] = r
             e == RemoveAt(q, k)
  <2>1. k \in 1 .. Len(q) /\ k # 1
    BY <1>1, <1>3 DEF ToSet
  <2>2. Dequeue(q, r) = e
    BY <1>3 DEF Dequeue, ToSet
  <2> HIDE DEF k
  <2>3. /\ e \in Seq(S) /\ Len(e) = Len(q) - 1
        /\ \A i \in 1 .. Len(q) - 1 :
             e[i] = IF i < k THEN q[i] ELSE q[i + 1]
    BY <2>1, RemoveAtProperties
  <2> HIDE DEF e
  <2>4. e # <<>> /\ Head(e) = e[1] /\ e[1] = q[1]
    BY <1>1, <2>1, <2>3
  <2>5. QED
    BY <1>1, <2>2, <2>4
<1>4. QED
  BY <1>2, <1>3

-----------------------------------------------------------------------------
(***************************************************************************)
(* Dispatchers.                                                            *)
(***************************************************************************)

\* x precedes y in the ready queue.
Higher(prio) == {p \in Rids \X Rids : prio[p[1]] > prio[p[2]]}

\* BudgetTimerSound of a dispatcher.
TimerSound(d) ==
  \A r \in Rids : d.enforcement[r] # Off =>
    /\ d.readyq # <<>>
    /\ Head(d.readyq) = r
    /\ d.current[r] + d.elapsed + d.enforcement[r] <= table[r].spec.exectime

NoTimer(d) == \A r \in Rids : d.enforcement[r] = Off

\* d and e are at the same point of the execution of the head.
SameExecution(d, e) ==
  /\ e.readyq = d.readyq
  /\ e.current = d.current
  /\ e.elapsed = d.elapsed
  /\ e.enforcement = d.enforcement

-----------------------------------------------------------------------------
\* Membership of the order of the ready queue is a comparison of priorities.
LEMMA HigherMeans ==
  ASSUME NEW prio, NEW x \in Rids, NEW y \in Rids
  PROVE  <<x, y>> \in Higher(prio) <=> prio[x] > prio[y]
PROOF
BY DEF Higher

\* A reserve of a well-typed table has the parameters of some reserve.
LEMMA SpecType ==
  ASSUME TypeOK, NEW r \in Rids
  PROVE  /\ table[r] \in Reserves
         /\ table[r].spec \in Spec_t
         /\ table[r].spec.exectime \in 0 .. MaxTicks
         /\ table[r].spec.exectime \in Int
PROOF
<1>1. table[r] \in Reserves
  BY DEF TypeOK
<1>2. table[r].spec \in Specs \cup {NoSpec}
  BY <1>1 DEF Reserves
<1>3. NoSpec \in Spec_t
  BY ConstantsAssumption DEF NoSpec, Spec_t
<1>4. table[r].spec \in Spec_t
  BY <1>2, <1>3, ConstantsAssumption
<1>5. QED
  BY <1>1, <1>4, ConstantsAssumption DEF Spec_t

\* push_to_reschedule leaves the execution of the head alone.
LEMMA PushToRescheduleType ==
  ASSUME NEW d \in Dispatchers, NEW r \in Rids
  PROVE  /\ PushToReschedule(d, r) \in Dispatchers
         /\ SameExecution(d, PushToReschedule(d, r))
PROOF
<1>1. d.reschedule \in Seq(Rids) /\ Append(d.reschedule, r) \in Seq(Rids)
  BY DEF Dispatchers
<1>2. QED
  BY <1>1 DEF PushToReschedule, Dispatchers, SameExecution

\* Waking scheduler_task leaves the execution of the head alone.
LEMMA WakeSchedulerType ==
  ASSUME NEW d \in Dispatchers
  PROVE  /\ WakeScheduler(d) \in Dispatchers
         /\ SameExecution(d, WakeScheduler(d))
PROOF
BY DEF WakeScheduler, Dispatchers, SameExecution

\* budget_enforcement leaves the execution of the head alone.
LEMMA BudgetEnforcementType ==
  ASSUME TypeOK, NEW d \in Dispatchers, NEW r \in Rids, NEW stop \in BOOLEAN
  PROVE  /\ BudgetEnforcement(d, r, stop) \in Dispatchers
         /\ SameExecution(d, BudgetEnforcement(d, r, stop))
PROOF
<1> DEFINE e == [d EXCEPT !.zero_slack = @ \ {r}]
           signal == [stop |-> stop, periodic |-> ~table[r].end_of_period_marked]
           f == [e EXCEPT !.request_stop = @ \cup {r}]
           g == [e EXCEPT !.signals[r] = Append(@, signal)]
<1>1. e \in Dispatchers /\ SameExecution(d, e)
  BY DEF Dispatchers, SameExecution
<1>2. f \in Dispatchers /\ SameExecution(d, f)
  BY DEF Dispatchers, SameExecution
<1>3. signal \in [stop : BOOLEAN, periodic : BOOLEAN]
  BY SpecType DEF Reserves
<1>4. g \in Dispatchers /\ SameExecution(d, g)
  <2> HIDE DEF signal
  <2>1. e.signals[r] \in Seq([stop : BOOLEAN, periodic : BOOLEAN])
    BY <1>1 DEF Dispatchers
  <2>2. Append(e.signals[r], signal) \in Seq([stop : BOOLEAN, periodic : BOOLEAN])
    BY <1>3, <2>1
  <2>3. QED
    BY <1>1, <2>2 DEF Dispatchers, SameExecution
<1>5. /\ WakeScheduler(PushToReschedule(f, r)) \in Dispatchers
      /\ SameExecution(d, WakeScheduler(PushToReschedule(f, r)))
  <2> HIDE DEF f
  <2>1. QED
    BY <1>2, PushToRescheduleType, WakeSchedulerType DEF SameExecution
<1>6. BudgetEnforcement(d, r, stop) \in {e, g, WakeScheduler(PushToReschedule(f, r))}
  BY DEF BudgetEnforcement
<1> HIDE DEF e, f, g
<1>7. QED
  BY <1>1, <1>4, <1>5, <1>6

\* Charging the head of a sound dispatcher leaves no timer armed.
LEMMA ChargeHeadType ==
  ASSUME TypeOK, NEW d \in Dispatchers, d.readyq # <<>>
  PROVE  /\ ChargeHead(d) \in Dispatchers
         /\ ChargeHead(d).readyq = d.readyq
         /\ TimerSound(d) => NoTimer(ChargeHead(d))
PROOF
<1>1. Head(d.readyq) \in Rids
  BY DEF Dispatchers
<1>2. Capped(d.current[Head(d.readyq)] + d.elapsed) \in 0 .. MaxTicks
  <2>1. d.current \in [Rids -> 0 .. MaxTicks] /\ d.elapsed \in 0 .. MaxTicks
    BY DEF Dispatchers
  <2>2. d.current[Head(d.readyq)] \in 0 .. MaxTicks
    BY <1>1, <2>1
  <2>3. QED
    BY <2>1, <2>2, ConstantsAssumption DEF Capped
<1>3. Off \in Off .. MaxTicks
  BY ConstantsAssumption DEF Off
<1>4. ChargeHead(d) \in Dispatchers
  BY <1>1, <1>2, <1>3 DEF ChargeHead, Dispatchers
<1>5. ChargeHead(d).readyq = d.readyq
  BY DEF ChargeHead, Dispatchers
<1>6. ASSUME TimerSound(d)
      PROVE  NoTimer(ChargeHead(d))
  BY <1>1, <1>6 DEF ChargeHead, Dispatchers, TimerSound, NoTimer
<1>7. QED
  BY <1>4, <1>5, <1>6

\* Arming the zero-slack timer leaves the execution of the head alone.
LEMMA ArmZeroSlackType ==
  ASSUME NEW d \in Dispatchers, NEW r \in Rids
  PROVE  /\ ArmZeroSlack(d, r) \in Dispatchers
         /\ SameExecution(d, ArmZeroSlack(d, r))
PROOF
BY DEF ArmZeroSlack, Dispatchers, SameExecution

\* Cancelling the timers of r changes the enforcement of r only.
LEMMA CancelTimersType ==
  ASSUME NEW d \in Dispatchers, NEW r \in Rids
  PROVE  /\ CancelTimers(d, r) \in Dispatchers
         /\ CancelTimers(d, r).readyq = d.readyq
         /\ CancelTimers(d, r).current = d.current
         /\ CancelTimers(d, r).elapsed = d.elapsed
         /\ CancelTimers(d, r).enforcement = [d.enforcement EXCEPT ![r] = Off]
         /\ \A x \in Rids : CancelTimers(d, r).enforcement[x] =
                              IF x = r THEN Off ELSE d.enforcement[x]
PROOF
<1>1. Off \in Off .. MaxTicks
  BY ConstantsAssumption DEF Off
<1>2. QED
  BY <1>1 DEF CancelTimers, Dispatchers

\* Starting the head either arms its timer for the rest of its budget, or
\* arms none.
LEMMA StartHeadType ==
  ASSUME TypeOK, NEW d \in Dispatchers
  PROVE  LET h == Head(d.readyq)
             e == StartHead(d)
         IN /\ e \in Dispatchers
            /\ e.readyq = d.readyq
            /\ e.current = d.current
            /\ e.elapsed = 0
            /\ \/ e.enforcement = d.enforcement
               \/ /\ d.readyq # <<>>
                  /\ e.enforcement =
                       [d.enforcement EXCEPT
                          ![h] = table[h].spec.exectime - d.current[h]]
PROOF
<1> DEFINE h == Head(d.readyq)
           exectime == table[h].spec.exectime
           e == [d EXCEPT !.elapsed = 0]
           f == [e EXCEPT !.enforcement[h] = exectime - d.current[h]]
<1>0. 0 \in 0 .. MaxTicks
  BY ConstantsAssumption
<1>1. /\ e \in Dispatchers /\ e.readyq = d.readyq /\ e.current = d.current
      /\ e.enforcement = d.enforcement /\ e.elapsed = 0
  BY <1>0 DEF Dispatchers
<1>2. CASE d.readyq = <<>>
  <2>1. StartHead(d) = e
    BY <1>2 DEF StartHead
  <2>2. QED
    BY <1>1, <2>1
<1>3. CASE d.readyq # <<>>
  <2>1. h \in Rids /\ d.current[h] \in 0 .. MaxTicks
    BY <1>3 DEF Dispatchers
  <2>2. exectime \in 0 .. MaxTicks
    BY <2>1, SpecType
  <2>3. CASE exectime > d.current[h]
    <3>1. StartHead(d) = f
      BY <1>3, <2>3 DEF StartHead
    <3>2. exectime - d.current[h] \in Off .. MaxTicks
      BY <2>1, <2>2, <2>3, ConstantsAssumption DEF Off
    <3> HIDE DEF exectime
    <3>3. /\ f \in Dispatchers /\ f.readyq = d.readyq /\ f.elapsed = 0
          /\ f.current = d.current
          /\ f.enforcement = [d.enforcement EXCEPT ![h] = exectime - d.current[h]]
      BY <1>1, <2>1, <3>2 DEF Dispatchers
    <3>4. QED
      BY <1>3, <3>1, <3>3 DEF exectime
  <2>4. CASE ~ (exectime > d.current[h])
    <3>1. StartHead(d) = BudgetEnforcement(e, h, TRUE)
      BY <1>3, <2>4 DEF StartHead
    <3> HIDE DEF e, h
    <3>2. /\ BudgetEnforcement(e, h, TRUE) \in Dispatchers
          /\ SameExecution(e, BudgetEnforcement(e, h, TRUE))
      BY <1>1, <2>1, BudgetEnforcementType
    <3>3. QED
      BY <1>1, <3>1, <3>2 DEF SameExecution
  <2>5. QED
    BY <2>3, <2>4
<1>4. QED
  BY <1>2, <1>3

\* Once the timer of r, the only one armed, is cancelled, the head is
\* started soundly.
LEMMA StartHeadTimerSound ==
  ASSUME TypeOK, NEW d \in Dispatchers,
         NEW r \in Rids, \A x \in Rids : x # r => d.enforcement[x] = Off
  PROVE  TimerSound(CancelTimers(StartHead(d), r))
PROOF
<1> DEFINE h == Head(d.readyq)
           e == StartHead(d)
           c == CancelTimers(e, r)
<1>1. /\ e \in Dispatchers /\ e.readyq = d.readyq /\ e.current = d.current
      /\ e.elapsed = 0
      /\ \/ e.enforcement = d.enforcement
         \/ /\ d.readyq # <<>>
            /\ e.enforcement =
                 [d.enforcement EXCEPT
                    ![h] = table[h].spec.exectime - d.current[h]]
  BY StartHeadType
<1> HIDE DEF e
<1>2. /\ c.readyq = d.readyq /\ c.current = d.current /\ c.elapsed = 0
      /\ c.enforcement = [e.enforcement EXCEPT ![r] = Off]
  BY <1>1, CancelTimersType
<1> HIDE DEF c
<1>3. /\ d.enforcement \in [Rids -> Off .. MaxTicks]
      /\ d.current \in [Rids -> 0 .. MaxTicks]
  BY DEF Dispatchers
<1>4. ASSUME NEW x \in Rids, c.enforcement[x] # Off
      PROVE  /\ c.readyq # <<>> /\ Head(c.readyq) = x
             /\ c.current[x] + c.elapsed + c.enforcement[x]
                  <= table[x].spec.exectime
  <2>1. x # r /\ c.enforcement[x] = e.enforcement[x]
    BY <1>1, <1>2, <1>3, <1>4 DEF Dispatchers
  <2>2. d.enforcement[x] = Off
    BY <2>1
  <2>3. /\ d.readyq # <<>> /\ x = h
        /\ e.enforcement[x] = table[x].spec.exectime - d.current[x]
    <3> HIDE DEF h
    <3>1. QED
      BY <1>1, <1>3, <1>4, <2>1, <2>2
  <2>4. table[x].spec.exectime \in Int /\ d.current[x] \in Int
    BY <1>3, SpecType, ConstantsAssumption
  <2>5. QED
    BY <1>2, <2>1, <2>3, <2>4
<1>5. QED
  BY <1>4 DEF TimerSound, c, e

\* The head is started soundly if no timer is armed.
LEMMA StartHeadSound ==
  ASSUME TypeOK, NEW d \in Dispatchers, NoTimer(d)
  PROVE  TimerSound(StartHead(d))
PROOF
<1> DEFINE h == Head(d.readyq)
           e == StartHead(d)
<1>1. /\ e.readyq = d.readyq /\ e.current = d.current /\ e.elapsed = 0
      /\ \/ e.enforcement = d.enforcement
         \/ /\ d.readyq # <<>>
            /\ e.enforcement =
                 [d.enforcement EXCEPT
                    ![h] = table[h].spec.exectime - d.current[h]]
  BY StartHeadType
<1> HIDE DEF e
<1>2. /\ d.enforcement \in [Rids -> Off .. MaxTicks]
      /\ d.current \in [Rids -> 0 .. MaxTicks]
  BY DEF Dispatchers
<1>3. ASSUME NEW x \in Rids, e.enforcement[x] # Off
      PROVE  /\ e.readyq # <<>> /\ Head(e.readyq) = x
             /\ e.current[x] + e.elapsed + e.enforcement[x]
                  <= table[x].spec.exectime
  <2>1. /\ d.readyq # <<>> /\ x = h
        /\ e.enforcement[x] = table[x].spec.exectime - d.current[x]
    <3> HIDE DEF h
    <3>1. QED
      BY <1>1, <1>2, <1>3 DEF NoTimer
  <2>2. table[x].spec.exectime \in Int /\ d.current[x] \in Int
    BY <1>2, SpecType, ConstantsAssumption
  <2>3. QED
    BY <1>1, <2>1, <2>2
<1>4. QED
  BY <1>3 DEF TimerSound, e

\* Starting r links it into the ready queue by its priority; if the others
\* have different priorities, the queue stays sorted.
LEMMA StartType ==
  ASSUME TypeOK, NEW d \in Dispatchers, NEW prio \in [Rids -> Int],
         NEW r \in Rids
  PROVE  /\ Start(d, prio, r) \in Dispatchers
         /\ ToSet(Start(d, prio, r).readyq) = ToSet(d.readyq) \cup {r}
         /\ TimerSound(d) => TimerSound(Start(d, prio, r))
         /\ OrderedBy(d.readyq, Higher(prio))
              /\ (\A x \in ToSet(d.readyq) : x # r => prio[x] # prio[r])
              => OrderedBy(Start(d, prio, r).readyq, Higher(prio))
PROOF
<1> DEFINE e == IF d.readyq = <<>> THEN d ELSE ChargeHead(d)
           lower == {x \in Rids : prio[x] < prio[r]}
           q == Enqueue(d.readyq, lower, r)
           f == [e EXCEPT !.readyq = q]
<1>1. d.readyq \in Seq(Rids)
  BY DEF Dispatchers
<1>2. CASE \E i \in DOMAIN d.readyq : d.readyq[i] = r
  <2>1. Start(d, prio, r) = d
    BY <1>2 DEF Start
  <2>2. r \in ToSet(d.readyq)
    BY <1>2 DEF ToSet
  <2>3. QED
    BY <2>1, <2>2
<1>3. CASE ~ \E i \in DOMAIN d.readyq : d.readyq[i] = r
  <2>1. /\ e \in Dispatchers /\ e.readyq = d.readyq
        /\ TimerSound(d) => NoTimer(e)
    <3>1. CASE d.readyq = <<>>
      BY <3>1 DEF TimerSound, NoTimer
    <3>2. CASE d.readyq # <<>>
      BY <3>2, ChargeHeadType
    <3>3. QED
      BY <3>1, <3>2
  <2>2. q \in Seq(Rids) /\ ToSet(q) = ToSet(d.readyq) \cup {r}
    BY <1>1, EnqueueMembers
  <2>3. ASSUME OrderedBy(d.readyq, Higher(prio)),
               \A x \in ToSet(d.readyq) : x # r => prio[x] # prio[r]
        PROVE  OrderedBy(q, Higher(prio))
    <3> DEFINE p == d.readyq
    <3>0. p \in Seq(Rids) /\ OrderedBy(p, Higher(prio))
      BY <1>1, <2>3
    <3>1. ASSUME NEW k \in 1 .. Len(p) + 1, StopsAt(p, lower, k)
          PROVE  /\ \A i \in 1 .. k - 1 : <<p[i], r>> \in Higher(prio)
                 /\ \A i \in k .. Len(p) : <<r, p[i]>> \in Higher(prio)
      <4>1. \A i \in 1 .. Len(p) :
              p[i] \in Rids /\ p[i] \in ToSet(p) /\ p[i] # r
        BY <1>1, <1>3 DEF ToSet
      <4>2. ASSUME NEW i \in 1 .. k - 1
            PROVE  <<p[i], r>> \in Higher(prio)
        <5>1. i \in 1 .. Len(p) /\ p[i] \notin lower
          BY <1>1, <3>1 DEF StopsAt
        <5>2. prio[p[i]] > prio[r]
          BY <2>3, <4>1, <5>1
        <5>3. QED
          BY <4>1, <5>1, <5>2, HigherMeans
      <4>3. ASSUME NEW i \in k .. Len(p)
            PROVE  <<r, p[i]>> \in Higher(prio)
        <5>1. /\ k \in 1 .. Len(p) /\ p[k] \in lower
              /\ i \in 1 .. Len(p) /\ (k = i \/ k < i)
          BY <1>1, <3>1 DEF StopsAt
        <5>2. prio[p[k]] < prio[r]
          BY <5>1
        <5>3. k < i => prio[p[k]] > prio[p[i]]
          <6>1. k < i => <<p[k], p[i]>> \in Higher(prio)
            <7>1. DOMAIN p = 1 .. Len(p)
              BY <3>0
            <7> HIDE DEF p, lower
            <7>2. QED
              BY <3>0, <5>1, <7>1 DEF OrderedBy
          <6>2. QED
            BY <4>1, <5>1, <6>1, HigherMeans
        <5>4. prio[r] > prio[p[i]]
          BY <4>1, <5>1, <5>2, <5>3
        <5>5. QED
          BY <4>1, <5>1, <5>4, HigherMeans
      <4>4. QED
        BY <4>2, <4>3
    <3>2. QED
      BY <1>1, <2>3, <3>1, EnqueueOrdered
  <2>5. Start(d, prio, r) = StartHead(f)
    BY <1>3, <2>1 DEF Start
  <2> HIDE DEF e, q
  <2>4. /\ f \in Dispatchers /\ f.readyq = q
        /\ f.enforcement = e.enforcement
    BY <2>1, <2>2 DEF Dispatchers
  <2> HIDE DEF f
  <2>6. /\ StartHead(f) \in Dispatchers /\ StartHead(f).readyq = q
        /\ NoTimer(f) => TimerSound(StartHead(f))
    BY <2>4, StartHeadType, StartHeadSound
  <2>7. TimerSound(d) => NoTimer(f)
    BY <2>1, <2>4 DEF NoTimer
  <2>8. QED
    BY <2>2, <2>3, <2>5, <2>6, <2>7
<1>4. QED
  BY <1>2, <1>3

\* Stopping r unlinks it.
LEMMA StopType ==
  ASSUME TypeOK, NEW d \in Dispatchers, NEW r \in Rids, Distinct(d.readyq)
  PROVE  /\ Stop(d, r) \in Dispatchers
         /\ Stop(d, r).readyq = Dequeue(d.readyq, r)
         /\ TimerSound(d) => TimerSound(Stop(d, r))
PROOF
<1>1. d.readyq \in Seq(Rids)
  BY DEF Dispatchers
<1>2. Dequeue(d.readyq, r) \in Seq(Rids)
  BY <1>1, DequeueProperties
<1>3. CASE d.readyq # <<>> /\ Head(d.readyq) = r
  <2> DEFINE e == ChargeHead(d)
             f == [e EXCEPT !.readyq = Tail(@)]
  <2>1. Tail(d.readyq) = Dequeue(d.readyq, r)
    BY <1>1, <1>3, DequeueHeadIsTail
  <2>2. /\ e \in Dispatchers /\ e.readyq = d.readyq
        /\ TimerSound(d) => NoTimer(e)
    BY <1>3, ChargeHeadType
  <2>3. Stop(d, r) = StartHead(f)
    BY <1>3 DEF Stop
  <2> HIDE DEF e
  <2>4. /\ f \in Dispatchers /\ f.readyq = Dequeue(d.readyq, r)
        /\ f.enforcement = e.enforcement
    BY <1>2, <2>1, <2>2 DEF Dispatchers
  <2> HIDE DEF f
  <2>5. StartHead(f) \in Dispatchers /\ StartHead(f).readyq = f.readyq
    BY <2>4, StartHeadType
  <2>6. TimerSound(d) => TimerSound(StartHead(f))
    BY <2>2, <2>4, StartHeadSound DEF NoTimer
  <2>7. QED
    BY <2>3, <2>4, <2>5, <2>6
<1>4. CASE ~ (d.readyq # <<>> /\ Head(d.readyq) = r)
  <2> DEFINE f == [d EXCEPT !.readyq = Dequeue(@, r)]
  <2>1. Stop(d, r) = f
    BY <1>4 DEF Stop
  <2>2. /\ f \in Dispatchers /\ f.readyq = Dequeue(d.readyq, r)
        /\ f.enforcement = d.enforcement /\ f.current = d.current
        /\ f.elapsed = d.elapsed
    BY <1>2 DEF Dispatchers
  <2> HIDE DEF f
  <2>3. TimerSound(d) => TimerSound(f)
    BY <1>1, <1>4, <2>2, DequeueKeepsHead DEF TimerSound
  <2>4. QED
    BY <2>1, <2>2, <2>3
<1>5. QED
  BY <1>3, <1>4

\* Cancelling timers does no harm.
LEMMA CancelTimersSound ==
  ASSUME NEW d \in Dispatchers, NEW r \in Rids, TimerSound(d)
  PROVE  TimerSound(CancelTimers(d, r))
PROOF
<1> DEFINE c == CancelTimers(d, r)
<1>1. /\ c.readyq = d.readyq /\ c.current = d.current /\ c.elapsed = d.elapsed
      /\ \A x \in Rids : c.enforcement[x] = IF x = r THEN Off
                                             ELSE d.enforcement[x]
  BY CancelTimersType
<1> HIDE DEF c
<1>2. TimerSound(c)
  BY <1>1 DEF TimerSound
<1>3. QED
  BY <1>2 DEF c

\* Deleting r unlinks it and cancels its timer, whoever's task is gone.
LEMMA RemovalsType ==
  ASSUME TypeOK, NEW d \in Dispatchers, NEW r \in Rids, Distinct(d.readyq),
         NEW e \in Removals(d, r)
  PROVE  /\ e \in Dispatchers
         /\ e.readyq = Dequeue(d.readyq, r)
         /\ TimerSound(d) => TimerSound(CancelTimers(e, r))
PROOF
<1> DEFINE q == Dequeue(d.readyq, r)
           f == [d EXCEPT !.readyq = q]
<1>1. d.readyq \in Seq(Rids) /\ q \in Seq(Rids)
  BY DequeueProperties DEF Dispatchers
<1>2. /\ f \in Dispatchers /\ f.readyq = q
      /\ f.enforcement = d.enforcement /\ f.current = d.current
      /\ f.elapsed = d.elapsed
  BY <1>1 DEF Dispatchers
<1>4. CASE e = Stop(d, r)
  <2>1. /\ e \in Dispatchers /\ e.readyq = q
        /\ TimerSound(d) => TimerSound(e)
    BY <1>4, StopType
  <2>2. QED
    BY <2>1, CancelTimersSound
<1>5. CASE e = f /\ (d.readyq = <<>> \/ Head(d.readyq) # r)
  <2>1. TimerSound(d) => TimerSound(e)
    BY <1>1, <1>2, <1>5, DequeueKeepsHead DEF TimerSound
  <2>2. QED
    BY <1>2, <1>5, <2>1, CancelTimersSound
<1>6. ASSUME d.readyq # <<>>, Head(d.readyq) = r, TimerSound(d)
      PROVE  \A x \in Rids : x # r => f.enforcement[x] = Off
  BY <1>2, <1>6 DEF TimerSound
<1>7. CASE e = StartHead(f) /\ d.readyq # <<>> /\ Head(d.readyq) = r
  <2> HIDE DEF f
  <2>1. /\ e \in Dispatchers /\ e.readyq = q
    BY <1>2, <1>7, StartHeadType
  <2>2. TimerSound(d) => TimerSound(CancelTimers(e, r))
    BY <1>2, <1>6, <1>7, StartHeadTimerSound
  <2>3. QED
    BY <2>1, <2>2
<1>8. CASE /\ d.readyq # <<>> /\ Head(d.readyq) = r
           /\ \E t \in 0 .. MaxTicks : e = [f EXCEPT !.elapsed = t]
  <2>1. /\ e \in Dispatchers /\ e.readyq = q /\ e.enforcement = f.enforcement
    <3> HIDE DEF f
    <3>1. QED
      BY <1>2, <1>8 DEF Dispatchers
  <2>2. TimerSound(d) => NoTimer(CancelTimers(e, r))
    <3> DEFINE c == CancelTimers(e, r)
    <3>1. \A x \in Rids : c.enforcement[x] = IF x = r THEN Off
                                             ELSE e.enforcement[x]
      BY <2>1, CancelTimersType
    <3> HIDE DEF c, f
    <3>2. TimerSound(d) => NoTimer(c)
      BY <1>6, <1>8, <2>1, <3>1 DEF NoTimer
    <3>3. QED
      BY <3>2 DEF c
  <2>3. QED
    BY <2>1, <2>2 DEF NoTimer, TimerSound
<1>9. QED
  BY <1>4, <1>5, <1>7, <1>8 DEF Removals
=============================================================================
