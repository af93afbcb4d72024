--------------------------- MODULE DispatchProofs ---------------------------
(***************************************************************************)
(* The dispatcher of Zsrmv implements Dispatch, for every value of the     *)
(* constants.  Three facts carry the proof: the functions that change the  *)
(* ready queue keep UsedIn, since they charge the head before they change  *)
(* it and start the new head at no elapsed time; the head is the ready     *)
(* reserve of the highest priority, since the ready queue is sorted; and   *)
(* the priorities that attaching a reserve computes keep the order of the  *)
(* attached ones.                                                          *)
(***************************************************************************)
EXTENDS ZsrmvProofs

\* From d to e at most r becomes ready or stops being ready.
Moved(d, e, r) ==
  ToSet(e.readyq) \in
    {ToSet(d.readyq), ToSet(d.readyq) \cup {r}, ToSet(d.readyq) \ {r}}

\* From d to e at most r is moved, and no charge is lost or added.
Rescheduled(d, e, r) == Moved(d, e, r) /\ UsedIn(e) = UsedIn(d)

\* A handler of zsrmlock that departs a job was called by a task that is there.
CallerAlive == lock.by \in Departing => Alive(lock.rid)

\* From d to e the job of r is replaced by a new one.
Replenished(d, e, r) ==
  /\ Moved(d, e, r)
  /\ UsedIn(e)[r] <= UsedIn(d)[r]
  /\ \A x \in Rids \ {r} : UsedIn(e)[x] = UsedIn(d)[x]

-----------------------------------------------------------------------------
(***************************************************************************)
(* Charges.                                                                *)
(***************************************************************************)

\* What is charged within the bound is not changed by the bound.
LEMMA CappedWithin ==
  ASSUME NEW n \in 0 .. MaxTicks
  PROVE  Capped(n) = n /\ Capped(n + 0) = n
PROOF
BY ConstantsAssumption DEF Capped

\* The charges of the head and of the others.
LEMMA UsedMeans ==
  ASSUME NEW d \in Dispatchers, NEW x \in Rids
  PROVE  /\ UsedIn(d)[x] =
              Capped(d.current[x] + IF d.readyq # <<>> /\ Head(d.readyq) = x
                                    THEN d.elapsed ELSE 0)
         /\ ~ (d.readyq # <<>> /\ Head(d.readyq) = x)
              => UsedIn(d)[x] = d.current[x]
PROOF
<1>1. UsedIn(d)[x] =
        Capped(d.current[x] + IF d.readyq # <<>> /\ Head(d.readyq) = x
                              THEN d.elapsed ELSE 0)
  BY DEF UsedIn
<1>2. d.current[x] \in 0 .. MaxTicks
  BY DEF Dispatchers
<1>3. QED
  BY <1>1, <1>2, CappedWithin

\* The charges are those of the accounts when no time has elapsed.
LEMMA UsedAtStart ==
  ASSUME NEW d \in Dispatchers, d.elapsed = 0 \/ d.readyq = <<>>
  PROVE  UsedIn(d) = d.current
PROOF
<1>1. d.current \in [Rids -> 0 .. MaxTicks]
  BY DEF Dispatchers
<1>2. ASSUME NEW x \in Rids
      PROVE  UsedIn(d)[x] = d.current[x]
  <2>1. d.current[x] \in 0 .. MaxTicks
    BY <1>1
  <2>2. QED
    BY <2>1, UsedMeans, CappedWithin
<1>3. QED
  BY <1>1, <1>2 DEF UsedIn

\* The charges depend on the execution of the head only.
LEMMA SameExecutionUsed ==
  ASSUME NEW d, NEW e, SameExecution(d, e)
  PROVE  UsedIn(e) = UsedIn(d) /\ ToSet(e.readyq) = ToSet(d.readyq)
PROOF
BY DEF SameExecution, UsedIn

\* Nor do they depend on its timer.
LEMMA SameChargesUsed ==
  ASSUME NEW d, NEW e, e.readyq = d.readyq, e.current = d.current,
         e.elapsed = d.elapsed
  PROVE  UsedIn(e) = UsedIn(d) /\ ToSet(e.readyq) = ToSet(d.readyq)
PROOF
BY DEF UsedIn

\* Charging the head settles the charges of all.
LEMMA ChargeHeadUsed ==
  ASSUME NEW d \in Dispatchers, d.readyq # <<>>
  PROVE  ChargeHead(d).current = UsedIn(d)
PROOF
<1> DEFINE h == Head(d.readyq)
           c == ChargeHead(d).current
<1>1. /\ h \in Rids /\ d.current \in [Rids -> 0 .. MaxTicks]
      /\ c = [d.current EXCEPT ![h] = Capped(@ + d.elapsed)]
  BY DEF Dispatchers, ChargeHead
<1>2. ASSUME NEW x \in Rids
      PROVE  c[x] = UsedIn(d)[x]
  <2> HIDE DEF c
  <2>1. c[x] = IF x = h THEN Capped(d.current[x] + d.elapsed) ELSE d.current[x]
    BY <1>1
  <2>2. QED
    BY <2>1, UsedMeans
<1> HIDE DEF c
<1>3. c = [x \in Rids |-> c[x]]
  BY <1>1
<1>4. UsedIn(d) = [x \in Rids |-> UsedIn(d)[x]]
  BY DEF UsedIn
<1>5. c = UsedIn(d)
  BY <1>2, <1>3, <1>4
<1>6. QED
  BY <1>5 DEF c

\* Starting the head starts it at no elapsed time.
LEMMA StartHeadUsed ==
  ASSUME TypeOK, NEW d \in Dispatchers
  PROVE  UsedIn(StartHead(d)) = d.current
PROOF
BY StartHeadType, UsedAtStart

\* A job that starts loses no charge, and takes none from the old head.
LEMMA StartRescheduled ==
  ASSUME TypeOK, NEW d \in Dispatchers, NEW prio \in [Rids -> Int],
         NEW r \in Rids
  PROVE  Rescheduled(d, Start(d, prio, r), r)
PROOF
<1> DEFINE e == IF d.readyq = <<>> THEN d ELSE ChargeHead(d)
           lower == {x \in Rids : prio[x] < prio[r]}
           q == Enqueue(d.readyq, lower, r)
           f == [e EXCEPT !.readyq = q]
<1>1. Moved(d, Start(d, prio, r), r)
  BY StartType DEF Moved
<1>2. CASE \E i \in DOMAIN d.readyq : d.readyq[i] = r
  <2>1. Start(d, prio, r) = d
    BY <1>2 DEF Start
  <2>2. QED
    BY <1>1, <2>1 DEF Rescheduled
<1>3. CASE ~ \E i \in DOMAIN d.readyq : d.readyq[i] = r
  <2>1. e \in Dispatchers /\ e.readyq = d.readyq /\ e.current = UsedIn(d)
    <3>1. CASE d.readyq = <<>>
      BY <3>1, UsedAtStart
    <3>2. CASE d.readyq # <<>>
      BY <3>2, ChargeHeadType, ChargeHeadUsed
    <3>3. QED
      BY <3>1, <3>2
  <2>2. Start(d, prio, r) = StartHead(f)
    BY <1>3, <2>1 DEF Start
  <2>3. q \in Seq(Rids)
    BY EnqueueMembers DEF Dispatchers
  <2> HIDE DEF e, q
  <2>4. f \in Dispatchers /\ f.current = e.current
    BY <2>1, <2>3 DEF Dispatchers
  <2> HIDE DEF f
  <2>5. UsedIn(StartHead(f)) = UsedIn(d)
    BY <2>1, <2>4, StartHeadUsed
  <2>6. QED
    BY <1>1, <2>2, <2>5 DEF Rescheduled
<1>4. QED
  BY <1>2, <1>3

\* Unlinking a reserve that does not execute charges nobody.
LEMMA UnlinkedUsed ==
  ASSUME NEW d \in Dispatchers, NEW r \in Rids,
         d.readyq = <<>> \/ Head(d.readyq) # r
  PROVE  UsedIn([d EXCEPT !.readyq = Dequeue(@, r)]) = UsedIn(d)
PROOF
<1> DEFINE f == [d EXCEPT !.readyq = Dequeue(@, r)]
<1>1. /\ f.readyq = Dequeue(d.readyq, r) /\ f.current = d.current
      /\ f.elapsed = d.elapsed /\ d.readyq \in Seq(Rids)
  BY DEF Dispatchers
<1>2. d.readyq = <<>> => Dequeue(d.readyq, r) = <<>>
  BY DEF Dequeue
<1>3. d.readyq # <<>> => /\ Dequeue(d.readyq, r) # <<>>
                         /\ Head(Dequeue(d.readyq, r)) = Head(d.readyq)
  BY <1>1, DequeueKeepsHead
<1> HIDE DEF f
<1>4. UsedIn(f) = UsedIn(d)
  BY <1>1, <1>2, <1>3 DEF UsedIn
<1>5. QED
  BY <1>4 DEF f

\* A job that stops is charged for what it executed, and the next head starts
\* afresh.
LEMMA StopRescheduled ==
  ASSUME TypeOK, NEW d \in Dispatchers, NEW r \in Rids, Distinct(d.readyq)
  PROVE  Rescheduled(d, Stop(d, r), r)
PROOF
<1>1. d.readyq \in Seq(Rids)
  BY DEF Dispatchers
<1>2. Dequeue(d.readyq, r) \in Seq(Rids)
      /\ ToSet(Dequeue(d.readyq, r)) = ToSet(d.readyq) \ {r}
  BY <1>1, DequeueProperties
<1>3. Moved(d, Stop(d, r), r)
  BY <1>2, StopType DEF Moved
<1>4. CASE d.readyq # <<>> /\ Head(d.readyq) = r
  <2> DEFINE e == ChargeHead(d)
             f == [e EXCEPT !.readyq = Tail(@)]
  <2>1. Tail(d.readyq) = Dequeue(d.readyq, r)
    BY <1>1, <1>4, DequeueHeadIsTail
  <2>2. e \in Dispatchers /\ e.readyq = d.readyq /\ e.current = UsedIn(d)
    BY <1>4, ChargeHeadType, ChargeHeadUsed
  <2>3. Stop(d, r) = StartHead(f)
    BY <1>4 DEF Stop
  <2> HIDE DEF e
  <2>4. f \in Dispatchers /\ f.current = e.current
    BY <1>2, <2>1, <2>2 DEF Dispatchers
  <2> HIDE DEF f
  <2>5. UsedIn(StartHead(f)) = UsedIn(d)
    BY <2>2, <2>4, StartHeadUsed
  <2>6. QED
    BY <1>3, <2>3, <2>5 DEF Rescheduled
<1>5. CASE ~ (d.readyq # <<>> /\ Head(d.readyq) = r)
  <2> DEFINE f == [d EXCEPT !.readyq = Dequeue(@, r)]
  <2>1. Stop(d, r) = f
    BY <1>5 DEF Stop
  <2>2. UsedIn(f) = UsedIn(d)
    BY <1>1, <1>2, <1>5, UnlinkedUsed
  <2>3. QED
    BY <1>3, <2>1, <2>2 DEF Rescheduled
<1>6. QED
  BY <1>4, <1>5

\* Deleting a reserve charges it if its task exists.  If not, the reserves of
\* tasks that do exist are charged as before.
LEMMA RemovalsReaped ==
  ASSUME TypeOK, NEW d \in Dispatchers, NEW r \in Rids, Distinct(d.readyq),
         NEW e \in Removals(d, r)
  PROVE  /\ ToSet(e.readyq) = ToSet(d.readyq) \ {r}
         /\ Alive(r) => UsedIn(e) = UsedIn(d)
         /\ \A x \in Rids : Alive(x) => UsedIn(e)[x] = UsedIn(d)[x]
PROOF
<1> DEFINE q == Dequeue(d.readyq, r)
           f == [d EXCEPT !.readyq = q]
<1>1. /\ d.readyq \in Seq(Rids) /\ q \in Seq(Rids)
      /\ ToSet(q) = ToSet(d.readyq) \ {r}
  BY DequeueProperties DEF Dispatchers
<1>2. /\ f \in Dispatchers /\ f.readyq = q /\ f.current = d.current
      /\ f.elapsed = d.elapsed
  BY <1>1 DEF Dispatchers
<1>3. e \in Dispatchers /\ ToSet(e.readyq) = ToSet(d.readyq) \ {r}
  BY <1>1, RemovalsType
<1>4. CASE e = Stop(d, r)
  BY <1>3, <1>4, StopRescheduled DEF Rescheduled
<1>5. CASE ~Alive(r) /\ e = f /\ (d.readyq = <<>> \/ Head(d.readyq) # r)
  BY <1>3, <1>5, UnlinkedUsed
<1>6. CASE ~Alive(r) /\ e = StartHead(f) /\ d.readyq # <<>> /\ Head(d.readyq) = r
  <2>1. UsedIn(e) = d.current
    <3> HIDE DEF f
    <3>1. QED
      BY <1>2, <1>6, StartHeadUsed
  <2>2. \A x \in Rids : Alive(x) => UsedIn(d)[x] = d.current[x]
    BY <1>6, UsedMeans
  <2>3. QED
    BY <1>3, <1>6, <2>1, <2>2
<1>7. CASE /\ ~Alive(r)
           /\ d.readyq # <<>> /\ Head(d.readyq) = r
           /\ q # <<>> /\ ~Alive(Head(q))
           /\ \E t \in 0 .. MaxTicks : e = [f EXCEPT !.elapsed = t]
  <2>1. e.readyq = q /\ e.current = d.current
    <3> HIDE DEF f
    <3>1. QED
      BY <1>2, <1>7 DEF Dispatchers
  <2>2. \A x \in Rids : Alive(x) => UsedIn(d)[x] = d.current[x]
    BY <1>7, UsedMeans
  <2>3. \A x \in Rids : Alive(x) => UsedIn(e)[x] = e.current[x]
    BY <1>3, <1>7, <2>1, UsedMeans
  <2>4. QED
    BY <1>3, <1>7, <2>1, <2>2, <2>3
<1>8. QED
  BY <1>4, <1>5, <1>6, <1>7 DEF Removals

-----------------------------------------------------------------------------
(***************************************************************************)
(* Steps, as those of Dispatch, from a dispatcher d on.                    *)
(***************************************************************************)

ResumedFrom(d) ==
  /\ \E r \in Rids :
       ToSet(dispatcher'.readyq) \in {ToSet(d.readyq), ToSet(d.readyq) \cup {r}}
  /\ UsedIn(dispatcher') = UsedIn(d)
  /\ Due' = Due /\ Tasked' = Tasked

LeftFrom(d) ==
  /\ \E r \in Tasked : /\ ToSet(dispatcher'.readyq) = ToSet(d.readyq) \ {r}
                       /\ Due' = [Due EXCEPT ![r] = @ - 1]
  /\ UsedIn(dispatcher') = UsedIn(d)
  /\ Tasked' = Tasked

ArrivedFrom(d) ==
  \E r \in Rids :
    /\ Replenished(d, dispatcher', r)
    /\ Due' = [Due EXCEPT ![r] = IF @ >= 1 THEN @ ELSE @ + 1]
    /\ Tasked' = Tasked \cup {r}
    /\ UsedIn(dispatcher')[r] = 0 \/ (Due[r] < 1 /\ r \in ToSet(d.readyq))

ExitedFrom(d) ==
  /\ \E r \in Tasked :
       /\ ToSet(dispatcher'.readyq) \in {ToSet(d.readyq), ToSet(d.readyq) \ {r}}
       /\ Due' = [Due EXCEPT ![r] = 0]
       /\ Tasked' = Tasked \ {r}
  /\ UsedIn(dispatcher') = UsedIn(d)

ReapedFrom(d) ==
  /\ \E r \in Rids \ Tasked : ToSet(dispatcher'.readyq) = ToSet(d.readyq) \ {r}
  /\ \A x \in Tasked : UsedIn(dispatcher')[x] = UsedIn(d)[x]
  /\ Due' = Due /\ Tasked' = Tasked

Dispatched(d) ==
  \/ ResumedFrom(d) \/ LeftFrom(d) \/ ArrivedFrom(d)
  \/ ExitedFrom(d) \/ ReapedFrom(d)

\* What is dispatched from a dispatcher at the same point of execution.
LEMMA DispatchedFrom ==
  ASSUME NEW d, NEW e, UsedIn(e) = UsedIn(d), ToSet(e.readyq) = ToSet(d.readyq),
         Dispatched(e)
  PROVE  Dispatched(d)
PROOF
BY DEF Dispatched, ResumedFrom, LeftFrom, ArrivedFrom, ExitedFrom, ReapedFrom,
       Replenished, Moved

\* A step that changes the entry and the task of r only.
LEMMA DueMeans ==
  ASSUME NEW r \in Rids,
         \A x \in Rids \ {r} : table'[x] = table[x] /\ task'[x] = task[x]
  PROVE  /\ Alive(r)' => /\ Due' = [Due EXCEPT ![r] = table'[r].start_period]
                         /\ Tasked' = Tasked \cup {r}
         /\ ~Alive(r)' => /\ Due' = [Due EXCEPT ![r] = 0]
                          /\ Tasked' = Tasked \ {r}
PROOF
<1>1. \A x \in Rids \ {r} : Alive(x)' <=> Alive(x)
  BY DEF Alive
<1>2. \A x \in Rids \ {r} : Due'[x] = Due[x]
  BY <1>1 DEF Due
<1>3. Due'[r] = IF Alive(r)' THEN table'[r].start_period ELSE 0
  BY DEF Due
<1>4. Due' = [x \in Rids |-> Due'[x]] /\ Due = [x \in Rids |-> Due[x]]
  BY DEF Due
<1>5. /\ Alive(r)' => Due' = [Due EXCEPT ![r] = table'[r].start_period]
      /\ ~Alive(r)' => Due' = [Due EXCEPT ![r] = 0]
  <2> HIDE DEF Due
  <2>1. QED
    BY <1>2, <1>3, <1>4
<1>6. /\ Alive(r)' => Tasked' = Tasked \cup {r}
      /\ ~Alive(r)' => Tasked' = Tasked \ {r}
  BY <1>1 DEF Tasked
<1>7. QED
  BY <1>5, <1>6

\* Whose job is due does not change with the rest of an entry.
LEMMA DueKept ==
  ASSUME NEW r \in Rids,
         \A x \in Rids \ {r} : table'[x] = table[x] /\ task'[x] = task[x],
         Alive(r)' <=> Alive(r),
         Alive(r) => table'[r].start_period = table[r].start_period
  PROVE  Due' = Due /\ Tasked' = Tasked
PROOF
<1>1. \A x \in Rids : Alive(x)' <=> Alive(x)
  BY DEF Alive
<1>2. Tasked' = Tasked
  BY <1>1 DEF Tasked
<1>3. \A x \in Rids : Alive(x) => table'[x].start_period = table[x].start_period
  OBVIOUS
<1>4. Due' = Due
  BY <1>1, <1>3 DEF Due
<1>5. QED
  BY <1>2, <1>4

\* Nor with the rest of the state.
LEMMA DueUnchanged ==
  ASSUME table' = table, task' = task
  PROVE  Due' = Due /\ Tasked' = Tasked
PROOF
BY DEF Due, Tasked, Alive

\* Rids is not empty, so that a step may move nobody.
LEMMA NothingDispatched ==
  ASSUME NEW d, UsedIn(dispatcher') = UsedIn(d),
         ToSet(dispatcher'.readyq) = ToSet(d.readyq),
         Due' = Due, Tasked' = Tasked
  PROVE  Dispatched(d)
PROOF
<1>1. 0 \in Rids
  BY MaxReservesAssumption DEF Rids
<1>2. QED
  BY <1>1 DEF Dispatched, ResumedFrom

\* delete_reserve of r, wherever a handler calls it.
LEMMA DeleteDispatched ==
  ASSUME IInv, NEW d, DispatcherOK(d), NEW r \in Rids,
         NEW t \in [Rids -> Reserves],
         \A x \in Rids \ {r} : t[x] = table[x], DeleteReserve(d, t, r)
  PROVE  Dispatched(d)
PROOF
<1>1. /\ priority \in [Rids -> Int] /\ d.readyq \in Seq(Rids) /\ TypeOK
      /\ d \in Dispatchers /\ task \in [Rids -> TaskStates]
  BY DEF IInv, TypeOK, DispatcherOK, Dispatchers
<1>2. Distinct(d.readyq)
  BY <1>1, SortedDistinct DEF DispatcherOK
<1>3. PICK e \in Removals(d, r) :
        dispatcher' = [CancelTimers(e, r) EXCEPT !.signals[r] = <<>>]
  BY DEF DeleteReserve
<1>4. e \in Dispatchers
  BY <1>1, <1>2, RemovalsType
<1>5. /\ CancelTimers(e, r) \in Dispatchers
      /\ CancelTimers(e, r).readyq = e.readyq
      /\ CancelTimers(e, r).current = e.current
      /\ CancelTimers(e, r).elapsed = e.elapsed
  BY <1>4, CancelTimersType
<1>6. /\ dispatcher'.readyq = e.readyq
      /\ dispatcher'.current = e.current
      /\ dispatcher'.elapsed = e.elapsed
  BY <1>3, <1>5 DEF Dispatchers
<1>7. UsedIn(dispatcher') = UsedIn(e)
  BY <1>6, SameChargesUsed
<1>8. /\ ToSet(e.readyq) = ToSet(d.readyq) \ {r}
      /\ Alive(r) => UsedIn(e) = UsedIn(d)
      /\ \A x \in Rids : Alive(x) => UsedIn(e)[x] = UsedIn(d)[x]
  BY <1>1, <1>2, <1>3, RemovalsReaped
<1>9. /\ \A x \in Rids \ {r} : table'[x] = table[x] /\ task'[x] = task[x]
      /\ ~Alive(r)'
  BY <1>1 DEF DeleteReserve, Alive, Reserves, Free, Attached
<1>10. CASE Alive(r)
  <2>1. ExitedFrom(d)
    BY <1>6, <1>7, <1>8, <1>9, <1>10, DueMeans DEF ExitedFrom, Tasked
  <2>2. QED
    BY <2>1 DEF Dispatched
<1>11. CASE ~Alive(r)
  <2>1. Due' = Due /\ Tasked' = Tasked
    BY <1>9, <1>11, DueKept
  <2>2. ReapedFrom(d)
    BY <1>6, <1>7, <1>8, <1>11, <2>1 DEF ReapedFrom, Tasked
  <2>3. QED
    BY <2>2 DEF Dispatched
<1>12. QED
  BY <1>10, <1>11

\* start_reserve, as the last thing a handler does.
LEMMA StartDispatched ==
  ASSUME IInv, NEW d, DispatcherOK(d), NEW r \in Rids,
         dispatcher' \in {d, Start(d, priority, r)},
         Due' = Due, Tasked' = Tasked
  PROVE  Dispatched(d)
PROOF
<1>1. priority \in [Rids -> Int] /\ TypeOK /\ d \in Dispatchers
  BY DEF IInv, TypeOK, DispatcherOK
<1>2. CASE dispatcher' = d
  BY <1>2, NothingDispatched
<1>3. CASE dispatcher' = Start(d, priority, r)
  <2>1. UsedIn(dispatcher') = UsedIn(d)
    BY <1>1, <1>3, StartRescheduled DEF Rescheduled
  <2>2. ToSet(dispatcher'.readyq) = ToSet(d.readyq) \cup {r}
    BY <1>1, <1>3, StartType
  <2>3. QED
    BY <2>1, <2>2 DEF Dispatched, ResumedFrom
<1>4. QED
  BY <1>2, <1>3

\* stop_reserve of a job that is due no more.
LEMMA StopDispatched ==
  ASSUME IInv, NEW d, DispatcherOK(d), NEW r \in Rids, Alive(r), Alive(r)',
         \A x \in Rids \ {r} : table'[x] = table[x] /\ task'[x] = task[x],
         table'[r].start_period = table[r].start_period - 1,
         dispatcher' = Stop(d, r)
  PROVE  Dispatched(d)
PROOF
<1>1. /\ priority \in [Rids -> Int] /\ d.readyq \in Seq(Rids) /\ TypeOK
      /\ d \in Dispatchers
  BY DEF IInv, TypeOK, DispatcherOK, Dispatchers
<1>2. Distinct(d.readyq)
  BY <1>1, SortedDistinct DEF DispatcherOK
<1>3. UsedIn(dispatcher') = UsedIn(d)
  BY <1>1, <1>2, StopRescheduled DEF Rescheduled
<1>4. ToSet(dispatcher'.readyq) = ToSet(d.readyq) \ {r}
  BY <1>1, <1>2, StopType, DequeueProperties
<1>5. r \in Tasked /\ Tasked' = Tasked /\ Due[r] = table[r].start_period
  BY DueMeans DEF Tasked, Due
<1>6. Due' = [Due EXCEPT ![r] = @ - 1]
  <2>1. Due' = [Due EXCEPT ![r] = table'[r].start_period]
    BY DueMeans
  <2>2. QED
    BY <1>5, <2>1
<1>7. LeftFrom(d)
  BY <1>3, <1>4, <1>5, <1>6 DEF LeftFrom
<1>8. QED
  BY <1>7 DEF Dispatched

\* A handler that moves r twice moves it once.
LEMMA MovedTwice ==
  ASSUME NEW d, NEW e, NEW f, NEW r, Moved(d, e, r), Moved(e, f, r)
  PROVE  Moved(d, f, r)
PROOF
BY DEF Moved

\* The head of a ready queue is ready.
LEMMA HeadMember ==
  ASSUME NEW d \in Dispatchers, d.readyq # <<>>
  PROVE  Head(d.readyq) \in Rids /\ Head(d.readyq) \in ToSet(d.readyq)
PROOF
<1>1. d.readyq \in Seq(Rids)
  BY DEF Dispatchers
<1>2. 1 \in DOMAIN d.readyq /\ Head(d.readyq) = d.readyq[1]
  BY <1>1
<1>3. QED
  BY <1>1, <1>2 DEF ToSet

\* A new budget for r spares nobody else.
LEMMA CurrentZeroUsed ==
  ASSUME NEW d \in Dispatchers, NEW r \in Rids
  PROVE  LET e == [d EXCEPT !.current[r] = 0]
         IN /\ UsedIn(e)[r] <= UsedIn(d)[r]
            /\ r \notin ToSet(d.readyq) => UsedIn(e)[r] = 0
            /\ \A x \in Rids \ {r} : UsedIn(e)[x] = UsedIn(d)[x]
            /\ ToSet(e.readyq) = ToSet(d.readyq)
PROOF
<1> DEFINE e == [d EXCEPT !.current[r] = 0]
<1>1. 0 \in 0 .. MaxTicks
  BY ConstantsAssumption
<1>2. /\ e \in Dispatchers /\ e.readyq = d.readyq /\ e.elapsed = d.elapsed
      /\ \A x \in Rids : e.current[x] = IF x = r THEN 0 ELSE d.current[x]
  BY <1>1 DEF Dispatchers
<1>3. d.current[r] \in 0 .. MaxTicks /\ d.elapsed \in 0 .. MaxTicks
  BY DEF Dispatchers
<1> HIDE DEF e
<1>4. UsedIn(e)[r] <= UsedIn(d)[r]
  BY <1>2, <1>3, ConstantsAssumption DEF UsedIn, Capped
<1>5. \A x \in Rids \ {r} : UsedIn(e)[x] = UsedIn(d)[x]
  BY <1>2 DEF UsedIn
<1>6. ToSet(e.readyq) = ToSet(d.readyq)
  BY <1>2
<1>7. r \notin ToSet(d.readyq) => UsedIn(e)[r] = 0
  BY <1>2, HeadMember, UsedMeans
<1>8. QED
  BY <1>4, <1>5, <1>6, <1>7 DEF e

\* An arrival charges the job that is still there, gives r its budget and
\* starts the new job: the charges of r do not grow, those of others stay.
\* The new job starts at no charge, unless r is executing although no job of
\* it is due.
LEMMA StartOfPeriodReplenishes ==
  ASSUME IInv, NEW r \in Rids, Alive(r), StartOfPeriod(r)
  PROVE  /\ Replenished(dispatcher, dispatcher', r)
         /\ \/ UsedIn(dispatcher')[r] = 0
            \/ ~Overrun(r) /\ r \in ToSet(dispatcher.readyq)
PROOF
<1> DEFINE late == [dispatcher EXCEPT !.enforcement[r] = Off]
           b == BudgetEnforcement(late, r, FALSE)
           stopped == IF Overrun(r) THEN Stop(b, r) ELSE dispatcher
           fresh == [stopped EXCEPT !.current[r] = 0]
           d == ArmZeroSlack(fresh, r)
<1>1. TypeOK /\ DispatcherOK(dispatcher)
  BY DispatcherInvariant DEF IInv
<1>2. /\ DispatcherOK(late) /\ UsedIn(late) = UsedIn(dispatcher)
      /\ ToSet(late.readyq) = ToSet(dispatcher.readyq)
  <2>1. /\ late.readyq = dispatcher.readyq /\ late.current = dispatcher.current
        /\ late.elapsed = dispatcher.elapsed
    BY <1>1 DEF DispatcherOK, Dispatchers
  <2>2. DispatcherOK(late)
    BY <1>1, EnforcementOffOK
  <2> HIDE DEF late
  <2>3. QED
    BY <2>1, <2>2, SameChargesUsed
<1> HIDE DEF late
<1>3. /\ DispatcherOK(b) /\ UsedIn(b) = UsedIn(late)
      /\ ToSet(b.readyq) = ToSet(late.readyq)
  BY <1>1, <1>2, BudgetEnforcementOK, BudgetEnforcementType, SameExecutionUsed
     DEF DispatcherOK
<1> HIDE DEF b
<1>4. /\ DispatcherOK(Stop(b, r)) /\ Rescheduled(b, Stop(b, r), r)
      /\ r \notin ToSet(Stop(b, r).readyq)
  <2>1. Distinct(b.readyq) /\ b.readyq \in Seq(Rids)
    BY <1>1, <1>3, SortedDistinct DEF DispatcherOK, Dispatchers, TypeOK
  <2>2. ToSet(Stop(b, r).readyq) = ToSet(b.readyq) \ {r}
    BY <1>1, <1>3, <2>1, StopType, DequeueProperties DEF DispatcherOK
  <2>3. QED
    BY <1>1, <1>3, <2>1, <2>2, StopOK, StopRescheduled DEF DispatcherOK
<1>5. /\ DispatcherOK(stopped) /\ Rescheduled(dispatcher, stopped, r)
      /\ Overrun(r) => r \notin ToSet(stopped.readyq)
      /\ ~Overrun(r) => stopped = dispatcher
  BY <1>1, <1>2, <1>3, <1>4 DEF Rescheduled, Moved
<1> HIDE DEF stopped
<1>6. /\ DispatcherOK(fresh) /\ Moved(dispatcher, fresh, r)
      /\ UsedIn(fresh)[r] <= UsedIn(dispatcher)[r]
      /\ r \notin ToSet(stopped.readyq) => UsedIn(fresh)[r] = 0
      /\ \A x \in Rids \ {r} : UsedIn(fresh)[x] = UsedIn(dispatcher)[x]
  BY <1>5, CurrentZeroOK, CurrentZeroUsed DEF DispatcherOK, Rescheduled, Moved
<1> HIDE DEF fresh
<1>7. /\ DispatcherOK(d) /\ UsedIn(d) = UsedIn(fresh)
      /\ ToSet(d.readyq) = ToSet(fresh.readyq)
  BY <1>6, ZeroSlackOK, ArmZeroSlackType, SameExecutionUsed DEF DispatcherOK
<1>8. dispatcher' \in {d, Start(d, priority, r)}
  BY DEF StartOfPeriod, d, fresh, stopped, b, late
<1> HIDE DEF d
<1>9. Rescheduled(d, Start(d, priority, r), r)
  BY <1>1, <1>7, StartRescheduled DEF DispatcherOK, TypeOK
<1>10. Moved(d, dispatcher', r) /\ UsedIn(dispatcher') = UsedIn(d)
  BY <1>8, <1>9 DEF Rescheduled, Moved
<1>11. Moved(dispatcher, dispatcher', r)
  <2>1. Moved(dispatcher, d, r)
    BY <1>6, <1>7 DEF Moved
  <2>2. QED
    BY <1>10, <2>1, MovedTwice
<1>12. QED
  BY <1>5, <1>6, <1>7, <1>10, <1>11 DEF Replenished

\* The period timer lets a job of r arrive.
LEMMA ArrivalDispatched ==
  ASSUME IInv, NEW r \in Rids, Alive(r), StartOfPeriod(r)
  PROVE  Dispatched(dispatcher)
PROOF
<1>1. /\ table \in [Rids -> Reserves] /\ task \in [Rids -> TaskStates]
      /\ table[r].start_period \in Int
  BY DEF IInv, TypeOK, Reserves
<1>2. /\ table' = [table EXCEPT ![r] = Arrived(r)]
      /\ task' \in {task, [task EXCEPT ![r] = "running"]}
  BY DEF StartOfPeriod
<1>3. /\ Arrived(r).pid = table[r].pid
      /\ Arrived(r).start_period = IF table[r].start_period >= 1
                                   THEN table[r].start_period
                                   ELSE table[r].start_period + 1
  BY <1>1 DEF Arrived, Overrun, Reserves
<1>4. /\ \A x \in Rids \ {r} : table'[x] = table[x] /\ task'[x] = task[x]
      /\ table'[r] = Arrived(r) /\ Alive(r)'
  BY <1>1, <1>2, <1>3 DEF Alive
<1>5. r \in Tasked /\ Due[r] = table[r].start_period
  BY DEF Tasked, Due
<1>6. /\ Due' = [Due EXCEPT ![r] = table'[r].start_period]
      /\ Tasked' = Tasked \cup {r}
  BY <1>4, DueMeans
<1>7. Due' = [Due EXCEPT ![r] = IF @ >= 1 THEN @ ELSE @ + 1]
  BY <1>3, <1>4, <1>5, <1>6
<1>8. Overrun(r) <=> Due[r] >= 1
  BY <1>5 DEF Overrun
<1>9. \/ UsedIn(dispatcher')[r] = 0
      \/ Due[r] < 1 /\ r \in ToSet(dispatcher.readyq)
  BY <1>1, <1>5, <1>8, StartOfPeriodReplenishes
<1>10. ArrivedFrom(dispatcher)
  BY <1>6, <1>7, <1>9, StartOfPeriodReplenishes DEF ArrivedFrom
<1>11. QED
  BY <1>10 DEF Dispatched

\* A reserve that is attached takes its first budget.
LEMMA AttachDispatched ==
  ASSUME IInv, IInv', NEW r \in Rids, AttachReserve(r)
  PROVE  Dispatched(dispatcher)
PROOF
<1> DEFINE fresh == [dispatcher EXCEPT !.current[r] = 0]
           d == ArmZeroSlack(fresh, r)
<1>1. TypeOK /\ DispatcherOK(dispatcher) /\ priority' \in [Rids -> Int]
  BY DispatcherInvariant DEF IInv, TypeOK
<1>2. r \notin ToSet(dispatcher.readyq) /\ ~Alive(r)
  BY DEF AttachReserve, IInv, ReadyAttached, Ready, Alive, Created, Attached
<1>3. /\ DispatcherOK(fresh) /\ Moved(dispatcher, fresh, r)
      /\ UsedIn(fresh)[r] <= UsedIn(dispatcher)[r] /\ UsedIn(fresh)[r] = 0
      /\ \A x \in Rids \ {r} : UsedIn(fresh)[x] = UsedIn(dispatcher)[x]
  BY <1>1, <1>2, CurrentZeroOK, CurrentZeroUsed DEF DispatcherOK, Moved
<1> HIDE DEF fresh
<1>4. /\ d \in Dispatchers /\ UsedIn(d) = UsedIn(fresh)
      /\ ToSet(d.readyq) = ToSet(fresh.readyq)
  BY <1>3, ArmZeroSlackType, SameExecutionUsed DEF DispatcherOK
<1>5. dispatcher' = Start(d, priority', r)
  BY DEF AttachReserve, d, fresh
<1> HIDE DEF d
<1>6. Rescheduled(d, dispatcher', r)
  BY <1>1, <1>4, <1>5, StartRescheduled
<1>7. Moved(dispatcher, dispatcher', r)
  <2>1. Moved(dispatcher, d, r)
    BY <1>3, <1>4 DEF Moved
  <2>2. QED
    BY <1>6, <2>1, MovedTwice DEF Rescheduled
<1>8. Replenished(dispatcher, dispatcher', r) /\ UsedIn(dispatcher')[r] = 0
  BY <1>3, <1>4, <1>6, <1>7 DEF Replenished, Rescheduled
<1>9. /\ \A x \in Rids \ {r} : table'[x] = table[x] /\ task'[x] = task[x]
      /\ table'[r].start_period = 1 /\ Alive(r)'
  BY <1>1 DEF AttachReserve, TypeOK, Reserves, Alive, Attached
<1>10. Due[r] = 0
  BY <1>2 DEF Due
<1>11. ArrivedFrom(dispatcher)
  BY <1>8, <1>9, <1>10, DueMeans DEF ArrivedFrom
<1>12. QED
  BY <1>11 DEF Dispatched

\* A departure charges the job that departs.
LEMMA DepartDispatched ==
  ASSUME IInv, NEW d, DispatcherOK(d), NEW r \in Rids, Alive(r), NEW call,
         Depart(d, r, call)
  PROVE  Dispatched(d)
PROOF
<1> DEFINE e == [d EXCEPT !.zero_slack = @ \ {r}]
<1>1. SameExecution(d, e)
  BY DEF DispatcherOK, Dispatchers, SameExecution
<1>2. DispatcherOK(e) /\ dispatcher' = Stop(e, r)
  BY ZeroSlackOK DEF Depart
<1> HIDE DEF e
<1>3. /\ \A x \in Rids \ {r} : table'[x] = table[x] /\ task'[x] = task[x]
      /\ table'[r].start_period = table[r].start_period - 1
      /\ Alive(r)'
  BY DEF Depart, Departed, IInv, TypeOK, Reserves, Alive
<1>4. Dispatched(e)
  BY <1>2, <1>3, StopDispatched
<1>5. QED
  BY <1>1, <1>4, SameExecutionUsed, DispatchedFrom

\* wait_for_next_release
LEMMA WaitForNextReleaseDispatched ==
  ASSUME IInv, NEW d, DispatcherOK(d), NEW r \in Rids, Alive(r), NEW call,
         WaitForNextRelease(d, r, call)
  PROVE  Dispatched(d)
PROOF
<1>1. CASE Depart(d, r, call)
  BY <1>1, DepartDispatched
<1>2. CASE ~Depart(d, r, call)
  <2>1. dispatcher' \in {d, Start(d, priority, r)}
    BY <1>2 DEF WaitForNextRelease
  <2>2. /\ \A x \in Rids \ {r} : table'[x] = table[x] /\ task'[x] = task[x]
        /\ table'[r].start_period = table[r].start_period
        /\ Alive(r)'
    BY <1>2 DEF WaitForNextRelease, Asleep, IInv, TypeOK, Reserves, Alive
  <2>3. QED
    BY <2>1, <2>2, DueKept, StartDispatched
<1>3. QED
  BY <1>1, <1>2

\* The system calls.
LEMMA SystemCallDispatched ==
  ASSUME IInv, IInv', NEW r \in Rids, SystemCall(r)
  PROVE  Dispatched(dispatcher)
PROOF
<1>1. DispatcherOK(dispatcher)
  BY DispatcherInvariant
<1>2. ASSUME NEW captured \in BOOLEAN, CaptureEnforcementSignal(r, captured)
      PROVE  Dispatched(dispatcher)
  <2>1. /\ \A x \in Rids \ {r} : table'[x] = table[x] /\ task'[x] = task[x]
        /\ table'[r].start_period = table[r].start_period
        /\ Alive(r)' <=> Alive(r)
    BY <1>2 DEF CaptureEnforcementSignal, IInv, TypeOK, Reserves, Alive
  <2>2. QED
    BY <1>2, <2>1, DueKept, NothingDispatched DEF CaptureEnforcementSignal
<1>3. CASE Delete(r)
  BY <1>1, <1>3, DeleteDispatched DEF Delete, IInv, TypeOK
<1>4. CASE WaitPeriod(r) \/ EndPeriod(r)
  BY <1>1, <1>4, DepartDispatched DEF WaitPeriod, EndPeriod
<1>5. CASE WaitRelease(r)
  BY <1>1, <1>5, WaitForNextReleaseDispatched DEF WaitRelease
<1>6. QED
  BY <1>2, <1>3, <1>4, <1>5, AttachDispatched DEF SystemCall

\* The exit of a task.
LEMMA DieDispatched ==
  ASSUME IInv, NEW r \in Rids, Die(r)
  PROVE  Dispatched(dispatcher)
PROOF
<1>1. DispatcherOK(dispatcher)
  BY DispatcherInvariant
<1>2. SameExecution(dispatcher, dispatcher')
  BY <1>1 DEF Die, DispatcherOK, Dispatchers, SameExecution
<1>3. /\ \A x \in Rids \ {r} : table'[x] = table[x] /\ task'[x] = task[x]
      /\ Alive(r) /\ ~Alive(r)'
  BY DEF Die, IInv, TypeOK, Alive
<1>4. ExitedFrom(dispatcher)
  BY <1>2, <1>3, DueMeans, SameExecutionUsed DEF ExitedFrom, Tasked
<1>5. QED
  BY <1>4 DEF Dispatched

\* The enforcement signal.
LEMMA SignalDispatched ==
  ASSUME IInv, NEW r \in Rids, EnforcementSignal(r)
  PROVE  Dispatched(dispatcher)
PROOF
<1> DEFINE rest == Tail(dispatcher.signals[r])
           d == [dispatcher EXCEPT !.signals[r] = rest]
<1>1. DispatcherOK(dispatcher) /\ Alive(r)
  BY DispatcherInvariant DEF EnforcementSignal
<1>2. rest \in Seq([stop : BOOLEAN, periodic : BOOLEAN])
  BY <1>1 DEF EnforcementSignal, DispatcherOK, Dispatchers
<1>3. \/ \E call : Depart(d, r, call)
      \/ \E call : WaitForNextRelease(d, r, call)
      \/ /\ dispatcher' = d /\ table' = table
         /\ task' = [task EXCEPT ![r] = "running"]
  BY Zenon DEF EnforcementSignal
<1> HIDE DEF rest
<1>4. DispatcherOK(d)
  BY <1>1, <1>2, SignalsOK
<1>5. SameExecution(dispatcher, d)
  BY <1>1 DEF DispatcherOK, Dispatchers, SameExecution
<1> HIDE DEF d
<1>6. ASSUME dispatcher' = d, table' = table,
             task' = [task EXCEPT ![r] = "running"]
      PROVE  Dispatched(d)
  <2>1. /\ \A x \in Rids \ {r} : table'[x] = table[x] /\ task'[x] = task[x]
        /\ table'[r].start_period = table[r].start_period
        /\ Alive(r)'
    BY <1>1, <1>6 DEF IInv, TypeOK, Alive
  <2>2. QED
    BY <1>1, <1>6, <2>1, DueKept, NothingDispatched
<1>7. Dispatched(d)
  BY <1>1, <1>3, <1>4, <1>6, DepartDispatched, WaitForNextReleaseDispatched
<1>8. QED
  BY <1>5, <1>7, SameExecutionUsed, DispatchedFrom

\* timer_handler for a task that is gone.
LEMMA ForceDeleteDispatched ==
  ASSUME NEW d, DispatcherOK(d), NEW r \in Rids, ForceDelete(d, r)
  PROVE  Dispatched(d)
PROOF
<1> DEFINE e == [d EXCEPT !.request_stop = @ \ {r}]
<1>1. e \in Dispatchers /\ SameExecution(d, e)
  BY DEF DispatcherOK, Dispatchers, SameExecution
<1>2. dispatcher' = WakeScheduler(PushToReschedule(e, r))
  BY DEF ForceDelete
<1>3. Due' = Due /\ Tasked' = Tasked
  BY DueUnchanged DEF ForceDelete
<1> HIDE DEF e
<1>4. SameExecution(d, dispatcher')
  BY <1>1, <1>2, PushToRescheduleType, WakeSchedulerType DEF SameExecution
<1>5. QED
  BY <1>3, <1>4, SameExecutionUsed, NothingDispatched

\* The kernel timers.
LEMMA TimerDispatched ==
  ASSUME IInv, NEW r \in Rids, Timer(r)
  PROVE  Dispatched(dispatcher)
PROOF
<1>1. DispatcherOK(dispatcher) /\ TypeOK
  BY DispatcherInvariant DEF IInv
<1>2. CASE PeriodTimer(r)
  BY <1>1, <1>2, ArrivalDispatched, ForceDeleteDispatched DEF PeriodTimer
<1>3. CASE EnforcementTimer(r)
  <2> DEFINE d == [dispatcher EXCEPT !.enforcement[r] = Off]
  <2>1. /\ d.readyq = dispatcher.readyq /\ d.current = dispatcher.current
        /\ d.elapsed = dispatcher.elapsed
    BY <1>1 DEF DispatcherOK, Dispatchers
  <2>2. DispatcherOK(d)
    BY <1>1, EnforcementOffOK
  <2>3. \/ /\ dispatcher' = BudgetEnforcement(d, r, TRUE)
           /\ table' = table /\ task' = task
        \/ ForceDelete(d, r)
    BY <1>3 DEF EnforcementTimer
  <2> HIDE DEF d
  <2>4. SameExecution(d, BudgetEnforcement(d, r, TRUE))
    BY <1>1, <2>2, BudgetEnforcementType DEF DispatcherOK
  <2>5. Dispatched(d)
    BY <2>2, <2>3, <2>4, SameExecutionUsed, DueUnchanged, NothingDispatched,
       ForceDeleteDispatched
  <2>6. QED
    BY <2>1, <2>5, SameChargesUsed, DispatchedFrom
<1>4. CASE ZeroSlackTimer(r)
  <2> DEFINE d == [dispatcher EXCEPT !.zero_slack = @ \ {r}]
  <2>1. SameExecution(dispatcher, d)
    BY <1>1 DEF DispatcherOK, Dispatchers, SameExecution
  <2>2. DispatcherOK(d)
    BY <1>1, ZeroSlackOK
  <2>3. \/ /\ dispatcher' = d /\ task' = task
           /\ table' \in {table, [table EXCEPT ![r].in_critical_mode = TRUE]}
        \/ ForceDelete(d, r)
    BY <1>4 DEF ZeroSlackTimer
  <2> HIDE DEF d
  <2>4. ASSUME dispatcher' = d, task' = task,
               table' \in {table, [table EXCEPT ![r].in_critical_mode = TRUE]}
        PROVE  Dispatched(d)
    <3>1. /\ \A x \in Rids \ {r} : table'[x] = table[x] /\ task'[x] = task[x]
          /\ table'[r].start_period = table[r].start_period
          /\ Alive(r)' <=> Alive(r)
      BY <1>1, <2>4 DEF TypeOK, Reserves, Alive
    <3>2. QED
      BY <2>4, <3>1, DueKept, NothingDispatched
  <2>5. Dispatched(d)
    BY <2>2, <2>3, <2>4, ForceDeleteDispatched
  <2>6. QED
    BY <2>1, <2>5, SameExecutionUsed, DispatchedFrom
<1>5. QED
  BY <1>2, <1>3, <1>4 DEF Timer

\* The loops of the handlers.
LEMMA ContinueDispatched ==
  ASSUME IInv, CallerAlive, Continue
  PROVE  Dispatched(dispatcher)
PROOF
<1>1. DispatcherOK(dispatcher) /\ dispatcher.readyq \in Seq(Rids) /\ TypeOK
  BY DispatcherInvariant DEF DispatcherOK, Dispatchers, IInv
<1>2. CASE FinishDeparture
  <2>1. PICK r \in Rids :
          /\ Alive(r) /\ dispatcher' = dispatcher
          /\ \/ table' = table /\ task' = task
             \/ /\ task' = [task EXCEPT ![r] = Asleep(lock.by)]
                /\ table' = [table EXCEPT ![r].num_period_wakeups = Dec(@)]
    BY <1>1, <1>2 DEF FinishDeparture, CallerAlive, TypeOK, Locks
  <2>2. /\ \A x \in Rids \ {r} : table'[x] = table[x] /\ task'[x] = task[x]
        /\ table'[r].start_period = table[r].start_period
        /\ Alive(r)'
    BY <1>1, <2>1 DEF TypeOK, Reserves, Alive, Asleep
  <2>3. QED
    BY <2>1, <2>2, DueKept, NothingDispatched
<1>3. CASE ReleaseBlocked
  <2>1. crit_blockq.head \in Rids
    BY <1>1, <1>3 DEF ReleaseBlocked, MoreBlocked, TypeOK, Lists
  <2>2. PICK t \in Rids :
          \/ dispatcher' = dispatcher /\ table' = table /\ task' = task
          \/ /\ Alive(t) /\ dispatcher' = Start(dispatcher, priority, t)
             /\ table' = table /\ task' = [task EXCEPT ![t] = "running"]
          \/ DeleteReserve(dispatcher, table, t)
    BY <1>3, <2>1 DEF ReleaseBlocked
  <2>3. CASE /\ Alive(t) /\ dispatcher' = Start(dispatcher, priority, t)
             /\ table' = table /\ task' = [task EXCEPT ![t] = "running"]
    <3>1. /\ \A x \in Rids \ {t} : table'[x] = table[x] /\ task'[x] = task[x]
          /\ table'[t].start_period = table[t].start_period
          /\ Alive(t)'
      BY <1>1, <2>3 DEF TypeOK, Alive
    <3>2. QED
      BY <1>1, <2>3, <3>1, DueKept, StartDispatched
  <2>4. CASE DeleteReserve(dispatcher, table, t)
    BY <1>1, <2>4, DeleteDispatched DEF TypeOK
  <2>5. QED
    BY <2>2, <2>3, <2>4, DueUnchanged, NothingDispatched
<1>4. CASE ZeroSlackScan
  <2>1. SameExecution(dispatcher, dispatcher')
    <3> DEFINE x == dispatcher.readyq[lock.at]
               d == [dispatcher EXCEPT !.request_stop = @ \cup {x}]
    <3>1. dispatcher \in Dispatchers
      BY <1>1 DEF TypeOK
    <3>2. \/ dispatcher' = dispatcher
          \/ dispatcher' = WakeScheduler(dispatcher)
          \/ dispatcher' = PushToReschedule(d, x)
      BY <1>4 DEF ZeroSlackScan
    <3>3. SameExecution(dispatcher, d)
      BY <3>1 DEF Dispatchers, SameExecution
    <3> HIDE DEF d
    <3>4. SameExecution(d, PushToReschedule(d, x))
      BY DEF PushToReschedule, SameExecution
    <3>5. QED
      BY <3>1, <3>2, <3>3, <3>4, WakeSchedulerType DEF SameExecution
  <2>2. Due' = Due /\ Tasked' = Tasked
    BY <1>4, DueUnchanged DEF ZeroSlackScan
  <2>3. QED
    BY <2>1, <2>2, SameExecutionUsed, NothingDispatched
<1>5. QED
  BY <1>2, <1>3, <1>4 DEF Continue

\* A request to stop r, which scheduler_task pops.
LEMMA StopRequestedDispatched ==
  ASSUME IInv, NEW d, DispatcherOK(d), NEW r \in Rids, StopRequested(d, r)
  PROVE  Dispatched(d)
PROOF
<1> DEFINE e == [d EXCEPT !.request_stop = @ \ {r}]
           t == [table EXCEPT ![r].enforced = TRUE]
<1>1. e \in Dispatchers /\ SameExecution(d, e) /\ TypeOK
  BY DEF DispatcherOK, Dispatchers, SameExecution, IInv
<1>2. /\ t \in [Rids -> Reserves] /\ \A x \in Rids \ {r} : t[x] = table[x]
      /\ t[r].pid = table[r].pid /\ t[r].start_period = table[r].start_period
  BY <1>1 DEF TypeOK, Reserves
<1>3. \/ dispatcher' = e /\ table' = table /\ task' = task
      \/ DeleteReserve(e, t, r)
      \/ /\ Alive(r) /\ dispatcher' = Stop(e, r)
         /\ table' = [t EXCEPT ![r].start_period = @ - 1]
         /\ task' = [task EXCEPT ![r] = Sleeping(@)]
  BY DEF StopRequested
<1> HIDE DEF e, t
<1>4. DispatcherOK(e)
  BY <1>1, SameExecutionOK
<1>5. ASSUME Alive(r), dispatcher' = Stop(e, r),
             table' = [t EXCEPT ![r].start_period = @ - 1],
             task' = [task EXCEPT ![r] = Sleeping(@)]
      PROVE  Dispatched(e)
  <2>1. /\ \A x \in Rids \ {r} : table'[x] = table[x] /\ task'[x] = task[x]
        /\ table'[r].start_period = table[r].start_period - 1
        /\ Alive(r)'
    BY <1>1, <1>2, <1>5 DEF TypeOK, Reserves, Alive, Sleeping
  <2>2. QED
    BY <1>4, <1>5, <2>1, StopDispatched
<1>6. Dispatched(e)
  BY <1>2, <1>3, <1>4, <1>5, DeleteDispatched, DueUnchanged, NothingDispatched
<1>7. QED
  BY <1>1, <1>6, SameExecutionUsed, DispatchedFrom

\* A reserve that scheduler_task pops with no request to stop it.
LEMMA RestartRequestedDispatched ==
  ASSUME IInv, NEW d, DispatcherOK(d), NEW r \in Rids, RestartRequested(d, r)
  PROVE  Dispatched(d)
PROOF
<1>1. CASE ~Alive(r)
  BY <1>1, DeleteDispatched DEF RestartRequested, IInv, TypeOK
<1>2. CASE Alive(r)
  <2>1. /\ dispatcher' = Start(d, priority, r)
        /\ \A x \in Rids \ {r} : table'[x] = table[x] /\ task'[x] = task[x]
        /\ table'[r].start_period = table[r].start_period
        /\ Alive(r)'
    BY <1>2 DEF RestartRequested, IInv, TypeOK, Alive
  <2>2. QED
    BY <1>2, <2>1, DueKept, StartDispatched
<1>3. QED
  BY <1>1, <1>2

\* scheduler_task
LEMMA SchedulerDispatched ==
  ASSUME IInv, SchedulerTask
  PROVE  Dispatched(dispatcher)
PROOF
<1>1. DispatcherOK(dispatcher) /\ dispatcher \in Dispatchers
  BY DispatcherInvariant DEF DispatcherOK
<1>2. CASE SchedulerUnlock \/ SchedulerSleep
  <2>1. SameExecution(dispatcher, dispatcher')
    BY <1>1, <1>2 DEF SchedulerUnlock, SchedulerSleep, Dispatchers, SameExecution
  <2>2. Due' = Due /\ Tasked' = Tasked
    BY <1>2, DueUnchanged DEF SchedulerUnlock, SchedulerSleep
  <2>3. QED
    BY <2>1, <2>2, SameExecutionUsed, NothingDispatched
<1>3. CASE SchedulerPop
  <2> DEFINE s == dispatcher.reschedule
             r == Last(s)
             rest == Front(s)
             d == [dispatcher EXCEPT !.reschedule = rest]
  <2>1. r \in Rids /\ rest \in Seq(Rids)
    <3>1. s \in Seq(Rids) /\ s # <<>>
      BY <1>1, <1>3 DEF SchedulerPop, Dispatchers
    <3> HIDE DEF s
    <3>2. Len(s) \in 1 .. Len(s) /\ \A i \in 1 .. Len(s) : s[i] \in Rids
      BY <3>1
    <3>3. QED
      BY <3>1, <3>2 DEF Last, Front
  <2>2. StopRequested(d, r) \/ RestartRequested(d, r)
    BY <1>3 DEF SchedulerPop
  <2> HIDE DEF r, rest
  <2>3. d \in Dispatchers /\ SameExecution(dispatcher, d)
    BY <1>1, <2>1 DEF Dispatchers, SameExecution
  <2> HIDE DEF d
  <2>4. DispatcherOK(d)
    BY <1>1, <2>3, SameExecutionOK
  <2>5. Dispatched(d)
    BY <2>1, <2>2, <2>4, StopRequestedDispatched, RestartRequestedDispatched
  <2>6. QED
    BY <2>3, <2>5, SameExecutionUsed, DispatchedFrom
<1>4. QED
  BY <1>2, <1>3 DEF SchedulerTask

\* CREATE_RSV
LEMMA CreateDispatched ==
  ASSUME IInv, NEW spec \in Specs, NEW admitted \in BOOLEAN,
         CreateReserve(spec, admitted)
  PROVE  Dispatched(dispatcher)
PROOF
<1>1. PICK r \in Rids :
        /\ ~Active(r)
        /\ table' = [table EXCEPT
             ![r] = NewReserve(r, spec, IF admitted THEN Created ELSE Free)]
  BY DEF CreateReserve
<1>2. task' = task /\ dispatcher' = dispatcher
  BY DEF CreateReserve
<1>3. NewReserve(r, spec, IF admitted THEN Created ELSE Free).pid # Attached
  BY <1>1 DEF NewReserve, IInv, TypeOK, Reserves, Created, Free, Attached
<1>4. /\ \A x \in Rids \ {r} : table'[x] = table[x] /\ task'[x] = task[x]
      /\ ~Alive(r) /\ ~Alive(r)'
  BY <1>1, <1>2, <1>3 DEF IInv, TypeOK, Alive, Active, Free, Attached
<1>5. QED
  BY <1>2, <1>4, DueKept, NothingDispatched

-----------------------------------------------------------------------------
(***************************************************************************)
(* The caller of a handler that holds zsrmlock is there.                   *)
(***************************************************************************)

\* The lock is taken for a departure by a task that is there, and released
\* when the call ends.
LEMMA DepartCalled ==
  ASSUME IInv, NEW d, NEW r \in Rids, NEW call, Alive(r),
         Depart(d, r, call) \/ (WaitForNextRelease(d, r, call) /\ lock.by = "free")
  PROVE  CallerAlive'
PROOF
<1>1. CASE Depart(d, r, call)
  <2>1. lock'.rid = r /\ Alive(r)'
    BY <1>1 DEF Depart, Departed, IInv, TypeOK, Reserves, Alive
  <2>2. QED
    BY <2>1 DEF CallerAlive
<1>2. CASE ~Depart(d, r, call)
  BY <1>2 DEF WaitForNextRelease, CallerAlive, Departing
<1>3. QED
  BY <1>1, <1>2

LEMMA CallerStep ==
  ASSUME IInv, CallerAlive, [Next]_vars
  PROVE  CallerAlive'
PROOF
<1>1. ASSUME NEW r \in Rids, SystemCall(r) \/ EnforcementSignal(r)
      PROVE  CallerAlive'
  <2>1. lock.by = "free"
    BY <1>1
       DEF SystemCall, AttachReserve, Delete, CaptureEnforcementSignal,
           WaitPeriod, EndPeriod, WaitRelease, EnforcementSignal, Enter
  <2>2. CASE lock' = lock
    BY <2>1, <2>2 DEF CallerAlive, Departing
  <2>3. CASE lock' # lock
    <3>1. Alive(r) /\ \E d, call : Depart(d, r, call)
                                   \/ WaitForNextRelease(d, r, call)
      BY <1>1, <2>3
         DEF SystemCall, AttachReserve, Delete, CaptureEnforcementSignal,
             WaitPeriod, EndPeriod, WaitRelease, EnforcementSignal
    <3>2. QED
      BY <2>1, <3>1, DepartCalled
  <2>4. QED
    BY <2>2, <2>3
<1>2. ASSUME NEW r \in Rids, Timer(r)
      PROVE  CallerAlive'
  <2>1. lock'.by \notin Departing
    BY <1>2 DEF Timer, PeriodTimer, EnforcementTimer, ZeroSlackTimer, Enter,
                Departing, Unlocked
  <2>2. QED
    BY <2>1 DEF CallerAlive
<1>3. ASSUME NEW r \in Rids, Die(r)
      PROVE  CallerAlive'
  BY <1>3 DEF Die, CallerAlive, Alive, IInv, TypeOK, Locks
<1>4. CASE SchedulerPop \/ SchedulerUnlock \/ FinishDeparture \/ ZeroSlackScan
  <2>1. CASE SchedulerPop \/ SchedulerUnlock \/ FinishDeparture
    <3>1. lock'.by \in {"sched", "free"}
      BY <2>1 DEF SchedulerPop, SchedulerUnlock, FinishDeparture, Unlocked
    <3>2. QED
      BY <3>1 DEF CallerAlive, Departing
  <2>2. CASE ZeroSlackScan
    <3>1. lock'.by \in {"zs", "free"}
      <4>1. /\ lock \in Locks /\ lock.by = "zs"
            /\ \/ lock' = Unlocked
               \/ lock' = [lock EXCEPT !.at = @ + 1]
               \/ lock' = [lock EXCEPT !.at = @ + 1, !.wake = TRUE]
        BY <2>2 DEF ZeroSlackScan, IInv, TypeOK
      <4>2. CASE lock' = Unlocked
        BY <4>2 DEF Unlocked
      <4>3. CASE lock' = [lock EXCEPT !.at = @ + 1]
        BY <4>1, <4>3 DEF Locks
      <4>4. CASE lock' = [lock EXCEPT !.at = @ + 1, !.wake = TRUE]
        BY <4>1, <4>4 DEF Locks
      <4>5. QED
        BY <4>1, <4>2, <4>3, <4>4
    <3>2. QED
      BY <3>1 DEF CallerAlive, Departing
  <2>3. QED
    BY <1>4, <2>1, <2>2
<1>5. CASE ReleaseBlocked
  <2> DEFINE t == crit_blockq.head
  <2>1. Alive(lock.rid) /\ lock.rid \in Rids /\ lock'.rid = lock.rid
    BY <1>5 DEF ReleaseBlocked, CallerAlive, IInv, TypeOK, Locks
  <2>2. \/ table' = table /\ task' = task
        \/ table' = table /\ task' = [task EXCEPT ![t] = "running"]
        \/ ~Alive(t) /\ DeleteReserve(dispatcher, table, t)
    BY <1>5 DEF ReleaseBlocked
  <2> HIDE DEF t
  <2>3. Alive(lock.rid)'
    BY <2>1, <2>2 DEF Alive, DeleteReserve, IInv, TypeOK
  <2>4. QED
    BY <2>1, <2>3 DEF CallerAlive, Alive
<1>6. ASSUME NEW spec \in Specs, NEW admitted \in BOOLEAN,
             CreateReserve(spec, admitted)
      PROVE  CallerAlive'
  BY <1>6 DEF CreateReserve, Enter, CallerAlive, Departing
<1>7. CASE SchedulerSleep \/ Tick \/ UNCHANGED vars
  BY <1>7 DEF SchedulerSleep, Tick, vars, CallerAlive, Alive
<1>8. QED
  BY <1>1, <1>2, <1>3, <1>4, <1>5, <1>6, <1>7
     DEF Next, SchedulerTask, Continue

-----------------------------------------------------------------------------
(***************************************************************************)
(* The order of the ready reserves.                                        *)
(***************************************************************************)

\* Only the creation and the attachment of a reserve change priorities.
LEMMA PrioritySteps ==
  ASSUME [Next]_vars
  PROVE  \/ priority' = priority
         \/ \E spec \in Specs, admitted \in BOOLEAN :
              CreateReserve(spec, admitted)
         \/ \E r \in Rids : AttachReserve(r)
PROOF
<1>1. \A d, r, call : Depart(d, r, call) => priority' = priority
  BY DEF Depart
<1>2. \A d, r, call : WaitForNextRelease(d, r, call) => priority' = priority
  BY <1>1 DEF WaitForNextRelease
<1>3. ASSUME NEW r \in Rids, SystemCall(r), ~AttachReserve(r)
      PROVE  priority' = priority
  BY <1>1, <1>2, <1>3
     DEF SystemCall, Delete, CaptureEnforcementSignal, WaitPeriod, EndPeriod,
         WaitRelease
<1>4. ASSUME NEW r \in Rids, EnforcementSignal(r) \/ Die(r) \/ Timer(r)
      PROVE  priority' = priority
  BY <1>1, <1>2, <1>4
     DEF EnforcementSignal, Die, Timer, PeriodTimer, EnforcementTimer,
         ZeroSlackTimer
<1>5. CASE SchedulerTask \/ Continue \/ Tick \/ UNCHANGED vars
  BY <1>5 DEF SchedulerTask, SchedulerPop, SchedulerUnlock, SchedulerSleep,
              Continue, ReleaseBlocked, FinishDeparture, ZeroSlackScan, Tick,
              vars
<1>6. QED
  BY <1>3, <1>4, <1>5 DEF Next

\* Reserves that are attached before and after a step that keeps the
\* rate-monotonic queue keep their order.
LEMMA AttachedOrder ==
  ASSUME IInv, IInv', rm_queue' = rm_queue, NEW x \in Rids, NEW y \in Rids,
         table[x].pid = Attached, table[y].pid = Attached,
         table'[x].pid = Attached, table'[y].pid = Attached
  PROVE  priority[x] > priority[y] <=> priority'[x] > priority'[y]
PROOF
<1>1. /\ rm_queue \in Seq(Rids)
      /\ priority[x] \in Int /\ priority[y] \in Int
      /\ priority'[x] \in Int /\ priority'[y] \in Int
  BY DEF IInv, TypeOK
<1>2. x \in ToSet(rm_queue) /\ y \in ToSet(rm_queue)
  BY DEF IInv, RmQueueSorted, Active, Attached, Free
<1>3. PICK i \in DOMAIN rm_queue : rm_queue[i] = x
  BY <1>2 DEF ToSet
<1>4. PICK j \in DOMAIN rm_queue : rm_queue[j] = y
  BY <1>2 DEF ToSet
<1>5. i \in Int /\ j \in Int
  BY <1>1
<1>6. i < j => priority[x] > priority[y] /\ priority'[x] > priority'[y]
  BY <1>3, <1>4 DEF IInv, PrioritiesFollow
<1>7. j < i => priority[y] > priority[x] /\ priority'[y] > priority'[x]
  BY <1>3, <1>4 DEF IInv, PrioritiesFollow
<1>8. i = j => x = y
  BY <1>3, <1>4
<1>9. QED
  BY <1>1, <1>5, <1>6, <1>7, <1>8

\* No step turns the order of two ready reserves round.
LEMMA ReadyOrder ==
  ASSUME IInv, IInv', [Next]_vars
  PROVE  \A x, y \in Ready \cap Ready' :
           priority[x] > priority[y] <=> priority'[x] > priority'[y]
PROOF
<1> SUFFICES ASSUME NEW x \in Ready \cap Ready', NEW y \in Ready \cap Ready'
    PROVE  priority[x] > priority[y] <=> priority'[x] > priority'[y]
  OBVIOUS
<1>1. dispatcher.readyq \in Seq(Rids) /\ priority \in [Rids -> Int]
  BY DEF IInv, TypeOK, Dispatchers
<1>2. /\ x \in Rids /\ y \in Rids
      /\ table[x].pid = Attached /\ table[y].pid = Attached
      /\ table'[x].pid = Attached /\ table'[y].pid = Attached
  <2>1. x \in Rids /\ y \in Rids
    BY <1>1 DEF Ready, ToSet
  <2>2. QED
    BY <2>1 DEF IInv, ReadyAttached
<1>3. CASE priority' = priority
  BY <1>3
<1>4. ASSUME NEW spec \in Specs, NEW admitted \in BOOLEAN,
             CreateReserve(spec, admitted)
      PROVE  priority[x] > priority[y] <=> priority'[x] > priority'[y]
  <2>1. PICK r \in Rids : ~Active(r)
                          /\ priority' = [priority EXCEPT ![r] = spec.priority]
    BY <1>4 DEF CreateReserve
  <2>2. x # r /\ y # r
    BY <1>2, <2>1 DEF Active, Attached, Free
  <2>3. QED
    BY <1>1, <1>2, <2>1, <2>2
<1>5. ASSUME NEW r \in Rids, AttachReserve(r)
      PROVE  priority[x] > priority[y] <=> priority'[x] > priority'[y]
  BY <1>2, <1>5, AttachedOrder DEF AttachReserve
<1>6. QED
  BY <1>3, <1>4, <1>5, PrioritySteps

-----------------------------------------------------------------------------
(***************************************************************************)
(* The refinement.                                                         *)
(***************************************************************************)

\* A tick is charged to the ready reserve of the highest priority.
LEMMA TickExecutes ==
  ASSUME IInv, Tick
  PROVE  Abstract!Execute
PROOF
<1> DEFINE q == dispatcher.readyq
           h == Head(q)
           p == Capped(dispatcher.elapsed + 1)
<1>1. /\ dispatcher \in Dispatchers /\ q \in Seq(Rids) /\ q # <<>>
      /\ dispatcher'.readyq = q
      /\ dispatcher'.current = dispatcher.current
      /\ dispatcher'.elapsed = p
      /\ UNCHANGED <<table, task, priority>>
  BY DEF IInv, TypeOK, Dispatchers, Tick
<1>2. h \in Rids /\ h \in Ready /\ h = q[1] /\ 1 \in DOMAIN q
  BY <1>1 DEF Ready, ToSet
<1>3. ASSUME NEW x \in Ready \ {h}
      PROVE  priority[x] < priority[h]
  <2>1. PICK i \in DOMAIN q : q[i] = x
    BY DEF Ready, ToSet
  <2>2. 1 < i
    BY <1>1, <1>2, <2>1
  <2>3. priority[q[1]] > priority[q[i]]
    BY <1>2, <2>1, <2>2 DEF IInv, ReadyqSorted
  <2>4. x \in Rids /\ priority \in [Rids -> Int]
    BY <1>1, <2>1 DEF IInv, TypeOK
  <2>5. QED
    BY <1>2, <2>1, <2>3, <2>4
<1>4. /\ dispatcher.elapsed \in 0 .. MaxTicks
      /\ \A x \in Rids : dispatcher.current[x] \in 0 .. MaxTicks
      /\ MaxTicks \in Nat
  BY <1>1, ConstantsAssumption DEF Dispatchers
<1> HIDE DEF h, q
<1>5. /\ UsedIn(dispatcher)[h] = Capped(dispatcher.current[h] + dispatcher.elapsed)
      /\ UsedIn(dispatcher')[h] = Capped(dispatcher.current[h] + p)
      /\ \A x \in Rids \ {h} : UsedIn(dispatcher')[x] = UsedIn(dispatcher)[x]
  BY <1>1, <1>2 DEF UsedIn, q, h
<1>6. UsedIn(dispatcher')[h] =
        IF UsedIn(dispatcher)[h] < MaxTicks THEN UsedIn(dispatcher)[h] + 1
        ELSE MaxTicks
  BY <1>2, <1>4, <1>5 DEF Capped
<1>7. UsedIn(dispatcher') =
        [UsedIn(dispatcher) EXCEPT
           ![h] = IF @ < MaxTicks THEN @ + 1 ELSE MaxTicks]
  <2> DEFINE u == UsedIn(dispatcher)
             w == UsedIn(dispatcher')
  <2>1. u = [x \in Rids |-> u[x]] /\ w = [x \in Rids |-> w[x]]
    BY DEF UsedIn
  <2>2. w[h] = IF u[h] < MaxTicks THEN u[h] + 1 ELSE MaxTicks
    BY <1>6
  <2>3. \A x \in Rids \ {h} : w[x] = u[x]
    BY <1>5
  <2> HIDE DEF u, w
  <2>4. w = [u EXCEPT ![h] = IF @ < MaxTicks THEN @ + 1 ELSE MaxTicks]
    BY <1>2, <2>1, <2>2, <2>3
  <2>5. QED
    BY <2>4 DEF u, w
<1>8. Ready' = Ready /\ Due' = Due /\ Tasked' = Tasked
  BY <1>1, DueUnchanged DEF Ready, q
<1>9. QED
  BY <1>1, <1>2, <1>3, <1>7, <1>8 DEF Abstract!Execute

\* Every other step schedules.
LEMMA StepDispatches ==
  ASSUME IInv, IInv', CallerAlive, Next
  PROVE  Abstract!Next
PROOF
<1>1. CASE Tick
  BY <1>1, TickExecutes DEF Abstract!Next
<1>2. CASE Dispatched(dispatcher)
  <2>1. Abstract!SameOrder
    BY ReadyOrder DEF Abstract!SameOrder
  <2>2. ResumedFrom(dispatcher) => Abstract!Resume
    BY DEF ResumedFrom, Abstract!Resume, Ready
  <2>3. LeftFrom(dispatcher) => Abstract!Leave
    BY DEF LeftFrom, Abstract!Leave, Ready
  <2>4. ArrivedFrom(dispatcher) => Abstract!Arrive
    BY DEF ArrivedFrom, Replenished, Moved, Abstract!Arrive, Ready
  <2>5. ExitedFrom(dispatcher) => Abstract!Exit
    BY DEF ExitedFrom, Abstract!Exit, Ready
  <2>6. ReapedFrom(dispatcher) => Abstract!Reap
    BY DEF ReapedFrom, Abstract!Reap, Ready
  <2>7. QED
    BY <1>2, <2>1, <2>2, <2>3, <2>4, <2>5, <2>6
       DEF Dispatched, Abstract!Schedule, Abstract!Next
<1>3. QED
  BY <1>1, <1>2, CreateDispatched, SystemCallDispatched, SignalDispatched,
     DieDispatched, TimerDispatched, SchedulerDispatched, ContinueDispatched
     DEF Next

\* The module is loaded with nothing to dispatch.
LEMMA InitDispatches ==
  ASSUME Init
  PROVE  Abstract!Init
PROOF
<1>1. IInv
  BY InitOK
<1>2. Ready = {}
  BY DEF Init, Ready, ToSet
<1>3. UsedIn(dispatcher) = [r \in Rids |-> 0]
  <2>1. dispatcher.readyq = <<>> /\ dispatcher.current = [r \in Rids |-> 0]
    BY DEF Init
  <2>2. dispatcher \in Dispatchers
    BY <1>1 DEF IInv, TypeOK
  <2>3. QED
    BY <2>1, <2>2, UsedAtStart
<1>4. \A r \in Rids : ~Alive(r)
  BY DEF Init, Alive, Free, Attached
<1>5. Tasked = {} /\ Due = [r \in Rids |-> 0]
  BY <1>4 DEF Tasked, Due
<1>6. priority \in [Rids -> Int]
  BY <1>1 DEF IInv, TypeOK
<1>7. QED
  BY <1>2, <1>3, <1>5, <1>6 DEF Abstract!Init

\* The dispatcher gives the processor to the ready reserve of the highest
\* priority and charges every tick of it to the job of that reserve, once; a
\* job keeps its charge, that of the head which is stopped or departs
\* included, until the next one arrives, through any sequence of arrivals,
\* preemptions, enforcements, departures, resumptions and deletions, with any
\* number of reserves and any priorities.
THEOREM DispatcherImplementsDispatch == Spec => ImplementsDispatch
PROOF
<1>1. Init => Abstract!Init /\ CallerAlive
  BY InitDispatches DEF Init, Unlocked, CallerAlive, Departing
<1>2. IInv /\ CallerAlive /\ [Next]_vars => CallerAlive'
  BY CallerStep
<1>3. IInv /\ IInv' /\ CallerAlive /\ [Next]_vars
        => [Abstract!Next]_(Abstract!vars)
  <2>1. UNCHANGED vars => UNCHANGED Abstract!vars
    BY DEF vars, Abstract!vars, Ready, UsedIn, Capped, Alive, Tasked, Due
  <2>2. QED
    BY <2>1, StepDispatches
<1>4. QED
  BY <1>1, <1>2, <1>3, Invariance, PTL
     DEF Spec, ImplementsDispatch, Abstract!Spec
=============================================================================
