--------------------------- MODULE HandlerProofs ---------------------------
(***************************************************************************)
(* The inductive invariant of Zsrmv, and a lemma for every handler: a      *)
(* step of it keeps the invariant.                                         *)
(***************************************************************************)
EXTENDS DispatcherProofs

\* The inductive invariant.
IInv ==
  /\ TypeOK
  /\ RmQueueSorted
  /\ PrioritiesFollow
  /\ ReadyAttached
  /\ ReadyqSorted
  /\ BudgetTimerSound

\* The loop of zs_enforcement starts at the head of the ready queue.
ScanFromHead == lock.by = "zs" => lock.at >= 1

\* What IInv says of a dispatcher.
DispatcherOK(d) ==
  /\ d \in Dispatchers
  /\ OrderedBy(d.readyq, Higher(priority))
  /\ \A r \in ToSet(d.readyq) : table[r].pid = Attached
  /\ TimerSound(d)

\* A step changes neither what a reserve is nor who uses it.
TableKept ==
  \A r \in Rids : table'[r].pid = table[r].pid /\ table'[r].spec = table[r].spec

-----------------------------------------------------------------------------
(***************************************************************************)
(* Dispatchers.                                                            *)
(***************************************************************************)

\* The two ways to say that the ready queue is sorted agree.
LEMMA SortedMeans ==
  ASSUME NEW q \in Seq(Rids), NEW prio
  PROVE  OrderedBy(q, Higher(prio)) <=>
           \A i, j \in DOMAIN q : i < j => prio[q[i]] > prio[q[j]]
PROOF
<1>1. \A i \in DOMAIN q : q[i] \in Rids
  OBVIOUS
<1>2. QED
  BY <1>1, HigherMeans DEF OrderedBy

\* A sorted ready queue holds no reserve twice.
LEMMA SortedDistinct ==
  ASSUME NEW q \in Seq(Rids), NEW prio \in [Rids -> Int],
         OrderedBy(q, Higher(prio))
  PROVE  Distinct(q)
PROOF
<1>1. \A i \in DOMAIN q : q[i] \in Rids /\ prio[q[i]] \in Int
  OBVIOUS
<1>2. \A i, j \in DOMAIN q : i < j => prio[q[i]] > prio[q[j]]
  BY SortedMeans
<1>3. QED
  BY <1>1, <1>2 DEF Distinct

\* The invariant, as a fact about the dispatcher alone.
LEMMA DispatcherInvariant ==
  ASSUME IInv
  PROVE  DispatcherOK(dispatcher)
PROOF
<1>1. dispatcher \in Dispatchers /\ dispatcher.readyq \in Seq(Rids)
  BY DEF IInv, TypeOK, Dispatchers
<1>2. OrderedBy(dispatcher.readyq, Higher(priority))
  BY <1>1, SortedMeans DEF IInv, ReadyqSorted
<1>3. QED
  BY <1>1, <1>2 DEF IInv, DispatcherOK, ReadyAttached, Ready,
                    BudgetTimerSound, TimerSound, Current

\* Attached reserves have different priorities.
LEMMA PrioritiesDiffer ==
  ASSUME IInv, NEW x \in Rids, NEW y \in Rids, x # y,
         table[x].pid = Attached, table[y].pid = Attached
  PROVE  priority[x] # priority[y]
PROOF
<1>1. rm_queue \in Seq(Rids) /\ priority \in [Rids -> Int]
  BY DEF IInv, TypeOK
<1>2. x \in ToSet(rm_queue) /\ y \in ToSet(rm_queue)
  BY DEF IInv, RmQueueSorted, Active, Attached, Free
<1>3. PICK i \in DOMAIN rm_queue : rm_queue[i] = x
  BY <1>2 DEF ToSet
<1>4. PICK j \in DOMAIN rm_queue : rm_queue[j] = y
  BY <1>2 DEF ToSet
<1>5. i < j \/ j < i
  BY <1>1, <1>3, <1>4
<1>6. i < j => priority[x] > priority[y]
  BY <1>3, <1>4 DEF IInv, PrioritiesFollow
<1>7. j < i => priority[y] > priority[x]
  BY <1>3, <1>4 DEF IInv, PrioritiesFollow
<1>8. QED
  BY <1>1, <1>5, <1>6, <1>7

\* start_reserve of an attached reserve, wherever a handler calls it.
LEMMA StartOK ==
  ASSUME IInv, NEW d, DispatcherOK(d), NEW r \in Rids, table[r].pid = Attached
  PROVE  DispatcherOK(Start(d, priority, r))
PROOF
<1>1. priority \in [Rids -> Int] /\ d.readyq \in Seq(Rids) /\ TypeOK
  BY DEF IInv, TypeOK, DispatcherOK, Dispatchers
<1>2. \A x \in ToSet(d.readyq) : x \in Rids
  BY <1>1 DEF ToSet
<1>3. \A x \in ToSet(d.readyq) : x # r => priority[x] # priority[r]
  BY <1>2, PrioritiesDiffer DEF DispatcherOK
<1> DEFINE e == Start(d, priority, r)
<1>4. /\ e \in Dispatchers /\ TimerSound(e)
      /\ ToSet(e.readyq) = ToSet(d.readyq) \cup {r}
      /\ OrderedBy(e.readyq, Higher(priority))
  BY <1>1, <1>3, StartType DEF DispatcherOK
<1> HIDE DEF e
<1>5. DispatcherOK(e)
  BY <1>4 DEF DispatcherOK
<1>6. QED
  BY <1>5 DEF e

\* stop_reserve of any reserve, wherever a handler calls it.
LEMMA StopOK ==
  ASSUME IInv, NEW d, DispatcherOK(d), NEW r \in Rids
  PROVE  DispatcherOK(Stop(d, r))
PROOF
<1>1. /\ priority \in [Rids -> Int] /\ d.readyq \in Seq(Rids) /\ TypeOK
      /\ d \in Dispatchers
  BY DEF IInv, TypeOK, DispatcherOK, Dispatchers
<1>2. Distinct(d.readyq)
  BY <1>1, SortedDistinct DEF DispatcherOK
<1>3. /\ Stop(d, r) \in Dispatchers
      /\ Stop(d, r).readyq = Dequeue(d.readyq, r)
      /\ TimerSound(Stop(d, r))
  BY <1>1, <1>2, StopType DEF DispatcherOK
<1>4. /\ ToSet(Dequeue(d.readyq, r)) = ToSet(d.readyq) \ {r}
      /\ OrderedBy(Dequeue(d.readyq, r), Higher(priority))
  BY <1>1, <1>2, DequeueProperties DEF DispatcherOK
<1>5. QED
  BY <1>3, <1>4 DEF DispatcherOK

\* A dispatcher with the same ready queue, whose timers are weaker.
LEMMA WeakerOK ==
  ASSUME NEW d, DispatcherOK(d), NEW e \in Dispatchers,
         e.readyq = d.readyq, e.elapsed = d.elapsed,
         IInv,
         \A r \in Rids : e.current[r] <= d.current[r],
         \A r \in Rids : e.enforcement[r] \in {Off, d.enforcement[r]}
  PROVE  DispatcherOK(e)
PROOF
<1>1. ASSUME NEW r \in Rids, e.enforcement[r] # Off
      PROVE  e.current[r] + e.elapsed + e.enforcement[r]
               <= table[r].spec.exectime
  <2>1. d.current[r] + d.elapsed + d.enforcement[r] <= table[r].spec.exectime
    BY <1>1 DEF DispatcherOK, TimerSound
  <2>2. /\ d.current[r] \in Int /\ e.current[r] \in Int
        /\ d.elapsed \in Int /\ d.enforcement[r] \in Int
        /\ table[r].spec.exectime \in Int
    BY SpecType, ConstantsAssumption DEF DispatcherOK, Dispatchers, Off, IInv
  <2>3. QED
    BY <1>1, <2>1, <2>2
<1>2. TimerSound(e)
  BY <1>1 DEF DispatcherOK, TimerSound
<1>3. QED
  BY <1>2 DEF DispatcherOK

\* A step beside the execution of the head keeps a dispatcher sound.
LEMMA SameExecutionOK ==
  ASSUME NEW d, DispatcherOK(d), NEW e \in Dispatchers, SameExecution(d, e)
  PROVE  DispatcherOK(e)
PROOF
BY DEF DispatcherOK, SameExecution, TimerSound

-----------------------------------------------------------------------------
(***************************************************************************)
(* Kinds of steps.                                                         *)
(***************************************************************************)

\* A step that changes neither the queue of reserves nor their priorities.
LEMMA QuietStep ==
  ASSUME IInv, TypeOK', TableKept, UNCHANGED <<priority, rm_queue>>,
         DispatcherOK(dispatcher')
  PROVE  IInv'
PROOF
<1>1. rm_queue \in Seq(Rids) /\ \A i \in DOMAIN rm_queue : rm_queue[i] \in Rids
  BY DEF IInv, TypeOK
<1>2. /\ dispatcher'.readyq \in Seq(Rids)
      /\ \A i \in DOMAIN dispatcher'.readyq : dispatcher'.readyq[i] \in Rids
  BY DEF TypeOK, Dispatchers
<1>3. RmQueueSorted'
  BY <1>1 DEF IInv, RmQueueSorted, TableKept, Active
<1>4. PrioritiesFollow'
  BY <1>1 DEF IInv, PrioritiesFollow, TableKept
<1>5. ReadyAttached'
  BY <1>2 DEF DispatcherOK, ReadyAttached, Ready, TableKept, ToSet
<1>6. ReadyqSorted'
  BY <1>2, SortedMeans DEF DispatcherOK, ReadyqSorted
<1>7. BudgetTimerSound'
  BY DEF DispatcherOK, TimerSound, BudgetTimerSound, TableKept, Current
<1>8. QED
  BY <1>3, <1>4, <1>5, <1>6, <1>7 DEF IInv

\* A step that deletes r.
LEMMA DeleteStep ==
  ASSUME IInv, TypeOK', NEW d, DispatcherOK(d), NEW r \in Rids,
         NEW t \in [Rids -> Reserves],
         \A x \in Rids : t[x].pid = table[x].pid /\ t[x].spec = table[x].spec,
         DeleteReserve(d, t, r), priority' = priority
  PROVE  IInv'
PROOF
<1>1. /\ priority \in [Rids -> Int] /\ d.readyq \in Seq(Rids) /\ TypeOK
      /\ d \in Dispatchers /\ rm_queue \in Seq(Rids)
  BY DEF IInv, TypeOK, DispatcherOK, Dispatchers
<1>2. /\ \A x \in Rids : table'[x].spec = table[x].spec
      /\ \A x \in Rids : table'[x].pid = IF x = r THEN Free ELSE table[x].pid
  BY DEF DeleteReserve, Reserves
<1>3. Distinct(d.readyq)
  BY <1>1, SortedDistinct DEF DispatcherOK
<1>4. /\ ToSet(Dequeue(d.readyq, r)) = ToSet(d.readyq) \ {r}
      /\ OrderedBy(Dequeue(d.readyq, r), Higher(priority))
      /\ Dequeue(d.readyq, r) \in Seq(Rids)
  BY <1>1, <1>3, DequeueProperties DEF DispatcherOK
<1>5. /\ dispatcher'.readyq = Dequeue(d.readyq, r)
      /\ TimerSound(dispatcher')
  <2>1. PICK e \in Removals(d, r) :
          dispatcher' = [CancelTimers(e, r) EXCEPT !.signals[r] = <<>>]
    BY DEF DeleteReserve
  <2>2. /\ e \in Dispatchers /\ e.readyq = Dequeue(d.readyq, r)
        /\ TimerSound(CancelTimers(e, r))
    BY <1>1, <1>3, RemovalsType DEF DispatcherOK
  <2>3. /\ CancelTimers(e, r) \in Dispatchers
        /\ CancelTimers(e, r).readyq = e.readyq
    BY <2>2, CancelTimersType
  <2>4. SameExecution(CancelTimers(e, r), dispatcher')
    BY <2>1, <2>3 DEF Dispatchers, SameExecution
  <2>5. QED
    BY <2>2, <2>3, <2>4 DEF SameExecution, TimerSound
<1>6. Distinct(rm_queue)
  BY DEF IInv, RmQueueSorted, Distinct
<1>7. /\ rm_queue' \in Seq(Rids) /\ ToSet(rm_queue') = ToSet(rm_queue) \ {r}
      /\ \A R : OrderedBy(rm_queue, R) => OrderedBy(rm_queue', R)
  BY <1>1, <1>6, DequeueProperties DEF DeleteReserve
<1>8. \A i \in DOMAIN rm_queue' : rm_queue'[i] \in Rids /\ rm_queue'[i] # r
  <2>1. \A i \in DOMAIN rm_queue' : rm_queue'[i] \in ToSet(rm_queue')
    BY DEF ToSet
  <2>2. QED
    BY <1>7, <2>1
<1>9. RmQueueSorted'
  <2> DEFINE R == {p \in Rids \X Rids :
                     /\ p[1] # p[2]
                     /\ table[p[1]].spec.period <= table[p[2]].spec.period}
  <2>1. \A x, y \in Rids :
          <<x, y>> \in R <=>
            x # y /\ table[x].spec.period <= table[y].spec.period
    OBVIOUS
  <2> HIDE DEF R
  <2>2. \A i \in DOMAIN rm_queue : rm_queue[i] \in Rids
    BY <1>1
  <2>3. OrderedBy(rm_queue, R)
    BY <2>1, <2>2 DEF IInv, RmQueueSorted, OrderedBy
  <2>4. OrderedBy(rm_queue', R)
    BY <1>7, <2>3
  <2>5. \A i, j \in DOMAIN rm_queue' : i < j =>
          /\ rm_queue'[i] # rm_queue'[j]
          /\ table'[rm_queue'[i]].spec.period <= table'[rm_queue'[j]].spec.period
    BY <1>2, <1>8, <2>1, <2>4 DEF OrderedBy
  <2>6. ToSet(rm_queue') = {x \in Rids : Active(x)'}
    BY <1>2, <1>7 DEF IInv, RmQueueSorted, Active
  <2>7. QED
    BY <2>5, <2>6 DEF RmQueueSorted
<1>10. PrioritiesFollow'
  <2> DEFINE R == {p \in Rids \X Rids :
                     /\ table[p[1]].pid = Attached
                     /\ table[p[2]].pid = Attached
                     => priority[p[1]] > priority[p[2]]}
  <2>1. \A x, y \in Rids :
          <<x, y>> \in R <=>
            (table[x].pid = Attached /\ table[y].pid = Attached
               => priority[x] > priority[y])
    OBVIOUS
  <2> HIDE DEF R
  <2>2. \A i \in DOMAIN rm_queue : rm_queue[i] \in Rids
    BY <1>1
  <2>3. OrderedBy(rm_queue, R)
    BY <2>1, <2>2 DEF IInv, PrioritiesFollow, OrderedBy
  <2>4. OrderedBy(rm_queue', R)
    BY <1>7, <2>3
  <2>5. QED
    BY <1>2, <1>8, <2>1, <2>4 DEF OrderedBy, PrioritiesFollow
<1>11. ReadyAttached'
  <2>1. \A x \in ToSet(d.readyq) : x \in Rids
    BY <1>1 DEF ToSet
  <2>2. QED
    BY <1>2, <1>4, <1>5, <2>1 DEF DispatcherOK, ReadyAttached, Ready
<1>12. ReadyqSorted'
  BY <1>4, <1>5, SortedMeans DEF ReadyqSorted
<1>13. BudgetTimerSound'
  BY <1>2, <1>5 DEF TimerSound, BudgetTimerSound, Current
<1>14. QED
  BY <1>9, <1>10, <1>11, <1>12, <1>13 DEF IInv

-----------------------------------------------------------------------------
(***************************************************************************)
(* Types.                                                                  *)
(***************************************************************************)

\* A remainder is in the range of its modulus.
LEMMA ModRange ==
  ASSUME NEW a \in Int, NEW n \in Nat \ {0}
  PROVE  a % n \in 0 .. n - 1
PROOF
OBVIOUS

\* The unsigned counter of period wakeups stays in its range.
LEMMA CounterType ==
  ASSUME NEW w \in 0 .. UintMod - 1
  PROVE  Inc(w) \in 0 .. UintMod - 1 /\ Dec(w) \in 0 .. UintMod - 1
PROOF
<1>1. UintMod \in Nat \ {0} /\ w + 1 \in Int /\ w + UintMod - 1 \in Int
  BY ConstantsAssumption
<1>2. QED
  BY <1>1, ModRange DEF Inc, Dec

\* add_crit_readyq keeps a linked list of reserves.
LEMMA AddByCriticalityType ==
  ASSUME NEW l \in Lists, NEW crit, NEW r \in Rids
  PROVE  AddByCriticality(l, crit, r) \in Lists
PROOF
<1> DEFINE next == [l.next EXCEPT ![r] = Nil]
           hop == [t \in Rids |->
                     IF t # r /\ next[t] # Nil /\ crit[next[t]] > crit[r]
                     THEN next[t] ELSE Nil]
           ends == {t \in ReachedFrom(hop, l.head) : hop[t] = Nil}
           place == CHOOSE t \in ends : TRUE
           linked == [next EXCEPT ![r] = next[place], ![place] = r]
<1>1. next \in [Rids -> Rids \cup {Nil}] /\ l.head \in Rids \cup {Nil}
  BY DEF Lists
<1>2. ends # {} => place \in Rids
  <2> HIDE DEF hop
  <2>1. ends \subseteq Rids
    BY DEF ReachedFrom
  <2>2. QED
    BY <2>1
<1>3. [head |-> r, next |-> next] \in Lists
  BY <1>1 DEF Lists
<1>4. l.head # Nil => [head |-> r, next |-> [next EXCEPT ![r] = l.head]] \in Lists
  BY <1>1 DEF Lists
<1>5. [l EXCEPT !.next = next] \in Lists
  BY <1>1 DEF Lists
<1>6. ends # {} => [l EXCEPT !.next = linked] \in Lists
  <2> HIDE DEF place, ends, next
  <2>1. ends # {} => linked \in [Rids -> Rids \cup {Nil}]
    BY <1>1, <1>2
  <2> HIDE DEF linked
  <2>2. QED
    BY <2>1 DEF Lists
<1>7. AddByCriticality(l, crit, r) =
        IF l.head = Nil THEN [head |-> r, next |-> next]
        ELSE IF crit[l.head] < crit[r]
        THEN [head |-> r, next |-> [next EXCEPT ![r] = l.head]]
        ELSE IF ends = {} \/ r \in ends THEN [l EXCEPT !.next = next]
        ELSE [l EXCEPT !.next = linked]
  BY DEF AddByCriticality
<1> HIDE DEF next, hop, ends, place, linked
<1>8. QED
  BY <1>3, <1>4, <1>5, <1>6, <1>7

\* Taking the head off a linked list leaves a linked list.
LEMMA BeheadType ==
  ASSUME NEW l \in Lists, l.head # Nil
  PROVE  Behead(l) \in Lists
PROOF
BY DEF Behead, Lists

\* A new reserve is well typed and has the parameters asked for.
LEMMA NewReserveType ==
  ASSUME TypeOK, NEW r \in Rids, NEW spec \in Specs,
         NEW pid \in {Free, Created, Attached}
  PROVE  /\ NewReserve(r, spec, pid) \in Reserves
         /\ NewReserve(r, spec, pid).pid = pid
         /\ NewReserve(r, spec, pid).spec = spec
PROOF
<1> DEFINE c == table[r]
           zero == 0
           no == FALSE
           a == [c EXCEPT !.pid = pid, !.spec = spec, !.start_period = zero,
                          !.non_periodic_wait = no]
           n == [a EXCEPT !.end_of_period_marked = no,
                          !.num_period_wakeups = zero,
                          !.num_wait_release = no,
                          !.enforcement_signal_captured = no]
<1>1. /\ c \in Reserves /\ zero \in 0 .. UintMod - 1 /\ zero \in Int
      /\ no \in BOOLEAN
  BY SpecType, ConstantsAssumption
<1>2. NewReserve(r, spec, pid) = n
  BY DEF NewReserve
<1> HIDE DEF c, zero, no
<1>3. a \in Reserves /\ a.pid = pid /\ a.spec = spec
  BY <1>1 DEF Reserves
<1> HIDE DEF a
<1>4. n \in Reserves /\ n.pid = pid /\ n.spec = spec
  BY <1>1, <1>3 DEF Reserves
<1>5. QED
  BY <1>2, <1>4

\* A departure keeps the identity of a reserve.
LEMMA DepartedType ==
  ASSUME TypeOK, NEW r \in Rids, NEW call \in Departing
  PROVE  /\ Departed(r, call) \in Reserves
         /\ Departed(r, call).pid = table[r].pid
         /\ Departed(r, call).spec = table[r].spec
PROOF
<1> DEFINE ends == call = "end"
           marked == table[r].end_of_period_marked \/ call = "end"
           start == table[r].start_period - 1
           c == table[r]
           t == [c EXCEPT
                   !.start_period = start, !.in_critical_mode = FALSE,
                   !.non_periodic_wait = ends,
                   !.end_of_period_marked = marked]
<1>1. c \in Reserves
  BY SpecType
<1>2. ends \in BOOLEAN /\ marked \in BOOLEAN /\ start \in Int
  BY <1>1 DEF Reserves
<1>3. Departed(r, call) = t
  BY Zenon DEF Departed
<1> HIDE DEF ends, marked, start
<1>4. t \in Reserves /\ t.pid = c.pid /\ t.spec = c.spec
  <2> HIDE DEF c
  <2>1. QED
    BY <1>1, <1>2 DEF Reserves
<1>5. QED
  BY <1>3, <1>4

\* A period arrival keeps the identity of a reserve.
LEMMA ArrivedType ==
  ASSUME TypeOK, NEW r \in Rids
  PROVE  /\ Arrived(r) \in Reserves
         /\ Arrived(r).pid = table[r].pid
         /\ Arrived(r).spec = table[r].spec
PROOF
<1> DEFINE w == Inc(table[r].num_period_wakeups)
           wakeups == IF w > 1 THEN 1 ELSE w
           start == IF Overrun(r) THEN table[r].start_period
                    ELSE table[r].start_period + 1
           waits == table[r].num_wait_release /\ ~table[r].non_periodic_wait
           t == [table[r] EXCEPT !.start_period = start,
                                 !.in_critical_mode = FALSE]
           s == [t EXCEPT !.enforced = FALSE, !.num_period_wakeups = wakeups,
                          !.num_wait_release = waits]
<1>1. table[r] \in Reserves
  BY SpecType
<1>2. w \in 0 .. UintMod - 1
  BY <1>1, CounterType DEF Reserves
<1> HIDE DEF w
<1>3. wakeups \in 0 .. UintMod - 1
  BY <1>2, ConstantsAssumption
<1>4. start \in Int /\ waits \in BOOLEAN
  BY <1>1 DEF Reserves
<1> HIDE DEF wakeups, start, waits
<1>5. t \in Reserves /\ t.pid = table[r].pid /\ t.spec = table[r].spec
      /\ t.num_wait_release = table[r].num_wait_release
  BY <1>1, <1>4 DEF Reserves
<1>6. s \in Reserves /\ s.pid = table[r].pid /\ s.spec = table[r].spec
  <2> HIDE DEF t
  <2>1. QED
    BY <1>3, <1>4, <1>5 DEF Reserves
<1>7. Arrived(r) = IF Suspended(r) THEN t ELSE s
  BY <1>1 DEF Arrived, w, wakeups, start, waits, Reserves
<1> HIDE DEF t, s
<1>8. QED
  BY <1>5, <1>6, <1>7

\* The criticality of a reserve is a number.
LEMMA CriticalityType ==
  ASSUME TypeOK, NEW r \in Rids
  PROVE  Criticality(r) \in Nat
PROOF
BY SpecType DEF Criticality, Spec_t

\* An update of the state of one task is well typed.
LEMMA TaskUpdateType ==
  ASSUME TypeOK, NEW r \in Rids, NEW s \in TaskStates
  PROVE  [task EXCEPT ![r] = s] \in [Rids -> TaskStates]
PROOF
BY DEF TypeOK

\* An update of one reserve is well typed.
LEMMA TableUpdateType ==
  ASSUME TypeOK, NEW r \in Rids, NEW e \in Reserves
  PROVE  [table EXCEPT ![r] = e] \in [Rids -> Reserves]
PROOF
BY DEF TypeOK

\* timer_handler for a task that is gone only asks for a deletion.
LEMMA ForceDeleteOK ==
  ASSUME IInv, NEW d, DispatcherOK(d), NEW r \in Rids, ForceDelete(d, r)
  PROVE  /\ DispatcherOK(dispatcher')
         /\ UNCHANGED <<table, task>>
PROOF
<1> DEFINE e == [d EXCEPT !.request_stop = @ \ {r}]
<1>1. e \in Dispatchers /\ SameExecution(d, e)
  BY DEF DispatcherOK, Dispatchers, SameExecution
<1>2. dispatcher' = WakeScheduler(PushToReschedule(e, r))
  BY DEF ForceDelete
<1> HIDE DEF e
<1>3. dispatcher' \in Dispatchers /\ SameExecution(d, dispatcher')
  BY <1>1, <1>2, PushToRescheduleType, WakeSchedulerType DEF SameExecution
<1>4. QED
  BY <1>3, SameExecutionOK DEF ForceDelete

\* budget_enforcement, wherever a handler calls it.
LEMMA BudgetEnforcementOK ==
  ASSUME IInv, NEW d, DispatcherOK(d), NEW r \in Rids, NEW stop \in BOOLEAN
  PROVE  DispatcherOK(BudgetEnforcement(d, r, stop))
PROOF
BY BudgetEnforcementType, SameExecutionOK DEF DispatcherOK, IInv

\* Cancelling the enforcement timer of r.
LEMMA EnforcementOffOK ==
  ASSUME IInv, NEW d, DispatcherOK(d), NEW r \in Rids
  PROVE  DispatcherOK([d EXCEPT !.enforcement[r] = Off])
PROOF
<1> DEFINE e == [d EXCEPT !.enforcement[r] = Off]
<1>1. Off \in Off .. MaxTicks
  BY ConstantsAssumption DEF Off
<1>2. /\ e \in Dispatchers /\ e.readyq = d.readyq /\ e.elapsed = d.elapsed
      /\ e.current = d.current
      /\ \A x \in Rids : e.enforcement[x] \in {Off, d.enforcement[x]}
  BY <1>1 DEF DispatcherOK, Dispatchers
<1>3. \A x \in Rids : e.current[x] <= d.current[x]
  BY <1>2, ConstantsAssumption DEF DispatcherOK, Dispatchers
<1> HIDE DEF e
<1>4. DispatcherOK(e)
  BY <1>2, <1>3, WeakerOK
<1>5. QED
  BY <1>4 DEF e

\* A new budget for r.
LEMMA CurrentZeroOK ==
  ASSUME IInv, NEW d, DispatcherOK(d), NEW r \in Rids
  PROVE  DispatcherOK([d EXCEPT !.current[r] = 0])
PROOF
<1> DEFINE e == [d EXCEPT !.current[r] = 0]
<1>1. 0 \in 0 .. MaxTicks
  BY ConstantsAssumption
<1>2. /\ e \in Dispatchers /\ e.readyq = d.readyq /\ e.elapsed = d.elapsed
      /\ e.enforcement = d.enforcement
      /\ \A x \in Rids : e.current[x] \in {0, d.current[x]}
  BY <1>1 DEF DispatcherOK, Dispatchers
<1>3. \A x \in Rids : d.current[x] \in 0 .. MaxTicks
  BY DEF DispatcherOK, Dispatchers
<1> HIDE DEF e
<1>4. \A x \in Rids : e.current[x] <= d.current[x]
  BY <1>2, <1>3, ConstantsAssumption
<1>5. DispatcherOK(e)
  BY <1>2, <1>4, WeakerOK
<1>6. QED
  BY <1>5 DEF e

\* The zero-slack timer and the signals of r are not part of DispatcherOK.
LEMMA ZeroSlackOK ==
  ASSUME NEW d, DispatcherOK(d), NEW r \in Rids
  PROVE  /\ DispatcherOK([d EXCEPT !.zero_slack = @ \ {r}])
         /\ DispatcherOK(ArmZeroSlack(d, r))
PROOF
<1> DEFINE e == [d EXCEPT !.zero_slack = @ \ {r}]
<1>1. d \in Dispatchers
  BY DEF DispatcherOK
<1>2. e \in Dispatchers /\ SameExecution(d, e)
  BY <1>1 DEF Dispatchers, SameExecution
<1>3. ArmZeroSlack(d, r) \in Dispatchers /\ SameExecution(d, ArmZeroSlack(d, r))
  BY <1>1, ArmZeroSlackType
<1> HIDE DEF e
<1>4. DispatcherOK(e) /\ DispatcherOK(ArmZeroSlack(d, r))
  BY <1>2, <1>3, SameExecutionOK
<1>5. QED
  BY <1>4 DEF e

\* Sending and taking signals does not touch the execution of the head.
LEMMA SignalsOK ==
  ASSUME NEW d, DispatcherOK(d), NEW r \in Rids,
         NEW s \in Seq([stop : BOOLEAN, periodic : BOOLEAN])
  PROVE  DispatcherOK([d EXCEPT !.signals[r] = s])
PROOF
<1> DEFINE e == [d EXCEPT !.signals[r] = s]
<1>1. d \in Dispatchers
  BY DEF DispatcherOK
<1>2. e \in Dispatchers /\ SameExecution(d, e)
  BY <1>1 DEF Dispatchers, SameExecution
<1> HIDE DEF e
<1>3. DispatcherOK(e)
  BY <1>2, SameExecutionOK
<1>4. QED
  BY <1>3 DEF e

\* delete_reserve keeps every variable well typed.
LEMMA DeleteReserveType ==
  ASSUME IInv, NEW d, DispatcherOK(d), NEW r \in Rids,
         NEW t \in [Rids -> Reserves], DeleteReserve(d, t, r)
  PROVE  /\ table' \in [Rids -> Reserves]
         /\ task' \in [Rids -> TaskStates]
         /\ rm_queue' \in Seq(Rids)
         /\ dispatcher' \in Dispatchers
         /\ period_timer' \in SUBSET Rids
PROOF
<1>1. /\ priority \in [Rids -> Int] /\ d.readyq \in Seq(Rids) /\ TypeOK
      /\ d \in Dispatchers /\ rm_queue \in Seq(Rids)
  BY DEF IInv, TypeOK, DispatcherOK, Dispatchers
<1>2. table' \in [Rids -> Reserves]
  <2>1. [t[r] EXCEPT !.pid = Free] \in Reserves
    BY DEF Reserves
  <2>2. table' = [t EXCEPT ![r] = [t[r] EXCEPT !.pid = Free]]
    BY DEF DeleteReserve
  <2>3. QED
    BY <2>1, <2>2
<1>3. task' \in [Rids -> TaskStates]
  BY <1>1 DEF DeleteReserve, TypeOK, TaskStates
<1>4. rm_queue' \in Seq(Rids)
  <2>1. Distinct(rm_queue)
    BY DEF IInv, RmQueueSorted, Distinct
  <2>2. QED
    BY <1>1, <2>1, DequeueProperties DEF DeleteReserve
<1>5. dispatcher' \in Dispatchers
  <2>1. PICK e \in Removals(d, r) :
          dispatcher' = [CancelTimers(e, r) EXCEPT !.signals[r] = <<>>]
    BY DEF DeleteReserve
  <2>2. Distinct(d.readyq)
    BY <1>1, SortedDistinct DEF DispatcherOK
  <2>3. CancelTimers(e, r) \in Dispatchers
    BY <1>1, <2>2, RemovalsType, CancelTimersType
  <2> DEFINE none == <<>>
  <2>4. none \in Seq([stop : BOOLEAN, periodic : BOOLEAN])
    OBVIOUS
  <2>5. dispatcher' = [CancelTimers(e, r) EXCEPT !.signals[r] = none]
    BY <2>1
  <2> HIDE DEF none
  <2>6. QED
    BY <2>3, <2>4, <2>5 DEF Dispatchers
<1>6. period_timer' \in SUBSET Rids
  BY <1>1 DEF DeleteReserve, TypeOK
<1>7. QED
  BY <1>2, <1>3, <1>4, <1>5, <1>6

-----------------------------------------------------------------------------
(***************************************************************************)
(* Each action keeps the invariant.                                        *)
(***************************************************************************)

\* The invariant holds when the module is loaded.
LEMMA InitOK ==
  ASSUME Init
  PROVE  IInv
PROOF
<1>1. 0 \in 0 .. MaxTicks /\ Off \in Off .. MaxTicks /\ 0 \in 0 .. UintMod - 1
      /\ 0 \in Rids /\ <<>> \in Seq(Rids)
      /\ <<>> \in Seq([stop : BOOLEAN, periodic : BOOLEAN])
  BY ConstantsAssumption, MaxReservesAssumption DEF Off, Rids
<1>2. table \in [Rids -> Reserves]
  BY <1>1 DEF Init, Reserves
<1>3. dispatcher \in Dispatchers
  BY <1>1 DEF Init, Dispatchers
<1>4. EmptyList \in Lists
  BY DEF EmptyList, Lists
<1>5. Unlocked \in Locks
  BY <1>1 DEF Unlocked, Locks
<1>6. TypeOK
  <2>1. task \in [Rids -> TaskStates] /\ priority \in [Rids -> Int]
    BY DEF Init, TaskStates
  <2>2. rm_queue \in Seq(Rids) /\ period_timer \in SUBSET Rids
        /\ sys_criticality \in Nat
    BY DEF Init
  <2>3. critical_reservesq \in Lists /\ crit_blockq \in Lists /\ lock \in Locks
    BY <1>4, <1>5 DEF Init
  <2>4. QED
    BY <1>2, <1>3, <2>1, <2>2, <2>3 DEF TypeOK
<1>7. RmQueueSorted /\ PrioritiesFollow
  BY DEF Init, RmQueueSorted, PrioritiesFollow, Active, ToSet
<1>8. ReadyAttached /\ ReadyqSorted
  BY DEF Init, ReadyAttached, ReadyqSorted, Ready, ToSet
<1>9. BudgetTimerSound
  BY DEF Init, BudgetTimerSound
<1>10. QED
  BY <1>6, <1>7, <1>8, <1>9 DEF IInv

\* A departure up to its loop over the blocked reserves.
LEMMA DepartOK ==
  ASSUME IInv, NEW d, DispatcherOK(d), NEW r \in Rids, NEW call \in Departing,
         Depart(d, r, call)
  PROVE  IInv'
PROOF
<1> DEFINE e == [d EXCEPT !.zero_slack = @ \ {r}]
           critical == table[r].in_critical_mode
           stack == IF critical /\ critical_reservesq.head = r
                    THEN Behead(critical_reservesq) ELSE critical_reservesq
<1>1. TypeOK
  BY DEF IInv
<1>2. DispatcherOK(dispatcher')
  BY ZeroSlackOK, StopOK DEF Depart
<1>3. table' \in [Rids -> Reserves] /\ TableKept
  <2>1. table' = [table EXCEPT ![r] = Departed(r, call)]
    BY DEF Depart
  <2>2. QED
    BY <1>1, <2>1, DepartedType, TableUpdateType DEF TypeOK, TableKept
<1>4. task' \in [Rids -> TaskStates]
  BY <1>1, TaskUpdateType DEF Depart, TaskStates
<1>5. stack \in Lists
  <2>1. r # Nil
    BY MaxReservesAssumption DEF Rids, Nil
  <2>2. QED
    BY <1>1, <2>1, BeheadType DEF TypeOK
<1>6. critical_reservesq' = stack
  BY DEF Depart
<1>7. sys_criticality' \in Nat
  <2>1. sys_criticality' \in {TopCriticality(stack), sys_criticality}
    BY DEF Depart
  <2>2. stack.head \in Rids \cup {Nil}
    BY <1>5 DEF Lists
  <2> HIDE DEF stack
  <2>3. TopCriticality(stack) \in Nat
    BY <1>1, <2>2, CriticalityType DEF TopCriticality
  <2>4. QED
    BY <1>1, <2>1, <2>3 DEF TypeOK
<1>8. lock' \in Locks
  BY DEF Depart, Locks, Departing
<1>9. TypeOK'
  BY <1>1, <1>2, <1>3, <1>4, <1>5, <1>6, <1>7, <1>8
     DEF TypeOK, Depart, DispatcherOK
<1>10. QED
  BY <1>2, <1>3, <1>9, QuietStep DEF Depart

\* wait_for_next_release, with and without a wakeup to take.
LEMMA WaitForNextReleaseOK ==
  ASSUME IInv, NEW d, DispatcherOK(d), NEW r \in Rids,
         table[r].pid = Attached, NEW call \in {"wait", "handler"},
         WaitForNextRelease(d, r, call)
  PROVE  IInv'
PROOF
<1>1. CASE Depart(d, r, call)
  BY <1>1, DepartOK DEF Departing
<1>2. CASE ~ Depart(d, r, call)
  <2> DEFINE blocks == table[r].num_period_wakeups = 0
             waits == table[r].num_wait_release \/ blocks
             left == Dec(table[r].num_period_wakeups)
             c == table[r]
             e == [c EXCEPT !.num_wait_release = waits,
                            !.end_of_period_marked = FALSE,
                            !.num_period_wakeups = left]
  <2>1. /\ TypeOK /\ c \in Reserves
    BY SpecType DEF IInv
  <2>2. left \in 0 .. UintMod - 1
    BY <2>1, CounterType DEF Reserves
  <2>3. waits \in BOOLEAN
    BY <2>1 DEF Reserves
  <2>4. DispatcherOK(dispatcher')
    BY <1>2, StartOK DEF WaitForNextRelease
  <2>5. table' = [table EXCEPT ![r] = e]
    BY <1>2, Zenon DEF WaitForNextRelease
  <2>6. task' \in [Rids -> TaskStates]
    BY <1>2, <2>1, TaskUpdateType DEF WaitForNextRelease, Asleep, TaskStates
  <2> HIDE DEF waits, left
  <2>7. e \in Reserves /\ e.pid = c.pid /\ e.spec = c.spec
    <3> HIDE DEF c
    <3>1. QED
      BY <2>1, <2>2, <2>3 DEF Reserves
  <2> HIDE DEF e
  <2>8. table' \in [Rids -> Reserves] /\ TableKept
    BY <2>1, <2>5, <2>7, TableUpdateType DEF TypeOK, TableKept
  <2>9. UNCHANGED <<priority, rm_queue, period_timer, critVars, lock>>
    BY <1>2 DEF WaitForNextRelease
  <2>10. TypeOK'
    BY <2>1, <2>4, <2>6, <2>8, <2>9 DEF TypeOK, critVars, DispatcherOK
  <2>11. QED
    BY <2>4, <2>8, <2>9, <2>10, QuietStep
<1>3. QED
  BY <1>1, <1>2

\* start_of_period for a task that is not gone.
LEMMA StartOfPeriodOK ==
  ASSUME IInv, NEW r \in Rids, Alive(r), StartOfPeriod(r)
  PROVE  /\ DispatcherOK(dispatcher')
         /\ table' \in [Rids -> Reserves] /\ TableKept
         /\ task' \in [Rids -> TaskStates]
PROOF
<1> DEFINE late == [dispatcher EXCEPT !.enforcement[r] = Off]
           stopped == IF Overrun(r)
                      THEN Stop(BudgetEnforcement(late, r, FALSE), r)
                      ELSE dispatcher
           fresh == [stopped EXCEPT !.current[r] = 0]
           d == ArmZeroSlack(fresh, r)
           starts == ~Suspended(r) /\ Wakes(r)
<1>1. TypeOK /\ DispatcherOK(dispatcher)
  BY DispatcherInvariant DEF IInv
<1>2. DispatcherOK(late)
  BY <1>1, EnforcementOffOK
<1> HIDE DEF late
<1>3. DispatcherOK(BudgetEnforcement(late, r, FALSE))
  BY <1>2, BudgetEnforcementOK
<1>4. DispatcherOK(Stop(BudgetEnforcement(late, r, FALSE), r))
  BY <1>3, StopOK
<1>5. DispatcherOK(stopped)
  BY <1>1, <1>4
<1> HIDE DEF stopped
<1>6. DispatcherOK(fresh)
  BY <1>5, CurrentZeroOK
<1> HIDE DEF fresh
<1>7. DispatcherOK(d)
  BY <1>6, ZeroSlackOK
<1> HIDE DEF d
<1>8. DispatcherOK(Start(d, priority, r))
  BY <1>7, StartOK DEF Alive
<1>9. /\ dispatcher' = IF starts THEN Start(d, priority, r) ELSE d
      /\ task' = IF starts THEN [task EXCEPT ![r] = "running"] ELSE task
      /\ table' = [table EXCEPT ![r] = Arrived(r)]
  BY DEF StartOfPeriod, d, fresh, stopped, late
<1> HIDE DEF starts
<1>10. DispatcherOK(dispatcher')
  BY <1>7, <1>8, <1>9
<1>11. table' \in [Rids -> Reserves] /\ TableKept
  BY <1>1, <1>9, ArrivedType, TableUpdateType DEF TypeOK, TableKept
<1>12. task' \in [Rids -> TaskStates]
  BY <1>1, <1>9, TaskUpdateType DEF TypeOK, TaskStates
<1>13. QED
  BY <1>10, <1>11, <1>12

\* CREATE_RSV inserts a reserve into the rate-monotonic queue.
LEMMA CreateReserveOK ==
  ASSUME IInv, NEW spec \in Specs, NEW admitted \in BOOLEAN,
         CreateReserve(spec, admitted)
  PROVE  IInv'
PROOF
<1> DEFINE pid == IF admitted THEN Created ELSE Free
           longer == {x \in Rids : table[x].spec.period > spec.period}
<1>1. PICK r \in Rids :
        /\ ~Active(r)
        /\ table' = [table EXCEPT ![r] = NewReserve(r, spec, pid)]
        /\ priority' = [priority EXCEPT ![r] = spec.priority]
        /\ rm_queue' = IF admitted THEN Enqueue(rm_queue, longer, r)
                       ELSE rm_queue
        /\ critical_reservesq' = [critical_reservesq EXCEPT !.next[r] = Nil]
        /\ crit_blockq' = [crit_blockq EXCEPT !.next[r] = Nil]
  BY DEF CreateReserve
<1>2. UNCHANGED <<task, dispatcher, period_timer, sys_criticality, lock>>
  BY DEF CreateReserve
<1>3. /\ TypeOK /\ priority \in [Rids -> Int] /\ rm_queue \in Seq(Rids)
      /\ dispatcher.readyq \in Seq(Rids)
      /\ spec \in Spec_t /\ spec.priority \in Int /\ spec.period \in Int
  <2>1. spec \in Spec_t
    BY ConstantsAssumption
  <2>2. spec.priority \in Int /\ spec.period \in Int
    BY <2>1 DEF Spec_t
  <2>3. QED
    BY <2>1, <2>2 DEF IInv, TypeOK, Dispatchers
<1>4. \A x \in Rids : table[x].spec.period \in Int
  BY <1>3, SpecType DEF Spec_t
<1>5. pid \in {Free, Created, Attached} /\ pid # Attached
  BY DEF Free, Created, Attached
<1>6. /\ table' \in [Rids -> Reserves]
      /\ table'[r].pid = pid /\ table'[r].spec = spec
      /\ \A x \in Rids : x # r => table'[x] = table[x]
  BY <1>1, <1>3, <1>5, NewReserveType, TableUpdateType DEF TypeOK
<1>7. /\ r \notin ToSet(dispatcher.readyq) /\ r \notin ToSet(rm_queue)
      /\ table[r].pid = Free
  BY <1>1 DEF IInv, ReadyAttached, Ready, RmQueueSorted, Active, Attached, Free
<1>8. /\ \A i \in DOMAIN dispatcher.readyq :
           dispatcher.readyq[i] \in Rids /\ dispatcher.readyq[i] # r
      /\ \A i \in DOMAIN rm_queue : rm_queue[i] \in Rids /\ rm_queue[i] # r
  BY <1>3, <1>7 DEF ToSet
<1>9. /\ priority' \in [Rids -> Int]
      /\ \A x \in Rids : x # r => priority'[x] = priority[x]
  BY <1>1, <1>3
<1>10. rm_queue' \in Seq(Rids)
       /\ ToSet(rm_queue') = IF admitted THEN ToSet(rm_queue) \cup {r}
                             ELSE ToSet(rm_queue)
  <2> HIDE DEF longer
  <2>1. /\ Enqueue(rm_queue, longer, r) \in Seq(Rids)
        /\ ToSet(Enqueue(rm_queue, longer, r)) = ToSet(rm_queue) \cup {r}
    BY <1>3, EnqueueMembers
  <2>2. QED
    BY <1>1, <1>3, <2>1
<1>11. TypeOK'
  <2>1. critical_reservesq' \in Lists /\ crit_blockq' \in Lists
    BY <1>1, <1>3 DEF TypeOK, Lists
  <2>2. QED
    BY <1>2, <1>3, <1>6, <1>9, <1>10, <2>1 DEF TypeOK
<1>12. RmQueueSorted'
  <2> DEFINE R == {p \in Rids \X Rids :
                     /\ p[1] # p[2]
                     /\ table'[p[1]].spec.period <= table'[p[2]].spec.period}
  <2>1. \A x, y \in Rids :
          <<x, y>> \in R <=>
            x # y /\ table'[x].spec.period <= table'[y].spec.period
    OBVIOUS
  <2> HIDE DEF R
  <2>2. OrderedBy(rm_queue, R)
    BY <1>6, <1>8, <2>1 DEF IInv, RmQueueSorted, OrderedBy
  <2>3. ASSUME NEW k \in 1 .. Len(rm_queue) + 1, StopsAt(rm_queue, longer, k)
        PROVE  /\ \A i \in 1 .. k - 1 : <<rm_queue[i], r>> \in R
               /\ \A i \in k .. Len(rm_queue) : <<r, rm_queue[i]>> \in R
    <3>1. ASSUME NEW i \in 1 .. k - 1
          PROVE  <<rm_queue[i], r>> \in R
      <4>1. i \in DOMAIN rm_queue /\ rm_queue[i] \notin longer
        BY <1>3, <2>3 DEF StopsAt
      <4>2. table[rm_queue[i]].spec.period <= spec.period
        BY <1>3, <1>4, <1>8, <4>1
      <4>3. QED
        BY <1>6, <1>8, <2>1, <4>1, <4>2
    <3>2. ASSUME NEW i \in k .. Len(rm_queue)
          PROVE  <<r, rm_queue[i]>> \in R
      <4>1. /\ i \in DOMAIN rm_queue /\ k \in DOMAIN rm_queue
            /\ rm_queue[k] \in longer /\ (k = i \/ k < i)
        BY <1>3, <2>3 DEF StopsAt
      <4>2. table[rm_queue[k]].spec.period > spec.period
        BY <4>1
      <4>3. k < i => table[rm_queue[k]].spec.period
                       <= table[rm_queue[i]].spec.period
        BY <4>1 DEF IInv, RmQueueSorted
      <4>4. /\ spec.period \in Int
            /\ table[rm_queue[k]].spec.period \in Int
            /\ table[rm_queue[i]].spec.period \in Int
        BY <1>3, <1>4, <1>8, <4>1
      <4>5. spec.period <= table[rm_queue[i]].spec.period
        BY <4>1, <4>2, <4>3, <4>4
      <4>6. QED
        BY <1>6, <1>8, <2>1, <4>1, <4>5
    <3>3. QED
      BY <3>1, <3>2
  <2>4. OrderedBy(rm_queue', R)
    <3> HIDE DEF longer
    <3>1. OrderedBy(Enqueue(rm_queue, longer, r), R)
      BY <1>3, <2>2, <2>3, EnqueueOrdered
    <3>2. QED
      BY <1>1, <2>2, <3>1
  <2>5. \A i \in DOMAIN rm_queue' : rm_queue'[i] \in Rids
    BY <1>10
  <2>6. \A i, j \in DOMAIN rm_queue' : i < j =>
          /\ rm_queue'[i] # rm_queue'[j]
          /\ table'[rm_queue'[i]].spec.period <= table'[rm_queue'[j]].spec.period
    BY <2>1, <2>4, <2>5 DEF OrderedBy
  <2>7. ToSet(rm_queue') = {x \in Rids : Active(x)'}
    BY <1>6, <1>7, <1>10 DEF IInv, RmQueueSorted, Active, Free, Created
  <2>8. QED
    BY <2>6, <2>7 DEF RmQueueSorted
<1>13. PrioritiesFollow'
  <2> DEFINE R == {p \in Rids \X Rids :
                     /\ table'[p[1]].pid = Attached
                     /\ table'[p[2]].pid = Attached
                     => priority'[p[1]] > priority'[p[2]]}
  <2>1. \A x, y \in Rids :
          <<x, y>> \in R <=>
            (table'[x].pid = Attached /\ table'[y].pid = Attached
               => priority'[x] > priority'[y])
    OBVIOUS
  <2> HIDE DEF R
  <2>2. OrderedBy(rm_queue, R)
    BY <1>6, <1>8, <1>9, <2>1 DEF IInv, PrioritiesFollow, OrderedBy
  <2>3. \A x \in Rids : <<x, r>> \in R /\ <<r, x>> \in R
    BY <1>5, <1>6, <2>1
  <2>4. OrderedBy(rm_queue', R)
    <3>1. OrderedBy(Enqueue(rm_queue, longer, r), R)
      <4> HIDE DEF longer
      <4>1. \A i \in 1 .. Len(rm_queue) :
              <<rm_queue[i], r>> \in R /\ <<r, rm_queue[i]>> \in R
        BY <1>3, <1>8, <2>3
      <4>2. \A k \in 1 .. Len(rm_queue) + 1 :
              /\ \A i \in 1 .. k - 1 : <<rm_queue[i], r>> \in R
              /\ \A i \in k .. Len(rm_queue) : <<r, rm_queue[i]>> \in R
        <5>1. Len(rm_queue) \in Nat
          BY <1>3
        <5>2. \A k \in 1 .. Len(rm_queue) + 1 :
                /\ \A i \in 1 .. k - 1 : i \in 1 .. Len(rm_queue)
                /\ \A i \in k .. Len(rm_queue) : i \in 1 .. Len(rm_queue)
          BY <5>1
        <5>3. QED
          BY <4>1, <5>2
      <4>3. QED
        BY <1>3, <2>2, <4>2, EnqueueOrdered
    <3>2. QED
      BY <1>1, <2>2, <3>1
  <2>5. \A i \in DOMAIN rm_queue' : rm_queue'[i] \in Rids
    BY <1>10
  <2>6. QED
    BY <2>1, <2>4, <2>5 DEF OrderedBy, PrioritiesFollow
<1>14. ReadyAttached' /\ ReadyqSorted'
  BY <1>2, <1>6, <1>8, <1>9
     DEF IInv, ReadyAttached, ReadyqSorted, Ready, ToSet
<1>15. BudgetTimerSound'
  <2>1. ASSUME NEW x \in Rids, dispatcher.enforcement[x] # Off
        PROVE  table'[x].spec.exectime = table[x].spec.exectime
    <3>1. dispatcher.readyq # <<>> /\ Head(dispatcher.readyq) = x
      BY <2>1 DEF IInv, BudgetTimerSound, Current
    <3>2. x \in ToSet(dispatcher.readyq)
      BY <1>3, <3>1 DEF ToSet
    <3>3. QED
      BY <1>6, <1>7, <3>2
  <2>2. QED
    BY <1>2, <2>1 DEF IInv, BudgetTimerSound, Current
<1>16. QED
  BY <1>11, <1>12, <1>13, <1>14, <1>15 DEF IInv

\* The priorities computed by calculate_rm_priorities decrease along the
\* rate-monotonic queue.
LEMMA RmPrioritiesDecrease ==
  ASSUME IInv
  PROVE  /\ RmPriorities \in [Rids -> Int]
         /\ \A i, j \in DOMAIN rm_queue : i < j =>
              RmPriorities[rm_queue[i]] > RmPriorities[rm_queue[j]]
PROOF
<1>1. /\ rm_queue \in Seq(Rids) /\ Len(rm_queue) \in Nat
      /\ priority \in [Rids -> Int] /\ MinPriority \in Nat
  BY ConstantsAssumption DEF IInv, TypeOK
<1>2. ASSUME NEW i \in DOMAIN rm_queue
      PROVE  /\ rm_queue[i] \in Rids
             /\ RmPriorities[rm_queue[i]] = MinPriority + Len(rm_queue) + 1 - i
  <2>1. rm_queue[i] \in Rids
    BY <1>1
  <2>2. (CHOOSE j \in DOMAIN rm_queue : rm_queue[j] = rm_queue[i]) = i
    <3>1. \A j \in DOMAIN rm_queue : rm_queue[j] = rm_queue[i] => j = i
      BY <1>1 DEF IInv, RmQueueSorted
    <3>2. QED
      BY <3>1
  <2>3. QED
    BY <2>1, <2>2 DEF RmPriorities
<1>3. ASSUME NEW r \in Rids
      PROVE  RmPriorities[r] \in Int
  <2>1. CASE \E i \in DOMAIN rm_queue : rm_queue[i] = r
    BY <1>1, <1>2, <2>1
  <2>2. CASE ~ \E i \in DOMAIN rm_queue : rm_queue[i] = r
    BY <1>1, <2>2 DEF RmPriorities
  <2>3. QED
    BY <2>1, <2>2
<1>4. RmPriorities \in [Rids -> Int]
  <2>1. RmPriorities = [r \in Rids |-> RmPriorities[r]]
    BY DEF RmPriorities
  <2>2. QED
    BY <1>3, <2>1
<1>5. ASSUME NEW i \in DOMAIN rm_queue, NEW j \in DOMAIN rm_queue, i < j
      PROVE  RmPriorities[rm_queue[i]] > RmPriorities[rm_queue[j]]
  <2>1. /\ RmPriorities[rm_queue[i]] = MinPriority + Len(rm_queue) + 1 - i
        /\ RmPriorities[rm_queue[j]] = MinPriority + Len(rm_queue) + 1 - j
    BY <1>2
  <2>2. i \in Int /\ j \in Int
    BY <1>1
  <2>3. QED
    BY <1>1, <1>5, <2>1, <2>2
<1>6. QED
  BY <1>4, <1>5

\* ATTACH_RSV computes all priorities again, and then starts the reserve.
LEMMA AttachReserveOK ==
  ASSUME IInv, NEW r \in Rids, AttachReserve(r)
  PROVE  IInv'
PROOF
<1> DEFINE p == dispatcher.readyq
           e == ArmZeroSlack([dispatcher EXCEPT !.current[r] = 0], r)
<1>1. /\ TypeOK /\ rm_queue \in Seq(Rids) /\ p \in Seq(Rids)
      /\ priority \in [Rids -> Int]
  BY DEF IInv, TypeOK, Dispatchers
<1>2. /\ priority' = RmPriorities /\ priority' \in [Rids -> Int]
      /\ \A i, j \in DOMAIN rm_queue : i < j =>
           priority'[rm_queue[i]] > priority'[rm_queue[j]]
  BY RmPrioritiesDecrease DEF AttachReserve
<1>3. /\ table' \in [Rids -> Reserves]
      /\ table'[r].pid = Attached
      /\ \A x \in Rids : table'[x].spec = table[x].spec
      /\ \A x \in Rids : x # r => table'[x] = table[x]
  <2> DEFINE c == table[r]
             one == 1
             no == FALSE
             t == [c EXCEPT !.pid = Attached, !.start_period = one,
                            !.enforced = no, !.in_critical_mode = no]
  <2>1. c \in Reserves /\ one \in Int /\ no \in BOOLEAN
    BY <1>1, SpecType
  <2>2. table' = [table EXCEPT ![r] = t]
    <3>1. table' = [table EXCEPT
            ![r].pid = Attached, ![r].start_period = 1, ![r].enforced = FALSE,
            ![r].in_critical_mode = FALSE]
      BY DEF AttachReserve
    <3>2. QED
      BY <1>1, <3>1 DEF TypeOK
  <2> HIDE DEF one, no
  <2>3. t \in Reserves /\ t.pid = Attached /\ t.spec = c.spec
    <3> HIDE DEF c
    <3>1. QED
      BY <2>1 DEF Reserves
  <2> HIDE DEF t
  <2>4. QED
    BY <1>1, <2>2, <2>3, TableUpdateType DEF TypeOK
<1>4. table[r].pid = Created /\ r \notin ToSet(p)
  BY DEF AttachReserve, IInv, ReadyAttached, Ready, Created, Attached
<1>5. \A x \in Rids : (table[x].pid = Attached \/ x = r) => x \in ToSet(rm_queue)
  BY <1>4 DEF IInv, RmQueueSorted, Active, Free, Created, Attached
<1>6. DispatcherOK(e) /\ e.readyq = p
  <2> DEFINE c == [dispatcher EXCEPT !.current[r] = 0]
  <2>1. DispatcherOK(dispatcher)
    BY DispatcherInvariant
  <2>2. DispatcherOK(c)
    BY <2>1, CurrentZeroOK
  <2>3. c.readyq = p
    BY <2>1 DEF DispatcherOK, Dispatchers
  <2> HIDE DEF c
  <2>4. ArmZeroSlack(c, r) \in Dispatchers
        /\ SameExecution(c, ArmZeroSlack(c, r))
    BY <2>2, ArmZeroSlackType DEF DispatcherOK
  <2>5. QED
    BY <2>2, <2>3, <2>4, ZeroSlackOK DEF SameExecution, c
\* The new priorities keep the order of the attached reserves.
<1>7. ASSUME NEW x \in Rids, NEW y \in Rids, table[x].pid = Attached,
             table[y].pid = Attached, priority[x] > priority[y]
      PROVE  priority'[x] > priority'[y]
  <2>1. x \in ToSet(rm_queue) /\ y \in ToSet(rm_queue)
    BY <1>5, <1>7
  <2>2. PICK i \in DOMAIN rm_queue : rm_queue[i] = x
    BY <2>1 DEF ToSet
  <2>3. PICK j \in DOMAIN rm_queue : rm_queue[j] = y
    BY <2>1 DEF ToSet
  <2>4. i < j \/ i = j \/ j < i
    BY <1>1
  <2>5. j < i => priority[y] > priority[x]
    BY <1>7, <2>2, <2>3 DEF IInv, PrioritiesFollow
  <2>6. i < j
    BY <1>1, <1>7, <2>2, <2>3, <2>4, <2>5
  <2>7. QED
    BY <1>2, <2>2, <2>3, <2>6
<1>8. ASSUME NEW x \in ToSet(p), x # r
      PROVE  priority'[x] # priority'[r]
  <2>1. x \in Rids /\ table[x].pid = Attached
    BY <1>1, <1>8 DEF IInv, ReadyAttached, Ready, ToSet
  <2>2. x \in ToSet(rm_queue) /\ r \in ToSet(rm_queue)
    BY <1>5, <2>1
  <2>3. PICK i \in DOMAIN rm_queue : rm_queue[i] = x
    BY <2>2 DEF ToSet
  <2>4. PICK j \in DOMAIN rm_queue : rm_queue[j] = r
    BY <2>2 DEF ToSet
  <2>5. i < j \/ j < i
    BY <1>1, <1>8, <2>3, <2>4
  <2>6. priority'[x] > priority'[r] \/ priority'[r] > priority'[x]
    BY <1>2, <2>3, <2>4, <2>5
  <2>7. QED
    BY <1>2, <2>1, <2>6
<1>9. OrderedBy(p, Higher(priority'))
  <2>1. ASSUME NEW i \in DOMAIN p, NEW j \in DOMAIN p, i < j
        PROVE  priority'[p[i]] > priority'[p[j]]
    <3>1. /\ p[i] \in Rids /\ p[j] \in Rids
          /\ table[p[i]].pid = Attached /\ table[p[j]].pid = Attached
      BY <1>1 DEF IInv, ReadyAttached, Ready, ToSet
    <3>2. priority[p[i]] > priority[p[j]]
      BY <2>1 DEF IInv, ReadyqSorted
    <3>3. QED
      BY <1>7, <3>1, <3>2
  <2>2. QED
    BY <1>1, <2>1, SortedMeans
<1> HIDE DEF p
<1>10. /\ dispatcher' \in Dispatchers
       /\ ToSet(dispatcher'.readyq) = ToSet(p) \cup {r}
       /\ TimerSound(dispatcher')
       /\ OrderedBy(dispatcher'.readyq, Higher(priority'))
  <2>1. dispatcher' = Start(e, priority', r)
    BY DEF AttachReserve
  <2> HIDE DEF e
  <2>2. QED
    BY <1>1, <1>2, <1>6, <1>8, <1>9, <2>1, StartType DEF DispatcherOK
<1>11. TypeOK'
  <2>1. task' \in [Rids -> TaskStates]
    BY <1>1, TaskUpdateType DEF AttachReserve, TaskStates
  <2>2. period_timer' \in SUBSET Rids
    BY <1>1 DEF AttachReserve, TypeOK
  <2>3. UNCHANGED <<rm_queue, critVars, lock>>
    BY DEF AttachReserve
  <2>4. QED
    BY <1>1, <1>2, <1>3, <1>10, <2>1, <2>2, <2>3 DEF TypeOK, critVars
<1>12. rm_queue' = rm_queue /\ \A i \in DOMAIN rm_queue : rm_queue[i] \in Rids
  BY <1>1 DEF AttachReserve
<1>13. RmQueueSorted'
  <2>1. \A x \in Rids : Active(x)' <=> Active(x)
    BY <1>3, <1>4 DEF Active, Attached, Created, Free
  <2>2. QED
    BY <1>3, <1>12, <2>1 DEF IInv, RmQueueSorted
<1>14. PrioritiesFollow'
  BY <1>2, <1>12 DEF PrioritiesFollow
<1>15. ReadyAttached'
  <2>1. \A x \in ToSet(p) : x \in Rids /\ table[x].pid = Attached
    BY <1>1 DEF IInv, ReadyAttached, Ready, ToSet, p
  <2>2. QED
    BY <1>3, <1>10, <2>1 DEF ReadyAttached, Ready
<1>16. ReadyqSorted'
  <2>1. dispatcher'.readyq \in Seq(Rids)
    BY <1>10 DEF Dispatchers
  <2>2. QED
    BY <1>10, <2>1, SortedMeans DEF ReadyqSorted
<1>17. BudgetTimerSound'
  BY <1>3, <1>10 DEF TimerSound, BudgetTimerSound, Current
<1>18. QED
  BY <1>11, <1>13, <1>14, <1>15, <1>16, <1>17 DEF IInv

\* DELETE_RSV.
LEMMA DeleteOK ==
  ASSUME IInv, NEW r \in Rids, Delete(r)
  PROVE  IInv'
PROOF
<1>1. /\ TypeOK /\ table \in [Rids -> Reserves] /\ DispatcherOK(dispatcher)
      /\ DeleteReserve(dispatcher, table, r)
      /\ UNCHANGED <<priority, critVars, lock>>
  BY DispatcherInvariant DEF IInv, TypeOK, Delete
<1>2. TypeOK'
  BY <1>1, DeleteReserveType DEF TypeOK, critVars
<1>3. QED
  BY <1>1, <1>2, DeleteStep

\* CAPTURE_ENFORCEMENT_SIGNAL.
LEMMA CaptureEnforcementSignalOK ==
  ASSUME IInv, NEW r \in Rids, NEW captured \in BOOLEAN,
         CaptureEnforcementSignal(r, captured)
  PROVE  IInv'
PROOF
<1> DEFINE t == [table[r] EXCEPT !.enforcement_signal_captured = captured]
<1>1. TypeOK /\ DispatcherOK(dispatcher) /\ table[r] \in Reserves
  BY DispatcherInvariant, SpecType DEF IInv
<1>2. t \in Reserves /\ t.pid = table[r].pid /\ t.spec = table[r].spec
  BY <1>1 DEF Reserves
<1>3. table' = [table EXCEPT ![r] = t]
  BY DEF CaptureEnforcementSignal
<1> HIDE DEF t
<1>4. table' \in [Rids -> Reserves] /\ TableKept
  BY <1>1, <1>2, <1>3, TableUpdateType DEF TypeOK, TableKept
<1>5. UNCHANGED <<task, priority, rm_queue, dispatcher, period_timer, critVars,
                 lock>>
  BY DEF CaptureEnforcementSignal
<1>6. TypeOK'
  BY <1>1, <1>4, <1>5 DEF TypeOK, critVars
<1>7. QED
  BY <1>1, <1>4, <1>5, <1>6, QuietStep

\* Every system call.
LEMMA SystemCallOK ==
  ASSUME IInv, NEW r \in Rids, SystemCall(r)
  PROVE  IInv'
PROOF
<1>1. DispatcherOK(dispatcher)
  BY DispatcherInvariant
<1>2. CASE WaitPeriod(r)
  BY <1>1, <1>2, DepartOK DEF WaitPeriod, Departing
<1>3. CASE EndPeriod(r)
  BY <1>1, <1>3, DepartOK DEF EndPeriod, Departing
<1>4. CASE WaitRelease(r)
  BY <1>1, <1>4, WaitForNextReleaseOK DEF WaitRelease, Alive
<1>5. QED
  BY <1>2, <1>3, <1>4, AttachReserveOK, DeleteOK, CaptureEnforcementSignalOK
     DEF SystemCall

\* The delivery of a budget enforcement signal.
LEMMA EnforcementSignalOK ==
  ASSUME IInv, NEW r \in Rids, EnforcementSignal(r)
  PROVE  IInv'
PROOF
<1> DEFINE signal == Head(dispatcher.signals[r])
           rest == Tail(dispatcher.signals[r])
           d == [dispatcher EXCEPT !.signals[r] = rest]
<1>1. TypeOK /\ DispatcherOK(dispatcher) /\ table[r].pid = Attached
  BY DispatcherInvariant DEF IInv, EnforcementSignal, Alive
<1>2. /\ dispatcher.signals[r] \in Seq([stop : BOOLEAN, periodic : BOOLEAN])
      /\ dispatcher.signals[r] # <<>>
  BY <1>1 DEF TypeOK, Dispatchers, EnforcementSignal
<1>3. rest \in Seq([stop : BOOLEAN, periodic : BOOLEAN])
  BY <1>2
<1>4. \/ Depart(d, r, "handler")
      \/ WaitForNextRelease(d, r, "handler")
      \/ /\ task' = [task EXCEPT ![r] = "running"]
         /\ dispatcher' = d
         /\ UNCHANGED <<table, priority, rm_queue, period_timer, critVars, lock>>
  BY DEF EnforcementSignal
<1> HIDE DEF rest
<1>5. DispatcherOK(d)
  BY <1>1, <1>3, SignalsOK
<1> HIDE DEF d
<1>6. CASE Depart(d, r, "handler")
  BY <1>5, <1>6, DepartOK DEF Departing
<1>7. CASE WaitForNextRelease(d, r, "handler")
  BY <1>1, <1>5, <1>7, WaitForNextReleaseOK
<1>8. CASE /\ task' = [task EXCEPT ![r] = "running"]
           /\ dispatcher' = d
           /\ UNCHANGED <<table, priority, rm_queue, period_timer, critVars, lock>>
  <2>1. TypeOK'
    BY <1>1, <1>5, <1>8, TaskUpdateType
       DEF TypeOK, critVars, DispatcherOK, TaskStates
  <2>2. QED
    BY <1>5, <1>8, <2>1, QuietStep DEF TableKept
<1>9. QED
  BY <1>4, <1>6, <1>7, <1>8

\* The exit of a task.
LEMMA DieOK ==
  ASSUME IInv, NEW r \in Rids, Die(r)
  PROVE  IInv'
PROOF
<1> DEFINE none == <<>>
<1>1. TypeOK /\ DispatcherOK(dispatcher)
  BY DispatcherInvariant DEF IInv
<1>2. none \in Seq([stop : BOOLEAN, periodic : BOOLEAN])
  OBVIOUS
<1>3. /\ dispatcher' = [dispatcher EXCEPT !.signals[r] = none]
      /\ task' = [task EXCEPT ![r] = "dead"]
      /\ UNCHANGED <<table, priority, rm_queue, period_timer, critVars, lock>>
  BY DEF Die
<1> HIDE DEF none
<1>4. DispatcherOK(dispatcher')
  BY <1>1, <1>2, <1>3, SignalsOK
<1>5. TypeOK'
  BY <1>1, <1>3, <1>4, TaskUpdateType
     DEF TypeOK, critVars, DispatcherOK, TaskStates
<1>6. QED
  BY <1>3, <1>4, <1>5, QuietStep DEF TableKept

\* The period timer.
LEMMA PeriodTimerOK ==
  ASSUME IInv, NEW r \in Rids, PeriodTimer(r)
  PROVE  IInv'
PROOF
<1>1. TypeOK /\ DispatcherOK(dispatcher)
  BY DispatcherInvariant DEF IInv
<1>2. UNCHANGED <<priority, rm_queue, critVars, lock>>
  BY DEF PeriodTimer
<1>3. /\ DispatcherOK(dispatcher')
      /\ table' \in [Rids -> Reserves] /\ TableKept
      /\ task' \in [Rids -> TaskStates]
  <2>1. CASE Alive(r) /\ StartOfPeriod(r)
    BY <2>1, StartOfPeriodOK
  <2>2. CASE ForceDelete(dispatcher, r)
    BY <1>1, <2>2, ForceDeleteOK DEF TypeOK, TableKept
  <2>3. QED
    BY <2>1, <2>2 DEF PeriodTimer
<1>4. period_timer' \in SUBSET Rids
  BY <1>1 DEF PeriodTimer, TypeOK
<1>5. TypeOK'
  BY <1>1, <1>2, <1>3, <1>4 DEF TypeOK, critVars, DispatcherOK
<1>6. QED
  BY <1>2, <1>3, <1>5, QuietStep

\* The budget enforcement timer.
LEMMA EnforcementTimerOK ==
  ASSUME IInv, NEW r \in Rids, EnforcementTimer(r)
  PROVE  IInv'
PROOF
<1> DEFINE d == [dispatcher EXCEPT !.enforcement[r] = Off]
<1>1. TypeOK /\ DispatcherOK(dispatcher)
  BY DispatcherInvariant DEF IInv
<1>2. /\ UNCHANGED <<priority, rm_queue, period_timer, critVars, lock>>
      /\ \/ /\ dispatcher' = BudgetEnforcement(d, r, TRUE)
            /\ UNCHANGED <<table, task>>
         \/ ForceDelete(d, r)
  BY DEF EnforcementTimer
<1>3. DispatcherOK(d)
  BY <1>1, EnforcementOffOK
<1> HIDE DEF d
<1>4. DispatcherOK(dispatcher') /\ UNCHANGED <<table, task>>
  BY <1>2, <1>3, BudgetEnforcementOK, ForceDeleteOK
<1>5. TypeOK'
  BY <1>1, <1>2, <1>4 DEF TypeOK, critVars, DispatcherOK
<1>6. QED
  BY <1>2, <1>4, <1>5, QuietStep DEF TableKept

\* The zero-slack timer, up to the loop of zs_enforcement.
LEMMA ZeroSlackTimerOK ==
  ASSUME IInv, NEW r \in Rids, ZeroSlackTimer(r)
  PROVE  IInv'
PROOF
<1> DEFINE d == [dispatcher EXCEPT !.zero_slack = @ \ {r}]
           crit == [x \in Rids |-> Criticality(x)]
           t == [table[r] EXCEPT !.in_critical_mode = TRUE]
<1>1. TypeOK /\ DispatcherOK(dispatcher) /\ table[r] \in Reserves
  BY DispatcherInvariant, SpecType DEF IInv
<1>2. t \in Reserves /\ t.pid = table[r].pid /\ t.spec = table[r].spec
  BY <1>1 DEF Reserves
<1>3. DispatcherOK(d)
  BY <1>1, ZeroSlackOK
<1>4. UNCHANGED <<priority, rm_queue, period_timer, crit_blockq>>
  BY DEF ZeroSlackTimer
<1>5. CASE /\ ForceDelete(d, r)
           /\ UNCHANGED <<critical_reservesq, sys_criticality, lock>>
  <2> HIDE DEF d
  <2>1. DispatcherOK(dispatcher') /\ UNCHANGED <<table, task>>
    BY <1>3, <1>5, ForceDeleteOK
  <2>2. TypeOK'
    BY <1>1, <1>4, <1>5, <2>1 DEF TypeOK, DispatcherOK
  <2>3. QED
    BY <1>4, <2>1, <2>2, QuietStep DEF TableKept
<1>6. CASE /\ dispatcher' = d
           /\ UNCHANGED <<table, task, critical_reservesq, sys_criticality, lock>>
  <2> HIDE DEF d
  <2>1. TypeOK'
    BY <1>1, <1>3, <1>4, <1>6 DEF TypeOK, DispatcherOK
  <2>2. QED
    BY <1>3, <1>4, <1>6, <2>1, QuietStep DEF TableKept
<1>7. CASE /\ dispatcher' = d
           /\ table' = [table EXCEPT ![r] = t]
           /\ sys_criticality' = Criticality(r)
           /\ critical_reservesq' = AddByCriticality(critical_reservesq, crit, r)
           /\ lock' = [Unlocked EXCEPT !.by = "zs", !.rid = r, !.at = 1]
           /\ UNCHANGED task
  <2> HIDE DEF d, t, crit
  <2>1. table' \in [Rids -> Reserves] /\ TableKept
    BY <1>1, <1>2, <1>7, TableUpdateType DEF TypeOK, TableKept
  <2>2. critical_reservesq' \in Lists
    BY <1>1, <1>7, AddByCriticalityType DEF TypeOK
  <2>3. lock' \in Locks
    BY <1>7 DEF Unlocked, Locks
  <2>4. sys_criticality' \in Nat
    BY <1>1, <1>7, CriticalityType
  <2>5. TypeOK'
    BY <1>1, <1>3, <1>4, <1>7, <2>1, <2>2, <2>3, <2>4 DEF TypeOK, DispatcherOK
  <2>6. QED
    BY <1>3, <1>4, <1>7, <2>1, <2>5, QuietStep
<1>8. QED
  BY <1>5, <1>6, <1>7 DEF ZeroSlackTimer

\* The next place of a loop keeps the record of the lock well typed.
LEMMA LockAdvanceType ==
  ASSUME lock \in Locks, NEW wake \in BOOLEAN
  PROVE  /\ [lock EXCEPT !.at = @ + 1, !.wake = wake] \in Locks
         /\ [lock EXCEPT !.at = @ + 1] \in Locks
         /\ [lock EXCEPT !.at = @ + 1, !.wake = wake].at = lock.at + 1
         /\ [lock EXCEPT !.at = @ + 1].at = lock.at + 1
         /\ [lock EXCEPT !.at = @ + 1].by = lock.by
PROOF
<1> DEFINE a == lock.at + 1
<1>1. a \in Nat
  BY DEF Locks
<1>2. [lock EXCEPT !.at = @ + 1, !.wake = wake]
        = [lock EXCEPT !.at = a, !.wake = wake]
      /\ [lock EXCEPT !.at = @ + 1] = [lock EXCEPT !.at = a]
  OBVIOUS
<1> HIDE DEF a
<1>3. /\ [lock EXCEPT !.at = a, !.wake = wake] \in Locks
      /\ [lock EXCEPT !.at = a] \in Locks
      /\ [lock EXCEPT !.at = a, !.wake = wake].at = a
      /\ [lock EXCEPT !.at = a].at = a
      /\ [lock EXCEPT !.at = a].by = lock.by
  BY <1>1 DEF Locks
<1>4. QED
  BY <1>2, <1>3 DEF a

\* A lock that nobody holds is well typed.
LEMMA UnlockedType == Unlocked \in Locks
PROOF
BY MaxReservesAssumption DEF Unlocked, Locks, Rids

\* An iteration of the loop of zs_enforcement, and its end.
LEMMA ZeroSlackScanOK ==
  ASSUME IInv, ScanFromHead, ZeroSlackScan
  PROVE  IInv'
PROOF
<1> DEFINE q == dispatcher.readyq
           x == q[lock.at]
           crit == [y \in Rids |-> Criticality(y)]
           d == [dispatcher EXCEPT !.request_stop = @ \cup {x}]
<1>1. TypeOK /\ DispatcherOK(dispatcher) /\ lock \in Locks
      /\ q \in Seq(Rids) /\ crit_blockq \in Lists
  BY DispatcherInvariant DEF IInv, TypeOK, Dispatchers
<1>2. UNCHANGED <<table, task, priority, rm_queue, period_timer,
                  critical_reservesq, sys_criticality>>
  BY DEF ZeroSlackScan
<1>3. /\ lock' \in Locks
      /\ crit_blockq' \in Lists
      /\ DispatcherOK(dispatcher')
  <2>1. CASE lock.at > Len(q)
    <3>1. /\ lock' = Unlocked
          /\ dispatcher' \in {WakeScheduler(dispatcher), dispatcher}
          /\ UNCHANGED crit_blockq
      BY <2>1, <1>1 DEF ZeroSlackScan, Locks
    <3>2. DispatcherOK(WakeScheduler(dispatcher))
      BY <1>1, WakeSchedulerType, SameExecutionOK DEF DispatcherOK
    <3>3. QED
      BY <1>1, <3>1, <3>2, UnlockedType
  <2>2. CASE /\ lock' = [lock EXCEPT !.at = @ + 1]
             /\ UNCHANGED <<dispatcher, crit_blockq>>
    BY <1>1, <2>2, LockAdvanceType
  <2>3. CASE /\ lock.at <= Len(q)
             /\ lock.by = "zs"
             /\ lock' = [lock EXCEPT !.at = @ + 1, !.wake = TRUE]
             /\ dispatcher' = PushToReschedule(d, x)
             /\ crit_blockq' = AddByCriticality(crit_blockq, crit, x)
    <3>1. lock' \in Locks
      BY <1>1, <2>3, LockAdvanceType
    <3>2. x \in Rids
      <4>1. lock.at \in Nat
        BY <1>1 DEF Locks
      <4>2. lock.at \in 1 .. Len(q)
        BY <2>3, <1>1, <4>1 DEF ScanFromHead
      <4> HIDE DEF q
      <4>3. QED
        BY <1>1, <4>2
    <3> HIDE DEF x
    <3>3. d \in Dispatchers /\ SameExecution(dispatcher, d)
      BY <1>1, <3>2 DEF DispatcherOK, Dispatchers, SameExecution
    <3> HIDE DEF d, crit
    <3>4. DispatcherOK(dispatcher')
      BY <1>1, <2>3, <3>2, <3>3, PushToRescheduleType, SameExecutionOK
    <3>5. crit_blockq' \in Lists
      BY <1>1, <2>3, <3>2, AddByCriticalityType
    <3>6. QED
      BY <3>1, <3>4, <3>5
  <2>4. QED
    BY <2>1, <2>2, <2>3 DEF ZeroSlackScan
<1>4. TypeOK'
  BY <1>1, <1>2, <1>3 DEF TypeOK, DispatcherOK
<1>5. QED
  BY <1>2, <1>3, <1>4, QuietStep DEF TableKept

\* The loop over crit_blockq resumes or drops one reserve.
LEMMA ReleaseBlockedOK ==
  ASSUME IInv, ReleaseBlocked
  PROVE  IInv'
PROOF
<1> DEFINE t == crit_blockq.head
<1>1. /\ TypeOK /\ DispatcherOK(dispatcher) /\ lock \in Locks
      /\ crit_blockq \in Lists /\ table \in [Rids -> Reserves]
      /\ task \in [Rids -> TaskStates] /\ priority \in [Rids -> Int]
  BY DispatcherInvariant DEF IInv, TypeOK
<1>2. crit_blockq.head # Nil /\ t \in Rids
  BY <1>1 DEF ReleaseBlocked, MoreBlocked, Lists
<1>3. crit_blockq' \in Lists /\ lock' \in Locks
  BY <1>1, <1>2, BeheadType, LockAdvanceType DEF ReleaseBlocked
<1>4. UNCHANGED <<priority, critical_reservesq, sys_criticality>>
  BY DEF ReleaseBlocked
<1>5. CASE UNCHANGED <<dispatcher, table, task, rm_queue, period_timer>>
  <2>1. TypeOK'
    BY <1>1, <1>3, <1>4, <1>5 DEF TypeOK
  <2>2. QED
    BY <1>1, <1>4, <1>5, <2>1, QuietStep DEF TableKept
<1>6. CASE /\ Alive(t)
           /\ task' = [task EXCEPT ![t] = "running"]
           /\ dispatcher' = Start(dispatcher, priority, t)
           /\ UNCHANGED <<table, rm_queue, period_timer>>
  <2> HIDE DEF t
  <2>1. DispatcherOK(dispatcher')
    BY <1>1, <1>2, <1>6, StartOK DEF Alive
  <2>2. task' \in [Rids -> TaskStates]
    BY <1>1, <1>2, <1>6, TaskUpdateType DEF TaskStates
  <2>3. TypeOK'
    BY <1>1, <1>3, <1>4, <1>6, <2>1, <2>2 DEF TypeOK, DispatcherOK
  <2>4. QED
    BY <1>4, <1>6, <2>1, <2>3, QuietStep DEF TableKept
<1>7. CASE DeleteReserve(dispatcher, table, t)
  <2> HIDE DEF t
  <2>1. TypeOK'
    BY <1>1, <1>2, <1>3, <1>4, <1>7, DeleteReserveType DEF TypeOK
  <2>2. QED
    BY <1>1, <1>2, <1>4, <1>7, <2>1, DeleteStep
<1>8. QED
  BY <1>5, <1>6, <1>7 DEF ReleaseBlocked

\* The end of a departure changes no reserve's identity and no dispatcher.
LEMMA FinishDepartureOK ==
  ASSUME IInv, FinishDeparture
  PROVE  IInv'
PROOF
<1> DEFINE r == lock.rid
           w == Dec(table[r].num_period_wakeups)
           c == [table[r] EXCEPT !.num_period_wakeups = w]
<1>1. /\ TypeOK /\ DispatcherOK(dispatcher) /\ lock \in Locks
      /\ table[r] \in Reserves /\ r \in Rids
      /\ table \in [Rids -> Reserves]
  BY DispatcherInvariant, SpecType DEF IInv, TypeOK, Locks
<1>2. w \in 0 .. UintMod - 1
  BY <1>1, CounterType DEF Reserves
<1>3. c \in Reserves /\ c.pid = table[r].pid /\ c.spec = table[r].spec
  <2> HIDE DEF w, r
  <2>1. QED
    BY <1>1, <1>2 DEF Reserves
<1>4. /\ lock' = Unlocked
      /\ UNCHANGED <<priority, rm_queue, dispatcher, period_timer, critVars>>
      /\ \/ /\ task' = [task EXCEPT ![r] = Asleep(lock.by)]
            /\ table' = [table EXCEPT ![r].num_period_wakeups = Dec(@)]
         \/ UNCHANGED <<task, table>>
  BY DEF FinishDeparture
<1>5. /\ [table EXCEPT ![r].num_period_wakeups = Dec(@)]
           = [table EXCEPT ![r] = c]
      /\ Asleep(lock.by) \in TaskStates
  BY <1>1 DEF Asleep, TaskStates
<1> HIDE DEF r, w, c
<1>6. table' \in [Rids -> Reserves] /\ TableKept
  BY <1>1, <1>3, <1>4, <1>5, TableUpdateType DEF TableKept
<1>7. task' \in [Rids -> TaskStates]
  BY <1>1, <1>4, <1>5, TaskUpdateType DEF TypeOK
<1>8. TypeOK'
  BY <1>1, <1>4, <1>6, <1>7, UnlockedType DEF TypeOK, critVars
<1>9. QED
  BY <1>1, <1>4, <1>6, <1>8, QuietStep

\* A request to stop a reserve, from a dispatcher of the invariant.
LEMMA StopRequestedOK ==
  ASSUME IInv, NEW d, DispatcherOK(d), NEW r \in Rids, StopRequested(d, r),
         lock' \in Locks, UNCHANGED <<priority, critVars>>
  PROVE  IInv'
PROOF
<1> DEFINE e == [d EXCEPT !.request_stop = @ \ {r}]
           yes == TRUE
           n == table[r].start_period - 1
           c == [table[r] EXCEPT !.enforced = yes]
           f == [c EXCEPT !.start_period = n]
           t == [table EXCEPT ![r] = c]
<1>1. /\ TypeOK /\ table[r] \in Reserves /\ table \in [Rids -> Reserves]
      /\ task \in [Rids -> TaskStates]
  BY SpecType DEF IInv, TypeOK
<1>2. DispatcherOK(e)
  <2>1. e \in Dispatchers /\ SameExecution(d, e)
    BY DEF DispatcherOK, Dispatchers, SameExecution
  <2>2. QED
    BY <2>1, SameExecutionOK
<1>3. n \in Int /\ yes \in BOOLEAN
  BY <1>1 DEF Reserves
<1>4. [table EXCEPT ![r].enforced = TRUE] = t
      /\ [t EXCEPT ![r].start_period = @ - 1] = [table EXCEPT ![r] = f]
  <2>1. c.start_period = table[r].start_period
    BY <1>1 DEF Reserves
  <2>2. t[r] = c
    BY <1>1
  <2> HIDE DEF c
  <2>3. [t EXCEPT ![r].start_period = @ - 1] = [t EXCEPT ![r] = f]
    BY <2>1, <2>2
  <2>4. [t EXCEPT ![r] = f] = [table EXCEPT ![r] = f]
    <3> HIDE DEF f
    <3>1. QED
      BY <1>1
  <2>5. QED
    BY <2>3, <2>4 DEF c
<1> HIDE DEF n, yes
<1>5. /\ c \in Reserves /\ c.pid = table[r].pid /\ c.spec = table[r].spec
      /\ f \in Reserves /\ f.pid = table[r].pid /\ f.spec = table[r].spec
  BY <1>1, <1>3 DEF Reserves
<1> HIDE DEF c, f
<1>6. /\ t \in [Rids -> Reserves]
      /\ \A x \in Rids : t[x].pid = table[x].pid /\ t[x].spec = table[x].spec
  BY <1>1, <1>5, TableUpdateType
<1>7. \/ /\ dispatcher' = e
         /\ UNCHANGED <<table, task, rm_queue, period_timer>>
      \/ DeleteReserve(e, t, r)
      \/ /\ dispatcher' = Stop(e, r)
         /\ table' = [table EXCEPT ![r] = f]
         /\ task' = [task EXCEPT ![r] = Sleeping(@)]
         /\ UNCHANGED <<rm_queue, period_timer>>
  BY <1>4 DEF StopRequested
<1> HIDE DEF e, t
<1>8. CASE /\ dispatcher' = e
           /\ UNCHANGED <<table, task, rm_queue, period_timer>>
  <2>1. TypeOK'
    BY <1>1, <1>2, <1>8 DEF TypeOK, critVars, DispatcherOK
  <2>2. QED
    BY <1>2, <1>8, <2>1, QuietStep DEF TableKept
<1>9. CASE DeleteReserve(e, t, r)
  <2>1. TypeOK'
    BY <1>1, <1>2, <1>6, <1>9, DeleteReserveType DEF TypeOK, critVars
  <2>2. QED
    BY <1>2, <1>6, <1>9, <2>1, DeleteStep
<1>10. CASE /\ dispatcher' = Stop(e, r)
            /\ table' = [table EXCEPT ![r] = f]
            /\ task' = [task EXCEPT ![r] = Sleeping(@)]
            /\ UNCHANGED <<rm_queue, period_timer>>
  <2>1. DispatcherOK(dispatcher')
    BY <1>2, <1>10, StopOK
  <2>2. table' \in [Rids -> Reserves] /\ TableKept
    BY <1>1, <1>5, <1>10, TableUpdateType DEF TableKept
  <2>3. task' \in [Rids -> TaskStates]
    BY <1>1, <1>10, TaskUpdateType DEF TaskStates, Sleeping
  <2>4. TypeOK'
    BY <1>1, <1>10, <2>1, <2>2, <2>3 DEF TypeOK, critVars, DispatcherOK
  <2>5. QED
    BY <1>10, <2>1, <2>2, <2>4, QuietStep
<1>11. QED
  BY <1>7, <1>8, <1>9, <1>10

\* A request to resume a reserve, from a dispatcher of the invariant.
LEMMA RestartRequestedOK ==
  ASSUME IInv, NEW d, DispatcherOK(d), NEW r \in Rids, RestartRequested(d, r),
         lock' \in Locks, UNCHANGED <<priority, critVars>>
  PROVE  IInv'
PROOF
<1>1. TypeOK /\ table \in [Rids -> Reserves]
  BY DEF IInv, TypeOK
<1>2. CASE DeleteReserve(d, table, r)
  <2>1. TypeOK'
    BY <1>1, <1>2, DeleteReserveType DEF TypeOK, critVars
  <2>2. QED
    BY <1>1, <1>2, <2>1, DeleteStep
<1>3. CASE /\ Alive(r)
           /\ task' = [task EXCEPT ![r] = "running"]
           /\ dispatcher' = Start(d, priority, r)
           /\ UNCHANGED <<table, rm_queue, period_timer>>
  <2>1. DispatcherOK(dispatcher')
    BY <1>3, StartOK DEF Alive
  <2>2. task' \in [Rids -> TaskStates]
    BY <1>1, <1>3, TaskUpdateType DEF TaskStates
  <2>3. TypeOK'
    BY <1>1, <1>3, <2>1, <2>2 DEF TypeOK, critVars, DispatcherOK
  <2>4. QED
    BY <1>3, <2>1, <2>3, QuietStep DEF TableKept
<1>4. QED
  BY <1>2, <1>3 DEF RestartRequested

\* A pop of scheduler_task serves a request of either kind.
LEMMA SchedulerPopOK ==
  ASSUME IInv, SchedulerPop
  PROVE  IInv'
PROOF
<1> DEFINE s == dispatcher.reschedule
           r == Last(s)
           rest == Front(s)
           d == [dispatcher EXCEPT !.reschedule = rest]
<1>1. /\ DispatcherOK(dispatcher) /\ s \in Seq(Rids) /\ s # <<>>
      /\ UNCHANGED <<priority, critVars>>
      /\ lock' = [Unlocked EXCEPT !.by = "sched"]
  BY DispatcherInvariant DEF SchedulerPop, DispatcherOK, Dispatchers
<1>2. r \in Rids /\ rest \in Seq(Rids)
  <2> HIDE DEF s
  <2>1. Len(s) \in 1 .. Len(s) /\ \A i \in 1 .. Len(s) : s[i] \in Rids
    BY <1>1
  <2>2. QED
    BY <1>1, <2>1 DEF Last, Front
<1>3. lock' \in Locks
  BY <1>1, UnlockedType DEF Locks, Unlocked
<1>4. \/ StopRequested(d, r)
      \/ RestartRequested(d, r)
  BY DEF SchedulerPop
<1> HIDE DEF r, rest
<1>5. DispatcherOK(d)
  <2>1. d \in Dispatchers /\ SameExecution(dispatcher, d)
    BY <1>1, <1>2 DEF DispatcherOK, Dispatchers, SameExecution
  <2>2. QED
    BY <1>1, <2>1, SameExecutionOK
<1> HIDE DEF d
<1>6. QED
  BY <1>1, <1>2, <1>3, <1>4, <1>5, StopRequestedOK, RestartRequestedOK

\* The scheduler thread unlocks and goes to sleep.
LEMMA SchedulerRestOK ==
  ASSUME IInv, SchedulerUnlock \/ SchedulerSleep
  PROVE  IInv'
PROOF
<1>1. TypeOK /\ DispatcherOK(dispatcher)
  BY DispatcherInvariant DEF IInv
<1>2. PICK state \in {"leaving", "asleep"} :
        dispatcher' = [dispatcher EXCEPT !.sched_task = state]
  BY DEF SchedulerUnlock, SchedulerSleep
<1>3. /\ lock' \in {lock, Unlocked}
      /\ UNCHANGED <<table, task, priority, rm_queue, period_timer, critVars>>
  BY DEF SchedulerUnlock, SchedulerSleep
<1>4. dispatcher' \in Dispatchers /\ SameExecution(dispatcher, dispatcher')
  BY <1>1, <1>2 DEF DispatcherOK, Dispatchers, SameExecution
<1>5. DispatcherOK(dispatcher')
  BY <1>1, <1>4, SameExecutionOK
<1>6. TypeOK'
  BY <1>1, <1>3, <1>4, UnlockedType DEF TypeOK, critVars
<1>7. QED
  BY <1>3, <1>5, <1>6, QuietStep DEF TableKept

\* A unit of execution moves time from the timer of the head to its account.
LEMMA TickOK ==
  ASSUME IInv, Tick
  PROVE  IInv'
PROOF
<1> DEFINE p == Capped(dispatcher.elapsed + 1)
           left == [r \in Rids |-> IF dispatcher.enforcement[r] = Off THEN Off
                                   ELSE dispatcher.enforcement[r] - 1]
           d == [dispatcher EXCEPT !.elapsed = p, !.enforcement = left]
<1>1. /\ TypeOK /\ DispatcherOK(dispatcher) /\ dispatcher \in Dispatchers
      /\ MaxTicks \in Nat
  BY DispatcherInvariant, ConstantsAssumption DEF IInv, DispatcherOK
<1>2. /\ \A r \in Rids : dispatcher.enforcement[r] # 0
      /\ dispatcher' = d
      /\ UNCHANGED <<table, task, priority, rm_queue, period_timer, critVars,
                     lock>>
  BY DEF Tick
<1>3. /\ dispatcher.elapsed \in 0 .. MaxTicks
      /\ dispatcher.enforcement \in [Rids -> Off .. MaxTicks]
      /\ dispatcher.current \in [Rids -> 0 .. MaxTicks]
  BY <1>1 DEF Dispatchers
<1>4. p \in 0 .. MaxTicks /\ p <= dispatcher.elapsed + 1
  BY <1>1, <1>3 DEF Capped
<1>5. \A r \in Rids : dispatcher.enforcement[r] \in Off .. MaxTicks
  BY <1>3
<1>6. left \in [Rids -> Off .. MaxTicks]
  BY <1>1, <1>2, <1>5 DEF Off
<1>7. \A r \in Rids : left[r] # Off =>
        /\ dispatcher.enforcement[r] # Off
        /\ left[r] = dispatcher.enforcement[r] - 1
  BY <1>5 DEF Off
<1> HIDE DEF p, left
<1>8. /\ d \in Dispatchers /\ d.readyq = dispatcher.readyq
      /\ d.current = dispatcher.current /\ d.elapsed = p
      /\ d.enforcement = left
  BY <1>1, <1>4, <1>6 DEF Dispatchers
<1> HIDE DEF d
<1>9. TimerSound(d)
  <2> SUFFICES ASSUME NEW r \in Rids, d.enforcement[r] # Off
      PROVE  /\ d.readyq # <<>>
             /\ Head(d.readyq) = r
             /\ d.current[r] + d.elapsed + d.enforcement[r]
                  <= table[r].spec.exectime
    BY DEF TimerSound
  <2>1. /\ dispatcher.readyq # <<>>
        /\ Head(dispatcher.readyq) = r
        /\ dispatcher.current[r] + dispatcher.elapsed
             + dispatcher.enforcement[r] <= table[r].spec.exectime
    BY <1>1, <1>7, <1>8 DEF DispatcherOK, TimerSound
  <2>2. /\ dispatcher.current[r] \in Int /\ dispatcher.elapsed \in Int
        /\ dispatcher.enforcement[r] \in Int
        /\ table[r].spec.exectime \in Int /\ p \in Int
    BY <1>1, <1>3, <1>4, <1>5, SpecType DEF Off
  <2>3. d.current[r] + d.elapsed + d.enforcement[r]
          = dispatcher.current[r] + p + (dispatcher.enforcement[r] - 1)
    BY <1>7, <1>8
  <2>4. ASSUME NEW a \in Int, NEW b \in Int, NEW c \in Int, NEW x \in Int,
               NEW y \in Int, x <= b + 1, a + b + c <= y
        PROVE  a + x + (c - 1) <= y
    BY <2>4
  <2>5. d.current[r] + d.elapsed + d.enforcement[r]
          <= table[r].spec.exectime
    BY <1>4, <2>1, <2>2, <2>3, <2>4
  <2>6. QED
    BY <1>8, <2>1, <2>5
<1>10. DispatcherOK(dispatcher')
  BY <1>1, <1>2, <1>8, <1>9 DEF DispatcherOK
<1>11. TypeOK'
  BY <1>1, <1>2, <1>8 DEF TypeOK, critVars
<1>12. QED
  BY <1>2, <1>10, <1>11, QuietStep DEF TableKept
=============================================================================
