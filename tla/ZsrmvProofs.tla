---------------------------- MODULE ZsrmvProofs ----------------------------
(***************************************************************************)
(* Invariants of Zsrmv for every value of the constants: the queues are    *)
(* sorted and hold the right reserves, and no enforcement timer is armed   *)
(* but that of the head of the ready queue, within its budget.  While no   *)
(* reserve is deleted, sys_criticality is that of the criticality stack,   *)
(* and, if none is attached below it, no reserve is started below it; and  *)
(* no departure puts to sleep the task of a reserve that is ready.         *)
(***************************************************************************)
EXTENDS HandlerProofs, FiniteSetTheorems

\* The ways a step changes the holder of zsrmlock.
LEMMA LockSteps ==
  ASSUME lock \in Locks, [Next]_vars
  PROVE  \/ lock' = lock
         \/ lock'.by # "zs"
         \/ lock'.at = 1
         \/ lock'.by = lock.by /\ lock'.at = lock.at + 1
         \/ lock'.at = lock.at + 1 /\ lock.by = "zs"
PROOF
<1>1. Unlocked.by = "free"
      /\ [Unlocked EXCEPT !.by = "sched"].by = "sched"
  BY DEF Unlocked
<1>2. \A d, r : \A call \in Departing : Depart(d, r, call) => lock'.by # "zs"
  BY DEF Depart, Departing
<1>3. \A d, r : \A call \in {"wait", "handler"} :
        WaitForNextRelease(d, r, call) => lock' = lock \/ lock'.by # "zs"
  BY <1>2 DEF WaitForNextRelease, Departing
<1>4. ASSUME NEW r \in Rids, SystemCall(r)
      PROVE  lock' = lock \/ lock'.by # "zs"
  BY <1>2, <1>3, <1>4
     DEF SystemCall, AttachReserve, Delete, CaptureEnforcementSignal,
         WaitPeriod, EndPeriod, WaitRelease, Departing
<1>5. ASSUME NEW r \in Rids, EnforcementSignal(r)
      PROVE  lock' = lock \/ lock'.by # "zs"
  BY <1>2, <1>3, <1>5 DEF EnforcementSignal, Departing
<1>6. ASSUME NEW r \in Rids, Die(r) \/ PeriodTimer(r) \/ EnforcementTimer(r)
      PROVE  lock' = lock
  BY <1>6 DEF Die, PeriodTimer, EnforcementTimer
<1>7. ASSUME NEW r \in Rids, ZeroSlackTimer(r)
      PROVE  lock' = lock \/ lock'.at = 1
  <2>1. [Unlocked EXCEPT !.by = "zs", !.rid = r, !.at = 1].at = 1
    BY DEF Unlocked
  <2>2. QED
    BY <1>7, <2>1 DEF ZeroSlackTimer
<1>8. CASE SchedulerTask
  BY <1>1, <1>8 DEF SchedulerTask, SchedulerPop, SchedulerUnlock, SchedulerSleep
<1>9. CASE ReleaseBlocked \/ FinishDeparture
  BY <1>1, <1>9, LockAdvanceType DEF ReleaseBlocked, FinishDeparture
<1>10. CASE ZeroSlackScan
  BY <1>1, <1>10, LockAdvanceType DEF ZeroSlackScan
<1>11. CASE \E spec \in Specs, admitted \in BOOLEAN :
              CreateReserve(spec, admitted)
  BY <1>11 DEF CreateReserve
<1>12. CASE Tick \/ UNCHANGED vars
  BY <1>12 DEF Tick, vars
<1>13. QED
  BY <1>4, <1>5, <1>6, <1>7, <1>8, <1>9, <1>10, <1>11, <1>12
     DEF Next, Timer, Continue

\* The loop of zs_enforcement only moves forward.
LEMMA ScanFromHeadStep ==
  ASSUME TypeOK, ScanFromHead, [Next]_vars
  PROVE  ScanFromHead'
PROOF
<1>1. lock \in Locks /\ lock.at \in Nat
  BY DEF TypeOK, Locks
<1>2. QED
  BY <1>1, LockSteps DEF ScanFromHead

\* Every step keeps the inductive invariant.
LEMMA NextOK ==
  ASSUME IInv, ScanFromHead, [Next]_vars
  PROVE  IInv'
PROOF
<1>1. CASE \E spec \in Specs, admitted \in BOOLEAN :
             CreateReserve(spec, admitted)
  BY <1>1, CreateReserveOK
<1>2. ASSUME NEW r \in Rids,
             SystemCall(r) \/ EnforcementSignal(r) \/ Die(r) \/ Timer(r)
      PROVE  IInv'
  BY <1>2, SystemCallOK, EnforcementSignalOK, DieOK, PeriodTimerOK,
     EnforcementTimerOK, ZeroSlackTimerOK DEF Timer
<1>3. CASE SchedulerTask
  BY <1>3, SchedulerPopOK, SchedulerRestOK DEF SchedulerTask
<1>4. CASE Continue
  BY <1>4, ReleaseBlockedOK, FinishDepartureOK, ZeroSlackScanOK DEF Continue
<1>5. CASE Tick
  BY <1>5, TickOK
<1>6. CASE UNCHANGED vars
  <2>1. UNCHANGED <<table, task, priority, rm_queue, dispatcher, period_timer,
                    critical_reservesq, crit_blockq, sys_criticality, lock>>
    BY <1>6 DEF vars, critVars
  <2>2. TypeOK' /\ TableKept /\ DispatcherOK(dispatcher')
    BY <2>1, DispatcherInvariant DEF IInv, TypeOK, TableKept
  <2>3. QED
    BY <2>1, <2>2, QuietStep
<1>7. QED
  BY <1>1, <1>2, <1>3, <1>4, <1>5, <1>6 DEF Next

-----------------------------------------------------------------------------
\* The inductive invariant holds in every reachable state.
THEOREM Invariance == Spec => [](IInv /\ ScanFromHead)
PROOF
<1>1. Init => IInv /\ ScanFromHead
  BY InitOK DEF Init, Unlocked, ScanFromHead
<1>2. IInv /\ ScanFromHead /\ [Next]_vars => (IInv /\ ScanFromHead)'
  BY NextOK, ScanFromHeadStep DEF IInv
<1>3. QED
  BY <1>1, <1>2, PTL DEF Spec

\* Type correctness: in particular no counter of period wakeups leaves the
\* range of its type, and every queue holds reserve ids only.
THEOREM TypeCorrect == Spec => []TypeOK
PROOF
<1>1. IInv => TypeOK
  BY DEF IInv
<1>2. QED
  BY <1>1, Invariance, PTL

\* The ready queue stays sorted by priority, although the priorities of the
\* reserves that are in it are computed again at every attach (readyq_head).
THEOREM ReadyqStaysSorted == Spec => []ReadyqSorted
PROOF
<1>1. IInv => ReadyqSorted
  BY DEF IInv
<1>2. QED
  BY <1>1, Invariance, PTL

\* The rate-monotonic queue stays sorted by period (add_rm, del_rm).
THEOREM RmQueueStaysSorted == Spec => []RmQueueSorted
PROOF
<1>1. IInv => RmQueueSorted
  BY DEF IInv
<1>2. QED
  BY <1>1, Invariance, PTL

\* Priorities of attached reserves stay rate-monotonic
\* (calculate_rm_priorities), whatever was created and deleted meanwhile.
THEOREM PrioritiesStayMonotonic == Spec => []PrioritiesFollow
PROOF
<1>1. IInv => PrioritiesFollow
  BY DEF IInv
<1>2. QED
  BY <1>1, Invariance, PTL

\* No deleted or unattached reserve is left in, or put back into, the ready
\* queue by a timer, by scheduler_task or by a departure of another task.
THEOREM ReadyStaysAttached == Spec => []ReadyAttached
PROOF
<1>1. IInv => ReadyAttached
  BY DEF IInv
<1>2. QED
  BY <1>1, Invariance, PTL

\* At every change of head the code cancels one enforcement timer and arms
\* another with what is left of the budget (start_reserve, stop_reserve).
THEOREM BudgetTimerStaysSound == Spec => []BudgetTimerSound
PROOF
<1>1. IInv => BudgetTimerSound
  BY DEF IInv
<1>2. QED
  BY <1>1, Invariance, PTL

-----------------------------------------------------------------------------
(***************************************************************************)
(* The criticality mode.  While no reserve is deleted and no task exits,   *)
(* whatever a queue or a timer refers to is attached, so the head of the   *)
(* criticality stack is a reserve in use and its criticality is the mode.  *)
(***************************************************************************)

\* No DELETE_RSV is called and no task exits.
Undeleted == Mortal = {} /\ "delete" \notin Calls

InUse == {r \in Rids : table[r].pid = Attached}

\* The zero-slack timers and the reschedule stack of d refer to A.
Within(d, A) == d.zero_slack \subseteq A /\ d.reschedule \in Seq(A)

\* Every link of l leads into A.
LinksIn(l, A) ==
  l.head \in A \cup {Nil} /\ \A x \in Rids : l.next[x] \in A \cup {Nil}

\* The inductive invariant of the criticality mode.
ModeInv ==
  /\ \A r \in InUse : task[r] \in {"running", "sleeping", "masked"}
  /\ period_timer \subseteq InUse
  /\ Within(dispatcher, InUse)
  /\ LinksIn(critical_reservesq, InUse)
  /\ LinksIn(crit_blockq, InUse)
  /\ SysIsTop

\* A push refers to r only.
LEMMA PushWithin ==
  ASSUME NEW d \in Dispatchers, NEW A \in SUBSET Rids, Within(d, A), NEW r \in A
  PROVE  Within(PushToReschedule(d, r), A)
PROOF
<1> DEFINE s == IF Len(d.reschedule) < MaxReserves THEN Append(d.reschedule, r)
                ELSE d.reschedule
<1>1. s \in Seq(A)
  BY DEF Within
<1>2. PushToReschedule(d, r) = [d EXCEPT !.reschedule = s]
  BY DEF PushToReschedule
<1> HIDE DEF s
<1>3. QED
  BY <1>1, <1>2 DEF Within, Dispatchers

\* Waking scheduler_task refers to no reserve.
LEMMA WakeWithin ==
  ASSUME NEW d \in Dispatchers, NEW A, Within(d, A)
  PROVE  Within(WakeScheduler(d), A)
PROOF
BY DEF Within, WakeScheduler, Dispatchers

\* budget_enforcement may push r, and disarms its zero-slack timer.
LEMMA BudgetEnforcementWithin ==
  ASSUME TypeOK, NEW d \in Dispatchers, NEW A \in SUBSET Rids, Within(d, A),
         NEW r \in A, NEW stop \in BOOLEAN
  PROVE  Within(BudgetEnforcement(d, r, stop), A)
PROOF
<1> DEFINE e == [d EXCEPT !.zero_slack = @ \ {r}]
           signal == [stop |-> stop, periodic |-> ~table[r].end_of_period_marked]
           f == [e EXCEPT !.request_stop = @ \cup {r}]
           g == [e EXCEPT !.signals[r] = Append(@, signal)]
<1>1. e \in Dispatchers /\ Within(e, A)
  BY DEF Dispatchers, Within
<1>2. BudgetEnforcement(d, r, stop) \in
        {e, g, WakeScheduler(PushToReschedule(f, r))}
  BY DEF BudgetEnforcement
<1> HIDE DEF e
<1>3. f \in Dispatchers /\ Within(f, A)
  BY <1>1 DEF Dispatchers, Within
<1>4. Within(g, A)
  BY <1>1 DEF Dispatchers, Within
<1> HIDE DEF f, g
<1>5. Within(WakeScheduler(PushToReschedule(f, r)), A)
  BY <1>3, PushWithin, PushToRescheduleType, WakeWithin
<1>6. QED
  BY <1>1, <1>2, <1>4, <1>5

\* Starting the head may push it.
LEMMA StartHeadWithin ==
  ASSUME TypeOK, NEW d \in Dispatchers, NEW A \in SUBSET Rids, Within(d, A),
         ToSet(d.readyq) \subseteq A
  PROVE  Within(StartHead(d), A)
PROOF
<1> DEFINE h == Head(d.readyq)
           zero == 0
           e == [d EXCEPT !.elapsed = zero]
           left == table[h].spec.exectime - d.current[h]
           f == [e EXCEPT !.enforcement[h] = left]
<1>1. zero \in 0 .. MaxTicks
  BY ConstantsAssumption
<1>2. StartHead(d) \in {e, f, BudgetEnforcement(e, h, TRUE)}
  BY DEF StartHead
<1>3. d.readyq # <<>> => h \in A
  BY DEF ToSet, Dispatchers
<1>4. d.readyq = <<>> => StartHead(d) = e
  BY DEF StartHead
<1> HIDE DEF zero
<1>5. e \in Dispatchers /\ Within(e, A)
  BY <1>1 DEF Dispatchers, Within
<1> HIDE DEF e, left, h
<1>6. Within(f, A)
  BY <1>5 DEF Dispatchers, Within
<1> HIDE DEF f
<1>7. d.readyq # <<>> => Within(BudgetEnforcement(e, h, TRUE), A)
  BY <1>3, <1>5, BudgetEnforcementWithin
<1>8. QED
  BY <1>2, <1>4, <1>5, <1>6, <1>7

\* start_enforcement_timer and the queue hold nothing but what they held and r.
LEMMA StartWithin ==
  ASSUME TypeOK, NEW d \in Dispatchers, NEW A \in SUBSET Rids, Within(d, A),
         ToSet(d.readyq) \subseteq A, NEW prio, NEW r \in A
  PROVE  Within(Start(d, prio, r), A)
PROOF
<1> DEFINE e == IF d.readyq = <<>> THEN d ELSE ChargeHead(d)
           lower == {x \in Rids : prio[x] < prio[r]}
           q == Enqueue(d.readyq, lower, r)
           f == [e EXCEPT !.readyq = q]
<1>1. e \in Dispatchers /\ e.readyq = d.readyq
  BY ChargeHeadType
<1>2. Within(e, A)
  BY DEF Within, ChargeHead, Dispatchers
<1>3. q \in Seq(Rids) /\ ToSet(q) = ToSet(d.readyq) \cup {r}
  BY EnqueueMembers DEF Dispatchers
<1>4. Start(d, prio, r) \in {d, StartHead(f)}
  BY <1>1 DEF Start
<1> HIDE DEF e, q
<1>5. f \in Dispatchers /\ Within(f, A) /\ f.readyq = q
  BY <1>1, <1>2, <1>3 DEF Dispatchers, Within
<1> HIDE DEF f
<1>6. Within(StartHead(f), A)
  BY <1>3, <1>5, StartHeadWithin
<1>7. QED
  BY <1>4, <1>6

\* Taking r off the ready queue may push the next head.
LEMMA StopWithin ==
  ASSUME TypeOK, NEW d \in Dispatchers, NEW A \in SUBSET Rids, Within(d, A),
         ToSet(d.readyq) \subseteq A, NEW r
  PROVE  Within(Stop(d, r), A)
PROOF
<1> DEFINE q == Tail(d.readyq)
           e == ChargeHead(d)
           f == [e EXCEPT !.readyq = q]
<1>1. CASE d.readyq # <<>> /\ Head(d.readyq) = r
  <2>1. e \in Dispatchers /\ e.readyq = d.readyq
    BY <1>1, ChargeHeadType
  <2>2. Within(e, A)
    BY DEF Within, ChargeHead, Dispatchers
  <2>3. q \in Seq(Rids) /\ ToSet(q) \subseteq A
    BY <1>1 DEF Dispatchers, ToSet
  <2>4. Stop(d, r) = StartHead(f)
    BY <1>1, <2>1 DEF Stop
  <2> HIDE DEF e, q
  <2>5. f \in Dispatchers /\ Within(f, A) /\ f.readyq = q
    BY <2>1, <2>2, <2>3 DEF Dispatchers, Within
  <2> HIDE DEF f
  <2>6. QED
    BY <2>3, <2>4, <2>5, StartHeadWithin
<1>2. CASE ~(d.readyq # <<>> /\ Head(d.readyq) = r)
  BY <1>2 DEF Stop, Within, Dispatchers
<1>3. QED
  BY <1>1, <1>2

\* A list of reserves of A stays one when r of A is added to it.
LEMMA AddLinks ==
  ASSUME NEW l \in Lists, NEW A \in SUBSET Rids, LinksIn(l, A), NEW crit,
         NEW r \in A
  PROVE  LinksIn(AddByCriticality(l, crit, r), A)
PROOF
<1> DEFINE next == [l.next EXCEPT ![r] = Nil]
           hop == [t \in Rids |->
                     IF t # r /\ next[t] # Nil /\ crit[next[t]] > crit[r]
                     THEN next[t] ELSE Nil]
           ends == {t \in ReachedFrom(hop, l.head) : hop[t] = Nil}
           place == CHOOSE t \in ends : TRUE
           linked == [next EXCEPT ![r] = next[place], ![place] = r]
           first == [next EXCEPT ![r] = l.head]
           N == [Rids -> A \cup {Nil}]
<1>1. next \in N /\ l.head \in A \cup {Nil} /\ l.next \in N
  BY DEF Lists, LinksIn
<1>2. ends # {} => place \in Rids
  <2> HIDE DEF hop
  <2>1. ends \subseteq Rids
    BY DEF ReachedFrom
  <2>2. QED
    BY <2>1
<1>3. AddByCriticality(l, crit, r) =
        IF l.head = Nil THEN [head |-> r, next |-> next]
        ELSE IF crit[l.head] < crit[r] THEN [head |-> r, next |-> first]
        ELSE IF ends = {} \/ r \in ends THEN [l EXCEPT !.next = next]
        ELSE [l EXCEPT !.next = linked]
  BY DEF AddByCriticality
<1>4. first \in N
  BY <1>1
<1>5. ends # {} => linked \in N
  <2> HIDE DEF place, ends, next
  <2>1. QED
    BY <1>1, <1>2
<1> HIDE DEF next, ends, linked, first
<1>6. ASSUME NEW n \in N, NEW h \in A \cup {Nil}
      PROVE  LinksIn([head |-> h, next |-> n], A)
  BY DEF LinksIn
<1>7. ASSUME NEW n \in N
      PROVE  LinksIn([l EXCEPT !.next = n], A)
  BY <1>1 DEF LinksIn, Lists
<1>8. r \in A \cup {Nil}
  OBVIOUS
<1>9. /\ LinksIn([head |-> r, next |-> next], A)
      /\ LinksIn([head |-> r, next |-> first], A)
  BY <1>1, <1>4, <1>6, <1>8
<1>10. /\ LinksIn([l EXCEPT !.next = next], A)
       /\ ends # {} => LinksIn([l EXCEPT !.next = linked], A)
  BY <1>1, <1>5, <1>7
<1>11. QED
  BY <1>3, <1>9, <1>10

\* The head after an insertion is the old one or a reserve at least as
\* critical as r.
LEMMA AddHead ==
  ASSUME NEW l \in Lists, NEW crit \in [Rids -> Int], NEW r \in Rids
  PROVE  \/ AddByCriticality(l, crit, r).head = r
         \/ /\ AddByCriticality(l, crit, r).head = l.head
            /\ l.head \in Rids
            /\ crit[l.head] >= crit[r]
PROOF
<1> DEFINE a == AddByCriticality(l, crit, r)
<1>1. a.head = IF l.head = Nil \/ crit[l.head] < crit[r] THEN r ELSE l.head
  BY DEF AddByCriticality, Lists
<1>2. l.head \in Rids \cup {Nil}
  BY DEF Lists
<1>3. l.head \in Rids => crit[l.head] \in Int /\ crit[r] \in Int
  OBVIOUS
<1> HIDE DEF a
<1>4. a.head = r \/ (a.head = l.head /\ l.head \in Rids /\ crit[l.head] >= crit[r])
  BY <1>1, <1>2, <1>3
<1>5. QED
  BY <1>4 DEF a

\* Taking the head off leaves links into A.
LEMMA BeheadLinks ==
  ASSUME NEW l \in Lists, l.head # Nil, NEW A \in SUBSET Rids, LinksIn(l, A)
  PROVE  LinksIn(Behead(l), A)
PROOF
<1>1. l.head \in Rids /\ l.next[l.head] \in A \cup {Nil}
  BY DEF Lists, LinksIn
<1>2. Behead(l).head = l.next[l.head] /\ Behead(l).next = l.next
  BY DEF Behead, Lists
<1>3. QED
  BY <1>1, <1>2 DEF LinksIn

-----------------------------------------------------------------------------
\* In the invariant a reserve is in use exactly when gettask finds its task.
LEMMA InUseAlive ==
  ASSUME IInv, ModeInv
  PROVE  /\ InUse \in SUBSET Rids
         /\ \A r \in Rids : r \in InUse <=> Alive(r)
         /\ ToSet(dispatcher.readyq) \subseteq InUse
PROOF
<1>1. \A r \in Rids : r \in InUse <=> Alive(r)
  BY DEF ModeInv, InUse, Alive
<1>2. dispatcher.readyq \in Seq(Rids)
  BY DEF IInv, TypeOK, Dispatchers
<1>3. ToSet(dispatcher.readyq) \subseteq InUse
  BY <1>2 DEF IInv, ReadyAttached, Ready, InUse, ToSet
<1>4. QED
  BY <1>1, <1>3 DEF InUse

\* A dispatcher of the invariant has only reserves in use in its ready queue.
LEMMA ReadyInUse ==
  ASSUME NEW d, DispatcherOK(d)
  PROVE  d \in Dispatchers /\ ToSet(d.readyq) \subseteq InUse
PROOF
BY DEF DispatcherOK, InUse, ToSet, Dispatchers

\* What a handler has to leave alone for the invariant to stay.
LEMMA ModeStep ==
  ASSUME IInv, ModeInv, TableKept, period_timer' \subseteq period_timer,
         Within(dispatcher', InUse),
         LinksIn(critical_reservesq', InUse), LinksIn(crit_blockq', InUse),
         sys_criticality' = TopCriticality(critical_reservesq'),
         \/ UNCHANGED task
         \/ \E r \in Rids, s \in {"running", "sleeping", "masked"} :
              task' = [task EXCEPT ![r] = s]
  PROVE  ModeInv'
PROOF
<1>1. InUse' = InUse
  BY DEF InUse, TableKept
<1>2. task \in [Rids -> TaskStates]
  BY DEF IInv, TypeOK
<1>3. \A r \in InUse : task'[r] \in {"running", "sleeping", "masked"}
  <2>1. \A r \in InUse : r \in Rids /\ task[r] \in {"running", "sleeping", "masked"}
    BY DEF ModeInv, InUse
  <2>2. QED
    BY <1>2, <2>1
<1>4. critical_reservesq'.head \in InUse \cup {Nil}
  BY DEF LinksIn
<1>5. SysIsTop'
  BY <1>4 DEF SysIsTop, TopCriticality, Criticality, TableKept, InUse
<1>6. period_timer' \subseteq InUse /\ Within(dispatcher', InUse)
  BY DEF ModeInv
<1>7. (Within(dispatcher, InUse))' <=> Within(dispatcher', InUse)
  BY <1>1 DEF Within
<1>8. /\ (LinksIn(critical_reservesq, InUse))'
      /\ (LinksIn(crit_blockq, InUse))'
  BY <1>1 DEF LinksIn
<1>9. QED
  BY <1>1, <1>3, <1>5, <1>6, <1>7, <1>8 DEF ModeInv

\* The same for a handler that leaves the criticality mode alone.
LEMMA ModeQuiet ==
  ASSUME IInv, ModeInv, TableKept, period_timer' \subseteq period_timer,
         Within(dispatcher', InUse), UNCHANGED critVars,
         \/ UNCHANGED task
         \/ \E r \in Rids, s \in {"running", "sleeping", "masked"} :
              task' = [task EXCEPT ![r] = s]
  PROVE  ModeInv'
PROOF
<1>1. sys_criticality = TopCriticality(critical_reservesq)
  BY DEF ModeInv, SysIsTop, TopCriticality
<1>2. /\ UNCHANGED <<critical_reservesq, crit_blockq, sys_criticality>>
      /\ TopCriticality(critical_reservesq') = TopCriticality(critical_reservesq)
      /\ LinksIn(critical_reservesq', InUse) /\ LinksIn(crit_blockq', InUse)
  BY DEF critVars, ModeInv
<1>3. QED
  BY <1>1, <1>2, ModeStep

-----------------------------------------------------------------------------
\* A departure takes r off the criticality stack and sets the mode anew.
LEMMA DepartMode ==
  ASSUME IInv, ModeInv, NEW d, DispatcherOK(d), Within(d, InUse),
         NEW r \in Rids, NEW call \in Departing, Depart(d, r, call)
  PROVE  ModeInv'
PROOF
<1> DEFINE e == [d EXCEPT !.zero_slack = @ \ {r}]
           critical == table[r].in_critical_mode
           stack == IF critical /\ critical_reservesq.head = r
                    THEN Behead(critical_reservesq) ELSE critical_reservesq
<1>1. TypeOK /\ InUse \in SUBSET Rids /\ critical_reservesq \in Lists
  BY InUseAlive DEF IInv, TypeOK
<1>2. DispatcherOK(e) /\ Within(e, InUse)
  BY ZeroSlackOK DEF Within, DispatcherOK, Dispatchers
<1>3. Within(dispatcher', InUse)
  <2>1. dispatcher' = Stop(e, r)
    BY DEF Depart
  <2> HIDE DEF e
  <2>2. QED
    BY <1>1, <1>2, <2>1, ReadyInUse, StopWithin
<1>4. TableKept
  <2>1. table' = [table EXCEPT ![r] = Departed(r, call)]
    BY DEF Depart
  <2>2. QED
    BY <1>1, <2>1, DepartedType DEF TypeOK, TableKept
<1>5. LinksIn(critical_reservesq, InUse) /\ LinksIn(crit_blockq, InUse)
      /\ sys_criticality = TopCriticality(critical_reservesq)
  BY DEF ModeInv, SysIsTop, TopCriticality
<1>6. LinksIn(stack, InUse)
  <2>1. r # Nil
    BY MaxReservesAssumption DEF Rids, Nil
  <2>2. QED
    BY <1>1, <1>5, <2>1, BeheadLinks
<1>7. /\ critical_reservesq' = stack
      /\ sys_criticality' = IF critical THEN TopCriticality(stack)
                            ELSE sys_criticality
      /\ task' = [task EXCEPT ![r] = "running"]
      /\ UNCHANGED <<crit_blockq, period_timer>>
  BY DEF Depart
<1>8. ~critical => stack = critical_reservesq
  OBVIOUS
<1> HIDE DEF stack, critical
<1>9. sys_criticality' = TopCriticality(critical_reservesq')
  BY <1>5, <1>7, <1>8
<1>10. QED
  BY <1>3, <1>4, <1>5, <1>6, <1>7, <1>9, ModeStep

\* wait_for_next_release, with and without a wakeup to take.
LEMMA WaitForNextReleaseMode ==
  ASSUME IInv, ModeInv, NEW d, DispatcherOK(d), Within(d, InUse),
         NEW r \in InUse, NEW call \in {"wait", "handler"},
         WaitForNextRelease(d, r, call)
  PROVE  ModeInv'
PROOF
<1>1. TypeOK /\ InUse \in SUBSET Rids /\ r \in Rids
  BY InUseAlive DEF IInv
<1>2. CASE Depart(d, r, call)
  BY <1>1, <1>2, DepartMode DEF Departing
<1>3. CASE ~Depart(d, r, call)
  <2> DEFINE blocks == table[r].num_period_wakeups = 0
             c == table[r]
             e == [c EXCEPT !.num_wait_release = @ \/ blocks,
                            !.end_of_period_marked = FALSE,
                            !.num_period_wakeups = Dec(@)]
  <2>1. table' = [table EXCEPT ![r] = e]
    BY <1>3, Zenon DEF WaitForNextRelease
  <2>2. c \in Reserves
    BY <1>1, SpecType
  <2>3. e.pid = c.pid /\ e.spec = c.spec
    <3> HIDE DEF c, blocks
    <3>1. QED
      BY <2>2 DEF Reserves
  <2> HIDE DEF e
  <2>4. TableKept
    BY <1>1, <2>1, <2>3 DEF TypeOK, TableKept
  <2>5. dispatcher' \in {d, Start(d, priority, r)}
    BY <1>3 DEF WaitForNextRelease
  <2>6. Within(dispatcher', InUse)
    BY <1>1, <2>5, ReadyInUse, StartWithin
  <2>7. task' = [task EXCEPT ![r] = Asleep(call)]
        \/ task' = [task EXCEPT ![r] = "running"]
    BY <1>3 DEF WaitForNextRelease
  <2>8. Asleep(call) \in {"running", "sleeping", "masked"}
    BY DEF Asleep
  <2>9. UNCHANGED <<period_timer, critVars>>
    BY <1>3 DEF WaitForNextRelease
  <2>10. \E s \in {"running", "sleeping", "masked"} : task' = [task EXCEPT ![r] = s]
    BY <2>7, <2>8
  <2>11. QED
    BY <1>1, <2>4, <2>6, <2>9, <2>10, ModeQuiet
<1>4. QED
  BY <1>2, <1>3

\* CREATE_RSV takes an entry no list refers to.
LEMMA CreateReserveMode ==
  ASSUME IInv, ModeInv, NEW spec \in Specs, NEW admitted \in BOOLEAN,
         CreateReserve(spec, admitted)
  PROVE  ModeInv'
PROOF
<1> DEFINE pid == IF admitted THEN Created ELSE Free
<1>1. PICK r \in Rids :
        /\ ~Active(r)
        /\ table' = [table EXCEPT ![r] = NewReserve(r, spec, pid)]
        /\ critical_reservesq' = [critical_reservesq EXCEPT !.next[r] = Nil]
        /\ crit_blockq' = [crit_blockq EXCEPT !.next[r] = Nil]
        /\ UNCHANGED <<task, dispatcher, period_timer, sys_criticality>>
  BY DEF CreateReserve
<1>2. TypeOK /\ table \in [Rids -> Reserves] /\ critical_reservesq \in Lists
      /\ crit_blockq \in Lists
  BY DEF IInv, TypeOK
<1>3. pid # Attached /\ NewReserve(r, spec, pid).pid = pid
  BY <1>2, NewReserveType DEF Attached, Created, Free
<1>4. r \notin InUse
  BY <1>1 DEF InUse, Active, Attached, Free
<1>5. \A x \in Rids : x # r => table'[x] = table[x]
  BY <1>1, <1>2
<1>6. table'[r].pid # Attached
  BY <1>1, <1>2, <1>3
<1>7. InUse' = InUse
  BY <1>4, <1>5, <1>6 DEF InUse
<1>8. /\ LinksIn(critical_reservesq', InUse) /\ LinksIn(crit_blockq', InUse)
      /\ critical_reservesq'.head = critical_reservesq.head
  BY <1>1, <1>2 DEF ModeInv, LinksIn, Lists
<1>9. SysIsTop'
  <2>1. critical_reservesq.head \in InUse \cup {Nil} /\ SysIsTop
    BY DEF ModeInv, LinksIn
  <2>2. critical_reservesq.head \in InUse =>
          critical_reservesq.head \in Rids /\ critical_reservesq.head # r
    BY <1>4 DEF InUse
  <2>3. QED
    BY <1>1, <1>5, <1>8, <2>1, <2>2 DEF SysIsTop, Criticality
<1>10. /\ (LinksIn(critical_reservesq, InUse))'
       /\ (LinksIn(crit_blockq, InUse))'
  BY <1>7, <1>8 DEF LinksIn
<1>11. QED
  BY <1>1, <1>7, <1>9, <1>10 DEF ModeInv, Within

\* ATTACH_RSV puts r in use and refers to it.
LEMMA AttachReserveMode ==
  ASSUME IInv, IInv', ModeInv, NEW r \in Rids, AttachReserve(r)
  PROVE  ModeInv'
PROOF
<1> DEFINE zero == 0
           c == [table[r] EXCEPT !.pid = Attached, !.start_period = 1,
                                 !.enforced = FALSE, !.in_critical_mode = FALSE]
           e == [dispatcher EXCEPT !.current[r] = zero]
           d == ArmZeroSlack(e, r)
           A == InUse \cup {r}
<1>1. /\ TypeOK /\ table \in [Rids -> Reserves] /\ dispatcher \in Dispatchers
      /\ table[r] \in Reserves /\ task \in [Rids -> TaskStates]
      /\ InUse \in SUBSET Rids /\ ToSet(dispatcher.readyq) \subseteq InUse
  BY InUseAlive DEF IInv, TypeOK
<1>2. /\ table' = [table EXCEPT ![r] = c]
      /\ task' = [task EXCEPT ![r] = "running"]
      /\ dispatcher' = Start(d, priority', r)
      /\ period_timer' = period_timer \cup {r}
      /\ UNCHANGED critVars
  BY DEF AttachReserve
<1>3. c.pid = Attached /\ c.spec = table[r].spec
  BY <1>1 DEF Reserves
<1> HIDE DEF c
<1>4. /\ \A x \in Rids : table'[x].spec = table[x].spec
      /\ \A x \in Rids : x # r => table'[x].pid = table[x].pid
      /\ table'[r].pid = Attached
  BY <1>1, <1>2, <1>3
<1>5. InUse' = A
  BY <1>4 DEF InUse
<1>6. zero \in 0 .. MaxTicks
  BY ConstantsAssumption
<1> HIDE DEF zero
<1>7. e \in Dispatchers /\ e.readyq = dispatcher.readyq /\ Within(e, A)
  <2>1. /\ e \in Dispatchers /\ e.readyq = dispatcher.readyq
        /\ e.zero_slack = dispatcher.zero_slack
        /\ e.reschedule = dispatcher.reschedule
    BY <1>1, <1>6 DEF Dispatchers
  <2>2. dispatcher.zero_slack \subseteq A /\ dispatcher.reschedule \in Seq(A)
    BY DEF ModeInv, Within
  <2>3. QED
    BY <2>1, <2>2 DEF Within
<1> HIDE DEF e
<1>8. d \in Dispatchers /\ d.readyq = dispatcher.readyq
  BY <1>7, ArmZeroSlackType DEF SameExecution
<1>9. Within(d, A)
  BY <1>7 DEF ArmZeroSlack, Within, Dispatchers
<1> HIDE DEF d
<1>10. A \in SUBSET Rids /\ r \in A /\ ToSet(d.readyq) \subseteq A
  BY <1>1, <1>8
<1>11. Within(dispatcher', A)
  BY <1>1, <1>2, <1>8, <1>9, <1>10, StartWithin
<1>12. (Within(dispatcher, InUse))'
  BY <1>5, <1>11 DEF Within
<1>13. \A x \in A : task'[x] \in {"running", "sleeping", "masked"}
  BY <1>1, <1>2 DEF ModeInv
<1>14. /\ LinksIn(critical_reservesq, InUse)
       /\ LinksIn(crit_blockq, InUse) /\ SysIsTop
       /\ UNCHANGED <<critical_reservesq, crit_blockq, sys_criticality>>
  BY <1>2 DEF ModeInv, critVars
<1>15. SysIsTop'
  <2>1. critical_reservesq.head # Nil => critical_reservesq.head \in Rids
    BY <1>1, <1>14 DEF LinksIn
  <2>2. QED
    BY <1>4, <1>14, <2>1 DEF SysIsTop, Criticality
<1>16. (LinksIn(critical_reservesq, InUse))' /\ (LinksIn(crit_blockq, InUse))'
  BY <1>5, <1>14 DEF LinksIn
<1>17. period_timer' \subseteq A
  BY <1>2 DEF ModeInv
<1>18. QED
  BY <1>5, <1>12, <1>13, <1>15, <1>16, <1>17 DEF ModeInv

\* CAPTURE_ENFORCEMENT_SIGNAL changes a flag.
LEMMA CaptureMode ==
  ASSUME IInv, ModeInv, NEW r \in Rids, NEW captured \in BOOLEAN,
         CaptureEnforcementSignal(r, captured)
  PROVE  ModeInv'
PROOF
<1>1. table \in [Rids -> Reserves] /\ table[r] \in Reserves
  BY SpecType DEF IInv, TypeOK
<1>2. /\ table' = [table EXCEPT ![r].enforcement_signal_captured = captured]
      /\ UNCHANGED <<task, dispatcher, period_timer, critVars>>
  BY DEF CaptureEnforcementSignal
<1>3. TableKept
  BY <1>1, <1>2 DEF TableKept, Reserves
<1>4. Within(dispatcher', InUse)
  BY <1>2 DEF ModeInv
<1>5. QED
  BY <1>2, <1>3, <1>4, ModeQuiet

\* The system calls, none of which deletes.
LEMMA SystemCallMode ==
  ASSUME Undeleted, IInv, IInv', ModeInv, NEW r \in Rids, SystemCall(r)
  PROVE  ModeInv'
PROOF
<1>1. DispatcherOK(dispatcher) /\ Within(dispatcher, InUse)
  BY DispatcherInvariant DEF IInv, ModeInv
<1>2. ~Delete(r)
  BY DEF Undeleted, Delete
<1>3. ASSUME WaitPeriod(r) \/ EndPeriod(r) \/ WaitRelease(r)
      PROVE  ModeInv'
  <2>1. r \in InUse
    BY <1>3, InUseAlive DEF WaitPeriod, EndPeriod, WaitRelease
  <2>2. \/ Depart(dispatcher, r, "wait") \/ Depart(dispatcher, r, "end")
        \/ WaitForNextRelease(dispatcher, r, "wait")
    BY <1>3 DEF WaitPeriod, EndPeriod, WaitRelease
  <2>3. QED
    BY <1>1, <2>1, <2>2, DepartMode, WaitForNextReleaseMode DEF Departing
<1>4. QED
  BY <1>2, <1>3, AttachReserveMode, CaptureMode DEF SystemCall

\* A task takes a signal.
LEMMA EnforcementSignalMode ==
  ASSUME IInv, ModeInv, NEW r \in Rids, EnforcementSignal(r)
  PROVE  ModeInv'
PROOF
<1> DEFINE rest == Tail(dispatcher.signals[r])
           d == [dispatcher EXCEPT !.signals[r] = rest]
<1>1. TypeOK /\ DispatcherOK(dispatcher) /\ dispatcher \in Dispatchers
      /\ r \in InUse /\ Within(dispatcher, InUse)
  BY DispatcherInvariant, InUseAlive
     DEF IInv, EnforcementSignal, ModeInv, DispatcherOK
<1>2. /\ dispatcher.signals[r] \in Seq([stop : BOOLEAN, periodic : BOOLEAN])
      /\ dispatcher.signals[r] # <<>>
  BY <1>1 DEF Dispatchers, EnforcementSignal
<1>3. rest \in Seq([stop : BOOLEAN, periodic : BOOLEAN])
  BY <1>2
<1>4. \/ Depart(d, r, "handler")
      \/ WaitForNextRelease(d, r, "handler")
      \/ /\ task' = [task EXCEPT ![r] = "running"]
         /\ dispatcher' = d
         /\ UNCHANGED <<table, period_timer, critVars>>
  BY DEF EnforcementSignal
<1> HIDE DEF rest
<1>5. DispatcherOK(d)
  BY <1>1, <1>3, SignalsOK
<1>6. Within(d, InUse)
  BY <1>1 DEF Within, Dispatchers
<1> HIDE DEF d
<1>7. CASE Depart(d, r, "handler")
  BY <1>5, <1>6, <1>7, DepartMode DEF Departing
<1>8. CASE WaitForNextRelease(d, r, "handler")
  BY <1>1, <1>5, <1>6, <1>8, WaitForNextReleaseMode
<1>9. CASE /\ task' = [task EXCEPT ![r] = "running"]
           /\ dispatcher' = d
           /\ UNCHANGED <<table, period_timer, critVars>>
  <2>1. TableKept /\ period_timer' \subseteq period_timer
        /\ Within(dispatcher', InUse)
    BY <1>6, <1>9 DEF TableKept
  <2>2. \E s \in {"running", "sleeping", "masked"} : task' = [task EXCEPT ![r] = s]
    BY <1>9
  <2>3. QED
    BY <1>9, <2>1, <2>2, ModeQuiet
<1>10. QED
  BY <1>4, <1>7, <1>8, <1>9

\* The period timer finds the task of its reserve.
LEMMA PeriodTimerMode ==
  ASSUME IInv, ModeInv, NEW r \in Rids, PeriodTimer(r)
  PROVE  ModeInv'
PROOF
<1> DEFINE late == [dispatcher EXCEPT !.enforcement[r] = Off]
           stopped == IF Overrun(r)
                      THEN Stop(BudgetEnforcement(late, r, FALSE), r)
                      ELSE dispatcher
           fresh == [stopped EXCEPT !.current[r] = 0]
           d == ArmZeroSlack(fresh, r)
           starts == ~Suspended(r) /\ Wakes(r)
           Good(e) == DispatcherOK(e) /\ Within(e, InUse)
<1>1. TypeOK /\ Good(dispatcher) /\ InUse \in SUBSET Rids
  BY DispatcherInvariant, InUseAlive DEF IInv, ModeInv
<1>2. r \in InUse /\ Alive(r)
  BY InUseAlive DEF PeriodTimer, ModeInv
<1>3. /\ dispatcher' = IF starts THEN Start(d, priority, r) ELSE d
      /\ task' = IF starts THEN [task EXCEPT ![r] = "running"] ELSE task
      /\ table' = [table EXCEPT ![r] = Arrived(r)]
      /\ UNCHANGED <<period_timer, critVars>>
  BY <1>2 DEF PeriodTimer, StartOfPeriod
<1>4. DispatcherOK(late)
  BY <1>1, EnforcementOffOK
<1>5. Within(late, InUse)
  BY <1>1 DEF Within, DispatcherOK, Dispatchers
<1> HIDE DEF late
<1>6. Good(BudgetEnforcement(late, r, FALSE))
  BY <1>1, <1>2, <1>4, <1>5, BudgetEnforcementOK, BudgetEnforcementWithin,
     ReadyInUse
<1>7. Good(Stop(BudgetEnforcement(late, r, FALSE), r))
  BY <1>1, <1>6, StopOK, StopWithin, ReadyInUse
<1>8. Good(stopped)
  BY <1>1, <1>7
<1> HIDE DEF stopped
<1>9. DispatcherOK(fresh)
  BY <1>8, CurrentZeroOK
<1>10. Within(fresh, InUse)
  BY <1>8 DEF Within, DispatcherOK, Dispatchers
<1> HIDE DEF fresh
<1>11. DispatcherOK(d)
  BY <1>9, ZeroSlackOK
<1>12. Within(d, InUse)
  BY <1>2, <1>9, <1>10 DEF ArmZeroSlack, Within, DispatcherOK, Dispatchers
<1> HIDE DEF d
<1>13. Within(Start(d, priority, r), InUse)
  BY <1>1, <1>2, <1>11, <1>12, ReadyInUse, StartWithin
<1> HIDE DEF starts
<1>14. Within(dispatcher', InUse)
  BY <1>3, <1>12, <1>13
<1>15. TableKept
  BY <1>1, <1>3, ArrivedType DEF TypeOK, TableKept
<1>16. \/ UNCHANGED task
       \/ \E s \in {"running", "sleeping", "masked"} : task' = [task EXCEPT ![r] = s]
  BY <1>3
<1>17. QED
  BY <1>3, <1>14, <1>15, <1>16, ModeQuiet

\* The enforcement timer is that of the head, whose task is there.
LEMMA EnforcementTimerMode ==
  ASSUME IInv, ModeInv, NEW r \in Rids, EnforcementTimer(r)
  PROVE  ModeInv'
PROOF
<1> DEFINE d == [dispatcher EXCEPT !.enforcement[r] = Off]
<1>1. TypeOK /\ DispatcherOK(dispatcher) /\ dispatcher \in Dispatchers
      /\ Within(dispatcher, InUse) /\ InUse \in SUBSET Rids
  BY DispatcherInvariant, InUseAlive DEF IInv, ModeInv, DispatcherOK
<1>2. r \in InUse
  <2>1. dispatcher.enforcement[r] # Off
    BY DEF EnforcementTimer, Off
  <2>2. dispatcher.readyq # <<>> /\ Head(dispatcher.readyq) = r
    BY <1>1, <2>1 DEF DispatcherOK, TimerSound
  <2>3. QED
    BY <1>1, <2>2, ReadyInUse DEF ToSet, Dispatchers
<1>3. /\ dispatcher' = BudgetEnforcement(d, r, TRUE)
      /\ UNCHANGED <<table, task, period_timer, critVars>>
  BY <1>2, InUseAlive DEF EnforcementTimer
<1>4. DispatcherOK(d)
  BY <1>1, EnforcementOffOK
<1>5. Within(d, InUse)
  BY <1>1 DEF Within, Dispatchers
<1> HIDE DEF d
<1>6. Within(dispatcher', InUse)
  BY <1>1, <1>2, <1>3, <1>4, <1>5, BudgetEnforcementWithin, ReadyInUse
<1>7. TableKept
  BY <1>3 DEF TableKept
<1>8. QED
  BY <1>3, <1>6, <1>7, ModeQuiet

\* The zero-slack timer raises the mode to the criticality of the new head of
\* the criticality stack.
LEMMA ZeroSlackTimerMode ==
  ASSUME IInv, ModeInv, NEW r \in Rids, ZeroSlackTimer(r)
  PROVE  ModeInv'
PROOF
<1> DEFINE d == [dispatcher EXCEPT !.zero_slack = @ \ {r}]
           crit == [x \in Rids |-> Criticality(x)]
           t == [table[r] EXCEPT !.in_critical_mode = TRUE]
<1>1. TypeOK /\ dispatcher \in Dispatchers /\ Within(dispatcher, InUse)
      /\ InUse \in SUBSET Rids /\ table[r] \in Reserves
      /\ table \in [Rids -> Reserves] /\ critical_reservesq \in Lists
  BY SpecType, InUseAlive DEF IInv, ModeInv, TypeOK
<1>2. r \in InUse /\ Alive(r)
  BY InUseAlive DEF ZeroSlackTimer, ModeInv, Within
<1>3. Within(d, InUse)
  BY <1>1 DEF Within, Dispatchers
<1>4. UNCHANGED <<period_timer, crit_blockq, task>> /\ dispatcher' = d
  BY <1>2 DEF ZeroSlackTimer
<1>5. t.pid = table[r].pid /\ t.spec = table[r].spec
  BY <1>1 DEF Reserves
<1>6. CASE UNCHANGED <<table, critical_reservesq, sys_criticality>>
  BY <1>3, <1>4, <1>6, ModeQuiet DEF TableKept, critVars
<1>7. CASE /\ table' = [table EXCEPT ![r] = t]
           /\ Criticality(r) >= sys_criticality
           /\ sys_criticality' = Criticality(r)
           /\ critical_reservesq' = AddByCriticality(critical_reservesq, crit, r)
  <2>1. TableKept
    <3> HIDE DEF t
    <3>1. QED
      BY <1>1, <1>5, <1>7 DEF TableKept
  <2>2. crit \in [Rids -> Int] /\ \A x \in Rids : crit[x] = Criticality(x)
    BY <1>1, CriticalityType
  <2> HIDE DEF crit
  <2>3. LinksIn(critical_reservesq', InUse)
    BY <1>1, <1>2, <1>7, AddLinks DEF ModeInv
  <2>4. SysIsTop /\ \A x \in Rids : Criticality(x) \in Nat
    BY <1>1, CriticalityType DEF ModeInv
  <2>5. r # Nil /\ critical_reservesq'.head # Nil
    <3>1. \A x \in Rids : x # Nil
      BY MaxReservesAssumption DEF Rids, Nil
    <3>2. critical_reservesq'.head \in Rids
      BY <1>1, <1>7, <2>2, AddHead
    <3>3. QED
      BY <3>1, <3>2
  <2>6. Criticality(critical_reservesq'.head) = Criticality(r)
    <3>1. CASE critical_reservesq'.head = r
      BY <3>1
    <3>2. CASE /\ critical_reservesq'.head = critical_reservesq.head
               /\ critical_reservesq.head \in Rids
               /\ crit[critical_reservesq.head] >= crit[r]
      <4>1. sys_criticality = Criticality(critical_reservesq.head)
        BY <2>4, <2>5, <3>2 DEF SysIsTop
      <4>2. QED
        BY <1>7, <2>2, <2>4, <3>2, <4>1
    <3>3. QED
      BY <1>1, <1>7, <2>2, <3>1, <3>2, AddHead
  <2>7. sys_criticality' = TopCriticality(critical_reservesq')
    BY <1>7, <2>5, <2>6 DEF TopCriticality
  <2>8. Within(dispatcher', InUse) /\ LinksIn(crit_blockq', InUse)
    BY <1>3, <1>4 DEF ModeInv
  <2>9. QED
    BY <1>4, <2>1, <2>3, <2>7, <2>8, ModeStep
<1>8. QED
  BY <1>2, <1>6, <1>7 DEF ZeroSlackTimer

\* A pop of scheduler_task finds the task of its reserve.
LEMMA SchedulerPopMode ==
  ASSUME IInv, ModeInv, SchedulerPop
  PROVE  ModeInv'
PROOF
<1> DEFINE s == dispatcher.reschedule
           r == Last(s)
           rest == Front(s)
           d == [dispatcher EXCEPT !.reschedule = rest]
           e == [d EXCEPT !.request_stop = @ \ {r}]
           t == [table EXCEPT ![r].enforced = TRUE]
           Good(f) == DispatcherOK(f) /\ Within(f, InUse)
<1>1. /\ TypeOK /\ DispatcherOK(dispatcher) /\ dispatcher \in Dispatchers
      /\ Within(dispatcher, InUse) /\ InUse \in SUBSET Rids
      /\ s \in Seq(InUse) /\ s # <<>> /\ table \in [Rids -> Reserves]
  BY DispatcherInvariant, InUseAlive
     DEF SchedulerPop, DispatcherOK, IInv, ModeInv, Within, TypeOK
<1>2. r \in InUse /\ rest \in Seq(InUse)
  <2> HIDE DEF s
  <2>1. Len(s) \in 1 .. Len(s) /\ \A i \in 1 .. Len(s) : s[i] \in InUse
    BY <1>1
  <2>2. QED
    BY <1>1, <2>1 DEF Last, Front
<1>3. r \in Rids /\ rest \in Seq(Rids) /\ Alive(r)
  <2> HIDE DEF r, rest
  <2>1. QED
    BY <1>1, <1>2, InUseAlive
<1>4. \/ /\ table[r].enforced
         /\ dispatcher' = e
         /\ UNCHANGED <<table, task, period_timer>>
      \/ /\ dispatcher' = Stop(e, r)
         /\ table' = [t EXCEPT ![r].start_period = @ - 1]
         /\ task' = [task EXCEPT ![r] = Sleeping(@)]
         /\ UNCHANGED period_timer
      \/ /\ task' = [task EXCEPT ![r] = "running"]
         /\ dispatcher' = Start(d, priority, r)
         /\ UNCHANGED <<table, period_timer>>
  BY <1>3 DEF SchedulerPop, StopRequested, RestartRequested
<1>5. UNCHANGED critVars
  BY DEF SchedulerPop
<1>6. \A x \in Rids : table[x] \in Reserves
  BY <1>1
<1> HIDE DEF r, rest
<1>7. Good(d)
  <2>1. d \in Dispatchers /\ SameExecution(dispatcher, d)
    BY <1>1, <1>3 DEF Dispatchers, SameExecution
  <2>2. DispatcherOK(d)
    BY <1>1, <2>1, SameExecutionOK
  <2>3. Within(d, InUse)
    BY <1>1, <1>2 DEF Within, Dispatchers
  <2>4. QED
    BY <2>2, <2>3
<1> HIDE DEF d
<1>8. Good(e)
  <2>1. e \in Dispatchers /\ SameExecution(d, e)
    BY <1>7 DEF DispatcherOK, Dispatchers, SameExecution
  <2>2. DispatcherOK(e)
    BY <1>7, <2>1, SameExecutionOK
  <2>3. Within(e, InUse)
    BY <1>7 DEF Within, DispatcherOK, Dispatchers
  <2>4. QED
    BY <2>2, <2>3
<1> HIDE DEF e
<1>9. Within(Stop(e, r), InUse) /\ Within(Start(d, priority, r), InUse)
  BY <1>1, <1>2, <1>7, <1>8, ReadyInUse, StopWithin, StartWithin
<1>10. Within(dispatcher', InUse)
  BY <1>4, <1>8, <1>9
<1>11. TableKept
  <2>1. CASE table' = [t EXCEPT ![r].start_period = @ - 1]
    BY <1>1, <1>6, <2>1 DEF TableKept, Reserves
  <2>2. CASE UNCHANGED table
    BY <2>2 DEF TableKept
  <2>3. QED
    BY <1>4, <2>1, <2>2
<1> HIDE DEF t
<1>12. \/ UNCHANGED task
       \/ \E x \in Rids, v \in {"running", "sleeping", "masked"} :
            task' = [task EXCEPT ![x] = v]
  <2>1. Sleeping(task[r]) \in {"running", "sleeping", "masked"}
    BY DEF Sleeping
  <2>2. QED
    BY <1>3, <1>4, <2>1
<1>13. period_timer' \subseteq period_timer
  BY <1>4
<1>14. QED
  BY <1>5, <1>10, <1>11, <1>12, <1>13, ModeQuiet

\* The loop over crit_blockq resumes or drops one reserve.
LEMMA ReleaseBlockedMode ==
  ASSUME IInv, ModeInv, ReleaseBlocked
  PROVE  ModeInv'
PROOF
<1> DEFINE t == crit_blockq.head
<1>1. /\ TypeOK /\ DispatcherOK(dispatcher) /\ Within(dispatcher, InUse)
      /\ InUse \in SUBSET Rids /\ crit_blockq \in Lists
      /\ LinksIn(crit_blockq, InUse) /\ LinksIn(critical_reservesq, InUse)
      /\ sys_criticality = TopCriticality(critical_reservesq)
  BY DispatcherInvariant, InUseAlive
     DEF IInv, TypeOK, ModeInv, SysIsTop, TopCriticality
<1>2. crit_blockq.head # Nil /\ t \in InUse /\ Alive(t) /\ t \in Rids
  BY <1>1, InUseAlive DEF ReleaseBlocked, MoreBlocked, LinksIn
<1>3. LinksIn(crit_blockq', InUse)
  BY <1>1, <1>2, BeheadLinks DEF ReleaseBlocked
<1>4. /\ UNCHANGED <<table, critical_reservesq, sys_criticality, period_timer>>
      /\ \/ UNCHANGED <<dispatcher, task>>
         \/ /\ task' = [task EXCEPT ![t] = "running"]
            /\ dispatcher' = Start(dispatcher, priority, t)
  BY <1>2 DEF ReleaseBlocked
<1> HIDE DEF t
<1>5. Within(dispatcher', InUse)
  BY <1>1, <1>2, <1>4, ReadyInUse, StartWithin
<1>6. TableKept
  BY <1>4 DEF TableKept
<1>7. sys_criticality' = TopCriticality(critical_reservesq')
  BY <1>1, <1>4
<1>8. \/ UNCHANGED task
      \/ \E x \in Rids, v \in {"running", "sleeping", "masked"} :
           task' = [task EXCEPT ![x] = v]
  BY <1>2, <1>4
<1>9. QED
  BY <1>1, <1>3, <1>4, <1>5, <1>6, <1>7, <1>8, ModeStep

\* The end of a departure.
LEMMA FinishDepartureMode ==
  ASSUME IInv, ModeInv, FinishDeparture
  PROVE  ModeInv'
PROOF
<1>1. /\ TypeOK /\ lock.rid \in Rids /\ table \in [Rids -> Reserves]
      /\ table[lock.rid] \in Reserves
  BY SpecType DEF IInv, TypeOK, Locks
<1>2. TableKept
  BY <1>1 DEF FinishDeparture, TableKept, Reserves
<1>3. Within(dispatcher', InUse) /\ UNCHANGED <<period_timer, critVars>>
  BY DEF FinishDeparture, ModeInv
<1>4. Asleep(lock.by) \in {"running", "sleeping", "masked"}
  BY DEF Asleep
<1>5. \/ UNCHANGED task
      \/ \E x \in Rids, v \in {"running", "sleeping", "masked"} :
           task' = [task EXCEPT ![x] = v]
  BY <1>1, <1>4 DEF FinishDeparture
<1>6. QED
  BY <1>2, <1>3, <1>5, ModeQuiet

\* zs_enforcement blocks members of the ready queue.
LEMMA ZeroSlackScanMode ==
  ASSUME IInv, ScanFromHead, ModeInv, ZeroSlackScan
  PROVE  ModeInv'
PROOF
<1> DEFINE q == dispatcher.readyq
           x == q[lock.at]
           crit == [y \in Rids |-> Criticality(y)]
           d == [dispatcher EXCEPT !.request_stop = @ \cup {x}]
<1>1. /\ dispatcher \in Dispatchers /\ Within(dispatcher, InUse)
      /\ InUse \in SUBSET Rids /\ crit_blockq \in Lists /\ lock.at \in Nat
      /\ q \in Seq(Rids) /\ ToSet(q) \subseteq InUse
      /\ LinksIn(crit_blockq, InUse) /\ LinksIn(critical_reservesq, InUse)
      /\ sys_criticality = TopCriticality(critical_reservesq)
  BY InUseAlive
     DEF IInv, TypeOK, ModeInv, SysIsTop, TopCriticality, Locks, Dispatchers
<1>2. UNCHANGED <<table, task, period_timer, critical_reservesq, sys_criticality>>
  BY DEF ZeroSlackScan
<1>3. TableKept
  BY <1>2 DEF TableKept
<1>4. Within(dispatcher', InUse) /\ LinksIn(crit_blockq', InUse)
  <2>1. CASE /\ dispatcher' \in {WakeScheduler(dispatcher), dispatcher}
             /\ UNCHANGED crit_blockq
    BY <1>1, <2>1, WakeWithin
  <2>2. CASE /\ lock.at <= Len(q)
             /\ dispatcher' = PushToReschedule(d, x)
             /\ crit_blockq' = AddByCriticality(crit_blockq, crit, x)
    <3>1. lock.at \in 1 .. Len(q)
      BY <1>1, <2>2 DEF ScanFromHead, ZeroSlackScan
    <3>2. x \in InUse
      <4> HIDE DEF q
      <4>1. QED
        BY <1>1, <3>1 DEF ToSet
    <3> HIDE DEF x, crit
    <3>3. d \in Dispatchers /\ Within(d, InUse)
      <4>1. x \in Rids
        BY <1>1, <3>2
      <4>2. QED
        BY <1>1, <4>1 DEF Dispatchers, Within
    <3> HIDE DEF d
    <3>4. QED
      BY <1>1, <2>2, <3>2, <3>3, PushWithin, AddLinks
  <2>3. CASE UNCHANGED <<dispatcher, crit_blockq>>
    BY <1>1, <2>3
  <2>4. QED
    BY <2>1, <2>2, <2>3 DEF ZeroSlackScan
<1>5. sys_criticality' = TopCriticality(critical_reservesq')
  BY <1>1, <1>2
<1>6. QED
  BY <1>1, <1>2, <1>3, <1>4, <1>5, ModeStep

\* The steps that move no reserve.
LEMMA RestMode ==
  ASSUME IInv, ModeInv,
         SchedulerUnlock \/ SchedulerSleep \/ Tick \/ UNCHANGED vars
  PROVE  ModeInv'
PROOF
<1>1. dispatcher \in Dispatchers /\ Within(dispatcher, InUse)
  BY DEF IInv, TypeOK, ModeInv
<1>2. UNCHANGED <<table, task, period_timer, critVars>>
  BY DEF SchedulerUnlock, SchedulerSleep, Tick, vars
<1>3. dispatcher'.zero_slack = dispatcher.zero_slack
      /\ dispatcher'.reschedule = dispatcher.reschedule
  BY <1>1 DEF SchedulerUnlock, SchedulerSleep, Tick, vars, Dispatchers
<1>4. Within(dispatcher', InUse) /\ TableKept
  BY <1>1, <1>2, <1>3 DEF Within, TableKept
<1>5. QED
  BY <1>2, <1>4, ModeQuiet

\* Every step keeps the invariant of the criticality mode.
LEMMA ModeNext ==
  ASSUME Undeleted, IInv, IInv', ScanFromHead, ModeInv, [Next]_vars
  PROVE  ModeInv'
PROOF
<1>1. ASSUME NEW r \in Rids,
             SystemCall(r) \/ EnforcementSignal(r) \/ Die(r) \/ Timer(r)
      PROVE  ModeInv'
  <2>1. ~Die(r)
    BY DEF Die, Undeleted
  <2>2. QED
    BY <1>1, <2>1, SystemCallMode, EnforcementSignalMode, PeriodTimerMode,
       EnforcementTimerMode, ZeroSlackTimerMode DEF Timer
<1>2. QED
  BY <1>1, CreateReserveMode, SchedulerPopMode, ReleaseBlockedMode,
     FinishDepartureMode, ZeroSlackScanMode, RestMode
     DEF Next, SchedulerTask, Continue

\* The invariant of the criticality mode holds in every reachable state.
THEOREM ModeInvariance == ASSUME Undeleted PROVE Spec => []ModeInv
PROOF
<1>1. Init => ModeInv
  <2> SUFFICES ASSUME Init PROVE ModeInv
    OBVIOUS
  <2>1. InUse = {}
    BY DEF Init, InUse, Attached, Free
  <2>2. LinksIn(EmptyList, InUse) /\ <<>> \in Seq(InUse)
    BY DEF LinksIn, EmptyList
  <2>3. Within(dispatcher, InUse)
    BY <2>2 DEF Init, Within
  <2>4. QED
    BY <2>1, <2>2, <2>3 DEF Init, ModeInv, SysIsTop, EmptyList
<1>2. IInv /\ IInv' /\ ScanFromHead /\ ModeInv /\ [Next]_vars => ModeInv'
  BY ModeNext
<1>3. QED
  BY <1>1, <1>2, Invariance, PTL DEF Spec

\* sys_criticality is the criticality of the head of the criticality stack, 0
\* if there is none, between any two handlers and between any two steps of
\* their loops (zs_enforcement, wait_for_next_period, end_of_period), while no
\* reserve is deleted and no task exits.
THEOREM SysStaysTop == ASSUME Undeleted PROVE Spec => []SysIsTop
PROOF
<1>1. ModeInv => SysIsTop
  BY DEF ModeInv
<1>2. QED
  BY <1>1, ModeInvariance, PTL

-----------------------------------------------------------------------------
(***************************************************************************)
(* Who enters the ready queue below sys_criticality.  The scheduler thread *)
(* starts a reserve it pops a second time after it has stopped it, so the  *)
(* question is which stop requests are made twice.                         *)
(***************************************************************************)

\* Nothing is deleted, the scheduler thread runs once it is woken, and no task
\* calls end_of_period or wait_for_next_release.
PeriodicTable == Undeleted /\ SchedFirst /\ "release" \notin Calls

\* No reserve is attached below the mode.
AttachesAbove ==
  \A r \in Rids : AttachReserve(r) => Criticality(r) >= sys_criticality

Low(r) == Criticality(r) < sys_criticality

\* The ready reserves below the mode that are still to be stopped.
Doomed == {r \in Ready : Low(r) /\ ~table[r].enforced}

Requested == ToSet(dispatcher.reschedule)

\* The links of l never lead to a more critical reserve.
Falling(l) ==
  \A r \in Rids : l.next[r] # Nil => Criticality(l.next[r]) <= Criticality(r)

\* No signal was sent to a job that had been ended by end_of_period.
AllPeriodic(d) ==
  \A r \in Rids : \A i \in DOMAIN d.signals[r] : d.signals[r][i].periodic

\* The scheduler thread is awake if it has something to do.
Watched(d) ==
  /\ d.sched_task # "leaving"
  /\ d.reschedule # <<>> => d.sched_task = "running"

Watching ==
  /\ dispatcher.reschedule # <<>> =>
       dispatcher.sched_task = "running" \/ (lock.by = "zs" /\ lock.wake)
  /\ lock.by = "zs" => dispatcher.sched_task = "asleep"
  /\ dispatcher.sched_task = "leaving" => lock.by = "free"

\* A request about a reserve below the mode finds it ready, and stops it if it
\* is still to be stopped.
LowRequests ==
  \A r \in Requested : Low(r) =>
    r \in Ready /\ (r \in Doomed => r \in dispatcher.request_stop)

\* While a ready reserve is to be stopped, the requests are about different
\* reserves of the ready queue, in its order.
RequestsInOrder ==
  Doomed # {} \/ lock.by = "zs" =>
    /\ Requested \subseteq Ready
    /\ OrderedBy(dispatcher.reschedule, Higher(priority))

\* The loop of zs_enforcement has requested it, or comes to it.
DoomedRequested ==
  \A r \in Doomed :
    \/ r \in Requested
    \/ /\ lock.by = "zs"
       /\ \E k \in DOMAIN dispatcher.readyq :
            k >= lock.at /\ dispatcher.readyq[k] = r

\* The requests of zs_enforcement are about reserves it has passed.
ScanRequests ==
  lock.by = "zs" =>
    /\ Len(dispatcher.reschedule) < lock.at
    /\ \A r \in Requested : \E k \in DOMAIN dispatcher.readyq :
         k < lock.at /\ dispatcher.readyq[k] = r

\* The inductive invariant.
BlockInv ==
  /\ Unmarked /\ AllPeriodic(dispatcher)
  /\ Falling(critical_reservesq)
  /\ Watching
  /\ LowRequests
  /\ RequestsInOrder
  /\ DoomedRequested
  /\ ScanRequests
  /\ lock.by \in Departing => Doomed = {}

\* From d to e the head of e is asked to stop, or nothing is asked.
Asks(d, e) ==
  \/ /\ e.reschedule = d.reschedule
     /\ e.request_stop = d.request_stop
     /\ e.sched_task = d.sched_task
  \/ /\ e.readyq # <<>>
     /\ e.reschedule \in {d.reschedule, Append(d.reschedule, Head(e.readyq))}
     /\ e.request_stop = d.request_stop \cup {Head(e.readyq)}
     /\ e.sched_task = IF d.sched_task = "asleep" THEN "running" ELSE d.sched_task

\* budget_enforcement signals the task of r or asks for it to be stopped.
LEMMA BudgetEnforcementAsks ==
  ASSUME TypeOK, Unmarked, NEW d \in Dispatchers, NEW r \in Rids,
         NEW stop \in BOOLEAN, AllPeriodic(d)
  PROVE  LET e == BudgetEnforcement(d, r, stop)
         IN /\ AllPeriodic(e)
            /\ \/ /\ e.reschedule = d.reschedule
                  /\ e.request_stop = d.request_stop
                  /\ e.sched_task = d.sched_task
               \/ /\ stop
                  /\ e.reschedule \in {d.reschedule, Append(d.reschedule, r)}
                  /\ e.request_stop = d.request_stop \cup {r}
                  /\ e.sched_task = IF d.sched_task = "asleep" THEN "running"
                                    ELSE d.sched_task
PROOF
<1> DEFINE e == [d EXCEPT !.zero_slack = @ \ {r}]
           signal == [stop |-> stop, periodic |-> ~table[r].end_of_period_marked]
           f == [e EXCEPT !.request_stop = @ \cup {r}]
           g == [e EXCEPT !.signals[r] = Append(@, signal)]
           s == IF Len(d.reschedule) < MaxReserves THEN Append(d.reschedule, r)
                ELSE d.reschedule
           p == [f EXCEPT !.reschedule = s]
           w == WakeScheduler(p)
<1>1. /\ e \in Dispatchers /\ e.signals = d.signals
      /\ e.reschedule = d.reschedule /\ e.request_stop = d.request_stop
      /\ e.sched_task = d.sched_task
  BY DEF Dispatchers
<1>2. signal \in [stop : BOOLEAN, periodic : BOOLEAN] /\ signal.periodic
  <2>1. table[r].end_of_period_marked \in BOOLEAN
    BY SpecType DEF Reserves
  <2>2. QED
    BY <2>1 DEF Unmarked
<1>3. \/ BudgetEnforcement(d, r, stop) = e
      \/ BudgetEnforcement(d, r, stop) = g
      \/ stop /\ BudgetEnforcement(d, r, stop) = WakeScheduler(PushToReschedule(f, r))
  BY DEF BudgetEnforcement
<1> HIDE DEF e, signal
<1>4. /\ f \in Dispatchers /\ f.signals = d.signals
      /\ f.reschedule = d.reschedule
      /\ f.request_stop = d.request_stop \cup {r}
      /\ f.sched_task = d.sched_task
  BY <1>1 DEF Dispatchers
<1>5. /\ g.reschedule = d.reschedule /\ g.request_stop = d.request_stop
      /\ g.sched_task = d.sched_task /\ AllPeriodic(g)
  <2> DEFINE a == Append(d.signals[r], signal)
  <2>1. /\ d.signals \in [Rids -> Seq([stop : BOOLEAN, periodic : BOOLEAN])]
        /\ e.signals = d.signals
    BY <1>1 DEF Dispatchers
  <2>2. \A i \in DOMAIN a : a[i].periodic
    BY <1>2, <2>1 DEF AllPeriodic
  <2> HIDE DEF a
  <2>3. g.signals = [d.signals EXCEPT ![r] = a]
    BY <1>1, <2>1 DEF Dispatchers, a
  <2>4. AllPeriodic(g)
    BY <2>1, <2>2, <2>3 DEF AllPeriodic
  <2>5. g.reschedule = e.reschedule /\ g.request_stop = e.request_stop
        /\ g.sched_task = e.sched_task
    BY <1>1 DEF Dispatchers
  <2>6. QED
    BY <1>1, <2>4, <2>5
<1>6. PushToReschedule(f, r) = p
  BY <1>4 DEF PushToReschedule
<1>7. s \in {d.reschedule, Append(d.reschedule, r)} /\ s \in Seq(Rids)
  BY DEF Dispatchers
<1> HIDE DEF f, s, g
<1>8. /\ p \in Dispatchers /\ p.signals = d.signals /\ p.reschedule = s
      /\ p.request_stop = d.request_stop \cup {r} /\ p.sched_task = d.sched_task
  BY <1>4, <1>7 DEF Dispatchers
<1> HIDE DEF p
<1>9. /\ w.signals = d.signals /\ w.reschedule = s
      /\ w.request_stop = d.request_stop \cup {r}
      /\ w.sched_task = IF d.sched_task = "asleep" THEN "running" ELSE d.sched_task
  BY <1>8 DEF WakeScheduler, Dispatchers
<1> HIDE DEF w
<1>10. AllPeriodic(w)
  BY <1>9 DEF AllPeriodic
<1>11. AllPeriodic(e)
  BY <1>1 DEF AllPeriodic
<1>12. \/ BudgetEnforcement(d, r, stop) = e
       \/ BudgetEnforcement(d, r, stop) = g
       \/ stop /\ BudgetEnforcement(d, r, stop) = w
  BY <1>3, <1>6 DEF w
<1>13. QED
  BY <1>1, <1>5, <1>7, <1>9, <1>10, <1>11, <1>12

\* Starting the head may ask for it to be stopped.
LEMMA StartHeadAsks ==
  ASSUME TypeOK, Unmarked, NEW d \in Dispatchers, AllPeriodic(d)
  PROVE  AllPeriodic(StartHead(d)) /\ Asks(d, StartHead(d))
PROOF
<1> DEFINE h == Head(d.readyq)
           zero == 0
           e == [d EXCEPT !.elapsed = zero]
           left == table[h].spec.exectime - d.current[h]
           f == [e EXCEPT !.enforcement[h] = left]
           b == BudgetEnforcement(e, h, TRUE)
           Same(x) == /\ x.reschedule = d.reschedule
                      /\ x.request_stop = d.request_stop
                      /\ x.sched_task = d.sched_task
                      /\ x.signals = d.signals
<1>1. zero \in 0 .. MaxTicks
  BY ConstantsAssumption
<1>2. \/ StartHead(d) \in {e, f}
      \/ d.readyq # <<>> /\ StartHead(d) = b
  BY DEF StartHead
<1>3. d.readyq # <<>> => h \in Rids
  BY DEF Dispatchers
<1> HIDE DEF zero
<1>4. e \in Dispatchers /\ Same(e) /\ e.readyq = d.readyq
  BY <1>1 DEF Dispatchers
<1> HIDE DEF e, left
<1>5. Same(f)
  BY <1>4 DEF Dispatchers
<1> HIDE DEF f
<1>6. AllPeriodic(e) /\ AllPeriodic(f)
  BY <1>4, <1>5 DEF AllPeriodic
<1>7. CASE StartHead(d) \in {e, f}
  BY <1>4, <1>5, <1>6, <1>7 DEF Asks
<1>8. CASE d.readyq # <<>> /\ StartHead(d) = b
  <2>1. /\ AllPeriodic(b)
        /\ \/ /\ b.reschedule = e.reschedule
              /\ b.request_stop = e.request_stop
              /\ b.sched_task = e.sched_task
           \/ /\ b.reschedule \in {e.reschedule, Append(e.reschedule, h)}
              /\ b.request_stop = e.request_stop \cup {h}
              /\ b.sched_task = IF e.sched_task = "asleep" THEN "running"
                                ELSE e.sched_task
    BY <1>3, <1>4, <1>6, <1>8, BudgetEnforcementAsks
  <2>2. b.readyq = d.readyq
    BY <1>3, <1>4, <1>8, BudgetEnforcementType DEF SameExecution
  <2> HIDE DEF b
  <2>3. QED
    BY <1>4, <1>8, <2>1, <2>2 DEF Asks
<1>9. QED
  BY <1>2, <1>7, <1>8

\* So may starting a reserve.
LEMMA StartAsks ==
  ASSUME TypeOK, Unmarked, NEW d \in Dispatchers, AllPeriodic(d), NEW prio,
         NEW r \in Rids
  PROVE  AllPeriodic(Start(d, prio, r)) /\ Asks(d, Start(d, prio, r))
PROOF
<1> DEFINE e == IF d.readyq = <<>> THEN d ELSE ChargeHead(d)
           lower == {x \in Rids : prio[x] < prio[r]}
           q == Enqueue(d.readyq, lower, r)
           f == [e EXCEPT !.readyq = q]
           Same(x) == /\ x.reschedule = d.reschedule
                      /\ x.request_stop = d.request_stop
                      /\ x.sched_task = d.sched_task
                      /\ x.signals = d.signals
<1>1. e \in Dispatchers /\ e.readyq = d.readyq
  BY ChargeHeadType
<1>2. Same(e)
  BY DEF ChargeHead, Dispatchers
<1>3. q \in Seq(Rids)
  BY EnqueueMembers DEF Dispatchers
<1>4. Start(d, prio, r) \in {d, StartHead(f)}
  BY <1>1 DEF Start
<1> HIDE DEF e, q
<1>5. f \in Dispatchers /\ Same(f)
  BY <1>1, <1>2, <1>3 DEF Dispatchers
<1> HIDE DEF f
<1>6. AllPeriodic(f)
  BY <1>5 DEF AllPeriodic
<1>7. AllPeriodic(StartHead(f)) /\ Asks(f, StartHead(f))
  BY <1>5, <1>6, StartHeadAsks
<1>8. Asks(d, StartHead(f))
  BY <1>5, <1>7 DEF Asks
<1>9. Asks(d, d)
  BY DEF Asks
<1>10. QED
  BY <1>4, <1>7, <1>8, <1>9

\* And stopping one, if it is the head: of the next.
LEMMA StopAsks ==
  ASSUME TypeOK, Unmarked, NEW d \in Dispatchers, AllPeriodic(d), NEW r
  PROVE  /\ AllPeriodic(Stop(d, r)) /\ Asks(d, Stop(d, r))
         /\ ~(d.readyq # <<>> /\ Head(d.readyq) = r) =>
              /\ Stop(d, r).reschedule = d.reschedule
              /\ Stop(d, r).request_stop = d.request_stop
              /\ Stop(d, r).sched_task = d.sched_task
PROOF
<1> DEFINE q == Tail(d.readyq)
           e == ChargeHead(d)
           f == [e EXCEPT !.readyq = q]
           Same(x) == /\ x.reschedule = d.reschedule
                      /\ x.request_stop = d.request_stop
                      /\ x.sched_task = d.sched_task
                      /\ x.signals = d.signals
<1>1. CASE d.readyq # <<>> /\ Head(d.readyq) = r
  <2>1. e \in Dispatchers /\ e.readyq = d.readyq
    BY <1>1, ChargeHeadType
  <2>2. Same(e)
    BY DEF ChargeHead, Dispatchers
  <2>3. q \in Seq(Rids)
    BY <1>1 DEF Dispatchers
  <2>4. Stop(d, r) = StartHead(f)
    BY <1>1, <2>1 DEF Stop
  <2> HIDE DEF e, q
  <2>5. f \in Dispatchers /\ Same(f)
    BY <2>1, <2>2, <2>3 DEF Dispatchers
  <2> HIDE DEF f
  <2>6. AllPeriodic(f)
    BY <2>5 DEF AllPeriodic
  <2>7. AllPeriodic(StartHead(f)) /\ Asks(f, StartHead(f))
    BY <2>5, <2>6, StartHeadAsks
  <2>8. QED
    BY <1>1, <2>4, <2>5, <2>7 DEF Asks
<1>2. CASE ~(d.readyq # <<>> /\ Head(d.readyq) = r)
  <2> DEFINE e2 == Stop(d, r)
  <2>1. Same(e2)
    BY <1>2 DEF Stop, Dispatchers
  <2> HIDE DEF e2
  <2>2. AllPeriodic(e2) /\ Asks(d, e2)
    BY <2>1 DEF AllPeriodic, Asks
  <2>3. QED
    BY <2>1, <2>2 DEF e2
<1>3. QED
  BY <1>1, <1>2

\* What a request adds to the stack.
LEMMA AppendMembers ==
  ASSUME NEW S, NEW s \in Seq(S), NEW x \in S
  PROVE  ToSet(Append(s, x)) = ToSet(s) \cup {x}
PROOF
<1> DEFINE a == Append(s, x)
<1>1. /\ DOMAIN a = 1 .. Len(s) + 1 /\ DOMAIN s = 1 .. Len(s) /\ Len(s) \in Nat
      /\ a[Len(s) + 1] = x
      /\ \A i \in 1 .. Len(s) : a[i] = s[i]
  OBVIOUS
<1> HIDE DEF a
<1>2. ToSet(a) \subseteq ToSet(s) \cup {x}
  <2> SUFFICES ASSUME NEW i \in 1 .. Len(s) + 1 PROVE a[i] \in ToSet(s) \cup {x}
    BY <1>1 DEF ToSet
  <2>1. i \in 1 .. Len(s) \/ i = Len(s) + 1
    BY <1>1
  <2>2. QED
    BY <1>1, <2>1 DEF ToSet
<1>3. x \in ToSet(a)
  <2>1. Len(s) + 1 \in DOMAIN a
    BY <1>1
  <2>2. QED
    BY <1>1, <2>1 DEF ToSet
<1>4. ToSet(s) \subseteq ToSet(a)
  <2> SUFFICES ASSUME NEW i \in 1 .. Len(s) PROVE s[i] \in ToSet(a)
    BY <1>1 DEF ToSet
  <2>1. i \in DOMAIN a /\ a[i] = s[i]
    BY <1>1
  <2>2. QED
    BY <2>1 DEF ToSet
<1>5. QED
  BY <1>2, <1>3, <1>4 DEF a

\* The scheduler thread is told of every request.
LEMMA AsksWatched ==
  ASSUME NEW d \in Dispatchers, NEW e \in Dispatchers, Asks(d, e)
  PROVE  /\ Watched(d) => Watched(e)
         /\ \A x \in ToSet(e.reschedule) :
              x \in ToSet(d.reschedule) \/ x \in ToSet(e.readyq)
PROOF
<1>1. d.reschedule \in Seq(Rids) /\ e.readyq \in Seq(Rids)
      /\ d.sched_task \in {"asleep", "running", "leaving"}
  BY DEF Dispatchers
<1>2. Watched(d) => Watched(e)
  BY <1>1 DEF Asks, Watched
<1>3. CASE e.reschedule = d.reschedule
  BY <1>2, <1>3
<1>4. CASE e.readyq # <<>> /\ e.reschedule = Append(d.reschedule, Head(e.readyq))
  <2>1. Head(e.readyq) \in ToSet(e.readyq) /\ Head(e.readyq) \in Rids
    BY <1>1, <1>4 DEF ToSet
  <2>2. ToSet(e.reschedule) = ToSet(d.reschedule) \cup {Head(e.readyq)}
    BY <1>1, <1>4, <2>1, AppendMembers
  <2>3. QED
    BY <1>2, <2>1, <2>2
<1>5. QED
  BY <1>3, <1>4 DEF Asks

\* A queue that holds no reserve twice is no longer than the table.
LEMMA DistinctBounded ==
  ASSUME NEW q \in Seq(Rids), Distinct(q)
  PROVE  Len(q) <= MaxReserves
PROOF
<1> DEFINE n == Len(q)
<1>1. n \in Nat /\ q \in [1 .. n -> Rids]
  OBVIOUS
<1>2. \A i, j \in 1 .. n : q[i] = q[j] => i = j
  BY <1>1 DEF Distinct
<1>3. q \in Injection(1 .. n, Rids)
  BY <1>1, <1>2 DEF Injection, IsInjective
<1>4. /\ IsFiniteSet(Rids) /\ Cardinality(Rids) = MaxReserves
      /\ Cardinality(1 .. n) = n
  <2>1. /\ IsFiniteSet(0 .. MaxReserves - 1)
        /\ Cardinality(0 .. MaxReserves - 1) = MaxReserves
    BY FS_Interval, MaxReservesAssumption
  <2>2. Cardinality(1 .. n) = n
    BY <1>1, FS_Interval
  <2>3. QED
    BY <2>1, <2>2 DEF Rids
<1> HIDE DEF n
<1>5. Cardinality(1 .. n) <= Cardinality(Rids)
  BY <1>3, <1>4, FS_Injection
<1>6. QED
  BY <1>4, <1>5 DEF n

\* An insertion keeps the criticality stack sorted, link by link, even when r
\* is in it already.
LEMMA AddFalling ==
  ASSUME TypeOK, NEW l \in Lists, Falling(l), NEW r \in Rids, NEW crit,
         crit = [x \in Rids |-> Criticality(x)]
  PROVE  Falling(AddByCriticality(l, crit, r))
PROOF
<1> DEFINE next == [l.next EXCEPT ![r] = Nil]
           hop == [t \in Rids |->
                     IF t # r /\ next[t] # Nil /\ crit[next[t]] > crit[r]
                     THEN next[t] ELSE Nil]
           ends == {t \in ReachedFrom(hop, l.head) : hop[t] = Nil}
           place == CHOOSE t \in ends : TRUE
           linked == [next EXCEPT ![r] = next[place], ![place] = r]
           first == [next EXCEPT ![r] = l.head]
           N == [Rids -> Rids \cup {Nil}]
           Falls(n) == \A x \in Rids : n[x] # Nil => crit[n[x]] <= crit[x]
<1>1. /\ l.next \in N /\ l.head \in Rids \cup {Nil}
      /\ crit \in [Rids -> Nat]
      /\ \A x \in Rids : crit[x] = Criticality(x)
  BY CriticalityType DEF Lists
<1>2. ASSUME NEW m, m.next \in N, Falls(m.next)
      PROVE  Falling(m)
  BY <1>1, <1>2 DEF Falling
<1>3. next \in N /\ Falls(next)
  <2>1. \A x \in Rids : next[x] = IF x = r THEN Nil ELSE l.next[x]
    BY <1>1
  <2>2. \A x \in Rids : l.next[x] # Nil =>
          l.next[x] \in Rids /\ crit[l.next[x]] <= crit[x]
    BY <1>1 DEF Falling
  <2>3. next \in N
    BY <1>1
  <2> HIDE DEF next
  <2>4. QED
    BY <2>1, <2>2, <2>3
<1>4. AddByCriticality(l, crit, r) =
        IF l.head = Nil THEN [head |-> r, next |-> next]
        ELSE IF crit[l.head] < crit[r] THEN [head |-> r, next |-> first]
        ELSE IF ends = {} \/ r \in ends THEN [l EXCEPT !.next = next]
        ELSE [l EXCEPT !.next = linked]
  BY DEF AddByCriticality
<1>5. ASSUME l.head # Nil, crit[l.head] < crit[r]
      PROVE  first \in N /\ Falls(first)
  <2> HIDE DEF next
  <2>1. \A x \in Rids : first[x] = IF x = r THEN l.head ELSE next[x]
    BY <1>3
  <2>2. first \in N
    BY <1>1, <1>3
  <2>3. l.head \in Rids /\ crit[l.head] \in Nat /\ crit[r] \in Nat
    BY <1>1, <1>5
  <2> HIDE DEF first
  <2>4. QED
    BY <1>3, <1>5, <2>1, <2>2, <2>3
<1>6. ASSUME l.head # Nil, ~(crit[l.head] < crit[r]), ends # {}, r \notin ends
      PROVE  linked \in N /\ Falls(linked)
  <2> DEFINE S == {x \in Rids : crit[x] >= crit[r]}
  <2>1. l.head \in S
    BY <1>1, <1>6
  <2>2. \A t \in S : hop[t] # Nil => hop[t] \in S
    <3> SUFFICES ASSUME NEW t \in S, hop[t] # Nil PROVE hop[t] \in S
      OBVIOUS
    <3>1. t \in Rids
      OBVIOUS
    <3> HIDE DEF next
    <3>2. hop[t] = next[t] /\ next[t] # Nil /\ crit[next[t]] > crit[r]
      BY <3>1
    <3>3. next[t] \in Rids
      BY <1>3, <3>1, <3>2
    <3>4. crit[next[t]] \in Nat /\ crit[r] \in Nat
      BY <1>1, <3>3
    <3> HIDE DEF hop
    <3>5. QED
      BY <3>2, <3>3, <3>4
  <2>3. ReachedFrom(hop, l.head) \subseteq S
    <3> HIDE DEF hop
    <3>1. S \in SUBSET Rids
      OBVIOUS
    <3> HIDE DEF S
    <3>2. QED
      BY <2>1, <2>2, <3>1 DEF ReachedFrom
  <2>4. place \in ends
    BY <1>6
  <2>5. /\ place \in S /\ place \in Rids /\ place # r /\ hop[place] = Nil
    <3> HIDE DEF hop, S, place
    <3>1. place \in ReachedFrom(hop, l.head) /\ hop[place] = Nil
      BY <2>4
    <3>2. place \in S /\ place # r
      BY <1>6, <2>3, <2>4, <3>1
    <3>3. QED
      BY <3>1, <3>2 DEF S
  <2> HIDE DEF next, place
  <2>6. ~(next[place] # Nil /\ crit[next[place]] > crit[r])
    <3>1. Nil \notin Rids
      BY MaxReservesAssumption DEF Rids, Nil
    <3>2. hop[place] = IF place # r /\ next[place] # Nil
                            /\ crit[next[place]] > crit[r]
                       THEN next[place] ELSE Nil
      BY <2>5
    <3>3. QED
      BY <2>5, <3>2
  <2>7. next[place] # Nil => crit[next[place]] <= crit[r]
    <3>1. next[place] \in Rids \cup {Nil}
      BY <1>3, <2>5
    <3>2. next[place] # Nil => crit[next[place]] \in Nat /\ crit[r] \in Nat
      BY <1>1, <3>1
    <3>3. QED
      BY <2>6, <3>2
  <2>8. \A x \in Rids : linked[x] = IF x = place THEN r
                                    ELSE IF x = r THEN next[place] ELSE next[x]
    BY <1>3, <2>5
  <2>9. linked \in N
    BY <1>3, <2>5
  <2>10. crit[r] <= crit[place]
    BY <1>1, <2>5
  <2> HIDE DEF linked
  <2>11. QED
    BY <1>3, <2>7, <2>8, <2>9, <2>10
<1> HIDE DEF next, ends, linked, first, hop, place
<1>7. ASSUME NEW n \in N, Falls(n)
      PROVE  Falling([head |-> r, next |-> n]) /\ Falling([l EXCEPT !.next = n])
  <2>1. [head |-> r, next |-> n].next = n /\ [l EXCEPT !.next = n].next = n
    BY DEF Lists
  <2>2. QED
    BY <1>2, <1>7, <2>1
<1>8. QED
  BY <1>3, <1>4, <1>5, <1>6, <1>7

-----------------------------------------------------------------------------
\* Whatever enters the ready queue is not below the mode.
EntersAbove ==
  \A r \in Rids : Enters(r) => Criticality(r) >= sys_criticality

\* A step after which no ready reserve is to be stopped.
LEMMA Undoomed ==
  ASSUME Unmarked', AllPeriodic(dispatcher'), Falling(critical_reservesq)',
         Watching', Doomed' = {}, lock'.by # "zs",
         \A r \in Requested' : Low(r)' => r \in Ready'
  PROVE  BlockInv'
PROOF
<1>1. LowRequests' /\ RequestsInOrder' /\ DoomedRequested' /\ ScanRequests'
  BY DEF LowRequests, RequestsInOrder, DoomedRequested, ScanRequests
<1>2. AllPeriodic(dispatcher)'
  BY DEF AllPeriodic
<1>3. QED
  BY <1>1, <1>2 DEF BlockInv

\* The links of the criticality stack fall as long as neither they nor the
\* parameters of the reserves change.
LEMMA FallingKept ==
  ASSUME TypeOK, Falling(critical_reservesq),
         \A r \in Rids : table'[r].spec = table[r].spec,
         critical_reservesq'.next = critical_reservesq.next
  PROVE  /\ Falling(critical_reservesq)'
         /\ \A r \in Rids : Criticality(r)' = Criticality(r)
PROOF
<1>1. \A r \in Rids : Criticality(r)' = Criticality(r)
  BY DEF Criticality
<1>2. \A r \in Rids : critical_reservesq.next[r] \in Rids \cup {Nil}
  BY DEF TypeOK, Lists
<1>3. \A r \in Rids : critical_reservesq'.next[r] # Nil =>
        /\ critical_reservesq'.next[r] = critical_reservesq.next[r]
        /\ critical_reservesq.next[r] \in Rids
        /\ Criticality(critical_reservesq.next[r]) <= Criticality(r)
  BY <1>2 DEF Falling
<1>4. \A r \in Rids : critical_reservesq'.next[r] # Nil =>
        table'[critical_reservesq'.next[r]].spec.criticality
          <= table'[r].spec.criticality
  BY <1>3 DEF Criticality
<1>5. Falling(critical_reservesq)'
  BY <1>4 DEF Falling, Criticality
<1>6. QED
  BY <1>1, <1>5

\* A step of a handler that lowers the mode if it changes it, and adds to the
\* ready queue what is not below the mode.
LEMMA QuietBlock ==
  ASSUME TypeOK, TypeOK', BlockInv, Doomed = {},
         \A r \in Rids : table'[r].spec = table[r].spec,
         critical_reservesq'.next = critical_reservesq.next,
         sys_criticality' <= sys_criticality,
         Unmarked', AllPeriodic(dispatcher'), Watching', lock'.by # "zs",
         \A r \in ToSet(dispatcher'.readyq) :
           \/ Criticality(r) >= sys_criticality
           \/ r \in Ready /\ table'[r].enforced = table[r].enforced,
         \A r \in ToSet(dispatcher'.reschedule) :
           \/ Criticality(r) >= sys_criticality
           \/ r \in ToSet(dispatcher'.readyq)
  PROVE  BlockInv' /\ EntersAbove
PROOF
<1>1. /\ sys_criticality \in Nat /\ sys_criticality' \in Nat
      /\ \A r \in Rids : Criticality(r) \in Nat
  BY CriticalityType DEF TypeOK
<1>2. /\ Falling(critical_reservesq)'
      /\ \A r \in Rids : Criticality(r)' = Criticality(r)
  BY FallingKept DEF BlockInv
<1>3. /\ Ready' = ToSet(dispatcher'.readyq)
      /\ Requested' = ToSet(dispatcher'.reschedule)
  BY DEF Ready, Requested, ToSet
<1>4. Ready' \subseteq Rids /\ Requested' \subseteq Rids
  <2>1. dispatcher'.readyq \in Seq(Rids) /\ dispatcher'.reschedule \in Seq(Rids)
    BY DEF TypeOK, Dispatchers
  <2>2. QED
    BY <1>3, <2>1 DEF ToSet
<1>5. \A r \in Rids : Low(r)' => Low(r)
  <2>1. \A r \in Rids : Low(r)' <=> Criticality(r)' < sys_criticality'
    BY DEF Low
  <2>2. QED
    BY <1>1, <1>2, <2>1 DEF Low
<1>6. \A r \in Rids : Low(r) => ~(Criticality(r) >= sys_criticality)
  BY <1>1 DEF Low
<1>7. Doomed' = {}
  <2> SUFFICES ASSUME NEW r \in Doomed' PROVE FALSE
    OBVIOUS
  <2>1. r \in Ready' /\ Low(r)' /\ ~table'[r].enforced
    BY DEF Doomed
  <2>2. r \in Rids /\ Low(r)
    BY <1>4, <1>5, <2>1
  <2>3. r \in Ready /\ ~table[r].enforced
    BY <1>3, <1>6, <2>1, <2>2
  <2>4. QED
    BY <2>2, <2>3 DEF Doomed
<1>8. \A r \in Requested' : Low(r)' => r \in Ready'
  BY <1>3, <1>4, <1>5, <1>6
<1>9. EntersAbove
  BY <1>1, <1>3 DEF EntersAbove, Enters
<1>10. QED
  BY <1>2, <1>7, <1>8, <1>9, Undoomed

\* What a handler finds when it takes zsrmlock.
LEMMA EnterMeans ==
  ASSUME TypeOK, SchedFirst, BlockInv, Enter
  PROVE  /\ lock.by = "free"
         /\ dispatcher.reschedule = <<>> /\ Requested = {}
         /\ Doomed = {}
         /\ dispatcher.sched_task = "asleep" /\ Watched(dispatcher)
PROOF
<1>1. lock.by = "free" /\ dispatcher.sched_task = "asleep"
  BY DEF Enter
<1>2. dispatcher.reschedule = <<>>
  BY <1>1 DEF BlockInv, Watching
<1>3. Requested = {}
  BY <1>2 DEF Requested, ToSet
<1>4. Doomed = {}
  BY <1>1, <1>3 DEF BlockInv, DoomedRequested
<1>5. QED
  BY <1>1, <1>2, <1>3, <1>4 DEF Watched

\* The dispatcher at any point of a handler: the scheduler thread is told of
\* the requests, which are about ready reserves.
Handled(d) ==
  /\ d \in Dispatchers
  /\ AllPeriodic(d)
  /\ Watched(d)
  /\ ToSet(d.reschedule) \subseteq ToSet(d.readyq)

\* The requests are all that Handled asks about.
LEMMA HandledSame ==
  ASSUME NEW d, Handled(d), NEW e \in Dispatchers,
         e.readyq = d.readyq, e.reschedule = d.reschedule,
         e.sched_task = d.sched_task, e.signals = d.signals
  PROVE  Handled(e)
PROOF
BY DEF Handled, AllPeriodic, Watched

\* Starting a reserve keeps it so.
LEMMA StartHandled ==
  ASSUME TypeOK, Unmarked, NEW d, Handled(d), NEW prio \in [Rids -> Int],
         NEW r \in Rids
  PROVE  /\ Handled(Start(d, prio, r))
         /\ ToSet(Start(d, prio, r).readyq) = ToSet(d.readyq) \cup {r}
PROOF
<1> DEFINE e == Start(d, prio, r)
<1>1. d \in Dispatchers /\ AllPeriodic(d)
  BY DEF Handled
<1>2. e \in Dispatchers /\ ToSet(e.readyq) = ToSet(d.readyq) \cup {r}
  BY <1>1, StartType
<1>3. AllPeriodic(e) /\ Asks(d, e)
  BY <1>1, StartAsks
<1> HIDE DEF e
<1>4. QED
  BY <1>1, <1>2, <1>3, AsksWatched DEF Handled, e

\* And so does stopping one, if nothing has been requested yet.
LEMMA StopHandled ==
  ASSUME TypeOK, Unmarked, NEW d, Handled(d), d.reschedule = <<>>,
         Distinct(d.readyq), NEW r \in Rids
  PROVE  /\ Handled(Stop(d, r))
         /\ ToSet(Stop(d, r).readyq) = ToSet(d.readyq) \ {r}
PROOF
<1> DEFINE e == Stop(d, r)
<1>1. d \in Dispatchers /\ AllPeriodic(d) /\ d.readyq \in Seq(Rids)
  BY DEF Handled, Dispatchers
<1>2. e \in Dispatchers /\ ToSet(e.readyq) = ToSet(d.readyq) \ {r}
  BY <1>1, StopType, DequeueProperties
<1>3. AllPeriodic(e) /\ Asks(d, e)
  BY <1>1, StopAsks
<1>4. ToSet(d.reschedule) = {}
  BY DEF ToSet
<1> HIDE DEF e
<1>5. QED
  BY <1>1, <1>2, <1>3, <1>4, AsksWatched DEF Handled, e

\* A dispatcher left by a handler that releases zsrmlock or goes on departing.
LEMMA HandledWatching ==
  ASSUME Handled(dispatcher'), lock'.by # "zs"
  PROVE  Watching' /\ AllPeriodic(dispatcher')
PROOF
BY DEF Handled, Watched, Watching

\* The dispatcher that a handler finds.
LEMMA EnterHandled ==
  ASSUME IInv, SchedFirst, BlockInv, Enter
  PROVE  /\ TypeOK /\ Unmarked /\ Doomed = {}
         /\ Handled(dispatcher) /\ DispatcherOK(dispatcher)
         /\ dispatcher.reschedule = <<>> /\ Distinct(dispatcher.readyq)
         /\ ToSet(dispatcher.readyq) = Ready /\ Ready \subseteq Rids
         /\ lock.by = "free"
PROOF
<1>1. TypeOK /\ Unmarked /\ DispatcherOK(dispatcher) /\ AllPeriodic(dispatcher)
  BY DispatcherInvariant DEF IInv, BlockInv
<1>2. dispatcher \in Dispatchers /\ dispatcher.readyq \in Seq(Rids)
      /\ priority \in [Rids -> Int]
  BY <1>1 DEF TypeOK, Dispatchers
<1>3. /\ dispatcher.reschedule = <<>> /\ Requested = {} /\ Doomed = {}
      /\ Watched(dispatcher) /\ lock.by = "free"
  BY <1>1, EnterMeans
<1>4. Handled(dispatcher)
  BY <1>1, <1>2, <1>3 DEF Handled, Requested
<1>5. Distinct(dispatcher.readyq)
  BY <1>1, <1>2, SortedDistinct DEF DispatcherOK
<1>6. ToSet(dispatcher.readyq) = Ready /\ Ready \subseteq Rids
  BY <1>2 DEF Ready, ToSet
<1>7. QED
  BY <1>1, <1>3, <1>4, <1>5, <1>6

\* A departure only takes a reserve off the ready queue, and lowers the mode
\* at most to the next of the criticality stack.
LEMMA DepartBlock ==
  ASSUME PeriodicTable, IInv, IInv', ModeInv, BlockInv, Enter,
         NEW d, DispatcherOK(d), Handled(d), d.readyq = dispatcher.readyq,
         d.reschedule = <<>>,
         NEW r \in Rids, NEW call \in {"wait", "handler"}, Depart(d, r, call)
  PROVE  BlockInv' /\ EntersAbove
PROOF
<1> DEFINE e == [d EXCEPT !.zero_slack = @ \ {r}]
           c == Departed(r, call)
           critical == table[r].in_critical_mode
           stack == IF critical /\ critical_reservesq.head = r
                    THEN Behead(critical_reservesq) ELSE critical_reservesq
<1>1. TypeOK /\ TypeOK' /\ Unmarked /\ table \in [Rids -> Reserves]
      /\ Doomed = {} /\ Falling(critical_reservesq)
      /\ critical_reservesq \in Lists
      /\ ToSet(dispatcher.readyq) = Ready /\ Ready \subseteq Rids
  BY EnterHandled DEF IInv, BlockInv, PeriodicTable, TypeOK
<1>2. /\ dispatcher' = Stop(e, r)
      /\ table' = [table EXCEPT ![r] = c]
      /\ critical_reservesq' = stack
      /\ sys_criticality' = IF critical THEN TopCriticality(stack)
                            ELSE sys_criticality
      /\ lock'.by = call
  BY DEF Depart
<1>3. /\ c.spec = table[r].spec /\ c.enforced = table[r].enforced
      /\ ~c.end_of_period_marked
  <2>1. /\ table[r] \in Reserves /\ ~table[r].end_of_period_marked
    BY <1>1 DEF Unmarked
  <2>2. QED
    BY <2>1 DEF Departed, Reserves
<1> HIDE DEF c
<1>4. /\ \A x \in Rids : table'[x].spec = table[x].spec
      /\ \A x \in Rids : table'[x].enforced = table[x].enforced
      /\ \A x \in Rids : ~table'[x].end_of_period_marked
  BY <1>1, <1>2, <1>3 DEF Unmarked
<1>5. e \in Dispatchers /\ e.readyq = d.readyq /\ e.reschedule = d.reschedule
      /\ e.sched_task = d.sched_task /\ e.signals = d.signals
  BY DEF Handled, Dispatchers
<1> HIDE DEF e
<1>6. Handled(e) /\ Distinct(e.readyq)
  <2>1. d.readyq \in Seq(Rids) /\ priority \in [Rids -> Int]
    BY <1>1 DEF Handled, Dispatchers, TypeOK
  <2>2. QED
    BY <1>5, <2>1, HandledSame, SortedDistinct DEF DispatcherOK
<1>7. Handled(dispatcher')
      /\ ToSet(dispatcher'.readyq) = ToSet(dispatcher.readyq) \ {r}
  BY <1>1, <1>2, <1>5, <1>6, StopHandled
<1>8. critical_reservesq'.next = critical_reservesq.next
  BY <1>1, <1>2 DEF Behead, Lists
<1>9. sys_criticality' <= sys_criticality
  <2>1. /\ sys_criticality \in Nat /\ r # Nil
        /\ \A x \in Rids : Criticality(x) \in Nat
        /\ critical_reservesq.next[r] \in Rids \cup {Nil}
    <3>1. r # Nil
      BY MaxReservesAssumption DEF Rids, Nil
    <3>2. critical_reservesq.next[r] \in Rids \cup {Nil}
      BY <1>1 DEF Lists
    <3>3. QED
      BY <1>1, <3>1, <3>2, CriticalityType DEF TypeOK
  <2>2. SysIsTop
    BY DEF ModeInv
  <2>3. CASE critical /\ critical_reservesq.head = r
    <3>1. sys_criticality = Criticality(r)
      BY <2>1, <2>2, <2>3 DEF SysIsTop
    <3>2. stack.head = critical_reservesq.next[r]
      BY <1>1, <2>3 DEF Behead, Lists
    <3>3. critical_reservesq.next[r] # Nil =>
            Criticality(critical_reservesq.next[r]) <= Criticality(r)
      BY <1>1 DEF Falling
    <3>4. sys_criticality' = IF critical_reservesq.next[r] = Nil THEN 0
                             ELSE Criticality(critical_reservesq.next[r])
      BY <1>2, <2>3, <3>2 DEF TopCriticality
    <3>5. QED
      BY <2>1, <3>1, <3>3, <3>4
  <2>4. CASE ~(critical /\ critical_reservesq.head = r)
    BY <1>2, <2>1, <2>2, <2>4 DEF SysIsTop, TopCriticality
  <2>5. QED
    BY <2>3, <2>4
<1>10. Unmarked' /\ lock'.by # "zs"
  BY <1>2, <1>4 DEF Unmarked
<1>11. \A x \in ToSet(dispatcher'.readyq) : x \in Ready /\ x \in Rids
  BY <1>1, <1>7
<1>12. ToSet(dispatcher'.reschedule) \subseteq ToSet(dispatcher'.readyq)
  BY <1>7 DEF Handled
<1>13. Watching' /\ AllPeriodic(dispatcher')
  BY <1>7, <1>10, HandledWatching
<1>14. QED
  BY <1>1, <1>4, <1>8, <1>9, <1>10, <1>11, <1>12, <1>13, QuietBlock

\* CREATE_RSV takes an entry that is not in use.
LEMMA CreateReserveBlock ==
  ASSUME PeriodicTable, IInv, IInv', ModeInv, BlockInv,
         NEW spec \in Specs, NEW admitted \in BOOLEAN,
         CreateReserve(spec, admitted)
  PROVE  BlockInv' /\ EntersAbove
PROOF
<1> DEFINE pid == IF admitted THEN Created ELSE Free
<1>1. Enter
  BY DEF CreateReserve
<1>2. PICK r \in Rids :
        /\ ~Active(r)
        /\ table' = [table EXCEPT ![r] = NewReserve(r, spec, pid)]
        /\ critical_reservesq' = [critical_reservesq EXCEPT !.next[r] = Nil]
        /\ UNCHANGED <<dispatcher, sys_criticality, lock>>
  BY DEF CreateReserve
<1>3. /\ TypeOK /\ TypeOK' /\ Unmarked /\ Doomed = {} /\ Handled(dispatcher)
      /\ lock.by = "free" /\ Requested = {} /\ Ready \subseteq Rids
      /\ table \in [Rids -> Reserves] /\ critical_reservesq \in Lists
  BY <1>1, EnterHandled, EnterMeans DEF PeriodicTable, IInv, TypeOK
<1>4. r \notin Ready /\ r \notin InUse
  <2>1. table[r].pid # Attached
    BY <1>2 DEF Active, Attached, Free
  <2>2. QED
    BY <2>1 DEF IInv, ReadyAttached, InUse
<1>5. \A x \in Rids : x # r => table'[x] = table[x]
  BY <1>2, <1>3
<1>6. Unmarked'
  <2>1. ~NewReserve(r, spec, pid).end_of_period_marked
    <3>1. table[r] \in Reserves
      BY <1>3
    <3>2. QED
      BY <3>1 DEF NewReserve, Reserves
  <2>2. ~table'[r].end_of_period_marked
    BY <1>2, <1>3, <2>1
  <2>3. QED
    BY <1>3, <1>5, <2>2 DEF Unmarked
<1>7. Falling(critical_reservesq)'
  <2>1. critical_reservesq'.next = [critical_reservesq.next EXCEPT ![r] = Nil]
    BY <1>2, <1>3 DEF Lists
  <2>2. critical_reservesq.next \in [Rids -> Rids \cup {Nil}]
    BY <1>3 DEF Lists
  <2>3. SUFFICES ASSUME NEW x \in Rids, critical_reservesq'.next[x] # Nil
                 PROVE  table'[critical_reservesq'.next[x]].spec.criticality
                          <= table'[x].spec.criticality
    BY DEF Falling, Criticality
  <2>4. x # r /\ critical_reservesq'.next[x] = critical_reservesq.next[x]
    BY <2>1, <2>2, <2>3
  <2>5. /\ critical_reservesq.next[x] \in Rids
        /\ critical_reservesq.next[x] # r
    BY <1>4, <2>2, <2>3, <2>4 DEF ModeInv, LinksIn
  <2>6. Criticality(critical_reservesq.next[x]) <= Criticality(x)
    BY <2>3, <2>4 DEF BlockInv, Falling
  <2>7. QED
    BY <1>5, <2>4, <2>5, <2>6 DEF Criticality
<1>8. Ready' = Ready /\ Requested' = {}
  BY <1>2, <1>3 DEF Ready, Requested
<1>9. Doomed' = {}
  <2> SUFFICES ASSUME NEW x \in Doomed' PROVE FALSE
    OBVIOUS
  <2>1. x \in Ready' /\ Low(x)' /\ ~table'[x].enforced
    BY DEF Doomed
  <2>2. x \in Rids /\ x # r /\ x \in Ready
    BY <1>3, <1>4, <1>8, <2>1
  <2>3. Low(x) /\ ~table[x].enforced
    BY <1>2, <1>5, <2>1, <2>2 DEF Low, Criticality
  <2>4. QED
    BY <1>3, <2>2, <2>3 DEF Doomed
<1>10. Watching' /\ AllPeriodic(dispatcher') /\ lock'.by # "zs"
  BY <1>2, <1>3, HandledWatching
<1>11. BlockInv'
  BY <1>6, <1>7, <1>8, <1>9, <1>10, Undoomed
<1>12. EntersAbove
  BY <1>8 DEF EntersAbove, Enters
<1>13. QED
  BY <1>11, <1>12

\* ATTACH_RSV starts a reserve that is not below the mode.
LEMMA AttachReserveBlock ==
  ASSUME PeriodicTable, AttachesAbove, IInv, IInv', BlockInv, NEW r \in Rids,
         AttachReserve(r)
  PROVE  BlockInv' /\ EntersAbove
PROOF
<1> DEFINE zero == 0
           c == [table[r] EXCEPT !.pid = Attached, !.start_period = 1,
                                 !.enforced = FALSE, !.in_critical_mode = FALSE]
           e == [dispatcher EXCEPT !.current[r] = zero]
           d == ArmZeroSlack(e, r)
<1>1. Enter
  BY DEF AttachReserve
<1>2. /\ TypeOK /\ TypeOK' /\ Unmarked /\ Doomed = {} /\ Handled(dispatcher)
      /\ lock.by = "free" /\ ToSet(dispatcher.readyq) = Ready
      /\ Ready \subseteq Rids
      /\ table \in [Rids -> Reserves] /\ table[r] \in Reserves
      /\ dispatcher \in Dispatchers /\ priority' \in [Rids -> Int]
  BY <1>1, EnterHandled DEF PeriodicTable, IInv, TypeOK
<1>3. /\ table' = [table EXCEPT ![r] = c]
      /\ dispatcher' = Start(d, priority', r)
      /\ UNCHANGED <<critical_reservesq, sys_criticality, lock>>
  BY DEF AttachReserve, critVars
<1>4. c.spec = table[r].spec
      /\ c.end_of_period_marked = table[r].end_of_period_marked
  BY <1>2 DEF Reserves
<1> HIDE DEF c
<1>5. /\ \A x \in Rids : table'[x].spec = table[x].spec
      /\ \A x \in Rids : x # r => table'[x] = table[x]
      /\ \A x \in Rids : ~table'[x].end_of_period_marked
  BY <1>2, <1>3, <1>4 DEF Unmarked
<1>6. zero \in 0 .. MaxTicks
  BY ConstantsAssumption
<1> HIDE DEF zero
<1>7. /\ e \in Dispatchers /\ e.readyq = dispatcher.readyq
      /\ e.reschedule = dispatcher.reschedule
      /\ e.sched_task = dispatcher.sched_task /\ e.signals = dispatcher.signals
  BY <1>2, <1>6 DEF Dispatchers
<1> HIDE DEF e
<1>8. /\ d \in Dispatchers /\ d.readyq = dispatcher.readyq
      /\ d.reschedule = dispatcher.reschedule
      /\ d.sched_task = dispatcher.sched_task /\ d.signals = dispatcher.signals
  <2>1. d \in Dispatchers /\ d.readyq = e.readyq
    BY <1>7, ArmZeroSlackType DEF SameExecution
  <2>2. d.reschedule = e.reschedule /\ d.sched_task = e.sched_task
        /\ d.signals = e.signals
    BY <1>7 DEF ArmZeroSlack, Dispatchers
  <2> HIDE DEF d
  <2>3. QED
    BY <1>7, <2>1, <2>2
<1> HIDE DEF d
<1>9. Handled(d)
  BY <1>2, <1>8, HandledSame
<1>10. Handled(dispatcher') /\ ToSet(dispatcher'.readyq) = Ready \cup {r}
  <2>1. PICK prio \in [Rids -> Int] : prio = priority'
    BY <1>2
  <2>2. /\ Handled(Start(d, prio, r))
        /\ ToSet(Start(d, prio, r).readyq) = ToSet(d.readyq) \cup {r}
    BY <1>2, <1>9, StartHandled
  <2>3. dispatcher' = Start(d, prio, r)
    BY <1>3, <2>1
  <2>4. QED
    BY <1>2, <1>8, <2>2, <2>3
<1>11. Criticality(r) >= sys_criticality
  BY DEF AttachesAbove
<1>12. \A x \in ToSet(dispatcher'.readyq) :
         \/ Criticality(x) >= sys_criticality
         \/ x \in Ready /\ table'[x].enforced = table[x].enforced
  BY <1>2, <1>5, <1>10, <1>11
<1>13. Unmarked' /\ lock'.by # "zs"
  BY <1>2, <1>3, <1>5 DEF Unmarked
<1>14. Watching' /\ AllPeriodic(dispatcher')
  BY <1>10, <1>13, HandledWatching
<1>15. ToSet(dispatcher'.reschedule) \subseteq ToSet(dispatcher'.readyq)
  BY <1>10 DEF Handled
<1>16. sys_criticality' <= sys_criticality
  BY <1>2, <1>3 DEF TypeOK
<1>17. critical_reservesq'.next = critical_reservesq.next
  BY <1>3
<1>18. QED
  BY <1>2, <1>5, <1>12, <1>13, <1>14, <1>15, <1>16, <1>17, QuietBlock

\* A handler that leaves the queues alone.
LEMMA IdleBlock ==
  ASSUME TypeOK, TypeOK', BlockInv, Doomed = {},
         \A r \in Rids : /\ table'[r].spec = table[r].spec
                         /\ table'[r].enforced = table[r].enforced,
         Unmarked', AllPeriodic(dispatcher'), Watching', lock'.by # "zs",
         dispatcher'.readyq = dispatcher.readyq,
         dispatcher'.reschedule = dispatcher.reschedule,
         UNCHANGED <<critical_reservesq, sys_criticality>>
  PROVE  BlockInv' /\ EntersAbove
PROOF
<1>1. dispatcher.readyq \in Seq(Rids) /\ dispatcher.reschedule \in Seq(Rids)
      /\ sys_criticality \in Nat /\ \A r \in Rids : Criticality(r) \in Nat
  BY CriticalityType DEF TypeOK, Dispatchers
<1>2. ToSet(dispatcher'.readyq) = Ready /\ Ready \subseteq Rids
      /\ ToSet(dispatcher'.reschedule) = Requested /\ Requested \subseteq Rids
  BY <1>1 DEF Ready, Requested, ToSet
<1>3. \A r \in Requested : Criticality(r) >= sys_criticality \/ r \in Ready
  BY <1>1, <1>2 DEF BlockInv, LowRequests, Low
<1>4. sys_criticality' <= sys_criticality
  BY <1>1
<1>5. critical_reservesq'.next = critical_reservesq.next
  OBVIOUS
<1>6. QED
  BY <1>2, <1>3, <1>4, <1>5, QuietBlock

\* CAPTURE_ENFORCEMENT_SIGNAL changes a flag.
LEMMA CaptureBlock ==
  ASSUME PeriodicTable, IInv, IInv', BlockInv, NEW r \in Rids,
         NEW captured \in BOOLEAN, CaptureEnforcementSignal(r, captured)
  PROVE  BlockInv' /\ EntersAbove
PROOF
<1>1. Enter
  BY DEF CaptureEnforcementSignal
<1>2. /\ TypeOK /\ TypeOK' /\ Unmarked /\ Doomed = {} /\ Handled(dispatcher)
      /\ lock.by = "free"
      /\ table \in [Rids -> Reserves] /\ table[r] \in Reserves
  BY <1>1, EnterHandled DEF PeriodicTable, IInv, TypeOK
<1>3. /\ table' = [table EXCEPT ![r].enforcement_signal_captured = captured]
      /\ UNCHANGED <<dispatcher, critical_reservesq, sys_criticality, lock>>
  BY DEF CaptureEnforcementSignal, critVars
<1>4. \A x \in Rids :
        /\ table'[x].spec = table[x].spec
        /\ table'[x].enforced = table[x].enforced
        /\ table'[x].end_of_period_marked = table[x].end_of_period_marked
  BY <1>2, <1>3 DEF Reserves
<1>5. Unmarked' /\ lock'.by # "zs" /\ Handled(dispatcher')
  BY <1>2, <1>3, <1>4 DEF Unmarked
<1>6. Watching' /\ AllPeriodic(dispatcher')
  BY <1>5, HandledWatching
<1>7. QED
  BY <1>2, <1>3, <1>4, <1>5, <1>6, IdleBlock

\* The system calls: a task only departs to wait for its next period.
LEMMA SystemCallBlock ==
  ASSUME PeriodicTable, AttachesAbove, IInv, IInv', ModeInv, BlockInv,
         NEW r \in Rids, SystemCall(r)
  PROVE  BlockInv' /\ EntersAbove
PROOF
<1>1. ~Delete(r) /\ ~EndPeriod(r) /\ ~WaitRelease(r)
  BY DEF PeriodicTable, Undeleted, Delete, EndPeriod, WaitRelease
<1>2. CASE WaitPeriod(r)
  <2>1. Enter /\ Depart(dispatcher, r, "wait")
    BY <1>2 DEF WaitPeriod
  <2>2. DispatcherOK(dispatcher) /\ Handled(dispatcher)
        /\ dispatcher.reschedule = <<>>
    BY <2>1, EnterHandled DEF PeriodicTable
  <2>3. QED
    BY <2>1, <2>2, DepartBlock
<1>3. QED
  BY <1>1, <1>2, AttachReserveBlock, CaptureBlock DEF SystemCall

\* A signal makes a periodic task depart.
LEMMA EnforcementSignalBlock ==
  ASSUME PeriodicTable, IInv, IInv', ModeInv, BlockInv, NEW r \in Rids,
         EnforcementSignal(r)
  PROVE  BlockInv' /\ EntersAbove
PROOF
<1> DEFINE s == dispatcher.signals[r]
           rest == Tail(s)
           d == [dispatcher EXCEPT !.signals[r] = rest]
<1>1. Enter
  BY DEF EnforcementSignal
<1>2. /\ TypeOK /\ TypeOK' /\ Unmarked /\ Doomed = {} /\ Handled(dispatcher)
      /\ DispatcherOK(dispatcher) /\ dispatcher.reschedule = <<>>
      /\ lock.by = "free" /\ dispatcher \in Dispatchers
  BY <1>1, EnterHandled DEF PeriodicTable, IInv, TypeOK
<1>3. /\ s \in Seq([stop : BOOLEAN, periodic : BOOLEAN]) /\ s # <<>>
      /\ dispatcher.signals \in
           [Rids -> Seq([stop : BOOLEAN, periodic : BOOLEAN])]
  BY <1>2 DEF Dispatchers, EnforcementSignal
<1>4. \A i \in DOMAIN s : s[i].periodic
  BY <1>2 DEF Handled, AllPeriodic
<1>5. Head(s).periodic
  <2> HIDE DEF s
  <2>1. 1 \in DOMAIN s /\ Head(s) = s[1]
    BY <1>3
  <2>2. QED
    BY <1>4, <2>1
<1>6. rest \in Seq([stop : BOOLEAN, periodic : BOOLEAN])
      /\ \A i \in DOMAIN rest : rest[i].periodic
  <2> HIDE DEF s
  <2>1. /\ rest \in Seq([stop : BOOLEAN, periodic : BOOLEAN])
        /\ \A i \in DOMAIN rest : i + 1 \in DOMAIN s /\ rest[i] = s[i + 1]
    BY <1>3
  <2>2. QED
    BY <1>4, <2>1
<1>7. \/ Depart(d, r, "handler")
      \/ /\ dispatcher' = d
         /\ UNCHANGED <<table, critical_reservesq, sys_criticality, lock>>
  BY <1>5 DEF EnforcementSignal, critVars
<1> HIDE DEF rest, s
<1>8. /\ d \in Dispatchers /\ d.readyq = dispatcher.readyq
      /\ d.reschedule = dispatcher.reschedule
      /\ d.sched_task = dispatcher.sched_task
      /\ d.signals = [dispatcher.signals EXCEPT ![r] = rest]
  BY <1>2, <1>6 DEF Dispatchers
<1>9. DispatcherOK(d)
  BY <1>2, <1>6, SignalsOK
<1> HIDE DEF d
<1>10. AllPeriodic(d)
  BY <1>2, <1>3, <1>6, <1>8 DEF Handled, AllPeriodic
<1>11. Handled(d)
  BY <1>2, <1>8, <1>10 DEF Handled, Watched
<1>12. CASE Depart(d, r, "handler")
  BY <1>1, <1>2, <1>8, <1>9, <1>11, <1>12, DepartBlock
<1>13. CASE /\ dispatcher' = d
            /\ UNCHANGED <<table, critical_reservesq, sys_criticality, lock>>
  <2>1. Unmarked' /\ lock'.by # "zs" /\ Handled(dispatcher')
    BY <1>2, <1>11, <1>13 DEF Unmarked
  <2>2. Watching' /\ AllPeriodic(dispatcher')
    BY <2>1, HandledWatching
  <2>3. QED
    BY <1>2, <1>8, <1>13, <2>1, <2>2, IdleBlock
<1>14. QED
  BY <1>7, <1>12, <1>13

\* An arrival starts a job only if it is not below the mode, and a suspended
\* one stays as enforced as it was.
LEMMA PeriodTimerBlock ==
  ASSUME PeriodicTable, IInv, IInv', ModeInv, BlockInv, NEW r \in Rids,
         PeriodTimer(r)
  PROVE  BlockInv' /\ EntersAbove
PROOF
<1> DEFINE late == [dispatcher EXCEPT !.enforcement[r] = Off]
           told == BudgetEnforcement(late, r, FALSE)
           stopped == IF Overrun(r) THEN Stop(told, r) ELSE dispatcher
           zero == 0
           fresh == [stopped EXCEPT !.current[r] = zero]
           d == ArmZeroSlack(fresh, r)
           starts == ~Suspended(r) /\ Wakes(r)
           c == Arrived(r)
<1>1. Enter
  BY DEF PeriodTimer
<1>2. /\ TypeOK /\ TypeOK' /\ Unmarked /\ Doomed = {} /\ Handled(dispatcher)
      /\ dispatcher.reschedule = <<>> /\ Distinct(dispatcher.readyq)
      /\ ToSet(dispatcher.readyq) = Ready /\ Ready \subseteq Rids
      /\ lock.by = "free" /\ dispatcher \in Dispatchers
      /\ DispatcherOK(dispatcher)
      /\ table \in [Rids -> Reserves] /\ table[r] \in Reserves
      /\ priority \in [Rids -> Int]
  BY <1>1, EnterHandled DEF PeriodicTable, IInv, TypeOK
<1>3. Alive(r)
  BY InUseAlive DEF PeriodTimer, ModeInv
<1>4. /\ dispatcher' = IF starts THEN Start(d, priority, r) ELSE d
      /\ table' = [table EXCEPT ![r] = c]
      /\ UNCHANGED <<critical_reservesq, sys_criticality, lock>>
  BY <1>3 DEF PeriodTimer, StartOfPeriod, critVars
<1>5. /\ c.spec = table[r].spec /\ ~c.end_of_period_marked
      /\ Suspended(r) => c.enforced = table[r].enforced
  <2>1. ~table[r].end_of_period_marked
    BY <1>2 DEF Unmarked
  <2>2. QED
    BY <1>2, <2>1 DEF Arrived, Reserves
<1> HIDE DEF c
<1>6. /\ \A x \in Rids : table'[x].spec = table[x].spec
      /\ \A x \in Rids : ~table'[x].end_of_period_marked
      /\ \A x \in Rids : x # r \/ Suspended(r) =>
           table'[x].enforced = table[x].enforced
  BY <1>2, <1>4, <1>5 DEF Unmarked
<1>7. /\ late \in Dispatchers /\ late.readyq = dispatcher.readyq
      /\ late.reschedule = dispatcher.reschedule
      /\ late.sched_task = dispatcher.sched_task
      /\ late.signals = dispatcher.signals
  <2>1. DispatcherOK(late)
    BY <1>2, EnforcementOffOK
  <2>2. QED
    BY <1>2, <2>1 DEF DispatcherOK, Dispatchers
<1> HIDE DEF late
<1>8. Handled(late)
  BY <1>2, <1>7, HandledSame
<1>9. Handled(told) /\ told.readyq = dispatcher.readyq
      /\ told.reschedule = <<>>
  <2>1. told \in Dispatchers /\ told.readyq = late.readyq
    BY <1>2, <1>7, BudgetEnforcementType DEF SameExecution
  <2>2. AllPeriodic(told) /\ told.reschedule = late.reschedule
        /\ told.sched_task = late.sched_task
    BY <1>2, <1>7, <1>8, BudgetEnforcementAsks DEF Handled
  <2> HIDE DEF told
  <2>3. QED
    BY <1>2, <1>7, <1>8, <2>1, <2>2 DEF Handled, Watched
<1> HIDE DEF told
<1>10. Handled(Stop(told, r)) /\ ToSet(Stop(told, r).readyq) = Ready \ {r}
  BY <1>2, <1>9, StopHandled
<1>11. Handled(stopped) /\ ToSet(stopped.readyq) \subseteq Ready
  BY <1>2, <1>10
<1>12. zero \in 0 .. MaxTicks
  BY ConstantsAssumption
<1> HIDE DEF stopped, zero
<1>13. /\ fresh \in Dispatchers /\ fresh.readyq = stopped.readyq
       /\ fresh.reschedule = stopped.reschedule
       /\ fresh.sched_task = stopped.sched_task
       /\ fresh.signals = stopped.signals
  BY <1>11, <1>12 DEF Handled, Dispatchers
<1> HIDE DEF fresh
<1>14. Handled(fresh)
  BY <1>11, <1>13, HandledSame
<1>15. Handled(d) /\ d.readyq = stopped.readyq
  <2>1. d \in Dispatchers /\ d.readyq = fresh.readyq
    BY <1>13, ArmZeroSlackType DEF SameExecution
  <2>2. d.reschedule = fresh.reschedule /\ d.sched_task = fresh.sched_task
        /\ d.signals = fresh.signals
    BY <1>13 DEF ArmZeroSlack, Dispatchers
  <2> HIDE DEF d
  <2>3. QED
    BY <1>13, <1>14, <2>1, <2>2, HandledSame
<1> HIDE DEF d
<1>16. /\ Handled(Start(d, priority, r))
       /\ ToSet(Start(d, priority, r).readyq) = ToSet(d.readyq) \cup {r}
  BY <1>2, <1>15, StartHandled
<1>17. /\ Handled(dispatcher')
       /\ \A x \in ToSet(dispatcher'.readyq) : x \in Ready \/ (starts /\ x = r)
  BY <1>4, <1>11, <1>15, <1>16
<1>18. ~Suspended(r) => Criticality(r) >= sys_criticality
  BY <1>2, CriticalityType DEF Suspended, TypeOK
<1>19. \A x \in ToSet(dispatcher'.readyq) :
         \/ Criticality(x) >= sys_criticality
         \/ x \in Ready /\ table'[x].enforced = table[x].enforced
  BY <1>2, <1>6, <1>17, <1>18
<1>20. Unmarked' /\ lock'.by # "zs"
  BY <1>2, <1>4, <1>6 DEF Unmarked
<1>21. Watching' /\ AllPeriodic(dispatcher')
  BY <1>17, <1>20, HandledWatching
<1>22. ToSet(dispatcher'.reschedule) \subseteq ToSet(dispatcher'.readyq)
  BY <1>17 DEF Handled
<1>23. /\ sys_criticality' <= sys_criticality
       /\ critical_reservesq'.next = critical_reservesq.next
  BY <1>2, <1>4 DEF TypeOK
<1>24. QED
  BY <1>2, <1>6, <1>19, <1>20, <1>21, <1>22, <1>23, QuietBlock

\* The enforcement timer asks for the head to be stopped.
LEMMA EnforcementTimerBlock ==
  ASSUME PeriodicTable, IInv, IInv', ModeInv, BlockInv, NEW r \in Rids,
         EnforcementTimer(r)
  PROVE  BlockInv' /\ EntersAbove
PROOF
<1> DEFINE d == [dispatcher EXCEPT !.enforcement[r] = Off]
           e == BudgetEnforcement(d, r, TRUE)
<1>1. Enter
  BY DEF EnforcementTimer
<1>2. /\ TypeOK /\ TypeOK' /\ Unmarked /\ Doomed = {} /\ Handled(dispatcher)
      /\ ToSet(dispatcher.readyq) = Ready /\ Ready \subseteq Rids
      /\ lock.by = "free" /\ dispatcher \in Dispatchers
      /\ DispatcherOK(dispatcher)
      /\ dispatcher.readyq \in Seq(Rids)
  BY <1>1, EnterHandled DEF PeriodicTable, IInv, TypeOK, Dispatchers
<1>3. /\ dispatcher.readyq # <<>> /\ Head(dispatcher.readyq) = r /\ r \in Ready
  <2>1. dispatcher.enforcement[r] # Off
    BY DEF EnforcementTimer, Off
  <2>2. dispatcher.readyq # <<>> /\ Head(dispatcher.readyq) = r
    BY <1>2, <2>1 DEF DispatcherOK, TimerSound
  <2>3. QED
    BY <1>2, <2>2 DEF ToSet
<1>4. Alive(r)
  <2>1. r \in InUse
    BY <1>2, <1>3, InUseAlive
  <2>2. QED
    BY <2>1, InUseAlive
<1>5. /\ dispatcher' = e
      /\ UNCHANGED <<table, critical_reservesq, sys_criticality, lock>>
  BY <1>4 DEF EnforcementTimer, critVars
<1>6. /\ d \in Dispatchers /\ d.readyq = dispatcher.readyq
      /\ d.reschedule = dispatcher.reschedule
      /\ d.sched_task = dispatcher.sched_task
      /\ d.signals = dispatcher.signals
  <2>1. DispatcherOK(d)
    BY <1>2, EnforcementOffOK
  <2>2. QED
    BY <1>2, <2>1 DEF DispatcherOK, Dispatchers
<1> HIDE DEF d
<1>7. Handled(d)
  BY <1>2, <1>6, HandledSame
<1>8. e \in Dispatchers /\ e.readyq = dispatcher.readyq
  BY <1>2, <1>6, BudgetEnforcementType DEF SameExecution
<1>9. AllPeriodic(e) /\ Asks(d, e)
  <2>1. /\ AllPeriodic(e)
        /\ \/ /\ e.reschedule = d.reschedule
              /\ e.request_stop = d.request_stop
              /\ e.sched_task = d.sched_task
           \/ /\ e.reschedule \in {d.reschedule, Append(d.reschedule, r)}
              /\ e.request_stop = d.request_stop \cup {r}
              /\ e.sched_task = IF d.sched_task = "asleep" THEN "running"
                                ELSE d.sched_task
    BY <1>2, <1>6, <1>7, BudgetEnforcementAsks DEF Handled
  <2> HIDE DEF e
  <2>2. QED
    BY <1>3, <1>8, <2>1 DEF Asks
<1> HIDE DEF e
<1>10. Handled(dispatcher')
  BY <1>5, <1>6, <1>7, <1>8, <1>9, AsksWatched DEF Handled
<1>11. Unmarked' /\ lock'.by # "zs"
  BY <1>2, <1>5 DEF Unmarked
<1>12. Watching' /\ AllPeriodic(dispatcher')
  BY <1>10, <1>11, HandledWatching
<1>13. /\ ToSet(dispatcher'.reschedule) \subseteq ToSet(dispatcher'.readyq)
       /\ ToSet(dispatcher'.readyq) = Ready
  BY <1>2, <1>5, <1>8, <1>10 DEF Handled
<1>14. /\ sys_criticality' <= sys_criticality
       /\ critical_reservesq'.next = critical_reservesq.next
       /\ \A x \in Rids : table'[x] = table[x]
  BY <1>2, <1>5 DEF TypeOK
<1>15. QED
  BY <1>2, <1>11, <1>12, <1>13, <1>14, QuietBlock

\* The zero-slack timer begins its loop with every ready reserve ahead of it.
LEMMA ZeroSlackTimerBlock ==
  ASSUME PeriodicTable, IInv, IInv', ModeInv, BlockInv, NEW r \in Rids,
         ZeroSlackTimer(r)
  PROVE  BlockInv' /\ EntersAbove
PROOF
<1> DEFINE d == [dispatcher EXCEPT !.zero_slack = @ \ {r}]
           crit == [x \in Rids |-> Criticality(x)]
           t == [table[r] EXCEPT !.in_critical_mode = TRUE]
<1>1. Enter
  BY DEF ZeroSlackTimer
<1>2. /\ TypeOK /\ TypeOK' /\ Unmarked /\ Doomed = {} /\ Handled(dispatcher)
      /\ dispatcher.reschedule = <<>> /\ dispatcher.sched_task = "asleep"
      /\ ToSet(dispatcher.readyq) = Ready /\ Ready \subseteq Rids
      /\ lock.by = "free" /\ dispatcher \in Dispatchers
      /\ table \in [Rids -> Reserves] /\ table[r] \in Reserves
      /\ critical_reservesq \in Lists /\ Falling(critical_reservesq)
      /\ dispatcher.readyq \in Seq(Rids)
  BY <1>1, EnterHandled, EnterMeans
     DEF PeriodicTable, IInv, TypeOK, BlockInv, Dispatchers
<1>3. Alive(r)
  BY InUseAlive DEF ZeroSlackTimer, ModeInv, Within
<1>4. dispatcher' = d
  BY <1>3 DEF ZeroSlackTimer
<1>5. /\ d.readyq = dispatcher.readyq /\ d.reschedule = dispatcher.reschedule
      /\ d.sched_task = dispatcher.sched_task /\ d.signals = dispatcher.signals
      /\ d \in Dispatchers
  BY <1>2 DEF Dispatchers
<1> HIDE DEF d
<1>6. Handled(dispatcher') /\ Ready' = Ready /\ Requested' = {}
  <2>1. Handled(dispatcher')
    BY <1>2, <1>4, <1>5, HandledSame
  <2>2. QED
    BY <1>2, <1>4, <1>5, <2>1 DEF Ready, Requested, ToSet
<1>7. EntersAbove
  BY <1>6 DEF EntersAbove, Enters
<1>8. CASE UNCHANGED <<table, critical_reservesq, sys_criticality, lock>>
  <2>1. Unmarked' /\ lock'.by # "zs"
    BY <1>2, <1>8 DEF Unmarked
  <2>2. Watching' /\ AllPeriodic(dispatcher')
    BY <1>6, <2>1, HandledWatching
  <2>3. QED
    BY <1>2, <1>4, <1>5, <1>8, <2>1, <2>2, IdleBlock
<1>9. CASE /\ table' = [table EXCEPT ![r] = t]
           /\ critical_reservesq' = AddByCriticality(critical_reservesq, crit, r)
           /\ lock' = [Unlocked EXCEPT !.by = "zs", !.rid = r, !.at = 1]
  <2>1. t.spec = table[r].spec
        /\ t.end_of_period_marked = table[r].end_of_period_marked
    BY <1>2 DEF Reserves
  <2> HIDE DEF t
  <2>2. /\ \A x \in Rids : table'[x].spec = table[x].spec
        /\ \A x \in Rids : ~table'[x].end_of_period_marked
    BY <1>2, <1>9, <2>1 DEF Unmarked
  <2>3. PICK l \in Lists : l = AddByCriticality(critical_reservesq, crit, r)
    BY <1>2, AddByCriticalityType
  <2>4. Falling(l)
    BY <1>2, <2>3, AddFalling
  <2>5. Falling(critical_reservesq)'
    <3>1. SUFFICES ASSUME NEW x \in Rids, critical_reservesq'.next[x] # Nil
                   PROVE  table'[critical_reservesq'.next[x]].spec.criticality
                            <= table'[x].spec.criticality
      BY DEF Falling, Criticality
    <3>2. /\ critical_reservesq'.next[x] = l.next[x] /\ l.next[x] # Nil
          /\ l.next[x] \in Rids
      BY <1>9, <2>3, <3>1 DEF Lists
    <3>3. Criticality(l.next[x]) <= Criticality(x)
      BY <2>4, <3>2 DEF Falling
    <3>4. QED
      BY <2>2, <3>2, <3>3 DEF Criticality
  <2>6. lock'.by = "zs" /\ lock'.at = 1
    BY <1>9 DEF Unlocked
  <2>7. Unmarked' /\ AllPeriodic(dispatcher)'
    BY <1>6, <2>2 DEF Unmarked, Handled, AllPeriodic
  <2>8. Watching'
    BY <1>2, <1>4, <1>5, <2>6 DEF Watching
  <2>9. LowRequests'
    BY <1>6 DEF LowRequests
  <2>10. RequestsInOrder'
    <3>1. OrderedBy(dispatcher.reschedule, Higher(priority))'
      BY <1>2, <1>4, <1>5 DEF OrderedBy
    <3>2. QED
      BY <1>6, <3>1 DEF RequestsInOrder
  <2>11. DoomedRequested'
    <3>1. Doomed' \subseteq Ready
      BY <1>6 DEF Doomed
    <3>2. \A x \in Ready : \E k \in DOMAIN dispatcher.readyq :
            k >= 1 /\ dispatcher.readyq[k] = x
      BY <1>2 DEF Ready, ToSet
    <3>3. \A x \in Doomed' : \E k \in DOMAIN dispatcher'.readyq :
            k >= lock'.at /\ dispatcher'.readyq[k] = x
      BY <1>4, <1>5, <2>6, <3>1, <3>2
    <3>4. QED
      BY <2>6, <3>3 DEF DoomedRequested
  <2>12. ScanRequests'
    BY <1>2, <1>4, <1>5, <1>6, <2>6 DEF ScanRequests
  <2>13. lock'.by \notin Departing
    BY <2>6 DEF Departing
  <2>14. QED
    BY <1>7, <2>5, <2>7, <2>8, <2>9, <2>10, <2>11, <2>12, <2>13 DEF BlockInv
<1>10. QED
  BY <1>3, <1>8, <1>9 DEF ZeroSlackTimer

\* The loop over crit_blockq starts a reserve that is not below the mode.
LEMMA ReleaseBlockedBlock ==
  ASSUME PeriodicTable, IInv, IInv', ModeInv, BlockInv, ReleaseBlocked
  PROVE  BlockInv' /\ EntersAbove
PROOF
<1> DEFINE t == crit_blockq.head
           e == Start(dispatcher, priority, t)
<1>1. /\ TypeOK /\ TypeOK' /\ Unmarked /\ Doomed = {} /\ AllPeriodic(dispatcher)
      /\ dispatcher \in Dispatchers /\ dispatcher.readyq \in Seq(Rids)
      /\ priority \in [Rids -> Int] /\ sys_criticality \in Nat
      /\ \A x \in Rids : Criticality(x) \in Nat
  BY CriticalityType DEF ReleaseBlocked, BlockInv, IInv, TypeOK, Dispatchers
<1>2. Watched(dispatcher) /\ lock.by \in Departing /\ lock.by # "zs"
  BY DEF ReleaseBlocked, BlockInv, Watching, Watched, Departing
<1>3. t \in Rids /\ Alive(t) /\ Criticality(t) >= sys_criticality
  BY InUseAlive DEF ReleaseBlocked, MoreBlocked, ModeInv, LinksIn
<1>4. /\ UNCHANGED <<table, critical_reservesq, sys_criticality>>
      /\ lock'.by = lock.by
      /\ dispatcher' \in {dispatcher, e}
  BY <1>3, LockAdvanceType DEF ReleaseBlocked, IInv, TypeOK
<1>5. ToSet(dispatcher.readyq) = Ready /\ Ready \subseteq Rids
      /\ ToSet(dispatcher.reschedule) = Requested
  BY <1>1 DEF Ready, Requested, ToSet
<1>6. /\ e \in Dispatchers /\ ToSet(e.readyq) = Ready \cup {t}
      /\ AllPeriodic(e) /\ Asks(dispatcher, e)
  BY <1>1, <1>3, <1>5, StartType, StartAsks
<1> HIDE DEF e, t
<1>7. /\ Watched(e)
      /\ \A x \in ToSet(e.reschedule) : x \in Requested \/ x \in ToSet(e.readyq)
  BY <1>1, <1>2, <1>5, <1>6, AsksWatched
<1>8. /\ AllPeriodic(dispatcher') /\ Watched(dispatcher')
      /\ \A x \in ToSet(dispatcher'.readyq) : x \in Ready \/ x = t
      /\ Ready \subseteq ToSet(dispatcher'.readyq)
      /\ \A x \in ToSet(dispatcher'.reschedule) :
           x \in Requested \/ x \in ToSet(dispatcher'.readyq)
  BY <1>1, <1>2, <1>4, <1>5, <1>6, <1>7
<1>9. \A x \in Requested : Criticality(x) >= sys_criticality \/ x \in Ready
  <2>1. Requested \subseteq Rids
    BY <1>1, <1>5 DEF Dispatchers, ToSet
  <2>2. QED
    BY <1>1, <2>1 DEF BlockInv, LowRequests, Low
<1>10. /\ Unmarked' /\ lock'.by # "zs"
       /\ sys_criticality' <= sys_criticality
       /\ critical_reservesq'.next = critical_reservesq.next
       /\ \A x \in Rids : table'[x] = table[x]
  BY <1>1, <1>2, <1>4 DEF Unmarked
<1>11. Watching'
  BY <1>8, <1>10 DEF Watched, Watching
<1>12. \A x \in ToSet(dispatcher'.readyq) :
         \/ Criticality(x) >= sys_criticality
         \/ x \in Ready /\ table'[x].enforced = table[x].enforced
  BY <1>3, <1>5, <1>8, <1>10
<1>13. \A x \in ToSet(dispatcher'.reschedule) :
         \/ Criticality(x) >= sys_criticality
         \/ x \in ToSet(dispatcher'.readyq)
  BY <1>8, <1>9
<1>14. QED
  BY <1>1, <1>8, <1>10, <1>11, <1>12, <1>13, QuietBlock

\* A departure ends.
LEMMA FinishDepartureBlock ==
  ASSUME PeriodicTable, IInv, IInv', BlockInv, FinishDeparture
  PROVE  BlockInv' /\ EntersAbove
PROOF
<1>1. /\ TypeOK /\ TypeOK' /\ Unmarked /\ Doomed = {} /\ AllPeriodic(dispatcher)
      /\ table \in [Rids -> Reserves] /\ lock.rid \in Rids
      /\ table[lock.rid] \in Reserves
  BY SpecType DEF FinishDeparture, BlockInv, IInv, TypeOK, Locks
<1>2. lock'.by = "free" /\ lock.by \in Departing
      /\ UNCHANGED <<dispatcher, critical_reservesq, sys_criticality>>
  BY DEF FinishDeparture, Unlocked, critVars
<1>3. \A x \in Rids :
        /\ table'[x].spec = table[x].spec
        /\ table'[x].enforced = table[x].enforced
        /\ table'[x].end_of_period_marked = table[x].end_of_period_marked
  BY <1>1 DEF FinishDeparture, Reserves
<1>4. Unmarked'
  BY <1>1, <1>3 DEF Unmarked
<1>5. Watching'
  BY <1>2 DEF BlockInv, Watching, Departing
<1>6. QED
  BY <1>1, <1>2, <1>3, <1>4, <1>5, IdleBlock

\* The steps that move no reserve and make no request.
LEMMA RestBlock ==
  ASSUME IInv, IInv', BlockInv, SchedulerUnlock \/ SchedulerSleep \/ Tick
  PROVE  BlockInv' /\ EntersAbove
PROOF
<1>1. /\ TypeOK /\ TypeOK' /\ Unmarked /\ AllPeriodic(dispatcher)
      /\ dispatcher \in Dispatchers
  BY DEF BlockInv, IInv, TypeOK
<1>2. /\ UNCHANGED <<table, critical_reservesq, sys_criticality>>
      /\ dispatcher'.readyq = dispatcher.readyq
      /\ dispatcher'.reschedule = dispatcher.reschedule
      /\ dispatcher'.signals = dispatcher.signals
  BY <1>1 DEF SchedulerUnlock, SchedulerSleep, Tick, critVars, Dispatchers
<1>3. /\ dispatcher.reschedule = <<>> /\ lock.by \in {"free", "sched"}
      /\ lock'.by = "free"
      /\ dispatcher'.sched_task = "leaving" => lock'.by = "free"
  BY <1>1
     DEF SchedulerUnlock, SchedulerSleep, Tick, BlockInv, Watching, Unlocked,
         Dispatchers
<1>4. Doomed = {}
  <2>1. Requested = {}
    BY <1>3 DEF Requested, ToSet
  <2>2. QED
    BY <1>3, <2>1 DEF BlockInv, DoomedRequested
<1>5. Unmarked' /\ AllPeriodic(dispatcher') /\ Watching' /\ lock'.by # "zs"
  BY <1>1, <1>2, <1>3 DEF Unmarked, AllPeriodic, Watching
<1>6. QED
  BY <1>1, <1>2, <1>4, <1>5, IdleBlock

\* What a pop takes from the stack.
LEMMA PopMembers ==
  ASSUME NEW s \in Seq(Rids), s # <<>>
  PROVE  /\ Front(s) \in Seq(Rids) /\ Last(s) \in Rids
         /\ ToSet(s) = ToSet(Front(s)) \cup {Last(s)}
         /\ \A R : OrderedBy(s, R) =>
              /\ OrderedBy(Front(s), R)
              /\ \A x \in ToSet(Front(s)) : <<x, Last(s)>> \in R
PROOF
<1> DEFINE n == Len(s)
           rest == Front(s)
<1>1. /\ n \in Nat /\ n >= 1 /\ DOMAIN s = 1 .. n
      /\ \A i \in 1 .. n : s[i] \in Rids
      /\ Last(s) = s[n]
  BY DEF Last
<1>2. /\ rest \in Seq(Rids) /\ DOMAIN rest = 1 .. n - 1
      /\ \A i \in 1 .. n - 1 : rest[i] = s[i]
  BY <1>1 DEF Front
<1> HIDE DEF n, rest
<1>3. DOMAIN s = DOMAIN rest \cup {n}
      /\ \A i \in DOMAIN rest : i \in DOMAIN s /\ i < n /\ rest[i] = s[i]
  BY <1>1, <1>2
<1>4. ToSet(s) = ToSet(rest) \cup {s[n]}
  BY <1>3 DEF ToSet
<1>5. \A R : OrderedBy(s, R) =>
        /\ OrderedBy(rest, R)
        /\ \A x \in ToSet(rest) : <<x, s[n]>> \in R
  BY <1>3 DEF OrderedBy, ToSet
<1>6. s[n] \in Rids
  BY <1>1
<1>7. QED
  BY <1>1, <1>2, <1>4, <1>5, <1>6 DEF rest

\* A pop that leaves the ready queue alone is not about a reserve that is to
\* be stopped.
LEMMA PopQuiet ==
  ASSUME TypeOK, TypeOK', BlockInv, lock.by \notin Departing, lock.by # "zs",
         NEW r \in Rids, r \notin Doomed,
         dispatcher.reschedule # <<>>, r = Last(dispatcher.reschedule),
         dispatcher'.reschedule = Front(dispatcher.reschedule),
         dispatcher'.readyq = dispatcher.readyq,
         dispatcher.request_stop \subseteq dispatcher'.request_stop \cup {r},
         AllPeriodic(dispatcher'), Watching', lock'.by = "sched",
         UNCHANGED <<table, critical_reservesq, sys_criticality, priority>>
  PROVE  BlockInv' /\ EntersAbove
PROOF
<1> DEFINE rest == Front(dispatcher.reschedule)
<1>1. dispatcher.reschedule \in Seq(Rids)
  BY DEF TypeOK, Dispatchers
<1>2. /\ Requested = ToSet(rest) \cup {r}
      /\ \A R : OrderedBy(dispatcher.reschedule, R) => OrderedBy(rest, R)
  BY <1>1, PopMembers DEF Requested
<1> HIDE DEF rest
<1>3. /\ Requested' = ToSet(rest) /\ Requested' \subseteq Requested
      /\ Ready' = Ready /\ Doomed' = Doomed
      /\ \A x : Low(x)' <=> Low(x)
  BY <1>2 DEF Requested, Ready, Doomed, Low, Criticality, ToSet, rest
<1>4. LowRequests'
  <2> SUFFICES ASSUME NEW x \in Requested', Low(x)'
               PROVE  x \in Ready' /\ (x \in Doomed' => x \in dispatcher'.request_stop)
    BY DEF LowRequests
  <2>1. x \in Ready /\ (x \in Doomed => x \in dispatcher.request_stop)
    BY <1>3 DEF BlockInv, LowRequests
  <2>2. QED
    BY <1>3, <2>1
<1>5. RequestsInOrder'
  <2> SUFFICES ASSUME Doomed' # {}
               PROVE  /\ Requested' \subseteq Ready'
                      /\ OrderedBy(dispatcher.reschedule, Higher(priority))'
    BY DEF RequestsInOrder
  <2>1. /\ Requested \subseteq Ready
        /\ OrderedBy(dispatcher.reschedule, Higher(priority))
    BY <1>3 DEF BlockInv, RequestsInOrder
  <2>2. OrderedBy(rest, Higher(priority))
    BY <1>2, <2>1
  <2>3. OrderedBy(dispatcher.reschedule, Higher(priority))'
    BY <2>2 DEF OrderedBy, Higher, rest
  <2>4. QED
    BY <1>3, <2>1, <2>3
<1>6. DoomedRequested'
  <2> SUFFICES ASSUME NEW x \in Doomed' PROVE x \in Requested'
    BY DEF DoomedRequested
  <2>1. x \in Doomed /\ x \in Requested
    BY <1>3 DEF BlockInv, DoomedRequested
  <2>2. QED
    BY <1>2, <1>3, <2>1
<1>7. ScanRequests' /\ lock'.by \notin Departing
  BY DEF ScanRequests, Departing
<1>8. Unmarked' /\ Falling(critical_reservesq)'
  BY DEF BlockInv, Unmarked, Falling, Criticality
<1>9. AllPeriodic(dispatcher)'
  BY DEF AllPeriodic
<1>10. BlockInv'
  BY <1>4, <1>5, <1>6, <1>7, <1>8, <1>9 DEF BlockInv
<1>11. EntersAbove
  BY <1>3 DEF EntersAbove, Enters
<1>12. QED
  BY <1>10, <1>11

\* A pop that stops r leaves the requests about the others in order.
LEMMA PopStops ==
  ASSUME IInv, IInv', BlockInv, lock.by \in {"free", "sched"},
         NEW r \in Rids, ~table[r].enforced,
         dispatcher.reschedule # <<>>, r = Last(dispatcher.reschedule),
         NEW e, DispatcherOK(e), AllPeriodic(e),
         e.readyq = dispatcher.readyq,
         e.reschedule = Front(dispatcher.reschedule),
         e.request_stop = dispatcher.request_stop \ {r},
         e.sched_task = "running",
         dispatcher' = Stop(e, r), lock'.by = "sched",
         \A x \in Rids : /\ table'[x].spec = table[x].spec
                         /\ table'[x].enforced = (x = r \/ table[x].enforced)
                         /\ ~table'[x].end_of_period_marked,
         UNCHANGED <<critical_reservesq, sys_criticality, priority>>
  PROVE  BlockInv' /\ EntersAbove
PROOF
<1> DEFINE rest == Front(dispatcher.reschedule)
           f == Stop(e, r)
<1>1. /\ TypeOK /\ TypeOK' /\ Unmarked /\ e \in Dispatchers
      /\ e.readyq \in Seq(Rids) /\ dispatcher.reschedule \in Seq(Rids)
      /\ priority \in [Rids -> Int] /\ Distinct(e.readyq)
      /\ OrderedBy(e.readyq, Higher(priority))
  <2>1. TypeOK /\ TypeOK' /\ Unmarked /\ e \in Dispatchers
        /\ OrderedBy(e.readyq, Higher(priority))
    BY DEF IInv, BlockInv, DispatcherOK
  <2>2. e.readyq \in Seq(Rids) /\ dispatcher.reschedule \in Seq(Rids)
        /\ priority \in [Rids -> Int]
    BY <2>1 DEF TypeOK, Dispatchers
  <2>3. QED
    BY <2>1, <2>2, SortedDistinct
<1>2. /\ Requested = ToSet(rest) \cup {r}
      /\ \A R : OrderedBy(dispatcher.reschedule, R) =>
           /\ OrderedBy(rest, R)
           /\ \A x \in ToSet(rest) : <<x, r>> \in R
  BY <1>1, PopMembers DEF Requested
<1>3. /\ f \in Dispatchers /\ AllPeriodic(f) /\ Asks(e, f)
      /\ ToSet(f.readyq) = Ready \ {r} /\ Ready \subseteq Rids
      /\ ~(e.readyq # <<>> /\ Head(e.readyq) = r) =>
           /\ f.reschedule = rest
           /\ f.request_stop = dispatcher.request_stop \ {r}
           /\ f.sched_task = "running"
  <2>1. f \in Dispatchers /\ ToSet(f.readyq) = ToSet(e.readyq) \ {r}
    BY <1>1, StopType, DequeueProperties
  <2>2. ToSet(e.readyq) = Ready /\ Ready \subseteq Rids
    BY <1>1 DEF Ready, ToSet
  <2>3. QED
    BY <1>1, <2>1, <2>2, StopAsks
<1> HIDE DEF f, rest
<1>4. /\ Ready' = Ready \ {r} /\ Requested' = ToSet(f.reschedule)
      /\ AllPeriodic(dispatcher')
  <2>1. dispatcher' = f
    BY DEF f
  <2>2. Ready' = ToSet(f.readyq) /\ Requested' = ToSet(f.reschedule)
    BY <2>1 DEF Ready, Requested, ToSet
  <2>3. AllPeriodic(dispatcher')
    BY <1>3, <2>1
  <2>4. QED
    BY <1>3, <2>2, <2>3
<1>5. /\ f.sched_task = "running"
      /\ \A x \in ToSet(f.reschedule) : x \in ToSet(rest) \/ x \in ToSet(f.readyq)
  <2>1. ToSet(e.reschedule) = ToSet(rest)
    BY DEF rest
  <2>2. \A x \in ToSet(f.reschedule) :
          x \in ToSet(e.reschedule) \/ x \in ToSet(f.readyq)
    BY <1>1, <1>3, AsksWatched
  <2>3. f.sched_task = "running"
    BY <1>3 DEF Asks
  <2>4. QED
    BY <2>1, <2>2, <2>3
<1>6. /\ Unmarked' /\ Falling(critical_reservesq)'
      /\ \A x \in Rids : Criticality(x)' = Criticality(x)
      /\ Watching' /\ lock'.by \notin Departing /\ lock'.by # "zs"
  <2>1. dispatcher'.sched_task = "running"
    BY <1>5 DEF f
  <2>2. Watching' /\ lock'.by \notin Departing /\ lock'.by # "zs" /\ Unmarked'
    BY <2>1 DEF Watching, Departing, Unmarked
  <2>3. QED
    BY <1>1, <2>2, FallingKept DEF BlockInv
<1>7. /\ \A x \in Rids : Low(x)' <=> Low(x)
      /\ Doomed' = Doomed \ {r}
  <2>1. \A x \in Rids : Low(x)' <=> Low(x)
    BY <1>6 DEF Low
  <2>2. QED
    BY <1>3, <1>4, <2>1 DEF Doomed
<1>8. /\ \A x \in ToSet(rest) : Low(x) => x \in Ready
      /\ ToSet(rest) \subseteq Rids /\ ToSet(f.reschedule) \subseteq Rids
  <2>1. Requested \subseteq Rids /\ ToSet(f.reschedule) \subseteq Rids
    <3>1. f.reschedule \in Seq(Rids)
      BY <1>3 DEF Dispatchers
    <3>2. QED
      BY <1>1, <3>1 DEF Requested, ToSet
  <2>2. QED
    BY <1>2, <2>1 DEF BlockInv, LowRequests
<1>9. ASSUME Doomed # {}
      PROVE  /\ ToSet(rest) \subseteq Ready
             /\ OrderedBy(rest, Higher(priority))
             /\ \A x \in ToSet(rest) : priority[x] > priority[r]
             /\ r \notin ToSet(rest)
  <2>1. /\ Requested \subseteq Ready
        /\ OrderedBy(dispatcher.reschedule, Higher(priority))
    BY <1>9 DEF BlockInv, RequestsInOrder
  <2>2. /\ OrderedBy(rest, Higher(priority))
        /\ \A x \in ToSet(rest) : <<x, r>> \in Higher(priority)
    BY <1>2, <2>1
  <2>3. \A x \in ToSet(rest) : priority[x] > priority[r]
    BY <1>8, <2>2, HigherMeans
  <2>4. r \notin ToSet(rest)
    <3>1. priority[r] \in Int
      BY <1>1
    <3>2. QED
      BY <2>3, <3>1
  <2>5. QED
    BY <1>2, <2>1, <2>2, <2>3, <2>4
<1>10. EntersAbove
  BY <1>4 DEF EntersAbove, Enters
<1>11. CASE Doomed' = {}
  <2> SUFFICES ASSUME NEW x \in Requested', Low(x)'
               PROVE  x \in Ready'
    BY <1>4, <1>6, <1>10, <1>11, Undoomed
  <2>1. x \in Rids /\ Low(x)
    BY <1>4, <1>7, <1>8
  <2>2. x \in ToSet(rest) => x \in Ready /\ x # r
    <3> SUFFICES ASSUME x \in ToSet(rest) PROVE x \in Ready /\ x # r
      OBVIOUS
    <3>1. x \in Ready
      BY <1>8, <2>1
    <3>2. x = r => r \in Doomed
      BY <2>1, <3>1 DEF Doomed
    <3>3. QED
      BY <1>9, <3>1, <3>2
  <2>3. QED
    BY <1>3, <1>4, <1>5, <2>2
<1>12. CASE Doomed' # {}
  <2>1. Doomed # {}
    BY <1>7, <1>12
  <2>2. PICK y \in Doomed' : TRUE
    BY <1>12
  <2>3. y \in Doomed /\ y # r /\ y \in Ready /\ y \in ToSet(rest)
    <3>1. y \in Doomed /\ y # r
      BY <1>7, <2>2
    <3>2. y \in Requested
      BY <3>1 DEF BlockInv, DoomedRequested
    <3>3. QED
      BY <1>2, <3>1, <3>2 DEF Doomed
  <2>4. ~(e.readyq # <<>> /\ Head(e.readyq) = r)
    <3> SUFFICES ASSUME e.readyq # <<>>, Head(e.readyq) = r PROVE FALSE
      OBVIOUS
    <3>1. PICK i \in DOMAIN e.readyq : e.readyq[i] = y
      BY <2>3 DEF Ready, ToSet
    <3>2. 1 \in DOMAIN e.readyq /\ e.readyq[1] = r /\ 1 < i
      BY <1>1, <2>3, <3>1
    <3>3. <<r, y>> \in Higher(priority)
      BY <1>1, <3>1, <3>2 DEF OrderedBy
    <3>4. priority[r] > priority[y] /\ priority[y] > priority[r]
      BY <1>3, <1>9, <2>1, <2>3, <3>3, HigherMeans
    <3>5. priority[r] \in Int /\ priority[y] \in Int
      BY <1>1, <1>3, <2>3
    <3>6. QED
      BY <3>4, <3>5
  <2>5. f.reschedule = rest /\ f.request_stop = dispatcher.request_stop \ {r}
    BY <1>3, <2>4
  <2>6. LowRequests'
    <3> SUFFICES ASSUME NEW x \in Requested', Low(x)'
                 PROVE  x \in Ready' /\ (x \in Doomed' => x \in dispatcher'.request_stop)
      BY DEF LowRequests
    <3>1. x \in ToSet(rest) /\ x # r /\ x \in Ready /\ x \in Requested
          /\ x \in Rids /\ Low(x)
      BY <1>2, <1>4, <1>7, <1>8, <1>9, <2>1, <2>5
    <3>2. x \in Doomed => x \in dispatcher.request_stop
      BY <3>1 DEF BlockInv, LowRequests
    <3>3. dispatcher'.request_stop = dispatcher.request_stop \ {r}
      BY <2>5 DEF f
    <3>4. QED
      BY <1>4, <1>7, <3>1, <3>2, <3>3
  <2>7. RequestsInOrder'
    <3>1. Requested' \subseteq Ready'
      BY <1>4, <1>9, <2>1, <2>5
    <3>2. dispatcher'.reschedule = rest
      BY <2>5 DEF f
    <3>3. OrderedBy(dispatcher.reschedule, Higher(priority))'
      BY <1>9, <2>1, <3>2 DEF OrderedBy, Higher
    <3>4. QED
      BY <3>1, <3>3 DEF RequestsInOrder
  <2>8. DoomedRequested'
    <3> SUFFICES ASSUME NEW x \in Doomed' PROVE x \in Requested'
      BY DEF DoomedRequested
    <3>1. x \in Doomed /\ x # r
      BY <1>7
    <3>2. x \in Requested
      BY <3>1 DEF BlockInv, DoomedRequested
    <3>3. QED
      BY <1>2, <1>4, <2>5, <3>1, <3>2
  <2>9. ScanRequests'
    BY <1>6 DEF ScanRequests
  <2>10. AllPeriodic(dispatcher)'
    BY <1>4 DEF AllPeriodic
  <2>11. QED
    BY <1>6, <1>10, <2>6, <2>7, <2>8, <2>9, <2>10 DEF BlockInv
<1>13. QED
  BY <1>11, <1>12

\* A pop of scheduler_task restarts a reserve only if it is not below the
\* mode: a request about one that is below finds it ready.
LEMMA SchedulerPopBlock ==
  ASSUME PeriodicTable, IInv, IInv', ModeInv, BlockInv, SchedulerPop
  PROVE  BlockInv' /\ EntersAbove
PROOF
<1> DEFINE s == dispatcher.reschedule
           r == Last(s)
           rest == Front(s)
           d == [dispatcher EXCEPT !.reschedule = rest]
           e == [d EXCEPT !.request_stop = @ \ {r}]
           t == [table EXCEPT ![r].enforced = TRUE]
<1>1. /\ TypeOK /\ TypeOK' /\ Unmarked /\ AllPeriodic(dispatcher)
      /\ DispatcherOK(dispatcher) /\ dispatcher \in Dispatchers
      /\ s \in Seq(Rids) /\ s # <<>> /\ dispatcher.sched_task = "running"
      /\ lock.by \in {"free", "sched"} /\ table \in [Rids -> Reserves]
      /\ priority \in [Rids -> Int] /\ sys_criticality \in Nat
      /\ \A x \in Rids : Criticality(x) \in Nat
  BY DispatcherInvariant, CriticalityType
     DEF SchedulerPop, DispatcherOK, IInv, TypeOK, BlockInv, Dispatchers
<1>2. r \in Rids /\ rest \in Seq(Rids) /\ ToSet(rest) \subseteq Requested
      /\ r \in Requested
  BY <1>1, PopMembers DEF Requested
<1>3. Alive(r)
  <2>1. r \in InUse
    <3>1. s \in Seq(InUse)
      BY DEF ModeInv, Within
    <3> HIDE DEF s
    <3>2. Len(s) \in 1 .. Len(s)
      BY <1>1
    <3>3. QED
      BY <3>1, <3>2 DEF Last
  <2>2. QED
    BY <2>1, InUseAlive
<1>4. \/ /\ r \in dispatcher.request_stop /\ table[r].enforced
         /\ dispatcher' = e
         /\ UNCHANGED table
      \/ /\ r \in dispatcher.request_stop /\ ~table[r].enforced
         /\ dispatcher' = Stop(e, r)
         /\ table' = [t EXCEPT ![r].start_period = @ - 1]
      \/ /\ r \notin dispatcher.request_stop
         /\ dispatcher' = Start(d, priority, r)
         /\ UNCHANGED table
  BY <1>3 DEF SchedulerPop, StopRequested, RestartRequested
<1>5. /\ lock'.by = "sched"
      /\ UNCHANGED <<critical_reservesq, sys_criticality, priority>>
  BY DEF SchedulerPop, critVars, Unlocked
<1>6. /\ d \in Dispatchers /\ SameExecution(dispatcher, d)
      /\ d.reschedule = rest /\ d.request_stop = dispatcher.request_stop
      /\ d.sched_task = "running" /\ d.signals = dispatcher.signals
  <2> HIDE DEF rest, s
  <2>1. QED
    BY <1>1, <1>2 DEF Dispatchers, SameExecution
<1> HIDE DEF d
<1>7. /\ e \in Dispatchers /\ SameExecution(dispatcher, e)
      /\ e.reschedule = rest /\ e.request_stop = dispatcher.request_stop \ {r}
      /\ e.sched_task = "running" /\ e.signals = dispatcher.signals
  <2> HIDE DEF r, rest, s
  <2>1. QED
    BY <1>6 DEF Dispatchers, SameExecution
<1> HIDE DEF e
<1>8. /\ DispatcherOK(d) /\ AllPeriodic(d) /\ d.readyq = dispatcher.readyq
      /\ DispatcherOK(e) /\ AllPeriodic(e) /\ e.readyq = dispatcher.readyq
  <2>1. DispatcherOK(d) /\ DispatcherOK(e)
    BY <1>1, <1>6, <1>7, SameExecutionOK
  <2>2. QED
    BY <1>1, <1>6, <1>7, <2>1 DEF AllPeriodic, SameExecution
<1>9. r \in Doomed => r \in dispatcher.request_stop
  BY <1>2 DEF BlockInv, LowRequests, Doomed
<1>10. lock.by \notin Departing /\ lock.by # "zs"
  BY <1>1 DEF Departing
<1>11. CASE /\ r \in dispatcher.request_stop /\ table[r].enforced
            /\ dispatcher' = e
            /\ UNCHANGED table
  <2>1. r \notin Doomed
    BY <1>11 DEF Doomed
  <2>2. AllPeriodic(dispatcher') /\ Watching'
    BY <1>5, <1>7, <1>8, <1>11 DEF Watching
  <2>3. dispatcher.request_stop \subseteq dispatcher'.request_stop \cup {r}
    BY <1>7, <1>11
  <2>4. QED
    BY <1>1, <1>2, <1>5, <1>7, <1>8, <1>10, <1>11, <2>1, <2>2, <2>3, PopQuiet
<1>12. CASE /\ r \in dispatcher.request_stop /\ ~table[r].enforced
            /\ dispatcher' = Stop(e, r)
            /\ table' = [t EXCEPT ![r].start_period = @ - 1]
  <2>1. \A x \in Rids : /\ table'[x].spec = table[x].spec
                        /\ table'[x].enforced = (x = r \/ table[x].enforced)
                        /\ ~table'[x].end_of_period_marked
    <3> HIDE DEF r
    <3>1. \A x \in Rids : /\ table[x] \in Reserves
                          /\ ~table[x].end_of_period_marked
      BY <1>1 DEF Unmarked
    <3>2. \A x \in Rids : x # r => table'[x] = table[x]
      BY <1>1, <1>2, <1>12
    <3>3. /\ table'[r].spec = table[r].spec /\ table'[r].enforced = TRUE
          /\ table'[r].end_of_period_marked = table[r].end_of_period_marked
      BY <1>1, <1>2, <1>12, <3>1 DEF Reserves
    <3>4. \A x \in Rids : x # r => table[x].enforced \in BOOLEAN
      BY <3>1 DEF Reserves
    <3>5. QED
      BY <1>2, <3>1, <3>2, <3>3, <3>4
  <2>2. QED
    BY <1>1, <1>2, <1>5, <1>7, <1>8, <1>12, <2>1, PopStops
<1>13. CASE /\ r \notin dispatcher.request_stop
            /\ dispatcher' = Start(d, priority, r)
            /\ UNCHANGED table
  <2>1. r \notin Doomed
    BY <1>9, <1>13
  <2>2. ToSet(dispatcher.readyq) = Ready /\ Ready \subseteq Rids
        /\ dispatcher.readyq \in Seq(Rids)
    BY <1>1 DEF Ready, ToSet, Dispatchers
  <2>3. CASE r \in Ready
    <3>1. dispatcher' = d
      BY <1>8, <1>13, <2>2, <2>3 DEF Start, Ready, ToSet
    <3>2. AllPeriodic(dispatcher') /\ Watching'
      BY <1>5, <1>6, <1>8, <3>1 DEF Watching
    <3>3. dispatcher.request_stop \subseteq dispatcher'.request_stop \cup {r}
      BY <1>6, <3>1
    <3>4. QED
      BY <1>1, <1>2, <1>5, <1>6, <1>8, <1>10, <1>13, <2>1, <3>1, <3>2, <3>3,
         PopQuiet
  <2>4. CASE r \notin Ready
    <3> DEFINE f == Start(d, priority, r)
    <3>1. ~Low(r) /\ Doomed = {}
      BY <1>2, <2>4 DEF BlockInv, LowRequests, RequestsInOrder
    <3>2. Criticality(r) >= sys_criticality
      BY <1>1, <1>2, <3>1 DEF Low
    <3>3. /\ f \in Dispatchers /\ ToSet(f.readyq) = Ready \cup {r}
          /\ AllPeriodic(f) /\ Asks(d, f)
      BY <1>1, <1>2, <1>6, <1>8, <2>2, StartType, StartAsks
    <3> HIDE DEF f
    <3>4. /\ f.sched_task = "running"
          /\ \A x \in ToSet(f.reschedule) : x \in Requested \/ x \in ToSet(f.readyq)
      <4>1. f.sched_task = "running"
        BY <1>6, <3>3 DEF Asks
      <4>2. \A x \in ToSet(f.reschedule) :
              x \in ToSet(d.reschedule) \/ x \in ToSet(f.readyq)
        BY <1>6, <3>3, AsksWatched
      <4>3. QED
        BY <1>2, <1>6, <4>1, <4>2
    <3>5. dispatcher' = f
      BY <1>13 DEF f
    <3>6. \A x \in Requested : Criticality(x) >= sys_criticality \/ x \in Ready
      <4>1. Requested \subseteq Rids
        BY <1>1 DEF Requested, ToSet
      <4>2. QED
        BY <1>1, <4>1 DEF BlockInv, LowRequests, Low
    <3>7. /\ Unmarked' /\ AllPeriodic(dispatcher') /\ Watching' /\ lock'.by # "zs"
          /\ sys_criticality' <= sys_criticality
          /\ critical_reservesq'.next = critical_reservesq.next
          /\ \A x \in Rids : table'[x] = table[x]
      BY <1>1, <1>5, <1>13, <3>3, <3>4, <3>5 DEF Unmarked, Watching
    <3>8. \A x \in ToSet(dispatcher'.readyq) :
            \/ Criticality(x) >= sys_criticality
            \/ x \in Ready /\ table'[x].enforced = table[x].enforced
      BY <2>2, <3>2, <3>3, <3>5, <3>7
    <3>9. \A x \in ToSet(dispatcher'.reschedule) :
            \/ Criticality(x) >= sys_criticality
            \/ x \in ToSet(dispatcher'.readyq)
      BY <3>3, <3>4, <3>5, <3>6
    <3>10. QED
      BY <1>1, <3>1, <3>7, <3>8, <3>9, QuietBlock
  <2>5. QED
    BY <2>3, <2>4
<1>14. QED
  BY <1>4, <1>11, <1>12, <1>13

\* A request about a later reserve keeps the stack in the order of the queue.
LEMMA AppendOrdered ==
  ASSUME NEW S, NEW s \in Seq(S), NEW x \in S, NEW R, OrderedBy(s, R),
         \A y \in ToSet(s) : <<y, x>> \in R
  PROVE  OrderedBy(Append(s, x), R)
PROOF
<1> DEFINE a == Append(s, x)
           n == Len(s)
<1>1. /\ n \in Nat /\ DOMAIN a = 1 .. n + 1 /\ DOMAIN s = 1 .. n
      /\ a[n + 1] = x
      /\ \A i \in 1 .. n : a[i] = s[i]
  OBVIOUS
<1> HIDE DEF a, n
<1>2. SUFFICES ASSUME NEW i \in DOMAIN a, NEW j \in DOMAIN a, i < j
               PROVE  <<a[i], a[j]>> \in R
  BY DEF OrderedBy, a
<1>3. i \in 1 .. n /\ (j \in 1 .. n \/ j = n + 1)
  BY <1>1, <1>2
<1>4. CASE j \in 1 .. n
  BY <1>1, <1>2, <1>3, <1>4 DEF OrderedBy
<1>5. CASE j = n + 1
  <2>1. a[i] \in ToSet(s)
    BY <1>1, <1>3 DEF ToSet
  <2>2. QED
    BY <1>1, <1>5, <2>1
<1>6. QED
  BY <1>3, <1>4, <1>5

\* The loop of zs_enforcement requests what it passes and what is below the
\* mode, once; at its end every such reserve is requested.
LEMMA ZeroSlackScanBlock ==
  ASSUME IInv, IInv', ScanFromHead, BlockInv, ZeroSlackScan
  PROVE  BlockInv' /\ EntersAbove
PROOF
<1> DEFINE q == dispatcher.readyq
           s == dispatcher.reschedule
           n == lock.at
           x == q[n]
           d == [dispatcher EXCEPT !.request_stop = @ \cup {x}]
<1>1. /\ TypeOK /\ Unmarked /\ AllPeriodic(dispatcher)
      /\ dispatcher \in Dispatchers /\ OrderedBy(q, Higher(priority))
      /\ q \in Seq(Rids) /\ s \in Seq(Rids) /\ Distinct(q)
      /\ lock \in Locks /\ n \in Nat /\ n >= 1 /\ lock.by = "zs"
  <2>1. TypeOK /\ DispatcherOK(dispatcher) /\ lock.by = "zs"
    BY DispatcherInvariant DEF IInv, ZeroSlackScan
  <2>2. /\ dispatcher \in Dispatchers /\ q \in Seq(Rids) /\ s \in Seq(Rids)
        /\ lock \in Locks /\ n \in Nat /\ priority \in [Rids -> Int]
    BY <2>1 DEF TypeOK, Dispatchers, Locks
  <2>3. QED
    BY <2>1, <2>2, SortedDistinct DEF BlockInv, ScanFromHead, DispatcherOK
<1>2. UNCHANGED <<table, critical_reservesq, sys_criticality, priority>>
  BY DEF ZeroSlackScan
<1>3. Requested = ToSet(s) /\ Ready = ToSet(q) /\ Ready \subseteq Rids
      /\ \A y \in Rids : Criticality(y) \in Nat /\ sys_criticality \in Nat
  BY <1>1, CriticalityType DEF Requested, Ready, ToSet, TypeOK
<1>4. /\ dispatcher.sched_task = "asleep" /\ (s # <<>> => lock.wake)
      /\ LowRequests /\ Requested \subseteq Ready
      /\ OrderedBy(s, Higher(priority))
      /\ Len(s) < n
      /\ \A y \in Requested : \E k \in DOMAIN q : k < n /\ q[k] = y
      /\ \A y \in Doomed :
           \/ y \in Requested
           \/ \E k \in DOMAIN q : k >= n /\ q[k] = y
  <2>1. dispatcher.sched_task = "asleep" /\ (s # <<>> => lock.wake)
    BY <1>1 DEF BlockInv, Watching
  <2>2. QED
    BY <1>1, <2>1
       DEF BlockInv, RequestsInOrder, ScanRequests, DoomedRequested
<1>5. /\ \A y : Low(y)' <=> Low(y)
      /\ Unmarked' /\ Falling(critical_reservesq)'
  BY <1>2 DEF BlockInv, Low, Criticality, Unmarked, Falling
<1>6. ASSUME dispatcher'.readyq = q
      PROVE  Ready' = Ready /\ Doomed' = Doomed /\ EntersAbove
  <2>1. Ready' = Ready
    BY <1>6 DEF Ready, ToSet
  <2>2. QED
    BY <1>2, <1>5, <2>1 DEF Doomed, EntersAbove, Enters
<1>7. CASE /\ n > Len(q)
           /\ lock' = Unlocked
           /\ dispatcher' = IF lock.wake THEN WakeScheduler(dispatcher)
                            ELSE dispatcher
  <2>1. /\ dispatcher'.readyq = q /\ dispatcher'.reschedule = s
        /\ dispatcher'.request_stop = dispatcher.request_stop
        /\ dispatcher'.signals = dispatcher.signals
        /\ dispatcher'.sched_task = IF lock.wake THEN "running" ELSE "asleep"
    BY <1>1, <1>4, <1>7 DEF WakeScheduler, Dispatchers
  <2>2. lock'.by = "free"
    BY <1>7 DEF Unlocked
  <2>3. Ready' = Ready /\ Doomed' = Doomed /\ EntersAbove /\ Requested' = Requested
    BY <1>6, <2>1 DEF Requested, ToSet
  <2>4. AllPeriodic(dispatcher)' /\ Watching'
    BY <1>1, <1>4, <2>1, <2>2 DEF AllPeriodic, Watching
  <2>5. LowRequests'
    BY <1>4, <1>5, <2>1, <2>3 DEF LowRequests
  <2>6. RequestsInOrder'
    BY <1>2, <1>4, <2>1, <2>3 DEF RequestsInOrder, OrderedBy, Higher
  <2>7. Doomed \subseteq Requested
    <3>1. \A k \in DOMAIN q : ~(k >= n)
      BY <1>1, <1>7
    <3>2. QED
      BY <1>4, <3>1
  <2>8. DoomedRequested' /\ ScanRequests'
    BY <2>2, <2>3, <2>7 DEF DoomedRequested, ScanRequests
  <2>9. lock'.by \notin Departing
    BY <2>2 DEF Departing
  <2>10. QED
    BY <1>5, <2>3, <2>4, <2>5, <2>6, <2>8, <2>9 DEF BlockInv
<1>8. CASE /\ n <= Len(q)
           /\ Criticality(x) >= sys_criticality
           /\ lock' = [lock EXCEPT !.at = @ + 1]
           /\ UNCHANGED dispatcher
  <2>1. lock'.by = "zs" /\ lock'.at = n + 1 /\ lock'.wake = lock.wake
    BY <1>1, <1>8 DEF Locks
  <2>2. Ready' = Ready /\ Doomed' = Doomed /\ EntersAbove /\ Requested' = Requested
    BY <1>6, <1>8 DEF Requested, ToSet
  <2>3. AllPeriodic(dispatcher)' /\ Watching'
    BY <1>1, <1>4, <1>8, <2>1 DEF AllPeriodic, Watching
  <2>4. LowRequests'
    BY <1>4, <1>5, <1>8, <2>2 DEF LowRequests
  <2>5. RequestsInOrder'
    BY <1>2, <1>4, <1>8, <2>2 DEF RequestsInOrder, OrderedBy, Higher
  <2>6. x \notin Doomed
    <3>1. n \in 1 .. Len(q)
      BY <1>1, <1>8
    <3>2. x \in Rids
      <4> HIDE DEF q
      <4>1. QED
        BY <1>1, <3>1
    <3> HIDE DEF x
    <3>3. QED
      BY <1>3, <1>8, <3>2 DEF Doomed, Low
  <2>7. DoomedRequested'
    <3> SUFFICES ASSUME NEW y \in Doomed', y \notin Requested'
                 PROVE  \E k \in DOMAIN dispatcher'.readyq :
                          k >= lock'.at /\ dispatcher'.readyq[k] = y
      BY <2>1 DEF DoomedRequested
    <3>1. PICK k \in DOMAIN q : k >= n /\ q[k] = y
      BY <1>4, <2>2
    <3>2. k # n
      BY <2>2, <2>6, <3>1
    <3>3. k >= n + 1
      BY <1>1, <3>1, <3>2
    <3>4. QED
      BY <1>8, <2>1, <3>1, <3>3
  <2>8. ScanRequests'
    <3>1. Len(s) \in Nat /\ \A k \in DOMAIN q : k \in Nat
      BY <1>1
    <3>2. Len(s) < n + 1 /\ \A k \in DOMAIN q : k < n => k < n + 1
      BY <1>1, <1>4, <3>1
    <3>3. QED
      BY <1>4, <1>8, <2>1, <2>2, <3>2 DEF ScanRequests
  <2>9. lock'.by \notin Departing
    BY <2>1 DEF Departing
  <2>10. QED
    BY <1>5, <2>2, <2>3, <2>4, <2>5, <2>7, <2>8, <2>9 DEF BlockInv
<1>9. CASE /\ n <= Len(q)
           /\ lock' = [lock EXCEPT !.at = @ + 1, !.wake = TRUE]
           /\ dispatcher' = PushToReschedule(d, x)
  <2> DEFINE a == Append(s, x)
  <2>1. n \in 1 .. Len(q)
    BY <1>1, <1>9
  <2>2. x \in Rids /\ x \in Ready
    <3> HIDE DEF q
    <3>1. QED
      BY <1>1, <1>3, <2>1 DEF ToSet
  <2>3. Len(s) < MaxReserves
    <3>1. Len(q) <= MaxReserves
      BY <1>1, DistinctBounded
    <3>2. QED
      BY <1>1, <1>4, <1>9, <3>1, MaxReservesAssumption
  <2>4. lock'.by = "zs" /\ lock'.at = n + 1 /\ lock'.wake
    BY <1>1, <1>9 DEF Locks
  <2> HIDE DEF x
  <2>5. a \in Seq(Rids) /\ ToSet(a) = Requested \cup {x} /\ Len(a) = Len(s) + 1
    BY <1>1, <1>3, <2>2, AppendMembers
  <2>6. OrderedBy(a, Higher(priority))
    <3>1. ASSUME NEW y \in ToSet(s) PROVE <<y, x>> \in Higher(priority)
      <4>1. PICK k \in DOMAIN q : k < n /\ q[k] = y
        BY <1>3, <1>4
      <4>2. n \in DOMAIN q
        BY <1>1, <2>1
      <4>3. QED
        BY <1>1, <4>1, <4>2 DEF OrderedBy, x
    <3>2. QED
      BY <1>1, <1>4, <2>2, <3>1, AppendOrdered
  <2>7. /\ dispatcher'.readyq = q /\ dispatcher'.reschedule = a
        /\ dispatcher'.request_stop = dispatcher.request_stop \cup {x}
        /\ dispatcher'.signals = dispatcher.signals
        /\ dispatcher'.sched_task = "asleep"
    <3>1. /\ d \in Dispatchers /\ d.readyq = q /\ d.reschedule = s
          /\ d.request_stop = dispatcher.request_stop \cup {x}
          /\ d.signals = dispatcher.signals /\ d.sched_task = "asleep"
      BY <1>1, <1>4, <2>2 DEF Dispatchers
    <3> HIDE DEF d, q, s
    <3>2. QED
      BY <1>9, <2>3, <3>1 DEF PushToReschedule, Dispatchers
  <2> HIDE DEF a
  <2>8. Ready' = Ready /\ Doomed' = Doomed /\ EntersAbove
        /\ Requested' = Requested \cup {x}
    <3>1. Requested' = ToSet(a)
      BY <2>7 DEF Requested, ToSet
    <3>2. QED
      BY <1>6, <2>5, <2>7, <3>1
  <2>9. AllPeriodic(dispatcher)' /\ Watching'
    BY <1>1, <2>4, <2>7 DEF AllPeriodic, Watching
  <2>10. LowRequests'
    <3> SUFFICES ASSUME NEW y \in Requested', Low(y)'
                 PROVE  y \in Ready' /\ (y \in Doomed' => y \in dispatcher'.request_stop)
      BY DEF LowRequests
    <3>1. y = x \/ (y \in Ready /\ (y \in Doomed => y \in dispatcher.request_stop))
      BY <1>4, <1>5, <2>8 DEF LowRequests
    <3>2. QED
      BY <2>2, <2>7, <2>8, <3>1
  <2>11. RequestsInOrder'
    <3>1. OrderedBy(dispatcher.reschedule, Higher(priority))'
      BY <1>2, <2>6, <2>7 DEF OrderedBy, Higher
    <3>2. Requested' \subseteq Ready'
      BY <1>4, <2>2, <2>8
    <3>3. QED
      BY <3>1, <3>2 DEF RequestsInOrder
  <2>12. DoomedRequested'
    <3> SUFFICES ASSUME NEW y \in Doomed', y \notin Requested'
                 PROVE  \E k \in DOMAIN dispatcher'.readyq :
                          k >= lock'.at /\ dispatcher'.readyq[k] = y
      BY <2>4 DEF DoomedRequested
    <3>1. PICK k \in DOMAIN q : k >= n /\ q[k] = y
      BY <1>4, <2>8
    <3>2. k # n
      BY <2>8, <3>1 DEF x
    <3>3. k >= n + 1
      BY <1>1, <3>1, <3>2
    <3>4. QED
      BY <2>4, <2>7, <3>1, <3>3
  <2>13. ScanRequests'
    <3>1. Len(s) \in Nat /\ n \in DOMAIN q /\ \A k \in DOMAIN q : k \in Nat
      BY <1>1, <2>1
    <3>2. /\ Len(a) < n + 1 /\ n < n + 1
          /\ \A k \in DOMAIN q : k < n => k < n + 1
      BY <1>1, <1>4, <2>5, <3>1
    <3>3. \A y \in Requested' : \E k \in DOMAIN q : k < n + 1 /\ q[k] = y
      BY <1>4, <2>8, <3>1, <3>2 DEF x
    <3>4. QED
      BY <2>4, <2>7, <3>2, <3>3 DEF ScanRequests
  <2>14. lock'.by \notin Departing
    BY <2>4 DEF Departing
  <2>15. QED
    BY <1>5, <2>8, <2>9, <2>10, <2>11, <2>12, <2>13, <2>14 DEF BlockInv
<1>10. QED
  BY <1>7, <1>8, <1>9 DEF ZeroSlackScan

\* Every step keeps the invariant, and starts no reserve below the mode.
LEMMA BlockNext ==
  ASSUME PeriodicTable, AttachesAbove, IInv, IInv', ScanFromHead, ModeInv,
         BlockInv, Next
  PROVE  BlockInv' /\ EntersAbove
PROOF
<1>1. ASSUME NEW r \in Rids,
             SystemCall(r) \/ EnforcementSignal(r) \/ Die(r) \/ Timer(r)
      PROVE  BlockInv' /\ EntersAbove
  <2>1. ~Die(r)
    BY DEF Die, PeriodicTable, Undeleted
  <2>2. QED
    BY <1>1, <2>1, SystemCallBlock, EnforcementSignalBlock, PeriodTimerBlock,
       EnforcementTimerBlock, ZeroSlackTimerBlock DEF Timer
<1>2. QED
  BY <1>1, CreateReserveBlock, SchedulerPopBlock, ReleaseBlockedBlock,
     FinishDepartureBlock, ZeroSlackScanBlock, RestBlock
     DEF Next, SchedulerTask, Continue

\* At the start nothing is ready and nothing is requested.
LEMMA BlockInit ==
  ASSUME Init
  PROVE  BlockInv
PROOF
<1>1. Ready = {} /\ Requested = {} /\ Doomed = {}
  BY DEF Init, Ready, Requested, Doomed, ToSet
<1>2. lock.by = "free" /\ dispatcher.sched_task = "asleep"
      /\ dispatcher.reschedule = <<>>
  BY DEF Init, Unlocked
<1>3. Unmarked /\ AllPeriodic(dispatcher) /\ Falling(critical_reservesq)
  BY DEF Init, Unmarked, AllPeriodic, Falling, EmptyList
<1>4. Watching /\ LowRequests /\ RequestsInOrder /\ DoomedRequested
      /\ ScanRequests
  BY <1>1, <1>2
     DEF Watching, LowRequests, RequestsInOrder, DoomedRequested, ScanRequests
<1>5. QED
  BY <1>1, <1>3, <1>4 DEF BlockInv

\* No reserve enters the ready queue below sys_criticality (scheduler_task,
\* start_of_period and wait_for_next_period start none) while nothing is
\* deleted, the scheduler thread runs before other handlers and tasks only
\* wait for their next period, provided that none is attached below it.
THEOREM NothingEntersBelow ==
  ASSUME PeriodicTable
  PROVE  Spec /\ [][AttachesAbove]_vars => NoEntryBelow
PROOF
<1> DEFINE A == \A r \in Rids : Enters(r) /\ table[r].pid = Attached =>
                  Criticality(r) >= sys_criticality
<1>1. Undeleted
  BY DEF PeriodicTable
<1>2. Spec => [](IInv /\ ScanFromHead /\ ModeInv)
  BY <1>1, Invariance, ModeInvariance, PTL
<1>3. Init => BlockInv
  BY BlockInit
<1>4. IInv /\ IInv' /\ ScanFromHead /\ ModeInv /\ BlockInv
        /\ [Next]_vars /\ [AttachesAbove]_vars => BlockInv' /\ [A]_vars
  <2> SUFFICES ASSUME IInv, IInv', ScanFromHead, ModeInv, BlockInv,
                      [Next]_vars, [AttachesAbove]_vars
               PROVE  BlockInv' /\ [A]_vars
    OBVIOUS
  <2>1. CASE UNCHANGED vars
    <3>1. BlockInv'
      BY <2>1
         DEF vars, critVars, BlockInv, Unmarked, AllPeriodic, Falling,
             Criticality, Watching, LowRequests, RequestsInOrder, OrderedBy,
             Higher, DoomedRequested, ScanRequests, Requested, Doomed, Low,
             Ready, ToSet
    <3>2. QED
      BY <2>1, <3>1
  <2>2. CASE Next /\ AttachesAbove
    <3>1. BlockInv' /\ EntersAbove
      BY <2>2, BlockNext
    <3>2. QED
      BY <3>1 DEF EntersAbove
  <2>3. QED
    BY <2>1, <2>2
<1> HIDE DEF A
<1>5. Spec /\ [][AttachesAbove]_vars => [][A]_vars
  BY <1>2, <1>3, <1>4, PTL DEF Spec
<1>6. QED
  BY <1>5 DEF NoEntryBelow, A
-----------------------------------------------------------------------------
(***************************************************************************)
(* The reserves blocked by a more critical one.  A departure resumes those *)
(* that are no longer below the mode, and then puts its own task to sleep: *)
(* that task must not be one of those it has resumed.  While no handler is *)
(* under way whatever is linked into crit_blockq is below the mode, so the *)
(* task that departs, if it lowers the mode, is not linked.  A departure   *)
(* leaves it so if its loop takes off every reserve that is not below the  *)
(* mode, which the bound on the loop prevents if the queue has no end.     *)
(***************************************************************************)

Blocked == Linked(crit_blockq)

\* The departure under way goes through crit_blockq.
Releasing == lock.by \in Departing /\ lock.blocked # "keep"

\* The inductive invariant.
AwakeInv ==
  /\ Unmarked
  /\ Falling(crit_blockq)
  /\ \A r \in Blocked : Low(r) \/ (Releasing /\ r # lock.rid)
  /\ Releasing => Cardinality(Blocked) + lock.at <= MaxReserves
  /\ lock.by \in Departing => lock.rid \notin Ready
  /\ \A r \in Ready : task[r] \notin {"sleeping", "masked"}

\* What is reached stays in a set that the hops do not leave.
LEMMA ReachedWithin ==
  ASSUME NEW hop, NEW s, NEW S \in SUBSET Rids, s \in S,
         \A t \in S : hop[t] # Nil => hop[t] \in S
  PROVE  ReachedFrom(hop, s) \subseteq S
PROOF
BY DEF ReachedFrom

\* The start is reached, and so is what is one hop away.
LEMMA ReachedClosed ==
  ASSUME NEW hop \in [Rids -> Rids \cup {Nil}], NEW s \in Rids
  PROVE  /\ ReachedFrom(hop, s) \in SUBSET Rids
         /\ s \in ReachedFrom(hop, s)
         /\ \A t \in ReachedFrom(hop, s) :
              hop[t] # Nil => hop[t] \in ReachedFrom(hop, s)
PROOF
<1>1. ReachedFrom(hop, s) \in SUBSET Rids /\ s \in ReachedFrom(hop, s)
  BY DEF ReachedFrom
<1>2. ASSUME NEW t \in ReachedFrom(hop, s), hop[t] # Nil
      PROVE  hop[t] \in ReachedFrom(hop, s)
  <2>1. t \in Rids /\ hop[t] \in Rids
    BY <1>1, <1>2
  <2>2. ASSUME NEW S \in SUBSET Rids, s \in S,
               \A x \in S : hop[x] # Nil => hop[x] \in S
        PROVE  hop[t] \in S
    <3>1. t \in S
      BY <2>2 DEF ReachedFrom
    <3>2. QED
      BY <1>2, <2>2, <3>1
  <2>3. QED
    BY <2>1, <2>2 DEF ReachedFrom
<1>3. QED
  BY <1>1, <1>2

\* A list holds its head and is closed under its links.
LEMMA LinkedClosed ==
  ASSUME NEW l \in Lists
  PROVE  /\ Linked(l) \in SUBSET Rids
         /\ l.head # Nil => l.head \in Linked(l)
         /\ \A t \in Linked(l) : l.next[t] # Nil => l.next[t] \in Linked(l)
PROOF
<1>1. l.next \in [Rids -> Rids \cup {Nil}] /\ l.head \in Rids \cup {Nil}
  BY DEF Lists
<1>2. CASE l.head = Nil
  BY <1>2 DEF Linked
<1>3. CASE l.head # Nil
  <2>1. Linked(l) = ReachedFrom(l.next, l.head) /\ l.head \in Rids
    BY <1>1, <1>3 DEF Linked
  <2>2. QED
    BY <1>1, <2>1, ReachedClosed
<1>4. QED
  BY <1>2, <1>3

\* A set that holds the head and is closed under the links holds the list.
LEMMA LinkedWithin ==
  ASSUME NEW l, NEW S \in SUBSET Rids, l.head # Nil => l.head \in S,
         \A t \in S : l.next[t] # Nil => l.next[t] \in S
  PROVE  Linked(l) \subseteq S
PROOF
<1>1. CASE l.head = Nil
  BY <1>1 DEF Linked
<1>2. CASE l.head # Nil
  <2>1. Linked(l) = ReachedFrom(l.next, l.head)
    BY <1>2 DEF Linked
  <2>2. QED
    BY <1>2, <2>1, ReachedWithin
<1>3. QED
  BY <1>1, <1>2

\* The members of a list are those its links lead into.
LEMMA LinkedIn ==
  ASSUME NEW l \in Lists, NEW A \in SUBSET Rids, LinksIn(l, A)
  PROVE  Linked(l) \subseteq A
PROOF
<1>1. l.head # Nil => l.head \in A
  BY DEF LinksIn
<1>2. \A t \in A : l.next[t] # Nil => l.next[t] \in A
  BY DEF LinksIn
<1>3. QED
  BY <1>1, <1>2, LinkedWithin

\* No member of a falling list is more critical than the head.
LEMMA LinkedFalls ==
  ASSUME TypeOK, NEW l \in Lists, Falling(l), l.head # Nil,
         NEW r \in Linked(l)
  PROVE  Criticality(r) <= Criticality(l.head)
PROOF
<1> DEFINE S == {x \in Rids : Criticality(x) <= Criticality(l.head)}
<1>1. /\ l.next \in [Rids -> Rids \cup {Nil}] /\ l.head \in Rids
      /\ \A x \in Rids : Criticality(x) \in Nat
  BY CriticalityType DEF Lists
<1>2. l.head \in S
  BY <1>1
<1>3. \A t \in S : l.next[t] # Nil => l.next[t] \in S
  <2> SUFFICES ASSUME NEW t \in Rids, Criticality(t) <= Criticality(l.head),
                      l.next[t] # Nil
               PROVE  l.next[t] \in Rids
                      /\ Criticality(l.next[t]) <= Criticality(l.head)
    OBVIOUS
  <2>1. l.next[t] \in Rids /\ Criticality(l.next[t]) <= Criticality(t)
    BY <1>1 DEF Falling
  <2>2. QED
    BY <1>1, <2>1
<1>4. Linked(l) \subseteq S
  <2> HIDE DEF S
  <2>1. S \in SUBSET Rids
    BY DEF S
  <2>2. QED
    BY <1>2, <1>3, <2>1, LinkedWithin
<1>5. QED
  BY <1>4

\* Clearing a link adds no member.
LEMMA LinkedCut ==
  ASSUME NEW l \in Lists, NEW r \in Rids
  PROVE  Linked([l EXCEPT !.next[r] = Nil]) \subseteq Linked(l)
PROOF
<1> DEFINE m == [l EXCEPT !.next[r] = Nil]
<1>1. m.head = l.head /\ \A t \in Rids : m.next[t] = IF t = r THEN Nil ELSE l.next[t]
  BY DEF Lists
<1>2. /\ Linked(l) \in SUBSET Rids
      /\ l.head # Nil => l.head \in Linked(l)
      /\ \A t \in Linked(l) : l.next[t] # Nil => l.next[t] \in Linked(l)
  BY LinkedClosed
<1> HIDE DEF m
<1>3. Linked(m) \subseteq Linked(l)
  BY <1>1, <1>2, LinkedWithin
<1>4. QED
  BY <1>3 DEF m

\* An insertion adds no member but r.
LEMMA LinkedAdd ==
  ASSUME NEW l \in Lists, NEW crit, NEW r \in Rids
  PROVE  Linked(AddByCriticality(l, crit, r)) \subseteq Linked(l) \cup {r}
PROOF
<1> DEFINE next == [l.next EXCEPT ![r] = Nil]
           hop == [t \in Rids |->
                     IF t # r /\ next[t] # Nil /\ crit[next[t]] > crit[r]
                     THEN next[t] ELSE Nil]
           ends == {t \in ReachedFrom(hop, l.head) : hop[t] = Nil}
           place == CHOOSE t \in ends : TRUE
           linked == [next EXCEPT ![r] = next[place], ![place] = r]
           first == [next EXCEPT ![r] = l.head]
           S == Linked(l) \cup {r}
           N == [Rids -> Rids \cup {Nil}]
           Stays(n) == \A t \in S : n[t] # Nil => n[t] \in S
<1>1. /\ S \in SUBSET Rids /\ l.next \in N /\ l.head \in Rids \cup {Nil}
      /\ l.head # Nil => l.head \in Linked(l)
      /\ \A t \in Linked(l) : l.next[t] # Nil => l.next[t] \in Linked(l)
  BY LinkedClosed DEF Lists
<1>2. AddByCriticality(l, crit, r) =
        IF l.head = Nil THEN [head |-> r, next |-> next]
        ELSE IF crit[l.head] < crit[r] THEN [head |-> r, next |-> first]
        ELSE IF ends = {} \/ r \in ends THEN [l EXCEPT !.next = next]
        ELSE [l EXCEPT !.next = linked]
  BY DEF AddByCriticality
<1>3. next \in N /\ \A t \in Rids : next[t] = IF t = r THEN Nil ELSE l.next[t]
  BY <1>1
<1>4. Stays(next)
  <2> HIDE DEF next
  <2>1. QED
    BY <1>1, <1>3
<1>5. l.head # Nil => Stays(first)
  <2> HIDE DEF next
  <2>1. \A t \in Rids : first[t] = IF t = r THEN l.head ELSE next[t]
    BY <1>3
  <2> HIDE DEF first
  <2>2. QED
    BY <1>1, <1>4, <2>1
<1>6. ASSUME l.head # Nil, ends # {}, r \notin ends
      PROVE  Stays(linked)
  <2>1. \A t \in Rids : hop[t] # Nil => t # r /\ hop[t] = l.next[t]
    <3> HIDE DEF next
    <3>1. QED
      BY <1>3
  <2> HIDE DEF hop
  <2>2. \A t \in Linked(l) : hop[t] # Nil => hop[t] \in Linked(l)
    BY <1>1, <2>1
  <2>3. ReachedFrom(hop, l.head) \subseteq Linked(l)
    BY <1>1, <1>6, <2>2, ReachedWithin
  <2>4. place \in ends
    BY <1>6
  <2>5. place \in Linked(l) /\ place # r
    <3> HIDE DEF place
    <3>1. QED
      BY <1>6, <2>3, <2>4
  <2> HIDE DEF next, place
  <2>6. place \in Rids /\ next[place] = l.next[place]
    BY <1>1, <1>3, <2>5
  <2>7. \A t \in Rids : linked[t] = IF t = place THEN r
                                    ELSE IF t = r THEN next[place] ELSE next[t]
    BY <1>3, <2>6
  <2> HIDE DEF linked
  <2>8. next[place] # Nil => next[place] \in S
    BY <1>1, <2>5, <2>6
  <2>9. QED
    BY <1>1, <1>4, <2>7, <2>8
<1> HIDE DEF next, ends, linked, first, hop, place
<1>7. ASSUME NEW n, Stays(n)
      PROVE  /\ Linked([head |-> r, next |-> n]) \subseteq S
             /\ Linked([l EXCEPT !.next = n]) \subseteq S
  <2> HIDE DEF S
  <2>1. r \in S /\ (l.head # Nil => l.head \in S)
    BY <1>1 DEF S
  <2> DEFINE m == [head |-> r, next |-> n]
             k == [l EXCEPT !.next = n]
  <2>2. m.head = r /\ m.next = n
    OBVIOUS
  <2>3. k.head = l.head /\ k.next = n
    BY DEF Lists
  <2> HIDE DEF m, k
  <2>4. Linked(m) \subseteq S
    BY <1>1, <1>7, <2>1, <2>2, LinkedWithin
  <2>5. Linked(k) \subseteq S
    BY <1>1, <1>7, <2>1, <2>3, LinkedWithin
  <2>6. QED
    BY <2>4, <2>5 DEF m, k
<1>8. QED
  BY <1>2, <1>4, <1>5, <1>6, <1>7

\* Taking the head off a list that ends takes it out of the list: if links led
\* back to the head, none of its members would be the last.
LEMMA LinkedBehead ==
  ASSUME NEW l \in Lists, l.head # Nil, Acyclic(l)
  PROVE  Linked(Behead(l)) \subseteq Linked(l) \ {l.head}
PROOF
<1> DEFINE h == l.head
           s == l.next[h]
           Back(x) == h \in ReachedFrom(l.next, x)
           W == {x \in Rids : Back(x)}
<1>1. l.next \in [Rids -> Rids \cup {Nil}] /\ h \in Rids
  BY DEF Lists
<1>2. s \in Rids \cup {Nil} /\ Behead(l).head = s /\ Behead(l).next = l.next
  BY <1>1 DEF Behead, Lists
<1>3. /\ Linked(l) \in SUBSET Rids /\ h \in Linked(l)
      /\ \A t \in Linked(l) : l.next[t] # Nil => l.next[t] \in Linked(l)
  BY LinkedClosed
<1>4. Linked(Behead(l)) \subseteq Linked(l)
  BY <1>2, <1>3, LinkedWithin
<1>5. h \notin Linked(Behead(l))
  <2> SUFFICES ASSUME h \in Linked(Behead(l)) PROVE FALSE
    OBVIOUS
  <2>1. s # Nil /\ Back(s) /\ s \in Rids
    BY <1>2 DEF Linked
  <2>2. PICK z \in Linked(l) : l.next[z] = Nil
    BY DEF Acyclic
  <2>3. ASSUME NEW x \in Rids, Back(x), x # h
        PROVE  l.next[x] # Nil /\ Back(l.next[x])
    <3>1. l.next[x] # Nil
      <4> SUFFICES ASSUME l.next[x] = Nil PROVE FALSE
        OBVIOUS
      <4>1. {x} \in SUBSET Rids /\ x \in {x}
            /\ \A t \in {x} : l.next[t] # Nil => l.next[t] \in {x}
        OBVIOUS
      <4>2. ReachedFrom(l.next, x) \subseteq {x}
        BY <4>1, ReachedWithin
      <4>3. QED
        BY <2>3, <4>2
    <3>2. l.next[x] \in Rids
      BY <1>1, <3>1
    <3> DEFINE R == ReachedFrom(l.next, l.next[x])
    <3>3. /\ R \in SUBSET Rids /\ l.next[x] \in R
          /\ \A t \in R : l.next[t] # Nil => l.next[t] \in R
      BY <1>1, <3>2, ReachedClosed
    <3> HIDE DEF R
    <3>4. R \cup {x} \in SUBSET Rids /\ x \in R \cup {x}
          /\ \A t \in R \cup {x} : l.next[t] # Nil => l.next[t] \in R \cup {x}
      BY <3>3
    <3>5. ReachedFrom(l.next, x) \subseteq R \cup {x}
      BY <3>4, ReachedWithin
    <3>6. h \in R
      BY <2>3, <3>5
    <3>7. QED
      BY <3>1, <3>6 DEF R
  <2>4. h \in W
    BY <1>1, ReachedClosed
  <2>5. \A t \in W : l.next[t] # Nil /\ l.next[t] \in W
    <3> SUFFICES ASSUME NEW t \in Rids, Back(t)
                 PROVE  l.next[t] # Nil /\ l.next[t] \in Rids /\ Back(l.next[t])
      OBVIOUS
    <3>1. l.next[t] # Nil /\ Back(l.next[t])
      BY <2>1, <2>3
    <3>2. QED
      BY <1>1, <3>1
  <2> HIDE DEF Back, W
  <2>6. W \in SUBSET Rids
    BY DEF W
  <2>7. Linked(l) \subseteq W
    <3>1. l.head # Nil => l.head \in W
      BY <2>4
    <3>2. \A t \in W : l.next[t] # Nil => l.next[t] \in W
      BY <2>5
    <3> HIDE DEF h
    <3>3. QED
      BY <2>6, <3>1, <3>2, LinkedWithin
  <2>8. QED
    BY <2>2, <2>5, <2>7
<1>6. QED
  BY <1>4, <1>5

-----------------------------------------------------------------------------
\* A step of a handler that is not a departure and blocks no one.
LEMMA AwakeStep ==
  ASSUME TypeOK, TypeOK', AwakeInv,
         lock.by \notin Departing, lock'.by \notin Departing,
         \A r \in Rids : /\ table'[r].spec = table[r].spec
                         /\ ~table'[r].end_of_period_marked,
         crit_blockq' = crit_blockq, sys_criticality <= sys_criticality',
         \A r \in Ready' : task'[r] \notin {"sleeping", "masked"}
  PROVE  AwakeInv'
PROOF
<1>1. /\ crit_blockq \in Lists /\ sys_criticality \in Nat
      /\ sys_criticality' \in Nat /\ \A r \in Rids : Criticality(r) \in Nat
  BY CriticalityType DEF TypeOK
<1>2. \A r \in Rids : Criticality(r)' = Criticality(r)
  BY DEF Criticality
<1>3. Unmarked' /\ ~Releasing /\ ~Releasing'
  BY DEF Unmarked, Releasing
<1>4. Falling(crit_blockq)'
  <2>1. \A r \in Rids : crit_blockq.next[r] \in Rids \cup {Nil}
    BY <1>1 DEF Lists
  <2>2. \A r \in Rids : crit_blockq.next[r] # Nil =>
          /\ crit_blockq.next[r] \in Rids
          /\ Criticality(crit_blockq.next[r]) <= Criticality(r)
    BY <2>1 DEF AwakeInv, Falling
  <2>3. \A r \in Rids : crit_blockq'.next[r] # Nil =>
          table'[crit_blockq'.next[r]].spec.criticality
            <= table'[r].spec.criticality
    BY <2>2 DEF Criticality
  <2>4. QED
    BY <2>3 DEF Falling, Criticality
<1>5. Blocked' = Blocked /\ Blocked \in SUBSET Rids
  BY <1>1, LinkedClosed DEF Blocked
<1>6. \A r \in Blocked' : Low(r)'
  <2>1. \A r \in Blocked : Criticality(r) < sys_criticality
    BY <1>3 DEF AwakeInv, Low
  <2>2. \A r \in Blocked : Criticality(r)' < sys_criticality'
    BY <1>1, <1>2, <1>5, <2>1
  <2>3. QED
    BY <1>5, <2>2 DEF Low
<1>7. QED
  BY <1>3, <1>4, <1>6 DEF AwakeInv

\* A step that changes nothing the invariant is about.
LEMMA AwakeSame ==
  ASSUME AwakeInv, dispatcher'.readyq = dispatcher.readyq,
         UNCHANGED <<table, task, crit_blockq, sys_criticality, lock>>
  PROVE  AwakeInv'
PROOF
<1>1. Unmarked' /\ Falling(crit_blockq)'
  BY DEF AwakeInv, Unmarked, Falling, Criticality
<1>2. /\ Blocked' = Blocked /\ Ready' = Ready /\ (Releasing' <=> Releasing)
      /\ \A r : Low(r)' <=> Low(r)
  BY DEF Blocked, Ready, Releasing, Low, Criticality
<1>3. QED
  BY <1>1, <1>2 DEF AwakeInv

\* The ready queue after r has been stopped.
LEMMA StopReady ==
  ASSUME IInv, NEW d, DispatcherOK(d), NEW r \in Rids
  PROVE  ToSet(Stop(d, r).readyq) = ToSet(d.readyq) \ {r}
PROOF
<1>1. TypeOK /\ priority \in [Rids -> Int] /\ d \in Dispatchers
      /\ d.readyq \in Seq(Rids)
  BY DEF IInv, TypeOK, DispatcherOK, Dispatchers
<1>2. Distinct(d.readyq)
  BY <1>1, SortedDistinct DEF DispatcherOK
<1>3. QED
  BY <1>1, <1>2, StopType, DequeueProperties

\* The task that departs leaves the ready queue.  If it was in critical mode
\* and blocked itself, a more critical reserve is on top of the criticality
\* stack and the mode stays as it is.
LEMMA DepartAwake ==
  ASSUME IInv, IInv', ModeInv, AwakeInv, lock.by = "free",
         NEW d, DispatcherOK(d), d.readyq = dispatcher.readyq,
         NEW r \in Rids, NEW call \in {"wait", "handler"}, Depart(d, r, call)
  PROVE  AwakeInv'
PROOF
<1> DEFINE e == [d EXCEPT !.zero_slack = @ \ {r}]
           c == Departed(r, call)
           critical == table[r].in_critical_mode
           stack == IF critical /\ critical_reservesq.head = r
                    THEN Behead(critical_reservesq) ELSE critical_reservesq
           blocked == IF ~critical THEN "keep"
                      ELSE IF dispatcher'.current[r] <= table[r].spec.nominal
                      THEN "resume" ELSE "drop"
<1>1. /\ TypeOK /\ TypeOK' /\ Unmarked /\ table \in [Rids -> Reserves]
      /\ task \in [Rids -> TaskStates] /\ crit_blockq \in Lists
      /\ sys_criticality \in Nat /\ Ready \subseteq Rids
      /\ \A x \in Rids : Criticality(x) \in Nat
  <2>1. TypeOK /\ dispatcher.readyq \in Seq(Rids)
    BY DEF IInv, TypeOK, Dispatchers
  <2>2. Ready \subseteq Rids
    BY <2>1 DEF Ready, ToSet
  <2>3. QED
    BY <2>1, <2>2, CriticalityType DEF IInv, TypeOK, AwakeInv
<1>2. /\ dispatcher' = Stop(e, r)
      /\ table' = [table EXCEPT ![r] = c]
      /\ task' = [task EXCEPT ![r] = "running"]
      /\ sys_criticality' = IF critical THEN TopCriticality(stack)
                            ELSE sys_criticality
      /\ crit_blockq' = crit_blockq
  BY DEF Depart
<1>3. lock'.by = call /\ lock'.rid = r /\ lock'.at = 0 /\ lock'.blocked = blocked
  BY DEF Depart
<1>4. c.spec = table[r].spec /\ ~c.end_of_period_marked
  <2>1. table[r] \in Reserves /\ ~table[r].end_of_period_marked
    BY <1>1 DEF Unmarked
  <2>2. QED
    BY <2>1 DEF Departed, Reserves
<1> HIDE DEF c
<1>5. \A x \in Rids : /\ table'[x].spec = table[x].spec
                      /\ ~table'[x].end_of_period_marked
  BY <1>1, <1>2, <1>4 DEF Unmarked
<1>6. Ready' = Ready \ {r}
  <2>1. DispatcherOK(e) /\ e.readyq = d.readyq
    BY ZeroSlackOK DEF DispatcherOK, Dispatchers
  <2> HIDE DEF e
  <2>2. ToSet(dispatcher'.readyq) = ToSet(d.readyq) \ {r}
    BY <1>2, <2>1, StopReady
  <2>3. QED
    BY <2>2 DEF Ready
<1>7. \A x \in Ready' : task'[x] \notin {"sleeping", "masked"}
  BY <1>1, <1>2, <1>6 DEF AwakeInv
<1>8. \A x \in Rids : Criticality(x)' = Criticality(x)
  BY <1>5 DEF Criticality
<1>9. Falling(crit_blockq)'
  <2>1. \A x \in Rids : crit_blockq.next[x] \in Rids \cup {Nil}
    BY <1>1 DEF Lists
  <2>2. \A x \in Rids : crit_blockq.next[x] # Nil =>
          /\ crit_blockq.next[x] \in Rids
          /\ Criticality(crit_blockq.next[x]) <= Criticality(x)
    BY <2>1 DEF AwakeInv, Falling
  <2>3. \A x \in Rids : crit_blockq'.next[x] # Nil =>
          table'[crit_blockq'.next[x]].spec.criticality
            <= table'[x].spec.criticality
    BY <1>2, <1>5, <2>2 DEF Criticality
  <2>4. QED
    BY <2>3 DEF Falling, Criticality
<1>10. Blocked' = Blocked /\ Blocked \in SUBSET Rids
  BY <1>1, <1>2, LinkedClosed DEF Blocked
<1>11. \A x \in Blocked : Low(x)
  BY DEF AwakeInv, Releasing, Departing
<1>12. Releasing' <=> critical
  BY <1>3 DEF Releasing, Departing
<1>13. ~critical \/ Low(r) => sys_criticality' = sys_criticality
  <2>1. CASE ~critical
    BY <1>2, <2>1
  <2>2. CASE critical /\ Low(r)
    <3>1. SysIsTop /\ r # Nil /\ Criticality(r) # sys_criticality
      <4>1. r # Nil
        BY MaxReservesAssumption DEF Rids, Nil
      <4>2. QED
        BY <1>1, <2>2, <4>1 DEF ModeInv, Low
    <3>2. stack = critical_reservesq
      BY <3>1 DEF SysIsTop
    <3> HIDE DEF stack
    <3>3. QED
      BY <1>2, <2>2, <3>1, <3>2 DEF SysIsTop, TopCriticality
  <2>3. QED
    BY <2>1, <2>2
<1>14. \A x \in Blocked' : Low(x)' \/ (Releasing' /\ x # lock'.rid)
  <2> SUFFICES ASSUME NEW x \in Blocked, ~(Releasing' /\ x # r)
               PROVE  Low(x)'
    BY <1>3, <1>10
  <2>1. ~critical \/ Low(r)
    BY <1>11, <1>12
  <2>2. Criticality(x) < sys_criticality
    BY <1>11 DEF Low
  <2>3. QED
    BY <1>8, <1>10, <1>13, <2>1, <2>2 DEF Low
<1>15. Cardinality(Blocked') + lock'.at <= MaxReserves
  <2>1. IsFiniteSet(Rids) /\ Cardinality(Rids) = MaxReserves
    BY MaxReservesAssumption, FS_Interval DEF Rids
  <2>2. Cardinality(Blocked) <= Cardinality(Rids)
        /\ Cardinality(Blocked) \in Nat
    BY <1>10, <2>1, FS_Subset, FS_CardinalityType
  <2>3. QED
    BY <1>3, <1>10, <2>1, <2>2
<1>16. Unmarked' /\ lock'.rid \notin Ready'
  BY <1>3, <1>5, <1>6 DEF Unmarked
<1>17. QED
  BY <1>7, <1>9, <1>14, <1>15, <1>16 DEF AwakeInv

\* The loop resumes only reserves that are not below the mode, hence not the
\* task that departs.
LEMMA ReleaseBlockedAwake ==
  ASSUME IInv, IInv', ModeInv, AwakeInv, BlockedEnds, ReleaseBlocked
  PROVE  AwakeInv'
PROOF
<1> DEFINE t == crit_blockq.head
<1>1. /\ TypeOK /\ TypeOK' /\ DispatcherOK(dispatcher) /\ InUse \in SUBSET Rids
      /\ crit_blockq \in Lists /\ LinksIn(crit_blockq, InUse)
      /\ task \in [Rids -> TaskStates] /\ lock \in Locks
      /\ sys_criticality \in Nat /\ \A x \in Rids : Criticality(x) \in Nat
      /\ dispatcher.readyq \in Seq(Rids) /\ priority \in [Rids -> Int]
      /\ dispatcher \in Dispatchers
  BY DispatcherInvariant, InUseAlive, CriticalityType
     DEF IInv, TypeOK, ModeInv, Dispatchers
<1>2. /\ lock.by \in Departing /\ MoreBlocked /\ t # Nil
      /\ Criticality(t) >= sys_criticality
      /\ crit_blockq' = Behead(crit_blockq)
      /\ lock' = [lock EXCEPT !.at = @ + 1]
      /\ UNCHANGED sys_criticality
  BY DEF ReleaseBlocked, MoreBlocked
<1>3. t \in InUse /\ Alive(t) /\ t \in Rids
  BY <1>1, <1>2, InUseAlive DEF LinksIn
<1>4. /\ UNCHANGED table
      /\ \/ UNCHANGED <<dispatcher, task>>
         \/ /\ task' = [task EXCEPT ![t] = "running"]
            /\ dispatcher' = Start(dispatcher, priority, t)
  BY <1>3 DEF ReleaseBlocked
<1>5. Releasing /\ Releasing' /\ lock'.rid = lock.rid /\ lock'.at = lock.at + 1
      /\ lock.at \in Nat
  BY <1>1, <1>2 DEF Releasing, MoreBlocked, Locks
<1>6. /\ Blocked \in SUBSET Rids /\ t \in Blocked
      /\ Blocked' \subseteq Blocked \ {t}
  <2>1. Blocked' = Linked(Behead(crit_blockq))
    BY <1>2 DEF Blocked
  <2>2. QED
    BY <1>1, <1>2, <2>1, LinkedClosed, LinkedBehead DEF Blocked, BlockedEnds
<1>7. t # lock.rid
  <2>1. ~Low(t)
    BY <1>1, <1>2, <1>3 DEF Low
  <2>2. QED
    BY <1>6, <2>1 DEF AwakeInv
<1> HIDE DEF t
<1>8. Ready' \subseteq Ready \cup {t} /\ Ready \subseteq Rids
  <2>1. ToSet(Start(dispatcher, priority, t).readyq)
          = ToSet(dispatcher.readyq) \cup {t}
    BY <1>1, <1>3, StartType
  <2>2. Ready \subseteq Rids
    BY <1>1 DEF Ready, ToSet
  <2>3. QED
    BY <1>4, <2>1, <2>2 DEF Ready
<1>9. \A x \in Ready' : task'[x] \notin {"sleeping", "masked"}
  <2>1. CASE UNCHANGED <<dispatcher, task>>
    BY <2>1 DEF AwakeInv, Ready
  <2>2. CASE task' = [task EXCEPT ![t] = "running"]
    BY <1>1, <1>3, <1>8, <2>2 DEF AwakeInv
  <2>3. QED
    BY <1>4, <2>1, <2>2
<1>10. Unmarked' /\ Falling(crit_blockq)'
  <2>1. crit_blockq'.next = crit_blockq.next
    BY <1>1, <1>2 DEF Behead, Lists
  <2>2. QED
    BY <1>4, <2>1 DEF AwakeInv, Unmarked, Falling, Criticality
<1>11. \A x \in Blocked' : Low(x)' \/ (Releasing' /\ x # lock'.rid)
  <2>1. \A x : Low(x)' <=> Low(x)
    BY <1>2, <1>4 DEF Low, Criticality
  <2>2. QED
    BY <1>5, <1>6, <2>1 DEF AwakeInv
<1>12. Cardinality(Blocked') + lock'.at <= MaxReserves
  <2>1. IsFiniteSet(Blocked)
    <3>1. IsFiniteSet(Rids)
      BY MaxReservesAssumption, FS_Interval DEF Rids
    <3>2. QED
      BY <1>6, <3>1, FS_Subset
  <2>2. IsFiniteSet(Blocked \ {t})
        /\ Cardinality(Blocked \ {t}) = Cardinality(Blocked) - 1
    BY <1>6, <2>1, FS_RemoveElement
  <2>3. IsFiniteSet(Blocked')
        /\ Cardinality(Blocked') <= Cardinality(Blocked \ {t})
    BY <1>6, <2>2, FS_Subset
  <2>4. Cardinality(Blocked) \in Nat /\ Cardinality(Blocked') \in Nat
    BY <2>1, <2>3, FS_CardinalityType
  <2>5. Cardinality(Blocked) + lock.at <= MaxReserves
    BY <1>5 DEF AwakeInv
  <2>6. QED
    BY <1>5, <2>2, <2>3, <2>4, <2>5, MaxReservesAssumption
<1>13. lock'.rid \notin Ready'
  BY <1>2, <1>5, <1>7, <1>8 DEF AwakeInv
<1>14. QED
  BY <1>9, <1>10, <1>11, <1>12, <1>13 DEF AwakeInv

\* The loop has ended in front of a reserve below the mode, and everything
\* behind it is less critical still.
LEMMA FinishDepartureAwake ==
  ASSUME IInv, IInv', ModeInv, AwakeInv, FinishDeparture
  PROVE  AwakeInv'
PROOF
<1>1. /\ TypeOK /\ TypeOK' /\ crit_blockq \in Lists /\ lock \in Locks
      /\ table \in [Rids -> Reserves] /\ task \in [Rids -> TaskStates]
      /\ sys_criticality \in Nat /\ \A x \in Rids : Criticality(x) \in Nat
      /\ lock.rid \in Rids /\ lock.at \in Nat /\ table[lock.rid] \in Reserves
      /\ Ready \subseteq Rids
  <2>1. TypeOK /\ dispatcher.readyq \in Seq(Rids)
    BY DEF IInv, TypeOK, Dispatchers
  <2>2. Ready \subseteq Rids
    BY <2>1 DEF Ready, ToSet
  <2>3. QED
    BY <2>1, <2>2, CriticalityType, SpecType DEF IInv, TypeOK, Locks
<1>2. /\ lock.by \in Departing /\ ~MoreBlocked /\ lock' = Unlocked
      /\ UNCHANGED <<dispatcher, crit_blockq, sys_criticality>>
      /\ \/ UNCHANGED <<task, table>>
         \/ /\ task' = [task EXCEPT ![lock.rid] = Asleep(lock.by)]
            /\ table' = [table EXCEPT ![lock.rid].num_period_wakeups = Dec(@)]
  BY DEF FinishDeparture, critVars
<1>3. Ready' = Ready /\ Blocked' = Blocked /\ Blocked \in SUBSET Rids
  BY <1>1, <1>2, LinkedClosed DEF Ready, Blocked
<1>4. \A x \in Blocked : Low(x)
  <2>1. CASE lock.blocked = "keep"
    BY <2>1 DEF AwakeInv, Releasing
  <2>2. CASE lock.blocked # "keep"
    <3>1. lock.at <= MaxReserves
      <4>1. IsFiniteSet(Blocked)
        <5>1. IsFiniteSet(Rids)
          BY MaxReservesAssumption, FS_Interval DEF Rids
        <5>2. QED
          BY <1>3, <5>1, FS_Subset
      <4>2. Cardinality(Blocked) \in Nat
        BY <4>1, FS_CardinalityType
      <4>3. Cardinality(Blocked) + lock.at <= MaxReserves
        BY <1>2, <2>2 DEF AwakeInv, Releasing
      <4>4. QED
        BY <1>1, <4>2, <4>3, MaxReservesAssumption
    <3>2. crit_blockq.head = Nil \/ ~(Criticality(crit_blockq.head) >= sys_criticality)
      BY <1>2, <2>2, <3>1 DEF MoreBlocked
    <3>3. CASE crit_blockq.head = Nil
      BY <3>3 DEF Blocked, Linked
    <3>4. CASE crit_blockq.head # Nil
      <4>1. Criticality(crit_blockq.head) < sys_criticality
            /\ Criticality(crit_blockq.head) \in Nat
        BY <1>1, <3>2, <3>4 DEF Lists
      <4>2. \A x \in Blocked : Criticality(x) <= Criticality(crit_blockq.head)
        BY <1>1, <3>4, LinkedFalls DEF Blocked, AwakeInv
      <4>3. QED
        BY <1>1, <1>3, <4>1, <4>2 DEF Low
    <3>5. QED
      BY <3>3, <3>4
  <2>3. QED
    BY <2>1, <2>2
<1>5. \A x \in Rids :
        /\ table'[x].spec = table[x].spec
        /\ table'[x].end_of_period_marked = table[x].end_of_period_marked
  BY <1>1, <1>2 DEF Reserves
<1>6. Unmarked' /\ ~Releasing' /\ lock'.by \notin Departing
  BY <1>2, <1>5 DEF AwakeInv, Unmarked, Releasing, Unlocked, Departing
<1>7. Falling(crit_blockq)'
  <2>1. \A x \in Rids : crit_blockq.next[x] \in Rids \cup {Nil}
    BY <1>1 DEF Lists
  <2>2. \A x \in Rids : crit_blockq.next[x] # Nil =>
          /\ crit_blockq.next[x] \in Rids
          /\ Criticality(crit_blockq.next[x]) <= Criticality(x)
    BY <2>1 DEF AwakeInv, Falling
  <2>3. \A x \in Rids : crit_blockq'.next[x] # Nil =>
          table'[crit_blockq'.next[x]].spec.criticality
            <= table'[x].spec.criticality
    BY <1>2, <1>5, <2>2 DEF Criticality
  <2>4. QED
    BY <2>3 DEF Falling, Criticality
<1>8. \A x \in Blocked' : Low(x)'
  BY <1>2, <1>3, <1>4, <1>5 DEF Low, Criticality
<1>9. \A x \in Ready' : task'[x] \notin {"sleeping", "masked"}
  BY <1>1, <1>2, <1>3 DEF AwakeInv
<1>10. QED
  BY <1>6, <1>7, <1>8, <1>9 DEF AwakeInv

\* zs_enforcement links reserves below the mode into crit_blockq.
LEMMA ZeroSlackScanAwake ==
  ASSUME IInv, IInv', ScanFromHead, AwakeInv, ZeroSlackScan
  PROVE  AwakeInv'
PROOF
<1> DEFINE q == dispatcher.readyq
           x == q[lock.at]
           crit == [y \in Rids |-> Criticality(y)]
           d == [dispatcher EXCEPT !.request_stop = @ \cup {x}]
<1>1. /\ TypeOK /\ TypeOK' /\ crit_blockq \in Lists /\ lock \in Locks
      /\ lock.at \in Nat /\ dispatcher \in Dispatchers /\ q \in Seq(Rids)
      /\ \A y \in Rids : Criticality(y) \in Nat
  BY CriticalityType DEF IInv, TypeOK, Locks, Dispatchers
<1>2. UNCHANGED <<table, task, sys_criticality>> /\ lock.by = "zs"
  BY DEF ZeroSlackScan
<1>3. lock'.by \notin Departing
  <2>1. lock' = Unlocked \/ lock'.by = lock.by
    BY <1>1 DEF ZeroSlackScan, Locks
  <2>2. QED
    BY <1>2, <2>1 DEF Unlocked, Departing
<1>4. \/ /\ dispatcher' \in {dispatcher, WakeScheduler(dispatcher)}
         /\ UNCHANGED crit_blockq
      \/ /\ lock.at <= Len(q) /\ Criticality(x) < sys_criticality
         /\ dispatcher' = PushToReschedule(d, x)
         /\ crit_blockq' = AddByCriticality(crit_blockq, crit, x)
  BY DEF ZeroSlackScan
<1>5. lock.at <= Len(q) => x \in Rids
  <2>1. lock.at >= 1
    BY <1>2 DEF ScanFromHead
  <2> HIDE DEF q
  <2>2. QED
    BY <1>1, <2>1
<1> HIDE DEF x
<1>6. dispatcher'.readyq = dispatcher.readyq
  <2>1. x \in Rids => d \in Dispatchers /\ d.readyq = dispatcher.readyq
    BY <1>1 DEF Dispatchers
  <2> HIDE DEF d
  <2>2. QED
    BY <1>1, <1>4, <1>5, <2>1, WakeSchedulerType, PushToRescheduleType
       DEF SameExecution
<1>7. Ready' = Ready /\ \A y : Low(y)' <=> Low(y)
  BY <1>2, <1>6 DEF Ready, Low, Criticality
<1>8. ~Releasing /\ ~Releasing' /\ Unmarked'
  BY <1>2, <1>3 DEF Releasing, Departing, AwakeInv, Unmarked
<1>9. Falling(crit_blockq) /\ \A y \in Blocked : Low(y)
  BY <1>8 DEF AwakeInv
<1>10. /\ \A y \in Rids : crit_blockq'.next[y] # Nil =>
            Criticality(crit_blockq'.next[y]) <= Criticality(y)
       /\ \A y \in Blocked' : Low(y)
  <2>1. CASE UNCHANGED crit_blockq
    BY <1>9, <2>1 DEF Falling, Blocked
  <2>2. CASE /\ x \in Rids /\ Criticality(x) < sys_criticality
             /\ crit_blockq' = AddByCriticality(crit_blockq, crit, x)
    <3> DEFINE l == AddByCriticality(crit_blockq, crit, x)
    <3>1. Falling(l) /\ Linked(l) \subseteq Blocked \cup {x}
      BY <1>1, <1>9, <2>2, AddFalling, LinkedAdd DEF Blocked
    <3> HIDE DEF l
    <3>2. crit_blockq' = l
      BY <2>2 DEF l
    <3>3. QED
      BY <1>9, <2>2, <3>1, <3>2 DEF Falling, Blocked, Low
  <2>3. QED
    BY <1>4, <1>5, <2>1, <2>2
<1>11. Falling(crit_blockq)'
  BY <1>2, <1>10 DEF Falling, Criticality
<1>12. \A y \in Blocked' : Low(y)'
  BY <1>7, <1>10
<1>13. \A y \in Ready' : task'[y] \notin {"sleeping", "masked"}
  BY <1>2, <1>7 DEF AwakeInv
<1>14. QED
  BY <1>3, <1>8, <1>11, <1>12, <1>13 DEF AwakeInv

\* CREATE_RSV takes an entry that no list refers to.
LEMMA CreateReserveAwake ==
  ASSUME IInv, IInv', ModeInv, AwakeInv, NEW spec \in Specs,
         NEW admitted \in BOOLEAN, CreateReserve(spec, admitted)
  PROVE  AwakeInv'
PROOF
<1> DEFINE pid == IF admitted THEN Created ELSE Free
<1>1. PICK r \in Rids :
        /\ ~Active(r)
        /\ table' = [table EXCEPT ![r] = NewReserve(r, spec, pid)]
        /\ crit_blockq' = [crit_blockq EXCEPT !.next[r] = Nil]
        /\ UNCHANGED <<task, dispatcher, sys_criticality, lock>>
  BY DEF CreateReserve
<1>2. /\ TypeOK /\ TypeOK' /\ table \in [Rids -> Reserves]
      /\ crit_blockq \in Lists /\ InUse \in SUBSET Rids
      /\ LinksIn(crit_blockq, InUse) /\ lock.by = "free"
  BY InUseAlive DEF IInv, TypeOK, ModeInv, CreateReserve, Enter
<1>3. r \notin InUse
  BY <1>1 DEF InUse, Active, Attached, Free
<1>4. \A x \in Rids : x # r => table'[x] = table[x]
  BY <1>1, <1>2
<1>5. Unmarked'
  <2>1. ~NewReserve(r, spec, pid).end_of_period_marked
    <3>1. table[r] \in Reserves
      BY <1>2
    <3>2. QED
      BY <3>1 DEF NewReserve, Reserves
  <2>2. ~table'[r].end_of_period_marked
    BY <1>1, <1>2, <2>1
  <2>3. QED
    BY <1>4, <2>2 DEF AwakeInv, Unmarked
<1>6. /\ Blocked' \subseteq Blocked /\ Blocked \subseteq InUse
      /\ ~Releasing /\ ~Releasing' /\ Ready' = Ready
  <2>1. Linked([crit_blockq EXCEPT !.next[r] = Nil]) \subseteq Linked(crit_blockq)
    BY <1>2, LinkedCut
  <2>2. Blocked' \subseteq Blocked
    BY <1>1, <2>1 DEF Blocked
  <2>3. Blocked \subseteq InUse
    BY <1>2, LinkedIn DEF Blocked
  <2>4. QED
    BY <1>1, <1>2, <2>2, <2>3 DEF Releasing, Departing, Ready
<1>7. \A x \in Blocked' : Low(x)'
  <2> SUFFICES ASSUME NEW x \in Blocked' PROVE Low(x)'
    OBVIOUS
  <2>1. x \in Rids /\ x # r /\ Low(x)
    BY <1>2, <1>3, <1>6 DEF AwakeInv
  <2>2. QED
    BY <1>1, <1>4, <2>1 DEF Low, Criticality
<1>8. Falling(crit_blockq)'
  <2>1. crit_blockq'.next = [crit_blockq.next EXCEPT ![r] = Nil]
        /\ crit_blockq.next \in [Rids -> Rids \cup {Nil}]
    BY <1>1, <1>2 DEF Lists
  <2>2. SUFFICES ASSUME NEW x \in Rids, crit_blockq'.next[x] # Nil
                 PROVE  table'[crit_blockq'.next[x]].spec.criticality
                          <= table'[x].spec.criticality
    BY DEF Falling, Criticality
  <2>3. x # r /\ crit_blockq'.next[x] = crit_blockq.next[x]
    BY <2>1, <2>2
  <2>4. crit_blockq.next[x] \in Rids /\ crit_blockq.next[x] # r
    BY <1>2, <1>3, <2>1, <2>2, <2>3 DEF LinksIn
  <2>5. Criticality(crit_blockq.next[x]) <= Criticality(x)
    BY <2>2, <2>3 DEF AwakeInv, Falling
  <2>6. QED
    BY <1>4, <2>3, <2>4, <2>5 DEF Criticality
<1>9. /\ \A x \in Ready' : task'[x] \notin {"sleeping", "masked"}
      /\ lock'.by \notin Departing
  BY <1>1, <1>2, <1>6 DEF AwakeInv, Departing
<1>10. QED
  BY <1>5, <1>6, <1>7, <1>8, <1>9 DEF AwakeInv

\* What a handler that is not a departure finds.
LEMMA FreeAwake ==
  ASSUME IInv, AwakeInv, lock.by \in {"free", "sched"}
  PROVE  /\ TypeOK /\ DispatcherOK(dispatcher) /\ dispatcher \in Dispatchers
         /\ table \in [Rids -> Reserves] /\ task \in [Rids -> TaskStates]
         /\ priority \in [Rids -> Int] /\ sys_criticality \in Nat
         /\ Ready = ToSet(dispatcher.readyq) /\ Ready \subseteq Rids
         /\ lock.by \notin Departing
         /\ \A r \in Rids : /\ table[r] \in Reserves
                            /\ ~table[r].end_of_period_marked
         /\ \A r \in Ready : task[r] \notin {"sleeping", "masked"}
PROOF
<1>1. /\ TypeOK /\ DispatcherOK(dispatcher) /\ dispatcher \in Dispatchers
      /\ table \in [Rids -> Reserves] /\ dispatcher.readyq \in Seq(Rids)
  BY DispatcherInvariant DEF IInv, TypeOK, Dispatchers
<1>2. Ready = ToSet(dispatcher.readyq) /\ Ready \subseteq Rids
  BY <1>1 DEF Ready, ToSet
<1>3. \A r \in Rids : table[r] \in Reserves /\ ~table[r].end_of_period_marked
  BY <1>1 DEF AwakeInv, Unmarked
<1>4. QED
  BY <1>1, <1>2, <1>3 DEF TypeOK, AwakeInv, Departing

\* ATTACH_RSV starts a reserve whose task is running.
LEMMA AttachReserveAwake ==
  ASSUME IInv, IInv', AwakeInv, NEW r \in Rids, AttachReserve(r)
  PROVE  AwakeInv'
PROOF
<1> DEFINE zero == 0
           c == [table[r] EXCEPT !.pid = Attached, !.start_period = 1,
                                 !.enforced = FALSE, !.in_critical_mode = FALSE]
           e == [dispatcher EXCEPT !.current[r] = zero]
           d == ArmZeroSlack(e, r)
<1>1. /\ TypeOK /\ TypeOK' /\ dispatcher \in Dispatchers
      /\ table \in [Rids -> Reserves] /\ task \in [Rids -> TaskStates]
      /\ sys_criticality \in Nat /\ priority' \in [Rids -> Int]
      /\ Ready = ToSet(dispatcher.readyq) /\ Ready \subseteq Rids
      /\ lock.by \notin Departing
      /\ \A x \in Rids : /\ table[x] \in Reserves
                         /\ ~table[x].end_of_period_marked
      /\ \A x \in Ready : task[x] \notin {"sleeping", "masked"}
  BY FreeAwake DEF AttachReserve, Enter, IInv, TypeOK
<1>2. /\ table' = [table EXCEPT ![r] = c]
      /\ task' = [task EXCEPT ![r] = "running"]
      /\ dispatcher' = Start(d, priority', r)
      /\ UNCHANGED <<crit_blockq, sys_criticality, lock>>
  BY DEF AttachReserve, critVars
<1>3. c.spec = table[r].spec
      /\ c.end_of_period_marked = table[r].end_of_period_marked
  BY <1>1 DEF Reserves
<1> HIDE DEF c
<1>4. \A x \in Rids : /\ table'[x].spec = table[x].spec
                      /\ ~table'[x].end_of_period_marked
  BY <1>1, <1>2, <1>3
<1>5. zero \in 0 .. MaxTicks
  BY ConstantsAssumption
<1> HIDE DEF zero
<1>6. e \in Dispatchers /\ e.readyq = dispatcher.readyq
  BY <1>1, <1>5 DEF Dispatchers
<1> HIDE DEF e
<1>7. d \in Dispatchers /\ d.readyq = dispatcher.readyq
  BY <1>6, ArmZeroSlackType DEF SameExecution
<1> HIDE DEF d
<1>8. Ready' = Ready \cup {r}
  <2>1. PICK prio \in [Rids -> Int] : prio = priority'
    BY <1>1
  <2>2. ToSet(Start(d, prio, r).readyq) = ToSet(d.readyq) \cup {r}
    BY <1>1, <1>7, StartType
  <2>3. dispatcher' = Start(d, prio, r)
    BY <1>2, <2>1
  <2>4. QED
    BY <1>1, <1>7, <2>2, <2>3 DEF Ready
<1>9. \A x \in Ready' : task'[x] \notin {"sleeping", "masked"}
  BY <1>1, <1>2, <1>8
<1>10. sys_criticality <= sys_criticality' /\ lock'.by \notin Departing
  BY <1>1, <1>2
<1>11. QED
  BY <1>1, <1>2, <1>4, <1>9, <1>10, AwakeStep

\* CAPTURE_ENFORCEMENT_SIGNAL changes a flag.
LEMMA CaptureAwake ==
  ASSUME IInv, IInv', AwakeInv, NEW r \in Rids, NEW captured \in BOOLEAN,
         CaptureEnforcementSignal(r, captured)
  PROVE  AwakeInv'
PROOF
<1>1. /\ TypeOK /\ TypeOK' /\ table \in [Rids -> Reserves]
      /\ sys_criticality \in Nat /\ lock.by \notin Departing
      /\ \A x \in Rids : /\ table[x] \in Reserves
                         /\ ~table[x].end_of_period_marked
      /\ \A x \in Ready : task[x] \notin {"sleeping", "masked"}
  BY FreeAwake DEF CaptureEnforcementSignal, Enter, IInv
<1>2. /\ table' = [table EXCEPT ![r].enforcement_signal_captured = captured]
      /\ UNCHANGED <<task, dispatcher, crit_blockq, sys_criticality, lock>>
  BY DEF CaptureEnforcementSignal, critVars
<1>3. \A x \in Rids : /\ table'[x].spec = table[x].spec
                      /\ ~table'[x].end_of_period_marked
  BY <1>1, <1>2 DEF Reserves
<1>4. Ready' = Ready /\ sys_criticality <= sys_criticality'
      /\ lock'.by \notin Departing
  BY <1>1, <1>2 DEF Ready
<1>5. QED
  BY <1>1, <1>2, <1>3, <1>4, AwakeStep

\* The system calls: a task only departs to wait for its next period.
LEMMA SystemCallAwake ==
  ASSUME Undeleted, "release" \notin Calls, IInv, IInv', ModeInv, AwakeInv,
         NEW r \in Rids, SystemCall(r)
  PROVE  AwakeInv'
PROOF
<1>1. ~Delete(r) /\ ~EndPeriod(r) /\ ~WaitRelease(r)
  BY DEF Undeleted, Delete, EndPeriod, WaitRelease
<1>2. CASE WaitPeriod(r)
  <2>1. lock.by = "free" /\ DispatcherOK(dispatcher)
        /\ Depart(dispatcher, r, "wait")
    BY <1>2, DispatcherInvariant DEF WaitPeriod, Enter
  <2>2. QED
    BY <2>1, DepartAwake
<1>3. QED
  BY <1>1, <1>2, AttachReserveAwake, CaptureAwake DEF SystemCall

\* The handler of a signal departs, or the task is awake already or woken.
LEMMA EnforcementSignalAwake ==
  ASSUME IInv, IInv', ModeInv, AwakeInv, NEW r \in Rids, EnforcementSignal(r)
  PROVE  AwakeInv'
PROOF
<1> DEFINE s == dispatcher.signals[r]
           rest == Tail(s)
           d == [dispatcher EXCEPT !.signals[r] = rest]
<1>1. /\ TypeOK /\ TypeOK' /\ DispatcherOK(dispatcher)
      /\ dispatcher \in Dispatchers /\ task \in [Rids -> TaskStates]
      /\ sys_criticality \in Nat /\ Ready \subseteq Rids
      /\ lock.by = "free" /\ lock.by \notin Departing
      /\ \A x \in Rids : ~table[x].end_of_period_marked
      /\ \A x \in Ready : task[x] \notin {"sleeping", "masked"}
  BY FreeAwake DEF EnforcementSignal, Enter, IInv
<1>2. s \in Seq([stop : BOOLEAN, periodic : BOOLEAN]) /\ s # <<>>
  BY <1>1 DEF Dispatchers, EnforcementSignal
<1>3. rest \in Seq([stop : BOOLEAN, periodic : BOOLEAN])
  BY <1>2
<1>4. \/ Depart(d, r, "handler")
      \/ /\ task' = [task EXCEPT ![r] = "running"]
         /\ dispatcher' = d
         /\ UNCHANGED <<table, crit_blockq, sys_criticality, lock>>
  BY <1>1 DEF EnforcementSignal, WaitForNextRelease, critVars
<1> HIDE DEF rest, s
<1>5. DispatcherOK(d) /\ d.readyq = dispatcher.readyq
  BY <1>1, <1>3, SignalsOK DEF Dispatchers
<1> HIDE DEF d
<1>6. CASE Depart(d, r, "handler")
  BY <1>1, <1>5, <1>6, DepartAwake
<1>7. CASE /\ task' = [task EXCEPT ![r] = "running"]
           /\ dispatcher' = d
           /\ UNCHANGED <<table, crit_blockq, sys_criticality, lock>>
  <2>1. Ready' = Ready
    BY <1>5, <1>7 DEF Ready
  <2>2. \A x \in Ready' : task'[x] \notin {"sleeping", "masked"}
    BY <1>1, <1>7, <2>1
  <2>3. sys_criticality <= sys_criticality'
    BY <1>1, <1>7
  <2>4. QED
    BY <1>1, <1>7, <2>2, <2>3, AwakeStep
<1>8. QED
  BY <1>4, <1>6, <1>7

\* An arrival starts no reserve but its own, and wakes its task.
LEMMA PeriodTimerAwake ==
  ASSUME IInv, IInv', ModeInv, AwakeInv, NEW r \in Rids, PeriodTimer(r)
  PROVE  AwakeInv'
PROOF
<1> DEFINE late == [dispatcher EXCEPT !.enforcement[r] = Off]
           told == BudgetEnforcement(late, r, FALSE)
           stopped == IF Overrun(r) THEN Stop(told, r) ELSE dispatcher
           fresh == [stopped EXCEPT !.current[r] = 0]
           d == ArmZeroSlack(fresh, r)
           starts == ~Suspended(r) /\ Wakes(r)
           c == Arrived(r)
<1>1. /\ TypeOK /\ TypeOK' /\ DispatcherOK(dispatcher)
      /\ dispatcher \in Dispatchers /\ priority \in [Rids -> Int]
      /\ table \in [Rids -> Reserves] /\ task \in [Rids -> TaskStates]
      /\ sys_criticality \in Nat
      /\ Ready = ToSet(dispatcher.readyq) /\ Ready \subseteq Rids
      /\ lock.by \notin Departing
      /\ \A x \in Rids : /\ table[x] \in Reserves
                         /\ ~table[x].end_of_period_marked
      /\ \A x \in Ready : task[x] \notin {"sleeping", "masked"}
  BY FreeAwake DEF PeriodTimer, Enter, IInv
<1>2. Alive(r)
  BY InUseAlive DEF PeriodTimer, ModeInv
<1>3. /\ dispatcher' = IF starts THEN Start(d, priority, r) ELSE d
      /\ table' = [table EXCEPT ![r] = c]
      /\ task' = IF starts THEN [task EXCEPT ![r] = "running"] ELSE task
      /\ UNCHANGED <<crit_blockq, sys_criticality, lock>>
  BY <1>2 DEF PeriodTimer, StartOfPeriod, critVars
<1>4. c.spec = table[r].spec /\ ~c.end_of_period_marked
  BY <1>1 DEF Arrived, Reserves
<1> HIDE DEF c
<1>5. \A x \in Rids : /\ table'[x].spec = table[x].spec
                      /\ ~table'[x].end_of_period_marked
  BY <1>1, <1>3, <1>4
<1>6. DispatcherOK(late) /\ late.readyq = dispatcher.readyq
  <2>1. DispatcherOK(late)
    BY <1>1, EnforcementOffOK
  <2>2. QED
    BY <1>1, <2>1 DEF DispatcherOK, Dispatchers
<1> HIDE DEF late
<1>7. DispatcherOK(told) /\ told.readyq = dispatcher.readyq
  <2>1. DispatcherOK(told)
    BY <1>6, BudgetEnforcementOK
  <2>2. told.readyq = late.readyq
    BY <1>1, <1>6, BudgetEnforcementType DEF DispatcherOK, SameExecution
  <2>3. QED
    BY <1>6, <2>1, <2>2
<1> HIDE DEF told
<1>8. DispatcherOK(stopped) /\ ToSet(stopped.readyq) \subseteq Ready
  BY <1>1, <1>7, StopOK, StopReady
<1> HIDE DEF stopped
<1>9. DispatcherOK(fresh) /\ fresh.readyq = stopped.readyq
  <2>1. DispatcherOK(fresh)
    BY <1>8, CurrentZeroOK
  <2>2. QED
    BY <1>8, <2>1 DEF DispatcherOK, Dispatchers
<1> HIDE DEF fresh
<1>10. d \in Dispatchers /\ d.readyq = stopped.readyq
  BY <1>9, ArmZeroSlackType DEF DispatcherOK, SameExecution
<1> HIDE DEF d
<1>11. ToSet(Start(d, priority, r).readyq) = ToSet(d.readyq) \cup {r}
  BY <1>1, <1>10, StartType
<1>12. \A x \in Ready' : x \in Ready \/ (starts /\ x = r)
  BY <1>3, <1>8, <1>10, <1>11 DEF Ready
<1> HIDE DEF starts
<1>13. \A x \in Ready' : task'[x] \notin {"sleeping", "masked"}
  BY <1>1, <1>3, <1>12
<1>14. sys_criticality <= sys_criticality' /\ lock'.by \notin Departing
  BY <1>1, <1>3
<1>15. QED
  BY <1>1, <1>3, <1>5, <1>13, <1>14, AwakeStep

\* The enforcement timer signals, or asks the scheduler thread for a stop.
LEMMA EnforcementTimerAwake ==
  ASSUME IInv, IInv', ModeInv, AwakeInv, NEW r \in Rids, EnforcementTimer(r)
  PROVE  AwakeInv'
PROOF
<1> DEFINE d == [dispatcher EXCEPT !.enforcement[r] = Off]
<1>1. /\ TypeOK /\ DispatcherOK(dispatcher) /\ dispatcher \in Dispatchers
      /\ dispatcher.readyq \in Seq(Rids) /\ Ready = ToSet(dispatcher.readyq)
  BY FreeAwake DEF EnforcementTimer, Enter, DispatcherOK, Dispatchers
<1>2. Alive(r)
  <2>1. dispatcher.enforcement[r] # Off
    BY DEF EnforcementTimer, Off
  <2>2. dispatcher.readyq # <<>> /\ Head(dispatcher.readyq) = r
    BY <1>1, <2>1 DEF DispatcherOK, TimerSound
  <2>3. r \in Ready
    BY <1>1, <2>2 DEF ToSet
  <2>4. r \in InUse
    BY <1>1, <2>3, ReadyInUse DEF ModeInv
  <2>5. QED
    BY <2>4, InUseAlive
<1>3. /\ dispatcher' = BudgetEnforcement(d, r, TRUE)
      /\ UNCHANGED <<table, task, crit_blockq, sys_criticality, lock>>
  BY <1>2 DEF EnforcementTimer, critVars
<1>4. d \in Dispatchers /\ d.readyq = dispatcher.readyq
  <2>1. DispatcherOK(d)
    BY <1>1, EnforcementOffOK
  <2>2. QED
    BY <1>1, <2>1 DEF DispatcherOK, Dispatchers
<1> HIDE DEF d
<1>5. dispatcher'.readyq = dispatcher.readyq
  BY <1>1, <1>3, <1>4, BudgetEnforcementType DEF SameExecution
<1>6. QED
  BY <1>3, <1>5, AwakeSame

\* The zero-slack timer raises the mode, if it changes it.
LEMMA ZeroSlackTimerAwake ==
  ASSUME IInv, IInv', ModeInv, AwakeInv, NEW r \in Rids, ZeroSlackTimer(r)
  PROVE  AwakeInv'
PROOF
<1> DEFINE d == [dispatcher EXCEPT !.zero_slack = @ \ {r}]
           t == [table[r] EXCEPT !.in_critical_mode = TRUE]
<1>1. /\ TypeOK /\ TypeOK' /\ dispatcher \in Dispatchers
      /\ table \in [Rids -> Reserves] /\ sys_criticality \in Nat
      /\ Criticality(r) \in Nat /\ lock.by \notin Departing
      /\ \A x \in Rids : /\ table[x] \in Reserves
                         /\ ~table[x].end_of_period_marked
      /\ \A x \in Ready : task[x] \notin {"sleeping", "masked"}
  BY FreeAwake, CriticalityType DEF ZeroSlackTimer, Enter, IInv
<1>2. Alive(r)
  BY InUseAlive DEF ZeroSlackTimer, ModeInv, Within
<1>3. /\ dispatcher' = d
      /\ UNCHANGED <<task, crit_blockq>>
      /\ \/ UNCHANGED <<table, sys_criticality, lock>>
         \/ /\ table' = [table EXCEPT ![r] = t]
            /\ Criticality(r) >= sys_criticality
            /\ sys_criticality' = Criticality(r)
            /\ lock' = [Unlocked EXCEPT !.by = "zs", !.rid = r, !.at = 1]
  BY <1>2 DEF ZeroSlackTimer
<1>4. d.readyq = dispatcher.readyq
  BY <1>1 DEF Dispatchers
<1> HIDE DEF d
<1>5. t.spec = table[r].spec /\ ~t.end_of_period_marked
  BY <1>1 DEF Reserves
<1> HIDE DEF t
<1>6. \A x \in Rids : /\ table'[x].spec = table[x].spec
                      /\ ~table'[x].end_of_period_marked
  BY <1>1, <1>3, <1>5
<1>7. \A x \in Ready' : task'[x] \notin {"sleeping", "masked"}
  BY <1>1, <1>3, <1>4 DEF Ready
<1>8. sys_criticality <= sys_criticality'
  BY <1>1, <1>3
<1>9. lock'.by \notin Departing
  BY <1>1, <1>3 DEF Unlocked, Departing
<1>10. QED
  BY <1>1, <1>3, <1>6, <1>7, <1>8, <1>9, AwakeStep

\* The scheduler thread puts to sleep the task of a reserve that it stops and
\* wakes the task of a reserve that it starts.
LEMMA SchedulerPopAwake ==
  ASSUME IInv, IInv', ModeInv, AwakeInv, SchedulerPop
  PROVE  AwakeInv'
PROOF
<1> DEFINE s == dispatcher.reschedule
           r == Last(s)
           rest == Front(s)
           d == [dispatcher EXCEPT !.reschedule = rest]
           e == [d EXCEPT !.request_stop = @ \ {r}]
           t == [table[r] EXCEPT !.enforced = TRUE,
                                 !.start_period = table[r].start_period - 1]
<1>1. /\ TypeOK /\ TypeOK' /\ DispatcherOK(dispatcher)
      /\ dispatcher \in Dispatchers /\ table \in [Rids -> Reserves]
      /\ task \in [Rids -> TaskStates] /\ priority \in [Rids -> Int]
      /\ sys_criticality \in Nat /\ Ready = ToSet(dispatcher.readyq)
      /\ Ready \subseteq Rids /\ lock.by \notin Departing
      /\ \A x \in Rids : /\ table[x] \in Reserves
                         /\ ~table[x].end_of_period_marked
      /\ \A x \in Ready : task[x] \notin {"sleeping", "masked"}
  BY FreeAwake DEF SchedulerPop, IInv
<1>2. s \in Seq(InUse) /\ s # <<>>
  BY DEF SchedulerPop, ModeInv, Within
<1>3. r \in InUse /\ rest \in Seq(InUse)
  <2> HIDE DEF s
  <2>1. Len(s) \in 1 .. Len(s) /\ \A i \in 1 .. Len(s) : s[i] \in InUse
    BY <1>2
  <2>2. QED
    BY <1>2, <2>1 DEF Last, Front
<1>4. r \in Rids /\ rest \in Seq(Rids) /\ Alive(r)
  <2> HIDE DEF r, rest
  <2>1. InUse \in SUBSET Rids
    BY InUseAlive
  <2>2. QED
    BY <1>3, <2>1, InUseAlive
<1>5. /\ \/ dispatcher' = e /\ UNCHANGED <<table, task>>
         \/ /\ dispatcher' = Stop(e, r)
            /\ table' = [table EXCEPT ![r] = t]
            /\ task' = [task EXCEPT ![r] = Sleeping(@)]
         \/ /\ dispatcher' = Start(d, priority, r)
            /\ task' = [task EXCEPT ![r] = "running"]
            /\ UNCHANGED table
      /\ UNCHANGED <<crit_blockq, sys_criticality>>
      /\ lock' = [Unlocked EXCEPT !.by = "sched"]
  <2>1. [[table EXCEPT ![r].enforced = TRUE] EXCEPT ![r].start_period = @ - 1]
          = [table EXCEPT ![r] = t]
    BY <1>1, <1>4 DEF Reserves
  <2>2. QED
    BY <1>4, <2>1
       DEF SchedulerPop, StopRequested, RestartRequested, critVars
<1> HIDE DEF r, rest
<1>6. t.spec = table[r].spec /\ ~t.end_of_period_marked
  BY <1>1, <1>4 DEF Reserves
<1> HIDE DEF t
<1>7. \A x \in Rids : /\ table'[x].spec = table[x].spec
                      /\ ~table'[x].end_of_period_marked
  BY <1>1, <1>4, <1>5, <1>6
<1>8. DispatcherOK(d) /\ d.readyq = dispatcher.readyq /\ d \in Dispatchers
  <2>1. d \in Dispatchers /\ SameExecution(dispatcher, d)
    BY <1>1, <1>4 DEF Dispatchers, SameExecution
  <2>2. QED
    BY <1>1, <2>1, SameExecutionOK DEF SameExecution
<1> HIDE DEF d
<1>9. DispatcherOK(e) /\ e.readyq = dispatcher.readyq
  <2>1. e \in Dispatchers /\ SameExecution(d, e)
    BY <1>8 DEF Dispatchers, SameExecution
  <2>2. QED
    BY <1>8, <2>1, SameExecutionOK DEF SameExecution
<1> HIDE DEF e
<1>10. /\ ToSet(Stop(e, r).readyq) = Ready \ {r}
       /\ ToSet(Start(d, priority, r).readyq) = Ready \cup {r}
  BY <1>1, <1>4, <1>8, <1>9, StopReady, StartType
<1>11. \A x \in Ready' : task'[x] \notin {"sleeping", "masked"}
  <2>1. CASE dispatcher' = e /\ UNCHANGED task
    BY <1>1, <1>9, <2>1 DEF Ready
  <2>2. CASE /\ dispatcher' = Stop(e, r)
             /\ task' = [task EXCEPT ![r] = Sleeping(@)]
    <3>1. Ready' = Ready \ {r}
      BY <1>10, <2>2 DEF Ready
    <3>2. QED
      BY <1>1, <2>2, <3>1
  <2>3. CASE /\ dispatcher' = Start(d, priority, r)
             /\ task' = [task EXCEPT ![r] = "running"]
    <3>1. Ready' = Ready \cup {r}
      BY <1>10, <2>3 DEF Ready
    <3>2. QED
      BY <1>1, <1>4, <2>3, <3>1
  <2>4. QED
    BY <1>5, <2>1, <2>2, <2>3
<1>12. sys_criticality <= sys_criticality'
  BY <1>1, <1>5
<1>13. lock'.by \notin Departing
  BY <1>5 DEF Unlocked, Departing
<1>14. QED
  BY <1>1, <1>5, <1>7, <1>11, <1>12, <1>13, AwakeStep

\* The scheduler thread gives zsrmlock up and sleeps; time passes.
LEMMA RestAwake ==
  ASSUME IInv, IInv', AwakeInv, SchedulerUnlock \/ SchedulerSleep \/ Tick
  PROVE  AwakeInv'
PROOF
<1>1. /\ TypeOK /\ TypeOK' /\ dispatcher \in Dispatchers
      /\ sys_criticality \in Nat
  BY DEF IInv, TypeOK
<1>2. /\ UNCHANGED <<table, task, crit_blockq, sys_criticality>>
      /\ dispatcher'.readyq = dispatcher.readyq
  BY <1>1 DEF SchedulerUnlock, SchedulerSleep, Tick, critVars, Dispatchers
<1>3. CASE UNCHANGED lock
  BY <1>2, <1>3, AwakeSame
<1>4. CASE SchedulerUnlock
  <2>1. /\ lock.by \in {"free", "sched"} /\ lock' = Unlocked
    BY <1>4 DEF SchedulerUnlock
  <2>2. lock.by \notin Departing /\ lock'.by \notin Departing
    BY <2>1 DEF Departing, Unlocked
  <2>3. \A x \in Rids : /\ table'[x].spec = table[x].spec
                        /\ ~table'[x].end_of_period_marked
    BY <1>2 DEF AwakeInv, Unmarked
  <2>4. \A x \in Ready' : task'[x] \notin {"sleeping", "masked"}
    BY <1>2 DEF AwakeInv, Ready
  <2>5. QED
    BY <1>1, <1>2, <2>2, <2>3, <2>4, AwakeStep
<1>5. QED
  BY <1>3, <1>4 DEF SchedulerSleep, Tick

\* Every step keeps the invariant while the queue of blocked reserves ends.
LEMMA AwakeNext ==
  ASSUME Undeleted, "release" \notin Calls, IInv, IInv', ScanFromHead,
         ModeInv, AwakeInv, BlockedEnds, [Next]_vars
  PROVE  AwakeInv'
PROOF
<1>1. ASSUME NEW r \in Rids,
             SystemCall(r) \/ EnforcementSignal(r) \/ Die(r) \/ Timer(r)
      PROVE  AwakeInv'
  <2>1. ~Die(r)
    BY DEF Die, Undeleted
  <2>2. QED
    BY <1>1, <2>1, SystemCallAwake, EnforcementSignalAwake, PeriodTimerAwake,
       EnforcementTimerAwake, ZeroSlackTimerAwake DEF Timer
<1>2. CASE UNCHANGED vars
  BY <1>2, AwakeSame DEF vars, critVars
<1>3. QED
  BY <1>1, <1>2, CreateReserveAwake, SchedulerPopAwake, ReleaseBlockedAwake,
     FinishDepartureAwake, ZeroSlackScanAwake, RestAwake
     DEF Next, SchedulerTask, Continue

\* At the start nothing is blocked and nothing is ready.
LEMMA AwakeInit ==
  ASSUME Init
  PROVE  AwakeInv
PROOF
<1>1. Ready = {} /\ Blocked = {} /\ lock.by = "free"
  BY DEF Init, Ready, ToSet, Blocked, Linked, EmptyList, Unlocked
<1>2. Unmarked /\ Falling(crit_blockq)
  BY DEF Init, Unmarked, Falling, EmptyList
<1>3. lock.by \notin Departing /\ ~Releasing
  BY <1>1 DEF Departing, Releasing
<1>4. QED
  BY <1>1, <1>2, <1>3 DEF AwakeInv

\* As long as the queue of blocked reserves has an end, the task of a reserve
\* in the ready queue is awake, whatever the zero-slack instants: what a
\* departure resumes (wait_for_next_period) is not the task it puts to sleep,
\* and zs_enforcement and the scheduler thread take a reserve off the ready
\* queue when they send its task to sleep.  For a table where nothing is
\* deleted and no task calls end_of_period or wait_for_next_release.
THEOREM BlockedStayAwake ==
  ASSUME Undeleted, "release" \notin Calls
  PROVE  Spec => BlockedAwake
PROOF
<1>1. Spec => [](IInv /\ ScanFromHead /\ ModeInv)
  BY Invariance, ModeInvariance, PTL
<1>2. Init => AwakeInv
  BY AwakeInit
<1>3. IInv /\ IInv' /\ ScanFromHead /\ ModeInv /\ BlockedEnds /\ AwakeInv
        /\ [Next]_vars => AwakeInv'
  BY AwakeNext
<1>4. AwakeInv => ReadyAwake
  BY DEF AwakeInv, ReadyAwake, Ready
<1>5. Spec /\ []BlockedEnds => []ReadyAwake
  BY <1>1, <1>2, <1>3, <1>4, PTL DEF Spec
<1>6. QED
  BY <1>5 DEF BlockedAwake
=============================================================================
