------------------------------ MODULE JobProofs ------------------------------
(***************************************************************************)
(* Jobs, for every value of the constants.  Under plain rate-monotonic     *)
(* scheduling: a running job has an armed timer or is about to be stopped, *)
(* no job exceeds its budget, a stopped job waits for its next period,     *)
(* start_period counts the job of a reserve, and a job that a sporadic     *)
(* task has ended stays so until its release.  Where tasks capture the     *)
(* enforcement signal: an exhausted job has been sent a signal that makes  *)
(* it depart, and a stopped job is not resumed by an earlier signal.       *)
(***************************************************************************)
EXTENDS DispatchProofs

\* No reserve has a zero-slack instant within its period, every budget is
\* positive, and the scheduler thread runs before the next handler once it is
\* woken.
RateMonotonic ==
  /\ SchedFirst
  /\ \A s \in Specs : ~s.zsinstant /\ s.exectime > 0

\* The scheduler thread stops exhausted jobs: no task captures the
\* enforcement signal.
Uncapturing == RateMonotonic /\ "capture" \notin Calls

\* Tasks that may capture the enforcement signal do not.
Restrained == "capture" \in Calls => Uncaptured

Live == {r \in Rids : Alive(r)}

Budget(r) == table[r].spec.exectime

HeadIs(d, r) == d.readyq # <<>> /\ Head(d.readyq) = r

-----------------------------------------------------------------------------
(***************************************************************************)
(* The inductive invariant, of a dispatcher d and the reserves A that have *)
(* a task.                                                                 *)
(***************************************************************************)

\* The head has an armed timer, unless a request to stop it is pending.
Served(d, A) ==
  \A h \in A : HeadIs(d, h) /\ d.enforcement[h] = Off => d.reschedule = <<h>>

\* At most one request is pending, to stop a ready reserve or to delete one
\* without a task, and the scheduler thread is awake.
RequestsOK(d, A) ==
  d.reschedule # <<>> =>
    /\ d.sched_task = "running"
    /\ \E r \in Rids :
         /\ d.reschedule = <<r>>
         /\ r \in A => r \in d.request_stop /\ r \in ToSet(d.readyq)

WithinBudget(d, A) ==
  \A r \in A :
    d.current[r] + (IF HeadIs(d, r) THEN d.elapsed ELSE 0) <= Budget(r)

\* No zero-slack timer is armed and no signal is pending.
Plain(d) == d.zero_slack = {} /\ \A r \in Rids : d.signals[r] = <<>>

JobsOK(d, A) ==
  Plain(d) /\ Served(d, A) /\ RequestsOK(d, A) /\ WithinBudget(d, A)

\* The system is not in critical mode, and never was.
Uncritical ==
  /\ sys_criticality = 0
  /\ critical_reservesq.head = Nil
  /\ crit_blockq.head = Nil
  /\ lock.by \notin {"zs", "handler"}

\* A reserve in use has the parameters its client gave.
Specified == \A r \in Rids : Active(r) => table[r].spec \in Specs

\* A reserve that enforcement has stopped is neither ready nor running.
EnforcedStopped ==
  \A r \in Rids : table[r].pid = Attached /\ table[r].enforced =>
    r \notin Ready /\ task[r] \in {"sleeping", "masked", "dead"}

\* A handler departs the job of a task that is there.
Caller == lock.by \in Departing => lock.rid \in Live

JobInv ==
  /\ JobsOK(dispatcher, Live)
  /\ Uncritical
  /\ Uncaptured
  /\ Specified
  /\ EnforcedStopped
  /\ Caller

-----------------------------------------------------------------------------
(***************************************************************************)
(* The functions that change the dispatcher.                               *)
(***************************************************************************)

\* No request is pending, and the scheduler thread can be woken.
Idle(d) == d.reschedule = <<>> /\ d.sched_task # "leaving"

\* d and e have the same requests, signals and zero-slack timers.
SameRequests(d, e) ==
  /\ e.reschedule = d.reschedule
  /\ e.request_stop = d.request_stop
  /\ e.sched_task = d.sched_task
  /\ e.signals = d.signals
  /\ e.zero_slack = d.zero_slack

SameCharges(d, e) ==
  e.readyq = d.readyq /\ e.current = d.current /\ e.elapsed = d.elapsed

\* What the scheduler thread is asked for a head that has no budget left.
LEMMA StopRequestMeans ==
  ASSUME NEW d \in Dispatchers, NEW r \in Rids, ~Captured(r), Idle(d)
  PROVE  /\ BudgetEnforcement(d, r, TRUE).zero_slack = d.zero_slack \ {r}
         /\ BudgetEnforcement(d, r, TRUE).signals = d.signals
         /\ BudgetEnforcement(d, r, TRUE).request_stop = d.request_stop \cup {r}
         /\ BudgetEnforcement(d, r, TRUE).reschedule = <<r>>
         /\ BudgetEnforcement(d, r, TRUE).sched_task = "running"
PROOF
<1> DEFINE f == [d EXCEPT !.zero_slack = @ \ {r}]
           g == [f EXCEPT !.request_stop = @ \cup {r}]
<1>1. /\ g.zero_slack = d.zero_slack \ {r} /\ g.signals = d.signals
      /\ g.request_stop = d.request_stop \cup {r}
      /\ g.reschedule = <<>> /\ g.sched_task \in {"asleep", "running"}
      /\ g \in Dispatchers
  BY DEF Idle, Dispatchers
<1>2. BudgetEnforcement(d, r, TRUE) = WakeScheduler(PushToReschedule(g, r))
  BY DEF BudgetEnforcement, Captured
<1> HIDE DEF f, g
<1>3. Len(<<>>) < MaxReserves /\ Append(<<>>, r) = <<r>>
  BY MaxReservesAssumption
<1>4. PushToReschedule(g, r) = [g EXCEPT !.reschedule = <<r>>]
  BY <1>1, <1>3 DEF PushToReschedule, Dispatchers
<1>5. QED
  BY <1>1, <1>2, <1>4 DEF WakeScheduler, Dispatchers

\* Starting the head of an idle dispatcher arms its timer, or asks for it to
\* be stopped if it has no budget left.
LEMMA StartHeadJobs ==
  ASSUME TypeOK, Uncaptured, NEW d \in Dispatchers, NEW A \in SUBSET Rids,
         Plain(d), RequestsOK(d, A), d.sched_task # "leaving",
         \A x \in A : d.current[x] <= Budget(x),
         \/ d.reschedule = <<>>
         \/ d.readyq # <<>> /\ d.current[Head(d.readyq)] < Budget(Head(d.readyq))
  PROVE  JobsOK(StartHead(d), A) /\ StartHead(d).sched_task # "leaving"
PROOF
<1> SUFFICES ASSUME NEW e, e = StartHead(d)
    PROVE  JobsOK(e, A) /\ e.sched_task # "leaving"
  OBVIOUS
<1> DEFINE h == Head(d.readyq)
           c == [d EXCEPT !.elapsed = 0]
<1>1. /\ e \in Dispatchers /\ e.readyq = d.readyq /\ e.current = d.current
      /\ e.elapsed = 0
  BY StartHeadType
<1>0. 0 \in 0 .. MaxTicks
  BY ConstantsAssumption
<1>2. /\ c \in Dispatchers /\ c.readyq = d.readyq /\ SameRequests(d, c)
      /\ c.enforcement = d.enforcement
  BY <1>0 DEF Dispatchers, SameRequests
<1>3. \A x \in A : d.current[x] \in Int
  BY ConstantsAssumption DEF Dispatchers
<1>4. WithinBudget(e, A)
  BY <1>1, <1>3 DEF WithinBudget
<1>5. CASE d.readyq = <<>>
  <2>1. e = c
    BY <1>5 DEF StartHead
  <2> HIDE DEF c
  <2>2. QED
    BY <1>1, <1>2, <1>4, <1>5, <2>1
       DEF JobsOK, Plain, Served, RequestsOK, HeadIs, SameRequests
<1>6. CASE d.readyq # <<>> /\ d.current[h] < Budget(h)
  <2>1. h \in Rids
    BY <1>6 DEF Dispatchers
  <2> DEFINE left == Budget(h) - d.current[h]
  <2>2. e = [c EXCEPT !.enforcement[h] = left]
    BY <1>6 DEF StartHead, Budget
  <2>3. d.current[h] \in Int /\ Budget(h) \in Int
    BY <2>1, SpecType, ConstantsAssumption DEF Dispatchers, Budget
  <2>4. left # Off
    BY <1>6, <2>3 DEF Off
  <2> HIDE DEF left, c
  <2>5. e.enforcement[h] = left /\ SameRequests(d, e)
    BY <1>2, <2>1, <2>2 DEF Dispatchers, SameRequests
  <2>6. QED
    BY <1>1, <1>4, <2>4, <2>5
       DEF JobsOK, Plain, Served, RequestsOK, HeadIs, SameRequests
<1>7. CASE d.readyq # <<>> /\ ~ (d.current[h] < Budget(h))
  <2>1. h \in Rids /\ h \in ToSet(d.readyq)
    BY <1>7, HeadMember
  <2>2. d.current[h] \in Int /\ Budget(h) \in Int
    BY <2>1, SpecType, ConstantsAssumption DEF Dispatchers, Budget
  <2>3. e = BudgetEnforcement(c, h, TRUE)
    BY <1>7, <2>2 DEF StartHead, Budget
  <2> HIDE DEF c, h
  <2>4. Idle(c)
    BY <1>2, <1>7 DEF Idle, SameRequests, h
  <2>5. /\ e.zero_slack = c.zero_slack \ {h} /\ e.signals = c.signals
        /\ e.request_stop = c.request_stop \cup {h}
        /\ e.reschedule = <<h>> /\ e.sched_task = "running"
    <3>1. ~Captured(h)
      BY <2>1 DEF Uncaptured
    <3>2. c \in Dispatchers /\ h \in Rids
      BY <1>2, <2>1
    <3>3. /\ BudgetEnforcement(c, h, TRUE).zero_slack = c.zero_slack \ {h}
          /\ BudgetEnforcement(c, h, TRUE).signals = c.signals
          /\ BudgetEnforcement(c, h, TRUE).request_stop = c.request_stop \cup {h}
          /\ BudgetEnforcement(c, h, TRUE).reschedule = <<h>>
          /\ BudgetEnforcement(c, h, TRUE).sched_task = "running"
      BY <2>4, <3>1, <3>2, StopRequestMeans
    <3>4. QED
      BY <2>3, <3>3
  <2>6. Plain(e)
    BY <1>2, <2>5 DEF Plain, SameRequests
  <2>7. Served(e, A)
    BY <1>1, <2>5 DEF Served, HeadIs, h
  <2>8. RequestsOK(e, A)
    BY <1>1, <2>1, <2>5 DEF RequestsOK
  <2>9. QED
    BY <1>4, <2>5, <2>6, <2>7, <2>8 DEF JobsOK
<1>8. QED
  BY <1>5, <1>6, <1>7

\* A reserve within its budget is charged within its budget.
LEMMA ChargedWithinBudget ==
  ASSUME TypeOK, NEW d \in Dispatchers, NEW A \in SUBSET Rids,
         WithinBudget(d, A), NEW x \in A
  PROVE  /\ UsedIn(d)[x] \in Int /\ UsedIn(d)[x] <= Budget(x)
         /\ d.current[x] \in Int /\ d.current[x] <= Budget(x)
PROOF
<1>1. d.current[x] \in 0 .. MaxTicks /\ d.elapsed \in 0 .. MaxTicks
  BY DEF Dispatchers
<1>2. Budget(x) \in Int
  BY SpecType DEF Budget
<1>3. UsedIn(d)[x] = Capped(d.current[x] + IF HeadIs(d, x) THEN d.elapsed ELSE 0)
  BY UsedMeans DEF HeadIs
<1>4. d.current[x] + (IF HeadIs(d, x) THEN d.elapsed ELSE 0) <= Budget(x)
  BY DEF WithinBudget
<1>5. QED
  BY <1>1, <1>2, <1>3, <1>4, ConstantsAssumption DEF Capped

\* Starting a reserve that is not ready charges the head, links the reserve
\* and starts the head of the queue.
LEMMA StartUnfolds ==
  ASSUME TypeOK, NEW d \in Dispatchers, NEW prio \in [Rids -> Int],
         NEW r \in Rids, r \notin ToSet(d.readyq)
  PROVE  \E f \in Dispatchers :
           /\ Start(d, prio, r) = StartHead(f)
           /\ f.readyq = Enqueue(d.readyq, {x \in Rids : prio[x] < prio[r]}, r)
           /\ f.current = UsedIn(d)
           /\ SameRequests(d, f)
           /\ TimerSound(d) => NoTimer(f)
PROOF
<1> DEFINE e == IF d.readyq = <<>> THEN d ELSE ChargeHead(d)
           lower == {x \in Rids : prio[x] < prio[r]}
           q == Enqueue(d.readyq, lower, r)
           f == [e EXCEPT !.readyq = q]
<1>1. /\ e \in Dispatchers /\ e.readyq = d.readyq /\ e.current = UsedIn(d)
      /\ SameRequests(d, e)
      /\ TimerSound(d) => NoTimer(e)
  <2>1. CASE d.readyq = <<>>
    BY <2>1, UsedAtStart DEF SameRequests, TimerSound, NoTimer
  <2>2. CASE d.readyq # <<>>
    <3>1. SameRequests(d, ChargeHead(d))
      BY DEF ChargeHead, SameRequests, Dispatchers
    <3>2. QED
      BY <2>2, <3>1, ChargeHeadType, ChargeHeadUsed
  <2>3. QED
    BY <2>1, <2>2
<1>2. Start(d, prio, r) = StartHead(f)
  <2>1. ~ \E i \in DOMAIN d.readyq : d.readyq[i] = r
    BY DEF ToSet
  <2>2. QED
    BY <1>1, <2>1 DEF Start
<1>3. q \in Seq(Rids)
  BY EnqueueMembers DEF Dispatchers
<1> HIDE DEF e, q
<1>4. /\ f \in Dispatchers /\ f.readyq = q /\ f.current = e.current
      /\ f.enforcement = e.enforcement /\ SameRequests(e, f)
  BY <1>1, <1>3 DEF Dispatchers, SameRequests
<1> HIDE DEF f
<1>5. /\ f.current = UsedIn(d) /\ SameRequests(d, f)
      /\ TimerSound(d) => NoTimer(f)
  BY <1>1, <1>4 DEF SameRequests, NoTimer
<1>6. f.readyq = Enqueue(d.readyq, {x \in Rids : prio[x] < prio[r]}, r)
  BY <1>4 DEF q
<1>7. QED
  BY <1>2, <1>4, <1>5, <1>6

\* Stopping the head charges it, unlinks it and starts the next head.
LEMMA StopUnfolds ==
  ASSUME TypeOK, NEW d \in Dispatchers, NEW r \in Rids, Distinct(d.readyq),
         HeadIs(d, r)
  PROVE  \E f \in Dispatchers :
           /\ Stop(d, r) = StartHead(f)
           /\ f.readyq = Dequeue(d.readyq, r) /\ f.readyq = Tail(d.readyq)
           /\ f.current = UsedIn(d)
           /\ SameRequests(d, f)
           /\ TimerSound(d) => NoTimer(f)
PROOF
<1> DEFINE e == ChargeHead(d)
           q == Tail(d.readyq)
           f == [e EXCEPT !.readyq = q]
<1>1. d.readyq # <<>> /\ Head(d.readyq) = r /\ d.readyq \in Seq(Rids)
  BY DEF HeadIs, Dispatchers
<1>2. q = Dequeue(d.readyq, r) /\ q \in Seq(Rids)
  <2>1. Dequeue(d.readyq, Head(d.readyq)) = Tail(d.readyq)
    BY <1>1, DequeueHeadIsTail
  <2>2. QED
    BY <1>1, <2>1, DequeueProperties
<1>3. /\ e \in Dispatchers /\ e.readyq = d.readyq /\ e.current = UsedIn(d)
      /\ SameRequests(d, e)
      /\ TimerSound(d) => NoTimer(e)
  <2>1. SameRequests(d, ChargeHead(d))
    BY DEF ChargeHead, SameRequests, Dispatchers
  <2>2. QED
    BY <1>1, <2>1, ChargeHeadType, ChargeHeadUsed
<1>4. Stop(d, r) = StartHead(f)
  BY <1>1, <1>3 DEF Stop
<1> HIDE DEF e, q
<1>5. /\ f \in Dispatchers /\ f.readyq = q /\ f.current = e.current
      /\ f.enforcement = e.enforcement /\ SameRequests(e, f)
  BY <1>2, <1>3 DEF Dispatchers, SameRequests
<1> HIDE DEF f
<1>6. /\ f.current = UsedIn(d) /\ SameRequests(d, f)
      /\ TimerSound(d) => NoTimer(f)
  BY <1>3, <1>5 DEF SameRequests, NoTimer
<1>7. f.readyq = Tail(d.readyq) /\ f.readyq = Dequeue(d.readyq, r)
  BY <1>2, <1>5 DEF q
<1>8. QED
  BY <1>4, <1>5, <1>6, <1>7

\* Starting a job, as long as no request is pending or the job itself becomes
\* the head.
LEMMA StartJobs ==
  ASSUME TypeOK, Uncaptured, NEW d \in Dispatchers,
         NEW prio \in [Rids -> Int], NEW r \in Rids, NEW A \in SUBSET Rids,
         JobsOK(d, A), d.sched_task # "leaving",
         \/ d.reschedule = <<>>
         \/ HeadIs(Start(d, prio, r), r) /\ d.current[r] < Budget(r)
  PROVE  /\ JobsOK(Start(d, prio, r), A)
         /\ Start(d, prio, r).sched_task # "leaving"
PROOF
<1>1. CASE r \in ToSet(d.readyq)
  <2>1. Start(d, prio, r) = d
    BY <1>1 DEF Start, ToSet
  <2>2. QED
    BY <2>1
<1>2. CASE r \notin ToSet(d.readyq)
  <2> DEFINE q == Enqueue(d.readyq, {x \in Rids : prio[x] < prio[r]}, r)
  <2>1. PICK f \in Dispatchers :
           /\ Start(d, prio, r) = StartHead(f)
           /\ f.readyq = q /\ f.current = UsedIn(d) /\ SameRequests(d, f)
    BY <1>2, StartUnfolds
  <2>2. ToSet(f.readyq) = ToSet(d.readyq) \cup {r}
    BY <2>1, EnqueueMembers DEF Dispatchers
  <2> HIDE DEF q
  <2>3. Plain(f) /\ RequestsOK(f, A) /\ f.sched_task # "leaving"
    BY <2>1, <2>2 DEF JobsOK, Plain, RequestsOK, SameRequests
  <2>4. \A x \in A : f.current[x] <= Budget(x)
    BY <2>1, ChargedWithinBudget DEF JobsOK
  <2>5. HeadIs(Start(d, prio, r), r) => f.readyq # <<>> /\ Head(f.readyq) = r
    BY <2>1, StartHeadType DEF HeadIs
  <2>6. f.current[r] = d.current[r]
    <3>1. ~ (d.readyq # <<>> /\ Head(d.readyq) = r)
      BY <1>2, HeadMember
    <3>2. QED
      BY <2>1, <3>1, UsedMeans
  <2>7. \/ f.reschedule = <<>>
        \/ f.readyq # <<>> /\ f.current[Head(f.readyq)] < Budget(Head(f.readyq))
    BY <2>1, <2>5, <2>6 DEF SameRequests
  <2>8. QED
    BY <2>1, <2>3, <2>4, <2>7, StartHeadJobs
<1>3. QED
  BY <1>1, <1>2

\* Stopping a job of an idle dispatcher, whatever it has been charged.
LEMMA StopJobs ==
  ASSUME TypeOK, Uncaptured, NEW d \in Dispatchers, NEW r \in Rids,
         NEW A \in SUBSET Rids, Distinct(d.readyq), Plain(d), Idle(d),
         Served(d, A \ {r}), WithinBudget(d, A)
  PROVE  /\ JobsOK(Stop(d, r), A)
         /\ Stop(d, r).sched_task # "leaving"
         /\ Stop(d, r).reschedule # <<>> => HeadIs(d, r)
PROOF
<1>1. CASE HeadIs(d, r)
  <2>1. PICK f \in Dispatchers :
           /\ Stop(d, r) = StartHead(f)
           /\ f.current = UsedIn(d) /\ SameRequests(d, f)
    BY <1>1, StopUnfolds
  <2>2. Plain(f) /\ RequestsOK(f, A) /\ f.sched_task # "leaving"
        /\ f.reschedule = <<>>
    BY <2>1 DEF Plain, RequestsOK, SameRequests, Idle
  <2>3. \A x \in A : f.current[x] <= Budget(x)
    BY <2>1, ChargedWithinBudget
  <2>4. QED
    BY <1>1, <2>1, <2>2, <2>3, StartHeadJobs
<1>2. CASE ~HeadIs(d, r)
  <2> DEFINE q == Dequeue(d.readyq, r)
             f == [d EXCEPT !.readyq = q]
  <2>1. Stop(d, r) = f
    BY <1>2 DEF Stop, HeadIs
  <2>2. q \in Seq(Rids) /\ ToSet(q) = ToSet(d.readyq) \ {r}
    BY DequeueProperties DEF Dispatchers
  <2>3. \A x \in Rids : HeadIs(f, x) => HeadIs(d, x) /\ x # r
    <3>1. d.readyq \in Seq(Rids) /\ f.readyq = q
      BY DEF Dispatchers
    <3>2. d.readyq = <<>> => q = <<>>
      BY DEF Dequeue
    <3>3. d.readyq # <<>> => q # <<>> /\ Head(q) = Head(d.readyq)
      BY <1>2, <3>1, DequeueKeepsHead DEF HeadIs
    <3> HIDE DEF q, f
    <3>4. QED
      BY <1>2, <3>1, <3>2, <3>3 DEF HeadIs
  <2> HIDE DEF q
  <2>4. /\ f.current = d.current /\ f.elapsed = d.elapsed
        /\ f.enforcement = d.enforcement /\ SameRequests(d, f)
    BY DEF Dispatchers, SameRequests
  <2> HIDE DEF f
  <2>5. Plain(f) /\ RequestsOK(f, A) /\ f.sched_task # "leaving"
        /\ f.reschedule = <<>>
    BY <2>4 DEF Plain, RequestsOK, SameRequests, Idle
  <2>6. Served(f, A)
    BY <2>3, <2>4 DEF Served, Idle, SameRequests
  <2>7. WithinBudget(f, A)
    <3>1. ASSUME NEW x \in A
          PROVE  f.current[x] + (IF HeadIs(f, x) THEN f.elapsed ELSE 0) <= Budget(x)
      <4>1. d.elapsed \in 0 .. MaxTicks /\ d.current[x] \in Int
        BY ConstantsAssumption DEF Dispatchers
      <4>2. Budget(x) \in Int
        BY SpecType DEF Budget
      <4>3. d.current[x] + (IF HeadIs(d, x) THEN d.elapsed ELSE 0) <= Budget(x)
        BY DEF WithinBudget
      <4>4. QED
        BY <2>3, <2>4, <4>1, <4>2, <4>3, ConstantsAssumption
    <3>2. QED
      BY <3>1 DEF WithinBudget
  <2>8. QED
    BY <2>1, <2>5, <2>6, <2>7 DEF JobsOK
<1>3. QED
  BY <1>1, <1>2

\* Jobs are not disturbed by what touches neither the queue nor the timers of
\* the reserves with a task, and adds no charge and no request.
LEMMA QuietJobs ==
  ASSUME TypeOK, NEW d \in Dispatchers, NEW e \in Dispatchers,
         NEW A \in SUBSET Rids, JobsOK(d, A),
         e.readyq = d.readyq, e.elapsed = d.elapsed,
         \A x \in A : e.current[x] <= d.current[x],
         \A x \in A : e.enforcement[x] = d.enforcement[x],
         e.reschedule = d.reschedule, e.sched_task = d.sched_task,
         e.reschedule # <<>> => e.request_stop = d.request_stop,
         Plain(e)
  PROVE  JobsOK(e, A)
PROOF
<1>1. Served(e, A) /\ RequestsOK(e, A)
  BY DEF JobsOK, Served, RequestsOK, HeadIs
<1>2. ASSUME NEW x \in A
      PROVE  e.current[x] + (IF HeadIs(e, x) THEN e.elapsed ELSE 0) <= Budget(x)
  <2>1. /\ d.current[x] \in Int /\ e.current[x] \in Int
        /\ d.elapsed \in Int /\ Budget(x) \in Int
    BY SpecType DEF Dispatchers, Budget
  <2>2. d.current[x] + (IF HeadIs(d, x) THEN d.elapsed ELSE 0) <= Budget(x)
    BY DEF JobsOK, WithinBudget
  <2>3. HeadIs(e, x) <=> HeadIs(d, x)
    BY DEF HeadIs
  <2>4. e.current[x] <= d.current[x] /\ e.elapsed = d.elapsed
    OBVIOUS
  <2>5. CASE HeadIs(d, x)
    BY <2>1, <2>2, <2>3, <2>4, <2>5
  <2>6. CASE ~HeadIs(d, x)
    BY <2>1, <2>2, <2>3, <2>4, <2>6
  <2>7. QED
    BY <2>5, <2>6
<1>3. QED
  BY <1>1, <1>2 DEF JobsOK, WithinBudget

\* Fewer reserves with a task promise less.
LEMMA FewerJobs ==
  ASSUME NEW d, NEW A, NEW B \in SUBSET A, JobsOK(d, A)
  PROVE  JobsOK(d, B)
PROOF
BY DEF JobsOK, Served, RequestsOK, WithinBudget

\* What delete_reserve does to the ready queue keeps the jobs of the others.
LEMMA RemovalsJobs ==
  ASSUME TypeOK, Uncaptured, NEW d \in Dispatchers, NEW r \in Rids,
         Distinct(d.readyq), Idle(d), JobsOK(d, Live \ {r}),
         NEW e \in Removals(d, r)
  PROVE  JobsOK(e, Live \ {r})
PROOF
<1> DEFINE A == Live \ {r}
           q == Dequeue(d.readyq, r)
           f == [d EXCEPT !.readyq = q]
<1>1. A \in SUBSET Rids /\ r \notin A
  BY DEF Live
<1>2. q \in Seq(Rids) /\ ToSet(q) = ToSet(d.readyq) \ {r}
  BY DequeueProperties DEF Dispatchers
<1>3. /\ f \in Dispatchers /\ f.readyq = q /\ f.current = d.current
      /\ SameRequests(d, f)
  BY <1>2 DEF Dispatchers, SameRequests
<1>4. CASE e = Stop(d, r)
  BY <1>1, <1>4, StopJobs DEF JobsOK, Served
<1>5. CASE ~HeadIs(d, r)
  <2>1. e = Stop(d, r)
    BY <1>5 DEF HeadIs, Removals, Stop
  <2>2. QED
    BY <1>4, <2>1
<1>6. CASE HeadIs(d, r) /\ e = StartHead(f)
  <2>1. \A x \in A : f.current[x] <= Budget(x)
    BY <1>1, <1>3, ChargedWithinBudget DEF JobsOK
  <2>2. Plain(f) /\ RequestsOK(f, A) /\ f.reschedule = <<>>
        /\ f.sched_task # "leaving"
    BY <1>3 DEF JobsOK, Plain, RequestsOK, SameRequests, Idle
  <2> HIDE DEF f, A
  <2>3. JobsOK(e, A)
    BY <1>1, <1>3, <1>6, <2>1, <2>2, StartHeadJobs
  <2>4. QED
    BY <2>3 DEF A
<1>7. CASE q # <<>> /\ ~Alive(Head(q))
           /\ \E t \in 0 .. MaxTicks : e = [f EXCEPT !.elapsed = t]
  <2>1. PICK t \in 0 .. MaxTicks : e = [f EXCEPT !.elapsed = t]
    BY <1>7
  <2>2. \A x \in A : d.current[x] \in Int /\ d.current[x] <= Budget(x)
    BY <1>1, ChargedWithinBudget DEF JobsOK
  <2> HIDE DEF f, q
  <2>3. e.readyq = q /\ e.current = d.current /\ SameRequests(d, e)
    BY <1>3, <2>1 DEF Dispatchers, SameRequests
  <2>4. \A x \in A : ~HeadIs(e, x)
    BY <1>7, <2>3 DEF HeadIs, Live
  <2>5. Plain(e) /\ RequestsOK(e, A)
    BY <2>3 DEF JobsOK, Plain, RequestsOK, SameRequests, Idle
  <2>6. Served(e, A)
    BY <2>4 DEF Served
  <2>7. WithinBudget(e, A)
    BY <2>2, <2>3, <2>4 DEF WithinBudget
  <2>8. QED
    BY <2>5, <2>6, <2>7 DEF JobsOK
<1>8. QED
  BY <1>4, <1>5, <1>6, <1>7 DEF Removals, HeadIs

\* delete_reserve keeps the jobs of the others.
LEMMA DeleteJobs ==
  ASSUME IInv, Uncaptured, NEW d, DispatcherOK(d), NEW r \in Rids, NEW t,
         Idle(d), JobsOK(d, Live \ {r}), DeleteReserve(d, t, r)
  PROVE  /\ JobsOK(dispatcher', Live \ {r})
         /\ ToSet(dispatcher'.readyq) \subseteq ToSet(d.readyq)
PROOF
<1>1. TypeOK /\ d \in Dispatchers /\ Distinct(d.readyq)
      /\ d.readyq \in Seq(Rids) /\ Live \ {r} \in SUBSET Rids
  BY SortedDistinct DEF IInv, TypeOK, DispatcherOK, Dispatchers, Live
<1>2. PICK e \in Removals(d, r) :
        dispatcher' = [CancelTimers(e, r) EXCEPT !.signals[r] = <<>>]
  BY DEF DeleteReserve
<1>3. /\ e \in Dispatchers /\ JobsOK(e, Live \ {r})
      /\ e.readyq = Dequeue(d.readyq, r)
  BY <1>1, <1>2, RemovalsType, RemovalsJobs
<1> DEFINE c == CancelTimers(e, r)
<1>4. /\ c \in Dispatchers /\ c.readyq = e.readyq /\ c.current = e.current
      /\ c.elapsed = e.elapsed
      /\ \A x \in Rids : c.enforcement[x] = IF x = r THEN Off
                                            ELSE e.enforcement[x]
  BY <1>3, CancelTimersType
<1>5. /\ c.reschedule = e.reschedule /\ c.request_stop = e.request_stop
      /\ c.sched_task = e.sched_task /\ c.signals = e.signals
      /\ c.zero_slack = e.zero_slack \ {r}
  BY <1>3 DEF CancelTimers, Dispatchers
<1>6. dispatcher' = [c EXCEPT !.signals[r] = <<>>]
  BY <1>2
<1> HIDE DEF c
<1>7. /\ dispatcher' \in Dispatchers
      /\ dispatcher'.readyq = e.readyq /\ dispatcher'.current = e.current
      /\ dispatcher'.elapsed = e.elapsed
      /\ dispatcher'.enforcement = c.enforcement
      /\ dispatcher'.reschedule = e.reschedule
      /\ dispatcher'.request_stop = e.request_stop
      /\ dispatcher'.sched_task = e.sched_task
      /\ dispatcher'.zero_slack = e.zero_slack \ {r}
      /\ \A x \in Rids : dispatcher'.signals[x] = IF x = r THEN <<>>
                                                  ELSE e.signals[x]
  <2>1. c.signals = e.signals /\ e.signals \in [Rids -> Seq([stop : BOOLEAN, periodic : BOOLEAN])]
    BY <1>3, <1>5 DEF Dispatchers
  <2>2. /\ dispatcher'.readyq = c.readyq /\ dispatcher'.current = c.current
        /\ dispatcher'.elapsed = c.elapsed
        /\ dispatcher'.enforcement = c.enforcement
        /\ dispatcher'.reschedule = c.reschedule
        /\ dispatcher'.request_stop = c.request_stop
        /\ dispatcher'.sched_task = c.sched_task
        /\ dispatcher'.zero_slack = c.zero_slack
        /\ dispatcher'.signals = [c.signals EXCEPT ![r] = <<>>]
    BY <1>4, <1>6 DEF Dispatchers
  <2>3. [c.signals EXCEPT ![r] = <<>>] \in [Rids -> Seq([stop : BOOLEAN, periodic : BOOLEAN])]
    BY <2>1
  <2>4. dispatcher' \in Dispatchers
    BY <1>4, <1>6, <2>3 DEF Dispatchers
  <2>5. QED
    BY <1>4, <1>5, <2>1, <2>2, <2>4
<1>8. Plain(dispatcher')
  BY <1>3, <1>7 DEF JobsOK, Plain
<1>9. \A x \in Live \ {r} : /\ dispatcher'.enforcement[x] = e.enforcement[x]
                            /\ dispatcher'.current[x] <= e.current[x]
  <2>1. \A x \in Rids : e.current[x] <= e.current[x]
    BY <1>3 DEF Dispatchers
  <2>2. QED
    BY <1>1, <1>4, <1>7, <2>1
<1>10. JobsOK(dispatcher', Live \ {r})
  BY <1>1, <1>3, <1>7, <1>8, <1>9, QuietJobs
<1>11. QED
  BY <1>1, <1>3, <1>7, <1>10, DequeueProperties

\* timer_handler for a reserve without a task keeps the jobs of the others.
LEMMA ForceDeleteJobs ==
  ASSUME TypeOK, NEW d \in Dispatchers, NEW r \in Rids, Idle(d),
         NEW A \in SUBSET Rids, r \notin A, JobsOK(d, A), ForceDelete(d, r)
  PROVE  JobsOK(dispatcher', A) /\ dispatcher'.readyq = d.readyq
PROOF
<1> DEFINE f == [d EXCEPT !.request_stop = @ \ {r}]
           g == PushToReschedule(f, r)
<1>1. /\ f \in Dispatchers /\ f.readyq = d.readyq /\ f.current = d.current
      /\ f.elapsed = d.elapsed /\ f.enforcement = d.enforcement
      /\ f.reschedule = <<>> /\ f.sched_task = d.sched_task
      /\ f.signals = d.signals /\ f.zero_slack = d.zero_slack
  BY DEF Dispatchers, Idle
<1>2. dispatcher' = WakeScheduler(g)
  BY DEF ForceDelete
<1> HIDE DEF f
<1>3. g = [f EXCEPT !.reschedule = <<r>>]
  <2>1. Len(<<>>) < MaxReserves /\ Append(<<>>, r) = <<r>>
    BY MaxReservesAssumption
  <2>2. QED
    BY <1>1, <2>1 DEF PushToReschedule, Dispatchers
<1>4. g \in Dispatchers
  BY <1>1, PushToRescheduleType
<1>5. /\ g.readyq = f.readyq /\ g.current = f.current
      /\ g.elapsed = f.elapsed /\ g.enforcement = f.enforcement
      /\ g.reschedule = <<r>> /\ g.sched_task = f.sched_task
      /\ g.signals = f.signals /\ g.zero_slack = f.zero_slack
  BY <1>1, <1>3 DEF Dispatchers
<1> HIDE DEF g
<1>6. /\ dispatcher'.readyq = d.readyq /\ dispatcher'.current = d.current
      /\ dispatcher'.elapsed = d.elapsed
      /\ dispatcher'.enforcement = d.enforcement
      /\ dispatcher'.reschedule = <<r>> /\ dispatcher'.sched_task = "running"
      /\ dispatcher'.signals = d.signals
      /\ dispatcher'.zero_slack = d.zero_slack
  <2>1. d.sched_task \in {"asleep", "running"}
    BY DEF Dispatchers, Idle
  <2>2. QED
    BY <1>1, <1>2, <1>4, <1>5, <2>1 DEF WakeScheduler, Dispatchers
<1>7. Plain(dispatcher') /\ RequestsOK(dispatcher', A)
  BY <1>6 DEF JobsOK, Plain, RequestsOK
<1>8. Served(dispatcher', A)
  BY <1>6 DEF JobsOK, Served, HeadIs, Idle
<1>9. WithinBudget(dispatcher', A)
  BY <1>6 DEF JobsOK, WithinBudget, HeadIs
<1>10. QED
  BY <1>6, <1>7, <1>8, <1>9 DEF JobsOK

\* A handler finds an idle dispatcher.
LEMMA EnterIdle ==
  ASSUME RateMonotonic, TypeOK, JobInv, Enter
  PROVE  Idle(dispatcher) /\ dispatcher.reschedule = <<>>
PROOF
BY DEF Enter, RateMonotonic, JobInv, JobsOK, RequestsOK, Idle

\* No zero-slack timer is armed.
LEMMA NoSlack ==
  ASSUME RateMonotonic, TypeOK, JobInv, NEW d, NEW r \in Rids, Active(r),
         d \in Dispatchers
  PROVE  ArmZeroSlack(d, r) = d
PROOF
<1>1. ~table[r].spec.zsinstant
  BY DEF RateMonotonic, JobInv, Specified
<1>2. QED
  BY <1>1 DEF ArmZeroSlack, Dispatchers

\* A reserve in use has a budget.
LEMMA SomeBudget ==
  ASSUME RateMonotonic, TypeOK, JobInv, NEW r \in Rids, Active(r)
  PROVE  Budget(r) \in Int /\ Budget(r) > 0
PROOF
BY SpecType DEF RateMonotonic, JobInv, Specified, Budget

\* What a step that preserves the parameters of the reserves has to show.
LEMMA JobStepMeans ==
  ASSUME JobInv, JobsOK(dispatcher', Live'),
         \A x \in Rids : table'[x].pid # Free =>
           table[x].pid # Free /\ table'[x].spec = table[x].spec,
         \A x \in Rids : table'[x].enforcement_signal_captured =
                           table[x].enforcement_signal_captured,
         sys_criticality' = 0, critical_reservesq'.head = Nil,
         crit_blockq'.head = Nil, lock'.by \notin {"zs", "handler"},
         Caller', EnforcedStopped'
  PROVE  JobInv'
PROOF
<1>1. \A x \in Live' : table'[x].spec = table[x].spec
  BY DEF Live, Alive, Attached, Free
<1>2. JobsOK(dispatcher, Live)'
  BY <1>1 DEF JobsOK, Plain, Served, RequestsOK, WithinBudget, HeadIs, Budget
<1>3. Uncaptured' /\ Specified'
  BY DEF JobInv, Uncaptured, Captured, Specified, Active
<1>4. QED
  BY <1>2, <1>3 DEF JobInv, Uncritical

\* The deletion of a reserve, from an idle dispatcher.
LEMMA DeleteJobInv ==
  ASSUME IInv, JobInv, NEW d, DispatcherOK(d), d.readyq = dispatcher.readyq,
         NEW r \in Rids, NEW t \in [Rids -> Reserves],
         \A x \in Rids : /\ t[x].pid = table[x].pid
                         /\ t[x].spec = table[x].spec
                         /\ t[x].enforcement_signal_captured =
                              table[x].enforcement_signal_captured
                         /\ x # r => t[x] = table[x],
         Idle(d), JobsOK(d, Live \ {r}), DeleteReserve(d, t, r),
         UNCHANGED critVars, lock'.by \in {"free", "sched"}
  PROVE  JobInv'
PROOF
<1>1. /\ table' = [t EXCEPT ![r].pid = Free] /\ task' = [task EXCEPT ![r] = "none"]
      /\ task \in [Rids -> TaskStates]
  BY DEF DeleteReserve, IInv, TypeOK
<1>2. /\ JobsOK(dispatcher', Live \ {r})
      /\ ToSet(dispatcher'.readyq) \subseteq Ready
  BY DeleteJobs DEF JobInv, Ready
<1>3. \A x \in Rids : /\ table'[x].spec = table[x].spec
                      /\ table'[x].enforcement_signal_captured =
                           table[x].enforcement_signal_captured
                      /\ x # r => table'[x] = table[x] /\ task'[x] = task[x]
  BY <1>1 DEF Reserves
<1>4. table'[r].pid = Free
  BY <1>1 DEF Reserves
<1>5. Live' = Live \ {r}
  BY <1>3, <1>4 DEF Live, Alive, Attached, Free
<1>6. EnforcedStopped'
  BY <1>2, <1>3, <1>4 DEF JobInv, EnforcedStopped, Ready, Attached, Free
<1>7. Caller'
  BY DEF Caller, Departing
<1>8. \A x \in Rids : table'[x].pid # Free => table[x].pid # Free
  BY <1>3, <1>4
<1>9. QED
  BY <1>2, <1>3, <1>5, <1>6, <1>7, <1>8, JobStepMeans
     DEF JobInv, Uncritical, critVars

\* Whoever has a higher priority than all of a queue becomes its head.
LEMMA HighestFirst ==
  ASSUME NEW q \in Seq(Rids), NEW r \in Rids, NEW Later,
         \A i \in DOMAIN q : q[i] \in Later
  PROVE  Enqueue(q, Later, r) # <<>> /\ Head(Enqueue(q, Later, r)) = r
PROOF
<1>1. StopsAt(q, Later, Slot(q, Later))
  BY SlotProperties
<1>2. Slot(q, Later) = 1
  BY <1>1 DEF StopsAt
<1>3. 1 \in 1 .. Len(q) + 1
  OBVIOUS
<1>4. /\ InsertAt(q, 1, r) \in Seq(Rids) /\ Len(InsertAt(q, 1, r)) = Len(q) + 1
      /\ InsertAt(q, 1, r)[1] = r
  BY <1>3, InsertAtProperties
<1>5. QED
  BY <1>2, <1>4 DEF Enqueue

\* A job that is stopped at its arrival while it executes is the first to be
\* started again.
LEMMA RestartsFirst ==
  ASSUME TypeOK, NEW b \in Dispatchers, NEW r \in Rids, HeadIs(b, r),
         OrderedBy(b.readyq, Higher(priority)), Distinct(b.readyq),
         NEW f \in Dispatchers, f.readyq = Stop(b, r).readyq
  PROVE  HeadIs(Start(f, priority, r), r)
PROOF
<1> DEFINE lower == {x \in Rids : priority[x] < priority[r]}
<1>1. b.readyq \in Seq(Rids) /\ b.readyq # <<>> /\ b.readyq[1] = r
  BY DEF HeadIs, Dispatchers
<1>2. f.readyq = Tail(b.readyq)
  BY <1>1, StopType, DequeueHeadIsTail DEF HeadIs
<1>3. \A i \in DOMAIN f.readyq : f.readyq[i] \in lower /\ f.readyq[i] # r
  <2>1. \A i \in DOMAIN f.readyq :
          i + 1 \in DOMAIN b.readyq /\ f.readyq[i] = b.readyq[i + 1] /\ 1 < i + 1
    BY <1>1, <1>2
  <2>2. \A i \in DOMAIN f.readyq :
          <<b.readyq[1], b.readyq[i + 1]>> \in Higher(priority)
            /\ b.readyq[i + 1] # b.readyq[1]
    BY <1>1, <2>1 DEF OrderedBy, Distinct
  <2>3. \A i \in DOMAIN f.readyq : f.readyq[i] \in Rids
    BY DEF Dispatchers
  <2>4. ASSUME NEW i \in DOMAIN f.readyq
        PROVE  priority[r] > priority[f.readyq[i]]
    BY <1>1, <2>1, <2>2, <2>3, HigherMeans
  <2>5. \A x \in Rids : priority[x] \in Int
    BY DEF TypeOK
  <2>6. QED
    BY <1>1, <2>1, <2>2, <2>3, <2>4, <2>5
<1>4. r \notin ToSet(f.readyq) /\ f.readyq \in Seq(Rids)
  BY <1>3 DEF ToSet, Dispatchers
<1>5. PICK g \in Dispatchers :
        /\ Start(f, priority, r) = StartHead(g)
        /\ g.readyq = Enqueue(f.readyq, lower, r)
  BY <1>4, StartUnfolds DEF TypeOK
<1>6. g.readyq # <<>> /\ Head(g.readyq) = r
  BY <1>3, <1>4, <1>5, HighestFirst
<1>7. QED
  BY <1>5, <1>6, StartHeadType DEF HeadIs

\* An arrival stops a job that is still there, from an idle dispatcher b, and
\* gives r a new budget in f.  No request is pending then, or r is the first
\* to be started.
LEMMA ArrivalMeans ==
  ASSUME RateMonotonic, IInv, JobInv, Enter, NEW r \in Rids, Alive(r),
         StartOfPeriod(r)
  PROVE  \E b, s, f \in Dispatchers :
           /\ DispatcherOK(b) /\ Idle(b) /\ SameCharges(dispatcher, b)
           /\ \A x \in Rids : x # r =>
                b.enforcement[x] = dispatcher.enforcement[x]
           /\ b.enforcement[r] \in {Off, dispatcher.enforcement[r]}
           /\ s = IF Overrun(r) THEN Stop(b, r) ELSE dispatcher
           /\ DispatcherOK(s) /\ JobsOK(s, Live)
           /\ f = [s EXCEPT !.current[r] = 0]
           /\ DispatcherOK(f) /\ JobsOK(f, Live) /\ f.sched_task # "leaving"
           /\ \/ f.reschedule = <<>>
              \/ HeadIs(Start(f, priority, r), r) /\ f.current[r] < Budget(r)
           /\ dispatcher' = IF Wakes(r) THEN Start(f, priority, r) ELSE f
PROOF
<1> DEFINE late == [dispatcher EXCEPT !.enforcement[r] = Off]
           b == BudgetEnforcement(late, r, FALSE)
           stopped == IF Overrun(r) THEN Stop(b, r) ELSE dispatcher
           fresh == [stopped EXCEPT !.current[r] = 0]
           d == ArmZeroSlack(fresh, r)
<1>1. TypeOK /\ DispatcherOK(dispatcher) /\ Idle(dispatcher)
      /\ Uncaptured /\ Active(r) /\ JobsOK(dispatcher, Live)
      /\ Live \in SUBSET Rids
  BY DispatcherInvariant, EnterIdle
     DEF IInv, JobInv, Alive, Active, Attached, Free, Live
<1>2. /\ DispatcherOK(late)
      /\ late.readyq = dispatcher.readyq /\ late.current = dispatcher.current
      /\ late.elapsed = dispatcher.elapsed
      /\ \A x \in Rids : x # r => late.enforcement[x] = dispatcher.enforcement[x]
      /\ late.enforcement[r] \in {Off, dispatcher.enforcement[r]}
      /\ SameRequests(dispatcher, late)
  <2>1. DispatcherOK(late)
    BY <1>1, EnforcementOffOK
  <2>2. QED
    BY <1>1, <2>1 DEF DispatcherOK, Dispatchers, SameRequests
<1> HIDE DEF late
<1>3. /\ b = [late EXCEPT !.zero_slack = @ \ {r}]
      /\ DispatcherOK(b)
  BY <1>1, <1>2, BudgetEnforcementOK
     DEF BudgetEnforcement, Uncaptured, Captured
<1>4. /\ b.readyq = late.readyq /\ b.current = late.current
      /\ b.elapsed = late.elapsed /\ b.enforcement = late.enforcement
      /\ b.reschedule = late.reschedule /\ b.sched_task = late.sched_task
      /\ b.signals = late.signals /\ b.zero_slack = late.zero_slack \ {r}
  BY <1>2, <1>3 DEF DispatcherOK, Dispatchers
<1> HIDE DEF b
<1>5. /\ b \in Dispatchers /\ Distinct(b.readyq) /\ Plain(b) /\ Idle(b)
      /\ Served(b, Live \ {r}) /\ WithinBudget(b, Live)
      /\ OrderedBy(b.readyq, Higher(priority))
  <2>1. b \in Dispatchers /\ OrderedBy(b.readyq, Higher(priority))
        /\ Distinct(b.readyq)
    BY <1>1, <1>3, SortedDistinct DEF DispatcherOK, Dispatchers, TypeOK
  <2>2. Plain(b) /\ Idle(b)
    BY <1>1, <1>2, <1>4 DEF JobsOK, Plain, Idle, SameRequests
  <2>3. Served(b, Live \ {r})
    BY <1>1, <1>2, <1>4 DEF JobsOK, Served, HeadIs, SameRequests
  <2>4. WithinBudget(b, Live)
    BY <1>1, <1>2, <1>4 DEF JobsOK, WithinBudget, HeadIs
  <2>5. QED
    BY <2>1, <2>2, <2>3, <2>4
<1>6. /\ DispatcherOK(stopped) /\ JobsOK(stopped, Live)
      /\ stopped.sched_task # "leaving"
      /\ stopped.reschedule # <<>> =>
           HeadIs(b, r) /\ stopped.readyq = Stop(b, r).readyq
  <2>1. DispatcherOK(Stop(b, r))
    BY <1>1, <1>3, StopOK
  <2>2. /\ JobsOK(Stop(b, r), Live) /\ Stop(b, r).sched_task # "leaving"
        /\ Stop(b, r).reschedule # <<>> => HeadIs(b, r)
    BY <1>1, <1>5, StopJobs
  <2>3. CASE Overrun(r)
    BY <2>1, <2>2, <2>3
  <2>4. CASE ~Overrun(r)
    BY <1>1, <2>4 DEF Idle
  <2>5. QED
    BY <2>3, <2>4
<1> HIDE DEF stopped
<1>7. /\ fresh \in Dispatchers /\ DispatcherOK(fresh)
      /\ fresh.readyq = stopped.readyq
      /\ fresh.reschedule = stopped.reschedule
      /\ fresh.sched_task = stopped.sched_task /\ fresh.current[r] = 0
      /\ JobsOK(fresh, Live)
  <2>0. DispatcherOK(fresh)
    BY <1>1, <1>6, CurrentZeroOK
  <2>1. /\ fresh \in Dispatchers /\ fresh.readyq = stopped.readyq
        /\ fresh.elapsed = stopped.elapsed
        /\ fresh.enforcement = stopped.enforcement
        /\ SameRequests(stopped, fresh)
        /\ fresh.current = [stopped.current EXCEPT ![r] = 0]
    BY <2>0, <1>6 DEF DispatcherOK, Dispatchers, SameRequests
  <2> HIDE DEF fresh
  <2>2. \A x \in Rids : stopped.current[x] \in 0 .. MaxTicks
    BY <1>6 DEF DispatcherOK, Dispatchers
  <2>3. stopped.current \in [Rids -> 0 .. MaxTicks]
    BY <1>6 DEF DispatcherOK, Dispatchers
  <2>4. \A x \in Rids : fresh.current[x] <= stopped.current[x]
    BY <2>1, <2>2, <2>3
  <2>5. Plain(fresh)
    BY <1>6, <2>1 DEF JobsOK, Plain, SameRequests
  <2>6. JobsOK(fresh, Live)
    BY <1>1, <1>6, <2>1, <2>4, <2>5, QuietJobs DEF SameRequests, DispatcherOK
  <2>7. QED
    BY <2>0, <2>1, <2>3, <2>6 DEF SameRequests
<1> HIDE DEF fresh
<1>8. d = fresh
  BY <1>1, <1>7, NoSlack
<1>9. dispatcher' = IF Wakes(r) THEN Start(d, priority, r) ELSE d
  <2>1. ~Suspended(r)
    BY <1>1, CriticalityType DEF Suspended, JobInv, Uncritical
  <2>2. QED
    BY <2>1 DEF StartOfPeriod, d, fresh, stopped, b, late
<1> HIDE DEF d
<1>10. \/ fresh.reschedule = <<>>
       \/ HeadIs(Start(fresh, priority, r), r) /\ fresh.current[r] < Budget(r)
  <2>1. Budget(r) \in Int /\ fresh.current[r] < Budget(r)
    BY <1>1, <1>7, SomeBudget
  <2>2. fresh.reschedule # <<>> => HeadIs(Start(fresh, priority, r), r)
    BY <1>1, <1>5, <1>6, <1>7, RestartsFirst
  <2>3. QED
    BY <2>1, <2>2
<1>11. /\ SameCharges(dispatcher, b)
       /\ \A x \in Rids : x # r => b.enforcement[x] = dispatcher.enforcement[x]
       /\ b.enforcement[r] \in {Off, dispatcher.enforcement[r]}
  BY <1>1, <1>2, <1>4 DEF SameCharges
<1>12. b \in Dispatchers /\ stopped \in Dispatchers /\ fresh \in Dispatchers
  BY <1>5, <1>6, <1>7 DEF DispatcherOK
<1>13. /\ stopped = IF Overrun(r) THEN Stop(b, r) ELSE dispatcher
       /\ fresh = [stopped EXCEPT !.current[r] = 0]
       /\ fresh.sched_task # "leaving"
  BY <1>6, <1>7 DEF stopped, fresh
<1>14. dispatcher' = IF Wakes(r) THEN Start(fresh, priority, r) ELSE fresh
  BY <1>8, <1>9
<1>15. QED
  BY <1>3, <1>5, <1>6, <1>7, <1>10, <1>11, <1>12, <1>13, <1>14

\* An arrival keeps the jobs, whatever the budget of the next head.
LEMMA StartOfPeriodJobs ==
  ASSUME RateMonotonic, IInv, JobInv, Enter, NEW r \in Rids, Alive(r),
         StartOfPeriod(r)
  PROVE  JobsOK(dispatcher', Live)
PROOF
<1>1. PICK f \in Dispatchers :
        /\ JobsOK(f, Live) /\ f.sched_task # "leaving"
        /\ \/ f.reschedule = <<>>
           \/ HeadIs(Start(f, priority, r), r) /\ f.current[r] < Budget(r)
        /\ dispatcher' \in {f, Start(f, priority, r)}
  BY ArrivalMeans
<1>2. TypeOK /\ Uncaptured /\ priority \in [Rids -> Int] /\ Live \in SUBSET Rids
  BY DEF IInv, TypeOK, JobInv, Live
<1>3. QED
  BY <1>1, <1>2, StartJobs

-----------------------------------------------------------------------------
(***************************************************************************)
(* The steps.                                                              *)
(***************************************************************************)

\* CREATE_RSV
LEMMA CreateReserveJobs ==
  ASSUME IInv, JobInv, NEW spec \in Specs, NEW admitted \in BOOLEAN,
         CreateReserve(spec, admitted)
  PROVE  JobInv'
PROOF
<1>1. PICK r \in Rids :
        /\ ~Active(r)
        /\ table' = [table EXCEPT
             ![r] = NewReserve(r, spec, IF admitted THEN Created ELSE Free)]
        /\ critical_reservesq' = [critical_reservesq EXCEPT !.next[r] = Nil]
        /\ crit_blockq' = [crit_blockq EXCEPT !.next[r] = Nil]
  BY DEF CreateReserve
<1>2. /\ critical_reservesq'.head = Nil /\ crit_blockq'.head = Nil
      /\ UNCHANGED <<task, dispatcher, sys_criticality, lock>>
  BY <1>1 DEF CreateReserve, JobInv, Uncritical, IInv, TypeOK, Lists
<1> DEFINE n == NewReserve(r, spec, IF admitted THEN Created ELSE Free)
<1>3. n \in Reserves /\ n.pid \in {Created, Free} /\ n.spec = spec
      /\ n.enforcement_signal_captured = FALSE
  <2>1. n \in Reserves /\ n.pid \in {Created, Free} /\ n.spec = spec
    BY NewReserveType DEF IInv
  <2>2. table[r] \in Reserves
    BY DEF IInv, TypeOK
  <2>3. QED
    BY <2>1, <2>2 DEF NewReserve, Reserves
<1> HIDE DEF n
<1>4. table'[r] = n /\ \A x \in Rids : x # r => table'[x] = table[x]
  BY <1>1 DEF n, IInv, TypeOK
<1>5. Live' = Live
  BY <1>1, <1>2, <1>3, <1>4 DEF Live, Alive, Active, Attached, Created, Free
<1>6. \A x \in Live : table'[x].spec = table[x].spec
  BY <1>1, <1>4 DEF Live, Alive, Active, Attached, Free
<1>7. JobsOK(dispatcher, Live)'
  BY <1>2, <1>5, <1>6
     DEF JobInv, JobsOK, Plain, Served, RequestsOK, WithinBudget, HeadIs, Budget
<1>8. Uncritical' /\ Caller'
  BY <1>2, <1>5 DEF JobInv, Uncritical, Caller
<1>9. Uncaptured' /\ Specified'
  BY <1>3, <1>4 DEF JobInv, Uncaptured, Captured, Specified, Active
<1>10. EnforcedStopped'
  BY <1>2, <1>3, <1>4 DEF JobInv, EnforcedStopped, Ready, Attached, Created, Free
<1>11. QED
  BY <1>7, <1>8, <1>9, <1>10 DEF JobInv

\* ATTACH_RSV starts r, with its whole budget, from an idle dispatcher.
LEMMA AttachMeans ==
  ASSUME RateMonotonic, IInv, IInv', JobInv, NEW r \in Rids, AttachReserve(r)
  PROVE  /\ Idle(dispatcher) /\ Active(r) /\ r \notin Live /\ r \notin Ready
         /\ Live' = Live \cup {r} /\ Ready' = Ready \cup {r}
         /\ \A x \in Rids \ {r} : table'[x] = table[x] /\ task'[x] = task[x]
         /\ table'[r] = [table[r] EXCEPT
              !.pid = Attached, !.start_period = 1, !.enforced = FALSE,
              !.in_critical_mode = FALSE]
         /\ task'[r] = "running" /\ UNCHANGED <<critVars, lock>>
         /\ lock.by = "free" /\ priority' \in [Rids -> Int]
         /\ \E f \in Dispatchers :
              /\ dispatcher' = Start(f, priority', r)
              /\ f.readyq = dispatcher.readyq
              /\ f.elapsed = dispatcher.elapsed
              /\ f.enforcement = dispatcher.enforcement
              /\ SameRequests(dispatcher, f)
              /\ \A x \in Rids : f.current[x] = IF x = r THEN 0
                                                ELSE dispatcher.current[x]
PROOF
<1> DEFINE f == [dispatcher EXCEPT !.current[r] = 0]
<1>1. /\ TypeOK /\ dispatcher \in Dispatchers /\ Idle(dispatcher) /\ Active(r)
      /\ table[r].pid = Created /\ lock.by = "free"
      /\ priority' \in [Rids -> Int]
  BY EnterIdle DEF AttachReserve, Enter, Active, Created, Free, IInv, TypeOK
<1>2. r \notin Live /\ r \notin Ready
  BY <1>1 DEF Live, Alive, Attached, Created, IInv, ReadyAttached
<1>3. /\ f \in Dispatchers /\ f.readyq = dispatcher.readyq
      /\ f.elapsed = dispatcher.elapsed
      /\ f.enforcement = dispatcher.enforcement
      /\ SameRequests(dispatcher, f)
      /\ \A x \in Rids : f.current[x] = IF x = r THEN 0
                                        ELSE dispatcher.current[x]
  <2>1. 0 \in 0 .. MaxTicks
    BY ConstantsAssumption
  <2>2. QED
    BY <1>1, <2>1 DEF Dispatchers, SameRequests
<1> HIDE DEF f
<1>4. dispatcher' = Start(f, priority', r)
  BY <1>1, <1>3, NoSlack DEF AttachReserve, f
<1>5. Ready' = Ready \cup {r}
  <2>1. ToSet(Start(f, priority', r).readyq) = ToSet(f.readyq) \cup {r}
    BY <1>1, <1>3, StartType
  <2>2. QED
    BY <1>3, <1>4, <2>1 DEF Ready
<1>6. /\ \A x \in Rids \ {r} : table'[x] = table[x] /\ task'[x] = task[x]
      /\ table'[r] = [table[r] EXCEPT
           !.pid = Attached, !.start_period = 1, !.enforced = FALSE,
           !.in_critical_mode = FALSE]
      /\ task'[r] = "running" /\ UNCHANGED <<critVars, lock>>
  BY <1>1 DEF AttachReserve, TypeOK
<1>7. table'[r].pid = Attached
  BY <1>1, <1>6 DEF TypeOK, Reserves
<1>8. Live' = Live \cup {r}
  BY <1>6, <1>7 DEF Live, Alive
<1>9. QED
  BY <1>1, <1>2, <1>3, <1>4, <1>5, <1>6, <1>8

\* ATTACH_RSV
LEMMA AttachReserveJobs ==
  ASSUME RateMonotonic, IInv, IInv', JobInv, NEW r \in Rids, AttachReserve(r)
  PROVE  JobInv'
PROOF
<1> DEFINE A == Live \cup {r}
<1>1. /\ Idle(dispatcher) /\ Active(r) /\ r \notin Live /\ r \notin Ready
      /\ Live' = A /\ Ready' = Ready \cup {r}
      /\ \A x \in Rids \ {r} : table'[x] = table[x] /\ task'[x] = task[x]
      /\ table'[r] = [table[r] EXCEPT
           !.pid = Attached, !.start_period = 1, !.enforced = FALSE,
           !.in_critical_mode = FALSE]
      /\ task'[r] = "running" /\ UNCHANGED <<critVars, lock>>
      /\ priority' \in [Rids -> Int]
  BY AttachMeans
<1>2. PICK fresh \in Dispatchers :
        /\ dispatcher' = Start(fresh, priority', r)
        /\ fresh.readyq = dispatcher.readyq
        /\ fresh.elapsed = dispatcher.elapsed
        /\ fresh.enforcement = dispatcher.enforcement
        /\ SameRequests(dispatcher, fresh)
        /\ \A x \in Rids : fresh.current[x] = IF x = r THEN 0
                                              ELSE dispatcher.current[x]
  BY AttachMeans
<1>3. /\ TypeOK /\ Uncaptured /\ JobsOK(dispatcher, Live) /\ A \in SUBSET Rids
      /\ dispatcher \in Dispatchers
  BY DEF IInv, TypeOK, JobInv, Live
<1>4. ~HeadIs(fresh, r)
  BY <1>1, <1>2, <1>3, HeadMember DEF HeadIs, Ready
<1>5. JobsOK(fresh, A)
  <2>1. Plain(fresh) /\ Served(fresh, A) /\ RequestsOK(fresh, A)
    BY <1>1, <1>2, <1>3, <1>4
       DEF JobsOK, Plain, Served, RequestsOK, HeadIs, SameRequests, Idle
  <2>2. Budget(r) \in Int /\ Budget(r) > 0
    BY <1>1, <1>3, SomeBudget
  <2>3. \A x \in Live :
          dispatcher.current[x]
            + (IF HeadIs(dispatcher, x) THEN dispatcher.elapsed ELSE 0) <= Budget(x)
    BY <1>3 DEF JobsOK, WithinBudget
  <2>4. \A x \in A :
          fresh.current[x] + (IF HeadIs(fresh, x) THEN fresh.elapsed ELSE 0)
            <= Budget(x)
    <3>1. fresh.current[r] + (IF HeadIs(fresh, r) THEN fresh.elapsed ELSE 0)
            <= Budget(r)
      BY <1>2, <1>4, <2>2
    <3>2. ASSUME NEW x \in Live
          PROVE  fresh.current[x] + (IF HeadIs(fresh, x) THEN fresh.elapsed ELSE 0)
                   <= Budget(x)
      <4>1. x # r /\ fresh.current[x] = dispatcher.current[x]
        BY <1>1, <1>2, <1>3
      <4>2. HeadIs(fresh, x) <=> HeadIs(dispatcher, x)
        BY <1>2 DEF HeadIs
      <4>3. QED
        BY <1>2, <2>3, <4>1, <4>2
    <3>3. QED
      BY <3>1, <3>2
  <2>5. QED
    BY <2>1, <2>4 DEF JobsOK, WithinBudget
<1>6. JobsOK(dispatcher', A)
  <2>1. fresh.reschedule = <<>> /\ fresh.sched_task # "leaving"
    BY <1>1, <1>2 DEF SameRequests, Idle
  <2> HIDE DEF A
  <2>2. JobsOK(Start(fresh, priority', r), A)
    BY <1>1, <1>3, <1>5, <2>1, StartJobs
  <2>3. QED
    BY <1>2, <2>2
<1>7. /\ table'[r].spec = table[r].spec /\ table'[r].enforced = FALSE
      /\ table'[r].enforcement_signal_captured =
           table[r].enforcement_signal_captured
  BY <1>1, <1>3 DEF TypeOK, Reserves
<1>8. EnforcedStopped'
  BY <1>1, <1>7 DEF JobInv, EnforcedStopped
<1>9. Caller'
  BY <1>1 DEF JobInv, Caller
<1>10. \A x \in Rids : table'[x].pid # Free =>
         table[x].pid # Free /\ table'[x].spec = table[x].spec
  BY <1>1, <1>7 DEF Active
<1>11. \A x \in Rids : table'[x].enforcement_signal_captured =
                         table[x].enforcement_signal_captured
  BY <1>1, <1>7
<1>12. QED
  BY <1>1, <1>6, <1>8, <1>9, <1>10, <1>11, JobStepMeans
     DEF JobInv, Uncritical, critVars

\* DELETE_RSV
LEMMA DeleteReserveJobs ==
  ASSUME RateMonotonic, IInv, JobInv, NEW r \in Rids, Delete(r)
  PROVE  JobInv'
PROOF
<1>1. DispatcherOK(dispatcher) /\ Idle(dispatcher) /\ DeleteReserve(dispatcher, table, r)
  BY DispatcherInvariant, EnterIdle DEF Delete, IInv
<1>2. JobsOK(dispatcher, Live \ {r})
  BY FewerJobs DEF JobInv
<1>3. table \in [Rids -> Reserves]
  BY DEF IInv, TypeOK
<1>4. UNCHANGED critVars /\ lock'.by = "free"
  BY DEF Delete, Enter
<1>5. QED
  BY <1>1, <1>2, <1>3, <1>4, DeleteJobInv

\* What a step that gives every reserve at most a new state of its job, and
\* starts no job but one of r, has to show about stopped jobs.
LEMMA StoppedStay ==
  ASSUME JobInv, NEW r \in Rids,
         \A x \in Rids : x # r => /\ table'[x].pid = table[x].pid
                                  /\ table'[x].enforced = table[x].enforced
                                  /\ task'[x] = task[x],
         Ready' \subseteq Ready \cup {r},
         table'[r].pid = Attached /\ table'[r].enforced =>
           r \notin Ready' /\ task'[r] \in {"sleeping", "masked", "dead"}
  PROVE  EnforcedStopped'
PROOF
BY DEF JobInv, EnforcedStopped

\* The departure of a job whose task is running stops it, from an idle
\* dispatcher.
LEMMA DepartMeans ==
  ASSUME RateMonotonic, IInv, JobInv, Enter, NEW r \in Rids, Alive(r),
         NEW call, Depart(dispatcher, r, call)
  PROVE  /\ Idle(dispatcher) /\ Distinct(dispatcher.readyq) /\ lock.by = "free"
         /\ dispatcher' = Stop(dispatcher, r) /\ Ready' = Ready \ {r}
         /\ \A x \in Rids \ {r} : table'[x] = table[x] /\ task'[x] = task[x]
         /\ table'[r] = Departed(r, call) /\ task'[r] = "running"
         /\ table'[r].pid = table[r].pid /\ table'[r].spec = table[r].spec
         /\ table'[r].enforced = table[r].enforced
         /\ lock'.by = call /\ lock'.rid = r /\ Live' = Live
PROOF
<1> DEFINE e == [dispatcher EXCEPT !.zero_slack = @ \ {r}]
<1>1. /\ TypeOK /\ DispatcherOK(dispatcher) /\ Idle(dispatcher)
      /\ dispatcher \in Dispatchers /\ Distinct(dispatcher.readyq)
      /\ dispatcher.zero_slack = {}
  BY DispatcherInvariant, EnterIdle, SortedDistinct
     DEF IInv, JobInv, DispatcherOK, TypeOK, Dispatchers, JobsOK, Plain
<1>2. e = dispatcher
  <2>1. dispatcher.zero_slack \ {r} = dispatcher.zero_slack
    BY <1>1
  <2>2. QED
    BY <1>1, <2>1 DEF Dispatchers
<1>3. dispatcher' = Stop(dispatcher, r)
  BY <1>2 DEF Depart
<1>4. Ready' = Ready \ {r}
  <2>1. ToSet(Dequeue(dispatcher.readyq, r)) = ToSet(dispatcher.readyq) \ {r}
    BY <1>1, DequeueProperties DEF Dispatchers
  <2>2. Stop(dispatcher, r).readyq = Dequeue(dispatcher.readyq, r)
    BY <1>1, StopType
  <2>3. QED
    BY <1>3, <2>1, <2>2 DEF Ready
<1>5. /\ table' = [table EXCEPT ![r] = Departed(r, call)]
      /\ task' = [task EXCEPT ![r] = "running"]
      /\ lock'.by = call /\ lock'.rid = r
  BY DEF Depart
<1>6. /\ \A x \in Rids \ {r} : table'[x] = table[x] /\ task'[x] = task[x]
      /\ table'[r] = Departed(r, call) /\ task'[r] = "running"
  BY <1>1, <1>5 DEF TypeOK
<1>7. /\ Departed(r, call).pid = table[r].pid
      /\ Departed(r, call).spec = table[r].spec
      /\ Departed(r, call).enforced = table[r].enforced
  BY <1>1 DEF Departed, TypeOK, Reserves
<1>8. Live' = Live
  BY <1>6, <1>7 DEF Live, Alive
<1>9. QED
  BY <1>1, <1>3, <1>4, <1>5, <1>6, <1>7, <1>8 DEF Enter

\* The departure of a job whose task is running.
LEMMA DepartJobs ==
  ASSUME RateMonotonic, IInv, JobInv, Enter, NEW r \in Rids, Alive(r),
         task[r] = "running", NEW call \in {"wait", "end"},
         Depart(dispatcher, r, call)
  PROVE  JobInv'
PROOF
<1>1. /\ Idle(dispatcher) /\ Distinct(dispatcher.readyq)
      /\ dispatcher' = Stop(dispatcher, r) /\ Ready' = Ready \ {r}
      /\ \A x \in Rids \ {r} : table'[x] = table[x] /\ task'[x] = task[x]
      /\ table'[r] = Departed(r, call) /\ task'[r] = "running"
      /\ table'[r].pid = table[r].pid /\ table'[r].spec = table[r].spec
      /\ table'[r].enforced = table[r].enforced
      /\ lock'.by = call /\ lock'.rid = r /\ Live' = Live
  BY DepartMeans
<1>2. /\ TypeOK /\ Uncaptured /\ JobsOK(dispatcher, Live)
      /\ Live \in SUBSET Rids /\ dispatcher \in Dispatchers
  BY DEF IInv, TypeOK, JobInv, Live
<1>3. JobsOK(dispatcher', Live)
  BY <1>1, <1>2, StopJobs DEF JobsOK, Served
<1>4. Departed(r, call).enforcement_signal_captured =
        table[r].enforcement_signal_captured
  BY <1>2 DEF Departed, TypeOK, Reserves
<1>5. ~table[r].enforced
  BY DEF JobInv, EnforcedStopped, Alive
<1>6. EnforcedStopped'
  BY <1>1, <1>5, StoppedStay
<1>7. critical_reservesq'.head = Nil /\ sys_criticality' = 0
      /\ crit_blockq'.head = Nil
  <2>1. /\ critical_reservesq.head = Nil /\ sys_criticality = 0
        /\ crit_blockq.head = Nil /\ r # Nil
    BY DEF JobInv, Uncritical, Rids, Nil
  <2>2. critical_reservesq' = critical_reservesq /\ crit_blockq' = crit_blockq
    BY <2>1 DEF Depart
  <2>3. sys_criticality' \in {TopCriticality(critical_reservesq), sys_criticality}
    BY <2>1 DEF Depart
  <2>4. QED
    BY <2>1, <2>2, <2>3 DEF TopCriticality
<1>8. Caller'
  BY <1>1 DEF Caller, Live
<1>9. QED
  BY <1>1, <1>3, <1>4, <1>6, <1>7, <1>8, JobStepMeans

\* wait_for_next_release, called by a running task.
LEMMA WaitReleaseJobs ==
  ASSUME RateMonotonic, IInv, JobInv, Enter, NEW r \in Rids, Alive(r),
         task[r] = "running", WaitForNextRelease(dispatcher, r, "wait")
  PROVE  JobInv'
PROOF
<1>1. CASE Depart(dispatcher, r, "wait")
  BY <1>1, DepartJobs
<1>2. CASE ~Depart(dispatcher, r, "wait")
  <2> DEFINE blocks == table[r].num_period_wakeups = 0
  <2>1. /\ task' = [task EXCEPT ![r] = IF blocks THEN "sleeping" ELSE "running"]
        /\ dispatcher' = IF blocks THEN dispatcher
                         ELSE Start(dispatcher, priority, r)
        /\ table' = [table EXCEPT
             ![r].num_wait_release = @ \/ blocks,
             ![r].end_of_period_marked = FALSE,
             ![r].num_period_wakeups = Dec(@)]
        /\ UNCHANGED <<critVars, lock>>
    BY <1>2 DEF WaitForNextRelease, Asleep
  <2> HIDE DEF blocks
  <2>2. /\ TypeOK /\ Idle(dispatcher) /\ Uncaptured /\ JobsOK(dispatcher, Live)
        /\ Live \in SUBSET Rids /\ dispatcher \in Dispatchers
        /\ priority \in [Rids -> Int]
    BY EnterIdle DEF IInv, JobInv, Live, TypeOK
  <2>3. JobsOK(dispatcher', Live) /\ Ready' \subseteq Ready \cup {r}
    <3>1. JobsOK(Start(dispatcher, priority, r), Live)
      BY <2>2, StartJobs DEF Idle
    <3>2. ToSet(Start(dispatcher, priority, r).readyq)
            = ToSet(dispatcher.readyq) \cup {r}
      BY <2>2, StartType
    <3>3. QED
      BY <2>1, <2>2, <3>1, <3>2 DEF Ready
  <2>4. /\ \A x \in Rids : x # r => table'[x] = table[x] /\ task'[x] = task[x]
        /\ task'[r] \in {"running", "sleeping"}
        /\ table'[r].pid = table[r].pid /\ table'[r].spec = table[r].spec
        /\ table'[r].enforced = table[r].enforced
        /\ table'[r].enforcement_signal_captured =
             table[r].enforcement_signal_captured
    <3>1. table \in [Rids -> Reserves] /\ task \in [Rids -> TaskStates]
      BY <2>2 DEF TypeOK
    <3>2. QED
      BY <2>1, <3>1 DEF Reserves
  <2>5. Live' = Live
    BY <2>4 DEF Live, Alive
  <2>6. ~table[r].enforced
    BY DEF JobInv, EnforcedStopped, Alive
  <2>7. EnforcedStopped'
    BY <2>3, <2>4, <2>6, StoppedStay
  <2>8. Caller'
    BY <2>1, <2>5 DEF JobInv, Caller
  <2>9. QED
    BY <2>1, <2>3, <2>4, <2>5, <2>7, <2>8, JobStepMeans
       DEF JobInv, Uncritical, critVars
<1>3. QED
  BY <1>1, <1>2

\* Nothing changes.
LEMMA StutterJobs ==
  ASSUME JobInv, UNCHANGED vars
  PROVE  JobInv'
PROOF
<1>1. UNCHANGED <<table, task, dispatcher, critVars, lock>>
  BY DEF vars
<1>2. Live' = Live
  BY <1>1 DEF Live, Alive
<1>3. EnforcedStopped' /\ Caller' /\ JobsOK(dispatcher', Live')
  BY <1>1, <1>2 DEF JobInv, EnforcedStopped, Caller, Ready
<1>4. QED
  BY <1>1, <1>3, JobStepMeans DEF JobInv, Uncritical, critVars

\* CAPTURE_ENFORCEMENT_SIGNAL of a task that does not capture it before or
\* after changes nothing.
LEMMA CaptureRestrained ==
  ASSUME TypeOK, Uncaptured, Restrained', NEW r \in Rids,
         NEW captured \in BOOLEAN, CaptureEnforcementSignal(r, captured)
  PROVE  UNCHANGED vars
PROOF
<1>1. /\ table \in [Rids -> Reserves]
      /\ table' = [table EXCEPT ![r].enforcement_signal_captured = captured]
      /\ UNCHANGED <<task, priority, rm_queue, dispatcher, period_timer,
                     critVars, lock>>
  BY DEF CaptureEnforcementSignal, TypeOK
<1>2. table[r].enforcement_signal_captured = FALSE
  BY <1>1 DEF Uncaptured, Captured, Reserves
<1>3. captured = FALSE
  <2>1. ~table'[r].enforcement_signal_captured
    BY DEF CaptureEnforcementSignal, Restrained, Uncaptured, Captured
  <2>2. table'[r].enforcement_signal_captured = captured
    BY <1>1 DEF Reserves
  <2>3. QED
    BY <2>1, <2>2
<1>4. table' = table
  BY <1>1, <1>2, <1>3 DEF Reserves
<1>5. QED
  BY <1>1, <1>4 DEF vars, critVars

\* The system calls.
LEMMA SystemCallJobs ==
  ASSUME RateMonotonic, IInv, IInv', JobInv, Restrained', NEW r \in Rids,
         SystemCall(r)
  PROVE  JobInv'
PROOF
<1>1. CASE AttachReserve(r)
  BY <1>1, AttachReserveJobs
<1>2. CASE Delete(r)
  BY <1>2, DeleteReserveJobs
<1>3. CASE \E captured \in BOOLEAN : CaptureEnforcementSignal(r, captured)
  BY <1>3, CaptureRestrained, StutterJobs DEF IInv, JobInv
<1>4. CASE WaitPeriod(r)
  BY <1>4, DepartJobs DEF WaitPeriod
<1>5. CASE EndPeriod(r)
  BY <1>5, DepartJobs DEF EndPeriod
<1>6. CASE WaitRelease(r)
  BY <1>6, WaitReleaseJobs DEF WaitRelease
<1>7. QED
  BY <1>1, <1>2, <1>3, <1>4, <1>5, <1>6 DEF SystemCall

\* The task of r exits.
LEMMA DieJobs ==
  ASSUME IInv, IInv', JobInv, NEW r \in Rids, Die(r)
  PROVE  JobInv'
PROOF
<1>1. /\ UNCHANGED <<table, critVars, lock>>
      /\ lock.by \in Departing => lock.rid # r
      /\ task' = [task EXCEPT ![r] = "dead"]
      /\ dispatcher' = [dispatcher EXCEPT !.signals[r] = <<>>]
  BY DEF Die
<1>2. /\ dispatcher \in Dispatchers /\ TypeOK /\ task \in [Rids -> TaskStates]
      /\ JobsOK(dispatcher, Live)
  BY DEF IInv, TypeOK, JobInv
<1>3. /\ dispatcher' = [dispatcher EXCEPT
           !.signals = [dispatcher.signals EXCEPT ![r] = <<>>]]
      /\ [dispatcher.signals EXCEPT ![r] = <<>>] = dispatcher.signals
  <2>1. dispatcher.signals[r] = <<>>
    BY <1>2 DEF JobsOK, Plain
  <2>2. QED
    BY <1>1, <1>2, <2>1 DEF Dispatchers
<1>4. dispatcher' = dispatcher
  BY <1>2, <1>3 DEF Dispatchers
<1>5. Live' = Live \ {r}
  BY <1>1, <1>2 DEF Live, Alive
<1>6. JobsOK(dispatcher', Live')
  BY <1>2, <1>4, <1>5, FewerJobs
<1>7. EnforcedStopped'
  BY <1>1, <1>2, <1>4 DEF JobInv, EnforcedStopped, Ready
<1>8. Caller'
  BY <1>1, <1>5 DEF JobInv, Caller
<1>9. QED
  BY <1>1, <1>6, <1>7, <1>8, JobStepMeans DEF JobInv, Uncritical, critVars

\* The deletion of a reserve without a task is asked for.
LEMMA ForceDeleteStep ==
  ASSUME IInv, JobInv, NEW d \in Dispatchers, NEW r \in Rids, Idle(d),
         ~Alive(r), JobsOK(d, Live), d.readyq = dispatcher.readyq,
         ForceDelete(d, r), UNCHANGED <<critVars, lock>>
  PROVE  JobInv'
PROOF
<1>1. UNCHANGED <<table, task>> /\ r \notin Live /\ Live \in SUBSET Rids
  BY DEF ForceDelete, Live
<1>2. JobsOK(dispatcher', Live) /\ dispatcher'.readyq = dispatcher.readyq
  BY <1>1, ForceDeleteJobs DEF IInv
<1>3. Live' = Live
  BY <1>1 DEF Live, Alive
<1>4. EnforcedStopped' /\ Caller'
  BY <1>1, <1>2, <1>3 DEF JobInv, EnforcedStopped, Caller, Ready
<1>5. QED
  BY <1>1, <1>2, <1>3, <1>4, JobStepMeans DEF JobInv, Uncritical, critVars

\* The period timer
LEMMA PeriodTimerJobs ==
  ASSUME RateMonotonic, IInv, JobInv, NEW r \in Rids, PeriodTimer(r)
  PROVE  JobInv'
PROOF
<1>1. /\ TypeOK /\ dispatcher \in Dispatchers /\ Idle(dispatcher)
      /\ JobsOK(dispatcher, Live) /\ UNCHANGED <<critVars, lock>> /\ Enter
  BY EnterIdle DEF IInv, TypeOK, JobInv, PeriodTimer
<1>2. CASE ~Alive(r)
  BY <1>1, <1>2, ForceDeleteStep DEF PeriodTimer
<1>3. CASE Alive(r)
  <2>1. StartOfPeriod(r)
    BY <1>3 DEF PeriodTimer
  <2>2. JobsOK(dispatcher', Live)
    BY <1>1, <1>3, <2>1, StartOfPeriodJobs
  <2>3. Ready' \subseteq Ready \cup {r}
    BY <1>3, <2>1, StartOfPeriodReplenishes DEF Replenished, Moved, Ready
  <2>4. ~Suspended(r)
    BY <1>1, CriticalityType DEF Suspended, JobInv, Uncritical
  <2>5. /\ Arrived(r).pid = table[r].pid /\ Arrived(r).spec = table[r].spec
        /\ Arrived(r).enforced = FALSE
        /\ Arrived(r).enforcement_signal_captured =
             table[r].enforcement_signal_captured
    BY <1>1, <2>4 DEF Arrived, TypeOK, Reserves
  <2>6. /\ table' = [table EXCEPT ![r] = Arrived(r)]
        /\ task' \in {task, [task EXCEPT ![r] = "running"]}
    BY <2>1 DEF StartOfPeriod
  <2>7. /\ \A x \in Rids : x # r => table'[x] = table[x] /\ task'[x] = task[x]
        /\ table'[r] = Arrived(r) /\ task'[r] \in {task[r], "running"}
    BY <1>1, <2>6 DEF TypeOK
  <2>8. Live' = Live
    BY <1>3, <2>5, <2>7 DEF Live, Alive
  <2>9. EnforcedStopped'
    BY <2>3, <2>5, <2>7, StoppedStay
  <2>10. Caller'
    BY <1>1, <2>8 DEF JobInv, Caller
  <2>11. QED
    BY <1>1, <2>2, <2>5, <2>7, <2>8, <2>9, <2>10, JobStepMeans
       DEF JobInv, Uncritical, critVars
<1>4. QED
  BY <1>2, <1>3

\* The enforcement timer: the head is to be stopped.
LEMMA EnforcementTimerJobs ==
  ASSUME RateMonotonic, IInv, JobInv, NEW r \in Rids, EnforcementTimer(r)
  PROVE  JobInv'
PROOF
<1> DEFINE d == [dispatcher EXCEPT !.enforcement[r] = Off]
<1>1. /\ TypeOK /\ dispatcher \in Dispatchers /\ Idle(dispatcher)
      /\ JobsOK(dispatcher, Live) /\ UNCHANGED <<critVars, lock>>
      /\ dispatcher.enforcement[r] = 0 /\ Live \in SUBSET Rids
  BY EnterIdle DEF IInv, TypeOK, JobInv, EnforcementTimer, Live
<1>2. HeadIs(dispatcher, r)
  BY <1>1 DEF IInv, BudgetTimerSound, Current, HeadIs, Off
<1>3. /\ d \in Dispatchers /\ d.readyq = dispatcher.readyq
      /\ d.current = dispatcher.current /\ d.elapsed = dispatcher.elapsed
      /\ SameRequests(dispatcher, d)
      /\ \A x \in Rids : x # r => d.enforcement[x] = dispatcher.enforcement[x]
  <2>1. Off \in Off .. MaxTicks
    BY ConstantsAssumption DEF Off
  <2>2. QED
    BY <1>1, <2>1 DEF Dispatchers, SameRequests
<1>4. /\ ~Alive(r) /\ ForceDelete(d, r)
      \/ /\ Alive(r) /\ dispatcher' = BudgetEnforcement(d, r, TRUE)
         /\ UNCHANGED <<table, task>>
  BY DEF EnforcementTimer
<1> HIDE DEF d
<1>5. Plain(d) /\ Idle(d) /\ RequestsOK(d, Live) /\ WithinBudget(d, Live)
  BY <1>1, <1>3
     DEF JobsOK, Plain, Idle, RequestsOK, WithinBudget, HeadIs, SameRequests
<1>6. CASE ~Alive(r)
  <2>1. Served(d, Live)
    BY <1>1, <1>3, <1>6 DEF JobsOK, Served, HeadIs, SameRequests, Live
  <2>2. QED
    BY <1>1, <1>3, <1>4, <1>5, <1>6, <2>1, ForceDeleteStep DEF JobsOK
<1>7. CASE Alive(r)
  <2>1. /\ dispatcher' = BudgetEnforcement(d, r, TRUE) /\ UNCHANGED <<table, task>>
        /\ ~Captured(r)
    BY <1>4, <1>7 DEF JobInv, Uncaptured
  <2>2. /\ BudgetEnforcement(d, r, TRUE).zero_slack = d.zero_slack \ {r}
        /\ BudgetEnforcement(d, r, TRUE).signals = d.signals
        /\ BudgetEnforcement(d, r, TRUE).request_stop = d.request_stop \cup {r}
        /\ BudgetEnforcement(d, r, TRUE).reschedule = <<r>>
        /\ BudgetEnforcement(d, r, TRUE).sched_task = "running"
    BY <1>3, <1>5, <2>1, StopRequestMeans
  <2>3. SameExecution(d, BudgetEnforcement(d, r, TRUE))
    BY <1>1, <1>3, BudgetEnforcementType
  <2>4. /\ dispatcher'.readyq = dispatcher.readyq
        /\ dispatcher'.current = dispatcher.current
        /\ dispatcher'.elapsed = dispatcher.elapsed
        /\ dispatcher'.enforcement = d.enforcement
        /\ dispatcher'.reschedule = <<r>> /\ dispatcher'.sched_task = "running"
        /\ r \in dispatcher'.request_stop /\ dispatcher'.signals = d.signals
        /\ dispatcher'.zero_slack = d.zero_slack \ {r}
    BY <1>3, <2>1, <2>2, <2>3 DEF SameExecution
  <2>5. Plain(dispatcher')
    BY <1>5, <2>4 DEF Plain
  <2>6. Served(dispatcher', Live)
    BY <1>2, <2>4 DEF Served, HeadIs
  <2>7. RequestsOK(dispatcher', Live)
    BY <1>1, <1>2, <2>4, HeadMember DEF RequestsOK, HeadIs
  <2>8. WithinBudget(dispatcher', Live)
    BY <1>1, <2>4 DEF JobsOK, WithinBudget, HeadIs
  <2>9. Live' = Live
    BY <2>1 DEF Live, Alive
  <2>10. JobsOK(dispatcher', Live')
    BY <2>5, <2>6, <2>7, <2>8, <2>9 DEF JobsOK
  <2>11. EnforcedStopped' /\ Caller'
    BY <1>1, <2>1, <2>4, <2>9 DEF JobInv, EnforcedStopped, Caller, Ready
  <2>12. QED
    BY <1>1, <2>1, <2>10, <2>11, JobStepMeans DEF JobInv, Uncritical, critVars
<1>8. QED
  BY <1>6, <1>7

\* With its request taken, the scheduler thread finds an idle dispatcher.
LEMMA PopIdle ==
  ASSUME IInv, JobInv, dispatcher.reschedule # <<>>,
         NEW r, r = Last(dispatcher.reschedule),
         NEW d, d = [dispatcher EXCEPT !.reschedule = Front(@)]
  PROVE  /\ r \in Rids /\ DispatcherOK(d) /\ Idle(d)
         /\ SameExecution(dispatcher, d)
         /\ d.request_stop = dispatcher.request_stop
         /\ JobsOK(d, Live \ {r}) /\ WithinBudget(d, Live)
         /\ r \in Live => r \in dispatcher.request_stop /\ r \in Ready
PROOF
<1>1. /\ dispatcher \in Dispatchers /\ DispatcherOK(dispatcher)
      /\ JobsOK(dispatcher, Live) /\ dispatcher.sched_task = "running"
  BY DispatcherInvariant DEF IInv, TypeOK, JobInv, JobsOK, RequestsOK
<1>2. /\ dispatcher.reschedule = <<r>> /\ r \in Rids
      /\ r \in Live => r \in dispatcher.request_stop /\ r \in Ready
  BY <1>1 DEF JobsOK, RequestsOK, Last, Ready
<1>3. Front(<<r>>) = <<>>
  BY DEF Front
<1>4. d = [dispatcher EXCEPT !.reschedule = <<>>]
  BY <1>2, <1>3
<1>5. /\ d \in Dispatchers /\ SameExecution(dispatcher, d) /\ d.reschedule = <<>>
      /\ d.sched_task = "running" /\ d.signals = dispatcher.signals
      /\ d.zero_slack = dispatcher.zero_slack
      /\ d.request_stop = dispatcher.request_stop
  <2>1. <<>> \in Seq(Rids)
    OBVIOUS
  <2>2. d \in Dispatchers /\ d.reschedule = <<>>
    BY <1>1, <1>4, <2>1 DEF Dispatchers
  <2>3. SameExecution(dispatcher, d) /\ d.sched_task = dispatcher.sched_task
    BY <1>1, <1>4 DEF Dispatchers, SameExecution
  <2>4. /\ d.signals = dispatcher.signals
        /\ d.zero_slack = dispatcher.zero_slack
        /\ d.request_stop = dispatcher.request_stop
    BY <1>1, <1>4 DEF Dispatchers
  <2>5. QED
    BY <1>1, <2>2, <2>3, <2>4
<1>6. DispatcherOK(d)
  BY <1>1, <1>5, SameExecutionOK
<1>7. Plain(d) /\ RequestsOK(d, Live \ {r}) /\ Idle(d)
  BY <1>1, <1>5 DEF JobsOK, Plain, RequestsOK, Idle
<1>8. WithinBudget(d, Live)
  BY <1>1, <1>5 DEF JobsOK, WithinBudget, HeadIs, SameExecution
<1>9. Served(d, Live \ {r})
  BY <1>1, <1>2, <1>5 DEF JobsOK, Served, HeadIs, SameExecution
<1>10. QED
  BY <1>2, <1>5, <1>6, <1>7, <1>8, <1>9 DEF JobsOK, WithinBudget

\* Nobody else's request to be stopped changes the jobs.
LEMMA UnrequestJobs ==
  ASSUME IInv, NEW d, DispatcherOK(d), NEW r \in Rids, NEW A \in SUBSET Rids,
         Idle(d), JobsOK(d, A),
         NEW e, e = [d EXCEPT !.request_stop = @ \ {r}]
  PROVE  /\ DispatcherOK(e) /\ SameExecution(d, e) /\ Idle(e) /\ JobsOK(e, A)
PROOF
<1>1. /\ d \in Dispatchers /\ e \in Dispatchers /\ SameExecution(d, e)
      /\ e.reschedule = <<>> /\ e.sched_task = d.sched_task
      /\ e.signals = d.signals /\ e.zero_slack = d.zero_slack
  BY DEF DispatcherOK, Dispatchers, SameExecution, Idle
<1>2. DispatcherOK(e) /\ Idle(e) /\ Plain(e)
  BY <1>1, SameExecutionOK DEF Idle, JobsOK, Plain
<1>3. \A x \in A : e.current[x] <= d.current[x]
  BY <1>1 DEF SameExecution, Dispatchers
<1>4. QED
  BY <1>1, <1>2, <1>3, QuietJobs DEF SameExecution, Idle, IInv

\* The scheduler thread stops a job.
LEMMA StopRequestedJobs ==
  ASSUME IInv, JobInv, NEW d, DispatcherOK(d), Idle(d),
         SameExecution(dispatcher, d), NEW r \in Rids,
         JobsOK(d, Live \ {r}), WithinBudget(d, Live),
         r \in Live => r \in Ready,
         StopRequested(d, r), UNCHANGED critVars, lock'.by = "sched"
  PROVE  JobInv'
PROOF
<1> DEFINE e == [d EXCEPT !.request_stop = @ \ {r}]
           t == [table EXCEPT ![r].enforced = TRUE]
<1>1. /\ TypeOK /\ Uncaptured /\ Live \in SUBSET Rids
      /\ table \in [Rids -> Reserves] /\ task \in [Rids -> TaskStates]
  BY DEF IInv, TypeOK, JobInv, Live
<1>2. /\ DispatcherOK(e) /\ SameExecution(d, e) /\ Idle(e)
      /\ JobsOK(e, Live \ {r})
  BY <1>1, UnrequestJobs
<1>3. e.readyq = dispatcher.readyq /\ WithinBudget(e, Live)
  BY <1>2 DEF SameExecution, WithinBudget, HeadIs
<1>4. /\ t \in [Rids -> Reserves]
      /\ \A x \in Rids : /\ t[x].pid = table[x].pid
                         /\ t[x].spec = table[x].spec
                         /\ t[x].enforcement_signal_captured =
                              table[x].enforcement_signal_captured
                         /\ x # r => t[x] = table[x]
  BY <1>1 DEF Reserves
<1>5. \/ /\ table[r].enforced /\ dispatcher' = e /\ UNCHANGED <<table, task>>
      \/ DeleteReserve(e, t, r)
      \/ /\ Alive(r) /\ dispatcher' = Stop(e, r)
         /\ table' = [t EXCEPT ![r].start_period = @ - 1]
         /\ task' = [task EXCEPT ![r] = Sleeping(@)]
  BY DEF StopRequested
<1> HIDE DEF e, t
<1>6. CASE table[r].enforced /\ dispatcher' = e /\ UNCHANGED <<table, task>>
  <2>1. r \notin Live
    BY <1>6 DEF JobInv, EnforcedStopped, Live, Alive
  <2>2. Live' = Live /\ Live \ {r} = Live
    BY <1>6, <2>1 DEF Live, Alive
  <2>3. EnforcedStopped'
    BY <1>3, <1>6 DEF JobInv, EnforcedStopped, Ready
  <2>4. Caller'
    BY DEF Caller, Departing
  <2>5. QED
    BY <1>2, <1>6, <2>2, <2>3, <2>4, JobStepMeans
       DEF JobInv, Uncritical, critVars
<1>7. CASE DeleteReserve(e, t, r)
  BY <1>2, <1>3, <1>4, <1>7, DeleteJobInv
<1>8. CASE /\ Alive(r) /\ dispatcher' = Stop(e, r)
           /\ table' = [t EXCEPT ![r].start_period = @ - 1]
           /\ task' = [task EXCEPT ![r] = Sleeping(@)]
  <2>1. e \in Dispatchers /\ Distinct(e.readyq) /\ e.readyq \in Seq(Rids)
    BY <1>1, <1>2, SortedDistinct DEF DispatcherOK, Dispatchers, TypeOK
  <2>2. JobsOK(dispatcher', Live)
    BY <1>1, <1>2, <1>3, <1>8, <2>1, StopJobs DEF JobsOK
  <2>3. Ready' = Ready \ {r}
    <3>1. ToSet(Dequeue(e.readyq, r)) = ToSet(e.readyq) \ {r}
      BY <2>1, DequeueProperties
    <3>2. Stop(e, r).readyq = Dequeue(e.readyq, r)
      BY <1>1, <2>1, StopType
    <3>3. QED
      BY <1>3, <1>8, <3>1, <3>2 DEF Ready
  <2>4. /\ \A x \in Rids : x # r => table'[x] = table[x] /\ task'[x] = task[x]
        /\ table'[r].pid = table[r].pid /\ table'[r].spec = table[r].spec
        /\ table'[r].enforcement_signal_captured =
             table[r].enforcement_signal_captured
        /\ task'[r] \in {"sleeping", "masked"}
    BY <1>1, <1>4, <1>8 DEF Reserves, Sleeping
  <2>5. Live' = Live
    BY <1>8, <2>4 DEF Live, Alive
  <2>6. EnforcedStopped'
    BY <2>3, <2>4, StoppedStay
  <2>7. Caller'
    BY DEF Caller, Departing
  <2>8. QED
    BY <2>2, <2>4, <2>5, <2>6, <2>7, JobStepMeans
       DEF JobInv, Uncritical, critVars
<1>9. QED
  BY <1>5, <1>6, <1>7, <1>8

\* The scheduler thread
LEMMA SchedulerPopJobs ==
  ASSUME IInv, JobInv, SchedulerPop
  PROVE  JobInv'
PROOF
<1> DEFINE r == Last(dispatcher.reschedule)
           d == [dispatcher EXCEPT !.reschedule = Front(@)]
<1>1. /\ \/ r \in dispatcher.request_stop /\ StopRequested(d, r)
         \/ r \notin dispatcher.request_stop /\ RestartRequested(d, r)
      /\ UNCHANGED critVars /\ lock' = [Unlocked EXCEPT !.by = "sched"]
  BY DEF SchedulerPop
<1>2. /\ r \in Rids /\ DispatcherOK(d) /\ Idle(d)
      /\ SameExecution(dispatcher, d)
      /\ JobsOK(d, Live \ {r}) /\ WithinBudget(d, Live)
      /\ r \in Live => r \in dispatcher.request_stop /\ r \in Ready
  BY PopIdle DEF SchedulerPop
<1>3. lock'.by = "sched"
  BY <1>1 DEF Unlocked
<1> HIDE DEF r, d
<1>4. CASE StopRequested(d, r)
  BY <1>1, <1>2, <1>3, <1>4, StopRequestedJobs
<1>5. CASE r \notin dispatcher.request_stop /\ RestartRequested(d, r)
  <2>1. DeleteReserve(d, table, r)
    BY <1>2, <1>5 DEF RestartRequested, Live
  <2>2. table \in [Rids -> Reserves]
    BY DEF IInv, TypeOK
  <2>3. d.readyq = dispatcher.readyq
    BY <1>2 DEF SameExecution
  <2>4. QED
    BY <1>1, <1>2, <1>3, <2>1, <2>2, <2>3, DeleteJobInv
<1>6. QED
  BY <1>1, <1>4, <1>5

\* The scheduler thread unlocks and goes to sleep.
LEMMA SchedulerRestJobs ==
  ASSUME IInv, IInv', JobInv, SchedulerUnlock \/ SchedulerSleep
  PROVE  JobInv'
PROOF
<1>1. dispatcher \in Dispatchers /\ JobsOK(dispatcher, Live)
  BY DEF IInv, TypeOK, JobInv
<1>2. PICK s \in {"leaving", "asleep"} :
        dispatcher' = [dispatcher EXCEPT !.sched_task = s]
  BY DEF SchedulerUnlock, SchedulerSleep
<1>3. dispatcher.reschedule = <<>> /\ lock' \in {lock, Unlocked}
      /\ UNCHANGED <<table, task, critVars>>
  BY <1>1 DEF SchedulerUnlock, SchedulerSleep, JobsOK, RequestsOK
<1>4. /\ SameExecution(dispatcher, dispatcher')
      /\ dispatcher'.reschedule = <<>> /\ dispatcher'.signals = dispatcher.signals
      /\ dispatcher'.zero_slack = dispatcher.zero_slack
  BY <1>1, <1>2, <1>3 DEF Dispatchers, SameExecution
<1>5. JobsOK(dispatcher', Live)
  BY <1>1, <1>3, <1>4
     DEF JobsOK, Plain, Served, RequestsOK, WithinBudget, HeadIs, SameExecution
<1>6. Live' = Live
  BY <1>3 DEF Live, Alive
<1>7. EnforcedStopped'
  BY <1>3, <1>4 DEF JobInv, EnforcedStopped, Ready, SameExecution
<1>8. Caller' /\ lock'.by \notin {"zs", "handler"}
  BY <1>3, <1>6 DEF JobInv, Caller, Uncritical, Unlocked, Departing
<1>9. QED
  BY <1>3, <1>5, <1>6, <1>7, <1>8, JobStepMeans DEF JobInv, Uncritical, critVars

\* A departure ends: no reserve is blocked, and none is in critical mode.
LEMMA ContinueJobs ==
  ASSUME IInv, JobInv, Continue
  PROVE  JobInv'
PROOF
<1>1. ~ReleaseBlocked /\ ~ZeroSlackScan
  BY DEF ReleaseBlocked, MoreBlocked, ZeroSlackScan, JobInv, Uncritical
<1>2. FinishDeparture /\ lock.rid \in Live
  BY <1>1 DEF Continue, FinishDeparture, JobInv, Caller
<1>3. lock.rid \in Rids /\ table \in [Rids -> Reserves]
      /\ task \in [Rids -> TaskStates]
  BY <1>2 DEF Live, IInv, TypeOK
<1>4. /\ UNCHANGED <<dispatcher, critVars>> /\ lock' = Unlocked
      /\ \/ /\ task' = [task EXCEPT ![lock.rid] = Asleep(lock.by)]
            /\ table' = [table EXCEPT ![lock.rid].num_period_wakeups = Dec(@)]
         \/ UNCHANGED <<task, table>>
  BY <1>2 DEF FinishDeparture
<1>5. Asleep(lock.by) = "sleeping"
  BY DEF Asleep, JobInv, Uncritical
<1>6. \A x \in Rids : /\ table'[x].pid = table[x].pid
                      /\ table'[x].spec = table[x].spec
                      /\ table'[x].enforced = table[x].enforced
                      /\ table'[x].enforcement_signal_captured =
                           table[x].enforcement_signal_captured
                      /\ x # lock.rid => task'[x] = task[x]
                      /\ x = lock.rid => task'[x] \in {task[x], "sleeping"}
  BY <1>3, <1>4, <1>5 DEF Reserves
<1>7. Live' = Live
  BY <1>2, <1>6 DEF Live, Alive
<1>8. EnforcedStopped'
  BY <1>4, <1>6 DEF JobInv, EnforcedStopped, Ready
<1>9. Caller' /\ lock'.by = "free"
  BY <1>4 DEF Caller, Unlocked, Departing
<1>10. JobsOK(dispatcher', Live')
  BY <1>4, <1>7 DEF JobInv
<1>11. QED
  BY <1>4, <1>6, <1>8, <1>9, <1>10, JobStepMeans DEF JobInv, Uncritical, critVars

\* A tick: the head has a timer, which expires before the budget is exceeded.
LEMMA TickJobs ==
  ASSUME IInv, IInv', JobInv, Tick
  PROVE  JobInv'
PROOF
<1>1. /\ dispatcher \in Dispatchers /\ dispatcher' \in Dispatchers
      /\ JobsOK(dispatcher, Live)
      /\ dispatcher.reschedule = <<>> /\ Live \in SUBSET Rids
      /\ TypeOK /\ TypeOK' /\ BudgetTimerSound'
  BY DEF IInv, TypeOK, JobInv, JobsOK, RequestsOK, Tick, Live
<1>2. /\ UNCHANGED <<table, task, critVars, lock>>
      /\ \A r \in Rids : dispatcher.enforcement[r] # 0
      /\ dispatcher' = [dispatcher EXCEPT
           !.elapsed = Capped(@ + 1),
           !.enforcement = [r \in Rids |-> IF @[r] = Off THEN Off ELSE @[r] - 1]]
  BY DEF Tick
<1>3. /\ dispatcher'.readyq = dispatcher.readyq
      /\ dispatcher'.current = dispatcher.current
      /\ SameRequests(dispatcher, dispatcher')
      /\ \A r \in Rids : dispatcher'.enforcement[r] =
           IF dispatcher.enforcement[r] = Off THEN Off
           ELSE dispatcher.enforcement[r] - 1
  BY <1>1, <1>2 DEF Dispatchers, SameRequests
<1>4. Live' = Live
  BY <1>2 DEF Live, Alive
<1>5. ASSUME NEW h \in Live, HeadIs(dispatcher, h)
      PROVE  /\ dispatcher'.enforcement[h] # Off
             /\ dispatcher'.current[h] + dispatcher'.elapsed <= Budget(h)
  <2>1. dispatcher.enforcement[h] \in Off .. MaxTicks
        /\ dispatcher.enforcement[h] # Off /\ dispatcher.enforcement[h] # 0
    <3>1. h \in Rids /\ dispatcher.reschedule # <<h>>
      BY <1>1
    <3>2. dispatcher.enforcement[h] # Off
      BY <1>1, <1>5, <3>1 DEF JobsOK, Served
    <3>3. QED
      BY <1>1, <1>2, <3>1, <3>2 DEF Dispatchers
  <2>2. dispatcher'.enforcement[h] \in Nat
    <3>1. dispatcher'.enforcement[h] = dispatcher.enforcement[h] - 1
      BY <1>1, <1>3, <2>1
    <3>2. dispatcher.enforcement[h] \in Nat \ {0}
      BY <2>1, ConstantsAssumption DEF Off
    <3>3. QED
      BY <3>1, <3>2
  <2>3. dispatcher'.current[h] + dispatcher'.elapsed + dispatcher'.enforcement[h]
          <= table'[h].spec.exectime
    BY <1>1, <2>2 DEF BudgetTimerSound, Off
  <2>4. dispatcher'.current[h] \in Int /\ dispatcher'.elapsed \in Int
        /\ Budget(h) \in Int /\ table'[h].spec.exectime = Budget(h)
    <3>1. h \in Rids /\ table' = table
      BY <1>1, <1>2
    <3>2. Budget(h) \in Int /\ table'[h].spec.exectime = Budget(h)
      BY <1>1, <3>1, SpecType DEF Budget
    <3>3. QED
      BY <1>1, <3>1, <3>2 DEF Dispatchers
  <2>5. dispatcher'.enforcement[h] # Off
    BY <2>2 DEF Off
  <2>6. QED
    BY <2>2, <2>3, <2>4, <2>5
<1>6. Plain(dispatcher') /\ RequestsOK(dispatcher', Live) /\ Served(dispatcher', Live)
  BY <1>1, <1>3, <1>5
     DEF JobsOK, Plain, RequestsOK, Served, HeadIs, SameRequests
<1>7. ASSUME NEW x \in Live
      PROVE  dispatcher'.current[x]
               + (IF HeadIs(dispatcher', x) THEN dispatcher'.elapsed ELSE 0)
               <= Budget(x)
  <2>1. HeadIs(dispatcher', x) <=> HeadIs(dispatcher, x)
    BY <1>3 DEF HeadIs
  <2>2. CASE HeadIs(dispatcher, x)
    BY <1>5, <2>1, <2>2
  <2>3. CASE ~HeadIs(dispatcher, x)
    BY <1>1, <1>3, <2>1, <2>3 DEF JobsOK, WithinBudget
  <2>4. QED
    BY <2>2, <2>3
<1>8. JobsOK(dispatcher', Live')
  BY <1>4, <1>6, <1>7 DEF JobsOK, WithinBudget
<1>9. EnforcedStopped' /\ Caller'
  BY <1>2, <1>3, <1>4 DEF JobInv, EnforcedStopped, Caller, Ready
<1>10. QED
  BY <1>2, <1>8, <1>9, JobStepMeans DEF JobInv, Uncritical, critVars

\* Every step keeps the jobs.
LEMMA JobStep ==
  ASSUME RateMonotonic, IInv, IInv', JobInv, Restrained', [Next]_vars
  PROVE  JobInv'
PROOF
<1>1. CASE \E spec \in Specs, admitted \in BOOLEAN :
             CreateReserve(spec, admitted)
  BY <1>1, CreateReserveJobs
<1>2. ASSUME NEW r \in Rids, SystemCall(r) \/ Die(r)
      PROVE  JobInv'
  BY <1>2, SystemCallJobs, DieJobs
<1>3. ASSUME NEW r \in Rids, EnforcementSignal(r)
      PROVE  FALSE
  BY <1>3 DEF EnforcementSignal, JobInv, JobsOK, Plain
<1>4. ASSUME NEW r \in Rids, Timer(r)
      PROVE  JobInv'
  <2>1. ~ZeroSlackTimer(r)
    BY DEF ZeroSlackTimer, JobInv, JobsOK, Plain
  <2>2. QED
    BY <1>4, <2>1, PeriodTimerJobs, EnforcementTimerJobs DEF Timer
<1>5. CASE SchedulerTask
  BY <1>5, SchedulerPopJobs, SchedulerRestJobs DEF SchedulerTask
<1>6. CASE Continue
  BY <1>6, ContinueJobs
<1>7. CASE Tick
  BY <1>7, TickJobs
<1>8. CASE UNCHANGED vars
  BY <1>8, StutterJobs
<1>9. QED
  BY <1>1, <1>2, <1>3, <1>4, <1>5, <1>6, <1>7, <1>8 DEF Next

\* Nothing runs at first.
LEMMA JobInit ==
  ASSUME Init
  PROVE  JobInv
PROOF
<1>1. Live = {} /\ Uncaptured /\ Specified /\ EnforcedStopped
  BY DEF Init, Live, Alive, Uncaptured, Captured, Specified, Active,
         EnforcedStopped, Free, Attached
<1>2. JobsOK(dispatcher, {})
  BY DEF Init, JobsOK, Plain, Served, RequestsOK, WithinBudget
<1>3. Uncritical /\ Caller
  BY DEF Init, Uncritical, EmptyList, Unlocked, Caller, Departing
<1>4. QED
  BY <1>1, <1>2, <1>3 DEF JobInv

\* The invariant of the jobs holds as long as no task captures the signal.
LEMMA RestrainedInvariance ==
  ASSUME RateMonotonic
  PROVE  Spec /\ []Restrained => [](IInv /\ JobInv)
PROOF
<1>1. Init => IInv /\ JobInv
  BY InitOK, JobInit
<1>2. IInv /\ IInv' /\ JobInv /\ Restrained' /\ [Next]_vars => JobInv'
  BY JobStep
<1>3. Spec => []IInv
  BY Invariance, PTL
<1>4. QED
  BY <1>1, <1>2, <1>3, PTL DEF Spec

\* Where no task can capture it, the invariant holds in every reachable state.
THEOREM JobInvariance ==
  ASSUME Uncapturing
  PROVE  Spec => [](IInv /\ JobInv)
PROOF
<1>1. Restrained
  BY DEF Restrained, Uncapturing
<1>2. Spec /\ []Restrained => [](IInv /\ JobInv)
  BY RestrainedInvariance DEF Uncapturing
<1>3. QED
  BY <1>1, <1>2, PTL

-----------------------------------------------------------------------------
\* The job that executes has an armed enforcement timer (zsrm6), once the
\* scheduler thread has run: start_reserve, stop_reserve, delete_reserve and
\* the timers leave no head without one, or with a request to stop it pending.
THEOREM HeadStaysEnforced ==
  ASSUME Uncapturing
  PROVE  Spec => []HeadEnforced
PROOF
<1>1. IInv /\ JobInv => HeadEnforced
  <2> SUFFICES ASSUME IInv, JobInv, Settled, dispatcher.readyq # <<>>,
                      Alive(Current)
               PROVE  dispatcher.enforcement[Current] # Off
    BY DEF HeadEnforced
  <2>1. Current \in Live
    BY HeadMember DEF Live, Current, IInv, TypeOK
  <2>2. dispatcher.reschedule # <<Current>>
    BY DEF Settled
  <2>3. QED
    BY <2>1, <2>2 DEF JobInv, JobsOK, Served, HeadIs, Current
<1>2. QED
  BY <1>1, JobInvariance, PTL

\* No job executes beyond its budget (zsrm3): whatever preempts, stops and
\* resumes it, what it is charged plus what it has not been charged yet.
THEOREM BudgetStaysKept ==
  ASSUME Uncapturing
  PROVE  Spec => []BudgetKept
PROOF
<1>1. IInv /\ JobInv => BudgetKept
  <2> SUFFICES ASSUME IInv, JobInv, NEW r \in Rids, Alive(r)
               PROVE  dispatcher.current[r]
                        + (IF r \in Ready /\ Current = r
                           THEN dispatcher.elapsed ELSE 0)
                        <= table[r].spec.exectime
    BY DEF BudgetKept
  <2>1. r \in Live
    BY DEF Live
  <2>2. r \in Ready /\ Current = r <=> HeadIs(dispatcher, r)
    BY HeadMember DEF HeadIs, Current, Ready, IInv, TypeOK, ToSet
  <2>3. QED
    BY <2>1, <2>2 DEF JobInv, JobsOK, WithinBudget, Budget
<1>2. QED
  BY <1>1, JobInvariance, PTL

\* A job stopped by enforcement enters the ready queue again only when an
\* arrival or an attach has cleared enforced: neither the scheduler thread nor
\* a departure of another reserve resumes it.
THEOREM StoppedStaysStopped ==
  ASSUME Uncapturing
  PROVE  Spec => StoppedUntilNextPeriod
PROOF
<1>1. (IInv /\ JobInv)' =>
        \A r \in Rids : Enters(r) /\ table[r].pid = Attached =>
          ~table'[r].enforced
  BY DEF IInv, JobInv, EnforcedStopped, ReadyAttached, Enters
<1>2. QED
  BY <1>1, JobInvariance, PTL DEF StoppedUntilNextPeriod

\* The scheduler thread is awake as long as it has a request to serve, if no
\* handler runs between its last look at the stack and its going to sleep.
THEOREM RequestsStayAwake ==
  ASSUME Uncapturing
  PROVE  Spec => []RequestWakes
PROOF
<1>1. JobInv => RequestWakes
  BY DEF JobInv, JobsOK, RequestsOK, RequestWakes
<1>2. QED
  BY <1>1, JobInvariance, PTL

-----------------------------------------------------------------------------
(***************************************************************************)
(* Periodic tasks: no task calls end_of_period or wait_for_next_release.   *)
(***************************************************************************)

Periodic == Uncapturing /\ "release" \notin Calls

\* An armed timer, but for those of S, expires exactly at the budget.
ExactExcept(d, S) ==
  \A x \in Rids \ S : d.enforcement[x] # Off =>
    d.current[x] + d.elapsed + d.enforcement[x] = Budget(x)

\* Who is to be stopped has used up its budget.
RequestsExhausted(d, A) ==
  \A x \in A : d.reschedule = <<x>> => UsedIn(d)[x] >= Budget(x)

ExactOK(d, A) == ExactExcept(d, {}) /\ RequestsExhausted(d, A)

\* A job is scheduled, its task runs and start_period is 1; or it has departed.
PeriodCounts ==
  \A r \in Live :
    \/ r \in Ready /\ table[r].start_period = 1 /\ task[r] = "running"
    \/ /\ r \notin Ready /\ table[r].start_period = 0
       /\ task[r] = "sleeping" \/ (lock.by = "wait" /\ lock.rid = r)

LockWait == lock.by \in Departing => lock.by = "wait" /\ lock.rid \notin Ready

NotSporadic ==
  \A r \in Rids : Active(r) =>
    ~table[r].non_periodic_wait /\ ~table[r].end_of_period_marked

StoppedExhausted ==
  \A r \in Rids : table[r].pid = Attached /\ table[r].enforced =>
    dispatcher.current[r] >= Budget(r)

PeriodInv ==
  /\ ExactOK(dispatcher, Live)
  /\ PeriodCounts
  /\ LockWait
  /\ NotSporadic
  /\ StoppedExhausted

\* Charges and budgets are numbers.
LEMMA ChargeType ==
  ASSUME TypeOK, NEW d \in Dispatchers, NEW x \in Rids
  PROVE  /\ d.current[x] \in Int /\ d.elapsed \in Int
         /\ d.enforcement[x] \in Int /\ Budget(x) \in Int
PROOF
<1>1. d.current[x] \in Int /\ d.elapsed \in Int /\ d.enforcement[x] \in Int
  BY ConstantsAssumption DEF Dispatchers
<1>2. QED
  BY <1>1, SpecType DEF Budget

\* Starting the head arms its timer for what is left, or asks for it to be
\* stopped because nothing is left.
LEMMA StartHeadExact ==
  ASSUME TypeOK, Uncaptured, NEW d \in Dispatchers, NEW S \in SUBSET Rids,
         NEW A \in SUBSET Rids, \A x \in Rids \ S : d.enforcement[x] = Off,
         d.sched_task # "leaving",
         \A x \in A : d.reschedule = <<x>> => d.current[x] >= Budget(x),
         \/ d.reschedule = <<>>
         \/ d.readyq # <<>> /\ d.current[Head(d.readyq)] < Budget(Head(d.readyq))
  PROVE  ExactExcept(StartHead(d), S) /\ RequestsExhausted(StartHead(d), A)
PROOF
<1> SUFFICES ASSUME NEW e, e = StartHead(d)
    PROVE  ExactExcept(e, S) /\ RequestsExhausted(e, A)
  OBVIOUS
<1> DEFINE h == Head(d.readyq)
           c == [d EXCEPT !.elapsed = 0]
<1>1. /\ e \in Dispatchers /\ e.current = d.current /\ e.elapsed = 0
      /\ UsedIn(e) = d.current
      /\ \/ e.enforcement = d.enforcement
         \/ /\ d.readyq # <<>>
            /\ e.enforcement = [d.enforcement EXCEPT ![h] = Budget(h) - d.current[h]]
  BY StartHeadType, StartHeadUsed DEF Budget
<1>2. ExactExcept(e, S)
  <2>1. ASSUME NEW x \in Rids \ S, e.enforcement[x] # Off
        PROVE  e.current[x] + e.elapsed + e.enforcement[x] = Budget(x)
    <3>1. x = h /\ e.enforcement[x] = Budget(x) - d.current[x]
      <4>1. d.enforcement[x] = Off /\ d.enforcement \in [Rids -> Off .. MaxTicks]
        BY DEF Dispatchers
      <4>2. e.enforcement # d.enforcement
        BY <2>1, <4>1
      <4> HIDE DEF h
      <4>3. e.enforcement = [d.enforcement EXCEPT ![h] = Budget(h) - d.current[h]]
        BY <1>1, <4>2
      <4>4. QED
        BY <2>1, <4>1, <4>3
    <3>2. d.current[x] \in Int /\ Budget(x) \in Int
      BY ChargeType
    <3>3. e.current = d.current /\ e.elapsed = 0
      BY <1>1
    <3> HIDE DEF h
    <3>4. QED
      BY <3>1, <3>2, <3>3
  <2>2. QED
    BY <2>1 DEF ExactExcept
<1>3. 0 \in 0 .. MaxTicks
  BY ConstantsAssumption
<1>4. c \in Dispatchers /\ SameRequests(d, c)
  BY <1>3 DEF Dispatchers, SameRequests
<1>5. CASE d.readyq = <<>>
  <2>1. e = c
    BY <1>5 DEF StartHead
  <2>2. QED
    BY <1>1, <1>2, <1>4, <2>1 DEF RequestsExhausted, SameRequests
<1>6. CASE d.readyq # <<>> /\ d.current[h] < Budget(h)
  <2>1. h \in Rids /\ d.current[h] \in Int /\ Budget(h) \in Int
    <3>1. h \in Rids
      BY <1>6, HeadMember
    <3> HIDE DEF h
    <3>2. QED
      BY <3>1, ChargeType
  <2>2. e = [c EXCEPT !.enforcement[h] = Budget(h) - d.current[h]]
    BY <1>6, <2>1 DEF StartHead, Budget
  <2> HIDE DEF c, h
  <2>3. e.reschedule = d.reschedule
    BY <1>4, <2>2 DEF SameRequests, Dispatchers
  <2>4. QED
    BY <1>1, <1>2, <2>3 DEF RequestsExhausted
<1>7. CASE d.readyq # <<>> /\ ~ (d.current[h] < Budget(h))
  <2>1. h \in Rids /\ d.current[h] \in Int /\ Budget(h) \in Int
    <3>1. h \in Rids
      BY <1>7, HeadMember
    <3> HIDE DEF h
    <3>2. QED
      BY <3>1, ChargeType
  <2>2. e = BudgetEnforcement(c, h, TRUE)
    BY <1>7, <2>1 DEF StartHead, Budget
  <2>3. ~Captured(h)
    BY <2>1 DEF Uncaptured
  <2>4. Idle(c)
    BY <1>4, <1>7 DEF Idle, SameRequests
  <2> HIDE DEF c
  <2>5. BudgetEnforcement(c, h, TRUE).reschedule = <<h>>
    BY <1>4, <2>1, <2>3, <2>4, StopRequestMeans
  <2> HIDE DEF h
  <2>6. e.reschedule = <<h>> /\ d.current[h] >= Budget(h)
    <3>1. e.reschedule = <<h>>
      BY <2>2, <2>5
    <3>2. d.current[h] >= Budget(h)
      BY <1>7, <2>1
    <3>3. QED
      BY <3>1, <3>2
  <2>7. QED
    BY <1>1, <1>2, <2>6 DEF RequestsExhausted
<1>8. QED
  BY <1>5, <1>6, <1>7

\* start_reserve
LEMMA StartExact ==
  ASSUME TypeOK, Uncaptured, NEW d \in Dispatchers,
         NEW prio \in [Rids -> Int], NEW r \in Rids, NEW A \in SUBSET Rids,
         TimerSound(d), ExactOK(d, A), d.sched_task # "leaving",
         \/ d.reschedule = <<>>
         \/ HeadIs(Start(d, prio, r), r) /\ d.current[r] < Budget(r)
  PROVE  ExactOK(Start(d, prio, r), A)
PROOF
<1>1. CASE r \in ToSet(d.readyq)
  <2>1. Start(d, prio, r) = d
    BY <1>1 DEF Start, ToSet
  <2>2. QED
    BY <2>1
<1>2. CASE r \notin ToSet(d.readyq)
  <2>1. PICK f \in Dispatchers :
           /\ Start(d, prio, r) = StartHead(f)
           /\ f.current = UsedIn(d) /\ SameRequests(d, f)
           /\ NoTimer(f)
    BY <1>2, StartUnfolds
  <2>2. HeadIs(Start(d, prio, r), r) => f.readyq # <<>> /\ Head(f.readyq) = r
    BY <2>1, StartHeadType DEF HeadIs
  <2>3. f.current[r] = d.current[r]
    <3>1. ~ (d.readyq # <<>> /\ Head(d.readyq) = r)
      BY <1>2, HeadMember
    <3>2. QED
      BY <2>1, <3>1, UsedMeans
  <2>4. \/ f.reschedule = <<>>
        \/ f.readyq # <<>> /\ f.current[Head(f.readyq)] < Budget(Head(f.readyq))
    BY <2>1, <2>2, <2>3 DEF SameRequests
  <2>5. \A x \in A : f.reschedule = <<x>> => f.current[x] >= Budget(x)
    BY <2>1 DEF ExactOK, RequestsExhausted, SameRequests
  <2>6. f.sched_task # "leaving" /\ \A x \in Rids \ {} : f.enforcement[x] = Off
    BY <2>1 DEF SameRequests, NoTimer
  <2>7. {} \in SUBSET Rids
    OBVIOUS
  <2>8. ExactExcept(StartHead(f), {}) /\ RequestsExhausted(StartHead(f), A)
    BY <2>4, <2>5, <2>6, <2>7, StartHeadExact
  <2>9. QED
    BY <2>1, <2>8 DEF ExactOK
<1>3. QED
  BY <1>1, <1>2

\* stop_reserve, with no request pending
LEMMA StopExact ==
  ASSUME TypeOK, Uncaptured, NEW d \in Dispatchers, NEW r \in Rids,
         NEW A \in SUBSET Rids, Distinct(d.readyq), Idle(d), TimerSound(d),
         ExactExcept(d, {})
  PROVE  ExactOK(Stop(d, r), A)
PROOF
<1>1. CASE HeadIs(d, r)
  <2>1. PICK f \in Dispatchers :
           /\ Stop(d, r) = StartHead(f) /\ SameRequests(d, f) /\ NoTimer(f)
    BY <1>1, StopUnfolds
  <2>2. /\ f.sched_task # "leaving" /\ f.reschedule = <<>>
        /\ \A x \in Rids \ {} : f.enforcement[x] = Off
    BY <2>1 DEF SameRequests, NoTimer, Idle
  <2>3. \A x \in A : f.reschedule = <<x>> => f.current[x] >= Budget(x)
    BY <2>2
  <2>4. {} \in SUBSET Rids
    OBVIOUS
  <2>5. ExactExcept(StartHead(f), {}) /\ RequestsExhausted(StartHead(f), A)
    BY <2>2, <2>3, <2>4, StartHeadExact
  <2>6. QED
    BY <2>1, <2>5 DEF ExactOK
<1>2. CASE ~HeadIs(d, r)
  <2>1. Stop(d, r) = [d EXCEPT !.readyq = Dequeue(d.readyq, r)]
    BY <1>2 DEF Stop, HeadIs
  <2>2. /\ Stop(d, r).current = d.current /\ Stop(d, r).elapsed = d.elapsed
        /\ Stop(d, r).enforcement = d.enforcement
        /\ Stop(d, r).reschedule = <<>>
    BY <2>1 DEF Dispatchers, Idle
  <2>3. QED
    BY <2>2 DEF ExactOK, ExactExcept, RequestsExhausted
<1>3. QED
  BY <1>1, <1>2

\* delete_reserve, before it cancels the timers of r
LEMMA RemovalsExact ==
  ASSUME TypeOK, Uncaptured, NEW d \in Dispatchers, NEW r \in Rids,
         NEW A \in SUBSET Rids, Distinct(d.readyq), Idle(d), TimerSound(d),
         ExactExcept(d, {}), NEW e \in Removals(d, r)
  PROVE  /\ ExactExcept(e, {r}) /\ RequestsExhausted(e, A)
         /\ \A x \in Rids \ ToSet(d.readyq) : e.current[x] = d.current[x]
PROOF
<1> DEFINE q == Dequeue(d.readyq, r)
           f == [d EXCEPT !.readyq = q]
<1>1. /\ f \in Dispatchers /\ f.readyq = q /\ f.current = d.current
      /\ f.enforcement = d.enforcement /\ SameRequests(d, f)
      /\ ToSet(q) = ToSet(d.readyq) \ {r}
  <2>1. q \in Seq(Rids) /\ ToSet(q) = ToSet(d.readyq) \ {r}
    BY DequeueProperties DEF Dispatchers
  <2>2. QED
    BY <2>1 DEF Dispatchers, SameRequests
<1>2. CASE e = Stop(d, r)
  <2>1. ExactOK(e, A)
    BY <1>2, StopExact
  <2>2. ASSUME NEW x \in Rids \ ToSet(d.readyq)
        PROVE  e.current[x] = d.current[x]
    <3>1. UsedIn(e) = UsedIn(d)
      BY <1>2, StopRescheduled DEF Rescheduled
    <3>2. e \in Dispatchers /\ e.readyq = q
      BY <1>2, StopType
    <3>3. ~ (d.readyq # <<>> /\ Head(d.readyq) = x)
          /\ ~ (e.readyq # <<>> /\ Head(e.readyq) = x)
      <4>1. x \notin ToSet(d.readyq) /\ x \notin ToSet(e.readyq)
        BY <1>1, <3>2
      <4>2. QED
        BY <3>2, <4>1, HeadMember
    <3>4. QED
      BY <3>1, <3>2, <3>3, UsedMeans
  <2>3. QED
    BY <2>1, <2>2 DEF ExactOK, ExactExcept
<1>3. CASE ~HeadIs(d, r)
  <2>1. e = Stop(d, r)
    BY <1>3 DEF HeadIs, Removals, Stop
  <2>2. QED
    BY <1>2, <2>1
<1>4. CASE HeadIs(d, r) /\ e = StartHead(f)
  <2> HIDE DEF f
  <2>1. \A x \in Rids \ {r} : f.enforcement[x] = Off
    BY <1>1, <1>4 DEF TimerSound, HeadIs
  <2>2. f.reschedule = <<>> /\ f.sched_task # "leaving"
    BY <1>1 DEF SameRequests, Idle
  <2>3. \A x \in A : f.reschedule = <<x>> => f.current[x] >= Budget(x)
    BY <2>2
  <2>4. {r} \in SUBSET Rids
    OBVIOUS
  <2>5. ExactExcept(StartHead(f), {r}) /\ RequestsExhausted(StartHead(f), A)
    BY <1>1, <2>1, <2>2, <2>3, <2>4, StartHeadExact
  <2>6. QED
    BY <1>1, <1>4, <2>5, StartHeadType
<1>5. CASE HeadIs(d, r) /\ \E t \in 0 .. MaxTicks : e = [f EXCEPT !.elapsed = t]
  <2>1. PICK t \in 0 .. MaxTicks : e = [f EXCEPT !.elapsed = t]
    BY <1>5
  <2> HIDE DEF f
  <2>2. e.current = d.current /\ e.enforcement = d.enforcement
        /\ e.reschedule = <<>>
    BY <1>1, <2>1 DEF Dispatchers, SameRequests, Idle
  <2>3. \A x \in Rids \ {r} : e.enforcement[x] = Off
    BY <1>5, <2>2 DEF TimerSound, HeadIs
  <2>4. QED
    BY <2>2, <2>3 DEF ExactExcept, RequestsExhausted
<1>6. QED
  BY <1>2, <1>3, <1>4, <1>5 DEF Removals, HeadIs

\* What a step that concerns r only has to show.
LEMMA PeriodStepMeans ==
  ASSUME IInv', JobInv, PeriodInv, NEW r \in Rids,
         ExactOK(dispatcher', Live'),
         \A x \in Rids \ {r} :
           /\ table'[x] = table[x] /\ task'[x] = task[x]
           /\ x \in Ready' <=> x \in Ready
           /\ x \notin Ready => dispatcher'.current[x] = dispatcher.current[x]
           /\ lock.by = "wait" /\ lock.rid = x =>
                lock'.by = "wait" /\ lock'.rid = x,
         LockWait',
         table'[r].pid = Attached => table'[r].spec = table[r].spec,
         table'[r].pid = Attached /\ table'[r].enforced =>
           dispatcher'.current[r] >= Budget(r),
         table'[r].pid # Free =>
           ~table'[r].non_periodic_wait /\ ~table'[r].end_of_period_marked,
         r \in Live' =>
           \/ /\ r \in Ready' /\ table'[r].start_period = 1
              /\ task'[r] = "running"
           \/ /\ r \notin Ready' /\ table'[r].start_period = 0
              /\ \/ task'[r] = "sleeping"
                 \/ lock'.by = "wait" /\ lock'.rid = r
  PROVE  PeriodInv'
PROOF
<1>1. \A x \in Rids : table'[x].pid = Attached => table'[x].spec = table[x].spec
  OBVIOUS
<1>2. ExactExcept(dispatcher, {})'
  <2>1. ASSUME NEW x \in Rids, dispatcher'.enforcement[x] # Off
        PROVE  table'[x].pid = Attached
    <3>1. dispatcher'.readyq # <<>> /\ Head(dispatcher'.readyq) = x
      BY <2>1 DEF IInv, BudgetTimerSound, Current
    <3>2. x \in ToSet(dispatcher'.readyq)
      BY <3>1, HeadMember DEF IInv, TypeOK
    <3>3. QED
      BY <3>2 DEF IInv, ReadyAttached, Ready
  <2>2. QED
    BY <1>1, <2>1 DEF ExactOK, ExactExcept, Budget
<1>3. RequestsExhausted(dispatcher, Live)'
  BY <1>1 DEF ExactOK, RequestsExhausted, Budget, UsedIn, Live, Alive, Capped
<1>4. PeriodCounts'
  <2>1. ASSUME NEW x \in Live', x # r
        PROVE  \/ /\ x \in Ready' /\ table'[x].start_period = 1
                  /\ task'[x] = "running"
               \/ /\ x \notin Ready' /\ table'[x].start_period = 0
                  /\ \/ task'[x] = "sleeping"
                     \/ lock'.by = "wait" /\ lock'.rid = x
    <3>1. x \in Rids \ {r}
      BY <2>1 DEF Live
    <3>2. x \in Live
      BY <2>1, <3>1 DEF Live, Alive
    <3>3. QED
      BY <3>1, <3>2 DEF PeriodInv, PeriodCounts
  <2>2. QED
    BY <2>1 DEF PeriodCounts
<1>5. NotSporadic'
  BY DEF PeriodInv, NotSporadic, Active
<1>6. StoppedExhausted'
  <2>1. ASSUME NEW x \in Rids, x # r, table'[x].pid = Attached, table'[x].enforced
        PROVE  dispatcher'.current[x] >= Budget(x)
    <3>1. x \notin Ready
      BY <2>1 DEF JobInv, EnforcedStopped
    <3>2. QED
      BY <2>1, <3>1 DEF PeriodInv, StoppedExhausted
  <2>2. QED
    BY <1>1, <2>1 DEF StoppedExhausted, Budget
<1>7. QED
  BY <1>2, <1>3, <1>4, <1>5, <1>6 DEF PeriodInv, ExactOK

\* Outside the ready queue charges are settled.
LEMMA SettledCharges ==
  ASSUME NEW d \in Dispatchers, NEW e \in Dispatchers, NEW x \in Rids,
         x \notin ToSet(d.readyq), x \notin ToSet(e.readyq),
         UsedIn(e)[x] = UsedIn(d)[x]
  PROVE  e.current[x] = d.current[x]
PROOF
<1>1. /\ ~ (d.readyq # <<>> /\ Head(d.readyq) = x)
      /\ ~ (e.readyq # <<>> /\ Head(e.readyq) = x)
  BY HeadMember
<1>2. QED
  BY <1>1, UsedMeans

\* The deletion of a reserve, from an idle dispatcher.
LEMMA DeletePeriodInv ==
  ASSUME IInv, IInv', JobInv, PeriodInv, NEW d, DispatcherOK(d),
         d.readyq = dispatcher.readyq, d.current = dispatcher.current,
         NEW r \in Rids, NEW t \in [Rids -> Reserves],
         \A x \in Rids \ {r} : t[x] = table[x],
         Idle(d), ExactExcept(d, {}), DeleteReserve(d, t, r),
         lock.by # "wait", lock'.by \in {"free", "sched"}
  PROVE  PeriodInv'
PROOF
<1>1. /\ TypeOK /\ d \in Dispatchers /\ Distinct(d.readyq) /\ Uncaptured
      /\ d.readyq \in Seq(Rids) /\ Live' \in SUBSET Rids /\ TimerSound(d)
  BY SortedDistinct DEF IInv, TypeOK, DispatcherOK, Dispatchers, Live, JobInv
<1>2. PICK e \in Removals(d, r) :
        dispatcher' = [CancelTimers(e, r) EXCEPT !.signals[r] = <<>>]
  BY DEF DeleteReserve
<1>3. /\ e \in Dispatchers /\ e.readyq = Dequeue(d.readyq, r)
      /\ ExactExcept(e, {r}) /\ RequestsExhausted(e, Live')
      /\ \A x \in Rids \ ToSet(d.readyq) : e.current[x] = d.current[x]
      /\ ToSet(Dequeue(d.readyq, r)) = ToSet(d.readyq) \ {r}
  BY <1>1, <1>2, RemovalsType, RemovalsExact, DequeueProperties
<1> DEFINE c == CancelTimers(e, r)
<1>4. /\ c \in Dispatchers /\ c.readyq = e.readyq /\ c.current = e.current
      /\ c.elapsed = e.elapsed
      /\ \A x \in Rids : c.enforcement[x] = IF x = r THEN Off
                                            ELSE e.enforcement[x]
  BY <1>3, CancelTimersType
<1>5. c.reschedule = e.reschedule
  BY <1>3 DEF CancelTimers, Dispatchers
<1>6. dispatcher' = [c EXCEPT !.signals[r] = <<>>]
  BY <1>2
<1> HIDE DEF c
<1>7. /\ dispatcher'.readyq = e.readyq /\ dispatcher'.current = e.current
      /\ dispatcher'.elapsed = e.elapsed
      /\ dispatcher'.enforcement = c.enforcement
      /\ dispatcher'.reschedule = e.reschedule
  BY <1>4, <1>5, <1>6 DEF Dispatchers
<1>8. ExactOK(dispatcher', Live')
  <2>1. ExactExcept(dispatcher', {})
    BY <1>3, <1>4, <1>7 DEF ExactExcept
  <2>2. UsedIn(dispatcher') = UsedIn(e)
    BY <1>7, SameChargesUsed
  <2>3. QED
    BY <1>3, <1>7, <2>1, <2>2 DEF ExactOK, RequestsExhausted
<1>9. /\ table' = [t EXCEPT ![r].pid = Free] /\ task' = [task EXCEPT ![r] = "none"]
      /\ task \in [Rids -> TaskStates]
  BY <1>1 DEF DeleteReserve, TypeOK
<1>10. table'[r].pid = Free
       /\ \A x \in Rids \ {r} : table'[x] = table[x] /\ task'[x] = task[x]
  BY <1>9 DEF Reserves
<1>11. Ready' = Ready \ {r}
  BY <1>3, <1>7 DEF Ready
<1>12. \A x \in Rids \ {r} : x \notin Ready =>
         dispatcher'.current[x] = dispatcher.current[x]
  BY <1>3, <1>7 DEF Ready
<1>13. LockWait'
  BY DEF LockWait, Departing
<1>14. r \notin Live' /\ Free # Attached
  BY <1>10 DEF Live, Alive, Free, Attached
<1>15. QED
  BY <1>8, <1>10, <1>11, <1>12, <1>13, <1>14, PeriodStepMeans

\* CREATE_RSV
LEMMA CreateReservePeriods ==
  ASSUME IInv, IInv', JobInv, PeriodInv, NEW spec \in Specs,
         NEW admitted \in BOOLEAN, CreateReserve(spec, admitted)
  PROVE  PeriodInv'
PROOF
<1>1. PICK r \in Rids :
        /\ ~Active(r)
        /\ table' = [table EXCEPT
             ![r] = NewReserve(r, spec, IF admitted THEN Created ELSE Free)]
  BY DEF CreateReserve
<1>2. UNCHANGED <<task, dispatcher, lock>>
  BY DEF CreateReserve
<1> DEFINE n == NewReserve(r, spec, IF admitted THEN Created ELSE Free)
<1>3. n.pid \in {Created, Free} /\ ~n.non_periodic_wait /\ ~n.end_of_period_marked
  BY DEF NewReserve, IInv, TypeOK, Reserves
<1> HIDE DEF n
<1>4. table'[r] = n /\ \A x \in Rids \ {r} : table'[x] = table[x]
  BY <1>1 DEF n, IInv, TypeOK
<1>5. Live' = Live /\ r \notin Live' /\ n.pid # Attached
  BY <1>1, <1>2, <1>3, <1>4 DEF Live, Alive, Active, Attached, Created, Free
<1>6. ExactOK(dispatcher', Live')
  BY <1>2, <1>5 DEF PeriodInv
<1>7. \A x \in Rids \ {r} :
        /\ table'[x] = table[x] /\ task'[x] = task[x]
        /\ x \in Ready' <=> x \in Ready
        /\ x \notin Ready => dispatcher'.current[x] = dispatcher.current[x]
        /\ lock.by = "wait" /\ lock.rid = x =>
             lock'.by = "wait" /\ lock'.rid = x
  BY <1>2, <1>4 DEF Ready
<1>8. LockWait'
  BY <1>2 DEF PeriodInv, LockWait, Ready
<1>9. QED
  BY <1>3, <1>4, <1>5, <1>6, <1>7, <1>8, PeriodStepMeans

\* ATTACH_RSV
LEMMA AttachReservePeriods ==
  ASSUME Periodic, IInv, IInv', JobInv, PeriodInv, NEW r \in Rids,
         AttachReserve(r)
  PROVE  PeriodInv'
PROOF
<1>1. /\ Idle(dispatcher) /\ Active(r) /\ r \notin Live /\ r \notin Ready
      /\ Live' = Live \cup {r} /\ Ready' = Ready \cup {r}
      /\ \A x \in Rids \ {r} : table'[x] = table[x] /\ task'[x] = task[x]
      /\ table'[r] = [table[r] EXCEPT
           !.pid = Attached, !.start_period = 1, !.enforced = FALSE,
           !.in_critical_mode = FALSE]
      /\ task'[r] = "running" /\ UNCHANGED <<critVars, lock>>
      /\ lock.by = "free" /\ priority' \in [Rids -> Int]
  BY AttachMeans DEF Periodic, Uncapturing
<1>2. PICK f \in Dispatchers :
        /\ dispatcher' = Start(f, priority', r)
        /\ f.readyq = dispatcher.readyq
        /\ f.elapsed = dispatcher.elapsed
        /\ f.enforcement = dispatcher.enforcement
        /\ SameRequests(dispatcher, f)
        /\ \A x \in Rids : f.current[x] = IF x = r THEN 0
                                          ELSE dispatcher.current[x]
  BY AttachMeans DEF Periodic, Uncapturing
<1>3. /\ TypeOK /\ Uncaptured /\ ExactOK(dispatcher, Live)
      /\ dispatcher \in Dispatchers /\ dispatcher' \in Dispatchers
      /\ Live' \in SUBSET Rids /\ TimerSound(dispatcher)
  BY DispatcherInvariant DEF IInv, TypeOK, JobInv, PeriodInv, Live, DispatcherOK
<1>4. dispatcher.enforcement[r] = Off
  <2>1. ~ (dispatcher.readyq # <<>> /\ Head(dispatcher.readyq) = r)
    BY <1>1, <1>3, HeadMember DEF Ready
  <2>2. QED
    BY <1>3, <2>1 DEF TimerSound
<1>5. TimerSound(f) /\ ExactExcept(f, {})
  BY <1>2, <1>3, <1>4 DEF TimerSound, ExactOK, ExactExcept
<1>6. f.reschedule = <<>> /\ f.sched_task # "leaving"
  BY <1>1, <1>2 DEF SameRequests, Idle
<1>7. ExactOK(f, Live')
  BY <1>5, <1>6 DEF ExactOK, RequestsExhausted
<1>8. ExactOK(dispatcher', Live')
  BY <1>1, <1>2, <1>3, <1>5, <1>6, <1>7, StartExact
<1>9. ASSUME NEW x \in Rids \ {r}, x \notin Ready
      PROVE  dispatcher'.current[x] = dispatcher.current[x]
  <2>1. UsedIn(dispatcher') = UsedIn(f)
    BY <1>1, <1>2, <1>3, StartRescheduled DEF Rescheduled
  <2>2. x \notin ToSet(f.readyq) /\ x \notin ToSet(dispatcher'.readyq)
    BY <1>1, <1>2, <1>9 DEF Ready
  <2>3. dispatcher'.current[x] = f.current[x]
    BY <1>3, <2>1, <2>2, SettledCharges
  <2>4. QED
    BY <1>2, <2>3
<1>10. LockWait'
  BY <1>1 DEF LockWait, Departing
<1>11. /\ table'[r].spec = table[r].spec /\ table'[r].start_period = 1
       /\ ~table'[r].enforced
       /\ table'[r].non_periodic_wait = table[r].non_periodic_wait
       /\ table'[r].end_of_period_marked = table[r].end_of_period_marked
  BY <1>1, <1>3 DEF TypeOK, Reserves
<1>12. ~table'[r].non_periodic_wait /\ ~table'[r].end_of_period_marked
  BY <1>1, <1>11 DEF PeriodInv, NotSporadic
<1>13. \A x \in Rids \ {r} :
         /\ table'[x] = table[x] /\ task'[x] = task[x]
         /\ x \in Ready' <=> x \in Ready
         /\ x \notin Ready => dispatcher'.current[x] = dispatcher.current[x]
         /\ lock.by = "wait" /\ lock.rid = x =>
              lock'.by = "wait" /\ lock'.rid = x
  BY <1>1, <1>9
<1>14. QED
  BY <1>1, <1>8, <1>10, <1>11, <1>12, <1>13, PeriodStepMeans

\* DELETE_RSV
LEMMA DeleteReservePeriods ==
  ASSUME Periodic, IInv, IInv', JobInv, PeriodInv, NEW r \in Rids, Delete(r)
  PROVE  PeriodInv'
PROOF
<1>1. DispatcherOK(dispatcher) /\ Idle(dispatcher) /\ DeleteReserve(dispatcher, table, r)
  BY DispatcherInvariant, EnterIdle DEF Delete, IInv, Periodic, Uncapturing
<1>2. table \in [Rids -> Reserves] /\ ExactExcept(dispatcher, {})
  BY DEF IInv, TypeOK, PeriodInv, ExactOK
<1>3. lock.by = "free" /\ lock'.by = "free"
  BY DEF Delete, Enter
<1>4. QED
  BY <1>1, <1>2, <1>3, DeletePeriodInv

\* wait_for_next_period: the job of the running task departs.
LEMMA WaitPeriodPeriods ==
  ASSUME Periodic, IInv, IInv', JobInv, PeriodInv, NEW r \in Rids,
         WaitPeriod(r)
  PROVE  PeriodInv'
PROOF
<1>0. /\ RateMonotonic /\ Enter /\ Alive(r) /\ task[r] = "running"
      /\ Depart(dispatcher, r, "wait")
  BY DEF WaitPeriod, Periodic, Uncapturing
<1>1. /\ Idle(dispatcher) /\ Distinct(dispatcher.readyq) /\ lock.by = "free"
      /\ dispatcher' = Stop(dispatcher, r) /\ Ready' = Ready \ {r}
      /\ \A x \in Rids \ {r} : table'[x] = table[x] /\ task'[x] = task[x]
      /\ table'[r] = Departed(r, "wait") /\ task'[r] = "running"
      /\ table'[r].pid = table[r].pid /\ table'[r].spec = table[r].spec
      /\ table'[r].enforced = table[r].enforced
      /\ lock'.by = "wait" /\ lock'.rid = r /\ Live' = Live
  BY <1>0, DepartMeans
<1>2. /\ TypeOK /\ Uncaptured /\ ExactOK(dispatcher, Live)
      /\ dispatcher \in Dispatchers /\ dispatcher' \in Dispatchers
      /\ Live \in SUBSET Rids /\ TimerSound(dispatcher)
  BY DispatcherInvariant DEF IInv, TypeOK, JobInv, PeriodInv, Live, DispatcherOK
<1>3. ExactOK(dispatcher', Live')
  BY <1>1, <1>2, StopExact DEF ExactOK
<1>4. ASSUME NEW x \in Rids \ {r}, x \notin Ready
      PROVE  dispatcher'.current[x] = dispatcher.current[x]
  <2>1. UsedIn(dispatcher') = UsedIn(dispatcher)
    BY <1>1, <1>2, StopRescheduled DEF Rescheduled
  <2>2. x \notin ToSet(dispatcher'.readyq) /\ x \notin ToSet(dispatcher.readyq)
    BY <1>1, <1>4 DEF Ready
  <2>3. QED
    BY <1>2, <2>1, <2>2, SettledCharges
<1>5. r \in Live /\ r \notin Ready' /\ table[r].start_period = 1
  BY <1>0, <1>1 DEF PeriodInv, PeriodCounts, Live
<1>6. /\ table'[r].start_period = 0
      /\ ~table'[r].non_periodic_wait /\ ~table'[r].end_of_period_marked
  <2>1. ~table[r].end_of_period_marked
    BY <1>0 DEF PeriodInv, NotSporadic, Active, Alive, Attached, Free
  <2>2. table[r] \in Reserves
    BY <1>2 DEF TypeOK
  <2>3. QED
    BY <1>1, <1>5, <2>1, <2>2 DEF Departed, Reserves
<1>7. ~table[r].enforced
  BY <1>0 DEF JobInv, EnforcedStopped, Alive
<1>8. LockWait'
  BY <1>1, <1>5 DEF LockWait
<1>9. \A x \in Rids \ {r} :
        /\ table'[x] = table[x] /\ task'[x] = task[x]
        /\ x \in Ready' <=> x \in Ready
        /\ x \notin Ready => dispatcher'.current[x] = dispatcher.current[x]
        /\ lock.by = "wait" /\ lock.rid = x =>
             lock'.by = "wait" /\ lock'.rid = x
  BY <1>1, <1>4
<1>10. QED
  BY <1>1, <1>3, <1>5, <1>6, <1>7, <1>8, <1>9, PeriodStepMeans

\* The system calls of a periodic task.
LEMMA SystemCallPeriods ==
  ASSUME Periodic, IInv, IInv', JobInv, PeriodInv, NEW r \in Rids,
         SystemCall(r)
  PROVE  PeriodInv'
PROOF
<1>1. ~ EndPeriod(r) /\ ~ WaitRelease(r)
      /\ ~ \E captured \in BOOLEAN : CaptureEnforcementSignal(r, captured)
  BY DEF EndPeriod, WaitRelease, CaptureEnforcementSignal, Periodic, Uncapturing
<1>2. QED
  BY <1>1, AttachReservePeriods, DeleteReservePeriods, WaitPeriodPeriods
     DEF SystemCall

\* A step that moves nobody and changes no charge, of r at most.
LEMMA StillPeriods ==
  ASSUME IInv', JobInv, PeriodInv, NEW r \in Rids,
         ExactOK(dispatcher', Live'), dispatcher'.readyq = dispatcher.readyq,
         dispatcher'.current = dispatcher.current,
         UNCHANGED <<table, lock>>,
         \A x \in Rids \ {r} : task'[x] = task[x],
         task'[r] \in {task[r], "dead"}
  PROVE  PeriodInv'
PROOF
<1>1. \A x \in Rids \ {r} :
        /\ table'[x] = table[x] /\ task'[x] = task[x]
        /\ x \in Ready' <=> x \in Ready
        /\ x \notin Ready => dispatcher'.current[x] = dispatcher.current[x]
        /\ lock.by = "wait" /\ lock.rid = x =>
             lock'.by = "wait" /\ lock'.rid = x
  BY DEF Ready
<1>2. LockWait'
  BY DEF PeriodInv, LockWait, Ready
<1>3. /\ table'[r].pid = Attached /\ table'[r].enforced =>
           dispatcher'.current[r] >= Budget(r)
      /\ table'[r].pid # Free =>
           ~table'[r].non_periodic_wait /\ ~table'[r].end_of_period_marked
  BY DEF PeriodInv, StoppedExhausted, NotSporadic, Active
<1>4. r \in Live' =>
        \/ /\ r \in Ready' /\ table'[r].start_period = 1
           /\ task'[r] = "running"
        \/ /\ r \notin Ready' /\ table'[r].start_period = 0
           /\ \/ task'[r] = "sleeping"
              \/ lock'.by = "wait" /\ lock'.rid = r
  <2>1. r \in Live' => r \in Live /\ task'[r] = task[r]
    BY DEF Live, Alive
  <2>2. QED
    BY <2>1 DEF PeriodInv, PeriodCounts, Ready
<1>5. QED
  BY <1>1, <1>2, <1>3, <1>4, PeriodStepMeans

\* The task of r exits.
LEMMA DiePeriods ==
  ASSUME IInv, IInv', JobInv, PeriodInv, NEW r \in Rids, Die(r)
  PROVE  PeriodInv'
PROOF
<1>1. /\ UNCHANGED <<table, lock>> /\ task' = [task EXCEPT ![r] = "dead"]
      /\ dispatcher' = [dispatcher EXCEPT !.signals[r] = <<>>]
  BY DEF Die
<1>2. /\ dispatcher \in Dispatchers /\ task \in [Rids -> TaskStates]
      /\ ExactOK(dispatcher, Live)
  BY DEF IInv, TypeOK, PeriodInv
<1>3. /\ SameCharges(dispatcher, dispatcher')
      /\ dispatcher'.enforcement = dispatcher.enforcement
      /\ dispatcher'.reschedule = dispatcher.reschedule
  BY <1>1, <1>2 DEF Dispatchers, SameCharges
<1>4. Live' \subseteq Live
  BY <1>1, <1>2 DEF Live, Alive
<1>5. UsedIn(dispatcher') = UsedIn(dispatcher)
  BY <1>3, SameChargesUsed DEF SameCharges
<1>6. ExactOK(dispatcher', Live')
  BY <1>2, <1>3, <1>4, <1>5
     DEF ExactOK, ExactExcept, RequestsExhausted, SameCharges
<1>7. task'[r] = "dead" /\ \A x \in Rids \ {r} : task'[x] = task[x]
  BY <1>1, <1>2
<1>8. QED
  BY <1>1, <1>3, <1>6, <1>7, StillPeriods DEF SameCharges

\* An arrival leaves the timers exact and starts the job of r.
LEMMA StartOfPeriodExact ==
  ASSUME Periodic, IInv, JobInv, PeriodInv, Enter, NEW r \in Rids, Alive(r),
         StartOfPeriod(r)
  PROVE  /\ ExactOK(dispatcher', Live)
         /\ r \in Ready' /\ task' = [task EXCEPT ![r] = "running"]
PROOF
<1>1. PICK b, s, f \in Dispatchers :
        /\ DispatcherOK(b) /\ Idle(b) /\ SameCharges(dispatcher, b)
        /\ \A x \in Rids : x # r =>
             b.enforcement[x] = dispatcher.enforcement[x]
        /\ b.enforcement[r] \in {Off, dispatcher.enforcement[r]}
        /\ s = IF Overrun(r) THEN Stop(b, r) ELSE dispatcher
        /\ DispatcherOK(s) /\ JobsOK(s, Live)
        /\ f = [s EXCEPT !.current[r] = 0]
        /\ DispatcherOK(f) /\ JobsOK(f, Live) /\ f.sched_task # "leaving"
        /\ \/ f.reschedule = <<>>
           \/ HeadIs(Start(f, priority, r), r) /\ f.current[r] < Budget(r)
        /\ dispatcher' = IF Wakes(r) THEN Start(f, priority, r) ELSE f
  BY ArrivalMeans DEF Periodic, Uncapturing
<1>2. /\ TypeOK /\ Uncaptured /\ ExactOK(dispatcher, Live)
      /\ Live \in SUBSET Rids /\ r \in Live /\ priority \in [Rids -> Int]
  BY DEF IInv, TypeOK, JobInv, PeriodInv, Live
<1>3. ~Suspended(r) /\ Wakes(r)
  <2>1. ~Suspended(r)
    BY <1>2, CriticalityType DEF Suspended, JobInv, Uncritical
  <2>2. ~table[r].non_periodic_wait
    BY DEF PeriodInv, NotSporadic, Active, Alive, Attached, Free
  <2>3. QED
    BY <2>1, <2>2 DEF Wakes
<1>4. dispatcher' = Start(f, priority, r)
  BY <1>1, <1>3
<1>5. ExactOK(s, Live) /\ r \notin ToSet(s.readyq)
  <2>1. CASE Overrun(r)
    <3>1. ExactExcept(b, {})
      <4>1. /\ b.current = dispatcher.current /\ b.elapsed = dispatcher.elapsed
            /\ \A x \in Rids : b.enforcement[x] \in {Off, dispatcher.enforcement[x]}
        BY <1>1 DEF SameCharges
      <4>2. QED
        BY <1>2, <4>1 DEF ExactOK, ExactExcept
    <3>2. b.readyq \in Seq(Rids) /\ Distinct(b.readyq) /\ TimerSound(b)
      BY <1>1, <1>2, SortedDistinct DEF DispatcherOK, Dispatchers, TypeOK
    <3>3. ExactOK(Stop(b, r), Live)
      BY <1>1, <1>2, <3>1, <3>2, StopExact
    <3>4. Stop(b, r).readyq = Dequeue(b.readyq, r)
      BY <1>1, <1>2, <3>2, StopType
    <3>5. r \notin ToSet(Dequeue(b.readyq, r))
      BY <3>2, DequeueProperties
    <3>6. s = Stop(b, r)
      BY <1>1, <2>1
    <3>7. QED
      BY <3>3, <3>4, <3>5, <3>6
  <2>2. CASE ~Overrun(r)
    <3>1. s = dispatcher
      BY <1>1, <2>2
    <3>2. table[r].start_period # 1
      BY <2>2 DEF Overrun
    <3>3. r \notin Ready
      BY <1>2, <3>2 DEF PeriodInv, PeriodCounts
    <3>4. QED
      BY <1>2, <3>1, <3>3 DEF Ready
  <2>3. QED
    BY <2>1, <2>2
<1>6. /\ f.readyq = s.readyq /\ f.elapsed = s.elapsed
      /\ f.enforcement = s.enforcement /\ f.reschedule = s.reschedule
      /\ \A x \in Rids : x # r => f.current[x] = s.current[x]
  BY <1>1 DEF Dispatchers
<1>7. TimerSound(s) /\ TimerSound(f)
  BY <1>1 DEF DispatcherOK
<1>8. s.enforcement[r] = Off
  <2>1. ~ (s.readyq # <<>> /\ Head(s.readyq) = r)
    BY <1>1, <1>5, HeadMember
  <2>2. QED
    BY <1>7, <2>1 DEF TimerSound
<1>9. ExactExcept(f, {})
  BY <1>5, <1>6, <1>8 DEF ExactOK, ExactExcept
<1>10. RequestsExhausted(f, Live)
  <2>1. ASSUME NEW x \in Live, f.reschedule = <<x>>
        PROVE  UsedIn(f)[x] >= Budget(x)
    <3>1. s.reschedule = <<x>> /\ x \in Rids
      BY <1>2, <1>6, <2>1
    <3>2. x \in ToSet(s.readyq)
      BY <1>1, <3>1 DEF JobsOK, RequestsOK
    <3>3. UsedIn(f)[x] = UsedIn(s)[x]
      <4>1. x \in Rids \ {r} /\ s \in Dispatchers
        BY <1>1, <1>5, <3>1, <3>2
      <4>2. QED
        BY <1>1, <4>1, CurrentZeroUsed
    <3>4. UsedIn(s)[x] >= Budget(x)
      BY <1>5, <2>1, <3>1 DEF ExactOK, RequestsExhausted
    <3>5. QED
      BY <3>3, <3>4
  <2>2. QED
    BY <2>1 DEF RequestsExhausted
<1>11. ExactOK(Start(f, priority, r), Live)
  BY <1>1, <1>2, <1>7, <1>9, <1>10, StartExact DEF ExactOK
<1>12. r \in ToSet(Start(f, priority, r).readyq)
  <2>1. TypeOK /\ f \in Dispatchers /\ priority \in [Rids -> Int]
    BY <1>2
  <2>2. ToSet(Start(f, priority, r).readyq) = ToSet(f.readyq) \cup {r}
    BY <2>1, StartType
  <2>3. QED
    BY <2>2
<1>13. task' = [task EXCEPT ![r] = "running"]
  BY <1>3 DEF StartOfPeriod
<1>14. QED
  BY <1>4, <1>11, <1>12, <1>13 DEF Ready

\* A request to delete a reserve without a task stops nobody.
LEMMA ForceDeleteExact ==
  ASSUME TypeOK, NEW d \in Dispatchers, NEW r \in Rids, Idle(d),
         NEW A \in SUBSET Rids, r \notin A, ExactExcept(d, {}),
         ForceDelete(d, r)
  PROVE  /\ ExactOK(dispatcher', A) /\ dispatcher'.readyq = d.readyq
         /\ dispatcher'.current = d.current
PROOF
<1> DEFINE f == [d EXCEPT !.request_stop = @ \ {r}]
           g == PushToReschedule(f, r)
<1>1. /\ f \in Dispatchers /\ SameExecution(d, f) /\ f.reschedule = <<>>
  BY DEF Dispatchers, Idle, SameExecution
<1>2. dispatcher' = WakeScheduler(g)
  BY DEF ForceDelete
<1> HIDE DEF f
<1>3. g = [f EXCEPT !.reschedule = <<r>>]
  <2>1. Len(<<>>) < MaxReserves /\ Append(<<>>, r) = <<r>>
    BY MaxReservesAssumption
  <2>2. QED
    BY <1>1, <2>1 DEF PushToReschedule, Dispatchers
<1>4. /\ g \in Dispatchers /\ SameExecution(f, g) /\ g.reschedule = <<r>>
  BY <1>1, <1>3, PushToRescheduleType DEF Dispatchers
<1> HIDE DEF g
<1>5. SameExecution(g, dispatcher') /\ dispatcher'.reschedule = <<r>>
  BY <1>2, <1>4, WakeSchedulerType DEF WakeScheduler, Dispatchers
<1>6. /\ dispatcher'.readyq = d.readyq /\ dispatcher'.current = d.current
      /\ dispatcher'.elapsed = d.elapsed
      /\ dispatcher'.enforcement = d.enforcement
  BY <1>1, <1>4, <1>5 DEF SameExecution
<1>7. QED
  BY <1>5, <1>6 DEF ExactOK, ExactExcept, RequestsExhausted

\* The period timer
LEMMA PeriodTimerPeriods ==
  ASSUME Periodic, IInv, IInv', JobInv, PeriodInv, NEW r \in Rids,
         PeriodTimer(r)
  PROVE  PeriodInv'
PROOF
<1>1. /\ Enter /\ Idle(dispatcher) /\ ExactOK(dispatcher, Live) /\ TypeOK
      /\ dispatcher \in Dispatchers /\ dispatcher' \in Dispatchers
      /\ lock.by = "free" /\ UNCHANGED lock
  BY EnterIdle
     DEF PeriodTimer, Enter, IInv, TypeOK, PeriodInv, Periodic, Uncapturing
<1>2. CASE ~Alive(r)
  <2>1. ForceDelete(dispatcher, r) /\ UNCHANGED <<table, task>>
    BY <1>2 DEF PeriodTimer, ForceDelete
  <2>2. Live' = Live /\ r \notin Live /\ Live \in SUBSET Rids
    BY <1>2, <2>1 DEF Live, Alive
  <2>3. /\ ExactOK(dispatcher', Live)
        /\ dispatcher'.readyq = dispatcher.readyq
        /\ dispatcher'.current = dispatcher.current
    BY <1>1, <2>1, <2>2, ForceDeleteExact DEF ExactOK
  <2>4. QED
    BY <1>1, <2>1, <2>2, <2>3, StillPeriods
<1>3. CASE Alive(r)
  <2>1. StartOfPeriod(r)
    BY <1>3 DEF PeriodTimer
  <2>2. /\ ExactOK(dispatcher', Live)
        /\ r \in Ready' /\ task' = [task EXCEPT ![r] = "running"]
    BY <1>1, <1>3, <2>1, StartOfPeriodExact
  <2>3. Replenished(dispatcher, dispatcher', r)
    BY <1>3, <2>1, StartOfPeriodReplenishes
  <2>4. \A x \in Rids \ {r} : x \in Ready' <=> x \in Ready
    BY <2>3 DEF Replenished, Moved, Ready
  <2>5. ASSUME NEW x \in Rids \ {r}, x \notin Ready
        PROVE  dispatcher'.current[x] = dispatcher.current[x]
    <3>1. UsedIn(dispatcher')[x] = UsedIn(dispatcher)[x]
      BY <2>3 DEF Replenished
    <3>2. x \notin ToSet(dispatcher'.readyq) /\ x \notin ToSet(dispatcher.readyq)
      BY <2>4, <2>5 DEF Ready
    <3>3. QED
      BY <1>1, <3>1, <3>2, SettledCharges
  <2>6. /\ table' = [table EXCEPT ![r] = Arrived(r)]
        /\ table \in [Rids -> Reserves] /\ task \in [Rids -> TaskStates]
    BY <1>1, <2>1 DEF StartOfPeriod, TypeOK
  <2>7. /\ table'[r] = Arrived(r) /\ task'[r] = "running"
        /\ \A x \in Rids \ {r} : table'[x] = table[x] /\ task'[x] = task[x]
    BY <2>2, <2>6
  <2>8. ~Suspended(r)
    BY <1>1, CriticalityType DEF Suspended, JobInv, Uncritical
  <2>9. table[r].start_period \in {0, 1}
    BY <1>3 DEF PeriodInv, PeriodCounts, Live
  <2>10. /\ Arrived(r).pid = table[r].pid /\ Arrived(r).spec = table[r].spec
         /\ Arrived(r).enforced = FALSE /\ Arrived(r).start_period = 1
         /\ Arrived(r).non_periodic_wait = table[r].non_periodic_wait
         /\ Arrived(r).end_of_period_marked = table[r].end_of_period_marked
    <3>1. table[r] \in Reserves
      BY <2>6
    <3>2. (IF Overrun(r) THEN table[r].start_period
           ELSE table[r].start_period + 1) = 1
      BY <2>9 DEF Overrun
    <3>3. QED
      BY <2>8, <3>1, <3>2 DEF Arrived, Reserves
  <2>11. ~table[r].non_periodic_wait /\ ~table[r].end_of_period_marked
    BY <1>3 DEF PeriodInv, NotSporadic, Active, Alive, Attached, Free
  <2>12. Live' = Live
    BY <1>3, <2>7, <2>10 DEF Live, Alive
  <2>13. LockWait'
    BY <1>1 DEF LockWait, Departing
  <2>14. \A x \in Rids \ {r} :
           /\ table'[x] = table[x] /\ task'[x] = task[x]
           /\ x \in Ready' <=> x \in Ready
           /\ x \notin Ready => dispatcher'.current[x] = dispatcher.current[x]
           /\ lock.by = "wait" /\ lock.rid = x =>
                lock'.by = "wait" /\ lock'.rid = x
    BY <1>1, <2>4, <2>5, <2>7
  <2>15. QED
    BY <2>2, <2>7, <2>10, <2>11, <2>12, <2>13, <2>14, PeriodStepMeans
<1>4. QED
  BY <1>2, <1>3

\* The enforcement timer expires when the budget of the head is used up.
LEMMA EnforcementTimerPeriods ==
  ASSUME Periodic, IInv, IInv', JobInv, PeriodInv, NEW r \in Rids,
         EnforcementTimer(r)
  PROVE  PeriodInv'
PROOF
<1> DEFINE d == [dispatcher EXCEPT !.enforcement[r] = Off]
<1>1. /\ TypeOK /\ dispatcher \in Dispatchers /\ Idle(dispatcher)
      /\ ExactExcept(dispatcher, {}) /\ UNCHANGED lock
      /\ dispatcher.enforcement[r] = 0 /\ Live \in SUBSET Rids
  BY EnterIdle
     DEF IInv, TypeOK, PeriodInv, ExactOK, EnforcementTimer, Live, Periodic,
         Uncapturing
<1>2. HeadIs(dispatcher, r)
  BY <1>1 DEF IInv, BudgetTimerSound, Current, HeadIs, Off
<1>3. /\ d \in Dispatchers /\ d.readyq = dispatcher.readyq
      /\ d.current = dispatcher.current /\ d.elapsed = dispatcher.elapsed
      /\ Idle(d) /\ d.enforcement[r] = Off
      /\ \A x \in Rids : x # r => d.enforcement[x] = dispatcher.enforcement[x]
  <2>1. Off \in Off .. MaxTicks
    BY ConstantsAssumption DEF Off
  <2>2. QED
    BY <1>1, <2>1 DEF Dispatchers, Idle
<1>4. /\ UNCHANGED <<table, task>>
      /\ \/ ~Alive(r) /\ ForceDelete(d, r)
         \/ Alive(r) /\ dispatcher' = BudgetEnforcement(d, r, TRUE)
  BY DEF EnforcementTimer, ForceDelete
<1> HIDE DEF d
<1>5. Live' = Live
  BY <1>4 DEF Live, Alive
<1>6. ExactExcept(d, {})
  BY <1>1, <1>3 DEF ExactExcept
<1>7. CASE ~Alive(r)
  <2>1. /\ ExactOK(dispatcher', Live)
        /\ dispatcher'.readyq = d.readyq /\ dispatcher'.current = d.current
    BY <1>1, <1>3, <1>4, <1>6, <1>7, ForceDeleteExact DEF Live
  <2>2. QED
    BY <1>1, <1>3, <1>4, <1>5, <2>1, StillPeriods
<1>8. CASE Alive(r)
  <2>1. dispatcher' = BudgetEnforcement(d, r, TRUE) /\ ~Captured(r)
    BY <1>4, <1>8 DEF JobInv, Uncaptured
  <2>2. BudgetEnforcement(d, r, TRUE).reschedule = <<r>>
    BY <1>3, <2>1, StopRequestMeans
  <2>3. SameExecution(d, BudgetEnforcement(d, r, TRUE))
    BY <1>1, <1>3, BudgetEnforcementType
  <2>4. /\ dispatcher'.readyq = dispatcher.readyq
        /\ dispatcher'.current = dispatcher.current
        /\ dispatcher'.elapsed = dispatcher.elapsed
        /\ dispatcher'.enforcement = d.enforcement
        /\ dispatcher'.reschedule = <<r>>
    BY <1>3, <2>1, <2>2, <2>3 DEF SameExecution
  <2>5. UsedIn(dispatcher')[r] >= Budget(r)
    <3>1. dispatcher.current[r] + dispatcher.elapsed = Budget(r)
      <4>1. dispatcher.enforcement[r] # Off
        BY <1>1 DEF Off
      <4>2. dispatcher.current[r] + dispatcher.elapsed + 0 = Budget(r)
        BY <1>1, <4>1 DEF ExactExcept
      <4>3. QED
        BY <1>1, <4>2, ChargeType
    <3>2. UsedIn(dispatcher')[r] = Capped(dispatcher.current[r] + dispatcher.elapsed)
      <4>1. dispatcher'.readyq # <<>> /\ Head(dispatcher'.readyq) = r
        BY <1>2, <2>4 DEF HeadIs
      <4>2. UsedIn(dispatcher')[r] = Capped(dispatcher'.current[r] + dispatcher'.elapsed)
        BY <4>1 DEF UsedIn
      <4>3. QED
        BY <2>4, <4>2
    <3>3. Budget(r) \in 0 .. MaxTicks
      BY <1>1, SpecType DEF Budget
    <3>4. QED
      BY <3>1, <3>2, <3>3, ConstantsAssumption DEF Capped
  <2>6. ExactExcept(dispatcher', {})
    BY <1>3, <1>6, <2>4 DEF ExactExcept
  <2>7. ExactOK(dispatcher', Live')
    BY <2>4, <2>5, <2>6 DEF ExactOK, RequestsExhausted
  <2>8. QED
    BY <1>1, <1>4, <2>4, <2>7, StillPeriods
<1>9. QED
  BY <1>7, <1>8

\* The scheduler thread stops a job, which has used up its budget.
LEMMA StopRequestedPeriods ==
  ASSUME IInv, IInv', JobInv, PeriodInv, NEW d, DispatcherOK(d), Idle(d),
         SameExecution(dispatcher, d), NEW r \in Rids,
         dispatcher.reschedule = <<r>>, r \in Live => r \in Ready,
         StopRequested(d, r), lock.by # "wait", lock'.by = "sched"
  PROVE  PeriodInv'
PROOF
<1> DEFINE e == [d EXCEPT !.request_stop = @ \ {r}]
           t == [table EXCEPT ![r].enforced = TRUE]
<1>1. /\ TypeOK /\ Uncaptured /\ Live \in SUBSET Rids
      /\ table \in [Rids -> Reserves] /\ task \in [Rids -> TaskStates]
      /\ d \in Dispatchers /\ dispatcher \in Dispatchers
      /\ dispatcher' \in Dispatchers /\ ExactOK(dispatcher, Live)
  BY DEF IInv, TypeOK, JobInv, Live, DispatcherOK, PeriodInv
<1>2. /\ e \in Dispatchers /\ SameExecution(d, e) /\ Idle(e)
  BY <1>1 DEF Dispatchers, SameExecution, Idle
<1>3. DispatcherOK(e)
  BY <1>1, <1>2, SameExecutionOK
<1>4. t \in [Rids -> Reserves] /\ \A x \in Rids \ {r} : t[x] = table[x]
  BY <1>1 DEF Reserves
<1>5. \/ /\ table[r].enforced /\ dispatcher' = e /\ UNCHANGED <<table, task>>
      \/ DeleteReserve(e, t, r)
      \/ /\ ~table[r].enforced
         /\ Alive(r) /\ dispatcher' = Stop(e, r)
         /\ table' = [t EXCEPT ![r].start_period = @ - 1]
         /\ task' = [task EXCEPT ![r] = Sleeping(@)]
  BY DEF StopRequested
<1>6. /\ t[r].pid = table[r].pid /\ t[r].spec = table[r].spec
      /\ t[r].start_period = table[r].start_period
      /\ t[r].non_periodic_wait = table[r].non_periodic_wait
      /\ t[r].end_of_period_marked = table[r].end_of_period_marked
  BY <1>1 DEF Reserves
<1> HIDE DEF e, t
<1>7. SameExecution(dispatcher, e) /\ ExactExcept(e, {}) /\ TimerSound(e)
      /\ UsedIn(e) = UsedIn(dispatcher)
  BY <1>1, <1>2, <1>3, SameExecutionUsed
     DEF SameExecution, ExactOK, ExactExcept, DispatcherOK
<1>8. LockWait'
  BY DEF LockWait, Departing
<1>9. CASE table[r].enforced /\ dispatcher' = e /\ UNCHANGED <<table, task>>
  <2>1. ExactOK(dispatcher', Live')
    <3>1. dispatcher'.reschedule = <<>> /\ dispatcher' = e
      BY <1>2, <1>9 DEF Idle
    <3>2. RequestsExhausted(dispatcher', Live')
      BY <3>1 DEF RequestsExhausted
    <3>3. QED
      BY <1>7, <3>1, <3>2 DEF ExactOK
  <2>2. r \notin Live'
    BY <1>9 DEF JobInv, EnforcedStopped, Live, Alive
  <2>3. Ready' = Ready /\ dispatcher'.current = dispatcher.current
    BY <1>7, <1>9 DEF SameExecution, Ready
  <2>4. /\ table'[r].pid = Attached /\ table'[r].enforced =>
             dispatcher'.current[r] >= Budget(r)
        /\ table'[r].pid # Free =>
             ~table'[r].non_periodic_wait /\ ~table'[r].end_of_period_marked
    BY <1>9, <2>3 DEF PeriodInv, StoppedExhausted, NotSporadic, Active
  <2>5. QED
    BY <1>8, <1>9, <2>1, <2>2, <2>3, <2>4, PeriodStepMeans
<1>10. CASE DeleteReserve(e, t, r)
  BY <1>2, <1>3, <1>4, <1>7, <1>10, DeletePeriodInv DEF SameExecution
<1>11. CASE /\ ~table[r].enforced /\ Alive(r) /\ dispatcher' = Stop(e, r)
            /\ table' = [t EXCEPT ![r].start_period = @ - 1]
            /\ task' = [task EXCEPT ![r] = Sleeping(@)]
  <2>1. Distinct(e.readyq) /\ e.readyq \in Seq(Rids) /\ r \in Live
    BY <1>1, <1>2, <1>3, <1>11, SortedDistinct
       DEF DispatcherOK, Dispatchers, TypeOK, Live
  <2>2. ExactOK(dispatcher', Live)
    BY <1>1, <1>2, <1>7, <1>11, <2>1, StopExact
  <2>3. Ready' = Ready \ {r}
    <3>1. ToSet(Dequeue(e.readyq, r)) = ToSet(e.readyq) \ {r}
      BY <2>1, DequeueProperties
    <3>2. Stop(e, r).readyq = Dequeue(e.readyq, r)
      BY <1>1, <1>2, <2>1, StopType
    <3>3. QED
      BY <1>7, <1>11, <3>1, <3>2 DEF Ready, SameExecution
  <2>4. UsedIn(dispatcher') = UsedIn(dispatcher)
    BY <1>1, <1>2, <1>7, <1>11, <2>1, StopRescheduled DEF Rescheduled
  <2>5. ASSUME NEW x \in Rids \ {r}, x \notin Ready
        PROVE  dispatcher'.current[x] = dispatcher.current[x]
    <3>1. x \notin ToSet(dispatcher'.readyq) /\ x \notin ToSet(dispatcher.readyq)
      BY <2>3, <2>5 DEF Ready
    <3>2. QED
      BY <1>1, <2>4, <3>1, SettledCharges
  <2>6. dispatcher'.current[r] >= Budget(r)
    <3>1. UsedIn(dispatcher)[r] >= Budget(r)
      BY <1>1, <2>1 DEF ExactOK, RequestsExhausted
    <3>2. dispatcher'.current[r] = UsedIn(dispatcher')[r]
      <4>1. ~ (dispatcher'.readyq # <<>> /\ Head(dispatcher'.readyq) = r)
        BY <1>1, <2>3, HeadMember DEF Ready
      <4>2. QED
        BY <1>1, <4>1, UsedMeans
    <3>3. QED
      BY <2>4, <3>1, <3>2
  <2>7. /\ \A x \in Rids \ {r} : table'[x] = table[x] /\ task'[x] = task[x]
        /\ table'[r] = [t[r] EXCEPT !.start_period = @ - 1]
        /\ task'[r] = Sleeping(task[r])
    BY <1>1, <1>4, <1>11
  <2>8. /\ table'[r].pid = table[r].pid /\ table'[r].spec = table[r].spec
        /\ table'[r].start_period = table[r].start_period - 1
        /\ table'[r].non_periodic_wait = table[r].non_periodic_wait
        /\ table'[r].end_of_period_marked = table[r].end_of_period_marked
    BY <1>4, <1>6, <2>7 DEF Reserves
  <2>9. table[r].start_period = 1 /\ task'[r] = "sleeping"
    <3>1. table[r].start_period = 1 /\ task[r] = "running"
      BY <2>1 DEF PeriodInv, PeriodCounts
    <3>2. QED
      BY <2>7, <3>1 DEF Sleeping
  <2>10. Live' = Live
    BY <1>1, <1>11, <2>7, <2>8, <2>9 DEF Live, Alive
  <2>11. ~table[r].non_periodic_wait /\ ~table[r].end_of_period_marked
    BY <1>11 DEF PeriodInv, NotSporadic, Active, Alive, Attached, Free
  <2>12. r \notin Ready' /\ table'[r].start_period = 0
    BY <2>3, <2>8, <2>9
  <2>13. \A x \in Rids \ {r} :
           /\ table'[x] = table[x] /\ task'[x] = task[x]
           /\ x \in Ready' <=> x \in Ready
           /\ x \notin Ready => dispatcher'.current[x] = dispatcher.current[x]
           /\ lock.by = "wait" /\ lock.rid = x =>
                lock'.by = "wait" /\ lock'.rid = x
    BY <2>3, <2>5, <2>7
  <2>14. QED
    BY <1>8, <2>2, <2>6, <2>8, <2>9, <2>10, <2>11, <2>12, <2>13,
       PeriodStepMeans
<1>12. QED
  BY <1>5, <1>9, <1>10, <1>11

\* A step that changes neither the reserves nor their tasks.
LEMMA StayingPeriods ==
  ASSUME IInv', JobInv, PeriodInv, ExactOK(dispatcher', Live'), LockWait',
         NEW r \in Rids, Live' = Live,
         \A x \in Rids :
           /\ table'[x] = table[x] /\ task'[x] = task[x]
           /\ x \in Ready' <=> x \in Ready
           /\ dispatcher'.current[x] = dispatcher.current[x]
           /\ lock.by = "wait" /\ lock.rid = x =>
                lock'.by = "wait" /\ lock'.rid = x
  PROVE  PeriodInv'
PROOF
<1>1. /\ table'[r].pid = Attached /\ table'[r].enforced =>
           dispatcher'.current[r] >= Budget(r)
      /\ table'[r].pid # Free =>
           ~table'[r].non_periodic_wait /\ ~table'[r].end_of_period_marked
  BY DEF PeriodInv, StoppedExhausted, NotSporadic, Active
<1>2. r \in Live' =>
        \/ /\ r \in Ready' /\ table'[r].start_period = 1
           /\ task'[r] = "running"
        \/ /\ r \notin Ready' /\ table'[r].start_period = 0
           /\ \/ task'[r] = "sleeping"
              \/ lock'.by = "wait" /\ lock'.rid = r
  BY DEF PeriodInv, PeriodCounts
<1>3. QED
  BY <1>1, <1>2, PeriodStepMeans

\* The scheduler thread
LEMMA SchedulerPopPeriods ==
  ASSUME Periodic, IInv, IInv', JobInv, PeriodInv, SchedulerPop
  PROVE  PeriodInv'
PROOF
<1> DEFINE r == Last(dispatcher.reschedule)
           d == [dispatcher EXCEPT !.reschedule = Front(@)]
<1>1. /\ \/ r \in dispatcher.request_stop /\ StopRequested(d, r)
         \/ r \notin dispatcher.request_stop /\ RestartRequested(d, r)
      /\ lock' = [Unlocked EXCEPT !.by = "sched"]
      /\ lock.by \in {"free", "sched"}
  BY DEF SchedulerPop
<1>2. /\ r \in Rids /\ DispatcherOK(d) /\ Idle(d)
      /\ SameExecution(dispatcher, d)
      /\ r \in Live => r \in dispatcher.request_stop /\ r \in Ready
  BY PopIdle DEF SchedulerPop
<1>3. lock'.by = "sched"
  BY <1>1 DEF Unlocked
<1>4. dispatcher.reschedule = <<r>>
  BY DEF SchedulerPop, JobInv, JobsOK, RequestsOK, Last
<1> HIDE DEF r, d
<1>5. CASE StopRequested(d, r)
  BY <1>1, <1>2, <1>3, <1>4, <1>5, StopRequestedPeriods
<1>6. CASE r \notin dispatcher.request_stop /\ RestartRequested(d, r)
  <2>1. DeleteReserve(d, table, r)
    BY <1>2, <1>6 DEF RestartRequested, Live
  <2>2. table \in [Rids -> Reserves]
    BY DEF IInv, TypeOK
  <2>3. d.readyq = dispatcher.readyq /\ d.current = dispatcher.current
    BY <1>2 DEF SameExecution
  <2>4. ExactExcept(d, {})
    BY <1>2 DEF SameExecution, PeriodInv, ExactOK, ExactExcept
  <2>5. QED
    BY <1>1, <1>2, <1>3, <2>1, <2>2, <2>3, <2>4, DeletePeriodInv
<1>7. QED
  BY <1>1, <1>5, <1>6

\* The scheduler thread unlocks and goes to sleep.
LEMMA SchedulerRestPeriods ==
  ASSUME IInv, IInv', JobInv, PeriodInv, SchedulerUnlock \/ SchedulerSleep
  PROVE  PeriodInv'
PROOF
<1>1. /\ dispatcher \in Dispatchers /\ ExactOK(dispatcher, Live)
      /\ MaxReserves \in Nat \ {0}
  BY MaxReservesAssumption DEF IInv, TypeOK, PeriodInv
<1>2. PICK s \in {"leaving", "asleep"} :
        dispatcher' = [dispatcher EXCEPT !.sched_task = s]
  BY DEF SchedulerUnlock, SchedulerSleep
<1>3. /\ lock' = lock \/ (lock' = Unlocked /\ lock.by \in {"free", "sched"})
      /\ UNCHANGED <<table, task>>
  BY DEF SchedulerUnlock, SchedulerSleep
<1>4. /\ SameExecution(dispatcher, dispatcher')
      /\ dispatcher'.reschedule = dispatcher.reschedule
  BY <1>1, <1>2 DEF Dispatchers, SameExecution
<1>5. Live' = Live
  BY <1>3 DEF Live, Alive
<1>6. ExactOK(dispatcher', Live')
  BY <1>1, <1>4, <1>5, SameExecutionUsed
     DEF ExactOK, ExactExcept, RequestsExhausted, SameExecution
<1>7. LockWait'
  BY <1>3, <1>4 DEF PeriodInv, LockWait, Unlocked, Departing, Ready,
                    SameExecution
<1>8. 0 \in Rids
  BY <1>1 DEF Rids
<1>9. \A x \in Rids :
        /\ table'[x] = table[x] /\ task'[x] = task[x]
        /\ x \in Ready' <=> x \in Ready
        /\ dispatcher'.current[x] = dispatcher.current[x]
        /\ lock.by = "wait" /\ lock.rid = x =>
             lock'.by = "wait" /\ lock'.rid = x
  BY <1>3, <1>4 DEF Ready, SameExecution
<1>10. QED
  BY <1>5, <1>6, <1>7, <1>8, <1>9, StayingPeriods

\* A departure ends.
LEMMA ContinuePeriods ==
  ASSUME IInv, IInv', JobInv, PeriodInv, Continue
  PROVE  PeriodInv'
PROOF
<1>1. ~ReleaseBlocked /\ ~ZeroSlackScan
  BY DEF ReleaseBlocked, MoreBlocked, ZeroSlackScan, JobInv, Uncritical
<1>2. /\ FinishDeparture /\ lock.rid \in Live /\ lock.by = "wait"
      /\ lock.rid \notin Ready
  BY <1>1 DEF Continue, FinishDeparture, JobInv, Caller, PeriodInv, LockWait
<1>3. lock.rid \in Rids /\ table \in [Rids -> Reserves]
      /\ task \in [Rids -> TaskStates]
  BY <1>2 DEF Live, IInv, TypeOK
<1> DEFINE r == lock.rid
<1>4. /\ UNCHANGED <<dispatcher, critVars>> /\ lock' = Unlocked
      /\ task' = [task EXCEPT ![r] = "sleeping"]
      /\ table' = [table EXCEPT ![r].num_period_wakeups = Dec(@)]
  BY <1>2 DEF FinishDeparture, Asleep
<1> HIDE DEF r
<1>5. /\ \A x \in Rids \ {r} : table'[x] = table[x] /\ task'[x] = task[x]
      /\ table'[r] = [table[r] EXCEPT !.num_period_wakeups = Dec(@)]
      /\ task'[r] = "sleeping" /\ r \in Rids /\ r \in Live /\ r \notin Ready
  BY <1>2, <1>3, <1>4 DEF r
<1>6. /\ table'[r].pid = table[r].pid /\ table'[r].spec = table[r].spec
      /\ table'[r].enforced = table[r].enforced
      /\ table'[r].start_period = table[r].start_period
      /\ table'[r].non_periodic_wait = table[r].non_periodic_wait
      /\ table'[r].end_of_period_marked = table[r].end_of_period_marked
  BY <1>3, <1>5 DEF Reserves
<1>7. Live' = Live
  BY <1>5, <1>6 DEF Live, Alive
<1>8. ExactOK(dispatcher', Live')
  BY <1>4, <1>7 DEF PeriodInv
<1>9. LockWait'
  BY <1>4 DEF LockWait, Unlocked, Departing
<1>10. table[r].start_period = 0
       /\ ~table[r].non_periodic_wait /\ ~table[r].end_of_period_marked
  <2>1. table[r].start_period = 0
    BY <1>5 DEF PeriodInv, PeriodCounts
  <2>2. Active(r)
    BY <1>5 DEF Live, Alive, Active, Attached, Free
  <2>3. QED
    BY <1>5, <2>1, <2>2 DEF PeriodInv, NotSporadic
<1>11. ~table[r].enforced \/ dispatcher.current[r] >= Budget(r)
  BY <1>5 DEF PeriodInv, StoppedExhausted, Live, Alive
<1>12. r \notin Ready' /\ dispatcher' = dispatcher /\ Ready' = Ready
  BY <1>4, <1>5 DEF Ready
<1>13. \A x \in Rids \ {r} : ~ (lock.by = "wait" /\ lock.rid = x)
  BY DEF r
<1>14. QED
  BY <1>5, <1>6, <1>8, <1>9, <1>10, <1>11, <1>12, <1>13, PeriodStepMeans

\* A tick takes from the armed timer what it adds to the charge of the head.
LEMMA TickPeriods ==
  ASSUME IInv, IInv', JobInv, PeriodInv, Tick
  PROVE  PeriodInv'
PROOF
<1>1. /\ dispatcher \in Dispatchers /\ ExactExcept(dispatcher, {})
      /\ dispatcher.reschedule = <<>> /\ TypeOK
      /\ MaxReserves \in Nat \ {0}
  BY MaxReservesAssumption
     DEF IInv, TypeOK, JobInv, JobsOK, RequestsOK, PeriodInv, ExactOK, Tick
<1>2. /\ UNCHANGED <<table, task, lock>>
      /\ \A r \in Rids : dispatcher.enforcement[r] # 0
      /\ dispatcher' = [dispatcher EXCEPT
           !.elapsed = Capped(@ + 1),
           !.enforcement = [r \in Rids |-> IF @[r] = Off THEN Off ELSE @[r] - 1]]
  BY DEF Tick
<1>3. /\ dispatcher'.readyq = dispatcher.readyq
      /\ dispatcher'.current = dispatcher.current
      /\ dispatcher'.reschedule = <<>>
      /\ dispatcher'.elapsed = Capped(dispatcher.elapsed + 1)
      /\ \A r \in Rids : dispatcher'.enforcement[r] =
           IF dispatcher.enforcement[r] = Off THEN Off
           ELSE dispatcher.enforcement[r] - 1
  BY <1>1, <1>2 DEF Dispatchers
<1>4. ASSUME NEW x \in Rids, dispatcher'.enforcement[x] # Off
      PROVE  dispatcher'.current[x] + dispatcher'.elapsed
               + dispatcher'.enforcement[x] = Budget(x)
  <2>1. /\ dispatcher.enforcement[x] # Off
        /\ dispatcher'.enforcement[x] = dispatcher.enforcement[x] - 1
    BY <1>3, <1>4
  <2>2. dispatcher.current[x] + dispatcher.elapsed + dispatcher.enforcement[x]
          = Budget(x)
    BY <1>1, <2>1 DEF ExactExcept
  <2>3. /\ dispatcher.current[x] \in 0 .. MaxTicks
        /\ dispatcher.elapsed \in 0 .. MaxTicks
        /\ dispatcher.enforcement[x] \in 1 .. MaxTicks
        /\ MaxTicks \in Nat
    <3>1. dispatcher.enforcement[x] \in Off .. MaxTicks
      BY <1>1 DEF Dispatchers
    <3>2. dispatcher.enforcement[x] \in 1 .. MaxTicks
      BY <1>2, <2>1, <3>1, ConstantsAssumption DEF Off
    <3>3. QED
      BY <1>1, <3>2, ConstantsAssumption DEF Dispatchers
  <2>4. Budget(x) \in 0 .. MaxTicks
    BY <1>1, SpecType DEF Budget
  <2>5. Capped(dispatcher.elapsed + 1) = dispatcher.elapsed + 1
    BY <2>2, <2>3, <2>4 DEF Capped
  <2>6. QED
    BY <1>3, <2>1, <2>2, <2>3, <2>4, <2>5
<1>5. ExactOK(dispatcher', Live')
  BY <1>3, <1>4 DEF ExactOK, ExactExcept, RequestsExhausted
<1>6. Live' = Live /\ 0 \in Rids /\ Ready' = Ready
  BY <1>1, <1>2, <1>3 DEF Live, Alive, Rids, Ready
<1>7. LockWait'
  BY <1>2, <1>6 DEF PeriodInv, LockWait
<1>8. QED
  BY <1>2, <1>3, <1>5, <1>6, <1>7, StayingPeriods

\* Every step keeps the periods.
LEMMA PeriodStep ==
  ASSUME Periodic, IInv, IInv', JobInv, PeriodInv, [Next]_vars
  PROVE  PeriodInv'
PROOF
<1>1. CASE \E spec \in Specs, admitted \in BOOLEAN :
             CreateReserve(spec, admitted)
  BY <1>1, CreateReservePeriods
<1>2. ASSUME NEW r \in Rids, SystemCall(r) \/ Die(r)
      PROVE  PeriodInv'
  BY <1>2, SystemCallPeriods, DiePeriods
<1>3. ASSUME NEW r \in Rids, EnforcementSignal(r)
      PROVE  FALSE
  BY <1>3 DEF EnforcementSignal, JobInv, JobsOK, Plain
<1>4. ASSUME NEW r \in Rids, Timer(r)
      PROVE  PeriodInv'
  <2>1. ~ZeroSlackTimer(r)
    BY DEF ZeroSlackTimer, JobInv, JobsOK, Plain
  <2>2. QED
    BY <1>4, <2>1, PeriodTimerPeriods, EnforcementTimerPeriods DEF Timer
<1>5. CASE SchedulerTask
  BY <1>5, SchedulerPopPeriods, SchedulerRestPeriods DEF SchedulerTask
<1>6. CASE Continue
  BY <1>6, ContinuePeriods
<1>7. CASE Tick
  BY <1>7, TickPeriods
<1>8. CASE UNCHANGED vars
  <2>1. UNCHANGED <<table, task, dispatcher, lock>>
    BY <1>8 DEF vars
  <2>2. Live' = Live /\ Ready' = Ready /\ 0 \in Rids
    BY <2>1, MaxReservesAssumption DEF Live, Alive, Ready, Rids
  <2>3. ExactOK(dispatcher', Live') /\ LockWait'
    BY <2>1, <2>2 DEF PeriodInv, LockWait
  <2>4. QED
    BY <2>1, <2>2, <2>3, StayingPeriods
<1>9. QED
  BY <1>1, <1>2, <1>3, <1>4, <1>5, <1>6, <1>7, <1>8 DEF Next

\* No period has begun at first.
LEMMA PeriodInit ==
  ASSUME Init
  PROVE  PeriodInv
PROOF
<1>1. Live = {} /\ PeriodCounts /\ StoppedExhausted /\ NotSporadic
  BY DEF Init, Live, Alive, PeriodCounts, StoppedExhausted, NotSporadic, Active,
         Free, Attached
<1>2. ExactOK(dispatcher, Live)
  BY <1>1 DEF Init, ExactOK, ExactExcept, RequestsExhausted
<1>3. LockWait
  BY DEF Init, LockWait, Unlocked, Departing
<1>4. QED
  BY <1>1, <1>2, <1>3 DEF PeriodInv

\* The invariant of periodic tasks holds in every reachable state.
THEOREM PeriodInvariance ==
  ASSUME Periodic
  PROVE  Spec => [](IInv /\ JobInv /\ PeriodInv)
PROOF
<1>1. Init => PeriodInv
  BY PeriodInit
<1>2. IInv /\ IInv' /\ JobInv /\ PeriodInv /\ [Next]_vars => PeriodInv'
  BY PeriodStep
<1>3. Uncapturing
  BY DEF Periodic
<1>4. Spec => [](IInv /\ JobInv)
  BY <1>3, JobInvariance
<1>5. QED
  BY <1>1, <1>2, <1>4, PTL DEF Spec

\* While a job is scheduled start_period is 1: start_of_period, the pops of
\* scheduler_task and wait_for_next_period count it up and down once each.
THEOREM StartPeriodStaysOne ==
  ASSUME Periodic
  PROVE  Spec => []StartPeriodCounts
PROOF
<1>1. IInv /\ PeriodInv => StartPeriodCounts
  <2>1. ASSUME IInv
        PROVE  Ready \subseteq Rids
    BY <2>1 DEF IInv, TypeOK, Dispatchers, Ready, ToSet
  <2>2. QED
    BY <2>1 DEF PeriodInv, PeriodCounts, StartPeriodCounts, Live
<1>2. QED
  BY <1>1, PeriodInvariance, PTL

\* A task that runs is scheduled by its reserve, so that its execution is
\* charged: only start_reserve wakes it, and who stops it makes it sleep.
THEOREM RunningStaysReady ==
  ASSUME Periodic
  PROVE  Spec => []RunningReady
PROOF
<1>1. PeriodInv => RunningReady
  BY DEF PeriodInv, PeriodCounts, RunningReady, Settled, Live
<1>2. QED
  BY <1>1, PeriodInvariance, PTL

\* The task of a scheduled reserve is awake: wait_for_next_period does not
\* put a task to sleep after the arrival that was to wake it.
THEOREM ReadyStaysAwake ==
  ASSUME Periodic
  PROVE  Spec => []ReadyAwake
PROOF
<1>1. IInv /\ PeriodInv => ReadyAwake
  <2>1. ASSUME IInv, PeriodInv, NEW r \in Ready
        PROVE  task[r] \notin {"sleeping", "masked"}
    <3>1. r \in Rids /\ table[r].pid = Attached
      BY <2>1 DEF IInv, TypeOK, Dispatchers, ReadyAttached, Ready, ToSet
    <3>2. CASE r \in Live
      BY <2>1, <3>2 DEF PeriodInv, PeriodCounts
    <3>3. CASE r \notin Live
      BY <3>1, <3>3 DEF Live, Alive
    <3>4. QED
      BY <3>2, <3>3
  <2>2. QED
    BY <2>1 DEF ReadyAwake
<1>2. QED
  BY <1>1, PeriodInvariance, PTL

\* Who enforcement has stopped has used up its budget, through any sequence of
\* preemptions, resumptions, deletions and exits: the timer of the head is due
\* exactly when its charge is the budget.  That no arrival comes between the
\* push of a request and its pop is the hypothesis SchedFirst, and without it
\* the pop stops the next job with its budget unused.
THEOREM EnforcedStayExhausted ==
  ASSUME Periodic
  PROVE  Spec => []EnforcedExhausted
PROOF
<1>1. PeriodInv => EnforcedExhausted
  BY DEF PeriodInv, StoppedExhausted, EnforcedExhausted, Budget
<1>2. QED
  BY <1>1, PeriodInvariance, PTL

-----------------------------------------------------------------------------
(***************************************************************************)
(* Sporadic tasks: every job ends with end_of_period, and the next one     *)
(* starts from wait_for_next_release.                                      *)
(***************************************************************************)

\* No task calls wait_for_next_period.  One that did so between end_of_period
\* and wait_for_next_release would clear non_periodic_wait, so that the next
\* arrival starts the ended job; its wait_for_next_release would then leave a
\* num_wait_release behind, with which a later arrival starts an ended job.
Sporadic == RateMonotonic /\ "wait" \notin Calls

\* A job that has ended is not ready and its task has yet to wait for the
\* release; the task that waits for it does not run.
EndedWaits(r) ==
  /\ table[r].end_of_period_marked =>
       /\ table[r].non_periodic_wait /\ ~table[r].num_wait_release
       /\ r \notin Ready
  /\ table[r].num_wait_release =>
       table[r].non_periodic_wait /\ task[r] # "running"
  /\ table[r].pid = Created =>
       ~table[r].end_of_period_marked /\ ~table[r].num_wait_release

EndedInv == \A r \in Rids : EndedWaits(r)

\* t and u agree on what EndedWaits says of a reserve.
SameEnd(t, u) ==
  /\ u.pid = t.pid
  /\ u.end_of_period_marked = t.end_of_period_marked
  /\ u.non_periodic_wait = t.non_periodic_wait
  /\ u.num_wait_release = t.num_wait_release

\* A step that starts no task, and no job but one of r, has to show what it
\* makes of r.
LEMMA EndedStepMeans ==
  ASSUME EndedInv, NEW r \in Rids,
         \A x \in Rids \ {r} : /\ SameEnd(table[x], table'[x])
                               /\ task'[x] = "running" => task[x] = "running"
                               /\ x \in Ready' => x \in Ready,
         EndedWaits(r)'
  PROVE  EndedInv'
PROOF
BY DEF EndedInv, EndedWaits, SameEnd

\* A step that starts nothing.
LEMMA QuietEnded ==
  ASSUME EndedInv,
         \A x \in Rids : /\ SameEnd(table[x], table'[x])
                         /\ task'[x] = "running" => task[x] = "running"
                         /\ x \in Ready' => x \in Ready
  PROVE  EndedInv'
PROOF
BY DEF EndedInv, EndedWaits, SameEnd

\* The deletion of a reserve.
LEMMA DeleteEnded ==
  ASSUME IInv, EndedInv, NEW d, DispatcherOK(d), d.readyq = dispatcher.readyq,
         NEW r \in Rids, NEW t \in [Rids -> Reserves],
         \A x \in Rids \ {r} : t[x] = table[x],
         SameEnd(table[r], t[r]), DeleteReserve(d, t, r)
  PROVE  EndedInv'
PROOF
<1>1. /\ TypeOK /\ d \in Dispatchers /\ Distinct(d.readyq)
      /\ d.readyq \in Seq(Rids) /\ task \in [Rids -> TaskStates]
  BY SortedDistinct DEF IInv, TypeOK, DispatcherOK, Dispatchers
<1>2. PICK e \in Removals(d, r) :
        dispatcher' = [CancelTimers(e, r) EXCEPT !.signals[r] = <<>>]
  BY DEF DeleteReserve
<1>3. /\ e \in Dispatchers /\ e.readyq = Dequeue(d.readyq, r)
      /\ ToSet(Dequeue(d.readyq, r)) = ToSet(d.readyq) \ {r}
  BY <1>1, <1>2, RemovalsType, DequeueProperties
<1>4. CancelTimers(e, r) \in Dispatchers /\ CancelTimers(e, r).readyq = e.readyq
  BY <1>3, CancelTimersType
<1>5. dispatcher'.readyq = e.readyq
  BY <1>2, <1>4 DEF Dispatchers
<1>6. Ready' = Ready \ {r}
  BY <1>3, <1>5 DEF Ready
<1>7. /\ table' = [t EXCEPT ![r].pid = Free]
      /\ task' = [task EXCEPT ![r] = "none"]
  BY DEF DeleteReserve
<1>8. /\ \A x \in Rids \ {r} : table'[x] = table[x] /\ task'[x] = task[x]
      /\ table'[r] = [t[r] EXCEPT !.pid = Free] /\ task'[r] = "none"
  BY <1>1, <1>7
<1>9. /\ table'[r].pid = Free
      /\ table'[r].end_of_period_marked = table[r].end_of_period_marked
      /\ table'[r].non_periodic_wait = table[r].non_periodic_wait
      /\ table'[r].num_wait_release = table[r].num_wait_release
  BY <1>8 DEF Reserves, SameEnd
<1>10. EndedWaits(r)'
  BY <1>6, <1>8, <1>9 DEF EndedInv, EndedWaits, Free, Created
<1>11. QED
  BY <1>6, <1>8, <1>10, EndedStepMeans DEF SameEnd

\* CREATE_RSV
LEMMA CreateReserveEnded ==
  ASSUME IInv, EndedInv, NEW spec \in Specs, NEW admitted \in BOOLEAN,
         CreateReserve(spec, admitted)
  PROVE  EndedInv'
PROOF
<1>1. PICK r \in Rids :
        table' = [table EXCEPT
          ![r] = NewReserve(r, spec, IF admitted THEN Created ELSE Free)]
  BY DEF CreateReserve
<1>2. UNCHANGED <<task, dispatcher>> /\ Ready' = Ready
  BY DEF CreateReserve, Ready
<1> DEFINE n == NewReserve(r, spec, IF admitted THEN Created ELSE Free)
<1>3. ~n.end_of_period_marked /\ ~n.num_wait_release
  <2>1. table[r] \in Reserves
    BY DEF IInv, TypeOK
  <2>2. QED
    BY <2>1 DEF NewReserve, Reserves
<1> HIDE DEF n
<1>4. table'[r] = n /\ \A x \in Rids \ {r} : table'[x] = table[x]
  BY <1>1 DEF n, IInv, TypeOK
<1>5. EndedWaits(r)'
  BY <1>3, <1>4 DEF EndedWaits
<1>6. QED
  BY <1>2, <1>4, <1>5, EndedStepMeans DEF SameEnd

\* ATTACH_RSV
LEMMA AttachReserveEnded ==
  ASSUME RateMonotonic, IInv, IInv', JobInv, EndedInv, NEW r \in Rids,
         AttachReserve(r)
  PROVE  EndedInv'
PROOF
<1>1. /\ Ready' = Ready \cup {r}
      /\ \A x \in Rids \ {r} : table'[x] = table[x] /\ task'[x] = task[x]
      /\ table'[r] = [table[r] EXCEPT
           !.pid = Attached, !.start_period = 1, !.enforced = FALSE,
           !.in_critical_mode = FALSE]
  BY AttachMeans
<1>2. ~table[r].end_of_period_marked /\ ~table[r].num_wait_release
  BY DEF AttachReserve, EndedInv, EndedWaits
<1>3. /\ table'[r].pid = Attached
      /\ ~table'[r].end_of_period_marked /\ ~table'[r].num_wait_release
  <2>1. table[r] \in Reserves
    BY DEF IInv, TypeOK
  <2>2. QED
    BY <1>1, <1>2, <2>1 DEF Reserves
<1>4. EndedWaits(r)'
  BY <1>3 DEF EndedWaits, Attached, Created
<1>5. QED
  BY <1>1, <1>4, EndedStepMeans DEF SameEnd

\* The departure of a job: end_of_period marks it, and it leaves the ready
\* queue.
LEMMA DepartEnded ==
  ASSUME RateMonotonic, IInv, JobInv, EndedInv, Enter, NEW r \in Rids,
         Alive(r), task[r] = "running", NEW call \in {"wait", "end"},
         call = "end" \/ ~table[r].end_of_period_marked,
         Depart(dispatcher, r, call)
  PROVE  EndedInv'
PROOF
<1>1. /\ Ready' = Ready \ {r}
      /\ \A x \in Rids \ {r} : table'[x] = table[x] /\ task'[x] = task[x]
      /\ table'[r] = Departed(r, call) /\ table'[r].pid = table[r].pid
  BY DepartMeans
<1>2. /\ table'[r].non_periodic_wait = (call = "end")
      /\ table'[r].end_of_period_marked =
           (table[r].end_of_period_marked \/ call = "end")
      /\ table'[r].num_wait_release = table[r].num_wait_release
  <2>1. table[r] \in Reserves
    BY DEF IInv, TypeOK
  <2>2. QED
    BY <1>1, <2>1 DEF Departed, Reserves
<1>3. ~table[r].num_wait_release /\ table[r].pid # Created
  BY DEF EndedInv, EndedWaits, Alive, Attached, Created
<1>4. EndedWaits(r)'
  BY <1>1, <1>2, <1>3 DEF EndedWaits
<1>5. QED
  BY <1>1, <1>4, EndedStepMeans DEF SameEnd

\* wait_for_next_release after end_of_period: the task waits for an arrival,
\* or the next job starts at once.
LEMMA WaitReleaseEnded ==
  ASSUME RateMonotonic, IInv, JobInv, EndedInv, Enter, NEW r \in Rids,
         Alive(r), task[r] = "running", WaitForNextRelease(dispatcher, r, "wait")
  PROVE  EndedInv'
PROOF
<1>1. CASE ~table[r].end_of_period_marked /\ Depart(dispatcher, r, "wait")
  BY <1>1, DepartEnded
<1>2. CASE ~ (~table[r].end_of_period_marked /\ Depart(dispatcher, r, "wait"))
  <2> DEFINE blocks == table[r].num_period_wakeups = 0
  <2>1. /\ table[r].end_of_period_marked
        /\ task' = [task EXCEPT ![r] = IF blocks THEN "sleeping" ELSE "running"]
        /\ dispatcher' = IF blocks THEN dispatcher
                         ELSE Start(dispatcher, priority, r)
        /\ table' = [table EXCEPT
             ![r].num_wait_release = @ \/ blocks,
             ![r].end_of_period_marked = FALSE,
             ![r].num_period_wakeups = Dec(@)]
    BY <1>2 DEF WaitForNextRelease, Asleep
  <2> HIDE DEF blocks
  <2>2. /\ TypeOK /\ dispatcher \in Dispatchers /\ priority \in [Rids -> Int]
        /\ table \in [Rids -> Reserves] /\ task \in [Rids -> TaskStates]
    BY DEF IInv, TypeOK
  <2>3. Ready' \subseteq Ready \cup {r}
    <3>1. ToSet(Start(dispatcher, priority, r).readyq)
            = ToSet(dispatcher.readyq) \cup {r}
      BY <2>2, StartType
    <3>2. QED
      BY <2>1, <3>1 DEF Ready
  <2>4. /\ \A x \in Rids \ {r} : table'[x] = table[x] /\ task'[x] = task[x]
        /\ task'[r] = IF blocks THEN "sleeping" ELSE "running"
        /\ table'[r] = [table[r] EXCEPT
             !.num_wait_release = @ \/ blocks,
             !.end_of_period_marked = FALSE,
             !.num_period_wakeups = Dec(@)]
    BY <2>1, <2>2
  <2>5. /\ table'[r].pid = table[r].pid
        /\ table'[r].end_of_period_marked = FALSE
        /\ table'[r].non_periodic_wait = table[r].non_periodic_wait
        /\ table'[r].num_wait_release = (table[r].num_wait_release \/ blocks)
    <3>1. table[r] \in Reserves
      BY <2>2
    <3>2. QED
      BY <2>4, <3>1 DEF Reserves
  <2>6. /\ table[r].non_periodic_wait /\ ~table[r].num_wait_release
        /\ table[r].pid # Created
    BY <2>1 DEF EndedInv, EndedWaits, Alive, Attached, Created
  <2>7. EndedWaits(r)'
    <3>1. CASE blocks
      BY <2>4, <2>5, <2>6, <3>1 DEF EndedWaits
    <3>2. CASE ~blocks
      BY <2>5, <2>6, <3>2 DEF EndedWaits
    <3>3. QED
      BY <3>1, <3>2
  <2>8. QED
    BY <2>3, <2>4, <2>7, EndedStepMeans DEF SameEnd
<1>3. QED
  BY <1>1, <1>2

\* Nothing changes.
LEMMA StutterEnded ==
  ASSUME EndedInv, UNCHANGED vars
  PROVE  EndedInv'
PROOF
<1>1. UNCHANGED <<table, task>> /\ Ready' = Ready
  BY DEF vars, Ready
<1>2. QED
  BY <1>1 DEF EndedInv, EndedWaits

\* The system calls of a sporadic task.
LEMMA SystemCallEnded ==
  ASSUME Sporadic, IInv, IInv', JobInv, EndedInv, Restrained',
         NEW r \in Rids, SystemCall(r)
  PROVE  EndedInv'
PROOF
<1>1. RateMonotonic /\ ~WaitPeriod(r)
  BY DEF Sporadic, WaitPeriod
<1>2. CASE AttachReserve(r)
  BY <1>1, <1>2, AttachReserveEnded
<1>3. CASE Delete(r)
  <2>1. DispatcherOK(dispatcher) /\ DeleteReserve(dispatcher, table, r)
        /\ table \in [Rids -> Reserves]
    BY <1>3, DispatcherInvariant DEF Delete, IInv, TypeOK
  <2>2. SameEnd(table[r], table[r])
    BY DEF SameEnd
  <2>3. QED
    BY <2>1, <2>2, DeleteEnded
<1>4. CASE EndPeriod(r)
  BY <1>1, <1>4, DepartEnded DEF EndPeriod
<1>5. CASE WaitRelease(r)
  BY <1>1, <1>5, WaitReleaseEnded DEF WaitRelease
<1>6. CASE \E captured \in BOOLEAN : CaptureEnforcementSignal(r, captured)
  <2>1. UNCHANGED vars
    BY <1>6, CaptureRestrained DEF IInv, JobInv
  <2>2. QED
    BY <2>1, StutterEnded
<1>7. QED
  BY <1>1, <1>2, <1>3, <1>4, <1>5, <1>6 DEF SystemCall

\* An arrival starts no job that has ended, and takes the mark of a task that
\* waits for its release.
LEMMA StartOfPeriodEnded ==
  ASSUME RateMonotonic, IInv, JobInv, EndedInv, Enter, NEW r \in Rids,
         Alive(r), StartOfPeriod(r)
  PROVE  EndedInv'
PROOF
<1>1. /\ TypeOK /\ table \in [Rids -> Reserves] /\ task \in [Rids -> TaskStates]
      /\ dispatcher \in Dispatchers /\ priority \in [Rids -> Int]
  BY DEF IInv, TypeOK
<1>2. PICK b, s, f \in Dispatchers :
        /\ DispatcherOK(b) /\ Idle(b) /\ SameCharges(dispatcher, b)
        /\ \A x \in Rids : x # r =>
             b.enforcement[x] = dispatcher.enforcement[x]
        /\ b.enforcement[r] \in {Off, dispatcher.enforcement[r]}
        /\ s = IF Overrun(r) THEN Stop(b, r) ELSE dispatcher
        /\ DispatcherOK(s) /\ JobsOK(s, Live)
        /\ f = [s EXCEPT !.current[r] = 0]
        /\ DispatcherOK(f) /\ JobsOK(f, Live) /\ f.sched_task # "leaving"
        /\ \/ f.reschedule = <<>>
           \/ HeadIs(Start(f, priority, r), r) /\ f.current[r] < Budget(r)
        /\ dispatcher' = IF Wakes(r) THEN Start(f, priority, r) ELSE f
  BY ArrivalMeans
<1>3. ToSet(s.readyq) \subseteq Ready
  <2>1. b.readyq = dispatcher.readyq /\ Distinct(b.readyq)
        /\ b.readyq \in Seq(Rids)
    BY <1>1, <1>2, SortedDistinct
       DEF SameCharges, DispatcherOK, Dispatchers, TypeOK
  <2>2. ToSet(Dequeue(b.readyq, r)) = ToSet(b.readyq) \ {r}
    BY <2>1, DequeueProperties
  <2>3. Stop(b, r).readyq = Dequeue(b.readyq, r)
    BY <1>1, <2>1, StopType
  <2>4. QED
    BY <1>2, <2>1, <2>2, <2>3 DEF Ready
<1>4. f \in Dispatchers /\ f.readyq = s.readyq
  BY <1>2 DEF Dispatchers
<1>5. ToSet(Start(f, priority, r).readyq) = ToSet(f.readyq) \cup {r}
  BY <1>1, <1>4, StartType
<1>6. /\ Ready' \subseteq Ready \cup {r}
      /\ ~Wakes(r) => Ready' \subseteq Ready
  BY <1>2, <1>3, <1>4, <1>5 DEF Ready
<1>7. ~Suspended(r)
  BY <1>1, CriticalityType DEF Suspended, JobInv, Uncritical
<1>8. /\ table' = [table EXCEPT ![r] = Arrived(r)]
      /\ task' = IF Wakes(r) THEN [task EXCEPT ![r] = "running"] ELSE task
  BY <1>7 DEF StartOfPeriod
<1>9. /\ \A x \in Rids \ {r} : table'[x] = table[x] /\ task'[x] = task[x]
      /\ table'[r] = Arrived(r)
      /\ ~Wakes(r) => task'[r] = task[r]
  BY <1>1, <1>8
<1>10. /\ table'[r].pid = table[r].pid
       /\ table'[r].end_of_period_marked = table[r].end_of_period_marked
       /\ table'[r].non_periodic_wait = table[r].non_periodic_wait
       /\ table'[r].num_wait_release =
            (table[r].num_wait_release /\ ~table[r].non_periodic_wait)
  <2>1. table[r] \in Reserves
    BY <1>1
  <2>2. QED
    BY <1>7, <1>9, <2>1 DEF Arrived, Reserves
<1>11. /\ EndedWaits(r)
       /\ table[r].end_of_period_marked => ~Wakes(r)
  BY DEF EndedInv, EndedWaits, Wakes
<1>12. EndedWaits(r)'
  <2>1. ~table'[r].num_wait_release
    BY <1>10, <1>11 DEF EndedWaits
  <2>2. table'[r].end_of_period_marked =>
          table'[r].non_periodic_wait /\ r \notin Ready'
    BY <1>6, <1>10, <1>11 DEF EndedWaits
  <2>3. table'[r].pid = Created => ~table'[r].end_of_period_marked
    BY <1>10, <1>11 DEF EndedWaits
  <2>4. QED
    BY <2>1, <2>2, <2>3 DEF EndedWaits
<1>13. QED
  BY <1>6, <1>9, <1>12, EndedStepMeans DEF SameEnd

\* The timers that expire.
LEMMA TimerEnded ==
  ASSUME RateMonotonic, IInv, JobInv, EndedInv, NEW r \in Rids, Timer(r)
  PROVE  EndedInv'
PROOF
<1>1. ~ZeroSlackTimer(r)
  BY DEF ZeroSlackTimer, JobInv, JobsOK, Plain
<1>2. TypeOK /\ dispatcher \in Dispatchers
  BY DEF IInv, TypeOK
<1>3. ASSUME NEW d \in Dispatchers, d.readyq = dispatcher.readyq,
             ForceDelete(d, r)
      PROVE  EndedInv'
  <2> DEFINE e == [d EXCEPT !.request_stop = @ \ {r}]
             p == PushToReschedule(e, r)
  <2>1. e.readyq = d.readyq
    BY DEF Dispatchers
  <2>2. p.readyq = e.readyq
    BY DEF PushToReschedule, Dispatchers
  <2>3. dispatcher' = WakeScheduler(p) /\ UNCHANGED <<table, task>>
    BY <1>3 DEF ForceDelete
  <2> HIDE DEF p
  <2>4. WakeScheduler(p).readyq = p.readyq
    BY DEF WakeScheduler
  <2>5. Ready' = Ready
    BY <1>3, <2>1, <2>2, <2>3, <2>4 DEF Ready
  <2>6. QED
    BY <2>3, <2>5, QuietEnded DEF SameEnd
<1>4. CASE PeriodTimer(r)
  <2>1. CASE Alive(r)
    BY <1>4, <2>1, StartOfPeriodEnded DEF PeriodTimer
  <2>2. CASE ~Alive(r)
    BY <1>2, <1>3, <1>4, <2>2 DEF PeriodTimer
  <2>3. QED
    BY <2>1, <2>2
<1>5. CASE EnforcementTimer(r)
  <2> DEFINE d == [dispatcher EXCEPT !.enforcement[r] = Off]
  <2>1. d \in Dispatchers /\ d.readyq = dispatcher.readyq
    <3>1. Off \in Off .. MaxTicks
      BY ConstantsAssumption DEF Off
    <3>2. QED
      BY <1>2, <3>1 DEF Dispatchers
  <2>2. \/ ForceDelete(d, r)
        \/ /\ dispatcher' = BudgetEnforcement(d, r, TRUE)
           /\ UNCHANGED <<table, task>>
    BY <1>5 DEF EnforcementTimer
  <2> HIDE DEF d
  <2>3. SameExecution(d, BudgetEnforcement(d, r, TRUE))
    BY <1>2, <2>1, BudgetEnforcementType
  <2>4. CASE /\ dispatcher' = BudgetEnforcement(d, r, TRUE)
             /\ UNCHANGED <<table, task>>
    <3>1. Ready' = Ready
      BY <2>1, <2>3, <2>4 DEF SameExecution, Ready
    <3>2. QED
      BY <2>4, <3>1, QuietEnded DEF SameEnd
  <2>5. QED
    BY <1>3, <2>1, <2>2, <2>4
<1>6. QED
  BY <1>1, <1>4, <1>5 DEF Timer

\* The scheduler thread stops jobs and deletes reserves; it starts none.
LEMMA SchedulerPopEnded ==
  ASSUME IInv, JobInv, EndedInv, SchedulerPop
  PROVE  EndedInv'
PROOF
<1> DEFINE r == Last(dispatcher.reschedule)
           d == [dispatcher EXCEPT !.reschedule = Front(@)]
           e == [d EXCEPT !.request_stop = @ \ {r}]
           t == [table EXCEPT ![r].enforced = TRUE]
<1>1. \/ StopRequested(d, r)
      \/ r \notin dispatcher.request_stop /\ RestartRequested(d, r)
  BY DEF SchedulerPop
<1>2. /\ r \in Rids /\ DispatcherOK(d) /\ SameExecution(dispatcher, d)
      /\ r \in Live => r \in dispatcher.request_stop /\ r \in Ready
  BY PopIdle DEF SchedulerPop
<1> HIDE DEF r, d
<1>3. /\ TypeOK /\ table \in [Rids -> Reserves] /\ task \in [Rids -> TaskStates]
      /\ d.readyq = dispatcher.readyq /\ d \in Dispatchers
  BY <1>2 DEF IInv, TypeOK, SameExecution, DispatcherOK
<1>4. e \in Dispatchers /\ SameExecution(d, e) /\ e.readyq = dispatcher.readyq
  BY <1>3 DEF Dispatchers, SameExecution
<1>5. DispatcherOK(e)
  BY <1>2, <1>4, SameExecutionOK
<1>6. /\ t \in [Rids -> Reserves] /\ SameEnd(table[r], t[r])
      /\ \A x \in Rids \ {r} : t[x] = table[x]
  BY <1>2, <1>3 DEF Reserves, SameEnd
<1>7. StopRequested(d, r) =>
        \/ dispatcher' = e /\ UNCHANGED <<table, task>>
        \/ DeleteReserve(e, t, r)
        \/ /\ dispatcher' = Stop(e, r)
           /\ table' = [t EXCEPT ![r].start_period = @ - 1]
           /\ task' = [task EXCEPT ![r] = Sleeping(@)]
  BY DEF StopRequested
<1> HIDE DEF e, t
<1>8. CASE dispatcher' = e /\ UNCHANGED <<table, task>>
  BY <1>4, <1>8, QuietEnded DEF Ready, SameEnd
<1>9. CASE DeleteReserve(e, t, r)
  BY <1>2, <1>4, <1>5, <1>6, <1>9, DeleteEnded
<1>10. CASE /\ dispatcher' = Stop(e, r)
            /\ table' = [t EXCEPT ![r].start_period = @ - 1]
            /\ task' = [task EXCEPT ![r] = Sleeping(@)]
  <2>1. Distinct(e.readyq) /\ e.readyq \in Seq(Rids)
    BY <1>3, <1>4, <1>5, SortedDistinct DEF DispatcherOK, Dispatchers, TypeOK
  <2>2. /\ ToSet(Dequeue(e.readyq, r)) = ToSet(e.readyq) \ {r}
        /\ Stop(e, r).readyq = Dequeue(e.readyq, r)
    BY <1>2, <1>3, <1>4, <2>1, DequeueProperties, StopType
  <2>3. Ready' \subseteq Ready
    BY <1>4, <1>10, <2>2 DEF Ready
  <2>4. /\ \A x \in Rids \ {r} : table'[x] = t[x] /\ task'[x] = task[x]
        /\ table'[r] = [t[r] EXCEPT !.start_period = @ - 1]
        /\ task'[r] \in {"sleeping", "masked"}
    BY <1>2, <1>3, <1>6, <1>10 DEF Sleeping
  <2>5. SameEnd(table[r], table'[r])
    BY <1>2, <1>6, <2>4 DEF Reserves, SameEnd
  <2>6. QED
    BY <1>6, <2>3, <2>4, <2>5, QuietEnded DEF SameEnd
<1>11. CASE r \notin dispatcher.request_stop /\ RestartRequested(d, r)
  <2>1. DeleteReserve(d, table, r)
    BY <1>2, <1>11 DEF RestartRequested, Live
  <2>2. SameEnd(table[r], table[r])
    BY DEF SameEnd
  <2>3. QED
    BY <1>2, <1>3, <2>1, <2>2, DeleteEnded
<1>12. QED
  BY <1>1, <1>7, <1>8, <1>9, <1>10, <1>11

\* The steps that start nobody.
LEMMA RestEnded ==
  ASSUME IInv, JobInv, EndedInv,
         \/ \E r \in Rids : Die(r)
         \/ SchedulerUnlock \/ SchedulerSleep
         \/ Continue \/ Tick \/ UNCHANGED vars
  PROVE  EndedInv'
PROOF
<1>1. /\ dispatcher \in Dispatchers /\ task \in [Rids -> TaskStates]
      /\ table \in [Rids -> Reserves]
  BY DEF IInv, TypeOK
<1>2. CASE \E r \in Rids : Die(r)
  <2>1. PICK r \in Rids : Die(r)
    BY <1>2
  <2>2. /\ UNCHANGED table /\ task' = [task EXCEPT ![r] = "dead"]
        /\ dispatcher' = [dispatcher EXCEPT !.signals[r] = <<>>]
    BY <2>1 DEF Die
  <2>3. Ready' = Ready
    BY <1>1, <2>2 DEF Ready, Dispatchers
  <2>4. QED
    BY <1>1, <2>2, <2>3, QuietEnded DEF SameEnd
<1>3. CASE SchedulerUnlock \/ SchedulerSleep
  <2>1. PICK s \in {"leaving", "asleep"} :
          dispatcher' = [dispatcher EXCEPT !.sched_task = s]
    BY <1>3 DEF SchedulerUnlock, SchedulerSleep
  <2>2. UNCHANGED <<table, task>>
    BY <1>3 DEF SchedulerUnlock, SchedulerSleep
  <2>3. Ready' = Ready
    BY <1>1, <2>1 DEF Ready, Dispatchers
  <2>4. QED
    BY <2>2, <2>3, QuietEnded DEF SameEnd
<1>4. CASE Continue
  <2>1. ~ReleaseBlocked /\ ~ZeroSlackScan
    BY DEF ReleaseBlocked, MoreBlocked, ZeroSlackScan, JobInv, Uncritical
  <2>2. FinishDeparture /\ lock.rid \in Rids
    BY <1>4, <2>1 DEF Continue, FinishDeparture, JobInv, Caller, Live
  <2>3. /\ UNCHANGED dispatcher
        /\ \/ /\ task' = [task EXCEPT ![lock.rid] = Asleep(lock.by)]
              /\ table' = [table EXCEPT ![lock.rid].num_period_wakeups = Dec(@)]
           \/ UNCHANGED <<task, table>>
    BY <2>2 DEF FinishDeparture
  <2>4. Asleep(lock.by) # "running" /\ Ready' = Ready
    BY <2>3 DEF Asleep, Ready
  <2>5. \A x \in Rids : /\ SameEnd(table[x], table'[x])
                        /\ task'[x] = "running" => task[x] = "running"
    BY <1>1, <2>2, <2>3, <2>4 DEF Reserves, SameEnd
  <2>6. QED
    BY <2>4, <2>5, QuietEnded
<1>5. CASE Tick
  <2>1. UNCHANGED <<table, task>> /\ Ready' = Ready
    BY <1>1, <1>5 DEF Tick, Ready, Dispatchers
  <2>2. QED
    BY <2>1, QuietEnded DEF SameEnd
<1>6. CASE UNCHANGED vars
  <2>1. UNCHANGED <<table, task>> /\ Ready' = Ready
    BY <1>6 DEF vars, Ready
  <2>2. QED
    BY <2>1, QuietEnded DEF SameEnd
<1>7. QED
  BY <1>2, <1>3, <1>4, <1>5, <1>6

\* Every step keeps ended jobs waiting.
LEMMA EndedStep ==
  ASSUME Sporadic, IInv, IInv', JobInv, EndedInv, Restrained', [Next]_vars
  PROVE  EndedInv'
PROOF
<1>1. RateMonotonic
  BY DEF Sporadic
<1>2. CASE \E spec \in Specs, admitted \in BOOLEAN :
             CreateReserve(spec, admitted)
  BY <1>2, CreateReserveEnded
<1>3. ASSUME NEW r \in Rids, SystemCall(r) \/ Timer(r)
      PROVE  EndedInv'
  BY <1>1, <1>3, SystemCallEnded, TimerEnded
<1>4. ASSUME NEW r \in Rids, EnforcementSignal(r)
      PROVE  FALSE
  BY <1>4 DEF EnforcementSignal, JobInv, JobsOK, Plain
<1>5. CASE SchedulerTask
  BY <1>5, SchedulerPopEnded, RestEnded DEF SchedulerTask
<1>6. ASSUME \/ \E r \in Rids : Die(r)
             \/ Continue \/ Tick \/ UNCHANGED vars
      PROVE  EndedInv'
  BY <1>6, RestEnded
<1>7. QED
  BY <1>2, <1>3, <1>4, <1>5, <1>6 DEF Next

\* As long as no task captures the enforcement signal, no job is scheduled
\* between end_of_period and wait_for_next_release: no arrival, pop of
\* scheduler_task or repeated end_of_period starts the job that has ended,
\* nor does the release that the task waits for leave its mark behind.
THEOREM EndedStaysWaiting ==
  ASSUME Sporadic
  PROVE  Spec => EndedJobWaits
PROOF
<1>1. Init => EndedInv
  BY DEF Init, EndedInv, EndedWaits, Free, Created
<1>2. IInv /\ IInv' /\ JobInv /\ EndedInv /\ Restrained' /\ [Next]_vars => EndedInv'
  BY EndedStep
<1>3. IInv /\ EndedInv => EndedIdle
  <2>1. ASSUME IInv
        PROVE  Ready \subseteq Rids
    BY <2>1 DEF IInv, TypeOK, Dispatchers, Ready, ToSet
  <2>2. QED
    BY <2>1 DEF EndedInv, EndedWaits, EndedIdle
<1>4. Spec /\ []Restrained => [](IInv /\ JobInv)
  BY RestrainedInvariance DEF Sporadic
<1>5. Uncaptured => Restrained
  BY DEF Restrained
<1>6. QED
  BY <1>1, <1>2, <1>3, <1>4, <1>5, PTL DEF Spec, EndedJobWaits

-----------------------------------------------------------------------------
(***************************************************************************)
(* Captured signals: a task may take the budget enforcement signal of its  *)
(* reserve itself, and is no longer stopped by the scheduler thread.       *)
(***************************************************************************)

\* The task of h has been sent a signal that makes it depart.
Signalled(d, h) == \E i \in DOMAIN d.signals[h] : d.signals[h][i].stop

\* The head has an armed timer, unless a request to stop it is pending or its
\* task has been signalled.
Answered(d, A) ==
  \A h \in A : HeadIs(d, h) /\ d.enforcement[h] = Off =>
    d.reschedule = <<h>> \/ Signalled(d, h)

AnswersOK(d, A) ==
  d.zero_slack = {} /\ AllPeriodic(d) /\ Answered(d, A) /\ RequestsOK(d, A)

\* The system is not in critical mode, and never was.
NoMode ==
  /\ sys_criticality = 0
  /\ critical_reservesq.head = Nil
  /\ crit_blockq.head = Nil
  /\ lock.by # "zs"

\* A reserve that enforcement has stopped is not ready.  Its task may run: a
\* signal that is left wakes it.
StoppedIdle ==
  \A r \in Rids : table[r].pid = Attached /\ table[r].enforced => r \notin Ready

AnswerInv ==
  /\ AnswersOK(dispatcher, Live)
  /\ NoMode
  /\ Unmarked
  /\ Specified
  /\ StoppedIdle
  /\ Caller

\* budget_enforcement adds to the signals, and asks for a stop only where they
\* are not captured.
LEMMA BudgetEnforcementSignals ==
  ASSUME TypeOK, NEW d \in Dispatchers, NEW r \in Rids, NEW stop \in BOOLEAN
  PROVE  LET e == BudgetEnforcement(d, r, stop)
         IN /\ e.zero_slack = d.zero_slack \ {r}
            /\ \A x \in Rids : Signalled(d, x) => Signalled(e, x)
            /\ Captured(r) /\ task[r] # "dead" /\ stop => Signalled(e, r)
            /\ Captured(r) \/ ~stop =>
                 /\ e.reschedule = d.reschedule
                 /\ e.request_stop = d.request_stop
                 /\ e.sched_task = d.sched_task
PROOF
<1> DEFINE e == [d EXCEPT !.zero_slack = @ \ {r}]
           signal == [stop |-> stop, periodic |-> ~table[r].end_of_period_marked]
           a == Append(d.signals[r], signal)
           g == [e EXCEPT !.signals[r] = a]
           f == [e EXCEPT !.request_stop = @ \cup {r}]
           p == PushToReschedule(f, r)
           w == WakeScheduler(p)
<1>1. /\ e \in Dispatchers /\ e.signals = d.signals
      /\ e.reschedule = d.reschedule /\ e.request_stop = d.request_stop
      /\ e.sched_task = d.sched_task /\ e.zero_slack = d.zero_slack \ {r}
  BY DEF Dispatchers
<1>2. /\ \/ BudgetEnforcement(d, r, stop) = e
            /\ ~(Captured(r) /\ task[r] # "dead" /\ stop)
         \/ BudgetEnforcement(d, r, stop) = g /\ Captured(r)
         \/ BudgetEnforcement(d, r, stop) = w /\ stop /\ ~Captured(r)
  BY <1>1 DEF BudgetEnforcement, Captured
<1>3. /\ d.signals \in [Rids -> Seq([stop : BOOLEAN, periodic : BOOLEAN])]
      /\ signal \in [stop : BOOLEAN, periodic : BOOLEAN] /\ signal.stop = stop
  BY SpecType DEF Reserves, Dispatchers
<1> HIDE DEF e, signal
<1>4. /\ DOMAIN a = DOMAIN d.signals[r] \cup {Len(d.signals[r]) + 1}
      /\ \A i \in DOMAIN d.signals[r] : a[i] = d.signals[r][i]
      /\ a[Len(d.signals[r]) + 1] = signal
      /\ a \in Seq([stop : BOOLEAN, periodic : BOOLEAN])
  BY <1>3
<1> HIDE DEF a
<1>5. /\ g.zero_slack = d.zero_slack \ {r} /\ g.reschedule = d.reschedule
      /\ g.request_stop = d.request_stop /\ g.sched_task = d.sched_task
      /\ g.signals = [d.signals EXCEPT ![r] = a]
  BY <1>1, <1>4 DEF Dispatchers
<1>6. /\ f \in Dispatchers /\ f.signals = d.signals
      /\ f.zero_slack = d.zero_slack \ {r}
  BY <1>1 DEF Dispatchers
<1> HIDE DEF f, g
<1>7. /\ p \in Dispatchers /\ p.signals = d.signals
      /\ p.zero_slack = d.zero_slack \ {r}
  BY <1>6, PushToRescheduleType DEF PushToReschedule, Dispatchers
<1> HIDE DEF p
<1>8. w.signals = d.signals /\ w.zero_slack = d.zero_slack \ {r}
  BY <1>7 DEF WakeScheduler, Dispatchers
<1> HIDE DEF w
<1>9. CASE BudgetEnforcement(d, r, stop) = e
           /\ ~(Captured(r) /\ task[r] # "dead" /\ stop)
  BY <1>1, <1>9 DEF Signalled
<1>10. CASE BudgetEnforcement(d, r, stop) = g /\ Captured(r)
  <2>1. \A x \in Rids : g.signals[x] = IF x = r THEN a ELSE d.signals[x]
    BY <1>3, <1>5
  <2>2. stop => Signalled(g, r)
    BY <1>3, <1>4, <2>1 DEF Signalled
  <2>3. \A x \in Rids : Signalled(d, x) => Signalled(g, x)
    BY <1>4, <2>1 DEF Signalled
  <2>4. QED
    BY <1>5, <1>10, <2>2, <2>3
<1>11. CASE BudgetEnforcement(d, r, stop) = w /\ stop /\ ~Captured(r)
  BY <1>8, <1>11 DEF Signalled
<1>12. QED
  BY <1>2, <1>9, <1>10, <1>11

\* Starting the head of an idle dispatcher arms its timer, asks for it to be
\* stopped or signals its task.
LEMMA StartHeadAnswers ==
  ASSUME TypeOK, Unmarked, NEW d \in Dispatchers, NEW A \in SUBSET Rids,
         d.zero_slack = {}, AllPeriodic(d), RequestsOK(d, A),
         d.sched_task # "leaving",
         \A x \in A : task[x] # "dead" \/ d.current[x] < Budget(x),
         \/ d.reschedule = <<>>
         \/ d.readyq # <<>> /\ d.current[Head(d.readyq)] < Budget(Head(d.readyq))
  PROVE  AnswersOK(StartHead(d), A) /\ StartHead(d).sched_task # "leaving"
PROOF
<1> SUFFICES ASSUME NEW e, e = StartHead(d)
    PROVE  AnswersOK(e, A) /\ e.sched_task # "leaving"
  OBVIOUS
<1> DEFINE h == Head(d.readyq)
           c == [d EXCEPT !.elapsed = 0]
<1>1. e \in Dispatchers /\ e.readyq = d.readyq /\ AllPeriodic(e)
  BY StartHeadType, StartHeadAsks
<1>2. /\ c \in Dispatchers /\ c.readyq = d.readyq /\ SameRequests(d, c)
      /\ c.enforcement = d.enforcement /\ c.current = d.current
  <2>1. 0 \in 0 .. MaxTicks
    BY ConstantsAssumption
  <2>2. QED
    BY <2>1 DEF Dispatchers, SameRequests
<1>3. CASE d.readyq = <<>>
  <2>1. e = c
    BY <1>3 DEF StartHead
  <2> HIDE DEF c
  <2>2. QED
    BY <1>1, <1>2, <1>3, <2>1
       DEF AnswersOK, Answered, RequestsOK, HeadIs, SameRequests
<1>4. CASE d.readyq # <<>> /\ d.current[h] < Budget(h)
  <2>1. h \in Rids
    BY <1>4 DEF Dispatchers
  <2> DEFINE left == Budget(h) - d.current[h]
  <2>2. e = [c EXCEPT !.enforcement[h] = left]
    BY <1>4 DEF StartHead, Budget
  <2>3. d.current[h] \in Int /\ Budget(h) \in Int
    BY <2>1, SpecType, ConstantsAssumption DEF Dispatchers, Budget
  <2>4. left # Off
    BY <1>4, <2>3 DEF Off
  <2> HIDE DEF left, c
  <2>5. e.enforcement[h] = left /\ SameRequests(d, e)
    BY <1>2, <2>1, <2>2 DEF Dispatchers, SameRequests
  <2>6. QED
    BY <1>1, <2>4, <2>5
       DEF AnswersOK, Answered, RequestsOK, HeadIs, SameRequests
<1>5. CASE d.readyq # <<>> /\ ~(d.current[h] < Budget(h))
  <2>1. h \in Rids /\ h \in ToSet(d.readyq)
    BY <1>5, HeadMember
  <2>2. d.current[h] \in Int /\ Budget(h) \in Int
    BY <2>1, SpecType, ConstantsAssumption DEF Dispatchers, Budget
  <2>3. e = BudgetEnforcement(c, h, TRUE)
    BY <1>5, <2>2 DEF StartHead, Budget
  <2>4. Idle(c)
    BY <1>2, <1>5 DEF Idle, SameRequests
  <2>5. h \in A => task[h] # "dead"
    BY <1>5
  <2> HIDE DEF c, h
  <2>6. /\ e.zero_slack = c.zero_slack \ {h}
        /\ Captured(h) /\ task[h] # "dead" => Signalled(e, h)
        /\ Captured(h) => /\ e.reschedule = c.reschedule
                          /\ e.request_stop = c.request_stop
                          /\ e.sched_task = c.sched_task
    <3> DEFINE b == BudgetEnforcement(c, h, TRUE)
    <3>1. /\ b.zero_slack = c.zero_slack \ {h}
          /\ \A x \in Rids : Signalled(c, x) => Signalled(b, x)
          /\ Captured(h) /\ task[h] # "dead" /\ TRUE => Signalled(b, h)
          /\ Captured(h) \/ ~TRUE =>
               /\ b.reschedule = c.reschedule
               /\ b.request_stop = c.request_stop
               /\ b.sched_task = c.sched_task
      BY <1>2, <2>1, BudgetEnforcementSignals
    <3> HIDE DEF b
    <3>2. QED
      BY <2>3, <3>1 DEF b
  <2>7. e.zero_slack = {}
    BY <1>2, <2>6 DEF SameRequests
  <2>8. CASE Captured(h)
    <3>1. Answered(e, A)
      BY <1>1, <2>5, <2>6, <2>8 DEF Answered, HeadIs, h
    <3>2. RequestsOK(e, A) /\ e.sched_task # "leaving"
      BY <2>4, <2>6, <2>8 DEF RequestsOK, Idle
    <3>3. QED
      BY <1>1, <2>7, <3>1, <3>2 DEF AnswersOK
  <2>9. CASE ~Captured(h)
    <3>1. /\ BudgetEnforcement(c, h, TRUE).zero_slack = c.zero_slack \ {h}
          /\ BudgetEnforcement(c, h, TRUE).signals = c.signals
          /\ BudgetEnforcement(c, h, TRUE).request_stop = c.request_stop \cup {h}
          /\ BudgetEnforcement(c, h, TRUE).reschedule = <<h>>
          /\ BudgetEnforcement(c, h, TRUE).sched_task = "running"
      BY <1>2, <2>1, <2>4, <2>9, StopRequestMeans
    <3>2. /\ e.request_stop = c.request_stop \cup {h}
          /\ e.reschedule = <<h>> /\ e.sched_task = "running"
      BY <2>3, <3>1
    <3>3. Answered(e, A)
      BY <1>1, <3>2 DEF Answered, HeadIs, h
    <3>4. RequestsOK(e, A)
      BY <1>1, <2>1, <3>2 DEF RequestsOK
    <3>5. QED
      BY <1>1, <2>7, <3>2, <3>3, <3>4 DEF AnswersOK
  <2>10. QED
    BY <2>8, <2>9
<1>6. QED
  BY <1>3, <1>4, <1>5

\* Starting a job, as long as no request is pending or the job itself becomes
\* the head.
LEMMA StartAnswers ==
  ASSUME TypeOK, Unmarked, NEW d \in Dispatchers,
         NEW prio \in [Rids -> Int], NEW r \in Rids, NEW A \in SUBSET Rids,
         AnswersOK(d, A), d.sched_task # "leaving",
         \A x \in A \ {r} : task[x] # "dead",
         task[r] # "dead" \/ d.current[r] < Budget(r),
         \/ d.reschedule = <<>>
         \/ HeadIs(Start(d, prio, r), r) /\ d.current[r] < Budget(r)
  PROVE  /\ AnswersOK(Start(d, prio, r), A)
         /\ Start(d, prio, r).sched_task # "leaving"
PROOF
<1>1. CASE r \in ToSet(d.readyq)
  <2>1. Start(d, prio, r) = d
    BY <1>1 DEF Start, ToSet
  <2>2. QED
    BY <2>1
<1>2. CASE r \notin ToSet(d.readyq)
  <2> DEFINE q == Enqueue(d.readyq, {x \in Rids : prio[x] < prio[r]}, r)
  <2>1. PICK f \in Dispatchers :
           /\ Start(d, prio, r) = StartHead(f)
           /\ f.readyq = q /\ f.current = UsedIn(d) /\ SameRequests(d, f)
    BY <1>2, StartUnfolds
  <2>2. ToSet(f.readyq) = ToSet(d.readyq) \cup {r}
    BY <2>1, EnqueueMembers DEF Dispatchers
  <2> HIDE DEF q
  <2>3. /\ f.zero_slack = {} /\ AllPeriodic(f) /\ RequestsOK(f, A)
        /\ f.sched_task # "leaving"
    BY <2>1, <2>2 DEF AnswersOK, AllPeriodic, RequestsOK, SameRequests
  <2>4. HeadIs(Start(d, prio, r), r) => f.readyq # <<>> /\ Head(f.readyq) = r
    BY <2>1, StartHeadType DEF HeadIs
  <2>5. f.current[r] = d.current[r]
    <3>1. ~ (d.readyq # <<>> /\ Head(d.readyq) = r)
      BY <1>2, HeadMember
    <3>2. QED
      BY <2>1, <3>1, UsedMeans
  <2>6. \/ f.reschedule = <<>>
        \/ f.readyq # <<>> /\ f.current[Head(f.readyq)] < Budget(Head(f.readyq))
    BY <2>1, <2>4, <2>5 DEF SameRequests
  <2>7. \A x \in A : task[x] # "dead" \/ f.current[x] < Budget(x)
    BY <2>5
  <2>8. QED
    BY <2>1, <2>3, <2>6, <2>7, StartHeadAnswers
<1>3. QED
  BY <1>1, <1>2

\* Stopping a job of an idle dispatcher.
LEMMA StopAnswers ==
  ASSUME TypeOK, Unmarked, NEW d \in Dispatchers, NEW r \in Rids,
         NEW A \in SUBSET Rids, Distinct(d.readyq), Idle(d),
         d.zero_slack = {}, AllPeriodic(d), Answered(d, A \ {r}),
         \A x \in A : task[x] # "dead"
  PROVE  /\ AnswersOK(Stop(d, r), A)
         /\ Stop(d, r).sched_task # "leaving"
         /\ Stop(d, r).reschedule # <<>> => HeadIs(d, r)
PROOF
<1>1. CASE HeadIs(d, r)
  <2>1. PICK f \in Dispatchers :
           /\ Stop(d, r) = StartHead(f)
           /\ f.current = UsedIn(d) /\ SameRequests(d, f)
    BY <1>1, StopUnfolds
  <2>2. /\ f.zero_slack = {} /\ AllPeriodic(f) /\ RequestsOK(f, A)
        /\ f.sched_task # "leaving" /\ f.reschedule = <<>>
    BY <2>1 DEF AllPeriodic, RequestsOK, SameRequests, Idle
  <2>3. QED
    BY <1>1, <2>1, <2>2, StartHeadAnswers
<1>2. CASE ~HeadIs(d, r)
  <2> DEFINE q == Dequeue(d.readyq, r)
             f == [d EXCEPT !.readyq = q]
  <2>1. Stop(d, r) = f
    BY <1>2 DEF Stop, HeadIs
  <2>2. q \in Seq(Rids) /\ ToSet(q) = ToSet(d.readyq) \ {r}
    BY DequeueProperties DEF Dispatchers
  <2>3. \A x \in Rids : HeadIs(f, x) => HeadIs(d, x) /\ x # r
    <3>1. d.readyq \in Seq(Rids) /\ f.readyq = q
      BY DEF Dispatchers
    <3>2. d.readyq = <<>> => q = <<>>
      BY DEF Dequeue
    <3>3. d.readyq # <<>> => q # <<>> /\ Head(q) = Head(d.readyq)
      BY <1>2, <3>1, DequeueKeepsHead DEF HeadIs
    <3> HIDE DEF q, f
    <3>4. QED
      BY <1>2, <3>1, <3>2, <3>3 DEF HeadIs
  <2> HIDE DEF q
  <2>4. f.enforcement = d.enforcement /\ SameRequests(d, f)
    BY DEF Dispatchers, SameRequests
  <2> HIDE DEF f
  <2>5. /\ f.zero_slack = {} /\ AllPeriodic(f) /\ RequestsOK(f, A)
        /\ f.sched_task # "leaving" /\ f.reschedule = <<>>
    BY <2>4 DEF AllPeriodic, RequestsOK, SameRequests, Idle
  <2>6. Answered(f, A)
    BY <2>3, <2>4 DEF Answered, Idle, SameRequests, Signalled
  <2>7. QED
    BY <2>1, <2>5, <2>6 DEF AnswersOK
<1>3. QED
  BY <1>1, <1>2

\* What touches neither the queue nor the timers of the reserves with a task,
\* and takes no signal to stop from them, leaves them answered.
LEMMA QuietAnswers ==
  ASSUME NEW d, NEW e, NEW A, AnswersOK(d, A),
         e.readyq = d.readyq,
         \A x \in A : e.enforcement[x] = d.enforcement[x],
         e.reschedule = d.reschedule, e.sched_task = d.sched_task,
         e.reschedule # <<>> => e.request_stop = d.request_stop,
         e.zero_slack = {}, AllPeriodic(e),
         \A x \in A : Signalled(d, x) => Signalled(e, x)
  PROVE  AnswersOK(e, A)
PROOF
BY DEF AnswersOK, Answered, RequestsOK, HeadIs

\* Fewer reserves with a task promise less.
LEMMA FewerAnswers ==
  ASSUME NEW d, NEW A, NEW B \in SUBSET A, AnswersOK(d, A)
  PROVE  AnswersOK(d, B)
PROOF
BY DEF AnswersOK, Answered, RequestsOK

\* The task of a reserve in Live is not dead.
LEMMA LiveTask ==
  ASSUME NEW r \in Live
  PROVE  r \in Rids /\ task[r] # "dead" /\ Alive(r) /\ Active(r)
PROOF
BY DEF Live, Alive, Active, Attached, Free

\* What delete_reserve does to the ready queue leaves the others answered.
LEMMA RemovalsAnswers ==
  ASSUME TypeOK, Unmarked, NEW d \in Dispatchers, NEW r \in Rids,
         Distinct(d.readyq), Idle(d), AnswersOK(d, Live \ {r}),
         NEW e \in Removals(d, r)
  PROVE  AnswersOK(e, Live \ {r})
PROOF
<1> DEFINE A == Live \ {r}
           q == Dequeue(d.readyq, r)
           f == [d EXCEPT !.readyq = q]
<1>1. /\ A \in SUBSET Rids /\ r \notin A
      /\ \A x \in A : task[x] # "dead" /\ Alive(x)
  BY LiveTask DEF Live
<1>2. q \in Seq(Rids)
  BY DequeueProperties DEF Dispatchers
<1>3. /\ f \in Dispatchers /\ f.readyq = q /\ f.current = d.current
      /\ SameRequests(d, f)
  BY <1>2 DEF Dispatchers, SameRequests
<1>4. CASE e = Stop(d, r)
  <2>1. /\ d.zero_slack = {} /\ AllPeriodic(d) /\ Answered(d, A \ {r})
    BY <1>1 DEF AnswersOK, Answered
  <2> HIDE DEF A
  <2>2. AnswersOK(e, A)
    BY <1>1, <1>4, <2>1, StopAnswers
  <2>3. QED
    BY <2>2 DEF A
<1>5. CASE ~HeadIs(d, r)
  <2>1. e = Stop(d, r)
    BY <1>5 DEF HeadIs, Removals, Stop
  <2>2. QED
    BY <1>4, <2>1
<1>6. CASE HeadIs(d, r) /\ e = StartHead(f)
  <2>1. /\ f.zero_slack = {} /\ AllPeriodic(f) /\ RequestsOK(f, A)
        /\ f.reschedule = <<>> /\ f.sched_task # "leaving"
    BY <1>3 DEF AnswersOK, AllPeriodic, RequestsOK, SameRequests, Idle
  <2> HIDE DEF f, A
  <2>2. AnswersOK(e, A)
    BY <1>1, <1>3, <1>6, <2>1, StartHeadAnswers
  <2>3. QED
    BY <2>2 DEF A
<1>7. CASE q # <<>> /\ ~Alive(Head(q))
           /\ \E t \in 0 .. MaxTicks : e = [f EXCEPT !.elapsed = t]
  <2>1. PICK t \in 0 .. MaxTicks : e = [f EXCEPT !.elapsed = t]
    BY <1>7
  <2> HIDE DEF f, q
  <2>2. e.readyq = q /\ SameRequests(d, e)
    BY <1>3, <2>1 DEF Dispatchers, SameRequests
  <2>3. Answered(e, A)
    BY <1>1, <1>7, <2>2 DEF Answered, HeadIs
  <2>4. e.zero_slack = {} /\ AllPeriodic(e) /\ RequestsOK(e, A)
    BY <2>2 DEF AnswersOK, AllPeriodic, RequestsOK, SameRequests, Idle
  <2>5. QED
    BY <2>3, <2>4 DEF AnswersOK
<1>8. QED
  BY <1>4, <1>5, <1>6, <1>7 DEF Removals, HeadIs

\* delete_reserve leaves the others answered.
LEMMA DeleteAnswers ==
  ASSUME IInv, Unmarked, NEW d, DispatcherOK(d), NEW r \in Rids, NEW t,
         Idle(d), AnswersOK(d, Live \ {r}), DeleteReserve(d, t, r)
  PROVE  /\ AnswersOK(dispatcher', Live \ {r})
         /\ ToSet(dispatcher'.readyq) \subseteq ToSet(d.readyq)
PROOF
<1>1. TypeOK /\ d \in Dispatchers /\ Distinct(d.readyq)
      /\ d.readyq \in Seq(Rids) /\ Live \ {r} \in SUBSET Rids
  BY SortedDistinct DEF IInv, TypeOK, DispatcherOK, Dispatchers, Live
<1>2. PICK e \in Removals(d, r) :
        dispatcher' = [CancelTimers(e, r) EXCEPT !.signals[r] = <<>>]
  BY DEF DeleteReserve
<1>3. /\ e \in Dispatchers /\ AnswersOK(e, Live \ {r})
      /\ e.readyq = Dequeue(d.readyq, r)
  BY <1>1, <1>2, RemovalsType, RemovalsAnswers
<1> DEFINE c == CancelTimers(e, r)
           none == <<>>
<1>4. /\ c \in Dispatchers /\ c.readyq = e.readyq
      /\ \A x \in Rids : c.enforcement[x] = IF x = r THEN Off
                                            ELSE e.enforcement[x]
  BY <1>3, CancelTimersType
<1>5. /\ c.reschedule = e.reschedule /\ c.request_stop = e.request_stop
      /\ c.sched_task = e.sched_task /\ c.signals = e.signals
      /\ c.zero_slack = e.zero_slack \ {r}
  BY <1>3 DEF CancelTimers, Dispatchers
<1>6. dispatcher' = [c EXCEPT !.signals[r] = none]
  BY <1>2
<1> HIDE DEF c, none
<1>7. /\ dispatcher'.readyq = c.readyq
      /\ dispatcher'.enforcement = c.enforcement
      /\ dispatcher'.reschedule = c.reschedule
      /\ dispatcher'.request_stop = c.request_stop
      /\ dispatcher'.sched_task = c.sched_task
      /\ dispatcher'.zero_slack = c.zero_slack
      /\ dispatcher'.signals = [c.signals EXCEPT ![r] = none]
  BY <1>4, <1>6 DEF Dispatchers
<1>8. \A x \in Rids : dispatcher'.signals[x] = IF x = r THEN none
                                               ELSE e.signals[x]
  BY <1>4, <1>5, <1>7 DEF Dispatchers
<1>9. AllPeriodic(dispatcher') /\ dispatcher'.zero_slack = {}
  BY <1>3, <1>5, <1>7, <1>8 DEF AnswersOK, AllPeriodic, none
<1>10. \A x \in Live \ {r} :
         /\ dispatcher'.enforcement[x] = e.enforcement[x]
         /\ Signalled(e, x) => Signalled(dispatcher', x)
  BY <1>1, <1>4, <1>7, <1>8 DEF Signalled
<1>11. AnswersOK(dispatcher', Live \ {r})
  BY <1>3, <1>4, <1>5, <1>7, <1>9, <1>10, QuietAnswers
<1>12. QED
  BY <1>1, <1>3, <1>4, <1>7, <1>11, DequeueProperties

\* timer_handler for a reserve without a task leaves the others answered.
LEMMA ForceDeleteAnswers ==
  ASSUME NEW d \in Dispatchers, NEW r \in Rids, Idle(d),
         NEW A \in SUBSET Rids, r \notin A, AnswersOK(d, A), ForceDelete(d, r)
  PROVE  AnswersOK(dispatcher', A) /\ dispatcher'.readyq = d.readyq
PROOF
<1> DEFINE f == [d EXCEPT !.request_stop = @ \ {r}]
           g == PushToReschedule(f, r)
<1>1. /\ f \in Dispatchers /\ f.readyq = d.readyq
      /\ f.enforcement = d.enforcement
      /\ f.reschedule = <<>> /\ f.sched_task = d.sched_task
      /\ f.signals = d.signals /\ f.zero_slack = d.zero_slack
  BY DEF Dispatchers, Idle
<1>2. dispatcher' = WakeScheduler(g)
  BY DEF ForceDelete
<1> HIDE DEF f
<1>3. g = [f EXCEPT !.reschedule = <<r>>]
  <2>1. Len(<<>>) < MaxReserves /\ Append(<<>>, r) = <<r>>
    BY MaxReservesAssumption
  <2>2. QED
    BY <1>1, <2>1 DEF PushToReschedule, Dispatchers
<1>4. g \in Dispatchers
  BY <1>1, PushToRescheduleType
<1>5. /\ g.readyq = f.readyq /\ g.enforcement = f.enforcement
      /\ g.reschedule = <<r>> /\ g.sched_task = f.sched_task
      /\ g.signals = f.signals /\ g.zero_slack = f.zero_slack
  BY <1>1, <1>3 DEF Dispatchers
<1> HIDE DEF g
<1>6. /\ dispatcher'.readyq = d.readyq
      /\ dispatcher'.enforcement = d.enforcement
      /\ dispatcher'.reschedule = <<r>> /\ dispatcher'.sched_task = "running"
      /\ dispatcher'.signals = d.signals
      /\ dispatcher'.zero_slack = d.zero_slack
  <2>1. d.sched_task \in {"asleep", "running"}
    BY DEF Dispatchers, Idle
  <2>2. QED
    BY <1>1, <1>2, <1>4, <1>5, <2>1 DEF WakeScheduler, Dispatchers
<1>7. RequestsOK(dispatcher', A) /\ AllPeriodic(dispatcher')
      /\ dispatcher'.zero_slack = {}
  BY <1>6 DEF AnswersOK, AllPeriodic, RequestsOK
<1>8. Answered(dispatcher', A)
  BY <1>6 DEF AnswersOK, Answered, HeadIs, Idle, Signalled
<1>9. QED
  BY <1>6, <1>7, <1>8 DEF AnswersOK

\* A handler finds an idle dispatcher.
LEMMA EnterAnswered ==
  ASSUME RateMonotonic, IInv, AnswerInv, Enter
  PROVE  /\ DispatcherOK(dispatcher) /\ dispatcher \in Dispatchers
         /\ Idle(dispatcher) /\ lock.by = "free"
         /\ Distinct(dispatcher.readyq) /\ TypeOK
         /\ AnswersOK(dispatcher, Live)
PROOF
<1>1. /\ DispatcherOK(dispatcher) /\ dispatcher \in Dispatchers /\ TypeOK
      /\ dispatcher.readyq \in Seq(Rids) /\ priority \in [Rids -> Int]
  BY DispatcherInvariant DEF IInv, TypeOK, DispatcherOK, Dispatchers
<1>2. Distinct(dispatcher.readyq)
  BY <1>1, SortedDistinct DEF DispatcherOK
<1>3. QED
  BY <1>1, <1>2
     DEF Enter, RateMonotonic, AnswerInv, AnswersOK, RequestsOK, Idle

\* What a step that preserves the parameters of the reserves has to show.
LEMMA AnswerStepMeans ==
  ASSUME AnswerInv, AnswersOK(dispatcher', Live'),
         \A x \in Rids : table'[x].pid # Free =>
           table[x].pid # Free /\ table'[x].spec = table[x].spec,
         \A x \in Rids : table'[x].end_of_period_marked =>
                           table[x].end_of_period_marked,
         sys_criticality' = 0, critical_reservesq'.head = Nil,
         crit_blockq'.head = Nil, lock'.by # "zs", Caller', StoppedIdle'
  PROVE  AnswerInv'
PROOF
<1>1. AnswersOK(dispatcher, Live)'
  BY DEF AnswersOK, AllPeriodic, Answered, RequestsOK, HeadIs, Signalled
<1>2. Unmarked' /\ Specified'
  BY DEF AnswerInv, Unmarked, Specified, Active
<1>3. QED
  BY <1>1, <1>2 DEF AnswerInv, NoMode

\* What a step that starts no job but one of r has to show about stopped jobs.
LEMMA StoppedStayIdle ==
  ASSUME AnswerInv, NEW r \in Rids,
         \A x \in Rids : x # r => /\ table'[x].pid = table[x].pid
                                  /\ table'[x].enforced = table[x].enforced,
         Ready' \subseteq Ready \cup {r},
         table'[r].pid = Attached /\ table'[r].enforced => r \notin Ready'
  PROVE  StoppedIdle'
PROOF
BY DEF AnswerInv, StoppedIdle

\* The deletion of a reserve, from an idle dispatcher.
LEMMA DeleteAnswerInv ==
  ASSUME IInv, AnswerInv, NEW d, DispatcherOK(d), d.readyq = dispatcher.readyq,
         NEW r \in Rids, NEW t \in [Rids -> Reserves],
         \A x \in Rids : /\ t[x].pid = table[x].pid
                         /\ t[x].spec = table[x].spec
                         /\ t[x].end_of_period_marked =
                              table[x].end_of_period_marked
                         /\ x # r => t[x] = table[x],
         Idle(d), AnswersOK(d, Live \ {r}), DeleteReserve(d, t, r),
         UNCHANGED critVars, lock'.by \in {"free", "sched"}
  PROVE  AnswerInv'
PROOF
<1>1. /\ table' = [t EXCEPT ![r].pid = Free] /\ task' = [task EXCEPT ![r] = "none"]
      /\ task \in [Rids -> TaskStates]
  BY DEF DeleteReserve, IInv, TypeOK
<1>2. /\ AnswersOK(dispatcher', Live \ {r})
      /\ ToSet(dispatcher'.readyq) \subseteq Ready
  BY DeleteAnswers DEF AnswerInv, Ready
<1>3. \A x \in Rids : /\ table'[x].spec = table[x].spec
                      /\ table'[x].end_of_period_marked =
                           table[x].end_of_period_marked
                      /\ x # r => table'[x] = table[x] /\ task'[x] = task[x]
  BY <1>1 DEF Reserves
<1>4. table'[r].pid = Free
  BY <1>1 DEF Reserves
<1>5. Live' = Live \ {r}
  BY <1>3, <1>4 DEF Live, Alive, Attached, Free
<1>6. StoppedIdle'
  BY <1>2, <1>3, <1>4, StoppedStayIdle DEF Ready, Attached, Free
<1>7. Caller' /\ lock'.by # "zs"
  BY DEF Caller, Departing
<1>8. \A x \in Rids : table'[x].pid # Free => table[x].pid # Free
  BY <1>3, <1>4
<1>9. QED
  BY <1>2, <1>3, <1>5, <1>6, <1>7, <1>8, AnswerStepMeans
     DEF AnswerInv, NoMode, critVars

\* CREATE_RSV
LEMMA CreateReserveAnswers ==
  ASSUME IInv, AnswerInv, NEW spec \in Specs, NEW admitted \in BOOLEAN,
         CreateReserve(spec, admitted)
  PROVE  AnswerInv'
PROOF
<1>1. PICK r \in Rids :
        /\ ~Active(r)
        /\ table' = [table EXCEPT
             ![r] = NewReserve(r, spec, IF admitted THEN Created ELSE Free)]
        /\ critical_reservesq' = [critical_reservesq EXCEPT !.next[r] = Nil]
        /\ crit_blockq' = [crit_blockq EXCEPT !.next[r] = Nil]
  BY DEF CreateReserve
<1>2. /\ critical_reservesq'.head = Nil /\ crit_blockq'.head = Nil
      /\ UNCHANGED <<task, dispatcher, sys_criticality, lock>>
  BY <1>1 DEF CreateReserve, AnswerInv, NoMode, IInv, TypeOK, Lists
<1> DEFINE n == NewReserve(r, spec, IF admitted THEN Created ELSE Free)
<1>3. n.pid \in {Created, Free} /\ n.spec = spec
      /\ n.end_of_period_marked = FALSE
  <2>1. table[r] \in Reserves
    BY DEF IInv, TypeOK
  <2>2. QED
    BY <2>1 DEF NewReserve, Reserves
<1> HIDE DEF n
<1>4. table'[r] = n /\ \A x \in Rids : x # r => table'[x] = table[x]
  BY <1>1 DEF n, IInv, TypeOK
<1>5. Live' = Live
  BY <1>1, <1>2, <1>3, <1>4 DEF Live, Alive, Active, Attached, Created, Free
<1>6. AnswersOK(dispatcher, Live)'
  BY <1>2, <1>5
     DEF AnswerInv, AnswersOK, AllPeriodic, Answered, RequestsOK, HeadIs, Signalled
<1>7. NoMode' /\ Caller'
  BY <1>2, <1>5 DEF AnswerInv, NoMode, Caller
<1>8. Unmarked' /\ Specified'
  BY <1>3, <1>4 DEF AnswerInv, Unmarked, Specified, Active
<1>9. StoppedIdle'
  BY <1>2, <1>3, <1>4 DEF AnswerInv, StoppedIdle, Ready, Attached, Created, Free
<1>10. QED
  BY <1>6, <1>7, <1>8, <1>9 DEF AnswerInv

\* ATTACH_RSV
LEMMA AttachReserveAnswers ==
  ASSUME RateMonotonic, IInv, IInv', AnswerInv, NEW r \in Rids, AttachReserve(r)
  PROVE  AnswerInv'
PROOF
<1> DEFINE A == Live \cup {r}
           zero == 0
           f == [dispatcher EXCEPT !.current[r] = zero]
<1>1. /\ TypeOK /\ dispatcher \in Dispatchers /\ Idle(dispatcher)
      /\ table[r].pid = Created /\ lock.by = "free" /\ Active(r)
      /\ AnswersOK(dispatcher, Live)
      /\ priority' \in [Rids -> Int] /\ A \in SUBSET Rids
  BY EnterAnswered
     DEF AttachReserve, Active, Created, Free, IInv, TypeOK, Live
<1>2. r \notin Live /\ r \notin Ready
  BY <1>1 DEF Live, Alive, Attached, Created, IInv, ReadyAttached
<1>3. /\ f \in Dispatchers /\ f.readyq = dispatcher.readyq
      /\ f.enforcement = dispatcher.enforcement
      /\ SameRequests(dispatcher, f) /\ f.current[r] = zero
  <2>1. zero \in 0 .. MaxTicks
    BY ConstantsAssumption
  <2> HIDE DEF zero
  <2>2. QED
    BY <1>1, <2>1 DEF Dispatchers, SameRequests
<1>4. Budget(r) \in Int /\ Budget(r) > 0 /\ ~table[r].spec.zsinstant
  BY <1>1, SpecType DEF AnswerInv, Specified, RateMonotonic, Budget
<1> HIDE DEF f, A
<1>5. dispatcher' = Start(f, priority', r)
  <2>1. ArmZeroSlack(f, r) = f
    BY <1>3, <1>4 DEF ArmZeroSlack, Dispatchers
  <2>2. QED
    BY <2>1 DEF AttachReserve, f
<1>6. Ready' = Ready \cup {r}
  <2>1. ToSet(Start(f, priority', r).readyq) = ToSet(f.readyq) \cup {r}
    BY <1>1, <1>3, StartType
  <2>2. QED
    BY <1>3, <1>5, <2>1 DEF Ready
<1>7. ~HeadIs(f, r)
  BY <1>1, <1>2, <1>3, HeadMember DEF HeadIs, Ready
<1>8. AnswersOK(f, A)
  BY <1>1, <1>2, <1>3, <1>7
     DEF AnswersOK, AllPeriodic, Answered, RequestsOK, HeadIs, SameRequests,
         Idle, Signalled, A
<1>9. AnswersOK(dispatcher', A)
  <2>1. \A x \in A \ {r} : task[x] # "dead"
    BY LiveTask DEF A
  <2>2. f.current[r] < Budget(r)
    BY <1>3, <1>4
  <2>3. f.reschedule = <<>> /\ f.sched_task # "leaving"
    BY <1>1, <1>3 DEF SameRequests, Idle
  <2>4. Unmarked
    BY DEF AnswerInv
  <2>5. AnswersOK(Start(f, priority', r), A)
    BY <1>1, <1>3, <1>8, <2>1, <2>2, <2>3, <2>4, StartAnswers
  <2>6. QED
    BY <1>5, <2>5
<1>10. /\ \A x \in Rids \ {r} : table'[x] = table[x] /\ task'[x] = task[x]
       /\ table'[r] = [table[r] EXCEPT
            !.pid = Attached, !.start_period = 1, !.enforced = FALSE,
            !.in_critical_mode = FALSE]
       /\ task'[r] = "running" /\ UNCHANGED <<critVars, lock>>
  BY <1>1 DEF AttachReserve, TypeOK
<1>11. /\ table'[r].pid = Attached /\ table'[r].spec = table[r].spec
       /\ table'[r].enforced = FALSE
       /\ table'[r].end_of_period_marked = table[r].end_of_period_marked
  BY <1>1, <1>10 DEF TypeOK, Reserves
<1>12. Live' = A
  BY <1>10, <1>11 DEF Live, Alive, A
<1>13. StoppedIdle'
  BY <1>6, <1>10, <1>11, StoppedStayIdle
<1>14. Caller'
  BY <1>10, <1>12 DEF AnswerInv, Caller, A
<1>15. \A x \in Rids : /\ table'[x].pid # Free =>
                            table[x].pid # Free /\ table'[x].spec = table[x].spec
                       /\ table'[x].end_of_period_marked =>
                            table[x].end_of_period_marked
  BY <1>1, <1>10, <1>11 DEF Active
<1>16. QED
  BY <1>9, <1>10, <1>12, <1>13, <1>14, <1>15, AnswerStepMeans
     DEF AnswerInv, NoMode, critVars

\* DELETE_RSV
LEMMA DeleteReserveAnswers ==
  ASSUME RateMonotonic, IInv, AnswerInv, NEW r \in Rids, Delete(r)
  PROVE  AnswerInv'
PROOF
<1>1. /\ DispatcherOK(dispatcher) /\ Idle(dispatcher)
      /\ DeleteReserve(dispatcher, table, r) /\ AnswersOK(dispatcher, Live)
      /\ UNCHANGED critVars /\ lock'.by = "free"
  BY EnterAnswered DEF Delete
<1>2. AnswersOK(dispatcher, Live \ {r}) /\ table \in [Rids -> Reserves]
  BY <1>1, FewerAnswers DEF IInv, TypeOK
<1>3. QED
  BY <1>1, <1>2, DeleteAnswerInv

\* The departure of a job stops it, from an idle dispatcher d that may have
\* lost a signal of it.
LEMMA DepartAnswers ==
  ASSUME RateMonotonic, IInv, AnswerInv, Enter, NEW r \in Rids, Alive(r),
         NEW d, DispatcherOK(d), Idle(d), SameExecution(dispatcher, d),
         d.zero_slack = {}, AllPeriodic(d), Answered(d, Live \ {r}),
         NEW call \in {"wait", "handler"}, Depart(d, r, call)
  PROVE  AnswerInv'
PROOF
<1> DEFINE e == [d EXCEPT !.zero_slack = @ \ {r}]
<1>1. /\ TypeOK /\ d \in Dispatchers /\ d.readyq \in Seq(Rids) /\ Unmarked
      /\ Distinct(d.readyq) /\ d.readyq = dispatcher.readyq /\ r \in Live
      /\ Live \in SUBSET Rids /\ \A x \in Live : task[x] # "dead"
  BY EnterAnswered, LiveTask
     DEF AnswerInv, DispatcherOK, Dispatchers, SameExecution, Live
<1>2. e = d
  <2>1. d.zero_slack \ {r} = d.zero_slack
    OBVIOUS
  <2>2. QED
    BY <1>1, <2>1 DEF Dispatchers
<1>3. dispatcher' = Stop(d, r)
  BY <1>2 DEF Depart
<1> HIDE DEF e
<1>4. AnswersOK(dispatcher', Live)
  BY <1>1, <1>3, StopAnswers
<1>5. Ready' = Ready \ {r}
  <2>1. ToSet(Dequeue(d.readyq, r)) = ToSet(d.readyq) \ {r}
    BY <1>1, DequeueProperties
  <2>2. Stop(d, r).readyq = Dequeue(d.readyq, r)
    BY <1>1, StopType
  <2>3. QED
    BY <1>1, <1>3, <2>1, <2>2 DEF Ready
<1>6. /\ table' = [table EXCEPT ![r] = Departed(r, call)]
      /\ task' = [task EXCEPT ![r] = "running"]
      /\ lock'.by = call /\ lock'.rid = r
  BY DEF Depart
<1>7. /\ \A x \in Rids \ {r} : table'[x] = table[x] /\ task'[x] = task[x]
      /\ table'[r] = Departed(r, call) /\ task'[r] = "running"
  BY <1>1, <1>6 DEF TypeOK
<1>8. /\ Departed(r, call).pid = table[r].pid
      /\ Departed(r, call).spec = table[r].spec
      /\ Departed(r, call).enforced = table[r].enforced
      /\ Departed(r, call).end_of_period_marked = table[r].end_of_period_marked
  <2>1. /\ table[r] \in Reserves /\ table[r].end_of_period_marked \in BOOLEAN
        /\ call # "end"
    BY <1>1 DEF TypeOK, Reserves
  <2>2. QED
    BY <2>1 DEF Departed, Reserves
<1>9. Live' = Live
  BY <1>7, <1>8 DEF Live, Alive
<1>10. StoppedIdle'
  BY <1>5, <1>7, <1>8, StoppedStayIdle
<1>11. critical_reservesq'.head = Nil /\ sys_criticality' = 0
       /\ crit_blockq'.head = Nil
  <2>1. /\ critical_reservesq.head = Nil /\ sys_criticality = 0
        /\ crit_blockq.head = Nil /\ r # Nil
    BY DEF AnswerInv, NoMode, Rids, Nil
  <2>2. critical_reservesq' = critical_reservesq /\ crit_blockq' = crit_blockq
    BY <2>1 DEF Depart
  <2>3. sys_criticality' \in {TopCriticality(critical_reservesq), sys_criticality}
    BY <2>1 DEF Depart
  <2>4. QED
    BY <2>1, <2>2, <2>3 DEF TopCriticality
<1>12. Caller' /\ lock'.by # "zs"
  BY <1>1, <1>6, <1>9 DEF Caller
<1>13. \A x \in Rids : /\ table'[x].pid = table[x].pid
                       /\ table'[x].spec = table[x].spec
                       /\ table'[x].end_of_period_marked =
                            table[x].end_of_period_marked
  BY <1>7, <1>8
<1>14. QED
  BY <1>4, <1>9, <1>10, <1>11, <1>12, <1>13, AnswerStepMeans

\* wait_for_next_period, also as wait_for_next_release does it.
LEMMA WaitAnswers ==
  ASSUME RateMonotonic, IInv, AnswerInv, Enter, NEW r \in Rids, Alive(r),
         Depart(dispatcher, r, "wait")
  PROVE  AnswerInv'
PROOF
<1>1. /\ DispatcherOK(dispatcher) /\ Idle(dispatcher)
      /\ AnswersOK(dispatcher, Live)
  BY EnterAnswered
<1>2. /\ SameExecution(dispatcher, dispatcher) /\ dispatcher.zero_slack = {}
      /\ AllPeriodic(dispatcher) /\ Answered(dispatcher, Live \ {r})
  BY <1>1 DEF SameExecution, AnswersOK, Answered
<1>3. QED
  BY <1>1, <1>2, DepartAnswers

\* CAPTURE_ENFORCEMENT_SIGNAL
LEMMA CaptureAnswers ==
  ASSUME IInv, AnswerInv, NEW r \in Rids, NEW captured \in BOOLEAN,
         CaptureEnforcementSignal(r, captured)
  PROVE  AnswerInv'
PROOF
<1>1. /\ table' = [table EXCEPT ![r].enforcement_signal_captured = captured]
      /\ UNCHANGED <<task, dispatcher, critVars, lock>>
      /\ table \in [Rids -> Reserves]
  BY DEF CaptureEnforcementSignal, IInv, TypeOK
<1>2. \A x \in Rids : /\ table'[x].pid = table[x].pid
                      /\ table'[x].spec = table[x].spec
                      /\ table'[x].enforced = table[x].enforced
                      /\ table'[x].end_of_period_marked =
                           table[x].end_of_period_marked
  BY <1>1 DEF Reserves
<1>3. Live' = Live
  BY <1>1, <1>2 DEF Live, Alive
<1>4. AnswersOK(dispatcher', Live') /\ Caller' /\ StoppedIdle'
  BY <1>1, <1>2, <1>3 DEF AnswerInv, Caller, StoppedIdle, Ready
<1>5. QED
  BY <1>1, <1>2, <1>4, AnswerStepMeans DEF AnswerInv, NoMode, critVars

\* end_of_period marks the reserve.
LEMMA EndPeriodMarks ==
  ASSUME TypeOK, NEW r \in Rids, EndPeriod(r)
  PROVE  ~Unmarked'
PROOF
<1>1. /\ table' = [table EXCEPT ![r] = Departed(r, "end")]
      /\ table \in [Rids -> Reserves]
  BY DEF EndPeriod, Depart, TypeOK
<1>2. table'[r] = Departed(r, "end") /\ table[r] \in Reserves
  BY <1>1
<1>3. table'[r].end_of_period_marked
  BY <1>2 DEF Departed, Reserves
<1>4. QED
  BY <1>3 DEF Unmarked

\* The system calls.
LEMMA SystemCallAnswers ==
  ASSUME RateMonotonic, IInv, IInv', AnswerInv, Unmarked', NEW r \in Rids,
         SystemCall(r)
  PROVE  AnswerInv'
PROOF
<1>1. CASE AttachReserve(r)
  BY <1>1, AttachReserveAnswers
<1>2. CASE Delete(r)
  BY <1>2, DeleteReserveAnswers
<1>3. CASE \E captured \in BOOLEAN : CaptureEnforcementSignal(r, captured)
  BY <1>3, CaptureAnswers
<1>4. CASE WaitPeriod(r)
  BY <1>4, WaitAnswers DEF WaitPeriod
<1>5. ~EndPeriod(r)
  BY EndPeriodMarks DEF IInv
<1>6. CASE WaitRelease(r)
  <2>1. ~table[r].end_of_period_marked
    BY DEF AnswerInv, Unmarked
  <2>2. Enter /\ Alive(r) /\ Depart(dispatcher, r, "wait")
    BY <1>6, <2>1 DEF WaitRelease, WaitForNextRelease
  <2>3. QED
    BY <2>2, WaitAnswers
<1>7. QED
  BY <1>1, <1>2, <1>3, <1>4, <1>5, <1>6 DEF SystemCall

\* A task takes its first signal: one that stops its job makes it depart, and
\* the others leave a later one to stop it.
LEMMA EnforcementSignalAnswers ==
  ASSUME RateMonotonic, IInv, AnswerInv, NEW r \in Rids, EnforcementSignal(r)
  PROVE  AnswerInv'
PROOF
<1> DEFINE signals == dispatcher.signals
           signal == Head(signals[r])
           d == [dispatcher EXCEPT !.signals[r] = Tail(@)]
<1>1. /\ Enter /\ Alive(r) /\ signals[r] # <<>> /\ r \in Live
      /\ DispatcherOK(dispatcher) /\ dispatcher \in Dispatchers
      /\ Idle(dispatcher) /\ AnswersOK(dispatcher, Live)
  BY EnterAnswered DEF EnforcementSignal, Live
<1>2. /\ signals \in [Rids -> Seq([stop : BOOLEAN, periodic : BOOLEAN])]
      /\ 1 \in DOMAIN signals[r] /\ signal = signals[r][1]
      /\ Tail(signals[r]) \in Seq([stop : BOOLEAN, periodic : BOOLEAN])
      /\ \A i \in DOMAIN Tail(signals[r]) :
           i + 1 \in DOMAIN signals[r] /\ Tail(signals[r])[i] = signals[r][i + 1]
      /\ \A i \in DOMAIN signals[r] : i # 1 =>
           i - 1 \in DOMAIN Tail(signals[r])
             /\ Tail(signals[r])[i - 1] = signals[r][i]
  BY <1>1 DEF Dispatchers
<1>3. signal.periodic
  BY <1>1, <1>2 DEF AnswersOK, AllPeriodic
<1>4. /\ d \in Dispatchers /\ DispatcherOK(d)
      /\ SameExecution(dispatcher, d)
      /\ d.reschedule = dispatcher.reschedule
      /\ d.request_stop = dispatcher.request_stop
      /\ d.sched_task = dispatcher.sched_task
      /\ d.zero_slack = dispatcher.zero_slack
      /\ d.signals = [signals EXCEPT ![r] = Tail(signals[r])]
  <2>1. /\ d \in Dispatchers /\ SameExecution(dispatcher, d)
        /\ d.reschedule = dispatcher.reschedule
        /\ d.request_stop = dispatcher.request_stop
        /\ d.sched_task = dispatcher.sched_task
        /\ d.zero_slack = dispatcher.zero_slack
        /\ d.signals = [signals EXCEPT ![r] = Tail(signals[r])]
    BY <1>1, <1>2 DEF Dispatchers, SameExecution
  <2>2. QED
    BY <1>1, <2>1, SameExecutionOK
<1>5. \/ signal.stop /\ Depart(d, r, "handler")
      \/ /\ ~signal.stop /\ task' = [task EXCEPT ![r] = "running"]
         /\ dispatcher' = d /\ UNCHANGED <<table, critVars, lock>>
  BY <1>3 DEF EnforcementSignal
<1> HIDE DEF d, signals, signal
<1>6. \A x \in Rids : d.signals[x] = IF x = r THEN Tail(signals[r]) ELSE signals[x]
  BY <1>2, <1>4
<1>7. Idle(d) /\ d.zero_slack = {}
  BY <1>1, <1>4 DEF AnswersOK, Idle
<1>8. AllPeriodic(d)
  <2>1. \A x \in Rids : \A i \in DOMAIN signals[x] : signals[x][i].periodic
    BY <1>1 DEF AnswersOK, AllPeriodic, signals
  <2>2. \A i \in DOMAIN Tail(signals[r]) : Tail(signals[r])[i].periodic
    <3>1. \A i \in DOMAIN Tail(signals[r]) :
            i + 1 \in DOMAIN signals[r]
              /\ Tail(signals[r])[i] = signals[r][i + 1]
      BY <1>2
    <3>2. QED
      BY <2>1, <3>1
  <2>3. QED
    BY <1>6, <2>1, <2>2 DEF AllPeriodic
<1>9. Answered(d, Live \ {r})
  <2>1. \A x \in Live \ {r} : d.signals[x] = dispatcher.signals[x]
    BY <1>6, LiveTask DEF signals
  <2>2. QED
    BY <1>1, <1>4, <2>1
       DEF AnswersOK, Answered, HeadIs, SameExecution, Signalled
<1>10. CASE signal.stop /\ Depart(d, r, "handler")
  BY <1>1, <1>4, <1>7, <1>8, <1>9, <1>10, DepartAnswers
<1>11. CASE /\ ~signal.stop /\ task' = [task EXCEPT ![r] = "running"]
            /\ dispatcher' = d /\ UNCHANGED <<table, critVars, lock>>
  <2>1. ASSUME NEW x \in Rids, Signalled(dispatcher, x)
        PROVE  Signalled(d, x)
    <3>1. PICK i \in DOMAIN signals[x] : signals[x][i].stop
      BY <2>1 DEF Signalled, signals
    <3>2. CASE x = r
      <4>1. i # 1
        <5>1. signal = signals[r][1] /\ ~signal.stop /\ signals[r][i].stop
          BY <1>2, <1>11, <3>1, <3>2
        <5>2. QED
          BY <5>1
      <4>2. QED
        <5>1. i \in DOMAIN signals[r]
          BY <3>1, <3>2
        <5>2. /\ i - 1 \in DOMAIN Tail(signals[r])
              /\ Tail(signals[r])[i - 1] = signals[r][i]
          BY <1>2, <4>1, <5>1
        <5>3. d.signals[r] = Tail(signals[r])
          BY <1>6
        <5>4. i - 1 \in DOMAIN d.signals[r] /\ d.signals[r][i - 1].stop
          BY <3>1, <3>2, <5>2, <5>3
        <5>5. QED
          BY <3>2, <5>4 DEF Signalled
    <3>3. CASE x # r
      BY <1>6, <3>1, <3>3 DEF Signalled
    <3>4. QED
      BY <3>2, <3>3
  <2>2. AnswersOK(dispatcher', Live)
    <3>1. \A x \in Live : Signalled(dispatcher, x) => Signalled(d, x)
      BY <2>1, LiveTask
    <3>2. AnswersOK(d, Live)
      BY <1>1, <1>4, <1>7, <1>8, <3>1, QuietAnswers DEF SameExecution
    <3>3. QED
      BY <1>11, <3>2
  <2>3. Live' = Live
    BY <1>1, <1>11 DEF Live, Alive, IInv, TypeOK
  <2>4. StoppedIdle' /\ Caller'
    BY <1>4, <1>11, <2>3
       DEF AnswerInv, StoppedIdle, Ready, Caller, SameExecution
  <2>5. QED
    BY <1>11, <2>2, <2>3, <2>4, AnswerStepMeans DEF AnswerInv, NoMode, critVars
<1>12. QED
  BY <1>5, <1>10, <1>11

\* The task of r exits, and its signals go with it.
LEMMA DieAnswers ==
  ASSUME IInv, AnswerInv, NEW r \in Rids, Die(r)
  PROVE  AnswerInv'
PROOF
<1> DEFINE none == <<>>
<1>1. /\ UNCHANGED <<table, critVars, lock>>
      /\ lock.by \in Departing => lock.rid # r
      /\ task' = [task EXCEPT ![r] = "dead"]
      /\ dispatcher' = [dispatcher EXCEPT !.signals[r] = none]
      /\ dispatcher \in Dispatchers /\ task \in [Rids -> TaskStates]
  BY DEF Die, IInv, TypeOK
<1> HIDE DEF none
<1>2. /\ SameExecution(dispatcher, dispatcher')
      /\ dispatcher'.reschedule = dispatcher.reschedule
      /\ dispatcher'.request_stop = dispatcher.request_stop
      /\ dispatcher'.sched_task = dispatcher.sched_task
      /\ dispatcher'.zero_slack = dispatcher.zero_slack
      /\ \A x \in Rids : dispatcher'.signals[x] = IF x = r THEN none
                                                  ELSE dispatcher.signals[x]
  BY <1>1 DEF Dispatchers, SameExecution
<1>3. Live' = Live \ {r} /\ Live \in SUBSET Rids
  BY <1>1 DEF Live, Alive
<1>4. AnswersOK(dispatcher, Live \ {r})
  BY FewerAnswers DEF AnswerInv
<1>5. AllPeriodic(dispatcher') /\ dispatcher'.zero_slack = {}
  BY <1>2, <1>4 DEF AnswersOK, AllPeriodic, none
<1>6. \A x \in Live \ {r} : Signalled(dispatcher, x) => Signalled(dispatcher', x)
  BY <1>2, <1>3 DEF Signalled
<1>7. AnswersOK(dispatcher', Live \ {r})
  BY <1>2, <1>4, <1>5, <1>6, QuietAnswers DEF SameExecution
<1>8. StoppedIdle' /\ Caller'
  BY <1>1, <1>2, <1>3
     DEF AnswerInv, StoppedIdle, Ready, Caller, SameExecution
<1>9. QED
  BY <1>1, <1>3, <1>7, <1>8, AnswerStepMeans DEF AnswerInv, NoMode, critVars

\* An arrival, from an idle dispatcher: whoever becomes the head is answered.
LEMMA StartOfPeriodAnswers ==
  ASSUME RateMonotonic, IInv, AnswerInv, Enter, NEW r \in Rids, Alive(r),
         StartOfPeriod(r)
  PROVE  AnswersOK(dispatcher', Live)
PROOF
<1> DEFINE late == [dispatcher EXCEPT !.enforcement[r] = Off]
           b == BudgetEnforcement(late, r, FALSE)
           stopped == IF Overrun(r) THEN Stop(b, r) ELSE dispatcher
           zero == 0
           fresh == [stopped EXCEPT !.current[r] = zero]
           d == ArmZeroSlack(fresh, r)
<1>1. /\ TypeOK /\ DispatcherOK(dispatcher) /\ dispatcher \in Dispatchers
      /\ Idle(dispatcher) /\ Unmarked /\ AnswersOK(dispatcher, Live)
      /\ priority \in [Rids -> Int] /\ Active(r)
      /\ Live \in SUBSET Rids /\ \A x \in Live : task[x] # "dead"
      /\ task[r] # "dead"
  BY EnterAnswered, LiveTask
     DEF AnswerInv, IInv, TypeOK, Alive, Active, Attached, Free, Live
<1>2. /\ DispatcherOK(late) /\ late \in Dispatchers
      /\ late.readyq = dispatcher.readyq
      /\ \A x \in Rids : x # r => late.enforcement[x] = dispatcher.enforcement[x]
      /\ SameRequests(dispatcher, late)
  <2>1. DispatcherOK(late)
    BY <1>1, EnforcementOffOK
  <2>2. QED
    BY <1>1, <2>1 DEF DispatcherOK, Dispatchers, SameRequests
<1> HIDE DEF late
<1>3. DispatcherOK(b) /\ b \in Dispatchers /\ SameExecution(late, b)
  BY <1>1, <1>2, BudgetEnforcementOK, BudgetEnforcementType DEF DispatcherOK
<1>4. AllPeriodic(b)
  <2>1. AllPeriodic(late)
    BY <1>1, <1>2 DEF AnswersOK, AllPeriodic, SameRequests
  <2>2. QED
    BY <1>1, <1>2, <2>1, BudgetEnforcementAsks
<1>5. /\ b.zero_slack = late.zero_slack \ {r}
      /\ \A x \in Rids : Signalled(late, x) => Signalled(b, x)
      /\ b.reschedule = late.reschedule
      /\ b.sched_task = late.sched_task
  <2>1. /\ b.zero_slack = late.zero_slack \ {r}
        /\ \A x \in Rids : Signalled(late, x) => Signalled(b, x)
        /\ Captured(r) /\ task[r] # "dead" /\ FALSE => Signalled(b, r)
        /\ Captured(r) \/ ~FALSE =>
             /\ b.reschedule = late.reschedule
             /\ b.request_stop = late.request_stop
             /\ b.sched_task = late.sched_task
    BY <1>1, <1>2, BudgetEnforcementSignals
  <2> HIDE DEF b
  <2>2. QED
    BY <2>1
<1> HIDE DEF b
<1>6. /\ Idle(b) /\ b.zero_slack = {} /\ Distinct(b.readyq)
      /\ OrderedBy(b.readyq, Higher(priority))
  <2>1. b.readyq \in Seq(Rids) /\ OrderedBy(b.readyq, Higher(priority))
    BY <1>3 DEF DispatcherOK, Dispatchers
  <2>2. Idle(b) /\ b.zero_slack = {}
    BY <1>1, <1>2, <1>5 DEF AnswersOK, Idle, SameRequests
  <2>3. QED
    BY <1>1, <2>1, <2>2, SortedDistinct
<1>7. Answered(b, Live \ {r})
  <2>1. \A x \in Live \ {r} :
          /\ HeadIs(b, x) => HeadIs(dispatcher, x)
          /\ b.enforcement[x] = dispatcher.enforcement[x]
          /\ Signalled(dispatcher, x) => Signalled(b, x)
    BY <1>1, <1>2, <1>3, <1>5
       DEF SameExecution, HeadIs, SameRequests, Signalled
  <2>2. dispatcher.reschedule = <<>>
    BY <1>1 DEF Idle
  <2>3. QED
    BY <1>1, <2>1, <2>2 DEF AnswersOK, Answered
<1>8. /\ AnswersOK(Stop(b, r), Live) /\ Stop(b, r).sched_task # "leaving"
      /\ Stop(b, r).reschedule # <<>> => HeadIs(b, r)
  BY <1>1, <1>3, <1>4, <1>6, <1>7, StopAnswers
<1>9. /\ DispatcherOK(stopped) /\ AnswersOK(stopped, Live)
      /\ stopped.sched_task # "leaving"
      /\ stopped.reschedule # <<>> =>
           HeadIs(b, r) /\ stopped.readyq = Stop(b, r).readyq
  <2>1. DispatcherOK(Stop(b, r))
    BY <1>1, <1>3, StopOK
  <2>2. CASE Overrun(r)
    BY <1>8, <2>1, <2>2
  <2>3. CASE ~Overrun(r)
    BY <1>1, <2>3 DEF Idle
  <2>4. QED
    BY <2>2, <2>3
<1> HIDE DEF stopped
<1>10. /\ fresh \in Dispatchers /\ fresh.readyq = stopped.readyq
       /\ fresh.enforcement = stopped.enforcement
       /\ SameRequests(stopped, fresh) /\ fresh.current[r] = zero
  <2>1. zero \in 0 .. MaxTicks
    BY ConstantsAssumption
  <2> HIDE DEF zero
  <2>2. QED
    BY <1>9, <2>1 DEF DispatcherOK, Dispatchers, SameRequests
<1>11. AnswersOK(fresh, Live)
  <2>1. \A x \in Live : Signalled(stopped, x) => Signalled(fresh, x)
    BY <1>10 DEF SameRequests, Signalled
  <2>2. AllPeriodic(fresh) /\ fresh.zero_slack = {}
    BY <1>9, <1>10 DEF AnswersOK, AllPeriodic, SameRequests
  <2> HIDE DEF fresh
  <2>3. QED
    BY <1>9, <1>10, <2>1, <2>2, QuietAnswers DEF SameRequests
<1>12. Budget(r) \in Int /\ Budget(r) > 0 /\ ~table[r].spec.zsinstant
  BY <1>1, SpecType DEF AnswerInv, Specified, RateMonotonic, Budget
<1>13. fresh.current[r] < Budget(r)
  BY <1>10, <1>12
<1> HIDE DEF fresh
<1>14. d = fresh
  BY <1>10, <1>12 DEF ArmZeroSlack, Dispatchers
<1>15. dispatcher' = IF Wakes(r) THEN Start(fresh, priority, r) ELSE fresh
  <2>1. ~Suspended(r)
    BY <1>1, CriticalityType DEF Suspended, AnswerInv, NoMode
  <2>2. dispatcher' = IF Wakes(r) THEN Start(d, priority, r) ELSE d
    BY <2>1 DEF StartOfPeriod, d, fresh, stopped, b, late
  <2> HIDE DEF d
  <2>3. QED
    BY <1>14, <2>2
<1>16. fresh.reschedule = <<>> \/ HeadIs(Start(fresh, priority, r), r)
  BY <1>1, <1>3, <1>6, <1>9, <1>10, RestartsFirst DEF SameRequests
<1>17. AnswersOK(Start(fresh, priority, r), Live)
  <2>1. fresh.sched_task # "leaving"
    BY <1>9, <1>10 DEF SameRequests
  <2>2. \A x \in Live \ {r} : task[x] # "dead"
    BY <1>1
  <2>3. \/ fresh.reschedule = <<>>
        \/ HeadIs(Start(fresh, priority, r), r) /\ fresh.current[r] < Budget(r)
    BY <1>13, <1>16
  <2>4. QED
    BY <1>1, <1>10, <1>11, <1>13, <2>1, <2>2, <2>3, StartAnswers
<1>18. QED
  BY <1>11, <1>15, <1>17

\* The deletion of a reserve without a task is asked for.
LEMMA ForceDeleteAnswerStep ==
  ASSUME AnswerInv, NEW d \in Dispatchers, NEW r \in Rids, Idle(d),
         ~Alive(r), AnswersOK(d, Live), d.readyq = dispatcher.readyq,
         ForceDelete(d, r), UNCHANGED <<critVars, lock>>
  PROVE  AnswerInv'
PROOF
<1>1. UNCHANGED <<table, task>> /\ r \notin Live /\ Live \in SUBSET Rids
  BY DEF ForceDelete, Live
<1>2. AnswersOK(dispatcher', Live) /\ dispatcher'.readyq = dispatcher.readyq
  BY <1>1, ForceDeleteAnswers
<1>3. Live' = Live
  BY <1>1 DEF Live, Alive
<1>4. StoppedIdle' /\ Caller'
  BY <1>1, <1>2, <1>3 DEF AnswerInv, StoppedIdle, Caller, Ready
<1>5. QED
  BY <1>1, <1>2, <1>3, <1>4, AnswerStepMeans DEF AnswerInv, NoMode, critVars

\* The period timer
LEMMA PeriodTimerAnswers ==
  ASSUME RateMonotonic, IInv, AnswerInv, NEW r \in Rids, PeriodTimer(r)
  PROVE  AnswerInv'
PROOF
<1>1. /\ TypeOK /\ dispatcher \in Dispatchers /\ Idle(dispatcher)
      /\ AnswersOK(dispatcher, Live) /\ UNCHANGED <<critVars, lock>> /\ Enter
  BY EnterAnswered DEF PeriodTimer
<1>2. CASE ~Alive(r)
  BY <1>1, <1>2, ForceDeleteAnswerStep DEF PeriodTimer
<1>3. CASE Alive(r)
  <2>1. StartOfPeriod(r)
    BY <1>3 DEF PeriodTimer
  <2>2. AnswersOK(dispatcher', Live)
    BY <1>1, <1>3, <2>1, StartOfPeriodAnswers
  <2>3. Ready' \subseteq Ready \cup {r}
    BY <1>3, <2>1, StartOfPeriodReplenishes DEF Replenished, Moved, Ready
  <2>4. ~Suspended(r)
    BY <1>1, CriticalityType DEF Suspended, AnswerInv, NoMode
  <2>5. /\ Arrived(r).pid = table[r].pid /\ Arrived(r).spec = table[r].spec
        /\ Arrived(r).enforced = FALSE
        /\ Arrived(r).end_of_period_marked = table[r].end_of_period_marked
    BY <1>1, <2>4 DEF Arrived, TypeOK, Reserves
  <2>6. /\ table' = [table EXCEPT ![r] = Arrived(r)]
        /\ task' \in {task, [task EXCEPT ![r] = "running"]}
    BY <2>1 DEF StartOfPeriod
  <2>7. /\ \A x \in Rids : x # r => table'[x] = table[x] /\ task'[x] = task[x]
        /\ table'[r] = Arrived(r) /\ task'[r] \in {task[r], "running"}
    BY <1>1, <2>6 DEF TypeOK
  <2>8. Live' = Live
    BY <1>3, <2>5, <2>7 DEF Live, Alive
  <2>9. StoppedIdle'
    BY <2>3, <2>5, <2>7, StoppedStayIdle
  <2>10. Caller'
    BY <1>1, <2>8 DEF AnswerInv, Caller
  <2>11. QED
    BY <1>1, <2>2, <2>5, <2>7, <2>8, <2>9, <2>10, AnswerStepMeans
       DEF AnswerInv, NoMode, critVars
<1>4. QED
  BY <1>2, <1>3

\* The enforcement timer: the head is to be stopped, or its task is signalled.
LEMMA EnforcementTimerAnswers ==
  ASSUME RateMonotonic, IInv, AnswerInv, NEW r \in Rids, EnforcementTimer(r)
  PROVE  AnswerInv'
PROOF
<1> DEFINE d == [dispatcher EXCEPT !.enforcement[r] = Off]
           b == BudgetEnforcement(d, r, TRUE)
<1>1. /\ TypeOK /\ dispatcher \in Dispatchers /\ Idle(dispatcher)
      /\ AnswersOK(dispatcher, Live) /\ UNCHANGED <<critVars, lock>>
      /\ dispatcher.enforcement[r] = 0 /\ Live \in SUBSET Rids /\ Unmarked
  BY EnterAnswered DEF AnswerInv, EnforcementTimer, Live
<1>2. HeadIs(dispatcher, r)
  BY <1>1 DEF IInv, BudgetTimerSound, Current, HeadIs, Off
<1>3. /\ d \in Dispatchers /\ d.readyq = dispatcher.readyq
      /\ SameRequests(dispatcher, d)
      /\ \A x \in Rids : x # r => d.enforcement[x] = dispatcher.enforcement[x]
  <2>1. Off \in Off .. MaxTicks
    BY ConstantsAssumption DEF Off
  <2>2. QED
    BY <1>1, <2>1 DEF Dispatchers, SameRequests
<1>4. /\ ~Alive(r) /\ ForceDelete(d, r)
      \/ /\ Alive(r) /\ dispatcher' = b
         /\ UNCHANGED <<table, task>>
  BY DEF EnforcementTimer
<1> HIDE DEF d
<1>5. /\ Idle(d) /\ d.zero_slack = {} /\ AllPeriodic(d)
      /\ RequestsOK(d, Live) /\ Answered(d, Live \ {r})
  BY <1>1, <1>2, <1>3
     DEF AnswersOK, AllPeriodic, Answered, Idle, RequestsOK, HeadIs,
         SameRequests
<1>6. CASE ~Alive(r)
  <2>1. AnswersOK(d, Live)
    <3>1. Live \ {r} = Live
      BY <1>6 DEF Live
    <3>2. QED
      BY <1>5, <3>1 DEF AnswersOK
  <2>2. QED
    BY <1>1, <1>3, <1>4, <1>5, <1>6, <2>1, ForceDeleteAnswerStep
<1>7. CASE Alive(r)
  <2>1. dispatcher' = b /\ UNCHANGED <<table, task>> /\ task[r] # "dead"
    BY <1>4, <1>7 DEF Alive
  <2>2. SameExecution(d, b) /\ AllPeriodic(b)
    BY <1>1, <1>3, <1>5, BudgetEnforcementType, BudgetEnforcementAsks
  <2>3. b.readyq = dispatcher.readyq
    BY <1>3, <2>2 DEF SameExecution
  <2>4. /\ b.zero_slack = d.zero_slack \ {r}
        /\ \A x \in Rids : Signalled(d, x) => Signalled(b, x)
        /\ Captured(r) /\ task[r] # "dead" /\ TRUE => Signalled(b, r)
        /\ Captured(r) \/ ~TRUE =>
             /\ b.reschedule = d.reschedule
             /\ b.request_stop = d.request_stop
             /\ b.sched_task = d.sched_task
    BY <1>1, <1>3, BudgetEnforcementSignals
  <2> HIDE DEF b
  <2>5. HeadIs(b, r) /\ \A x \in Rids : HeadIs(b, x) => x = r
    BY <1>2, <2>3 DEF HeadIs
  <2>6. Answered(b, Live) /\ RequestsOK(b, Live)
    <3>1. CASE Captured(r)
      <4>1. Signalled(b, r) /\ b.reschedule = <<>>
        BY <1>5, <2>1, <2>4, <3>1 DEF Idle
      <4>2. QED
        BY <1>1, <2>5, <4>1 DEF Answered, RequestsOK
    <3>2. CASE ~Captured(r)
      <4>1. /\ BudgetEnforcement(d, r, TRUE).zero_slack = d.zero_slack \ {r}
            /\ BudgetEnforcement(d, r, TRUE).signals = d.signals
            /\ BudgetEnforcement(d, r, TRUE).request_stop = d.request_stop \cup {r}
            /\ BudgetEnforcement(d, r, TRUE).reschedule = <<r>>
            /\ BudgetEnforcement(d, r, TRUE).sched_task = "running"
        BY <1>3, <1>5, <3>2, StopRequestMeans
      <4>2. /\ r \in b.request_stop /\ b.reschedule = <<r>>
            /\ b.sched_task = "running"
        BY <4>1 DEF b
      <4>3. r \in ToSet(b.readyq)
        BY <1>1, <1>2, <2>3, HeadMember DEF HeadIs
      <4>4. QED
        BY <1>1, <2>5, <4>2, <4>3 DEF Answered, RequestsOK
    <3>3. QED
      BY <3>1, <3>2
  <2>7. AnswersOK(b, Live)
    BY <1>5, <2>2, <2>4, <2>6 DEF AnswersOK
  <2>8. Live' = Live
    BY <2>1 DEF Live, Alive
  <2>9. StoppedIdle' /\ Caller'
    BY <1>1, <2>1, <2>3, <2>8 DEF AnswerInv, StoppedIdle, Caller, Ready
  <2>10. QED
    BY <1>1, <2>1, <2>7, <2>8, <2>9, AnswerStepMeans
       DEF AnswerInv, NoMode, critVars
<1>8. QED
  BY <1>6, <1>7

\* With its request taken, the scheduler thread finds an idle dispatcher.
LEMMA PopAnswers ==
  ASSUME IInv, AnswerInv, dispatcher.reschedule # <<>>,
         NEW r, r = Last(dispatcher.reschedule),
         NEW d, d = [dispatcher EXCEPT !.reschedule = Front(@)]
  PROVE  /\ r \in Rids /\ DispatcherOK(d) /\ Idle(d)
         /\ SameExecution(dispatcher, d)
         /\ d.request_stop = dispatcher.request_stop
         /\ AnswersOK(d, Live \ {r})
         /\ r \in Live => r \in dispatcher.request_stop /\ r \in Ready
PROOF
<1>1. /\ dispatcher \in Dispatchers /\ DispatcherOK(dispatcher)
      /\ AnswersOK(dispatcher, Live) /\ dispatcher.sched_task = "running"
  BY DispatcherInvariant DEF IInv, TypeOK, AnswerInv, AnswersOK, RequestsOK
<1>2. /\ dispatcher.reschedule = <<r>> /\ r \in Rids
      /\ r \in Live => r \in dispatcher.request_stop /\ r \in Ready
  BY <1>1 DEF AnswersOK, RequestsOK, Last, Ready
<1>3. Front(<<r>>) = <<>>
  BY DEF Front
<1>4. d = [dispatcher EXCEPT !.reschedule = <<>>]
  BY <1>2, <1>3
<1>5. /\ d \in Dispatchers /\ SameExecution(dispatcher, d) /\ d.reschedule = <<>>
      /\ d.sched_task = "running" /\ d.signals = dispatcher.signals
      /\ d.zero_slack = dispatcher.zero_slack
      /\ d.request_stop = dispatcher.request_stop
  <2>1. <<>> \in Seq(Rids)
    OBVIOUS
  <2>2. d \in Dispatchers /\ d.reschedule = <<>>
    BY <1>1, <1>4, <2>1 DEF Dispatchers
  <2>3. SameExecution(dispatcher, d) /\ d.sched_task = dispatcher.sched_task
    BY <1>1, <1>4 DEF Dispatchers, SameExecution
  <2>4. /\ d.signals = dispatcher.signals
        /\ d.zero_slack = dispatcher.zero_slack
        /\ d.request_stop = dispatcher.request_stop
    BY <1>1, <1>4 DEF Dispatchers
  <2>5. QED
    BY <1>1, <2>2, <2>3, <2>4
<1>6. DispatcherOK(d)
  BY <1>1, <1>5, SameExecutionOK
<1>7. /\ RequestsOK(d, Live \ {r}) /\ Idle(d) /\ AllPeriodic(d)
      /\ d.zero_slack = {}
  BY <1>1, <1>5 DEF AnswersOK, AllPeriodic, RequestsOK, Idle
<1>8. Answered(d, Live \ {r})
  <2>1. \A h \in Live \ {r} : dispatcher.reschedule # <<h>>
    BY <1>2
  <2>2. QED
    BY <1>1, <1>5, <2>1
       DEF AnswersOK, Answered, HeadIs, SameExecution, Signalled
<1>9. QED
  BY <1>2, <1>5, <1>6, <1>7, <1>8 DEF AnswersOK

\* The scheduler thread stops a job.
LEMMA StopRequestedAnswers ==
  ASSUME IInv, AnswerInv, NEW d, DispatcherOK(d), Idle(d),
         SameExecution(dispatcher, d), NEW r \in Rids,
         AnswersOK(d, Live \ {r}),
         r \in Live => r \in Ready,
         StopRequested(d, r), UNCHANGED critVars, lock'.by = "sched"
  PROVE  AnswerInv'
PROOF
<1> DEFINE e == [d EXCEPT !.request_stop = @ \ {r}]
           t == [table EXCEPT ![r].enforced = TRUE]
<1>1. /\ TypeOK /\ Unmarked /\ Live \in SUBSET Rids
      /\ table \in [Rids -> Reserves] /\ task \in [Rids -> TaskStates]
      /\ \A x \in Live : task[x] # "dead"
  BY LiveTask DEF IInv, TypeOK, AnswerInv, Live
<1>2. /\ e \in Dispatchers /\ SameExecution(d, e) /\ Idle(e)
      /\ e.reschedule = d.reschedule /\ e.sched_task = d.sched_task
      /\ e.signals = d.signals /\ e.zero_slack = d.zero_slack
  BY DEF DispatcherOK, Dispatchers, SameExecution, Idle
<1>3. /\ DispatcherOK(e) /\ e.readyq = dispatcher.readyq
      /\ Distinct(e.readyq) /\ e.readyq \in Seq(Rids)
  <2>1. DispatcherOK(e) /\ e.readyq = dispatcher.readyq
    BY <1>2, SameExecutionOK DEF SameExecution
  <2>2. QED
    BY <1>1, <2>1, SortedDistinct DEF DispatcherOK, Dispatchers, TypeOK
<1>4. AnswersOK(e, Live \ {r})
  <2>1. /\ AllPeriodic(e) /\ e.zero_slack = {}
        /\ \A x \in Live \ {r} : Signalled(d, x) => Signalled(e, x)
    BY <1>2 DEF AnswersOK, AllPeriodic, Signalled
  <2> HIDE DEF e
  <2>2. QED
    BY <1>2, <2>1, QuietAnswers DEF SameExecution, Idle
<1>5. /\ t \in [Rids -> Reserves]
      /\ \A x \in Rids : /\ t[x].pid = table[x].pid
                         /\ t[x].spec = table[x].spec
                         /\ t[x].end_of_period_marked =
                              table[x].end_of_period_marked
                         /\ x # r => t[x] = table[x]
  BY <1>1 DEF Reserves
<1>6. \/ /\ table[r].enforced /\ dispatcher' = e /\ UNCHANGED <<table, task>>
      \/ DeleteReserve(e, t, r)
      \/ /\ Alive(r) /\ dispatcher' = Stop(e, r)
         /\ table' = [t EXCEPT ![r].start_period = @ - 1]
         /\ task' = [task EXCEPT ![r] = Sleeping(@)]
  BY DEF StopRequested
<1> HIDE DEF e, t
<1>7. Caller' /\ lock'.by # "zs"
  BY DEF Caller, Departing
<1>8. CASE table[r].enforced /\ dispatcher' = e /\ UNCHANGED <<table, task>>
  <2>1. r \notin Live
    BY <1>8 DEF AnswerInv, StoppedIdle, Live, Alive
  <2>2. Live' = Live /\ Live \ {r} = Live
    BY <1>8, <2>1 DEF Live, Alive
  <2>3. StoppedIdle'
    BY <1>3, <1>8 DEF AnswerInv, StoppedIdle, Ready
  <2>4. QED
    BY <1>4, <1>7, <1>8, <2>2, <2>3, AnswerStepMeans
       DEF AnswerInv, NoMode, critVars
<1>9. CASE DeleteReserve(e, t, r)
  BY <1>2, <1>3, <1>4, <1>5, <1>9, DeleteAnswerInv
<1>10. CASE /\ Alive(r) /\ dispatcher' = Stop(e, r)
            /\ table' = [t EXCEPT ![r].start_period = @ - 1]
            /\ task' = [task EXCEPT ![r] = Sleeping(@)]
  <2>1. AnswersOK(dispatcher', Live)
    BY <1>1, <1>2, <1>3, <1>4, <1>10, StopAnswers DEF AnswersOK
  <2>2. Ready' = Ready \ {r}
    <3>1. ToSet(Dequeue(e.readyq, r)) = ToSet(e.readyq) \ {r}
      BY <1>3, DequeueProperties
    <3>2. Stop(e, r).readyq = Dequeue(e.readyq, r)
      BY <1>1, <1>2, <1>3, StopType
    <3>3. QED
      BY <1>3, <1>10, <3>1, <3>2 DEF Ready
  <2>3. /\ \A x \in Rids : x # r => table'[x] = table[x] /\ task'[x] = task[x]
        /\ table'[r].pid = table[r].pid /\ table'[r].spec = table[r].spec
        /\ table'[r].end_of_period_marked = table[r].end_of_period_marked
        /\ task'[r] \in {"sleeping", "masked"}
    BY <1>1, <1>5, <1>10 DEF Reserves, Sleeping
  <2>4. Live' = Live
    BY <1>10, <2>3 DEF Live, Alive
  <2>5. StoppedIdle'
    BY <2>2, <2>3, StoppedStayIdle
  <2>6. QED
    BY <1>7, <2>1, <2>3, <2>4, <2>5, AnswerStepMeans
       DEF AnswerInv, NoMode, critVars
<1>11. QED
  BY <1>6, <1>8, <1>9, <1>10

\* The scheduler thread
LEMMA SchedulerPopAnswers ==
  ASSUME IInv, AnswerInv, SchedulerPop
  PROVE  AnswerInv'
PROOF
<1> DEFINE r == Last(dispatcher.reschedule)
           d == [dispatcher EXCEPT !.reschedule = Front(@)]
<1>1. /\ \/ r \in dispatcher.request_stop /\ StopRequested(d, r)
         \/ r \notin dispatcher.request_stop /\ RestartRequested(d, r)
      /\ UNCHANGED critVars /\ lock' = [Unlocked EXCEPT !.by = "sched"]
  BY DEF SchedulerPop
<1>2. /\ r \in Rids /\ DispatcherOK(d) /\ Idle(d)
      /\ SameExecution(dispatcher, d) /\ AnswersOK(d, Live \ {r})
      /\ r \in Live => r \in dispatcher.request_stop /\ r \in Ready
  BY PopAnswers DEF SchedulerPop
<1>3. lock'.by = "sched"
  BY <1>1 DEF Unlocked
<1> HIDE DEF r, d
<1>4. CASE StopRequested(d, r)
  BY <1>1, <1>2, <1>3, <1>4, StopRequestedAnswers
<1>5. CASE r \notin dispatcher.request_stop /\ RestartRequested(d, r)
  <2>1. DeleteReserve(d, table, r)
    BY <1>2, <1>5 DEF RestartRequested, Live
  <2>2. table \in [Rids -> Reserves]
    BY DEF IInv, TypeOK
  <2>3. d.readyq = dispatcher.readyq
    BY <1>2 DEF SameExecution
  <2>4. QED
    BY <1>1, <1>2, <1>3, <2>1, <2>2, <2>3, DeleteAnswerInv
<1>6. QED
  BY <1>1, <1>4, <1>5

\* The scheduler thread unlocks and goes to sleep.
LEMMA SchedulerRestAnswers ==
  ASSUME IInv, AnswerInv, SchedulerUnlock \/ SchedulerSleep
  PROVE  AnswerInv'
PROOF
<1>1. dispatcher \in Dispatchers /\ AnswersOK(dispatcher, Live)
  BY DEF IInv, TypeOK, AnswerInv
<1>2. PICK s \in {"leaving", "asleep"} :
        dispatcher' = [dispatcher EXCEPT !.sched_task = s]
  BY DEF SchedulerUnlock, SchedulerSleep
<1>3. dispatcher.reschedule = <<>> /\ lock' \in {lock, Unlocked}
      /\ UNCHANGED <<table, task, critVars>>
  BY <1>1 DEF SchedulerUnlock, SchedulerSleep, AnswersOK, RequestsOK
<1>4. /\ SameExecution(dispatcher, dispatcher')
      /\ dispatcher'.reschedule = <<>> /\ dispatcher'.signals = dispatcher.signals
      /\ dispatcher'.zero_slack = dispatcher.zero_slack
  BY <1>1, <1>2, <1>3 DEF Dispatchers, SameExecution
<1>5. AnswersOK(dispatcher', Live)
  BY <1>1, <1>3, <1>4
     DEF AnswersOK, AllPeriodic, Answered, RequestsOK, HeadIs, SameExecution,
         Signalled
<1>6. Live' = Live
  BY <1>3 DEF Live, Alive
<1>7. StoppedIdle'
  BY <1>3, <1>4 DEF AnswerInv, StoppedIdle, Ready, SameExecution
<1>8. Caller' /\ lock'.by # "zs"
  BY <1>3, <1>6 DEF AnswerInv, Caller, NoMode, Unlocked, Departing
<1>9. QED
  BY <1>3, <1>5, <1>6, <1>7, <1>8, AnswerStepMeans
     DEF AnswerInv, NoMode, critVars

\* A departure ends: no reserve is blocked, and none is in critical mode.
LEMMA ContinueAnswers ==
  ASSUME IInv, AnswerInv, Continue
  PROVE  AnswerInv'
PROOF
<1>1. ~ReleaseBlocked /\ ~ZeroSlackScan
  BY DEF ReleaseBlocked, MoreBlocked, ZeroSlackScan, AnswerInv, NoMode
<1>2. FinishDeparture /\ lock.rid \in Live
  BY <1>1 DEF Continue, FinishDeparture, AnswerInv, Caller
<1>3. lock.rid \in Rids /\ table \in [Rids -> Reserves]
      /\ task \in [Rids -> TaskStates]
  BY <1>2 DEF Live, IInv, TypeOK
<1>4. /\ UNCHANGED <<dispatcher, critVars>> /\ lock' = Unlocked
      /\ \/ /\ task' = [task EXCEPT ![lock.rid] = Asleep(lock.by)]
            /\ table' = [table EXCEPT ![lock.rid].num_period_wakeups = Dec(@)]
         \/ UNCHANGED <<task, table>>
  BY <1>2 DEF FinishDeparture
<1>5. Asleep(lock.by) \in {"sleeping", "masked"}
  BY DEF Asleep
<1>6. \A x \in Rids : /\ table'[x].pid = table[x].pid
                      /\ table'[x].spec = table[x].spec
                      /\ table'[x].enforced = table[x].enforced
                      /\ table'[x].end_of_period_marked =
                           table[x].end_of_period_marked
                      /\ x # lock.rid => task'[x] = task[x]
                      /\ x = lock.rid => task'[x] \in {task[x], "sleeping", "masked"}
  BY <1>3, <1>4, <1>5 DEF Reserves
<1>7. Live' = Live
  BY <1>2, <1>6 DEF Live, Alive
<1>8. StoppedIdle'
  BY <1>4, <1>6 DEF AnswerInv, StoppedIdle, Ready
<1>9. Caller' /\ lock'.by # "zs"
  BY <1>4 DEF Caller, Unlocked, Departing
<1>10. AnswersOK(dispatcher', Live')
  BY <1>4, <1>7 DEF AnswerInv
<1>11. QED
  BY <1>4, <1>6, <1>8, <1>9, <1>10, AnswerStepMeans
     DEF AnswerInv, NoMode, critVars

\* A tick: an armed timer has not expired yet, and stays armed.
LEMMA TickAnswers ==
  ASSUME IInv, AnswerInv, Tick
  PROVE  AnswerInv'
PROOF
<1>1. /\ dispatcher \in Dispatchers /\ AnswersOK(dispatcher, Live)
      /\ Live \in SUBSET Rids
  BY DEF IInv, TypeOK, AnswerInv, Live
<1>2. /\ UNCHANGED <<table, task, critVars, lock>>
      /\ \A r \in Rids : dispatcher.enforcement[r] # 0
      /\ dispatcher' = [dispatcher EXCEPT
           !.elapsed = Capped(@ + 1),
           !.enforcement = [r \in Rids |-> IF @[r] = Off THEN Off ELSE @[r] - 1]]
  BY DEF Tick
<1>3. /\ dispatcher'.readyq = dispatcher.readyq
      /\ SameRequests(dispatcher, dispatcher')
      /\ \A r \in Rids : dispatcher'.enforcement[r] =
           IF dispatcher.enforcement[r] = Off THEN Off
           ELSE dispatcher.enforcement[r] - 1
  BY <1>1, <1>2 DEF Dispatchers, SameRequests
<1>4. ASSUME NEW x \in Rids, dispatcher'.enforcement[x] = Off
      PROVE  dispatcher.enforcement[x] = Off
  <2>1. dispatcher.enforcement[x] \in Off .. MaxTicks
        /\ dispatcher.enforcement[x] # 0
    BY <1>1, <1>2 DEF Dispatchers
  <2>2. QED
    BY <1>3, <1>4, <2>1, ConstantsAssumption DEF Off
<1>5. Answered(dispatcher', Live)
  BY <1>1, <1>3, <1>4
     DEF AnswersOK, Answered, HeadIs, SameRequests, Signalled
<1>6. AnswersOK(dispatcher', Live)
  BY <1>1, <1>3, <1>5 DEF AnswersOK, AllPeriodic, RequestsOK, SameRequests
<1>7. Live' = Live
  BY <1>2 DEF Live, Alive
<1>8. StoppedIdle' /\ Caller'
  BY <1>2, <1>3, <1>7 DEF AnswerInv, StoppedIdle, Caller, Ready
<1>9. QED
  BY <1>2, <1>6, <1>7, <1>8, AnswerStepMeans DEF AnswerInv, NoMode, critVars

\* Every step leaves the head answered.
LEMMA AnswerStep ==
  ASSUME RateMonotonic, IInv, IInv', AnswerInv, Unmarked', [Next]_vars
  PROVE  AnswerInv'
PROOF
<1>1. CASE \E spec \in Specs, admitted \in BOOLEAN :
             CreateReserve(spec, admitted)
  BY <1>1, CreateReserveAnswers
<1>2. ASSUME NEW r \in Rids, SystemCall(r) \/ EnforcementSignal(r) \/ Die(r)
      PROVE  AnswerInv'
  BY <1>2, SystemCallAnswers, EnforcementSignalAnswers, DieAnswers
<1>3. ASSUME NEW r \in Rids, Timer(r)
      PROVE  AnswerInv'
  <2>1. ~ZeroSlackTimer(r)
    BY DEF ZeroSlackTimer, AnswerInv, AnswersOK
  <2>2. QED
    BY <1>3, <2>1, PeriodTimerAnswers, EnforcementTimerAnswers DEF Timer
<1>4. CASE SchedulerTask
  BY <1>4, SchedulerPopAnswers, SchedulerRestAnswers DEF SchedulerTask
<1>5. CASE Continue
  BY <1>5, ContinueAnswers
<1>6. CASE Tick
  BY <1>6, TickAnswers
<1>7. CASE UNCHANGED vars
  <2>1. UNCHANGED <<table, task, dispatcher, critVars, lock>>
    BY <1>7 DEF vars
  <2>2. Live' = Live
    BY <2>1 DEF Live, Alive
  <2>3. StoppedIdle' /\ Caller' /\ AnswersOK(dispatcher', Live')
    BY <2>1, <2>2 DEF AnswerInv, StoppedIdle, Caller, Ready
  <2>4. QED
    BY <2>1, <2>3, AnswerStepMeans DEF AnswerInv, NoMode, critVars
<1>8. QED
  BY <1>1, <1>2, <1>3, <1>4, <1>5, <1>6, <1>7 DEF Next

\* Nothing runs at first.
LEMMA AnswerInit ==
  ASSUME Init
  PROVE  AnswerInv
PROOF
<1>1. Live = {} /\ Unmarked /\ Specified /\ StoppedIdle
  BY DEF Init, Live, Alive, Unmarked, Specified, Active, StoppedIdle,
         Free, Attached
<1>2. AnswersOK(dispatcher, {})
  BY DEF Init, AnswersOK, AllPeriodic, Answered, RequestsOK
<1>3. NoMode /\ Caller
  BY DEF Init, NoMode, EmptyList, Unlocked, Caller, Departing
<1>4. QED
  BY <1>1, <1>2, <1>3 DEF AnswerInv

\* The invariant of captured signals holds as long as no job is ended by
\* end_of_period.
THEOREM AnswerInvariance ==
  ASSUME RateMonotonic
  PROVE  Spec /\ []Unmarked => [](IInv /\ AnswerInv)
PROOF
<1>1. Init => IInv /\ AnswerInv
  BY InitOK, AnswerInit
<1>2. IInv /\ IInv' /\ AnswerInv /\ Unmarked' /\ [Next]_vars => AnswerInv'
  BY AnswerStep
<1>3. Spec => []IInv
  BY Invariance, PTL
<1>4. QED
  BY <1>1, <1>2, <1>3, PTL DEF Spec

\* As long as no job is ended by end_of_period, a head whose timer has run out
\* has been sent a signal that makes it depart, and the signal is still to be
\* taken: no arrival, deletion, preemption or signal taken before it loses it,
\* whichever tasks capture their signals and give them up again.
THEOREM ExhaustedStaysSignalled ==
  ASSUME RateMonotonic
  PROVE  Spec => ExhaustedSignalled
PROOF
<1>1. IInv /\ AnswerInv => HeadSignalled
  <2> SUFFICES ASSUME IInv, AnswerInv, Settled, dispatcher.readyq # <<>>,
                      Alive(Current), dispatcher.enforcement[Current] = Off
               PROVE  Signalled(dispatcher, Current)
    BY DEF HeadSignalled, Signalled
  <2>1. Current \in Live
    BY HeadMember DEF Live, Current, IInv, TypeOK
  <2>2. dispatcher.reschedule # <<Current>>
    BY DEF Settled
  <2>3. QED
    BY <2>1, <2>2 DEF AnswerInv, AnswersOK, Answered, HeadIs, Current
<1>2. QED
  BY <1>1, AnswerInvariance, PTL DEF ExhaustedSignalled

\* StoppedStaysStopped also holds where tasks capture their signals, as long
\* as no job is ended by end_of_period: a job that the scheduler thread has
\* stopped is not resumed by a signal that was sent earlier, although its task
\* then runs, or by giving the capture up.
THEOREM StoppedStaysStoppedCapturing ==
  ASSUME RateMonotonic
  PROVE  Spec /\ []Unmarked => StoppedUntilNextPeriod
PROOF
<1>1. (IInv /\ AnswerInv)' =>
        \A r \in Rids : Enters(r) /\ table[r].pid = Attached =>
          ~table'[r].enforced
  BY DEF IInv, AnswerInv, StoppedIdle, ReadyAttached, Enters
<1>2. QED
  BY <1>1, AnswerInvariance, PTL DEF StoppedUntilNextPeriod
=============================================================================
