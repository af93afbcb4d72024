------------------------------- MODULE Zsrmv -------------------------------
(***************************************************************************)
(* The zero-slack rate-monotonic scheduler of zsrmv.c.                     *)
(*                                                                         *)
(* Every handler of the module runs with zsrmlock held: the system calls   *)
(* of zsrm_write, the three kernel timers of a reserve (period, budget     *)
(* enforcement, zero slack) and the pops of scheduler_task.  A handler     *)
(* without a loop is one action; the loops of zs_enforcement,              *)
(* wait_for_next_period and scheduler_task are one action per iteration,   *)
(* with lock saying who holds zsrmlock in between.                         *)
(*                                                                         *)
(* Time is kept only where a budget is charged: a tick is a unit of        *)
(* execution of the head of the ready queue.  Period and zero-slack timers *)
(* may expire at any time while they are armed.                            *)
(***************************************************************************)
EXTENDS ReserveQueues

CONSTANTS
  Specs,           \* parameters a client may create a reserve with
  MinPriority,     \* MIN_PRIORITY
  MaxTicks,        \* bound: execution beyond it is not told apart
  UintMod,         \* 2^w, w the width of an unsigned int
  MaxDrift,        \* bound: a task with start_period at -MaxDrift departs no more
  MaxSignals,      \* bound: no timer expires while a task has that many signals
  Calls,           \* the calls tasks make: "wait", "release", "capture", "delete"
  Mortal,          \* bound: the reserves whose task may exit
  SchedFirst       \* no handler runs while the scheduler thread is awake

Spec_t == [period : Nat, criticality : Nat, exectime : 0 .. MaxTicks,
           nominal : Nat, zsinstant : BOOLEAN, priority : Nat]

ASSUME ConstantsAssumption ==
  /\ Specs \subseteq Spec_t
  /\ MinPriority \in Nat
  /\ MaxTicks \in Nat
  /\ UintMod \in Nat \ {0, 1}
  /\ MaxDrift \in Nat
  /\ MaxSignals \in Nat
  /\ SchedFirst \in BOOLEAN

VARIABLES
  table,               \* reserve_table, less the fields of the variables below
  task,                \* the task attached to each reserve
  priority,            \* reserve_table[].priority
  rm_queue,            \* the list rm_head, rm_next
  dispatcher,          \* ready queue, accounting, enforcement, reschedule stack
  period_timer,        \* reserves whose period timer is armed
  critical_reservesq,  \* the criticality stack
  crit_blockq,         \* the reserves blocked by a more critical one
  sys_criticality,
  lock                 \* the holder of zsrmlock between two steps of a loop

critVars == <<critical_reservesq, crit_blockq, sys_criticality>>
vars == <<table, task, priority, rm_queue, dispatcher, period_timer,
          critVars, lock>>

NoSpec == [period |-> 0, criticality |-> 0, exectime |-> 0, nominal |-> 0,
           zsinstant |-> FALSE, priority |-> 0]

\* pid -1, 0 and > 0.
Free == "free"
Created == "created"
Attached == "attached"

Reserves ==
  [pid : {Free, Created, Attached}, spec : Specs \cup {NoSpec},
   start_period : Int, enforced : BOOLEAN, in_critical_mode : BOOLEAN,
   non_periodic_wait : BOOLEAN, end_of_period_marked : BOOLEAN,
   num_period_wakeups : 0 .. UintMod - 1, num_wait_release : BOOLEAN,
   enforcement_signal_captured : BOOLEAN]

\* No enforcement timer.
Off == -1

(***************************************************************************)
(* The dispatcher.  elapsed is the time since start_ticks of the head of   *)
(* the ready queue; enforcement[r] the time left on an armed timer.        *)
(***************************************************************************)
Dispatchers ==
  [readyq : Seq(Rids), current : [Rids -> 0 .. MaxTicks],
   elapsed : 0 .. MaxTicks, enforcement : [Rids -> Off .. MaxTicks],
   zero_slack : SUBSET Rids, request_stop : SUBSET Rids,
   reschedule : Seq(Rids), sched_task : {"asleep", "running", "leaving"},
   signals : [Rids -> Seq([stop : BOOLEAN, periodic : BOOLEAN])]]

\* A task that sleeps in its enforcement handler takes no signal ("masked").
TaskStates == {"none", "running", "sleeping", "masked", "dead"}

Departing == {"wait", "handler", "end"}

Locks == [by : {"free", "sched", "zs", "wait", "handler", "end"},
          rid : Rids,
          at : Nat, wake : BOOLEAN, blocked : {"keep", "drop", "resume"}]

Unlocked == [by |-> "free", rid |-> 0, at |-> 0, wake |-> FALSE,
             blocked |-> "keep"]

TypeOK ==
  /\ table \in [Rids -> Reserves]
  /\ task \in [Rids -> TaskStates]
  /\ priority \in [Rids -> Int]
  /\ rm_queue \in Seq(Rids)
  /\ dispatcher \in Dispatchers
  /\ period_timer \in SUBSET Rids
  /\ critical_reservesq \in Lists
  /\ crit_blockq \in Lists
  /\ sys_criticality \in Nat
  /\ lock \in Locks

Init ==
  /\ table = [r \in Rids |->
       [pid |-> Free, spec |-> NoSpec, start_period |-> 0,
        enforced |-> FALSE, in_critical_mode |-> FALSE,
        non_periodic_wait |-> FALSE, end_of_period_marked |-> FALSE,
        num_period_wakeups |-> 0, num_wait_release |-> FALSE,
        enforcement_signal_captured |-> FALSE]]
  /\ task = [r \in Rids |-> "none"]
  /\ priority = [r \in Rids |-> 0]
  /\ rm_queue = <<>>
  /\ dispatcher = [readyq |-> <<>>, current |-> [r \in Rids |-> 0],
                   elapsed |-> 0, enforcement |-> [r \in Rids |-> Off],
                   zero_slack |-> {}, request_stop |-> {}, reschedule |-> <<>>,
                   sched_task |-> "asleep", signals |-> [r \in Rids |-> <<>>]]
  /\ period_timer = {}
  /\ critical_reservesq = EmptyList
  /\ crit_blockq = EmptyList
  /\ sys_criticality = 0
  /\ lock = Unlocked

-----------------------------------------------------------------------------
Criticality(r) == table[r].spec.criticality

Active(r) == table[r].pid # Free

\* gettask() finds the task of r.
Alive(r) == table[r].pid = Attached /\ task[r] \notin {"none", "dead"}

Capped(n) == IF n > MaxTicks THEN MaxTicks ELSE n

\* Mutant of Dec: the counter is a signed int.
DecSigned(w) == w - 1

\* unsigned int arithmetic
Inc(w) == (w + 1) % UintMod
Dec(w) == (w + UintMod - 1) % UintMod

-----------------------------------------------------------------------------
(***************************************************************************)
(* The functions that change the dispatcher, from one dispatcher to the    *)
(* next.                                                                   *)
(***************************************************************************)

PushToReschedule(d, r) ==
  [d EXCEPT !.reschedule = IF Len(@) < MaxReserves THEN Append(@, r) ELSE @]

\* wake_up_process(sched_task).  A thread that has not yet marked itself
\* TASK_INTERRUPTIBLE is not woken.
WakeScheduler(d) ==
  [d EXCEPT !.sched_task = IF @ = "asleep" THEN "running" ELSE @]

BudgetEnforcement(d, r, stop) ==
  LET e == [d EXCEPT !.zero_slack = @ \ {r}]
      signal == [stop |-> stop, periodic |-> ~table[r].end_of_period_marked]
  IN IF table[r].enforcement_signal_captured
     THEN IF task[r] = "dead" THEN e
          ELSE [e EXCEPT !.signals[r] = Append(@, signal)]
     ELSE IF stop
     THEN WakeScheduler(
            PushToReschedule([e EXCEPT !.request_stop = @ \cup {r}], r))
     ELSE e

\* Mutant of ChargeHead: the timer of the preempted head stays armed.
ChargeHeadUncancelled(d) ==
  LET h == Head(d.readyq)
  IN [d EXCEPT !.current[h] = Capped(@ + d.elapsed)]

\* Mutant of ChargeHead: the execution of the head is not added up.
ChargeHeadLost(d) == [d EXCEPT !.enforcement[Head(d.readyq)] = Off]

\* Charge the head for the time since start_ticks and cancel its timer.
ChargeHead(d) ==
  LET h == Head(d.readyq)
  IN [d EXCEPT !.current[h] = Capped(@ + d.elapsed), !.enforcement[h] = Off]

\* Mutant of StartHead: a head without budget left is not enforced.
StartHeadUnenforced(d) ==
  LET h == Head(d.readyq)
      exectime == table[h].spec.exectime
      e == [d EXCEPT !.elapsed = 0]
  IN IF d.readyq # <<>> /\ exectime > d.current[h]
     THEN [e EXCEPT !.enforcement[h] = exectime - d.current[h]] ELSE e

\* Mutant of StartHead: a resumed head is given its whole budget again.
StartHeadAfresh(d) ==
  LET h == Head(d.readyq)
      e == [d EXCEPT !.elapsed = 0]
  IN IF d.readyq = <<>> THEN e
     ELSE [e EXCEPT !.enforcement[h] = table[h].spec.exectime]

\* Start accounting for the head, and enforce it at once if its budget is
\* already used up.
StartHead(d) ==
  LET h == Head(d.readyq)
      exectime == table[h].spec.exectime
      e == [d EXCEPT !.elapsed = 0]
  IN IF d.readyq = <<>> THEN e
     ELSE IF exectime > d.current[h]
     THEN [e EXCEPT !.enforcement[h] = exectime - d.current[h]]
     ELSE BudgetEnforcement(e, h, TRUE)

\* Mutant of Start: in_readyq is not asked.
StartAgain(d, prio, r) ==
  LET e == IF d.readyq = <<>> THEN d ELSE ChargeHead(d)
      lower == {x \in Rids : prio[x] < prio[r]}
  IN StartHead([e EXCEPT !.readyq = Enqueue(@, lower, r)])

Start(d, prio, r) ==
  LET e == IF d.readyq = <<>> THEN d ELSE ChargeHead(d)
      lower == {x \in Rids : prio[x] < prio[r]}
  IN IF \E i \in DOMAIN d.readyq : d.readyq[i] = r THEN d
     ELSE StartHead([e EXCEPT !.readyq = Enqueue(@, lower, r)])

\* Mutant of Stop: the timer of the next head is not armed.
StopUnresumed(d, r) ==
  IF d.readyq # <<>> /\ Head(d.readyq) = r
  THEN [ChargeHead(d) EXCEPT !.readyq = Tail(@), !.elapsed = 0]
  ELSE [d EXCEPT !.readyq = Dequeue(@, r)]

\* Mutant of Stop: the head is not charged for the time since start_ticks.
StopUncharged(d, r) ==
  IF d.readyq # <<>> /\ Head(d.readyq) = r
  THEN StartHead([d EXCEPT !.readyq = Tail(@), !.enforcement[r] = Off])
  ELSE [d EXCEPT !.readyq = Dequeue(@, r)]

\* Mutant of Stop: only the head of the queue is unlinked.
StopHead(d, r) ==
  IF d.readyq # <<>> /\ Head(d.readyq) = r
  THEN StartHead([ChargeHead(d) EXCEPT !.readyq = Tail(@)])
  ELSE d

Stop(d, r) ==
  IF d.readyq # <<>> /\ Head(d.readyq) = r
  THEN StartHead([ChargeHead(d) EXCEPT !.readyq = Tail(@)])
  ELSE [d EXCEPT !.readyq = Dequeue(@, r)]

\* Arm the zero-slack timer.  An instant at the end of the period is moved
\* past it ("effectively disabling it"): such a timer never expires.
ArmZeroSlack(d, r) ==
  [d EXCEPT !.zero_slack = IF table[r].spec.zsinstant THEN @ \cup {r} ELSE @]

\* hrtimer_cancel of the enforcement and zero-slack timers of r.
CancelTimers(d, r) ==
  [d EXCEPT !.enforcement[r] = Off, !.zero_slack = @ \ {r}]

\* Mutant of Removals: the link of r is cleared before the queue is relinked.
RemovalsTruncating(d, r) ==
  IF d.readyq # <<>> /\ Head(d.readyq) = r
  THEN {StartHead([ChargeHead(d) EXCEPT !.readyq = <<>>])}
  ELSE {[d EXCEPT !.readyq = Dequeue(@, r)]}

(***************************************************************************)
(* What delete_reserve does to the ready queue.  If the task is gone, r is *)
(* unlinked without being charged.  If the task of the new head is gone    *)
(* too, its accounting does not start: the time it will be charged runs    *)
(* from a start_ticks of the past.                                         *)
(***************************************************************************)
Removals(d, r) ==
  LET q == Dequeue(d.readyq, r)
      e == [d EXCEPT !.readyq = q]
  IN IF Alive(r) THEN {Stop(d, r)}
     ELSE IF d.readyq = <<>> \/ Head(d.readyq) # r THEN {e}
     ELSE IF q = <<>> \/ Alive(Head(q)) THEN {StartHead(e)}
     ELSE {[e EXCEPT !.elapsed = t] : t \in 0 .. MaxTicks}

-----------------------------------------------------------------------------
\* A handler takes zsrmlock.
Enter ==
  /\ lock.by = "free"
  /\ SchedFirst => dispatcher.sched_task = "asleep"

\* delete_reserve, from dispatcher d and table t.  The links of r in the
\* criticality stack and in crit_blockq stay, and so does request_stop.
DeleteReserve(d, t, r) ==
  /\ \E e \in Removals(d, r) :
       dispatcher' = [CancelTimers(e, r) EXCEPT !.signals[r] = <<>>]
  /\ table' = [t EXCEPT ![r].pid = Free]
  /\ task' = [task EXCEPT ![r] = "none"]
  /\ rm_queue' = Dequeue(rm_queue, r)
  /\ period_timer' = period_timer \ {r}

(***************************************************************************)
(* System calls that create, attach, delete and configure a reserve.       *)
(***************************************************************************)

\* init_reserve and the parameters of CREATE_RSV.
NewReserve(r, spec, pid) ==
  [table[r] EXCEPT
     !.pid = pid, !.spec = spec, !.start_period = 0,
     !.non_periodic_wait = FALSE, !.end_of_period_marked = FALSE,
     !.num_period_wakeups = 0, !.num_wait_release = FALSE,
     !.enforcement_signal_captured = FALSE]

\* CREATE_RSV: the first free entry of the table is initialised, and given
\* back if the admission test rejects the reserve.
CreateReserve(spec, admitted) ==
  /\ Enter
  /\ \E r \in Rids :
       /\ ~Active(r) /\ \A s \in 0 .. r - 1 : Active(s)
       /\ table' = [table EXCEPT
            ![r] = NewReserve(r, spec, IF admitted THEN Created ELSE Free)]
       /\ priority' = [priority EXCEPT ![r] = spec.priority]
       /\ rm_queue' =
            IF admitted
            THEN LET longer == {x \in Rids :
                                  table[x].spec.period > spec.period}
                 IN Enqueue(rm_queue, longer, r)
            ELSE rm_queue
       /\ critical_reservesq' = [critical_reservesq EXCEPT !.next[r] = Nil]
       /\ crit_blockq' = [crit_blockq EXCEPT !.next[r] = Nil]
  /\ UNCHANGED <<task, dispatcher, period_timer, sys_criticality, lock>>

\* Mutant of RmPriorities: the last of the queue keeps its priority.
RmPrioritiesShort ==
  [r \in Rids |->
     IF \E i \in 1 .. Len(rm_queue) - 1 : rm_queue[i] = r
     THEN MinPriority + Len(rm_queue) + 1
            - (CHOOSE i \in DOMAIN rm_queue : rm_queue[i] = r)
     ELSE priority[r]]

\* calculate_rm_priorities: MIN_PRIORITY + rm_queue_size for the head of the
\* rate-monotonic queue, one less for each successor.
RmPriorities ==
  [r \in Rids |->
     IF \E i \in DOMAIN rm_queue : rm_queue[i] = r
     THEN MinPriority + Len(rm_queue) + 1
            - (CHOOSE i \in DOMAIN rm_queue : rm_queue[i] = r)
     ELSE priority[r]]

\* ATTACH_RSV, called once for a created reserve by a running task.
AttachReserve(r) ==
  /\ Enter
  /\ table[r].pid = Created
  /\ table' = [table EXCEPT
       ![r].pid = Attached, ![r].start_period = 1, ![r].enforced = FALSE,
       ![r].in_critical_mode = FALSE]
  /\ task' = [task EXCEPT ![r] = "running"]
  /\ priority' = RmPriorities
  /\ dispatcher' = Start(ArmZeroSlack([dispatcher EXCEPT !.current[r] = 0], r),
                         priority', r)
  /\ period_timer' = period_timer \cup {r}
  /\ UNCHANGED <<rm_queue, critVars, lock>>

\* DELETE_RSV
Delete(r) ==
  /\ Enter
  /\ "delete" \in Calls
  /\ DeleteReserve(dispatcher, table, r)
  /\ UNCHANGED <<priority, critVars, lock>>

\* CAPTURE_ENFORCEMENT_SIGNAL; a negative pid gives the signal up.
CaptureEnforcementSignal(r, captured) ==
  /\ Enter
  /\ "capture" \in Calls
  /\ table' = [table EXCEPT ![r].enforcement_signal_captured = captured]
  /\ UNCHANGED <<task, priority, rm_queue, dispatcher, period_timer, critVars,
                 lock>>

-----------------------------------------------------------------------------
(***************************************************************************)
(* The departure of a job: wait_for_next_period ("wait", also called for   *)
(* NOWAIT_PERIOD, and "handler" when the enforcement handler calls it) and *)
(* end_of_period ("end") up to their loop.  The task of r is the caller.   *)
(***************************************************************************)
\* r once its job has departed.
Departed(r, call) ==
  [table[r] EXCEPT
     !.start_period = @ - 1, !.in_critical_mode = FALSE,
     !.non_periodic_wait = (call = "end"),
     !.end_of_period_marked = @ \/ call = "end"]

\* Mutant of TopCriticality: an empty stack leaves sys_criticality alone.
TopCriticalityKept(stack) ==
  IF stack.head = Nil THEN sys_criticality ELSE Criticality(stack.head)

\* The value of sys_criticality once stack is the criticality stack.
TopCriticality(stack) ==
  IF stack.head = Nil THEN 0 ELSE Criticality(stack.head)

Depart(d, r, call) ==
  LET e == Stop([d EXCEPT !.zero_slack = @ \ {r}], r)
      critical == table[r].in_critical_mode
      stack == IF critical /\ critical_reservesq.head = r
               THEN Behead(critical_reservesq) ELSE critical_reservesq
  IN
  /\ table[r].start_period > -MaxDrift
  /\ dispatcher' = e
  /\ table' = [table EXCEPT ![r] = Departed(r, call)]
  /\ task' = [task EXCEPT ![r] = "running"]
  /\ critical_reservesq' = stack
  /\ sys_criticality' = IF critical THEN TopCriticality(stack)
                        ELSE sys_criticality
  /\ lock' = [by |-> call, rid |-> r, at |-> 0, wake |-> FALSE,
              blocked |-> IF ~critical THEN "keep"
                          ELSE IF e.current[r] <= table[r].spec.nominal
                          THEN "resume" ELSE "drop"]
  /\ UNCHANGED <<crit_blockq, priority, rm_queue, period_timer>>

Asleep(call) == IF call = "handler" THEN "masked" ELSE "sleeping"

MoreBlocked ==
  /\ lock.blocked # "keep"
  /\ lock.at <= MaxReserves
  /\ crit_blockq.head # Nil
  /\ Criticality(crit_blockq.head) >= sys_criticality

\* One iteration of the loop over crit_blockq.
ReleaseBlocked ==
  /\ lock.by \in Departing
  /\ MoreBlocked
  /\ crit_blockq' = Behead(crit_blockq)
  /\ lock' = [lock EXCEPT !.at = @ + 1]
  /\ LET t == crit_blockq.head
     IN \/ /\ lock.blocked = "drop"
           /\ UNCHANGED <<dispatcher, table, task, rm_queue, period_timer>>
        \/ /\ lock.blocked = "resume" /\ Alive(t)
           /\ task' = [task EXCEPT ![t] = "running"]
           /\ dispatcher' = Start(dispatcher, priority, t)
           /\ UNCHANGED <<table, rm_queue, period_timer>>
        \/ /\ lock.blocked = "resume" /\ ~Alive(t)
           /\ DeleteReserve(dispatcher, table, t)
  /\ UNCHANGED <<priority, critical_reservesq, sys_criticality>>

\* The rest of the call: only wait_for_next_period goes to sleep.
FinishDeparture ==
  /\ lock.by \in Departing
  /\ ~MoreBlocked
  /\ lock' = Unlocked
  /\ IF lock.by # "end"
     THEN /\ task' = [task EXCEPT ![lock.rid] = Asleep(lock.by)]
          /\ table' = [table EXCEPT ![lock.rid].num_period_wakeups = Dec(@)]
     ELSE UNCHANGED <<task, table>>
  /\ UNCHANGED <<priority, rm_queue, dispatcher, period_timer, critVars>>

\* wait_for_next_release, after end_of_period or instead of
\* wait_for_next_period.
WaitForNextRelease(d, r, call) ==
  \/ /\ ~table[r].end_of_period_marked
     /\ Depart(d, r, call)
  \/ /\ table[r].end_of_period_marked
     /\ LET blocks == table[r].num_period_wakeups = 0
        IN /\ task' = [task EXCEPT ![r] = IF blocks THEN Asleep(call)
                                          ELSE "running"]
           /\ dispatcher' = IF blocks THEN d ELSE Start(d, priority, r)
           /\ table' = [table EXCEPT
                ![r].num_wait_release = @ \/ blocks,
                ![r].end_of_period_marked = FALSE,
                ![r].num_period_wakeups = Dec(@)]
     /\ UNCHANGED <<priority, rm_queue, period_timer, critVars, lock>>

WaitPeriod(r) ==
  /\ Enter
  /\ "wait" \in Calls
  /\ Alive(r) /\ task[r] = "running"
  /\ Depart(dispatcher, r, "wait")

EndPeriod(r) ==
  /\ Enter
  /\ "release" \in Calls
  /\ Alive(r) /\ task[r] = "running"
  /\ Depart(dispatcher, r, "end")

WaitRelease(r) ==
  /\ Enter
  /\ "release" \in Calls
  /\ Alive(r) /\ task[r] = "running"
  /\ WaitForNextRelease(dispatcher, r, "wait")

\* The task takes a budget enforcement signal, which also wakes it from a
\* wait, and the handler of libzsv makes it depart if a stop is requested.
\* The handler runs with all signals blocked, also while it waits.
EnforcementSignal(r) ==
  /\ Enter
  /\ Alive(r) /\ task[r] # "masked"
  /\ dispatcher.signals[r] # <<>>
  /\ LET signal == Head(dispatcher.signals[r])
         d == [dispatcher EXCEPT !.signals[r] = Tail(@)]
     IN \/ /\ signal.stop /\ signal.periodic
           /\ Depart(d, r, "handler")
        \/ /\ signal.stop /\ ~signal.periodic
           /\ WaitForNextRelease(d, r, "handler")
        \/ /\ ~signal.stop
           /\ task' = [task EXCEPT ![r] = "running"]
           /\ dispatcher' = d
           /\ UNCHANGED <<table, priority, rm_queue, period_timer, critVars,
                          lock>>

\* The task of r exits, at any time but inside its own system call.
Die(r) ==
  /\ r \in Mortal
  /\ Alive(r)
  /\ lock.by \in Departing => lock.rid # r
  /\ task' = [task EXCEPT ![r] = "dead"]
  /\ dispatcher' = [dispatcher EXCEPT !.signals[r] = <<>>]
  /\ UNCHANGED <<table, priority, rm_queue, period_timer, critVars, lock>>

-----------------------------------------------------------------------------
(***************************************************************************)
(* Kernel timers.                                                          *)
(***************************************************************************)

\* Mutant of ForceDelete: scheduler_task is not told.
ForceDeleteUntold(d, r) ==
  /\ dispatcher' = [d EXCEPT !.request_stop = @ \ {r}]
  /\ UNCHANGED <<table, task>>

\* timer_handler for a task that is gone: scheduler_task is to delete r.
ForceDelete(d, r) ==
  /\ dispatcher' =
       WakeScheduler(PushToReschedule([d EXCEPT !.request_stop = @ \ {r}], r))
  /\ UNCHANGED <<table, task>>

\* Mutant of Overrun: off by one.
OverrunLate(r) == table[r].start_period > 1

\* The previous job of r has not departed.
Overrun(r) == table[r].start_period >= 1

\* Mutant of Suspended: an arrival does not look at sys_criticality.
SuspendedNever(r) == FALSE

\* Criticality enforcement keeps r from starting.
Suspended(r) == Criticality(r) < sys_criticality

\* Mutant of Wakes: every arrival starts a job.
WakesAlways(r) == TRUE

\* The arrival starts a job of a sporadic reserve only if its task waits in
\* wait_for_next_release.
Wakes(r) == table[r].non_periodic_wait => table[r].num_wait_release

\* Mutant of Arrived: enforced is not cleared.
ArrivedEnforced(r) ==
  [table[r] EXCEPT
     !.start_period = IF Overrun(r) THEN @ ELSE @ + 1,
     !.in_critical_mode = FALSE, !.num_period_wakeups = 1,
     !.num_wait_release = @ /\ ~table[r].non_periodic_wait]

\* r after start_of_period.
Arrived(r) ==
  LET wakeups == Inc(table[r].num_period_wakeups)
      t == [table[r] EXCEPT !.start_period = IF Overrun(r) THEN @ ELSE @ + 1,
                            !.in_critical_mode = FALSE]
  IN IF Suspended(r) THEN t
     ELSE [t EXCEPT
            !.enforced = FALSE,
            !.num_period_wakeups = IF wakeups > 1 THEN 1 ELSE wakeups,
            !.num_wait_release = @ /\ ~table[r].non_periodic_wait]

\* start_of_period for a task that is not gone.  A job that is still there
\* is stopped, without a request to the scheduler thread.
StartOfPeriod(r) ==
  LET late == [dispatcher EXCEPT !.enforcement[r] = Off]
      stopped == IF Overrun(r) THEN Stop(BudgetEnforcement(late, r, FALSE), r)
                 ELSE dispatcher
      d == ArmZeroSlack([stopped EXCEPT !.current[r] = 0], r)
      starts == ~Suspended(r) /\ Wakes(r)
  IN /\ table' = [table EXCEPT ![r] = Arrived(r)]
     /\ dispatcher' = IF starts THEN Start(d, priority, r) ELSE d
     /\ task' = IF starts THEN [task EXCEPT ![r] = "running"] ELSE task

\* Mutant of PeriodTimer: the timer is not armed again.
PeriodTimerOnce(r) ==
  /\ Enter
  /\ r \in period_timer
  /\ IF Alive(r) THEN StartOfPeriod(r) ELSE ForceDelete(dispatcher, r)
  /\ period_timer' = period_timer \ {r}
  /\ UNCHANGED <<priority, rm_queue, critVars, lock>>

\* The period timer is armed again by start_of_period only.
PeriodTimer(r) ==
  /\ Enter
  /\ r \in period_timer
  /\ \/ /\ Alive(r)
        /\ StartOfPeriod(r)
        /\ UNCHANGED period_timer
     \/ /\ ~Alive(r)
        /\ ForceDelete(dispatcher, r)
        /\ period_timer' = period_timer \ {r}
  /\ UNCHANGED <<priority, rm_queue, critVars, lock>>

EnforcementTimer(r) ==
  /\ Enter
  /\ dispatcher.enforcement[r] = 0
  /\ LET d == [dispatcher EXCEPT !.enforcement[r] = Off]
     IN \/ /\ Alive(r)
           /\ dispatcher' = BudgetEnforcement(d, r, TRUE)
           /\ UNCHANGED <<table, task>>
        \/ /\ ~Alive(r)
           /\ ForceDelete(d, r)
  /\ UNCHANGED <<priority, rm_queue, period_timer, critVars, lock>>

\* zs_enforcement, up to its loop over the ready queue.
ZeroSlackTimer(r) ==
  /\ Enter
  /\ r \in dispatcher.zero_slack
  /\ LET d == [dispatcher EXCEPT !.zero_slack = @ \ {r}]
         raise == ~table[r].enforced /\ Criticality(r) >= sys_criticality
         crit == [x \in Rids |-> Criticality(x)]
     IN \/ /\ ~Alive(r)
           /\ ForceDelete(d, r)
           /\ UNCHANGED <<critical_reservesq, sys_criticality, lock>>
        \/ /\ Alive(r) /\ ~raise
           /\ dispatcher' = d
           /\ UNCHANGED <<table, task, critical_reservesq, sys_criticality,
                          lock>>
        \/ /\ Alive(r) /\ raise
           /\ dispatcher' = d
           /\ table' = [table EXCEPT ![r].in_critical_mode = TRUE]
           /\ sys_criticality' = Criticality(r)
           /\ critical_reservesq' =
                AddByCriticality(critical_reservesq, crit, r)
           /\ lock' = [Unlocked EXCEPT !.by = "zs", !.rid = r, !.at = 1]
           /\ UNCHANGED task
  /\ UNCHANGED <<priority, rm_queue, period_timer, crit_blockq>>

\* One iteration of the loop of zs_enforcement, and its end.
ZeroSlackScan ==
  /\ lock.by = "zs"
  /\ LET q == dispatcher.readyq
         x == q[lock.at]
         crit == [y \in Rids |-> Criticality(y)]
     IN \/ /\ lock.at > Len(q)
           /\ lock' = Unlocked
           /\ dispatcher' = IF lock.wake THEN WakeScheduler(dispatcher)
                            ELSE dispatcher
           /\ UNCHANGED crit_blockq
        \/ /\ lock.at <= Len(q)
           /\ Criticality(x) >= sys_criticality
           /\ lock' = [lock EXCEPT !.at = @ + 1]
           /\ UNCHANGED <<dispatcher, crit_blockq>>
        \/ /\ lock.at <= Len(q)
           /\ Criticality(x) < sys_criticality
           /\ lock' = [lock EXCEPT !.at = @ + 1, !.wake = TRUE]
           /\ dispatcher' =
                PushToReschedule(
                  [dispatcher EXCEPT !.request_stop = @ \cup {x}], x)
           /\ crit_blockq' = AddByCriticality(crit_blockq, crit, x)
  /\ UNCHANGED <<table, task, priority, rm_queue, period_timer,
                 critical_reservesq, sys_criticality>>

-----------------------------------------------------------------------------
(***************************************************************************)
(* scheduler_task.                                                         *)
(***************************************************************************)

\* A task put to sleep in its enforcement handler still takes no signal.
Sleeping(state) == IF state = "masked" THEN "masked" ELSE "sleeping"

\* A request to stop r is popped.
StopRequested(d, r) ==
  LET e == [d EXCEPT !.request_stop = @ \ {r}]
      t == [table EXCEPT ![r].enforced = TRUE]
  IN \/ /\ table[r].enforced
        /\ dispatcher' = e
        /\ UNCHANGED <<table, task, rm_queue, period_timer>>
     \/ /\ ~table[r].enforced /\ ~Alive(r)
        /\ DeleteReserve(e, t, r)
     \/ /\ ~table[r].enforced /\ Alive(r)
        /\ dispatcher' = Stop(e, r)
        /\ table' = [t EXCEPT ![r].start_period = @ - 1]
        /\ task' = [task EXCEPT ![r] = Sleeping(@)]
        /\ UNCHANGED <<rm_queue, period_timer>>

\* r is popped and no stop is requested.
RestartRequested(d, r) ==
  \/ /\ ~Alive(r)
     /\ DeleteReserve(d, table, r)
  \/ /\ Alive(r)
     /\ task' = [task EXCEPT ![r] = "running"]
     /\ dispatcher' = Start(d, priority, r)
     /\ UNCHANGED <<table, rm_queue, period_timer>>

\* One iteration of the loop of scheduler_task, which keeps zsrmlock.
SchedulerPop ==
  /\ lock.by \in {"free", "sched"}
  /\ dispatcher.sched_task = "running"
  /\ dispatcher.reschedule # <<>>
  /\ LET r == Last(dispatcher.reschedule)
         d == [dispatcher EXCEPT !.reschedule = Front(@)]
     IN \/ /\ r \in dispatcher.request_stop
           /\ StopRequested(d, r)
        \/ /\ r \notin dispatcher.request_stop
           /\ RestartRequested(d, r)
  /\ lock' = [Unlocked EXCEPT !.by = "sched"]
  /\ UNCHANGED <<priority, critVars>>

\* The stack is empty: zsrmlock is released.
SchedulerUnlock ==
  /\ lock.by \in {"free", "sched"}
  /\ dispatcher.sched_task = "running"
  /\ dispatcher.reschedule = <<>>
  /\ lock' = Unlocked
  /\ dispatcher' = [dispatcher EXCEPT !.sched_task = "leaving"]
  /\ UNCHANGED <<table, task, priority, rm_queue, period_timer, critVars>>

\* set_current_state(TASK_INTERRUPTIBLE); schedule().
SchedulerSleep ==
  /\ dispatcher.sched_task = "leaving"
  /\ dispatcher' = [dispatcher EXCEPT !.sched_task = "asleep"]
  /\ UNCHANGED <<table, task, priority, rm_queue, period_timer, critVars, lock>>

-----------------------------------------------------------------------------
\* A unit of execution of the head of the ready queue.  Handlers take no
\* time: a timer that has expired and the scheduler thread go first.
Tick ==
  /\ lock.by = "free"
  /\ dispatcher.sched_task = "asleep"
  /\ dispatcher.readyq # <<>>
  /\ \A r \in Rids : dispatcher.enforcement[r] # 0
  /\ dispatcher' = [dispatcher EXCEPT
       !.elapsed = Capped(@ + 1),
       !.enforcement = [r \in Rids |-> IF @[r] = Off THEN Off ELSE @[r] - 1]]
  /\ UNCHANGED <<table, task, priority, rm_queue, period_timer, critVars, lock>>

SystemCall(r) ==
  \/ AttachReserve(r)
  \/ Delete(r)
  \/ \E captured \in BOOLEAN : CaptureEnforcementSignal(r, captured)
  \/ WaitPeriod(r)
  \/ EndPeriod(r)
  \/ WaitRelease(r)

Timer(r) ==
  /\ \A x \in Rids : Len(dispatcher.signals[x]) < MaxSignals
  /\ \/ PeriodTimer(r)
     \/ EnforcementTimer(r)
     \/ ZeroSlackTimer(r)

SchedulerTask == SchedulerPop \/ SchedulerUnlock \/ SchedulerSleep

\* The rest of a handler that holds zsrmlock.
Continue == ReleaseBlocked \/ FinishDeparture \/ ZeroSlackScan

Next ==
  \/ \E spec \in Specs, admitted \in BOOLEAN : CreateReserve(spec, admitted)
  \/ \E r \in Rids :
       SystemCall(r) \/ EnforcementSignal(r) \/ Die(r) \/ Timer(r)
  \/ SchedulerTask
  \/ Continue
  \/ Tick

Spec == Init /\ [][Next]_vars

(***************************************************************************)
(* Fairness: a handler that holds zsrmlock returns, the scheduler thread   *)
(* is run once it is awake, and time passes.  The scheduler thread and a    *)
(* timer that has expired compete for zsrmlock with handlers that hold it  *)
(* for a bounded time only, and get it.  Nothing is assumed about tasks.   *)
(***************************************************************************)
Fairness ==
  /\ WF_vars(Continue)
  /\ SF_vars(Tick)
  /\ SF_vars(SchedulerTask)
  /\ \A r \in Rids : SF_vars(PeriodTimer(r)) /\ SF_vars(EnforcementTimer(r))

FairSpec == Spec /\ Fairness
=============================================================================
