-------------------------- MODULE ZsrmvProperties --------------------------
(***************************************************************************)
(* What the scheduler of zsrmv.c is to guarantee.  The names zsrm.. and    *)
(* fp.. are those of the predicates annotated in zsrmv.c.                  *)
(***************************************************************************)
EXTENDS Zsrmv

Ready == ToSet(dispatcher.readyq)
Current == Head(dispatcher.readyq)

\* No handler is under way, and no request to the scheduler thread is pending.
Settled ==
  /\ lock.by = "free"
  /\ dispatcher.sched_task = "asleep"
  /\ dispatcher.reschedule = <<>>

\* A job of r starts or resumes: r enters the ready queue.
Enters(r) == r \notin Ready /\ r \in Ready'

Captured(r) == table[r].enforcement_signal_captured

\* No task captures its budget enforcement signal.
Uncaptured == \A r \in Rids : ~Captured(r)

\* No job has been ended by end_of_period.
Unmarked == \A r \in Rids : ~table[r].end_of_period_marked

-----------------------------------------------------------------------------
(***************************************************************************)
(* The queues and the timers, whatever tasks and the scheduler thread do.  *)
(***************************************************************************)

\* The ready queue is ordered by priority (fp31), strictly: the priorities
\* recomputed whenever a reserve is attached never disturb the order, and no
\* reserve is queued twice.
ReadyqSorted ==
  \A i, j \in DOMAIN dispatcher.readyq : i < j =>
    priority[dispatcher.readyq[i]] > priority[dispatcher.readyq[j]]

\* Only attached reserves are scheduled: deletion, forced or not, leaves no
\* reserve behind in the ready queue that the table hands out again.
ReadyAttached == \A r \in Ready : table[r].pid = Attached

\* The rate-monotonic queue holds the reserves in use, each once, by
\* increasing period (fp32).
RmQueueSorted ==
  /\ ToSet(rm_queue) = {r \in Rids : Active(r)}
  /\ \A i, j \in DOMAIN rm_queue : i < j =>
       /\ rm_queue[i] # rm_queue[j]
       /\ table[rm_queue[i]].spec.period <= table[rm_queue[j]].spec.period

\* Priorities are rate-monotonic: among attached reserves they decrease along
\* the rate-monotonic queue, although reserves enter and leave the queue long
\* before and after the attach that numbers it again.
PrioritiesFollow ==
  \A i, j \in DOMAIN rm_queue :
    /\ i < j
    /\ table[rm_queue[i]].pid = Attached
    /\ table[rm_queue[j]].pid = Attached
    => priority[rm_queue[i]] > priority[rm_queue[j]]

\* An armed enforcement timer belongs to the head of the ready queue and
\* expires no later than its budget (zsrm5): every path that changes the
\* head cancels one timer and arms the other.
BudgetTimerSound ==
  \A r \in Rids : dispatcher.enforcement[r] # Off =>
    /\ dispatcher.readyq # <<>>
    /\ Current = r
    /\ dispatcher.current[r] + dispatcher.elapsed + dispatcher.enforcement[r]
         <= table[r].spec.exectime

-----------------------------------------------------------------------------
(***************************************************************************)
(* Budgets.                                                                *)
(***************************************************************************)

\* The active job has a timer set to enforce its execution time (zsrm6).
HeadEnforced ==
  Settled /\ dispatcher.readyq # <<>> /\ Alive(Current) /\ ~Captured(Current)
    => dispatcher.enforcement[Current] # Off

\* No job executes for longer than its budget (zsrm3), counting the time not
\* yet charged to the head.
BudgetKept ==
  \A r \in Rids : Alive(r) /\ ~Captured(r) =>
    dispatcher.current[r]
      + (IF r \in Ready /\ Current = r THEN dispatcher.elapsed ELSE 0)
      <= table[r].spec.exectime

\* A task that is not waiting is scheduled by its reserve: it never executes
\* without its execution being charged.
RunningReady ==
  Settled =>
    \A r \in Rids : Alive(r) /\ task[r] = "running" => r \in Ready

\* The converse: the task of a scheduled reserve is not left asleep.
ReadyAwake == lock.by = "free" => \A r \in Ready : task[r] \notin {"sleeping", "masked"}

\* start_period, which start_of_period relies on to "prevent consecutive
\* start_of_period calls without wfnp", is 1 as long as a job is scheduled.
StartPeriodCounts ==
  Settled => \A r \in Ready : Alive(r) => table[r].start_period = 1

\* A job stopped by enforcement does not resume before its next period.
StoppedUntilNextPeriod ==
  [][\A r \in Rids : Enters(r) /\ table[r].pid = Attached =>
       ~table'[r].enforced]_vars

\* A job that enforcement has stopped has used up its budget: the timer of the
\* head, which is armed with what its charge leaves, neither fires for time
\* that others executed nor finds a charge that a preemption, a resumption or
\* a deletion lost.  This is said of runs in which the scheduler thread comes
\* first: if the period timer runs between the push of a request to stop and
\* its pop, the pop stops the new job with its budget unused.
EnforcedExhausted ==
  Settled =>
    \A r \in Rids : table[r].pid = Attached /\ table[r].enforced =>
      dispatcher.current[r] >= table[r].spec.exectime

\* The scheduler thread does not sleep on a request to stop or restart a
\* reserve.
RequestWakes ==
  dispatcher.reschedule # <<>> => dispatcher.sched_task # "asleep"

HeadSignalled ==
  Settled /\ dispatcher.readyq # <<>> /\ Alive(Current)
    /\ dispatcher.enforcement[Current] = Off
    => \E i \in DOMAIN dispatcher.signals[Current] :
         dispatcher.signals[Current][i].stop

\* A head whose enforcement timer has run out has been sent a signal that
\* makes it depart, whenever tasks capture the signal and give it up, as long
\* as no job is ended by end_of_period, which makes the signal say otherwise.
ExhaustedSignalled == []Unmarked => []HeadSignalled

-----------------------------------------------------------------------------
(***************************************************************************)
(* Zero-slack enforcement.                                                 *)
(***************************************************************************)

\* sys_criticality is the criticality of the top of the criticality stack.
SysIsTop ==
  sys_criticality = IF critical_reservesq.head = Nil THEN 0
                    ELSE Criticality(critical_reservesq.head)

\* No reserve enters the ready queue below sys_criticality, but for one that
\* is being attached.  Among four reserves this takes that none has been
\* attached below it.
NoEntryBelow ==
  [][\A r \in Rids : Enters(r) /\ table[r].pid = Attached =>
       Criticality(r) >= sys_criticality]_vars

\* A walk along the queue of blocked reserves ends.
BlockedEnds == Acyclic(crit_blockq)

\* The tasks of scheduled reserves are awake also when a departure resumes the
\* blocked ones: it never resumes its own task, which then goes to sleep, as
\* long as no reserve is linked into the queue behind itself.
BlockedAwake == []BlockedEnds => []ReadyAwake

\* The criticality stack is not corrupted: a walk along it ends.
CritStackAcyclic == Acyclic(critical_reservesq)

-----------------------------------------------------------------------------
(***************************************************************************)
(* The dispatcher implements Dispatch.  A job is charged when it stops     *)
(* executing: until then the time since start_ticks counts for the head.   *)
(***************************************************************************)
UsedIn(d) ==
  [r \in Rids |->
     Capped(d.current[r]
              + IF d.readyq # <<>> /\ Head(d.readyq) = r
                THEN d.elapsed ELSE 0)]

Tasked == {r \in Rids : Alive(r)}

\* start_period counts the arrivals of r that no stop or departure answered.
Due == [r \in Rids |-> IF Alive(r) THEN table[r].start_period ELSE 0]

Abstract == INSTANCE Dispatch WITH
  Reserve <- Rids,
  Limit <- MaxTicks,
  ready <- Ready,
  prio <- priority,
  used <- UsedIn(dispatcher),
  due <- Due,
  tasked <- Tasked

\* Every tick is charged to the ready reserve of the highest priority, once,
\* and a job keeps its charge until the next one arrives: no preemption, stop,
\* departure, resumption or deletion, and no priority computed again while
\* others execute, makes the accounting of start_reserve and stop_reserve lose
\* a charge, that of the head itself included, or repeat one.
ImplementsDispatch == Abstract!Spec

-----------------------------------------------------------------------------
(***************************************************************************)
(* Sporadic reserves: end_of_period and wait_for_next_release.             *)
(***************************************************************************)

EndedIdle ==
  \A r \in Ready : ~(table[r].end_of_period_marked
                       /\ table[r].non_periodic_wait)

\* Between end_of_period and wait_for_next_release no job is scheduled, as
\* long as no task captures the enforcement signal, whose handler may depart
\* from a job that has ended.
EndedJobWaits == []Uncaptured => []EndedIdle

-----------------------------------------------------------------------------
(***************************************************************************)
(* Liveness, under Fairness.                                               *)
(***************************************************************************)

\* A waiting task is started again.
Released ==
  \A r \in Rids :
    Alive(r) /\ task[r] \in {"sleeping", "masked"} ~> r \in Ready \/ ~Alive(r)

\* The same once no reserve is in critical mode any more, if jobs depart:
\* "let their period timers wake them up".
ReleasedAfterCritical ==
  /\ <>[](\A r \in Rids : ~table[r].in_critical_mode)
  /\ \A r \in Rids : []<>(r \notin Ready)
  => Released

\* The reserve of a task that died is deleted.
DeadDeleted ==
  \A r \in Mortal :
    task[r] = "dead" ~> task[r] # "dead"
=============================================================================
