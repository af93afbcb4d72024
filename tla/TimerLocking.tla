---------------------------- MODULE TimerLocking ----------------------------
(***************************************************************************)
(* zsrmlock, the kernel timers and the processors they expire on.          *)
(*                                                                         *)
(* Zsrmv runs every handler and every call as one step and cancels timers  *)
(* at once.  Here a section under zsrmlock is a plan: the hrtimer_cancel   *)
(* and hrtimer_start calls it makes, in the order of the code, one step    *)
(* each, while timers expire on the other processors.  Of the reserves     *)
(* only what decides which timers are armed is kept: who is attached, who  *)
(* is ready, whose task is alive.  Reserves are numbered by priority, and  *)
(* whether a budget is used up is open.                                    *)
(*                                                                         *)
(* spin_lock_irqsave disables interrupts, so a processor that waits for    *)
(* the lock or holds it runs no timer handler.  A handler tries the lock a *)
(* million times and gives up; that is long enough for any section but one *)
(* that waits for that handler or for another to end.  Calls come from any *)
(* processor, and so timers, which expire where they were armed, may       *)
(* expire on any.                                                          *)
(***************************************************************************)
EXTENDS Integers, Sequences

CONSTANTS
  Rids,        \* the reserves, the smallest number first in priority
  CPUs,        \* the processors; the module's threads are bound to CPU 0
  Mortal,      \* the reserves whose task may exit
  AtomicLooks  \* no task exits between the two looks of one handler at it

\* Any reserves that are ready have a head.
ASSUME RidsAssumption ==
  /\ Rids \subseteq Int
  /\ \A S \in SUBSET Rids : S # {} => \E r \in S : \A x \in S : r <= x
ASSUME CPUsAssumption == CPUs \subseteq Nat /\ 0 \in CPUs
ASSUME MortalAssumption == Mortal \subseteq Rids /\ AtomicLooks \in BOOLEAN

Kinds == {"period", "enforcement", "zero_slack"}
Timers == Rids \X Kinds
NoTimer == <<>>
Nobody == -1

VARIABLES
  attached,   \* the reserves with a pid
  alive,      \* those of them whose task gettask finds
  ready,      \* the ready queue, by priority
  requests,   \* what the reschedule stack asks for: <<rid, request_stop>>
  blocked,    \* the blocked reserves that a departure goes on to release
  queued,     \* the timers in the kernel's queues
  pc,         \* what a processor does with interrupts disabled
  actor,      \* on whose behalf it does it
  firing,     \* the timer whose callback it runs
  zsrmlock,   \* the processor that holds the lock
  plan        \* what the holder still has to do with timers

vars == <<attached, alive, ready, requests, blocked, queued, pc, actor,
          firing, zsrmlock, plan>>
reserves == <<attached, alive, ready, requests, blocked>>

Ops == {"cancel", "arm"} \X Timers
Cancel(r, kind) == <<"cancel", <<r, kind>>>>
Arm(r, kind) == <<"arm", <<r, kind>>>>

Init ==
  /\ attached = {} /\ alive = {} /\ ready = {} /\ requests = {}
  /\ blocked = {}
  /\ queued = {}
  /\ pc = [c \in CPUs |-> "idle"]
  /\ actor = [c \in CPUs |-> "none"]
  /\ firing = [c \in CPUs |-> NoTimer]
  /\ zsrmlock = Nobody
  /\ plan = <<>>

Running(t) == \E c \in CPUs : firing[c] = t

\* The holder waits in hrtimer_cancel for a callback to return.
Waits == plan # <<>> /\ Head(plan)[1] = "cancel" /\ Running(Head(plan)[2])

-----------------------------------------------------------------------------
(***************************************************************************)
(* What a section does to the reserves, and its plan: sets of outcomes.    *)
(***************************************************************************)
State == [attached |-> attached, alive |-> alive, ready |-> ready,
          requests |-> requests, blocked |-> blocked, plan |-> <<>>]

Top(S) == CHOOSE r \in S : \A x \in S : r <= x

Plan(s, ops) == [s EXCEPT !.plan = @ \o ops]

\* request_stop is one flag: the second of two requests to stop restarts.
PushStop(q, r) == q \cup {<<r, <<r, TRUE>> \notin q>>}
Doom(q, r) == (q \ {<<r, TRUE>>}) \cup {<<r, FALSE>>}

\* budget_enforcement either pushes a request to stop or sends a signal.
Enforced(s, r) ==
  LET e == Plan(s, <<Cancel(r, "zero_slack")>>)
  IN {e, [e EXCEPT !.requests = PushStop(@, r)]}

\* start_enforcement_timer of the head, which may have no budget left.
Resumed(s) ==
  IF s.ready = {} THEN {s}
  ELSE {Plan(s, <<Arm(Top(s.ready), "enforcement")>>)}
         \cup Enforced(s, Top(s.ready))

Started(s, r) ==
  IF r \in s.ready THEN {s}
  ELSE Resumed(
         Plan([s EXCEPT !.ready = @ \cup {r}],
              IF s.ready = {} THEN <<>>
              ELSE <<Cancel(Top(s.ready), "enforcement")>>))

Stopped(s, r) ==
  IF r \in s.ready /\ r = Top(s.ready)
  THEN Resumed(Plan([s EXCEPT !.ready = @ \ {r}],
                    <<Cancel(r, "enforcement")>>))
  ELSE {[s EXCEPT !.ready = @ \ {r}]}

\* Mutant of Unlinked: only the head of the queue is unlinked.
UnlinkedHead(s, r) ==
  IF r \in s.ready /\ r = Top(s.ready) THEN {[s EXCEPT !.ready = @ \ {r}]}
  ELSE {s}

\* A dead task is only unlinked, and a next head that is dead too gets no
\* timer.
Unlinked(s, r) ==
  LET u == [s EXCEPT !.ready = @ \ {r}]
  IN IF r \in s.ready /\ r = Top(s.ready) /\ u.ready # {}
          /\ Top(u.ready) \in s.alive
     THEN Resumed(u) ELSE {u}

Deleted(s, r) ==
  {Plan([u EXCEPT !.attached = @ \ {r}, !.alive = @ \ {r}],
        <<Cancel(r, "enforcement"), Cancel(r, "period"),
          Cancel(r, "zero_slack")>>) :
     u \in IF r \in s.alive THEN Stopped(s, r) ELSE Unlinked(s, r)}

Attached(s, r) ==
  Started(Plan([s EXCEPT !.attached = @ \cup {r}, !.alive = @ \cup {r}],
               <<Arm(r, "period"), Arm(r, "zero_slack")>>), r)

\* wait_for_next_period goes on to release the reserves that its
\* criticality had blocked.
Departed(s, r) ==
  {[u EXCEPT !.blocked = S] :
     S \in SUBSET Rids, u \in Stopped(Plan(s, <<Cancel(r, "zero_slack")>>), r)}

\* It resumes a reserve whose task gettask finds, and deletes any other.
Released(s, x) == IF x \in s.alive THEN Started(s, x) ELSE Deleted(s, x)

\* The arrival that finds its job unfinished enforces and stops it.
Overrun(s, r) ==
  Stopped(Plan(s, <<Cancel(r, "enforcement"), Cancel(r, "zero_slack")>>), r)

\* Mutant of Arrived: a job that must not start has no period timer either.
ArrivedLate(s, r) ==
  UNION {{Plan(u, <<Cancel(r, "zero_slack"), Arm(r, "zero_slack")>>)}
           \cup Started(Plan(u, <<Cancel(r, "zero_slack"),
                                  Arm(r, "zero_slack"), Arm(r, "period")>>), r) :
           u \in {s} \cup Overrun(s, r)}

\* A job starts unless its criticality is too low or its task does not wait.
Arrived(s, r) ==
  UNION {{u} \cup Started(u, r) :
           u \in {Plan(o, <<Cancel(r, "zero_slack"), Arm(r, "zero_slack"),
                            Arm(r, "period")>>) :
                    o \in {s} \cup Overrun(s, r)}}

\* A zero-slack timer asks to stop any less critical reserves that are ready.
ZeroSlackEnforced(s, r) ==
  {[s EXCEPT !.requests = @ \cup {<<x, TRUE>> : x \in S}] :
     S \in SUBSET (s.ready \ {r})}

-----------------------------------------------------------------------------
Outcome(S) ==
  \E s \in S :
    /\ attached' = s.attached
    /\ alive' = s.alive
    /\ ready' = s.ready
    /\ requests' = s.requests
    /\ blocked' = s.blocked
    /\ plan' = s.plan

Become(c, place) == pc' = [pc EXCEPT ![c] = place]

Return(c) ==
  /\ Become(c, "idle")
  /\ actor' = [actor EXCEPT ![c] = "none"]
  /\ firing' = [firing EXCEPT ![c] = NoTimer]

\* A task exits, on a processor of its own: nothing tells the module.
Exit(r) ==
  /\ r \in alive \cap Mortal
  /\ AtomicLooks => \A c \in CPUs : pc[c] # "called"
  /\ alive' = alive \ {r}
  /\ UNCHANGED <<attached, ready, requests, blocked, queued, pc, actor,
                 firing, zsrmlock, plan>>

\* A thread wants zsrmlock: one system call at a time, which holds zsrmsem,
\* and the scheduler thread when it is asked for.
Spin(c, who) ==
  /\ pc[c] = "idle"
  /\ Become(c, "spin")
  /\ actor' = [actor EXCEPT ![c] = who]
  /\ UNCHANGED <<reserves, queued, firing, zsrmlock, plan>>

Call(c) == (\A d \in CPUs : actor[d] # "call") /\ Spin(c, "call")
SchedulerWakes == requests # {} /\ Spin(0, "scheduler")

\* The timer leaves the queue before its callback runs.
Expire(c, t) ==
  /\ pc[c] = "idle"
  /\ t \in queued /\ ~Running(t)
  /\ queued' = queued \ {t}
  /\ Become(c, "spin")
  /\ actor' = [actor EXCEPT ![c] = "timer"]
  /\ firing' = [firing EXCEPT ![c] = t]
  /\ UNCHANGED <<reserves, zsrmlock, plan>>

Acquire(c, who) ==
  /\ pc[c] = "spin" /\ actor[c] = who
  /\ zsrmlock = Nobody
  /\ zsrmlock' = c
  /\ UNCHANGED <<queued, actor, firing>>

SystemCall(c) ==
  /\ Acquire(c, "call")
  /\ Become(c, "section")
  /\ \/ \E r \in Rids \ attached : Outcome(Attached(State, r))
     \/ \E r \in attached : Outcome(Deleted(State, r))
     \/ \E r \in alive : Outcome(Departed(State, r))

SchedulerEnters(c) ==
  /\ Acquire(c, "scheduler")
  /\ Become(c, "section")
  /\ UNCHANGED <<reserves, plan>>

\* scheduler_task serves the requests until none is left.  A stop of a
\* reserve that is stopped already is ignored.
SchedulerPop(c) ==
  /\ pc[c] = "section" /\ actor[c] = "scheduler"
  /\ plan = <<>>
  /\ \E q \in requests :
       LET s == [State EXCEPT !.requests = @ \ {q}]
       IN \/ q[2] /\ Outcome({s})
          \/ q[1] \notin alive /\ Outcome(Deleted(s, q[1]))
          \/ q[1] \in alive /\ q[2] /\ Outcome(Stopped(s, q[1]))
          \/ q[1] \in alive /\ ~q[2] /\ Outcome(Started(s, q[1]))
  /\ UNCHANGED <<queued, pc, actor, firing, zsrmlock>>

\* The loop over crit_blockq of wait_for_next_period.
ReleaseBlocked(c) ==
  /\ zsrmlock = c /\ pc[c] = "section"
  /\ plan = <<>>
  /\ \E x \in blocked :
       Outcome(Released([State EXCEPT !.blocked = @ \ {x}], x))
  /\ UNCHANGED <<queued, pc, actor, firing, zsrmlock>>

\* timer_handler looks for the task, and dooms a reserve whose task is gone.
HandlerEnters(c) ==
  /\ Acquire(c, "timer")
  /\ LET r == firing[c][1]
     IN \/ r \in alive /\ Become(c, "called") /\ UNCHANGED requests
        \/ r \in attached \ alive /\ Become(c, "section")
           /\ requests' = Doom(requests, r)
        \/ r \notin attached /\ Become(c, "section") /\ UNCHANGED requests
  /\ UNCHANGED <<attached, alive, ready, blocked, plan>>

\* start_of_period looks for the task again.
StartOfPeriod(c) ==
  /\ pc[c] = "called" /\ firing[c][2] = "period"
  /\ LET r == firing[c][1]
     IN Outcome(IF r \in alive THEN Arrived(State, r) ELSE Deleted(State, r))
  /\ Become(c, "section")
  /\ UNCHANGED <<queued, actor, firing, zsrmlock>>

BudgetEnforcement(c) ==
  /\ pc[c] = "called" /\ firing[c][2] = "enforcement"
  /\ Outcome(Enforced(State, firing[c][1]))
  /\ Become(c, "section")
  /\ UNCHANGED <<queued, actor, firing, zsrmlock>>

ZsEnforcement(c) ==
  /\ pc[c] = "called" /\ firing[c][2] = "zero_slack"
  /\ Outcome(ZeroSlackEnforced(State, firing[c][1]))
  /\ Become(c, "section")
  /\ UNCHANGED <<queued, actor, firing, zsrmlock>>

\* Mutant of GiveUp: spin_lock_irqsave, which never gives up.
GiveUpNever(c) == FALSE /\ UNCHANGED vars

\* HRTIMER_NORESTART after a million tries.
GiveUp(c) ==
  /\ pc[c] = "spin" /\ actor[c] = "timer"
  /\ zsrmlock # Nobody /\ Waits
  /\ Return(c)
  /\ UNCHANGED <<reserves, queued, zsrmlock, plan>>

\* Mutant of CancelTimer: hrtimer_try_to_cancel, which does not wait.
CancelTimerNow(c) ==
  /\ zsrmlock = c /\ plan # <<>> /\ Head(plan)[1] = "cancel"
  /\ queued' = queued \ {Head(plan)[2]}
  /\ plan' = Tail(plan)
  /\ UNCHANGED <<reserves, pc, actor, firing, zsrmlock>>

\* hrtimer_cancel returns when the callback is not running on any processor.
CancelTimer(c) ==
  /\ zsrmlock = c /\ plan # <<>> /\ Head(plan)[1] = "cancel"
  /\ ~Running(Head(plan)[2])
  /\ queued' = queued \ {Head(plan)[2]}
  /\ plan' = Tail(plan)
  /\ UNCHANGED <<reserves, pc, actor, firing, zsrmlock>>

ArmTimer(c) ==
  /\ zsrmlock = c /\ plan # <<>> /\ Head(plan)[1] = "arm"
  /\ queued' = queued \cup {Head(plan)[2]}
  /\ plan' = Tail(plan)
  /\ UNCHANGED <<reserves, pc, actor, firing, zsrmlock>>

Release(c) ==
  /\ zsrmlock = c /\ pc[c] = "section"
  /\ plan = <<>> /\ blocked = {}
  /\ actor[c] = "scheduler" => requests = {}
  /\ zsrmlock' = Nobody
  /\ Return(c)
  /\ UNCHANGED <<reserves, queued, plan>>

Section(c) ==
  \/ SchedulerPop(c) \/ ReleaseBlocked(c)
  \/ StartOfPeriod(c) \/ BudgetEnforcement(c)
  \/ ZsEnforcement(c) \/ CancelTimer(c) \/ ArmTimer(c) \/ Release(c)

Enters(c) == SystemCall(c) \/ SchedulerEnters(c) \/ HandlerEnters(c)

Next ==
  \/ \E r \in Rids : Exit(r)
  \/ SchedulerWakes
  \/ \E c \in CPUs :
       \/ Call(c) \/ Enters(c) \/ Section(c) \/ GiveUp(c)
       \/ \E t \in Timers : Expire(c, t)

Spec == Init /\ [][Next]_vars

\* A processor goes on with what it does, and spin locks are fair.
Progress ==
  /\ WF_vars(\E c \in CPUs : Section(c))
  /\ \A c \in CPUs : WF_vars(GiveUp(c)) /\ SF_vars(Enters(c))

\* An interrupt is taken as soon as a processor enables them, and the
\* scheduler thread has the highest priority of CPU 0.
Fairness ==
  /\ Progress
  /\ SF_vars(SchedulerWakes)
  /\ \A r \in Rids : SF_vars(\E c \in CPUs : Expire(c, <<r, "period">>))

ProgressSpec == Spec /\ Progress

FairSpec == Spec /\ Fairness

-----------------------------------------------------------------------------
TypeOK ==
  /\ attached \subseteq Rids
  /\ alive \subseteq attached
  /\ ready \subseteq attached
  /\ requests \subseteq Rids \X BOOLEAN
  /\ blocked \subseteq Rids
  /\ queued \subseteq Timers
  /\ pc \in [CPUs -> {"idle", "spin", "called", "section"}]
  /\ actor \in [CPUs -> {"none", "timer", "call", "scheduler"}]
  /\ firing \in [CPUs -> Timers \cup {NoTimer}]
  /\ zsrmlock \in CPUs \cup {Nobody}
  /\ plan \in Seq(Ops)

\* The timers that may expire when nobody holds the lock: those of attached
\* reserves, and of the enforcement timers only that of the head.
Legitimate(t) ==
  /\ t[1] \in attached
  /\ t[2] = "enforcement" => t[1] \in ready /\ t[1] = Top(ready)

\* A handler that gets the lock never works on a reserve that was deleted
\* while it waited, nor enforces one that no longer executes: a timer is
\* cancelled for good, also when its callback had begun to wait.
NoStaleFiring ==
  zsrmlock = Nobody =>
    \A t \in Timers : t \in queued \/ Running(t) => Legitimate(t)

\* "at least the periodic timer will be active": an attached reserve has a
\* period timer, or is about to be deleted.
PeriodTimerLives ==
  zsrmlock = Nobody =>
    \A r \in attached :
      \/ <<r, "period">> \in queued \/ Running(<<r, "period">>)
      \/ <<r, FALSE>> \in requests

\* Whoever waits for the lock or holds it gets through: no section waits for
\* a handler that waits for the section.
SectionsEnd == \A c \in CPUs : pc[c] # "idle" ~> pc[c] = "idle"

\* The reserve of a task that exits is deleted, and its deletion ends.
DeadReserveDeleted ==
  \A r \in Mortal :
    r \in attached \ alive ~> r \notin attached /\ zsrmlock = Nobody
=============================================================================
