# A TLA+ model of the ZSRM-MV scheduler

ZSRM-MV is a Linux kernel module (`zsrmv.c`, `admission.c`) and a user library
(`lib/libzsv.c`) that schedule periodic and sporadic tasks by *zero-slack
rate-monotonic* scheduling: tasks run at rate-monotonic priorities within
budgets that the module enforces, and when a critical task has not finished by
its zero-slack instant, the less critical tasks are stopped until it has.

The model follows the code as it is built for the kernel (`STAC_FRAMAC_STUBS`
off). The annotations of the code for Frama-C (`fp1`, `zsrm1`, ...) are a
source of properties, not of definitions.

## 1. The system

### Components

| component | state | operations | modelled |
|---|---|---|---|
| dispatcher | `readyq` (links `next`), `current_exectime`, `start_ticks`, enforcement timers | `start`, `stop`, `start_enforcement_timer`, `budget_enforcement` | `Zsrmv`, which implements `Dispatch` |
| rate-monotonic queue | `rm_head` (links `rm_next`), `priority` | `add_rm_queue`, `del_rm_queue`, `calculate_rm_priorities` | `Zsrmv`, `ReserveQueues` |
| period arrivals | period timers, `start_period`, `enforced`, `num_period_wakeups` | `start_of_period`, `reset_exectime_counters` | `Zsrmv` |
| criticality mode | `critical_reservesq`, `crit_blockq`, `sys_criticality`, `in_critical_mode` | `zs_enforcement`, `add_crit_stack`, `add_crit_blocked` | `Zsrmv`, `ReserveQueues` |
| departures | `end_of_period_marked`, `num_wait_release`, ... | `wait_for_next_period`, `end_of_period`, `wait_for_next_release` | `Zsrmv` |
| reserve lifecycle | `reserve_table`, `pid` | CREATE, ATTACH, DELETE | `Zsrmv`, but for a second attach |
| scheduler thread | `reschedule_stack`, `request_stop` | `push_to_reschedule`, `scheduler_task` | `Zsrmv` |
| enforcement signals | pending signals of each task | `capture_enforcement_signal`, the handler wrapper of libzsv | `Zsrmv`, but for libzsv's table of handlers |
| activator thread | `activate_stack`, scheduling class, CPU | `activator_task` | no (see section 6) |
| admission test | `exectime_in_rm_ns`, `zsinstant_ns` | `admit`, CREATE, `zsv_is_admissible` | `Admission`; in `Zsrmv` its verdict is either one |
| handler table of libzsv | a circular list under a mutex | get, add, fork and stop handler | `HandlerTable`, but for stop |
| trace buffer | `trace_table`, `trace_index` | `add_trace_record`, read | no (see section 6) |
| system call entry | `zsrmsem`, `zsrmlock`, task state | `zsrm_write` | as guards in `Zsrmv`, as steps in `TimerLocking` |
| kernel timer handlers | `zsrmlock`, the timers' queues, who runs where | `kernel_timer_handler`, `hrtimer_cancel`, `hrtimer_start` | atomic in `Zsrmv`, `TimerLocking` |
| statistics, clock, busy loops, Java binding, tests | - | - | no: measurement and glue |

### How they interact

Everything the module does is done by a *handler* that holds `zsrmlock`:

* a system call of a task (`zsrm_write`),
* the expiry of one of the three kernel timers of a reserve: period, budget
  enforcement, zero slack (`kernel_timer_handler`),
* the loop of the scheduler thread (`scheduler_task`).

Timers may not touch another task's state, so they push the reserve on
`reschedule_stack`, with or without `request_stop`, and wake the scheduler
thread; it stops, restarts or deletes what it pops. A request can thus be
overtaken by any other handler. Tasks that have captured the enforcement
signal are not stopped: they get a signal, and the handler in libzsv makes the
system call that ends the job.

Handlers run on several processors. A timer that expires while another handler
holds `zsrmlock` tries to get it a million times and then gives up, and the
holder that cancels a timer waits until the callback of that timer has
returned, with interrupts disabled. The admission test runs inside CREATE, and
in the library on a table of its own.

### What is hard

* Requests are served after the state they were made for has changed: an
  arrival replenished the budget, the reserve was deleted and its entry handed
  out again, the same request was pushed twice.
* The same state is changed by several paths, each with code of its own:
  the head of the ready queue (start, stop, overrun, deletion with and without
  a task), `start_period`, `enforced`, `in_critical_mode`.
* The criticality lists keep links to reserves that are deleted.
* Tasks exit without a word; only timers find out.
* Wakeups are lost between an unlock and a change of the thread's state.
* Counters are unsigned and decremented without a look.
* Handlers wait for a lock whose holder waits for handlers.
* The admission test is a fixed point of a fixed point, in unsigned arithmetic,
  on a table that the library fills through a permutation.
* The library looks at the head of its list before it takes the mutex.

`PROJECT.json` lists these hazards at their lines. What makes each component
correct:

* dispatcher: the queue is sorted and holds attached reserves only; the timer
  that is armed is the head's, for what is left of its budget; whoever runs is
  charged and no job exceeds its budget; a stopped job waits for its period;
* rate-monotonic queue: it holds the reserves in use by increasing period, and
  the priorities follow it;
* arrivals: an arrival starts exactly one job, and every waiting task is
  started again;
* criticality mode: `sys_criticality` is that of the most critical task in the
  mode, and nothing below it is started or resumed;
* departures: a job that has ended does not run until its release;
* lifecycle: what is deleted is in no queue, and what has lost its task is
  deleted;
* scheduler thread: it does not sleep on a request;
* signals: a job that has no budget and no timer has been told to stop;
* admission: the verdict is that of the response-time test, and the instant
  handed back leaves room for the budget;
* timer handlers: none works on a reserve that was deleted while it waited, the
  period timer of an attached reserve is never lost, and nobody waits for ever;
* activator: the task of a reserve gets its priority and CPU, and no other does;
* handler table: a signal finds the record of its reserve;
* trace buffer: records are read once, in order.

## 2. The modules

| module | content |
|---|---|
| `ReserveQueues` | the queues: sorted insertion and removal on sequences, and the criticality lists on links |
| `Zsrmv` | the scheduler: one action per handler |
| `ZsrmvProperties` | its properties |
| `MCZsrmv` | the sets of reserve parameters of the runs |
| `Dispatch` | the abstract dispatcher: what `Zsrmv` promises about who runs and who is charged |
| `Admission`, `MCAdmission` | the admission test with both its callers; sets of specifications |
| `TimerLocking` | `zsrmlock`, the kernel timers and the processors they expire on |
| `HandlerTable` | libzsv's table of enforcement handlers, shared by threads |
| `DispatcherProofs` | lemmas on the queues and on the functions that change the dispatcher |
| `HandlerProofs` | the inductive invariant, and one lemma per handler |
| `ZsrmvProofs` | the theorems on `Zsrmv` |
| `DispatchProofs` | `Zsrmv` implements `Dispatch` |
| `JobProofs` | the theorems on jobs and their budgets, for the schedules and calls under which they hold |
| `AdmissionProofs`, `TimerLockingProofs`, `HandlerTableProofs` | the theorems on these modules |

`ZsrmvProperties` instantiates `Dispatch` under a refinement mapping. The other
three modules each take one mechanism that `Zsrmv` treats as atomic or as a free
choice and model it by itself, with what it needs of the rest: `TimerLocking`
has all the handlers of `Zsrmv`, but of their effects only which timers they
cancel and arm.

### State of `Zsrmv`

`table` holds the fields of `reserve_table` that handlers look at, `spec` the
parameters given to CREATE. `pid` is -1, 0 or positive in the code, *free*,
*created* or *attached* here. `dispatcher` is one record, because the functions
of the code that change the ready queue call each other inside handlers:
`Start`, `Stop`, `BudgetEnforcement`, ... map a dispatcher to the next, and a
handler composes them in the order of the code. `task[r]` is the state of the
task attached to `r`: it *runs*, *sleeps*, sleeps inside its signal handler and
takes no signal (*masked*), or is *dead*, which is when `gettask` finds nothing
(`Alive`). `lock` says which handler is between two iterations of a loop.

The ready queue and the rate-monotonic queue are sequences. The criticality
stack and `crit_blockq` are not: deletion leaves reserves in them, creation
clears links in their middle, and adding a reserve twice links it to itself. So
`Lists` keeps a head and a link per reserve, as the code does, and
`AddByCriticality` walks it like `add_crit_stack`.

### Steps of `Zsrmv`

A handler without a loop is one action: `CreateReserve`, `AttachReserve`,
`Delete`, `CaptureEnforcementSignal`, `WaitPeriod`, `EndPeriod`, `WaitRelease`,
`PeriodTimer`, `EnforcementTimer`, `ZeroSlackTimer`. The loops are one action
per iteration: `ReleaseBlocked` and `FinishDeparture` (departure),
`ZeroSlackScan` (`zs_enforcement`), `SchedulerPop`, `SchedulerUnlock` and
`SchedulerSleep` (`scheduler_task`). `EnforcementSignal` is the delivery of a
signal and the call libzsv's handler makes. `Die` is the exit of a task.

Time is modelled where a budget is charged: `Tick` is a unit of execution of
the head. A tick happens only when no handler is running, the scheduler thread
is asleep and no enforcement timer is due, since interrupts and the scheduler
thread preempt tasks. The phases of period and zero-slack timers are not
modelled: an armed timer may expire at any time. This admits more behaviours
than the clock does (arrivals may be early or late), and hence every overlap of
arrival, enforcement and departure.

### Abstractions of `Zsrmv`

* The admission test is a free choice of `CreateReserve`.
* A created reserve is attached once, by a task that has no other reserve, and
  a departure call is made by the task of the reserve. A second attach clears
  the reserve's link in the ready queue, which sequences cannot express.
* NOWAIT_PERIOD differs from WAIT_PERIOD in an argument that is not used.
* `num_wait_release` is only asked whether it is positive.
* A zero-slack instant equal to the period is pushed past it by the code
  ("effectively disabling it"): `spec.zsinstant` is FALSE then.
* Signals of a reserve are dropped when it is deleted or its task exits. Two
  signals of a task stay in order; SIGRTMIN-type queues overflow outside the
  model.
* Scheduling classes, CPU affinity and memory are the activator's.
* `hrtimer_cancel` succeeds at once, and a timer handler gets `zsrmlock`:
  `TimerLocking` looks at that.

### The refinement: `Dispatch`

`Dispatch` knows reserves that are ready, their priorities, the execution
charged to their jobs, and the arrivals less the jobs that were stopped or
departed (`due`).
`Execute` charges a tick to the ready reserve of highest priority. Every other
step moves one reserve at most and reorders none (`SameOrder`): `Resume` starts a
job with the charge it has; `Leave` stops a job, or lets it depart, with its
charge, and counts down; `Arrive` alone lowers the charge of a reserve with a
task, and counts up unless the last job is late; `Exit` takes a task away, and `Reap` its
reserve. So no stop, departure, preemption or resumption may lose or repeat a
charge, that of the head included. A new job starts at no charge, with one
exception that the code makes: the arrival of a job whose reserve is still ready
although it has been stopped (`due` below 1: the pop of a second request has
resumed it) resets what is stored and leaves what the head is executing.
`Abstract` maps `due` to `start_period`. `Zsrmv` keeps the charge of the running
job in two places: `current_exectime_ticks`, and the time since `start_ticks`,
which is added when the job stops. The mapping adds them up (`UsedIn`): a step that changes the head of the queue without charging
the old head, or starts the new one with the old `start_ticks`, is not a step of
`Dispatch`. Reserves whose task is dead are exempt (`tasked`), since the forced
deletion charges nobody.

### `Admission`

`table` is `reserve_table`, or the copy `rtable` the library makes; `test` holds
the local variables of `admit` and of its caller, whose place `test.pc` is. An
action is one iteration of `admit` (`Iterate`) or one comparison of the
library's sort; the inner fixed point `getResponseTimeCritNs` is a recursive
function. Subtractions wrap (`Uint`). `CreateRsv` starts a test in the kernel,
`KernelAnswer` ends it, `IsAdmissible` to `CopyTable` are the library's way to
it, `LibraryPasses` and `LibraryFails` end each of its tests. Each specification
handed to the library gets its instant back in `zsinstant`.

### `TimerLocking`

A section under `zsrmlock` is a *plan*: the sequence of `hrtimer_cancel` and
`hrtimer_start` calls it makes, in the order of the code. The operators
`Started`, `Stopped`, `Deleted`, ... are named for the functions and yield the
outcomes of each: the reserves after it, and what it adds to the plan. What
depends on data that is not modelled (budgets, criticality) is a choice. A
departure chooses which reserves are `blocked`; before it releases the lock it
goes through all of them, in any order, one step each (`ReleaseBlocked`), and
starts those whose task it finds and deletes the others.
`CancelTimer` is enabled when the callback is not running on any processor;
`GiveUp`, the end of a million tries, is enabled when the holder of the lock is
itself waiting for a callback, because no other section lasts that long (without
that restriction a handler could give up at any time, and any period timer be
lost). A processor that spins or holds the lock has its interrupts disabled, so
it runs no other handler. `AtomicLooks` forbids that a task exits between the
look of `timer_handler` and that of `start_of_period`.

### `HandlerTable`

Each thread owns a reserve, registers a handler for it (`Fork`), perhaps again,
and gets the signals of it (`Signal`). Both look the record up: `ReadHead`
before the mutex is taken, `LockTable`, `Hop` along the list, and `Found` or
`NotFound`. `Add` is the second critical section of a registration.

### Constants and bounds

`MaxReserves`, `Specs`, `MinPriority` are the program's. `UintMod` is the range
of an unsigned int: a small power of 2, which reaches the wrap early; it is 2
where nothing reads the counter, and 4 with sporadic reserves, so that a wrapped
counter differs from 0 and 1. `MaxTicks` saturates execution times: it is at
least every budget, so that "exhausted" is told apart from "has budget left".
`MaxDrift` stops departures of a task that has departed that much oftener than
arrivals (`start_period` falls without bound in the code). It is 0 in `sporadic`,
the run with the most interleavings; the theorems hold for every value.
`MaxSignals` stops the timers while that many signals are pending. `Mortal` limits which tasks
exit, `Calls` which calls tasks make: they split what is too large for one run.
`SchedFirst` says whether handlers wait for the scheduler thread: TRUE is a
single CPU on which the thread, which has the highest priority, runs before
anything but an interrupt handler that finds it awake; FALSE lets timers and
calls interleave with the thread between its pops' critical sections, with
lost wakeups.

`Slots` and `Specs` bound the table of the admission test and the reserves that
fill it; `UintMod` there only has to exceed the sums that do not wrap. `Rids`,
`CPUs` and `Mortal` are the reserves, the processors and the tasks that may exit
in `TimerLocking`. `MaxForks` and `MaxSignals` bound how often a thread
registers and is signalled in `HandlerTable`.

## 3. The runs

Two reserves are enough for each interaction the scheduler has: one of them
preempts, blocks, or inherits the head from the other, the loops over the
criticality lists meet a list of length two, and the reschedule stack gets full.
Two violations are known that take more, both described below: that of
`NoEntryBelow` after an attach below the mode, and that of `ReadyAwake` with a
`crit_blockq` that has no end. The theorems about these properties name what
excludes them.
Insertion in the middle of a longer queue is covered by the proofs. The
admission test needs three reserves, for the one under test may have one of
each relation of priority and criticality beside it, and a sort of three
indices has every case. The race in the handler table needs three threads: one
that walks, one that replaces the head, and one whose record is missed. Two
processors are enough for a holder that waits for a spinning handler; the third
makes a difference, which is described below.

| run | question |
|---|---|
| `lifecycle` | Two tasks of one criticality with budgets of 1 and 2 that wait for their periods, reserves that are deleted and created again, a task that exits. With the scheduler thread first: is every exhausted job stopped (`HeadEnforced`), and no job by a timer that is early (`EnforcedExhausted`), until its next period (`StoppedUntilNextPeriod`), within its budget (`BudgetKept`)? Does `start_period` count right (`StartPeriodCounts`), is whoever runs charged (`RunningReady`) and whoever is scheduled awake (`ReadyAwake`), does no deleted reserve stay in the ready queue (`ReadyAttached`), do priorities follow the periods (`PrioritiesFollow`)? Does all this implement the abstract dispatcher (`ImplementsDispatch`)? Is every waiting task started again (`Released`) and the reserve of a dead task deleted (`DeadDeleted`)? |
| `criticality` | A task of high rate and a more critical one with a zero-slack instant. Is `sys_criticality` right when jobs overrun, depart and block each other (`SysIsTop`), does no arrival or resumption get below it (`NoEntryBelow`), are resumed tasks awake as long as `crit_blockq` has an end (`BlockedAwake`), is the armed timer the head's (`BudgetTimerSound`), are both queues in order (`ReadyqSorted`, `RmQueueSorted`) and no counter out of range (`TypeOK`)? |
| `sporadic` | `end_of_period`, `wait_for_next_release` and captured enforcement signals, taken at any time. As long as no task captures the signal, does a job that has ended wait for its release (`EndedJobWaits`)? As long as no job is ended by `end_of_period`, has an exhausted job without a timer been told so (`ExhaustedSignalled`)? |
| `admission` | Tables of three reserves out of eight specifications, in the kernel and in the library. Is the verdict that of the response-time test (`VerdictIsResponseTime`), does the instant leave room for the budget and reach the specification it belongs to (`InstantLeavesRoom`), are the more critical reserves tested first (`CriticalFirst`), does every test end (`Answers`) and no number leave its range (`TypeOK`)? |
| `locking` | Two reserves, one of a task that may exit, two processors. Does no handler work on a reserve that was deleted while it waited (`NoStaleFiring`), has every attached reserve a period timer (`PeriodTimerLives`), do all sections end (`SectionsEnd`)? |
| `handlers` | Three threads. Is the list one ring (`Ring`) that no walk leaves (`TypeOK`), is a record missed only by the race (`MissedOnlyByRace`), does every look-up end (`LookupsEnd`)? |

`VerdictIsResponseTime` compares `admit` with a reference that knows no
iteration: a budget fits if some interval up to the period holds it and the
demand of those that a critical job cannot stop. It is stated for tables in
which the subtraction in `getExecTimeLowerPrioHigherCrit` does not wrap.

### Where the code does not do what it says

Each of these runs ends in a counterexample to a statement of the code's own
comments; `PROJECT.json` quotes them.

* `budget_overrun` (`BudgetKept`): a job stopped twice before the scheduler
  thread runs is on its stack twice; the second pop, with `request_stop`
  cleared by the first, restarts it.
* `crit_stack_cycle` (`CritStackAcyclic`): `add_crit_stack` clears the link of
  a reserve that is on the stack already and then links it to itself.
* `critical_starvation` (`ReleasedAfterCritical`): a critical job that overruns
  its period leaves criticality mode without popping the stack; arrivals of
  less critical tasks are refused from then on.
* `lost_wakeup` (`RequestWakes`): the scheduler thread goes to sleep on a
  request pushed after it had unlocked.
* `stale_slack` (`SlackIsThere`): when Z is exactly at the limit and no slack
  opens behind it, `admit` grants the slack of the iteration before once more.
* `handler_deadlock` (`DeadReserveDeleted`): `start_of_period` finds no task,
  where `timer_handler` had found one, and deletes the reserve from within the
  callback of the period timer that the deletion waits for. With `AtomicLooks`
  TRUE the property holds.

The models show more of this kind, for which no run is kept:

* A reserve that criticality enforcement blocked after it had been stopped for
  its budget resumes with `enforced` set (l.2061), and its next enforcement is
  ignored: it runs without a timer (l.411: "the active job must have a timer set
  to enforce its execution time"). `HeadEnforced` fails with the specifications
  of `criticality`.
* `add_crit_blocked` has the fault of `add_crit_stack`: it clears the link of
  the reserve (l.727) before it looks for it, and looks only where its walk stops
  (l.744: "WARNING tied to add rid(%d) already in queue"). With three reserves
  and two zero-slack instants `ReadyAwake` fails, as TLC shows when it follows one
  execution of 67 states, which is out of reach of a search: `x`, resumed by a
  departure with `enforced` still set, is not stopped when it is blocked again,
  and is blocked once more behind a more critical reserve that has departed
  meanwhile. It is now linked to itself; the next departure's loop stops at its
  bound and leaves it so. Later `x` enters critical mode, departs, finds itself
  in the loop, starts its own reserve, and goes to sleep: the ready queue is left
  with a reserve whose task sleeps. `BlockedAwake` says that nothing else
  leads there.
* `attach_reserve`, and `wait_for_next_release` when an arrival is pending,
  start a reserve without looking at `sys_criticality` (l.258: "only tasks with
  higher or equal criticality than sys_criticality are allowed to run");
  `NoEntryBelow` exempts the first and its run has no such call.
* A reserve so attached can be restarted below `sys_criticality`, which violates
  `NoEntryBelow` with four reserves. `x`, of criticality 1, is attached while
  `r0` (2) and `r` (3) are in critical mode and `r0` and `t` (2) are blocked, and
  exhausts its budget just as `r` departs. The departure starts `r0` and `t`
  behind `x`; each start finds `x` exhausted and requests its stop, which
  `push_to_reschedule` (l.2485) puts on the stack twice. `scheduler_task` stops
  `x` at the first pop, clearing `request_stop`, and starts it at the second.
  This needs no race: the scheduler thread runs first throughout.
* A sporadic task stopped by the scheduler thread has not called
  `wait_for_next_release`, so no arrival wakes it (l.1298): `Released` fails for
  sporadic reserves.
* The arrival that finds a job overrunning starts its successor and counts a
  wakeup as well (l.1292), and `wait_for_next_release` later takes it and starts
  one job more in the same period.
* `SysIsTop` and `CritStackAcyclic` do not survive deletions, which leave the
  reserve on the criticality stack with `sys_criticality` raised.
* If a job calls `end_of_period` before it takes an enforcement signal of the
  same job, the wrapper's `wait_for_next_period` leaves `end_of_period_marked`
  set. A later exhausted job's signal then says "not periodic", its
  `wait_for_next_release` finds a wakeup, and the job continues without timer
  and signal: in the run `sporadic`, `ExhaustedSignalled` fails without its
  condition `[]Unmarked`. With `MaxDrift` 1 the late signal may also end the job
  a second time, and `EndedJobWaits` fails without `[]Uncaptured`.
* The enforcement timer pushes a request to stop (l.1165), the thread pops it
  later (l.2525), and nothing ties it to the job it is about. If the period timer
  of the reserve runs in between, `reset_exectime_counters` gives the new job its
  budget, and the pop then sets `enforced` and stops that job, which has not
  executed at all. With the constants of `lifecycle` and `SchedFirst` FALSE,
  `EnforcedExhausted` fails so after eight steps: `CreateReserve`,
  `AttachReserve`, `Tick`, the two timers, and the scheduler thread's pop, unlock
  and sleep. The runs have `SchedFirst` TRUE, and do not show this.
* With `SchedFirst` FALSE a forced deletion can be lost with the wakeup of the
  scheduler thread.
* With three processors `PeriodTimerLives` fails: a period handler spins while
  the holder of the lock waits for another handler, and so gives up together
  with that one. Nothing arms the period timer again, and the task is never
  released.
* `delete_reserve` reuses its variable `task` for the new head (l.1582): a forced
  deletion goes on to demote the task of that head to SCHED_NORMAL (l.1616).
* A look-up in the handler table that read a head which is then replaced ends
  before it has seen every record (libzsv.c:88). The wrapper then prints "NOT
  CALLING WFNP", and the exhausted job runs on; a registration adds a second
  record for the same reserve.
* `nominal_exectime_ns - exectime_in_rm_ns` wraps (admission.c:100) when more
  than the nominal execution time is granted in rate-monotonic mode; the
  reserves below are then refused, or admitted, by chance.
* The kernel tests only the reserve that is created. Reserves of lower priority
  or criticality admitted before are not tested again, and the zero-slack
  instant the client asked for is overwritten, so that the doubling of
  `zsinstant` in l.2911-2915 has no effect. The library tests a set in order of
  criticality, the kernel in order of creation: their verdicts may differ.

### Fairness

`Fairness` assumes that a handler that has begun returns (`WF(Continue)`), that
the scheduler thread gets `zsrmlock` and runs once it is awake, that a period or
enforcement timer that is armed, resp. due, expires and gets `zsrmlock`, and
that a ready head executes. `zsrmlock` is a spin lock held with interrupts
disabled for a bounded time, so contenders get it again and again enabled:
hence SF. The head of the ready queue has the highest `SCHED_FIFO` priority of
all tasks, so it executes (`SF(Tick)`). Nothing is assumed of tasks, which need
not make calls or take signals, nor of zero-slack timers. The fairness makes
`Released` hold because the period timer keeps arming itself, and the mutant in
which it does not breaks it.

`Admission`: a test that has begun goes on (`WF(Run)`), which is sequential
code. `TimerLocking`: `Progress` assumes that the holder of the lock goes on,
that a handler does give up after its tries (`WF(GiveUp)`), and that each
processor that spins gets the lock if it is free again and again, which the
ticket lock of the kernel gives to callers of `spin_lock_irqsave`; `trylock`
handlers have it because sections are short against a million tries. For
`DeadReserveDeleted` alone, timers that are queued expire and the scheduler
thread is scheduled. `HandlerTable`: a thread inside the library goes on; the
mutex need not be fair, since registrations and signals are bounded.

## 4. The proofs

For every value of the constants that satisfies the assumptions of the modules
(`MaxReservesAssumption`, `ConstantsAssumption`: the constants have their types
and parameters are numbers, with budgets no larger than `MaxTicks`),
`ZsrmvProofs` proves

* `TypeCorrect`: `Spec => []TypeOK`,
* `ReadyqStaysSorted`: `Spec => []ReadyqSorted`,
* `RmQueueStaysSorted`: `Spec => []RmQueueSorted`,
* `PrioritiesStayMonotonic`: `Spec => []PrioritiesFollow`,
* `ReadyStaysAttached`: `Spec => []ReadyAttached`,
* `BudgetTimerStaysSound`: `Spec => []BudgetTimerSound`.

None of these is inductive by itself: `IInv` is their conjunction, with
`ScanFromHead` beside it, and all but the latter are invariants of a run. The
argument, in the order in which the
parts of `IInv` need each other:

1. A reserve that enters the ready queue is linked in front of the first member
   of lower priority. The queue stays *strictly* sorted only if the newcomer's
   priority differs from every member's.
2. Priorities of two attached reserves differ because they follow the
   rate-monotonic queue: `PrioritiesFollow`. This is about attached reserves
   only, as created ones still have the priority their creator asked for, until
   the next attach numbers them all.
3. Numbering them again keeps the ready queue sorted because both numberings
   follow the same queue. This needs that the members of the ready queue are
   attached (`ReadyAttached`) and hence in the rate-monotonic queue
   (`RmQueueSorted`), whose order deletions and insertions keep.
4. A strictly sorted queue has no duplicates, so `stop_reserve` and
   `delete_reserve` remove *the* occurrence of a reserve, and what they leave
   is free of it: this gives `ReadyAttached` across deletions, whatever the
   criticality lists and the reschedule stack still say of the reserve.
5. `BudgetTimerSound` follows the head: charging it cancels its timer, after
   which no timer is armed (`NoTimer`), and `StartHead` arms that of the new
   head with the budget less what it has been charged.
6. `ScanFromHead`, that the loop of `zs_enforcement` counts from the head, is
   needed for the types of what the loop pushes.

`DispatcherOK(d)` is what `IInv` says of a dispatcher `d`. As handlers compose
`Start`, `Stop` and the others, each function gets a lemma that it keeps
`DispatcherOK` (`StartOK`, `StopOK`, ...), on top of the lemmas on its queue
(`StartType`, `EnqueueOrdered`, `DequeueProperties`). A handler's lemma
(`DepartOK`, `StartOfPeriodOK`, ...) composes them; `QuietStep` is for the
handlers that leave the identity of all reserves alone, `DeleteStep` for the
others.

**The refinement.** `DispatcherImplementsDispatch` (`Spec => ImplementsDispatch`)
stands on `IInv`: the head is the ready reserve of highest priority because the
queue is sorted, `SameOrder` holds across an attach because of
`PrioritiesFollow`, and each function on dispatchers keeps `UsedIn`, because it
charges the head before it changes it and starts the new head at no elapsed
time. Each function gets a lemma that it moves at most one reserve and loses no
charge (`Rescheduled`), and each handler one that says which action of
`Dispatch` it is (`ResumedFrom`, `LeftFrom`, `ArrivedFrom`, ...). `due` asks for
two more facts: that the caller of a departure has a task (`CallerAlive`), and
that each handler changes `start_period` of its own reserve alone.

**Jobs.** What `Zsrmv` promises about a job and its budget does not hold for
every schedule and every call: section 3 lists counterexamples. The theorems of
`JobProofs` name what they assume.

* `RateMonotonic`: the scheduler thread runs before anything but an interrupt
  (`SchedFirst`), no zero-slack timer is armed, and budgets are positive.
  Deletions, exits, sporadic calls and captured signals are included. Then
  `ExhaustedStaysSignalled` (`Spec => ExhaustedSignalled`) and
  `StoppedStaysStoppedCapturing` (`Spec /\ []Unmarked =>
  StoppedUntilNextPeriod`).
* `Uncapturing`: `RateMonotonic`, and tasks do not capture enforcement signals.
  Then `HeadStaysEnforced` (`Spec => []HeadEnforced`),
  `BudgetStaysKept` (`Spec => []BudgetKept`), `StoppedStaysStopped` (`Spec =>
  StoppedUntilNextPeriod`), and `RequestsStayAwake` (`Spec => []RequestWakes`).
* `Periodic`: `Uncapturing`, and tasks do not call `wait_for_next_release` or
  `end_of_period`. Then `StartPeriodStaysOne` (`StartPeriodCounts`),
  `RunningStaysReady` (`RunningReady`), `ReadyStaysAwake` (`ReadyAwake`) and
  `EnforcedStayExhausted` (`EnforcedExhausted`).
* `Sporadic`: `RateMonotonic`, and tasks do not call `wait_for_next_period`.
  Then `EndedStaysWaiting` (`Spec => EndedJobWaits`). Signals may be captured,
  but the property is about behaviours in which none is.

The run `lifecycle` satisfies `Periodic`, and `sporadic` satisfies `Sporadic`.
Each part of the hypotheses is needed. Without `SchedFirst`, `budget_overrun`
and `lost_wakeup` are counterexamples, and so is, to `EnforcedExhausted`, the
arrival between the push and the pop of a request to stop (section 3):
`EnforcedStayExhausted` is about charge and timer, not about that race. With zero-slack timers a reserve that was
stopped for its budget resumes with `enforced` set. With captured signals the
job is not stopped by the thread, and runs on until its task takes the signal.
A job without a budget is exhausted the moment it starts. With sporadic calls a job may
end while `start_period` counts arrivals ahead of it: TLC finds all four
properties under `Periodic` violated. `EndedJobWaits` fails without `SchedFirst`
(`scheduler_task` pops a second request about a reserve whose `request_stop` the
first has consumed, and starts its ended job), and with calls of both kinds (a
`wait_for_next_period` after `end_of_period` clears `non_periodic_wait`, the
arrival starts the ended job, and the `num_wait_release` that its
`wait_for_next_release` leaves set lets a later arrival start another).

The invariant (`JobInv`) is about the reschedule stack. The stop of an exhausted
job is two steps, of the timer and of the thread, and what comes between them
must not undo either. Under `RateMonotonic` the stack has at most one request
(`RequestsOK`): to delete a reserve without a task, or to stop a reserve that is
still in the ready queue; the thread is awake and serves it before a second one
can be pushed. A head whose timer is off is the reserve of that request
(`Served`). `ExactOK` adds that an armed enforcement timer is due exactly when
the budget is used up, and that a request to stop is of a job that has used it
up. `PeriodInv` adds to `JobInv` the states
a periodic job can be in: scheduled with its task running and `start_period`
1, or departed with `start_period` 0 and its task asleep. Each function on
dispatchers keeps `ExactOK` except for the reserves it moves (`ExactExcept`),
and each handler accounts for these. `EndedInv` adds to `JobInv` what the three
flags of a sporadic reserve say together: whoever is marked as ended is
`non_periodic_wait`, not ready and not yet waiting for a release, so no arrival
starts it; whoever waits for its release does not run, so no call of its own can
end a job that has not started. `JobInv` holds as long as no signal is captured,
whatever `Calls` allows (`RestrainedInvariance`): giving up a capture that there
was not is no step (`CaptureRestrained`).

Where tasks do capture the signal, `AnswerInv` says of a head without a timer
that the request to stop it is pending, or that a signal which makes it depart
is in its queue (`Answered`). Which of them depends on whether the signal was
captured when the timer expired; the capture may be taken or given up any time
after. The signal stays until the task takes it, and taking it departs from the
job: since none has been marked by `end_of_period`, every signal says "periodic"
(`AllPeriodic`). A signal that stops nothing leaves the others in the queue, a
job that is preempted after it was signalled is signalled again when it resumes,
and a deletion drops the signals only with the reserve. Unlike in `JobInv`, a
task stopped by the thread need not sleep, for an older signal may wake it; that
its reserve is not ready (`StoppedIdle`) is what `StoppedStaysStoppedCapturing`
needs.

**Criticality mode.** `SysStaysTop` (`Spec => []SysIsTop`): `sys_criticality` is
that of the head of the criticality stack through overruns, departures and
resumptions, if no reserve is deleted and no task exits (`Undeleted`).
`ModeInvariance` is its inductive invariant: whatever a list, a request or a
timer refers to is attached. The hypothesis is needed because a deletion leaves
the reserve on the stack, and `CreateReserve` hands its entry, now the head, to
a reserve of another criticality.

`NothingEntersBelow` (`Spec /\ [][AttachesAbove]_vars => NoEntryBelow`) is about
the tables of the run `criticality` (`PeriodicTable`: `Undeleted`, `SchedFirst`,
no sporadic calls; captured signals included) when, in addition, no reserve is
attached below the mode. Arrivals and the loop over `crit_blockq` ask
`sys_criticality`; `scheduler_task` does not, and starts what it pops unless a
stop is requested. So the invariant (`BlockInv`) has to show that a request about
a reserve below the mode finds it in the ready queue, and with `request_stop` set
if it is still to be stopped (`LowRequests`). The reserves still to be stopped
are `Doomed`: ready, below the mode, not `enforced`. There are some only between
the rise of the mode in `zs_enforcement` and the end of the scheduler thread's
loop, which no handler interrupts (`Watching`). In between each is requested or
ahead of the scan (`DoomedRequested`), each at most once: the requests are in the
order of the ready queue (`RequestsInOrder`), and the lowest priority, on top, is
popped first. A pop thus stops a reserve that is not the head as long as others
are still to be stopped, and starts nobody who might be exhausted and requested
again. That the mode only falls when a critical reserve departs rests on the
links of the criticality stack, which never lead to a more critical reserve
(`Falling`), and on `ModeInv`. `AttachesAbove` is needed: the counterexample is
in section 3.

`BlockedStayAwake` (`Spec => BlockedAwake`, that is, `[]BlockedEnds =>
[]ReadyAwake`) does without `SchedFirst` and `RateMonotonic`. It needs that
nothing is deleted and no task calls `end_of_period` or `wait_for_next_release`;
it holds for any number of reserves and zero-slack instants.
`wait_for_next_period` puts its task to sleep after it has gone through
`crit_blockq`, so it must not resume itself. The invariant (`AwakeInv`) says
that while no departure is under way every blocked reserve is below the mode
(`Low`). A task that departs while it is blocked therefore leaves the mode as it
is: it is not critical, or it is not on top of the criticality stack. So it
stays below the mode. During a departure the exceptions are those the loop has
yet to take off, and never its own reserve; the loop takes off the head as long
as it is not below the mode, and since the links never lead to a more critical
reserve (`LinkedFalls`), what is left when it stops is below. That its bound
(`lock.at`) does not stop it first is counted: the members that are left and the
iterations that are done are at most `MaxReserves`, and each iteration takes off
one, because the head of a list that has an end is not among the rest
(`LinkedBehead`). There `BlockedEnds` is used, and without it the conclusion is
false: see section 3.

**Admission.** `TestsCriticalFirst` (`Spec => []CriticalFirst`) proves the
library's indirect exchange sort: at position `i`, `j`, the first `i - 1`
entries are in order and not below any later one, and entry `i` is not below
those up to `j`. `order` stays a function into the specifications throughout.

`AdmissionTypeCorrect` (`Spec => []TypeOK`) holds for all specifications, also
where counts wrap. Its hard part is that the response-time iteration, a
recursive function on the naturals, returns a count: the function exists
because each pass either ends or goes up, to the period at most
(`IterationExists`), and it returns the demand of some interval
(`IterationEnds`).

`VerdictIsExact` (`Spec => []VerdictIsResponseTime`) assumes that every budget
is positive and that the demand of the whole table over one period or budget
fits the type (`NoOverflow`: 64-bit nanoseconds). A reserve without a budget is
admitted although no interval holds it, so the first is needed; the second is
what the property leaves implicit in its bounds. The argument: within the
horizon of the iterations nothing wraps, so the demand of the code is the one of
the reference definition, entry by entry (`OwedIs`) and in sum (`BusyIs`). The
first iteration starts at the budget and returns a fixed point or a value
beyond the period; an interval `t` that holds its demand bounds every pass from
below `t` (`IterationBounded`). Later iterations grant more execution in
rate-monotonic mode, which only lowers the demand, and the reference does not
depend on it: the verdict stays (`VerdictKept`).

`InstantsLeaveRoom` (`Spec /\ []NoWrap => []InstantLeavesRoom`) adds what an
iteration leaves behind (`IterationLeavesRoom`): `Z` is at most the period less
the budget that is left, in each of the four branches of the slack, and also
with the slack of the iteration before, which is why `Room` bounds that. The
instants of the kernel's entries and those handed to the library's client stay
because an iteration writes the entry under test alone and `order` is
one-to-one. `NoWrap` has to hold throughout: if `nominal_exectime_ns -
exectime_in_rm_ns` wraps for a more critical reserve, the response time falls
below the budget and the instant comes too late. TLC finds it with the
(period, budget, nominal budget, criticality) (8, 2, 1, 3), (3, 3, 3, 1) and
(4, 3, 3, 2), created in this order: the last gets the instant 2 and needs 3
units of 4. The set of the run `admission` has wrapping tables, but none where
this happens. `NominalBudgetsLeaveRoom` shows that `NoWrap` does hold throughout
where no reserve has a budget beyond its nominal one.

**Induction.** The library's induction theorems take an operator, which the
provers cannot instantiate. `AdmissionProofs` uses its theorem on minimal
elements of well-founded sets instead: a set of naturals has a least element
(`LeastNatural`), so a set that holds 0, and `n` with `n - 1`, is everything up
to the bound (`IntervalInduction`). A claim on a recursive function becomes one
on the set of arguments for which it holds.

**Timer locking.** `NoHandlerIsStale` (`Spec => []NoStaleFiring`) and
`LockingTypeCorrect`, for any number of processors and reserves. While the lock
is held a timer may well be armed that should not be; what makes the invariant
inductive (`LockInv`) is a statement about the rest of the plan: a timer that is
not legitimate in the state the section leaves is *quiet*, that is, either it
is not in use and the plan does not arm it, or the plan still cancels it and
does not arm it after. Each operator on outcomes gets a lemma that it keeps
this (`StartedSound`, `StoppedSound`, ...). `CancelTimer` makes the timer unused
only because it waits for the callback: with `hrtimer_try_to_cancel` the proof,
and the property, fail.

`PeriodTimerStaysAlive` (`Spec => []PeriodTimerLives`) holds for any number of
reserves on two processors (`TwoCPUs`), with or without `AtomicLooks`. A handler
gives up only while the holder of the lock waits for a callback. With two
processors the callback is that of the handler itself, and only a deletion
cancels a period timer that is spinning. Unless the section is
stuck in its own callback (`handler_deadlock`), `LivesInv` says of each attached
reserve that the rest of the plan does not cancel its period timer, and that
this is queued or its handler has yet to do its work, or that the rest of the
plan arms it, or that the scheduler thread has been asked to delete the reserve,
which has no task. With three
processors a handler gives up because of a section that waits for another
handler (section 3).

**Handler table.** `TableStaysRing` (`Spec => []Ring`), `HandlerTableTypeCorrect`
and `OnlyRacesMiss` (`Spec => MissedOnlyByRace`), for any number of threads and
registrations. `LinkedRing` shows that a fresh record linked behind the head
leaves a ring: a set closed under the new links gives one closed under the old
links when the record is taken out. That nothing is missed without the race
rests on what a walk has visited: as long as the head is the one it started
from, there is a set of records that holds the head, is closed under `next`
except at the record the walk has reached, and has no record of the thread.
When the walk ends the set is closed, hence the whole ring.

**Not proved.** TLAPS does not reach ENABLED and fairness, so the liveness
properties stay with TLC: `Released`, `DeadDeleted`, `Answers`, `SectionsEnd` and
`LookupsEnd`. Every safety property of a passing run is stated by a theorem, some
under hypotheses that name where it holds.

## 5. Plan

Done are the scheduler and its refinement, the admission test, the locking of
timer handlers and the handler table, with the theorems above. What would come
next:

1. `ReadyQueueLinks`: the ready queue at pointer level, implementing the
   sequences of `Zsrmv`, with a reserve that is attached twice.
2. `Activator`: scheduling classes and the stack of the activator thread.
3. What tasks that capture the signal and also make sporadic calls can rely on.
   The counterexamples known (section 3) need a signal that is taken after its
   job has ended, or after the capture was given up.

## 6. Not modelled

* **Activator thread.** It gives tasks their scheduling class and CPU from a
  table it reads without `zsrmlock`. `Zsrmv` orders tasks by the priorities in
  the table and has no classes, so no property of it depends on the activator;
  its races (hazard l.2644) need a model of classes first.
* **Trace buffer.** Written under `zsrmlock`, read and reset without it; nothing
  the scheduler decides reads it.
* **Links of the ready queue.** Attaching a reserve a second time (l.1472) cuts
  the list; in `Zsrmv` a reserve is attached once.
* **Going to sleep.** `wait_for_next_period` marks its task sleeping under the
  lock and schedules after releasing it (l.2099); `Zsrmv` makes it one step. A
  wakeup in between sets the task running again, so that `schedule` returns.
* **Freed records.** `zsv_stop_enforcement_handler` frees a record that is still
  in the ring (libzsv.c:568), and it removes the handler of the whole process
  (SIG_DFL) while it stops that of one reserve. What a walk reads from freed
  memory is undefined.
* **Signals inside the library.** A signal that interrupts the holder of
  `handler_table_lock` waits for it for ever (libzsv.c:84).
* **Overflow of signal queues** (l.1104), scheduling classes and pid reuse
  (l.1614), priorities beyond those of the module's threads (l.908).
* **Time.** Clocks, their conversion to ticks, and overhead statistics: timers
  expire at any time in `Zsrmv`.
* **Glue.** Call wrappers, busy loops and the generated speed parameters of
  libzsv, the Java binding, the test programs and plotting tools.
