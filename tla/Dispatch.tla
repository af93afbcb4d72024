------------------------------ MODULE Dispatch ------------------------------
(***************************************************************************)
(* What the dispatcher of zsrmv.c promises to its clients, whatever queue, *)
(* timers and threads it is built from: the processor is given to the      *)
(* ready reserve of the highest priority, every tick of it is charged to   *)
(* the job of that reserve and to no other, and that charge stands until   *)
(* the next job of the reserve arrives.                                    *)
(***************************************************************************)
EXTENDS Integers

CONSTANTS
  Reserve,   \* the reserves
  Limit      \* charges saturate at Limit

VARIABLES
  ready,     \* the reserves that have a job to execute
  prio,      \* their priorities
  used,      \* the execution charged to the current job of each reserve
  due,       \* arrivals less jobs that were stopped or departed
  tasked     \* the reserves whose task exists

vars == <<ready, prio, used, due, tasked>>

Init ==
  /\ ready = {}
  /\ prio \in [Reserve -> Int]
  /\ used = [r \in Reserve |-> 0]
  /\ due = [r \in Reserve |-> 0]
  /\ tasked = {}

\* The ready reserve of the highest priority executes for a tick.
Execute ==
  /\ \E r \in ready :
       /\ \A x \in ready \ {r} : prio[x] < prio[r]
       /\ used' = [used EXCEPT ![r] = IF @ < Limit THEN @ + 1 ELSE Limit]
  /\ UNCHANGED <<ready, prio, due, tasked>>

\* The reserves that are ready before and after a step stay in their order,
\* however they are numbered.
SameOrder ==
  \A x, y \in ready \cap ready' : prio[x] > prio[y] <=> prio'[x] > prio'[y]

\* A job resumes, with what it has been charged, or nothing is scheduled.
Resume ==
  /\ \E r \in Reserve : ready' \in {ready, ready \cup {r}}
  /\ UNCHANGED <<used, due, tasked>>

\* A job is stopped or departs, and leaves with its charge.
Leave ==
  /\ \E r \in tasked :
       /\ ready' = ready \ {r}
       /\ due' = [due EXCEPT ![r] = @ - 1]
  /\ UNCHANGED <<used, tasked>>

\* A job of r arrives and has the budget of the period, also in the place of
\* one that is late.  It starts at no charge, unless a job of r that was
\* stopped has been resumed: that one keeps what it is executing now.
Arrive ==
  /\ \E r \in Reserve :
       /\ ready' \in {ready, ready \cup {r}, ready \ {r}}
       /\ due' = [due EXCEPT ![r] = IF @ >= 1 THEN @ ELSE @ + 1]
       /\ tasked' = tasked \cup {r}
       /\ \/ used'[r] = 0
          \/ due[r] < 1 /\ r \in ready /\ used'[r] <= used[r]
       /\ \A x \in Reserve \ {r} : used'[x] = used[x]

\* A task exits, or its reserve is deleted.
Exit ==
  /\ \E r \in tasked :
       /\ ready' \in {ready, ready \ {r}}
       /\ due' = [due EXCEPT ![r] = 0]
       /\ tasked' = tasked \ {r}
  /\ UNCHANGED used

\* A reserve without a task is taken off; no reserve that has a task is
\* charged for it, or spared.
Reap ==
  /\ \E r \in Reserve \ tasked : ready' = ready \ {r}
  /\ \A x \in tasked : used'[x] = used[x]
  /\ UNCHANGED <<due, tasked>>

Schedule == SameOrder /\ (Resume \/ Leave \/ Arrive \/ Exit \/ Reap)

Next == Execute \/ Schedule

Spec == Init /\ [][Next]_vars
=============================================================================
