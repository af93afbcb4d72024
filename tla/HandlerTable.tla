---------------------------- MODULE HandlerTable ----------------------------
(***************************************************************************)
(* The table of enforcement handlers of libzsv: a circular list of records *)
(* that the threads of a process share under handler_table_lock.           *)
(*                                                                         *)
(* Thread t owns reserve t: it registers a handler for it, perhaps again   *)
(* later, and the enforcement signal of the reserve is sent to it.  The    *)
(* signal arrives while the thread is outside the library; one that        *)
(* interrupts the holder of the mutex would wait for itself.               *)
(***************************************************************************)
EXTENDS Integers

CONSTANTS
  Threads,    \* the threads, each with one reserve
  MaxForks,   \* bound: how often a thread registers a handler
  MaxSignals  \* bound: the enforcement signals a thread gets

ASSUME ThreadsAssumption == Threads # {}
ASSUME BoundsAssumption == MaxForks \in Nat /\ MaxSignals \in Nat

Nil == <<"none", 0>>

\* The records a thread may allocate; each holds the rid of its thread.
Records == Threads \X (1 .. MaxForks)
Rid(rec) == rec[1]

Places == {"idle", "reading", "locking", "walking", "adding"}

VARIABLES
  head,               \* tsignal_handler_head
  next, prev,         \* the links of the records
  handler_table_lock, \* the thread that holds the mutex
  pc,                 \* where a thread is
  caller,             \* which function it looks a record up for
  start,              \* the head that the lookup has read
  tmp,                \* the record that the lookup has reached
  captured,           \* the threads that captured the signal
  forks, signals      \* how often a thread registered and was signalled

table == <<head, next, prev>>
locals == <<caller, start, tmp>>
counts == <<forks, signals>>
vars == <<head, next, prev, handler_table_lock, pc, caller, start, tmp,
          captured, forks, signals>>

Init ==
  /\ head = Nil
  /\ next = [x \in Records |-> Nil]
  /\ prev = [x \in Records |-> Nil]
  /\ handler_table_lock = Nil
  /\ pc = [t \in Threads |-> "idle"]
  /\ caller = [t \in Threads |-> "none"]
  /\ start = [t \in Threads |-> Nil]
  /\ tmp = [t \in Threads |-> Nil]
  /\ captured = {}
  /\ forks = [t \in Threads |-> 0]
  /\ signals = [t \in Threads |-> 0]

\* The records in the list.
Linked == {x \in Records : next[x] # Nil}

Goto(t, place) == pc' = [pc EXCEPT ![t] = place]

Lock(t) == handler_table_lock = Nil /\ handler_table_lock' = <<"held", t>>
Unlock(t) == handler_table_lock = <<"held", t>> /\ handler_table_lock' = Nil

Return(t) ==
  /\ Goto(t, "idle")
  /\ caller' = [caller EXCEPT ![t] = "none"]
  /\ start' = [start EXCEPT ![t] = Nil]
  /\ tmp' = [tmp EXCEPT ![t] = Nil]

\* The lookup returns NULL: fork allocates a record, the wrapper only says so.
Miss(t) ==
  \/ caller[t] = "fork" /\ Goto(t, "adding") /\ UNCHANGED locals
  \/ caller[t] = "wrapper" /\ Return(t)

\* With its record, fork installs the wrapper and captures the signal; the
\* wrapper calls the user's handler and departs.
Finish(t) ==
  /\ captured' = IF caller[t] = "fork" THEN captured \cup {t} ELSE captured
  /\ Return(t)

-----------------------------------------------------------------------------
\* zsv_fork_enforcement_handler begins with a lookup.
Fork(t) ==
  /\ pc[t] = "idle" /\ forks[t] < MaxForks
  /\ forks' = [forks EXCEPT ![t] = @ + 1]
  /\ caller' = [caller EXCEPT ![t] = "fork"]
  /\ Goto(t, "reading")
  /\ UNCHANGED <<table, handler_table_lock, start, tmp, captured, signals>>

\* The wrapper does when the signal arrives.
Signal(t) ==
  /\ pc[t] = "idle" /\ t \in captured /\ signals[t] < MaxSignals
  /\ signals' = [signals EXCEPT ![t] = @ + 1]
  /\ caller' = [caller EXCEPT ![t] = "wrapper"]
  /\ Goto(t, "reading")
  /\ UNCHANGED <<table, handler_table_lock, start, tmp, captured, forks>>

\* Mutant of ReadHead: nothing is asked of the head.
ReadAny(t) ==
  /\ pc[t] = "reading"
  /\ start' = [start EXCEPT ![t] = head]
  /\ tmp' = [tmp EXCEPT ![t] = head]
  /\ Goto(t, "locking")
  /\ UNCHANGED <<table, handler_table_lock, caller, captured, counts>>

\* Mutant of ReadHead: the walk begins behind the head.
ReadNext(t) ==
  /\ pc[t] = "reading" /\ head # Nil
  /\ start' = [start EXCEPT ![t] = head]
  /\ tmp' = [tmp EXCEPT ![t] = next[head]]
  /\ Goto(t, "locking")
  /\ UNCHANGED <<table, handler_table_lock, caller, captured, counts>>

\* get_threaded_signal_handler_record reads the head before it locks.
ReadHead(t) ==
  /\ pc[t] = "reading" /\ head # Nil
  /\ start' = [start EXCEPT ![t] = head]
  /\ tmp' = [tmp EXCEPT ![t] = head]
  /\ Goto(t, "locking")
  /\ UNCHANGED <<table, handler_table_lock, caller, captured, counts>>

ReadEmpty(t) ==
  /\ pc[t] = "reading" /\ head = Nil
  /\ Miss(t)
  /\ UNCHANGED <<table, handler_table_lock, captured, counts>>

LockTable(t) ==
  /\ pc[t] = "locking" /\ Lock(t)
  /\ Goto(t, "walking")
  /\ UNCHANGED <<table, locals, captured, counts>>

Hop(t) ==
  /\ pc[t] = "walking"
  /\ next[tmp[t]] # head /\ Rid(tmp[t]) # t
  /\ tmp' = [tmp EXCEPT ![t] = next[@]]
  /\ UNCHANGED <<table, handler_table_lock, pc, caller, start, captured, counts>>

Found(t) ==
  /\ pc[t] = "walking" /\ Rid(tmp[t]) = t
  /\ Unlock(t)
  /\ Finish(t)
  /\ UNCHANGED <<table, counts>>

\* Mutant of NotFound: the mutex stays locked.
NotFoundLocked(t) ==
  /\ pc[t] = "walking" /\ next[tmp[t]] = head /\ Rid(tmp[t]) # t
  /\ Miss(t)
  /\ UNCHANGED <<table, handler_table_lock, captured, counts>>

NotFound(t) ==
  /\ pc[t] = "walking" /\ next[tmp[t]] = head /\ Rid(tmp[t]) # t
  /\ Unlock(t)
  /\ Miss(t)
  /\ UNCHANGED <<table, captured, counts>>

\* Mutant of Add: the record behind the new one is not linked back.
AddHalf(t) ==
  /\ pc[t] = "adding" /\ handler_table_lock = Nil
  /\ LET rec == <<t, forks[t]>>
     IN /\ head' = rec
        /\ \/ /\ head = Nil
              /\ next' = [next EXCEPT ![rec] = rec]
              /\ prev' = [prev EXCEPT ![rec] = rec]
           \/ /\ head # Nil
              /\ next' = [next EXCEPT ![rec] = next[head], ![head] = rec]
              /\ prev' = [prev EXCEPT ![rec] = head]
  /\ Finish(t)
  /\ UNCHANGED <<handler_table_lock, counts>>

\* add_threaded_signal_handler_record locks the table, links a record behind
\* the head, makes it the head and unlocks.
Add(t) ==
  /\ pc[t] = "adding" /\ handler_table_lock = Nil
  /\ LET rec == <<t, forks[t]>>
     IN /\ head' = rec
        /\ \/ /\ head = Nil
              /\ next' = [next EXCEPT ![rec] = rec]
              /\ prev' = [prev EXCEPT ![rec] = rec]
           \/ /\ head # Nil
              /\ next' = [next EXCEPT ![rec] = next[head], ![head] = rec]
              /\ prev' = [prev EXCEPT ![next[head]] = rec, ![rec] = head]
  /\ Finish(t)
  /\ UNCHANGED <<handler_table_lock, counts>>

Library(t) ==
  \/ ReadHead(t) \/ ReadEmpty(t) \/ LockTable(t) \/ Hop(t) \/ Found(t)
  \/ NotFound(t) \/ Add(t)

Next == \E t \in Threads : Fork(t) \/ Signal(t) \/ Library(t)

Spec == Init /\ [][Next]_vars

\* A thread in the library goes on; the mutex need not be fair, since calls
\* and signals are bounded.
FairSpec == Spec /\ \A t \in Threads : WF_vars(Library(t))

-----------------------------------------------------------------------------
\* A walk is never at NULL.
TypeOK ==
  /\ head \in Records \cup {Nil}
  /\ next \in [Records -> Records \cup {Nil}]
  /\ prev \in [Records -> Records \cup {Nil}]
  /\ handler_table_lock \in {<<"held", t>> : t \in Threads} \cup {Nil}
  /\ pc \in [Threads -> Places]
  /\ caller \in [Threads -> {"none", "fork", "wrapper"}]
  /\ start \in [Threads -> Records \cup {Nil}]
  /\ tmp \in [Threads -> Records \cup {Nil}]
  /\ \A t \in Threads : pc[t] \in {"locking", "walking"} => tmp[t] \in Records
  /\ captured \subseteq Threads
  /\ forks \in [Threads -> 0 .. MaxForks]
  /\ signals \in [Threads -> 0 .. MaxSignals]

\* Whatever set of records is closed under next and holds one of the list
\* holds them all, and prev leads back: the list is one ring.
Ring ==
  /\ head \in Linked \/ (Linked = {} /\ head = Nil)
  /\ \A x \in Linked : next[x] \in Linked /\ prev[next[x]] = x
  /\ \A S \in SUBSET Linked :
       S # {} /\ (\A x \in S : next[x] \in S) => S = Linked

\* A thread whose handler is registered is told that it is not only if
\* another registration came between its look at the head and the mutex:
\* the walk then ends where it begins.
MissedOnlyByRace ==
  [][\A t \in Threads :
       NotFound(t) /\ (\E x \in Linked : Rid(x) = t) => start[t] # head]_vars

\* Every registration and every signal gets through.
LookupsEnd == \A t \in Threads : pc[t] # "idle" ~> pc[t] = "idle"
=============================================================================
