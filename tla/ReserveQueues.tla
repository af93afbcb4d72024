--------------------------- MODULE ReserveQueues ---------------------------
(***************************************************************************)
(* The queues of reserves that zsrmv.c threads through reserve_table.      *)
(*                                                                         *)
(* The ready queue (field next) and the rate-monotonic queue (rm_next) are *)
(* only ever linked and unlinked by the functions modelled here, so a      *)
(* sequence of rids stands for each.  The criticality stack (crit_next)    *)
(* and the queue of criticality-blocked reserves (crit_block_next) are     *)
(* different: deleting or recreating a reserve leaves dangling links in    *)
(* them, and adding a reserve that is already linked damages them.  They   *)
(* are kept as the code has them, a head pointer and one link per reserve. *)
(***************************************************************************)
EXTENDS Integers, SequencesExt

CONSTANT MaxReserves            \* MAX_RESERVES: entries of reserve_table

ASSUME MaxReservesAssumption == MaxReserves \in Nat \ {0}

Rids == 0 .. MaxReserves - 1

\* The null pointer of an intrusive list.
Nil == -1

-----------------------------------------------------------------------------
\* Mutant of Slot: new members are linked in front.
SlotFront(q, Later) == 1

\* Where the walk along q stops: in front of the first member of Later, or
\* at the end.
Slot(q, Later) ==
  CHOOSE k \in 1 .. Len(q) + 1 :
    /\ k <= Len(q) => q[k] \in Later
    /\ \A j \in 1 .. k - 1 : q[j] \notin Later

\* Link r in front of the first member of Later, behind its equals.
Enqueue(q, Later, r) == InsertAt(q, Slot(q, Later), r)

\* Mutant of Dequeue: only the head is looked at.
DequeueHead(q, r) == IF q # <<>> /\ Head(q) = r THEN Tail(q) ELSE q

\* Unlink r, if it is linked.
Dequeue(q, r) ==
  IF \E i \in DOMAIN q : q[i] = r
  THEN RemoveAt(q, CHOOSE i \in DOMAIN q : q[i] = r)
  ELSE q

-----------------------------------------------------------------------------
\* An intrusive list: a head pointer and the link of every reserve.
Lists == [head : Rids \cup {Nil}, next : [Rids -> Rids \cup {Nil}]]

EmptyList == [head |-> Nil, next |-> [r \in Rids |-> Nil]]

\* The reserves reached from s by following hop until it is Nil.
ReachedFrom(hop, s) ==
  {x \in Rids :
     \A S \in SUBSET Rids :
       (s \in S /\ \A t \in S : hop[t] # Nil => hop[t] \in S) => x \in S}

\* The reserves a walk from the head of l meets.
Linked(l) == IF l.head = Nil THEN {} ELSE ReachedFrom(l.next, l.head)

\* A walk along l ends.
Acyclic(l) == l.head = Nil \/ \E t \in Linked(l) : l.next[t] = Nil

(***************************************************************************)
(* add_crit_stack and add_crit_blocked: the link of r is cleared first,    *)
(* then r becomes the head, or it is linked in front of the first reserve  *)
(* whose criticality is not higher.  The walk gives up on r itself ("tried *)
(* to add rid that was already there") and after MAX_RESERVES hops of a    *)
(* list that does not end ("corrupted").                                   *)
(***************************************************************************)
AddByCriticality(l, crit, r) ==
  LET next == [l.next EXCEPT ![r] = Nil]
      hop == [t \in Rids |->
                IF t # r /\ next[t] # Nil /\ crit[next[t]] > crit[r]
                THEN next[t] ELSE Nil]
      ends == {t \in ReachedFrom(hop, l.head) : hop[t] = Nil}
  IN IF l.head = Nil THEN [head |-> r, next |-> next]
     ELSE IF crit[l.head] < crit[r]
     THEN [head |-> r, next |-> [next EXCEPT ![r] = l.head]]
     ELSE IF ends = {} \/ r \in ends THEN [l EXCEPT !.next = next]
     ELSE LET t == CHOOSE t \in ends : TRUE
          IN [l EXCEPT !.next = [next EXCEPT ![r] = next[t], ![t] = r]]

\* The head is taken off; its own link stays as it is.
Behead(l) == [l EXCEPT !.head = l.next[l.head]]
=============================================================================
