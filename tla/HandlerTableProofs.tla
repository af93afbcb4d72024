------------------------ MODULE HandlerTableProofs ------------------------
(***************************************************************************)
(* For any number of threads: the table of enforcement handlers stays one  *)
(* ring, no walk reaches NULL, and only a look at a head that is replaced  *)
(* before the mutex is locked misses a record.                             *)
(***************************************************************************)
EXTENDS HandlerTable, TLAPS

\* A thread allocates a record that is not in the list yet.
Fresh ==
  \A t \in Threads :
    /\ pc[t] # "idle" /\ caller[t] = "fork" =>
         forks[t] > 0 /\ <<t, forks[t]>> \notin Linked
    /\ pc[t] = "adding" => caller[t] = "fork"
    /\ \A x \in Linked : Rid(x) = t => x[2] <= forks[t]

\* What a walk has left behind, V without the record it has reached, is
\* linked up to there and has no record of its thread.
Visited(t, V) ==
  /\ head \in V /\ tmp[t] \in V
  /\ \A x \in V \ {tmp[t]} : next[x] \in V /\ Rid(x) # t

Walk(t) ==
  /\ pc[t] \in {"locking", "walking"} => start[t] \in Linked /\ tmp[t] \in Linked
  /\ pc[t] = "locking" => tmp[t] = start[t]
  /\ pc[t] = "walking" =>
       /\ handler_table_lock = <<"held", t>>
       /\ start[t] = head => \E V \in SUBSET Linked : Visited(t, V)

Walks == \A t \in Threads : Walk(t)

TableInv == TypeOK /\ Ring /\ Fresh /\ Walks

\* Nobody holds the mutex under a name that says nobody.
LEMMA NilIsNobody ==
  /\ Nil \notin Records
  /\ \A t : Nil # <<"held", t>>
  /\ \A t, u : <<"held", t>> = <<"held", u>> => t = u
BY SMT DEF Nil, Records

LEMMA InitTable == Init => TableInv
<1> SUFFICES ASSUME Init PROVE TableInv
  OBVIOUS
<1>1. Linked = {}
  BY DEF Init, Linked
<1>2. TypeOK
  BY BoundsAssumption DEF Init, TypeOK, Places
<1>3. Ring
  BY <1>1 DEF Init, Ring
<1>4. Fresh /\ Walks
  BY <1>1 DEF Init, Fresh, Walks, Walk
<1> QED BY <1>2, <1>3, <1>4 DEF TableInv

-----------------------------------------------------------------------------
\* Linking a fresh record behind the head of a ring, as the new head, leaves
\* a ring.
LEMMA LinkedRing ==
  ASSUME TypeOK, Ring, NEW rec \in Records \ Linked, head # Nil,
         next' = [next EXCEPT ![rec] = next[head], ![head] = rec],
         prev' = [prev EXCEPT ![next[head]] = rec, ![rec] = head],
         head' = rec
  PROVE  Ring' /\ Linked' = Linked \cup {rec}
<1> DEFINE n == next[head]
<1>1. head \in Linked /\ n \in Linked /\ prev[n] = head /\ head # rec /\ n # rec
  BY DEF Ring, Linked
<1>2. Linked \subseteq Records /\ rec \in Records /\ rec # Nil
  BY NilIsNobody DEF Linked
<1>3. next \in [Records -> Records \cup {Nil}] /\ prev \in [Records -> Records \cup {Nil}]
  BY DEF TypeOK
<1>4. /\ next'[rec] = n /\ next'[head] = rec
      /\ \A x \in Records \ {rec, head} : next'[x] = next[x]
      /\ prev'[n] = rec /\ prev'[rec] = head
      /\ \A x \in Records \ {rec, n} : prev'[x] = prev[x]
  BY <1>1, <1>2, <1>3
<1>5. Linked' = Linked \cup {rec}
  <2>1. \A x \in Records : next'[x] # Nil <=> x \in Linked \cup {rec}
    BY <1>1, <1>2, <1>4, NilIsNobody DEF Linked
  <2> QED BY <2>1, <1>2 DEF Linked, Records
<1>6. head' \in Linked'
  BY <1>5
<1>7. ASSUME NEW x \in Linked'
      PROVE  next'[x] \in Linked' /\ prev'[next'[x]] = x
  <2>1. CASE x = rec
    BY <2>1, <1>1, <1>4, <1>5
  <2>2. CASE x = head
    BY <2>2, <1>1, <1>4, <1>5
  <2>3. CASE x \in Linked \ {head}
    <3>1. next'[x] = next[x] /\ next[x] \in Linked /\ prev[next[x]] = x
      BY <2>3, <1>2, <1>4 DEF Ring
    <3>2. next[x] # n /\ next[x] # rec
      BY <2>3, <3>1, <1>1
    <3>3. next[x] \in Records \ {rec, n}
      BY <3>1, <3>2, <1>2
    <3>4. prev'[next[x]] = prev[next[x]]
      BY <3>3, <1>4
    <3> QED BY <3>1, <3>4, <1>5
  <2> QED BY <2>1, <2>2, <2>3, <1>5
<1>8. ASSUME NEW S \in SUBSET Linked', S # {}, \A x \in S : next'[x] \in S
      PROVE  S = Linked'
  <2> DEFINE T == S \ {rec}
  <2>1. T \subseteq Linked
    BY <1>5
  <2>2. T # {}
    BY <1>8, <1>1, <1>4
  <2>3. ASSUME NEW x \in T PROVE next[x] \in T
    <3>1. CASE x = head
      BY <3>1, <1>8, <1>1, <1>4
    <3>2. CASE x # head
      <4>1. next'[x] = next[x] /\ next[x] \in Linked
        BY <3>2, <2>1, <1>2, <1>4 DEF Ring
      <4> QED BY <4>1, <1>8
    <3> QED BY <3>1, <3>2
  <2>4. T = Linked
    BY <2>1, <2>2, <2>3 DEF Ring
  <2>5. rec \in S
    BY <2>4, <1>1, <1>4, <1>8
  <2> QED BY <2>4, <2>5, <1>5
<1> QED BY <1>5, <1>6, <1>7, <1>8 DEF Ring

\* The first record is a ring.
LEMMA FirstRing ==
  ASSUME TypeOK, Ring, NEW rec \in Records \ Linked, head = Nil,
         next' = [next EXCEPT ![rec] = rec],
         prev' = [prev EXCEPT ![rec] = rec],
         head' = rec
  PROVE  Ring' /\ Linked' = Linked \cup {rec}
<1>1. Linked = {} /\ rec # Nil
  BY NilIsNobody DEF Ring, Linked
<1>2. next'[rec] = rec /\ prev'[rec] = rec
  BY DEF TypeOK
<1>3. \A x \in Records \ {rec} : next'[x] = Nil
  BY <1>1 DEF TypeOK, Linked
<1>4. Linked' = {rec}
  <2>1. \A x \in Records : next'[x] # Nil <=> x = rec
    BY <1>1, <1>2, <1>3
  <2> QED BY <2>1 DEF Linked, Records
<1> QED BY <1>1, <1>2, <1>4 DEF Ring

-----------------------------------------------------------------------------
(***************************************************************************)
(* The steps of a thread.  All but Add leave the list alone.               *)
(***************************************************************************)
LEMMA QuietTable ==
  ASSUME UNCHANGED table
  PROVE  Linked' = Linked /\ (Ring => Ring')
BY DEF table, Linked, Ring

\* Of a thread that a step does not touch only the head and the mutex may
\* have changed, the head not while the thread walks.
LEMMA OthersWalk ==
  ASSUME TableInv, NEW u \in Threads, UNCHANGED table,
         pc'[u] = pc[u], start'[u] = start[u], tmp'[u] = tmp[u],
         handler_table_lock = <<"held", u>> =>
           handler_table_lock' = <<"held", u>>
  PROVE  Walk(u)'
BY QuietTable DEF TableInv, Walks, Walk, Visited, table

LEMMA ForkOK ==
  ASSUME TableInv, NEW t \in Threads, Fork(t)
  PROVE  TableInv'
<1>1. Linked' = Linked /\ Ring' /\ head' = head
  BY QuietTable DEF TableInv, Fork, table
<1>2. TypeOK'
  BY BoundsAssumption DEF TableInv, TypeOK, Fork, Goto, table, Places
<1>3. forks'[t] = forks[t] + 1 /\ \A u \in Threads \ {t} : forks'[u] = forks[u]
  BY DEF Fork, TableInv, TypeOK
<1>4. pc'[t] = "reading" /\ caller'[t] = "fork"
      /\ \A u \in Threads \ {t} : pc'[u] = pc[u] /\ caller'[u] = caller[u]
  BY DEF Fork, Goto, TableInv, TypeOK
<1>5. Fresh'
  <2>1. ASSUME NEW u \in Threads, u # t
        PROVE  /\ pc'[u] # "idle" /\ caller'[u] = "fork" =>
                    forks'[u] > 0 /\ <<u, forks'[u]>> \notin Linked'
               /\ pc'[u] = "adding" => caller'[u] = "fork"
               /\ \A x \in Linked' : Rid(x) = u => x[2] <= forks'[u]
    BY <2>1, <1>1, <1>3, <1>4 DEF TableInv, Fresh
  <2>2. /\ forks[t] \in Nat
        /\ \A x \in Linked : Rid(x) = t => x[2] \in Nat /\ x[2] <= forks[t]
    <3>1. forks[t] \in Nat
      BY BoundsAssumption DEF TableInv, TypeOK
    <3>2. \A x \in Linked : x[2] \in Nat
      BY BoundsAssumption DEF Linked, Records
    <3> QED BY <3>1, <3>2 DEF TableInv, Fresh
  <2>3. forks'[t] > 0 /\ \A x \in Linked : Rid(x) = t => x[2] < forks'[t]
    BY <2>2, <1>3
  <2>4. <<t, forks'[t]>> \notin Linked
    BY <2>3, <2>2, <1>3 DEF Rid
  <2>5. \A x \in Linked' : Rid(x) = t => x[2] <= forks'[t]
    BY <2>2, <2>3, <1>1, <1>3
  <2> QED BY <2>1, <2>3, <2>4, <2>5, <1>1, <1>4 DEF Fresh
<1>6. Walks'
  <2> SUFFICES ASSUME NEW u \in Threads PROVE Walk(u)'
    BY DEF Walks
  <2>1. CASE u = t
    BY <2>1, <1>4 DEF Walk
  <2>2. CASE u # t
    BY <2>2, <1>4, OthersWalk DEF Fork
  <2> QED BY <2>1, <2>2
<1> QED BY <1>1, <1>2, <1>5, <1>6 DEF TableInv

\* What the other steps that leave the list alone have to show: the thread
\* keeps its record fresh, if it adds one, and its walk sound.
LEMMA QuietStep ==
  ASSUME TableInv, NEW t \in Threads, UNCHANGED <<table, forks>>,
         TypeOK', Walk(t)',
         pc'[t] # "idle" =>
           \/ pc[t] # "idle" /\ caller'[t] = caller[t]
           \/ caller'[t] = "wrapper",
         pc'[t] = "adding" => caller'[t] = "fork",
         \A u \in Threads \ {t} :
           /\ pc'[u] = pc[u] /\ caller'[u] = caller[u]
           /\ start'[u] = start[u] /\ tmp'[u] = tmp[u]
           /\ handler_table_lock = <<"held", u>> =>
                handler_table_lock' = <<"held", u>>
  PROVE  TableInv'
<1>1. Linked' = Linked /\ Ring'
  BY QuietTable DEF TableInv
<1>2. Walks'
  BY OthersWalk DEF Walks
<1>3. Fresh'
  BY <1>1 DEF TableInv, Fresh
<1> QED BY <1>1, <1>2, <1>3 DEF TableInv

LEMMA SignalOK ==
  ASSUME TableInv, NEW t \in Threads, Signal(t)
  PROVE  TableInv'
<1>1. TypeOK'
  BY BoundsAssumption DEF TableInv, TypeOK, Signal, Goto, table, Places
<1>2. /\ pc'[t] = "reading" /\ caller'[t] = "wrapper"
      /\ \A u \in Threads \ {t} : pc'[u] = pc[u] /\ caller'[u] = caller[u]
  BY DEF Signal, Goto, TableInv, TypeOK
<1>3. Walk(t)'
  BY <1>2 DEF Walk
<1> QED BY <1>1, <1>2, <1>3, QuietStep DEF Signal

LEMMA ReadHeadOK ==
  ASSUME TableInv, NEW t \in Threads, ReadHead(t)
  PROVE  TableInv'
<1>1. TypeOK'
  BY DEF TableInv, TypeOK, ReadHead, Goto, table, Places, counts
<1>2. /\ pc'[t] = "locking" /\ start'[t] = head /\ tmp'[t] = head
      /\ \A u \in Threads \ {t} :
           pc'[u] = pc[u] /\ start'[u] = start[u] /\ tmp'[u] = tmp[u]
  BY DEF ReadHead, Goto, TableInv, TypeOK
<1>3. head \in Linked /\ Linked' = Linked
  BY QuietTable DEF TableInv, Ring, ReadHead
<1>4. Walk(t)'
  BY <1>2, <1>3 DEF Walk
<1> QED BY <1>1, <1>2, <1>4, QuietStep DEF ReadHead, counts

\* A thread that returns is idle, and no longer walks.
LEMMA ReturnOK ==
  ASSUME TableInv, NEW t \in Threads, Return(t)
  PROVE  /\ Walk(t)'
         /\ pc' \in [Threads -> Places] /\ pc'[t] = "idle"
         /\ caller' \in [Threads -> {"none", "fork", "wrapper"}]
         /\ start' \in [Threads -> Records \cup {Nil}]
         /\ tmp' \in [Threads -> Records \cup {Nil}]
         /\ \A u \in Threads \ {t} :
              /\ pc'[u] = pc[u] /\ caller'[u] = caller[u]
              /\ start'[u] = start[u] /\ tmp'[u] = tmp[u]
BY DEF TableInv, TypeOK, Return, Goto, Walk, Places

LEMMA MissOK ==
  ASSUME TableInv, NEW t \in Threads, Miss(t)
  PROVE  /\ Walk(t)'
         /\ pc' \in [Threads -> Places]
         /\ \/ pc'[t] = "idle"
            \/ pc'[t] = "adding" /\ caller'[t] = caller[t] /\ caller[t] = "fork"
         /\ caller' \in [Threads -> {"none", "fork", "wrapper"}]
         /\ start' \in [Threads -> Records \cup {Nil}]
         /\ tmp' \in [Threads -> Records \cup {Nil}]
         /\ \A u \in Threads \ {t} :
              /\ pc'[u] = pc[u] /\ caller'[u] = caller[u]
              /\ start'[u] = start[u] /\ tmp'[u] = tmp[u]
<1>1. CASE caller[t] = "fork" /\ Goto(t, "adding") /\ UNCHANGED locals
  BY <1>1 DEF TableInv, TypeOK, Goto, Walk, Places, locals
<1>2. CASE Return(t)
  BY <1>2, ReturnOK
<1> QED BY <1>1, <1>2 DEF Miss

\* Who leaves the mutex alone, or takes it from nobody, or gives back its
\* own, does not take it from another.
LEMMA MutexKept ==
  ASSUME TableInv, NEW t \in Threads,
         handler_table_lock' = handler_table_lock \/ Lock(t) \/ Unlock(t)
  PROVE  /\ handler_table_lock' \in {<<"held", u>> : u \in Threads} \cup {Nil}
         /\ \A u \in Threads \ {t} : handler_table_lock = <<"held", u>> =>
              handler_table_lock' = <<"held", u>>
BY NilIsNobody DEF TableInv, TypeOK, Lock, Unlock

LEMMA ReadEmptyOK ==
  ASSUME TableInv, NEW t \in Threads, ReadEmpty(t)
  PROVE  TableInv'
<1>1. TypeOK'
  BY MissOK DEF TableInv, TypeOK, ReadEmpty, table, counts
<1> QED BY <1>1, MissOK, QuietStep DEF ReadEmpty, counts

LEMMA LockTableOK ==
  ASSUME TableInv, NEW t \in Threads, LockTable(t)
  PROVE  TableInv'
<1>1. TypeOK'
  <2>1. /\ tmp[t] \in Records /\ tmp' = tmp
        /\ \A u \in Threads \ {t} : pc'[u] = pc[u]
    BY DEF TableInv, TypeOK, LockTable, Goto, locals
  <2> QED BY <2>1, MutexKept
          DEF TableInv, TypeOK, LockTable, Goto, table, locals, counts, Places
<1>2. /\ pc[t] = "locking" /\ pc'[t] = "walking"
      /\ \A u \in Threads \ {t} : pc'[u] = pc[u]
  BY DEF LockTable, Goto, TableInv, TypeOK
<1>3. start' = start /\ tmp' = tmp /\ head' = head /\ next' = next
  BY DEF LockTable, locals, table
<1>4. start[t] \in Linked /\ tmp[t] = start[t] /\ Linked' = Linked
  BY <1>2, QuietTable DEF TableInv, Walks, Walk, LockTable
<1>5. start'[t] = head' => \E V \in SUBSET Linked' : Visited(t, V)'
  <2> SUFFICES ASSUME start'[t] = head' PROVE Visited(t, {head})'
    BY <1>3, <1>4
  <2> QED BY <1>3, <1>4 DEF Visited
<1>6. Walk(t)'
  BY <1>2, <1>3, <1>4, <1>5 DEF Walk, LockTable, Lock
<1> QED BY <1>1, <1>2, <1>6, MutexKept, QuietStep DEF LockTable, counts, locals

LEMMA HopOK ==
  ASSUME TableInv, NEW t \in Threads, Hop(t)
  PROVE  TableInv'
<1>1. /\ pc[t] = "walking" /\ pc' = pc /\ start' = start
      /\ tmp'[t] = next[tmp[t]] /\ \A u \in Threads \ {t} : tmp'[u] = tmp[u]
      /\ head' = head /\ next' = next /\ handler_table_lock' = handler_table_lock
  BY DEF Hop, TableInv, TypeOK, table
<1>2. tmp[t] \in Linked /\ next[tmp[t]] \in Linked /\ Linked' = Linked
  BY <1>1, QuietTable DEF TableInv, Walks, Walk, Ring, Hop
<1>3. TypeOK'
  BY <1>1, <1>2 DEF TableInv, TypeOK, Hop, table, counts, Linked
<1>4. start[t] = head => \E V \in SUBSET Linked : Visited(t, V)'
  <2> SUFFICES ASSUME start[t] = head
               PROVE  \E V \in SUBSET Linked : Visited(t, V)'
    OBVIOUS
  <2>1. PICK V \in SUBSET Linked : Visited(t, V)
    BY <1>1 DEF TableInv, Walks, Walk
  <2>2. PICK W \in SUBSET Linked : W = V \cup {next[tmp[t]]}
    BY <1>2
  <2>3. \A x \in W \ {next[tmp[t]]} : next[x] \in W /\ Rid(x) # t
    BY <2>1, <2>2 DEF Visited, Hop
  <2>4. head \in W
    BY <2>1, <2>2 DEF Visited
  <2>5. Visited(t, W)'
    BY <2>2, <2>3, <2>4, <1>1 DEF Visited
  <2> QED BY <2>5, <1>2
<1>5. Walk(t)'
  BY <1>1, <1>2, <1>4 DEF TableInv, Walks, Walk
<1> QED BY <1>1, <1>3, <1>5, QuietStep DEF TableInv, Fresh, Hop, counts

LEMMA FoundOK ==
  ASSUME TableInv, NEW t \in Threads, Found(t)
  PROVE  TableInv'
<1>1. Return(t) /\ captured' \subseteq Threads
  BY DEF Found, Finish, TableInv, TypeOK
<1>2. TypeOK'
  BY <1>1, ReturnOK, MutexKept DEF TableInv, TypeOK, Found, table, counts
<1> QED BY <1>1, <1>2, ReturnOK, MutexKept, QuietStep DEF Found, counts

LEMMA NotFoundOK ==
  ASSUME TableInv, NEW t \in Threads, NotFound(t)
  PROVE  TableInv'
<1>1. TypeOK'
  BY MissOK, MutexKept DEF TableInv, TypeOK, NotFound, table, counts
<1> QED BY <1>1, MissOK, MutexKept, QuietStep DEF NotFound, counts

\* Add is the one step that changes the list, while nobody walks.
LEMMA AddOK ==
  ASSUME TableInv, NEW t \in Threads, Add(t)
  PROVE  TableInv'
<1> DEFINE rec == <<t, forks[t]>>
<1>1. rec \in Records \ Linked
  BY BoundsAssumption DEF TableInv, TypeOK, Fresh, Add, Records
<1>2. Return(t) /\ captured' \subseteq Threads /\ head' = rec
  BY DEF Add, Finish, TableInv, TypeOK
<1>3. Ring' /\ Linked' = Linked \cup {rec}
  <2>1. CASE head = Nil
    BY <2>1, <1>1, FirstRing DEF TableInv, Add
  <2>2. CASE head # Nil
    BY <2>2, <1>1, LinkedRing DEF TableInv, Add
  <2> QED BY <2>1, <2>2
<1>4. next' \in [Records -> Records \cup {Nil}] /\ prev' \in [Records -> Records \cup {Nil}]
  <2>1. head # Nil => head \in Records /\ next[head] \in Records
    BY DEF TableInv, Ring, Linked
  <2>2. CASE head = Nil
    BY <2>2, <1>1 DEF TableInv, TypeOK, Add
  <2>3. CASE head # Nil
    BY <2>1, <2>3, <1>1 DEF TableInv, TypeOK, Add
  <2> QED BY <2>2, <2>3
<1>5. TypeOK'
  BY <1>1, <1>2, <1>4, ReturnOK DEF TableInv, TypeOK, Add, counts
<1>6. Fresh'
  <2>1. \A u \in Threads \ {t} : pc'[u] = pc[u] /\ caller'[u] = caller[u]
    BY <1>2, ReturnOK
  <2>2. pc'[t] = "idle" /\ forks' = forks
    BY <1>2, ReturnOK DEF Add, counts
  <2>3. Rid(rec) = t /\ rec[2] <= forks[t]
    BY BoundsAssumption DEF Rid, TableInv, TypeOK
  <2>4. \A u \in Threads \ {t} : <<u, forks[u]>> # rec
    OBVIOUS
  <2> QED BY <2>1, <2>2, <2>3, <2>4, <1>3 DEF TableInv, Fresh
<1>7. Walks'
  <2> SUFFICES ASSUME NEW u \in Threads, u # t PROVE Walk(u)'
    BY <1>2, ReturnOK DEF Walks
  <2>1. pc'[u] = pc[u] /\ start'[u] = start[u] /\ tmp'[u] = tmp[u]
    BY <1>2, ReturnOK
  <2>2. pc[u] # "walking"
    BY NilIsNobody DEF TableInv, Walks, Walk, Add
  <2> QED BY <2>1, <2>2, <1>3 DEF TableInv, Walks, Walk
<1> QED BY <1>3, <1>5, <1>6, <1>7 DEF TableInv

LEMMA StutterTable == ASSUME TableInv, UNCHANGED vars PROVE TableInv'
BY DEF TableInv, TypeOK, Ring, Fresh, Walks, Walk, Visited, Linked, vars

LEMMA TableInvariant == Spec => []TableInv
<1>1. TableInv /\ [Next]_vars => TableInv'
  <2> SUFFICES ASSUME TableInv, [Next]_vars PROVE TableInv'
    OBVIOUS
  <2>1. ASSUME NEW t \in Threads, Fork(t) \/ Signal(t) \/ Library(t)
        PROVE  TableInv'
    BY <2>1, ForkOK, SignalOK, ReadHeadOK, ReadEmptyOK, LockTableOK, HopOK,
       FoundOK, NotFoundOK, AddOK DEF Library
  <2> QED BY <2>1, StutterTable DEF Next
<1> QED BY InitTable, <1>1, PTL DEF Spec

-----------------------------------------------------------------------------
\* Every variable keeps its type, and no walk of
\* get_threaded_signal_handler_record dereferences NULL (libzsv.c:86).
THEOREM HandlerTableTypeCorrect == Spec => []TypeOK
BY TableInvariant, PTL DEF TableInv

\* The list that add_threaded_signal_handler_record builds is always one
\* ring, in both directions, so that a walk meets every record.
THEOREM TableStaysRing == Spec => []Ring
BY TableInvariant, PTL DEF TableInv

\* get_threaded_signal_handler_record misses a registered record only if
\* the head it read is no longer the head: without that race it never does.
THEOREM OnlyRacesMiss == Spec => MissedOnlyByRace
<1>1. ASSUME TableInv, NEW t \in Threads, NotFound(t),
             NEW x \in Linked, Rid(x) = t
      PROVE  start[t] # head
  <2> SUFFICES ASSUME start[t] = head PROVE FALSE
    OBVIOUS
  <2>1. PICK V \in SUBSET Linked : Visited(t, V)
    BY <1>1 DEF TableInv, Walks, Walk, NotFound
  <2>2. /\ V # {}
        /\ \A y \in V : next[y] \in V /\ Rid(y) # t
    BY <2>1, <1>1 DEF Visited, NotFound
  <2>3. V = Linked
    BY <2>2, <1>1 DEF TableInv, Ring
  <2> QED BY <2>2, <2>3, <1>1
<1>2. TableInv /\ [Next]_vars =>
        [\A t \in Threads :
           NotFound(t) /\ (\E x \in Linked : Rid(x) = t) => start[t] # head]_vars
  BY <1>1
<1> QED BY TableInvariant, <1>2, PTL DEF Spec, MissedOnlyByRace
=============================================================================
