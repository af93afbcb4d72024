------------------------- MODULE TimerLockingProofs -------------------------
(***************************************************************************)
(* Proof that no timer handler does stale work, for any number of          *)
(* reserves and processors, and that no period timer is lost on two.       *)
(*                                                                         *)
(* While a section runs, timers that are no longer legitimate may be       *)
(* queued or have a callback that waits for the lock.  The inductive       *)
(* invariant says that the section's plan still cancels each of them, and  *)
(* each that it still arms, after it arms it.                              *)
(*                                                                         *)
(* A period timer is lost if its handler gives up.  It gives up only while *)
(* the holder of the lock waits for a callback: on two processors for that *)
(* of the handler itself, and what waits for the callback of a period      *)
(* timer is a deletion of its reserve.                                     *)
(***************************************************************************)
EXTENDS TimerLocking, TLAPS

States ==
  [attached : SUBSET Rids, alive : SUBSET Rids, ready : SUBSET Rids,
   requests : SUBSET (Rids \X BOOLEAN), blocked : SUBSET Rids,
   plan : Seq(Ops)]

Well(s) ==
  /\ s \in States
  /\ s.alive \subseteq s.attached
  /\ s.ready \subseteq s.attached

\* Legitimate, of an outcome of a section.
LegitimateIn(s, t) ==
  /\ t[1] \in s.attached
  /\ t[2] = "enforcement" => t[1] \in s.ready /\ t[1] = Top(s.ready)

\* Plan p cancels timer t of Q, and whenever it arms t.
Quiet(p, Q, t) ==
  /\ t \in Q => \E j \in 1 .. Len(p) : p[j] = <<"cancel", t>>
  /\ \A i \in 1 .. Len(p) : p[i] = <<"arm", t>> =>
       \E j \in 1 .. Len(p) : j > i /\ p[j] = <<"cancel", t>>

\* Of the timers that are not a reserve's of X, those of Q and those that the
\* plan of s arms are legitimate or cancelled in the end.
Sound(s, Q, X) ==
  /\ Well(s)
  /\ \A t \in Timers : t[1] \notin X =>
       LegitimateIn(s, t) \/ Quiet(s.plan, Q, t)

InUse == queued \cup {t \in Timers : Running(t)}

\* The invariant that makes NoStaleFiring inductive.
LockInv ==
  /\ TypeOK
  /\ zsrmlock = Nobody => plan = <<>>
  /\ \A c \in CPUs : pc[c] \in {"called", "section"} <=> zsrmlock = c
  /\ \A c \in CPUs : pc[c] = "called" => plan = <<>> /\ actor[c] = "timer"
  /\ \A c \in CPUs : pc[c] = "idle" => actor[c] = "none"
  /\ \A c \in CPUs : actor[c] = "timer" <=> firing[c] # NoTimer
  /\ \A t \in Timers : LegitimateIn(State, t) \/ Quiet(plan, InUse, t)

-----------------------------------------------------------------------------
(***************************************************************************)
(* Plans.                                                                  *)
(***************************************************************************)

LEMMA TopIsMember ==
  ASSUME NEW S \in SUBSET Rids, S # {}
  PROVE  Top(S) \in S
BY RidsAssumption DEF Top

\* The head stays the head when another member leaves.
LEMMA TopWithout ==
  ASSUME NEW S \in SUBSET Rids, NEW r \in Rids, S # {}, r # Top(S)
  PROVE  Top(S \ {r}) = Top(S)
<1>1. Top(S) \in S /\ \A x \in S : Top(S) <= x
  BY RidsAssumption DEF Top
<1>2. ASSUME NEW x \in S \ {r}, \A y \in S \ {r} : x <= y
      PROVE  x = Top(S)
  <2>1. Top(S) \in S \ {r}
    BY <1>1
  <2>2. x <= Top(S) /\ Top(S) <= x
    BY <1>1, <1>2, <2>1
  <2>3. x \in Int /\ Top(S) \in Int
    BY <1>1, RidsAssumption
  <2> QED BY <2>2, <2>3
<1>3. Top(S \ {r}) \in S \ {r} /\ \A y \in S \ {r} : Top(S \ {r}) <= y
  BY <1>1, RidsAssumption DEF Top
<1> QED BY <1>2, <1>3

\* Operations appended to a plan: the old ones keep their places.
LEMMA Concatenation ==
  ASSUME NEW p \in Seq(Ops), NEW q \in Seq(Ops)
  PROVE  /\ p \o q \in Seq(Ops)
         /\ Len(p \o q) = Len(p) + Len(q)
         /\ \A i \in 1 .. Len(p) : (p \o q)[i] = p[i]
         /\ \A i \in 1 .. Len(q) : (p \o q)[Len(p) + i] = q[i]
  OBVIOUS

\* Operations that do not arm t keep a plan that is quiet about it quiet.
LEMMA QuietKept ==
  ASSUME NEW p \in Seq(Ops), NEW q \in Seq(Ops), NEW Q, NEW t \in Timers,
         Quiet(p, Q, t),
         \A i \in 1 .. Len(q) : q[i] # <<"arm", t>>
  PROVE  Quiet(p \o q, Q, t)
<1> DEFINE r == p \o q
<1>1. Len(r) \in Nat /\ Len(r) = Len(p) + Len(q) /\ Len(p) \in Nat /\ Len(q) \in Nat
  BY Concatenation
<1>2. \A i \in 1 .. Len(p) : r[i] = p[i]
  BY Concatenation
<1>3. \A i \in 1 .. Len(r) : i > Len(p) => i - Len(p) \in 1 .. Len(q) /\ r[i] = q[i - Len(p)]
  <2> SUFFICES ASSUME NEW i \in 1 .. Len(r), i > Len(p)
               PROVE  i - Len(p) \in 1 .. Len(q) /\ r[i] = q[i - Len(p)]
    OBVIOUS
  <2>1. i - Len(p) \in 1 .. Len(q) /\ Len(p) + (i - Len(p)) = i
    BY <1>1
  <2> QED BY <2>1, Concatenation
<1> HIDE DEF r
<1>4. t \in Q => \E j \in 1 .. Len(r) : r[j] = <<"cancel", t>>
  BY <1>1, <1>2 DEF Quiet
<1>5. ASSUME NEW i \in 1 .. Len(r), r[i] = <<"arm", t>>
      PROVE  \E j \in 1 .. Len(r) : j > i /\ r[j] = <<"cancel", t>>
  <2>1. i \in 1 .. Len(p)
    <3>1. CASE i > Len(p)
      <4>1. i - Len(p) \in 1 .. Len(q) /\ r[i] = q[i - Len(p)]
        BY <1>3, <3>1
      <4> QED BY <4>1, <1>5
    <3>2. CASE ~(i > Len(p))
      BY <3>2, <1>1
    <3> QED BY <3>1, <3>2
  <2>2. PICK j \in 1 .. Len(p) : j > i /\ p[j] = <<"cancel", t>>
    BY <2>1, <1>2, <1>5 DEF Quiet
  <2> QED BY <2>2, <1>1, <1>2
<1>6. Quiet(r, Q, t)
  BY <1>4, <1>5 DEF Quiet
<1> QED BY <1>6 DEF r

\* Operations that cancel t and do not arm it make any plan quiet about it.
LEMMA QuietMade ==
  ASSUME NEW p \in Seq(Ops), NEW q \in Seq(Ops), NEW Q, NEW t \in Timers,
         NEW k \in 1 .. Len(q), q[k] = <<"cancel", t>>,
         \A i \in 1 .. Len(q) : i > k => q[i] # <<"arm", t>>
  PROVE  Quiet(p \o q, Q, t)
<1> DEFINE r == p \o q
           m == Len(p) + k
<1>1. Len(r) = Len(p) + Len(q) /\ Len(p) \in Nat /\ Len(q) \in Nat
  BY Concatenation
<1>2. m \in 1 .. Len(r) /\ r[m] = <<"cancel", t>>
  BY <1>1, Concatenation
<1>3. ASSUME NEW i \in 1 .. Len(r), i >= m, r[i] = <<"arm", t>>
      PROVE  FALSE
  <2>1. i - Len(p) \in 1 .. Len(q) /\ Len(p) + (i - Len(p)) = i
    BY <1>1, <1>3
  <2>2. r[i] = q[i - Len(p)]
    BY <2>1, Concatenation
  <2>3. i - Len(p) >= k
    BY <1>1, <1>3
  <2>4. <<"cancel", t>> # <<"arm", t>>
    OBVIOUS
  <2> QED BY <2>1, <2>2, <2>3, <2>4, <1>3
<1> HIDE DEF r
<1>4. ASSUME NEW i \in 1 .. Len(r), r[i] = <<"arm", t>>
      PROVE  m > i
  <2>1. ~(i >= m)
    BY <1>3, <1>4
  <2> QED BY <2>1, <1>1, <1>2
<1> HIDE DEF m
<1>5. Quiet(r, Q, t)
  BY <1>2, <1>4 DEF Quiet
<1> QED BY <1>5 DEF r

\* A change of the reserves and the operations that go with it: whatever is
\* no longer legitimate is cancelled, and only what is legitimate is armed.
LEMMA PlanSound ==
  ASSUME NEW s, NEW e, NEW Q, NEW X, NEW Y, NEW q \in Seq(Ops),
         Sound(s, Q, X), Well(e), e.plan = s.plan,
         \A t \in Timers : \A i \in 1 .. Len(q) :
           q[i] = <<"arm", t>> => t[1] \in Y \/ LegitimateIn(e, t),
         \A t \in Timers :
           t[1] \notin Y /\ ~LegitimateIn(e, t)
             /\ (t[1] \in X \/ LegitimateIn(s, t))
           => \E k \in 1 .. Len(q) : q[k] = <<"cancel", t>>
  PROVE  Sound(Plan(e, q), Q, Y)
<1>1. Plan(e, q) = [e EXCEPT !.plan = e.plan \o q] /\ e.plan \in Seq(Ops)
  BY DEF Plan, Well, States
<1>2. e.plan \o q \in Seq(Ops)
  BY <1>1, Concatenation
<1>3. Well(Plan(e, q))
  BY <1>1, <1>2 DEF Well, States
<1>4. ASSUME NEW t \in Timers, t[1] \notin Y
      PROVE  LegitimateIn(Plan(e, q), t) \/ Quiet(Plan(e, q).plan, Q, t)
  <2>1. Plan(e, q).plan = e.plan \o q
    BY <1>1 DEF Well, States
  <2>2. LegitimateIn(e, t) => LegitimateIn(Plan(e, q), t)
    BY <1>1 DEF LegitimateIn, Well, States
  <2>3. ASSUME ~LegitimateIn(e, t)
        PROVE  Quiet(e.plan \o q, Q, t)
    <3>1. \A i \in 1 .. Len(q) : q[i] # <<"arm", t>>
      BY <1>4, <2>3
    <3>2. CASE t[1] \in X \/ LegitimateIn(s, t)
      <4>1. PICK k \in 1 .. Len(q) : q[k] = <<"cancel", t>>
        BY <1>4, <2>3, <3>2
      <4> QED BY <1>1, <3>1, <4>1, QuietMade
    <3>3. CASE t[1] \notin X /\ ~LegitimateIn(s, t)
      <4>1. Quiet(e.plan, Q, t)
        BY <3>3 DEF Sound
      <4> QED BY <1>1, <3>1, <4>1, QuietKept
    <3> QED BY <3>2, <3>3
  <2> QED BY <2>1, <2>2, <2>3
<1> QED BY <1>3, <1>4 DEF Sound

-----------------------------------------------------------------------------
(***************************************************************************)
(* Outcomes of sections.                                                   *)
(***************************************************************************)

\* budget_enforcement cancels a timer and arms none.
LEMMA EnforcedSound ==
  ASSUME NEW s, NEW Q, NEW X, Sound(s, Q, X), NEW r \in Rids,
         NEW u \in Enforced(s, r)
  PROVE  Sound(u, Q, X) /\ u.attached = s.attached /\ u.alive = s.alive
           /\ u.ready = s.ready
<1> DEFINE q == <<Cancel(r, "zero_slack")>>
           e == Plan(s, q)
<1>1. q \in Seq(Ops) /\ Len(q) = 1 /\ q[1] = <<"cancel", <<r, "zero_slack">>>>
  BY DEF Cancel, Ops, Timers, Kinds
<1>2. Sound(e, Q, X)
  <2>1. \A t \in Timers : \A i \in 1 .. Len(q) : q[i] # <<"arm", t>>
    BY <1>1
  <2>2. Well(s)
    BY DEF Sound
  <2>3. ASSUME NEW t \in Timers, t[1] \notin X /\ ~LegitimateIn(s, t)
             /\ (t[1] \in X \/ LegitimateIn(s, t))
        PROVE  FALSE
    BY <2>3
  <2> HIDE DEF q
  <2> QED BY <1>1, <2>1, <2>2, <2>3, PlanSound
<1>3. e \in States /\ e.attached = s.attached /\ e.alive = s.alive /\ e.ready = s.ready
  BY <1>1, Concatenation DEF Plan, Sound, Well, States
<1> HIDE DEF e
<1>4. CASE u = e
  BY <1>2, <1>3, <1>4
<1>5. CASE u = [e EXCEPT !.requests = PushStop(@, r)]
  <2>1. PushStop(e.requests, r) \in SUBSET (Rids \X BOOLEAN)
    <3>1. e.requests \in SUBSET (Rids \X BOOLEAN)
      BY <1>3 DEF States
    <3>2. (<<r, TRUE>> \notin e.requests) \in BOOLEAN
      BY Zenon
    <3>3. \A b \in BOOLEAN : <<r, b>> \in Rids \X BOOLEAN
      OBVIOUS
    <3>4. <<r, <<r, TRUE>> \notin e.requests>> \in Rids \X BOOLEAN
      BY <3>2, <3>3, Zenon
    <3> QED BY <3>1, <3>4, Zenon DEF PushStop
  <2>2. u \in States /\ u.attached = e.attached /\ u.alive = e.alive
          /\ u.ready = e.ready /\ u.plan = e.plan
    BY <1>3, <1>5, <2>1 DEF States
  <2> QED BY <1>2, <1>3, <2>2 DEF Sound, Well, LegitimateIn
<1> QED BY <1>4, <1>5 DEF Enforced, e

\* The timer of the head is armed, or its budget is enforced.
LEMMA ResumedSound ==
  ASSUME NEW s, NEW Q, NEW X, Sound(s, Q, X), NEW u \in Resumed(s)
  PROVE  Sound(u, Q, X) /\ u.attached = s.attached /\ u.alive = s.alive
           /\ u.ready = s.ready
<1>1. Well(s)
  BY DEF Sound
<1>2. CASE s.ready = {}
  BY <1>2 DEF Resumed
<1>3. CASE s.ready # {}
  <2> DEFINE h == Top(s.ready)
             q == <<Arm(h, "enforcement")>>
  <2>1. h \in s.ready /\ h \in Rids /\ h \in s.attached
    BY <1>1, <1>3, TopIsMember DEF Well, States
  <2>2. CASE u = Plan(s, q)
    <3>1. q \in Seq(Ops) /\ Len(q) = 1 /\ q[1] = <<"arm", <<h, "enforcement">>>>
      BY <2>1 DEF Arm, Ops, Timers, Kinds
    <3>2. \A t \in Timers : \A i \in 1 .. Len(q) :
            q[i] = <<"arm", t>> => t[1] \in X \/ LegitimateIn(s, t)
      BY <2>1, <3>1 DEF LegitimateIn
    <3>3. ASSUME NEW t \in Timers, t[1] \notin X /\ ~LegitimateIn(s, t)
               /\ (t[1] \in X \/ LegitimateIn(s, t))
          PROVE  FALSE
      BY <3>3
    <3>4. u.attached = s.attached /\ u.alive = s.alive /\ u.ready = s.ready
      BY <1>1, <2>2 DEF Plan, Well, States
    <3> HIDE DEF q
    <3>5. Sound(u, Q, X)
      BY <1>1, <2>2, <3>1, <3>2, <3>3, PlanSound
    <3> QED BY <3>4, <3>5
  <2>3. CASE u \in Enforced(s, h)
    BY <2>1, <2>3, EnforcedSound
  <2> QED BY <1>3, <2>2, <2>3 DEF Resumed
<1> QED BY <1>2, <1>3

\* start: the head up to now is cancelled, the head from now on is armed.
LEMMA StartedSound ==
  ASSUME NEW s, NEW Q, NEW X, Sound(s, Q, X),
         NEW r \in s.attached, NEW u \in Started(s, r)
  PROVE  Sound(u, Q, X) /\ u.attached = s.attached /\ u.alive = s.alive
<1>1. Well(s) /\ r \in Rids
  BY DEF Sound, Well, States
<1>2. CASE r \in s.ready
  BY <1>2 DEF Started
<1>3. CASE r \notin s.ready
  <2> DEFINE h == Top(s.ready)
             e == [s EXCEPT !.ready = s.ready \cup {r}]
             q == IF s.ready = {} THEN <<>> ELSE <<Cancel(h, "enforcement")>>
             v == Plan(e, q)
  <2>1. u \in Resumed(v)
    BY <1>3 DEF Started
  <2>2. Well(e) /\ e.plan = s.plan /\ e.attached = s.attached
          /\ e.alive = s.alive /\ e.ready = s.ready \cup {r}
    BY <1>1 DEF Well, States
  <2>3. s.ready # {} => h \in Rids
    BY <1>1, TopIsMember DEF Well, States
  <2>4. /\ q \in Seq(Ops)
        /\ \A i \in 1 .. Len(q) : q[i][1] = "cancel"
        /\ s.ready # {} => 1 \in 1 .. Len(q) /\ q[1] = <<"cancel", <<h, "enforcement">>>>
    <3>1. CASE s.ready = {}
      BY <3>1
    <3>2. CASE s.ready # {}
      <4>1. Cancel(h, "enforcement") \in Ops
        BY <2>3, <3>2 DEF Cancel, Ops, Timers, Kinds
      <4> QED BY <3>2, <4>1 DEF Cancel
    <3> QED BY <3>1, <3>2
  <2>5. \A t \in Timers : \A i \in 1 .. Len(q) :
          q[i] = <<"arm", t>> => t[1] \in X \/ LegitimateIn(e, t)
    <3>1. \A t \in Timers : <<"arm", t>>[1] # "cancel"
      OBVIOUS
    <3> QED BY <2>4, <3>1
  <2>6. ASSUME NEW t \in Timers, t[1] \notin X /\ ~LegitimateIn(e, t)
             /\ (t[1] \in X \/ LegitimateIn(s, t))
        PROVE  \E k \in 1 .. Len(q) : q[k] = <<"cancel", t>>
    <3>1. s.ready # {} /\ t = <<h, "enforcement">>
      BY <2>2, <2>6 DEF LegitimateIn, Timers
    <3> QED BY <2>4, <3>1
  <2>7. v.attached = s.attached /\ v.alive = s.alive
    BY <2>2 DEF Plan, Well, States
  <2> HIDE DEF e, q
  <2>8. Sound(v, Q, X)
    BY <2>2, <2>4, <2>5, <2>6, PlanSound
  <2> QED BY <2>1, <2>7, <2>8, ResumedSound
<1> QED BY <1>2, <1>3

\* stop, of a task that is alive.
LEMMA StoppedSound ==
  ASSUME NEW s, NEW Q, NEW X, Sound(s, Q, X),
         NEW r \in Rids, NEW u \in Stopped(s, r)
  PROVE  Sound(u, Q, X) /\ u.attached = s.attached /\ u.alive = s.alive
           /\ u.ready = s.ready \ {r}
<1> DEFINE e == [s EXCEPT !.ready = s.ready \ {r}]
<1>1. Well(s)
  BY DEF Sound
<1>2. Well(e) /\ e.plan = s.plan /\ e.attached = s.attached
        /\ e.alive = s.alive /\ e.ready = s.ready \ {r} /\ e \in States
  BY <1>1 DEF Well, States
<1>3. CASE r \in s.ready /\ r = Top(s.ready)
  <2> DEFINE q == <<Cancel(r, "enforcement")>>
             v == Plan(e, q)
  <2>1. u \in Resumed(v)
    BY <1>3 DEF Stopped
  <2>2. q \in Seq(Ops) /\ Len(q) = 1 /\ q[1] = <<"cancel", <<r, "enforcement">>>>
    BY DEF Cancel, Ops, Timers, Kinds
  <2>3. \A t \in Timers : \A i \in 1 .. Len(q) : q[i] # <<"arm", t>>
    BY <2>2
  <2>4. ASSUME NEW t \in Timers, t[1] \notin X /\ ~LegitimateIn(e, t)
             /\ (t[1] \in X \/ LegitimateIn(s, t))
        PROVE  \E k \in 1 .. Len(q) : q[k] = <<"cancel", t>>
    <3>1. t = <<r, "enforcement">>
      BY <1>2, <1>3, <2>4 DEF LegitimateIn, Timers
    <3> QED BY <2>2, <3>1
  <2>5. v.attached = s.attached /\ v.alive = s.alive /\ v.ready = s.ready \ {r}
    BY <1>2 DEF Plan, States
  <2> HIDE DEF e, q
  <2>6. Sound(v, Q, X)
    BY <1>2, <2>2, <2>3, <2>4, PlanSound
  <2> QED BY <2>1, <2>5, <2>6, ResumedSound
<1>4. CASE ~(r \in s.ready /\ r = Top(s.ready))
  <2>1. u = e
    BY <1>4 DEF Stopped
  <2>2. ASSUME NEW t \in Timers, t[1] \notin X
        PROVE  LegitimateIn(e, t) \/ Quiet(e.plan, Q, t)
    <3>1. LegitimateIn(s, t) => LegitimateIn(e, t)
      <4> SUFFICES ASSUME LegitimateIn(s, t), t[2] = "enforcement"
                   PROVE  t[1] \in s.ready \ {r} /\ t[1] = Top(s.ready \ {r})
        BY <1>2 DEF LegitimateIn
      <4>1. t[1] \in s.ready /\ t[1] = Top(s.ready) /\ s.ready \in SUBSET Rids
        BY <1>1 DEF LegitimateIn, Well, States
      <4>2. r \notin s.ready \/ r # Top(s.ready)
        BY <1>4
      <4>3. t[1] # r
        BY <4>1, <4>2
      <4>4. Top(s.ready \ {r}) = Top(s.ready)
        BY <4>1, <4>3, TopWithout
      <4> QED BY <4>1, <4>3, <4>4
    <3> QED BY <1>2, <2>2, <3>1 DEF Sound
  <2> QED BY <1>2, <2>1, <2>2 DEF Sound
<1> QED BY <1>3, <1>4

\* Cancelling more timers than necessary does no harm.
LEMMA CancelsSound ==
  ASSUME NEW s, NEW Q, NEW X, Sound(s, Q, X), NEW q \in Seq(Ops),
         \A i \in 1 .. Len(q) : q[i][1] = "cancel"
  PROVE  /\ Sound(Plan(s, q), Q, X)
         /\ Plan(s, q).attached = s.attached /\ Plan(s, q).alive = s.alive
         /\ Plan(s, q).ready = s.ready
<1>1. Well(s) /\ s.plan \in Seq(Ops)
  BY DEF Sound, Well, States
<1>2. \A t \in Timers : \A i \in 1 .. Len(q) : q[i] # <<"arm", t>>
  <2>1. \A t \in Timers : <<"arm", t>>[1] # "cancel"
    OBVIOUS
  <2> QED BY <2>1
<1>3. ASSUME NEW t \in Timers, t[1] \notin X /\ ~LegitimateIn(s, t)
           /\ (t[1] \in X \/ LegitimateIn(s, t))
      PROVE  FALSE
  BY <1>3
<1>4. Sound(Plan(s, q), Q, X)
  BY <1>1, <1>2, <1>3, PlanSound
<1> QED BY <1>1, <1>4, Concatenation DEF Plan, Well, States

\* A reserve that leaves the ready queue takes nothing from the others.
LEMMA ReadyWithout ==
  ASSUME NEW s, NEW r \in Rids, Well(s),
         NEW e, e = [s EXCEPT !.ready = s.ready \ {r}]
  PROVE  /\ Well(e) /\ e.plan = s.plan /\ e.attached = s.attached
         /\ e.alive = s.alive /\ e.ready = s.ready \ {r}
         /\ \A t \in Timers : LegitimateIn(s, t) /\ t[1] # r => LegitimateIn(e, t)
<1>1. /\ Well(e) /\ e.plan = s.plan /\ e.attached = s.attached
      /\ e.alive = s.alive /\ e.ready = s.ready \ {r}
  BY DEF Well, States
<1>2. ASSUME NEW t \in Timers, LegitimateIn(s, t), t[1] # r
      PROVE  LegitimateIn(e, t)
  <2> SUFFICES ASSUME t[2] = "enforcement"
               PROVE  t[1] \in e.ready /\ t[1] = Top(e.ready)
    BY <1>1, <1>2 DEF LegitimateIn
  <2>1. t[1] \in s.ready /\ t[1] = Top(s.ready) /\ s.ready \in SUBSET Rids
    BY <1>2 DEF LegitimateIn, Well, States
  <2>2. Top(s.ready \ {r}) = Top(s.ready)
    BY <1>2, <2>1, TopWithout
  <2> QED BY <1>1, <1>2, <2>1, <2>2
<1> QED BY <1>1, <1>2

\* A forced deletion leaves the timers of the dead reserve open.
LEMMA UnlinkedSound ==
  ASSUME NEW s, NEW Q, Sound(s, Q, {}),
         NEW r \in Rids, NEW u \in Unlinked(s, r)
  PROVE  Sound(u, Q, {r}) /\ u.attached = s.attached /\ u.alive = s.alive
           /\ u.ready = s.ready \ {r}
<1> DEFINE e == [s EXCEPT !.ready = s.ready \ {r}]
<1>1. Well(s)
  BY DEF Sound
<1>2. /\ Well(e) /\ e.plan = s.plan /\ e.attached = s.attached
      /\ e.alive = s.alive /\ e.ready = s.ready \ {r}
      /\ \A t \in Timers : LegitimateIn(s, t) /\ t[1] # r => LegitimateIn(e, t)
  BY <1>1, ReadyWithout
<1>3. u = e \/ u \in Resumed(e)
  BY DEF Unlinked
<1> HIDE DEF e
<1>4. Sound(e, Q, {r})
  BY <1>2 DEF Sound
<1> QED BY <1>2, <1>3, <1>4, ResumedSound

\* delete_reserve, of a task that is alive or dead.
LEMMA DeletedSound ==
  ASSUME NEW s, NEW Q, Sound(s, Q, {}),
         NEW r \in Rids, NEW u \in Deleted(s, r)
  PROVE  Sound(u, Q, {})
<1>1. PICK v \in (IF r \in s.alive THEN Stopped(s, r) ELSE Unlinked(s, r)) :
        u = Plan([v EXCEPT !.attached = v.attached \ {r}, !.alive = v.alive \ {r}],
                 <<Cancel(r, "enforcement"), Cancel(r, "period"),
                   Cancel(r, "zero_slack")>>)
  BY DEF Deleted
<1>2. Sound(v, Q, {r}) /\ v.ready = s.ready \ {r}
  <2>1. CASE r \in s.alive
    <3>1. Sound(v, Q, {}) /\ v.ready = s.ready \ {r}
      BY <1>1, <2>1, StoppedSound
    <3> QED BY <3>1 DEF Sound
  <2>2. CASE r \notin s.alive
    BY <1>1, <2>2, UnlinkedSound
  <2> QED BY <2>1, <2>2
<1> DEFINE e == [v EXCEPT !.attached = v.attached \ {r}, !.alive = v.alive \ {r}]
           q == <<Cancel(r, "enforcement"), Cancel(r, "period"),
                  Cancel(r, "zero_slack")>>
<1>3. Well(e) /\ e.plan = v.plan /\ e.ready = v.ready
        /\ e.attached = v.attached \ {r}
  BY <1>2 DEF Sound, Well, States
<1>4. q \in Seq(Ops) /\ Len(q) = 3 /\ q[1] = <<"cancel", <<r, "enforcement">>>>
        /\ q[2] = <<"cancel", <<r, "period">>>>
        /\ q[3] = <<"cancel", <<r, "zero_slack">>>>
  BY DEF Cancel, Ops, Timers, Kinds
<1>5. \A t \in Timers : \A i \in 1 .. Len(q) : q[i] # <<"arm", t>>
  BY <1>4
<1>6. ASSUME NEW t \in Timers, t[1] \notin {} /\ ~LegitimateIn(e, t)
           /\ (t[1] \in {r} \/ LegitimateIn(v, t))
      PROVE  \E k \in 1 .. Len(q) : q[k] = <<"cancel", t>>
  <2>1. t[1] = r
    BY <1>3, <1>6 DEF LegitimateIn
  <2>2. t = <<r, "enforcement">> \/ t = <<r, "period">> \/ t = <<r, "zero_slack">>
    BY <2>1 DEF Timers, Kinds
  <2> QED BY <1>4, <2>2
<1>7. u = Plan(e, q)
  BY <1>1
<1> HIDE DEF e, q
<1> QED BY <1>2, <1>3, <1>4, <1>5, <1>6, <1>7, PlanSound

\* attach_reserve arms the timers of the reserve and starts it.
LEMMA AttachedSound ==
  ASSUME NEW s, NEW Q, Sound(s, Q, {}),
         NEW r \in Rids, NEW u \in Attached(s, r)
  PROVE  Sound(u, Q, {})
<1> DEFINE e == [s EXCEPT !.attached = s.attached \cup {r},
                          !.alive = s.alive \cup {r}]
           q == <<Arm(r, "period"), Arm(r, "zero_slack")>>
           v == Plan(e, q)
<1>1. u \in Started(v, r)
  BY DEF Attached
<1>2. Well(e) /\ e.plan = s.plan /\ e.ready = s.ready
        /\ e.attached = s.attached \cup {r}
  BY DEF Sound, Well, States
<1>3. q \in Seq(Ops) /\ Len(q) = 2 /\ q[1] = <<"arm", <<r, "period">>>>
        /\ q[2] = <<"arm", <<r, "zero_slack">>>>
  BY DEF Arm, Ops, Timers, Kinds
<1>4. \A t \in Timers : \A i \in 1 .. Len(q) :
        q[i] = <<"arm", t>> => t[1] \in {} \/ LegitimateIn(e, t)
  <2> SUFFICES ASSUME NEW t \in Timers, NEW i \in 1 .. Len(q), q[i] = <<"arm", t>>
               PROVE  LegitimateIn(e, t)
    OBVIOUS
  <2>1. t = <<r, "period">> \/ t = <<r, "zero_slack">>
    BY <1>3
  <2> QED BY <1>2, <2>1 DEF LegitimateIn
<1>5. ASSUME NEW t \in Timers, t[1] \notin {} /\ ~LegitimateIn(e, t)
           /\ (t[1] \in {} \/ LegitimateIn(s, t))
      PROVE  FALSE
  BY <1>2, <1>5 DEF LegitimateIn
<1>6. r \in v.attached
  BY <1>2 DEF Plan, Well, States
<1> HIDE DEF e, q
<1>7. Sound(v, Q, {})
  BY <1>2, <1>3, <1>4, <1>5, PlanSound
<1> QED BY <1>1, <1>6, <1>7, StartedSound

\* wait_for_next_period stops a job, and marks reserves to be released.
LEMMA DepartedSound ==
  ASSUME NEW s, NEW Q, Sound(s, Q, {}),
         NEW r \in Rids, NEW u \in Departed(s, r)
  PROVE  Sound(u, Q, {})
<1> DEFINE q == <<Cancel(r, "zero_slack")>>
           w == Plan(s, q)
<1>1. q \in Seq(Ops) /\ \A i \in 1 .. Len(q) : q[i][1] = "cancel"
  BY DEF Cancel, Ops, Timers, Kinds
<1>2. PICK B \in SUBSET Rids, v \in Stopped(w, r) : u = [v EXCEPT !.blocked = B]
  BY DEF Departed
<1> HIDE DEF q
<1>3. Sound(v, Q, {})
  BY <1>1, <1>2, CancelsSound, StoppedSound
<1>4. u \in States /\ u.attached = v.attached /\ u.alive = v.alive
        /\ u.ready = v.ready /\ u.plan = v.plan
  BY <1>2, <1>3 DEF Sound, Well, States
<1> QED BY <1>3, <1>4 DEF Sound, Well, LegitimateIn

\* The release of a blocked reserve starts it or deletes it.
LEMMA ReleasedSound ==
  ASSUME NEW s, NEW Q, Sound(s, Q, {}), NEW r \in Rids, NEW u \in Released(s, r)
  PROVE  Sound(u, Q, {})
<1>1. s.alive \subseteq s.attached
  BY DEF Sound, Well
<1> QED BY <1>1, StartedSound, DeletedSound DEF Released

\* start_of_period, with the overrun of the last job or without.
LEMMA ArrivedSound ==
  ASSUME NEW s, NEW Q, Sound(s, Q, {}),
         NEW r \in s.attached, NEW u \in Arrived(s, r)
  PROVE  Sound(u, Q, {})
<1> DEFINE k == <<Cancel(r, "enforcement"), Cancel(r, "zero_slack")>>
           q == <<Cancel(r, "zero_slack"), Arm(r, "zero_slack"), Arm(r, "period")>>
<1>1. r \in Rids
  BY DEF Sound, Well, States
<1>2. PICK o \in {s} \cup Overrun(s, r) :
        u = Plan(o, q) \/ u \in Started(Plan(o, q), r)
  BY DEF Arrived
<1>3. Sound(o, Q, {}) /\ o.attached = s.attached
  <2>1. CASE o \in Overrun(s, r)
    <3>1. k \in Seq(Ops) /\ Len(k) = 2 /\ k[1][1] = "cancel" /\ k[2][1] = "cancel"
      BY <1>1 DEF Cancel, Ops, Timers, Kinds
    <3>2. o \in Stopped(Plan(s, k), r)
      BY <2>1 DEF Overrun
    <3> HIDE DEF k
    <3>3. \A i \in 1 .. Len(k) : k[i][1] = "cancel"
      BY <3>1
    <3> QED BY <1>1, <3>1, <3>2, <3>3, CancelsSound, StoppedSound
  <2> QED BY <1>2, <2>1
<1>4. q \in Seq(Ops) /\ Len(q) = 3 /\ q[1] = <<"cancel", <<r, "zero_slack">>>>
        /\ q[2] = <<"arm", <<r, "zero_slack">>>> /\ q[3] = <<"arm", <<r, "period">>>>
  BY <1>1 DEF Arm, Cancel, Ops, Timers, Kinds
<1>5. Well(o)
  BY <1>3 DEF Sound
<1>6. \A t \in Timers : \A i \in 1 .. Len(q) :
        q[i] = <<"arm", t>> => t[1] \in {} \/ LegitimateIn(o, t)
  <2> SUFFICES ASSUME NEW t \in Timers, NEW i \in 1 .. Len(q), q[i] = <<"arm", t>>
               PROVE  LegitimateIn(o, t)
    OBVIOUS
  <2>1. t = <<r, "period">> \/ t = <<r, "zero_slack">>
    BY <1>4
  <2> QED BY <1>3, <2>1 DEF LegitimateIn
<1>7. ASSUME NEW t \in Timers, t[1] \notin {} /\ ~LegitimateIn(o, t)
           /\ (t[1] \in {} \/ LegitimateIn(o, t))
      PROVE  FALSE
  BY <1>7
<1> HIDE DEF q
<1>8. Sound(Plan(o, q), Q, {})
  BY <1>3, <1>4, <1>5, <1>6, <1>7, PlanSound
<1>9. r \in Plan(o, q).attached
  BY <1>3, <1>5 DEF Plan, Well, States
<1> QED BY <1>2, <1>8, <1>9, StartedSound

\* zs_enforcement only asks for reserves to be stopped.
LEMMA ZeroSlackSound ==
  ASSUME NEW s, NEW Q, Sound(s, Q, {}),
         NEW r \in Rids, NEW u \in ZeroSlackEnforced(s, r)
  PROVE  Sound(u, Q, {})
<1>1. PICK S \in SUBSET (s.ready \ {r}) :
        u = [s EXCEPT !.requests = s.requests \cup {<<x, TRUE>> : x \in S}]
  BY DEF ZeroSlackEnforced
<1>2. s \in States
  BY DEF Sound, Well
<1>3. s.requests \cup {<<x, TRUE>> : x \in S} \in SUBSET (Rids \X BOOLEAN)
  <2>1. s.requests \in SUBSET (Rids \X BOOLEAN) /\ S \in SUBSET Rids
    BY <1>1, <1>2 DEF States
  <2>2. ASSUME NEW y \in {<<x, TRUE>> : x \in S}
        PROVE  y \in Rids \X BOOLEAN
    <3>1. PICK x \in S : y = <<x, TRUE>>
      OBVIOUS
    <3> QED BY <2>1, <3>1
  <2> QED BY <2>1, <2>2
<1>4. u \in States /\ u.attached = s.attached /\ u.alive = s.alive
        /\ u.ready = s.ready /\ u.plan = s.plan
  BY <1>1, <1>2, <1>3 DEF States
<1> QED BY <1>4 DEF Sound, Well, LegitimateIn

-----------------------------------------------------------------------------
(***************************************************************************)
(* The inductive invariant.                                                *)
(***************************************************************************)

LEMMA InitLock == Init => LockInv
<1> SUFFICES ASSUME Init PROVE LockInv
  OBVIOUS
<1>1. TypeOK
  BY CPUsAssumption DEF Init, TypeOK
<1>2. Nobody \notin CPUs
  BY CPUsAssumption DEF Nobody
<1>3. \A t \in Timers : t # NoTimer
  BY DEF Timers, NoTimer
<1>4. InUse = {}
  BY <1>3 DEF Init, InUse, Running
<1>5. \A t \in Timers : Quiet(plan, InUse, t)
  BY <1>4 DEF Init, Quiet
<1> QED BY <1>1, <1>2, <1>5 DEF Init, LockInv

\* The state between sections, as the start of an outcome.
LEMMA StateSound ==
  ASSUME LockInv, plan = <<>>
  PROVE  Sound(State, InUse, {})
<1>1. State \in States /\ State.attached = attached /\ State.alive = alive
        /\ State.ready = ready /\ State.requests = requests
        /\ State.blocked = blocked /\ State.plan = plan
  BY DEF LockInv, TypeOK, State, States
<1> QED BY <1>1 DEF LockInv, TypeOK, Sound, Well

\* A step that takes an outcome and leaves the timers keeps what matters.
LEMMA OutcomeSound ==
  ASSUME LockInv, NEW S, Outcome(S), UNCHANGED <<queued, firing>>,
         \A u \in S : Sound(u, InUse, {})
  PROVE  /\ attached' \subseteq Rids /\ alive' \subseteq attached'
         /\ ready' \subseteq attached' /\ requests' \subseteq Rids \X BOOLEAN
         /\ blocked' \subseteq Rids /\ plan' \in Seq(Ops)
         /\ (\A t \in Timers : LegitimateIn(State, t) \/ Quiet(plan, InUse, t))'
<1>1. PICK u \in S : /\ attached' = u.attached /\ alive' = u.alive
                     /\ ready' = u.ready /\ requests' = u.requests
                     /\ blocked' = u.blocked /\ plan' = u.plan
  BY DEF Outcome
<1>2. Sound(u, InUse, {}) /\ u \in States /\ u.alive \subseteq u.attached
        /\ u.ready \subseteq u.attached
  BY <1>1 DEF Sound, Well
<1>3. InUse' = InUse
  BY DEF InUse, Running
<1>4. \A t : LegitimateIn(State, t)' <=> LegitimateIn(u, t)
  BY <1>1 DEF LegitimateIn, State
<1>5. \A t : Quiet(plan, InUse, t)' <=> Quiet(u.plan, InUse, t)
  BY <1>1, <1>3 DEF Quiet
<1>6. \A t \in Timers : LegitimateIn(u, t) \/ Quiet(u.plan, InUse, t)
  BY <1>2 DEF Sound
<1> QED BY <1>1, <1>2, <1>4, <1>5, <1>6 DEF States

\* A step that leaves the reserves, and takes no timer into use.
LEMMA Untouched ==
  ASSUME LockInv, UNCHANGED <<attached, ready, plan>>, InUse' \subseteq InUse
  PROVE  (\A t \in Timers : LegitimateIn(State, t) \/ Quiet(plan, InUse, t))'
<1>1. \A t : LegitimateIn(State, t)' <=> LegitimateIn(State, t)
  BY DEF LegitimateIn, State
<1>2. \A t : Quiet(plan, InUse, t) => Quiet(plan, InUse, t)'
  BY DEF Quiet
<1> QED BY <1>1, <1>2 DEF LockInv

-----------------------------------------------------------------------------
(***************************************************************************)
(* The actions, one lemma each.                                            *)
(***************************************************************************)

LEMMA ExitLock == ASSUME LockInv, NEW r \in Rids, Exit(r) PROVE LockInv'
<1>1. InUse' = InUse
  BY DEF Exit, InUse, Running
<1>2. (\A t \in Timers : LegitimateIn(State, t) \/ Quiet(plan, InUse, t))'
  BY <1>1, Untouched DEF Exit
<1> QED BY <1>2 DEF Exit, LockInv, TypeOK

LEMMA SpinLock ==
  ASSUME LockInv, NEW c \in CPUs, NEW who \in {"call", "scheduler"}, Spin(c, who)
  PROVE  LockInv'
<1>1. InUse' = InUse
  BY DEF Spin, InUse, Running
<1>2. (\A t \in Timers : LegitimateIn(State, t) \/ Quiet(plan, InUse, t))'
  BY <1>1, Untouched DEF Spin, reserves
<1>3. TypeOK'
  BY DEF Spin, Become, reserves, LockInv, TypeOK
<1>4. /\ pc' = [pc EXCEPT ![c] = "spin"] /\ actor' = [actor EXCEPT ![c] = who]
      /\ UNCHANGED <<firing, zsrmlock, plan>> /\ pc[c] = "idle"
  BY DEF Spin, Become
<1> QED BY <1>2, <1>3, <1>4 DEF LockInv, TypeOK

LEMMA ExpireLock ==
  ASSUME LockInv, NEW c \in CPUs, NEW t \in Timers, Expire(c, t)
  PROVE  LockInv'
<1>1. /\ pc' = [pc EXCEPT ![c] = "spin"] /\ actor' = [actor EXCEPT ![c] = "timer"]
      /\ firing' = [firing EXCEPT ![c] = t] /\ queued' = queued \ {t}
      /\ UNCHANGED <<attached, alive, ready, requests, blocked, zsrmlock, plan>>
      /\ pc[c] = "idle" /\ t \in queued
  BY DEF Expire, Become, reserves
<1>2. InUse' \subseteq InUse
  BY <1>1 DEF InUse, Running, LockInv, TypeOK
<1>3. (\A x \in Timers : LegitimateIn(State, x) \/ Quiet(plan, InUse, x))'
  BY <1>1, <1>2, Untouched
<1>4. TypeOK'
  BY <1>1 DEF LockInv, TypeOK
<1>5. t # NoTimer
  BY DEF Timers, NoTimer
<1> QED BY <1>1, <1>3, <1>4, <1>5 DEF LockInv, TypeOK

\* The lock is taken: only its new holder is in a section.
LEMMA AcquireLock ==
  ASSUME LockInv, NEW c \in CPUs, NEW who, Acquire(c, who),
         NEW place \in {"called", "section"}, Become(c, place)
  PROVE  /\ pc' \in [CPUs -> {"idle", "spin", "called", "section"}]
         /\ \A d \in CPUs : pc'[d] \in {"called", "section"} <=> zsrmlock' = d
         /\ \A d \in CPUs : pc'[d] = "called" => d = c /\ place = "called"
         /\ \A d \in CPUs : pc'[d] = "idle" => actor'[d] = "none"
         /\ zsrmlock' \in CPUs /\ zsrmlock' # Nobody
<1>1. Nobody \notin CPUs
  BY CPUsAssumption DEF Nobody
<1> QED BY <1>1 DEF LockInv, TypeOK, Acquire, Become

LEMMA SystemCallLock ==
  ASSUME LockInv, NEW c \in CPUs, SystemCall(c)
  PROVE  LockInv'
<1>1. Acquire(c, "call") /\ Become(c, "section") /\ plan = <<>>
  BY DEF SystemCall, Acquire, LockInv
<1>2. PICK S : Outcome(S) /\ \A u \in S : Sound(u, InUse, {})
  <2>1. Sound(State, InUse, {}) /\ alive \subseteq Rids /\ attached \subseteq Rids
    BY <1>1, StateSound DEF LockInv, TypeOK
  <2>2. CASE \E r \in Rids \ attached : Outcome(Attached(State, r))
    BY <2>1, <2>2, AttachedSound
  <2>3. CASE \E r \in attached : Outcome(Deleted(State, r))
    BY <2>1, <2>3, DeletedSound
  <2>4. CASE \E r \in alive : Outcome(Departed(State, r))
    BY <2>1, <2>4, DepartedSound
  <2> QED BY <2>2, <2>3, <2>4 DEF SystemCall
<1>3. UNCHANGED <<queued, actor, firing>>
  BY <1>1 DEF Acquire
<1> QED BY <1>1, <1>2, <1>3, OutcomeSound, AcquireLock DEF LockInv, TypeOK

LEMMA SchedulerEntersLock ==
  ASSUME LockInv, NEW c \in CPUs, SchedulerEnters(c)
  PROVE  LockInv'
<1>1. Acquire(c, "scheduler") /\ Become(c, "section")
      /\ UNCHANGED <<attached, alive, ready, requests, blocked, plan>>
      /\ UNCHANGED <<queued, actor, firing>>
  BY DEF SchedulerEnters, Acquire, reserves
<1>2. InUse' = InUse
  BY <1>1 DEF InUse, Running
<1> QED BY <1>1, <1>2, Untouched, AcquireLock DEF LockInv, TypeOK

LEMMA HandlerEntersLock ==
  ASSUME LockInv, NEW c \in CPUs, HandlerEnters(c)
  PROVE  LockInv'
<1> DEFINE r == firing[c][1]
<1>1. Acquire(c, "timer") /\ plan = <<>>
      /\ UNCHANGED <<attached, alive, ready, blocked, plan, queued, actor, firing>>
  BY DEF HandlerEnters, Acquire, LockInv
<1>2. PICK place \in {"called", "section"} : Become(c, place)
  BY DEF HandlerEnters
<1>3. firing[c] \in Timers
  BY <1>1 DEF Acquire, LockInv, TypeOK
<1>4. requests' \subseteq Rids \X BOOLEAN
  <2>1. r \in Rids
    BY <1>3 DEF Timers
  <2>2. requests' = requests \/ requests' = Doom(requests, r)
    BY DEF HandlerEnters
  <2>3. requests \subseteq Rids \X BOOLEAN /\ <<r, FALSE>> \in Rids \X BOOLEAN
    BY <2>1 DEF LockInv, TypeOK
  <2> HIDE DEF r
  <2> QED BY <2>2, <2>3 DEF Doom
<1>5. InUse' = InUse
  BY <1>1 DEF InUse, Running
<1>6. (\A t \in Timers : LegitimateIn(State, t) \/ Quiet(plan, InUse, t))'
  BY <1>1, <1>5, Untouched
<1>7. /\ pc' \in [CPUs -> {"idle", "spin", "called", "section"}]
      /\ \A d \in CPUs : pc'[d] \in {"called", "section"} <=> zsrmlock' = d
      /\ \A d \in CPUs : pc'[d] = "called" => d = c
      /\ \A d \in CPUs : pc'[d] = "idle" => actor'[d] = "none"
      /\ zsrmlock' \in CPUs /\ zsrmlock' # Nobody
  BY <1>1, <1>2, AcquireLock
<1>8. actor[c] = "timer"
  BY <1>1 DEF Acquire
<1>9. TypeOK'
  BY <1>1, <1>4, <1>7 DEF LockInv, TypeOK
<1> QED BY <1>1, <1>6, <1>7, <1>8, <1>9 DEF LockInv

LEMMA FiringOfReserve ==
  ASSUME LockInv, NEW c \in CPUs, pc[c] = "called"
  PROVE  firing[c] \in Timers /\ firing[c][1] \in Rids
<1>1. firing[c] \in Timers
  BY DEF LockInv, TypeOK
<1> QED BY <1>1 DEF Timers

\* A handler that was called does its work.
LEMMA CalledLock ==
  ASSUME LockInv, NEW c \in CPUs,
         StartOfPeriod(c) \/ BudgetEnforcement(c) \/ ZsEnforcement(c)
  PROVE  LockInv'
<1>1. /\ pc[c] = "called" /\ pc' = [pc EXCEPT ![c] = "section"]
      /\ UNCHANGED <<queued, actor, firing, zsrmlock>> /\ plan = <<>>
  BY DEF StartOfPeriod, BudgetEnforcement, ZsEnforcement, Become, LockInv
<1>2. zsrmlock = c /\ Nobody \notin CPUs
  BY <1>1, CPUsAssumption DEF LockInv, Nobody
<1>3. PICK S : Outcome(S) /\ \A u \in S : Sound(u, InUse, {})
  <2>1. Sound(State, InUse, {}) /\ State.alive = alive /\ State.attached = attached
          /\ alive \subseteq attached
    BY <1>1, StateSound DEF State, LockInv, TypeOK
  <2>2. CASE StartOfPeriod(c)
    <3> DEFINE r == firing[c][1]
    <3>1. r \in Rids
      BY <1>1, FiringOfReserve
    <3>2. \A u \in IF r \in alive THEN Arrived(State, r) ELSE Deleted(State, r) :
            Sound(u, InUse, {})
      BY <2>1, <3>1, ArrivedSound, DeletedSound
    <3> QED BY <2>2, <3>2 DEF StartOfPeriod
  <2>3. CASE BudgetEnforcement(c)
    <3>1. firing[c][1] \in Rids
      BY <1>1, FiringOfReserve
    <3> QED BY <2>1, <2>3, <3>1, EnforcedSound DEF BudgetEnforcement
  <2>4. CASE ZsEnforcement(c)
    <3>1. firing[c][1] \in Rids
      BY <1>1, FiringOfReserve
    <3> QED BY <2>1, <2>4, <3>1, ZeroSlackSound DEF ZsEnforcement
  <2> QED BY <2>2, <2>3, <2>4
<1> QED BY <1>1, <1>2, <1>3, OutcomeSound DEF LockInv, TypeOK

LEMMA SchedulerPopLock ==
  ASSUME LockInv, NEW c \in CPUs, SchedulerPop(c)
  PROVE  LockInv'
<1>1. pc[c] = "section" /\ plan = <<>>
      /\ UNCHANGED <<queued, pc, actor, firing, zsrmlock>>
  BY DEF SchedulerPop
<1>2. zsrmlock = c /\ Nobody \notin CPUs
  BY <1>1, CPUsAssumption DEF LockInv, Nobody
<1>3. \A d \in CPUs : pc[d] # "called"
  BY <1>1, <1>2 DEF LockInv
<1>4. PICK S : Outcome(S) /\ \A u \in S : Sound(u, InUse, {})
  <2> DEFINE s(q) == [State EXCEPT !.requests = @ \ {q}]
  <2>1. PICK q \in requests :
          \/ Outcome({s(q)})
          \/ q[1] \notin alive /\ Outcome(Deleted(s(q), q[1]))
          \/ q[1] \in alive /\ Outcome(Stopped(s(q), q[1]))
          \/ q[1] \in alive /\ Outcome(Started(s(q), q[1]))
    BY DEF SchedulerPop
  <2>2. Sound(State, InUse, {})
    BY <1>1, StateSound
  <2>3. /\ s(q) \in States /\ s(q).attached = attached /\ s(q).alive = State.alive
        /\ s(q).ready = State.ready /\ s(q).plan = State.plan
        /\ State.attached = attached
    BY <2>2 DEF Sound, Well, States, State
  <2>4. q[1] \in Rids /\ alive \subseteq attached
    BY DEF LockInv, TypeOK
  <2> HIDE DEF s
  <2>5. Sound(s(q), InUse, {})
    BY <2>2, <2>3 DEF Sound, Well, LegitimateIn
  <2> QED BY <2>1, <2>3, <2>4, <2>5, DeletedSound, StoppedSound, StartedSound
<1> QED BY <1>1, <1>2, <1>3, <1>4, OutcomeSound DEF LockInv, TypeOK

LEMMA ReleaseBlockedLock ==
  ASSUME LockInv, NEW c \in CPUs, ReleaseBlocked(c)
  PROVE  LockInv'
<1>1. pc[c] = "section" /\ plan = <<>> /\ zsrmlock = c
      /\ UNCHANGED <<queued, pc, actor, firing, zsrmlock>>
  BY DEF ReleaseBlocked
<1>2. \A d \in CPUs : pc[d] # "called"
  BY <1>1 DEF LockInv
<1>3. PICK x \in blocked :
        Outcome(Released([State EXCEPT !.blocked = @ \ {x}], x))
  BY DEF ReleaseBlocked
<1> DEFINE s == [State EXCEPT !.blocked = @ \ {x}]
<1>4. Sound(State, InUse, {}) /\ x \in Rids
  BY <1>1, StateSound DEF LockInv, TypeOK
<1>5. /\ s \in States /\ s.attached = State.attached /\ s.alive = State.alive
      /\ s.ready = State.ready /\ s.plan = State.plan
  BY <1>4 DEF Sound, Well, States
<1> HIDE DEF s
<1>6. Sound(s, InUse, {})
  BY <1>4, <1>5 DEF Sound, Well, LegitimateIn
<1>7. Outcome(Released(s, x)) /\ \A u \in Released(s, x) : Sound(u, InUse, {})
  BY <1>3, <1>4, <1>6, ReleasedSound DEF s
<1>8. c # Nobody
  BY CPUsAssumption DEF Nobody
<1> QED BY <1>1, <1>2, <1>7, <1>8, OutcomeSound DEF LockInv, TypeOK

\* The operation the plan begins with is behind the holder.
LEMMA TailOfPlan ==
  ASSUME NEW p \in Seq(Ops), p # <<>>
  PROVE  /\ Tail(p) \in Seq(Ops) /\ Head(p) = p[1] /\ p[1] \in Ops
         /\ Len(p) \in Nat /\ Len(p) >= 1 /\ Len(Tail(p)) = Len(p) - 1
         /\ \A i \in 1 .. Len(p) - 1 : Tail(p)[i] = p[i + 1]
  OBVIOUS

\* The rest of a plan is as quiet as the plan, if the operation that goes did
\* what it says to the timers of Q.
LEMMA QuietRest ==
  ASSUME NEW p \in Seq(Ops), p # <<>>, NEW Q, NEW R, NEW t \in Timers,
         Quiet(p, Q, t),
         t \in R => \/ t \in Q /\ p[1] # <<"cancel", t>>
                   \/ p[1] = <<"arm", t>>
  PROVE  Quiet(Tail(p), R, t)
<1> DEFINE q == Tail(p)
<1>1. /\ q \in Seq(Ops) /\ Len(p) \in Nat /\ Len(p) >= 1 /\ Len(q) = Len(p) - 1
      /\ \A i \in 1 .. Len(p) - 1 : q[i] = p[i + 1]
  BY TailOfPlan
<1> HIDE DEF q
<1>2. ASSUME NEW j \in 1 .. Len(p), j > 1
      PROVE  j - 1 \in 1 .. Len(q) /\ q[j - 1] = p[j]
  <2>1. j - 1 \in 1 .. Len(p) - 1 /\ (j - 1) + 1 = j
    BY <1>1, <1>2
  <2> QED BY <1>1, <2>1
<1>3. ASSUME t \in R
      PROVE  \E j \in 1 .. Len(q) : q[j] = <<"cancel", t>>
  <2>1. 1 \in 1 .. Len(p)
    BY <1>1
  <2>2. PICK j \in 1 .. Len(p) : p[j] = <<"cancel", t>> /\ j > 1
    <3>1. CASE t \in Q /\ p[1] # <<"cancel", t>>
      BY <1>1, <3>1 DEF Quiet
    <3>2. CASE p[1] = <<"arm", t>>
      BY <2>1, <3>2 DEF Quiet
    <3> QED BY <1>3, <3>1, <3>2
  <2> QED BY <1>2, <2>2
<1>4. ASSUME NEW i \in 1 .. Len(q), q[i] = <<"arm", t>>
      PROVE  \E j \in 1 .. Len(q) : j > i /\ q[j] = <<"cancel", t>>
  <2>1. i + 1 \in 1 .. Len(p) /\ p[i + 1] = <<"arm", t>>
    BY <1>1, <1>4
  <2>2. PICK j \in 1 .. Len(p) : j > i + 1 /\ p[j] = <<"cancel", t>>
    BY <2>1 DEF Quiet
  <2>3. j - 1 \in 1 .. Len(q) /\ q[j - 1] = <<"cancel", t>> /\ j - 1 > i
    BY <1>1, <1>2, <2>2
  <2> QED BY <2>3
<1>5. Quiet(q, R, t)
  BY <1>3, <1>4 DEF Quiet
<1> QED BY <1>5 DEF q

LEMMA TimerLock ==
  ASSUME LockInv, NEW c \in CPUs, CancelTimer(c) \/ ArmTimer(c)
  PROVE  LockInv'
<1>1. /\ zsrmlock = c /\ plan # <<>> /\ plan' = Tail(plan) /\ plan \in Seq(Ops)
      /\ UNCHANGED <<attached, alive, ready, requests, blocked>>
      /\ UNCHANGED <<pc, actor, firing, zsrmlock>>
  BY DEF CancelTimer, ArmTimer, reserves, LockInv, TypeOK
<1>2. Head(plan) = plan[1] /\ plan[1] \in Ops /\ Tail(plan) \in Seq(Ops)
  BY <1>1, TailOfPlan
<1>3. plan[1][1] \in {"cancel", "arm"} /\ plan[1][2] \in Timers
        /\ plan[1] = <<plan[1][1], plan[1][2]>>
  BY <1>2 DEF Ops
<1>4. ASSUME NEW t \in Timers, t \in InUse'
      PROVE  (t \in InUse /\ plan[1] # <<"cancel", t>>) \/ plan[1] = <<"arm", t>>
  <2>1. Running(t)' <=> Running(t)
    BY <1>1 DEF Running
  <2>2. CASE CancelTimer(c)
    BY <1>2, <1>4, <2>1, <2>2 DEF CancelTimer, InUse
  <2>3. CASE ArmTimer(c)
    BY <1>2, <1>3, <1>4, <2>1, <2>3 DEF ArmTimer, InUse
  <2> QED BY <2>2, <2>3
<1>5. ASSUME NEW t \in Timers
      PROVE  LegitimateIn(State, t)' \/ Quiet(plan', InUse', t)
  <2>1. LegitimateIn(State, t)' <=> LegitimateIn(State, t)
    BY <1>1 DEF LegitimateIn, State
  <2>2. Quiet(plan, InUse, t) => Quiet(Tail(plan), InUse', t)
    BY <1>1, <1>4, QuietRest
  <2> QED BY <1>1, <2>1, <2>2 DEF LockInv
<1>6. queued' \subseteq Timers
  BY <1>2, <1>3 DEF CancelTimer, ArmTimer, LockInv, TypeOK
<1>7. Nobody \notin CPUs
  BY CPUsAssumption DEF Nobody
<1>8. (\A t \in Timers : LegitimateIn(State, t) \/ Quiet(plan, InUse, t))'
  BY <1>5 DEF Quiet
<1> QED BY <1>1, <1>2, <1>6, <1>7, <1>8 DEF LockInv, TypeOK

\* A processor that is done, or gives up, runs no callback any more.
LEMMA ReturnLock ==
  ASSUME LockInv, NEW c \in CPUs, Release(c) \/ GiveUp(c)
  PROVE  LockInv'
<1>1. /\ pc' = [pc EXCEPT ![c] = "idle"] /\ actor' = [actor EXCEPT ![c] = "none"]
      /\ firing' = [firing EXCEPT ![c] = NoTimer]
      /\ UNCHANGED <<attached, alive, ready, requests, blocked, queued, plan>>
  BY DEF Release, GiveUp, Return, Become, reserves
<1>2. \A t \in Timers : t # NoTimer
  BY DEF Timers, NoTimer
<1>3. InUse' \subseteq InUse
  BY <1>1, <1>2 DEF InUse, Running, LockInv, TypeOK
<1>4. (\A t \in Timers : LegitimateIn(State, t) \/ Quiet(plan, InUse, t))'
  BY <1>1, <1>3, Untouched
<1>5. Nobody \notin CPUs
  BY CPUsAssumption DEF Nobody
<1>6. CASE Release(c)
  <2>1. zsrmlock = c /\ zsrmlock' = Nobody /\ plan = <<>>
    BY <1>6 DEF Release
  <2> QED BY <1>1, <1>4, <1>5, <2>1 DEF LockInv, TypeOK
<1>7. CASE GiveUp(c)
  <2>1. pc[c] = "spin" /\ zsrmlock' = zsrmlock
    BY <1>7 DEF GiveUp
  <2> QED BY <1>1, <1>4, <1>5, <2>1 DEF LockInv, TypeOK
<1> QED BY <1>6, <1>7

-----------------------------------------------------------------------------
LEMMA LockInvInductive == LockInv /\ [Next]_vars => LockInv'
<1> SUFFICES ASSUME LockInv, [Next]_vars PROVE LockInv'
  OBVIOUS
<1>1. CASE \E r \in Rids : Exit(r)
  BY <1>1, ExitLock
<1>2. CASE SchedulerWakes
  BY <1>2, CPUsAssumption, SpinLock DEF SchedulerWakes
<1>3. ASSUME NEW c \in CPUs, Call(c)
      PROVE  LockInv'
  BY <1>3, SpinLock DEF Call
<1>4. ASSUME NEW c \in CPUs, Enters(c)
      PROVE  LockInv'
  BY <1>4, SystemCallLock, SchedulerEntersLock, HandlerEntersLock DEF Enters
<1>5. ASSUME NEW c \in CPUs, Section(c)
      PROVE  LockInv'
  BY <1>5, SchedulerPopLock, ReleaseBlockedLock, CalledLock, TimerLock,
     ReturnLock DEF Section
<1>6. ASSUME NEW c \in CPUs, GiveUp(c)
      PROVE  LockInv'
  BY <1>6, ReturnLock
<1>7. ASSUME NEW c \in CPUs, NEW t \in Timers, Expire(c, t)
      PROVE  LockInv'
  BY <1>7, ExpireLock
<1>8. CASE UNCHANGED vars
  <2>1. InUse' = InUse
    BY <1>8 DEF vars, InUse, Running
  <2>2. (\A t \in Timers : LegitimateIn(State, t) \/ Quiet(plan, InUse, t))'
    BY <1>8, <2>1, Untouched DEF vars
  <2> QED BY <1>8, <2>2 DEF vars, LockInv, TypeOK
<1> QED BY <1>1, <1>2, <1>3, <1>4, <1>5, <1>6, <1>7, <1>8 DEF Next

\* Between sections the plan is empty, and nothing is left to cancel.
LEMMA LockInvSuffices == LockInv => NoStaleFiring
<1> SUFFICES ASSUME LockInv, zsrmlock = Nobody, NEW t \in Timers,
                    t \in queued \/ Running(t)
             PROVE  Legitimate(t)
  BY DEF NoStaleFiring
<1>1. plan = <<>> /\ t \in InUse
  BY DEF LockInv, InUse
<1>2. ~Quiet(plan, InUse, t)
  BY <1>1 DEF Quiet
<1>3. LegitimateIn(State, t)
  BY <1>2 DEF LockInv
<1> QED BY <1>3 DEF LegitimateIn, Legitimate, State

\* No handler that gets zsrmlock works on a reserve deleted while it waited,
\* nor enforces a reserve that is not the head, on any number of processors:
\* every section of zsrmv.c cancels each timer it makes obsolete, after it
\* arms it last, and hrtimer_cancel waits for the callbacks.
THEOREM NoHandlerIsStale == Spec => []NoStaleFiring
<1>1. Init => LockInv
  BY InitLock
<1>2. LockInv /\ [Next]_vars => LockInv'
  BY LockInvInductive
<1>3. LockInv => NoStaleFiring
  BY LockInvSuffices
<1> QED BY <1>1, <1>2, <1>3, PTL DEF Spec

\* Every variable keeps its type: no outcome of a section leaves a reserve
\* ready or alive that is not attached.
THEOREM LockingTypeCorrect == Spec => []TypeOK
<1>1. Init => LockInv
  BY InitLock
<1>2. LockInv /\ [Next]_vars => LockInv'
  BY LockInvInductive
<1>3. LockInv => TypeOK
  BY DEF LockInv
<1> QED BY <1>1, <1>2, <1>3, PTL DEF Spec

-----------------------------------------------------------------------------
(***************************************************************************)
(* "At least the periodic timer will be active", on at most two processors *)
(* (on three, a handler may give up while the lock's holder waits for      *)
(* another).  Only delete_reserve cancels a period timer, and a handler    *)
(* that gives up its own was waited for by that deletion; if the holder    *)
(* waits for its own callback instead, it waits for ever.                  *)
(***************************************************************************)

TwoCPUs == \A c, d, e \in CPUs : c = d \/ d = e \/ c = e

\* The operations of a plan.
Acts(p) == {p[i] : i \in 1 .. Len(p)}

\* Outcome u of s leaves the reserves but those of X, what is asked of them,
\* and their period timers.
Mild(s, u, X) ==
  /\ s \in States /\ u \in States
  /\ \A r \in Rids \ X :
       /\ r \in u.attached <=> r \in s.attached
       /\ r \in u.alive <=> r \in s.alive
       /\ <<r, FALSE>> \in s.requests => <<r, FALSE>> \in u.requests
       /\ \A op \in {Cancel(r, "period"), Arm(r, "period")} :
            op \in Acts(u.plan) <=> op \in Acts(s.plan)

\* Reserve r of state s is not attached, or its period timer is one of Q, or
\* it will be armed, or r will be deleted.
Guarded(s, Q, r) ==
  r \in s.attached =>
    /\ Cancel(r, "period") \notin Acts(s.plan)
    /\ \/ r \notin s.alive /\ <<r, FALSE>> \in s.requests
       \/ <<r, "period">> \in Q
       \/ Arm(r, "period") \in Acts(s.plan)

\* The timers in the queues, and those whose callback has yet to do its work.
Pending ==
  queued \cup {t \in Timers :
                 \E c \in CPUs : firing[c] = t /\ pc[c] \in {"spin", "called"}}

Now == [State EXCEPT !.plan = plan]

\* The holder of the lock is to wait for its own callback.
Stuck ==
  zsrmlock # Nobody /\ <<"cancel", firing[zsrmlock]>> \in Acts(plan)

LivesInv == LockInv /\ (Stuck \/ \A r \in Rids : Guarded(Now, Pending, r))

LEMMA ActsConcatenation ==
  ASSUME NEW p \in Seq(Ops), NEW q \in Seq(Ops)
  PROVE  Acts(p \o q) = Acts(p) \cup Acts(q)
<1>1. /\ Len(p) \in Nat /\ Len(q) \in Nat /\ Len(p \o q) = Len(p) + Len(q)
      /\ \A i \in 1 .. Len(p) : (p \o q)[i] = p[i]
      /\ \A i \in 1 .. Len(q) : (p \o q)[Len(p) + i] = q[i]
  BY Concatenation
<1> DEFINE w == p \o q
<1> HIDE DEF w
<1>2. \A i \in 1 .. Len(p) : i \in 1 .. Len(w) /\ w[i] = p[i]
  BY <1>1 DEF w
<1>3. \A i \in 1 .. Len(q) : Len(p) + i \in 1 .. Len(w) /\ w[Len(p) + i] = q[i]
  BY <1>1 DEF w
<1>4. ASSUME NEW i \in 1 .. Len(w), i > Len(p)
      PROVE  i - Len(p) \in 1 .. Len(q) /\ w[i] = q[i - Len(p)]
  <2>1. i - Len(p) \in 1 .. Len(q) /\ Len(p) + (i - Len(p)) = i
    BY <1>1, <1>4 DEF w
  <2> QED BY <1>3, <2>1
<1>5. \A i \in 1 .. Len(w) : i > Len(p) \/ i \in 1 .. Len(p)
  BY <1>1 DEF w
<1>6. Acts(w) \subseteq Acts(p) \cup Acts(q)
  <2> SUFFICES ASSUME NEW i \in 1 .. Len(w) PROVE w[i] \in Acts(p) \cup Acts(q)
    BY DEF Acts
  <2> QED BY <1>2, <1>4, <1>5 DEF Acts
<1>7. Acts(p) \subseteq Acts(w) /\ Acts(q) \subseteq Acts(w)
  BY <1>2, <1>3 DEF Acts
<1> QED BY <1>6, <1>7 DEF w

\* What a plan adds to an outcome.
LEMMA PlanActs ==
  ASSUME NEW s \in States, NEW q \in Seq(Ops)
  PROVE  /\ Plan(s, q) \in States
         /\ Plan(s, q).attached = s.attached /\ Plan(s, q).alive = s.alive
         /\ Plan(s, q).ready = s.ready /\ Plan(s, q).requests = s.requests
         /\ Acts(Plan(s, q).plan) = Acts(s.plan) \cup Acts(q)
<1> DEFINE p == s.plan \o q
<1>1. s.plan \in Seq(Ops) /\ Plan(s, q) = [s EXCEPT !.plan = p]
  BY DEF Plan, States
<1>2. p \in Seq(Ops) /\ Acts(p) = Acts(s.plan) \cup Acts(q)
  BY <1>1, Concatenation, ActsConcatenation
<1> HIDE DEF p
<1> QED BY <1>1, <1>2 DEF States

\* Operations on other timers are mild.
LEMMA PlanMild ==
  ASSUME NEW s \in States, NEW q \in Seq(Ops),
         \A op \in Acts(q) : op[2][2] # "period"
  PROVE  Mild(s, Plan(s, q), {})
<1>1. \A r \in Rids : \A op \in {Cancel(r, "period"), Arm(r, "period")} :
        op \notin Acts(q)
  BY DEF Cancel, Arm
<1> QED BY <1>1, PlanActs DEF Mild

LEMMA MildTwice ==
  ASSUME NEW s, NEW u, NEW v, NEW X, Mild(s, u, X), Mild(u, v, X)
  PROVE  Mild(s, v, X)
BY DEF Mild

LEMMA MildMore ==
  ASSUME NEW s, NEW u, Mild(s, u, {}), NEW X
  PROVE  Mild(s, u, X)
BY DEF Mild

\* Changes of the ready queue are mild.
LEMMA ReadyMild ==
  ASSUME NEW s \in States, NEW R \in SUBSET Rids
  PROVE  /\ Mild(s, [s EXCEPT !.ready = R], {})
         /\ [s EXCEPT !.ready = R] \in States
         /\ [s EXCEPT !.ready = R].ready = R
         /\ [s EXCEPT !.ready = R].alive = s.alive
BY DEF Mild, States

LEMMA MildSelf ==
  ASSUME NEW s \in States, NEW X
  PROVE  Mild(s, s, X)
BY DEF Mild

\* What is mild leaves a guarded reserve guarded.
LEMMA MildGuarded ==
  ASSUME NEW s, NEW u, NEW X, Mild(s, u, X), NEW Q, NEW r \in Rids \ X,
         Guarded(s, Q, r)
  PROVE  Guarded(u, Q, r)
BY DEF Mild, Guarded

-----------------------------------------------------------------------------
LEMMA EnforcedMild ==
  ASSUME NEW s \in States, NEW r \in Rids, NEW u \in Enforced(s, r)
  PROVE  Mild(s, u, {})
<1> DEFINE q == <<Cancel(r, "zero_slack")>>
           e == Plan(s, q)
<1>1. q \in Seq(Ops) /\ \A op \in Acts(q) : op[2][2] # "period"
  BY DEF Cancel, Ops, Timers, Kinds, Acts
<1> HIDE DEF q
<1>2. Mild(s, e, {}) /\ e \in States
  BY <1>1, PlanMild DEF Mild
<1> HIDE DEF e
<1>3. CASE u = e
  BY <1>2, <1>3
<1>4. CASE u = [e EXCEPT !.requests = PushStop(@, r)]
  <2>1. <<r, <<r, TRUE>> \notin e.requests>> \in Rids \X BOOLEAN
    <3>1. (<<r, TRUE>> \notin e.requests) \in BOOLEAN
      BY Zenon
    <3>2. \A b \in BOOLEAN : <<r, b>> \in Rids \X BOOLEAN
      OBVIOUS
    <3> QED BY <3>1, <3>2, Zenon
  <2>2. PushStop(e.requests, r) \in SUBSET (Rids \X BOOLEAN)
        /\ e.requests \subseteq PushStop(e.requests, r)
    <3>1. e.requests \in SUBSET (Rids \X BOOLEAN)
      BY <1>2 DEF States
    <3> QED BY <2>1, <3>1, Zenon DEF PushStop
  <2>3. Mild(e, u, {})
    BY <1>2, <1>4, <2>2 DEF Mild, States
  <2> QED BY <1>2, <2>3, MildTwice
<1> QED BY <1>3, <1>4 DEF Enforced, e, q

LEMMA ResumedMild ==
  ASSUME NEW s \in States, NEW u \in Resumed(s)
  PROVE  Mild(s, u, {})
<1>1. CASE s.ready = {}
  BY <1>1, MildSelf DEF Resumed
<1>2. CASE s.ready # {}
  <2> DEFINE h == Top(s.ready)
             q == <<Arm(h, "enforcement")>>
  <2>1. h \in Rids
    BY <1>2, TopIsMember DEF States
  <2>2. q \in Seq(Ops) /\ \A op \in Acts(q) : op[2][2] # "period"
    BY <2>1 DEF Arm, Ops, Timers, Kinds, Acts
  <2>3. u = Plan(s, q) \/ u \in Enforced(s, h)
    BY <1>2 DEF Resumed
  <2> HIDE DEF q, h
  <2> QED BY <2>1, <2>2, <2>3, PlanMild, EnforcedMild
<1> QED BY <1>1, <1>2

LEMMA StartedMild ==
  ASSUME NEW s \in States, NEW r \in Rids, NEW u \in Started(s, r)
  PROVE  Mild(s, u, {})
<1>1. CASE r \in s.ready
  BY <1>1, MildSelf DEF Started
<1>2. CASE r \notin s.ready
  <2> DEFINE h == Top(s.ready)
             e == [s EXCEPT !.ready = s.ready \cup {r}]
             q == IF s.ready = {} THEN <<>> ELSE <<Cancel(h, "enforcement")>>
  <2>1. u \in Resumed(Plan(e, q))
    BY <1>2 DEF Started
  <2>2. s.ready \cup {r} \in SUBSET Rids
    BY DEF States
  <2>3. s.ready # {} => h \in Rids
    BY TopIsMember DEF States
  <2>4. q \in Seq(Ops) /\ \A op \in Acts(q) : op[2][2] # "period"
    <3>1. CASE s.ready = {}
      BY <3>1 DEF Acts
    <3>2. CASE s.ready # {}
      <4> DEFINE p == <<Cancel(h, "enforcement")>>
      <4>1. h \in Rids /\ q = p
        BY <2>3, <3>2
      <4> HIDE DEF h, q
      <4>2. p \in Seq(Ops) /\ \A op \in Acts(p) : op[2][2] # "period"
        BY <4>1 DEF Cancel, Ops, Timers, Kinds, Acts
      <4> QED BY <4>1, <4>2
    <3> QED BY <3>1, <3>2
  <2> HIDE DEF q
  <2>5. Mild(s, e, {}) /\ e \in States
    BY <2>2, ReadyMild
  <2> HIDE DEF e
  <2>6. Mild(e, Plan(e, q), {}) /\ Plan(e, q) \in States
    BY <2>4, <2>5, PlanMild DEF Mild
  <2>7. Mild(Plan(e, q), u, {})
    BY <2>1, <2>6, ResumedMild
  <2> QED BY <2>5, <2>6, <2>7, MildTwice
<1> QED BY <1>1, <1>2

LEMMA StoppedMild ==
  ASSUME NEW s \in States, NEW r \in Rids, NEW u \in Stopped(s, r)
  PROVE  Mild(s, u, {})
<1> DEFINE e == [s EXCEPT !.ready = s.ready \ {r}]
           q == <<Cancel(r, "enforcement")>>
<1>1. u = e \/ u \in Resumed(Plan(e, q))
  BY DEF Stopped
<1>2. s.ready \ {r} \in SUBSET Rids
  BY DEF States
<1>3. Mild(s, e, {}) /\ e \in States
  BY <1>2, ReadyMild
<1>4. q \in Seq(Ops) /\ \A op \in Acts(q) : op[2][2] # "period"
  BY DEF Cancel, Ops, Timers, Kinds, Acts
<1> HIDE DEF e, q
<1>5. Mild(e, Plan(e, q), {}) /\ Plan(e, q) \in States
  BY <1>3, <1>4, PlanMild DEF Mild
<1>6. u \in Resumed(Plan(e, q)) => Mild(Plan(e, q), u, {})
  BY <1>5, ResumedMild
<1> QED BY <1>1, <1>3, <1>5, <1>6, MildTwice

LEMMA UnlinkedMild ==
  ASSUME NEW s \in States, NEW r \in Rids, NEW u \in Unlinked(s, r)
  PROVE  Mild(s, u, {})
<1> DEFINE e == [s EXCEPT !.ready = s.ready \ {r}]
<1>1. u = e \/ u \in Resumed(e)
  BY DEF Unlinked
<1>2. s.ready \ {r} \in SUBSET Rids
  BY DEF States
<1>3. Mild(s, e, {}) /\ e \in States
  BY <1>2, ReadyMild
<1> HIDE DEF e
<1> QED BY <1>1, <1>3, ResumedMild, MildTwice

LEMMA DepartedMild ==
  ASSUME NEW s \in States, NEW r \in Rids, NEW u \in Departed(s, r)
  PROVE  Mild(s, u, {})
<1> DEFINE q == <<Cancel(r, "zero_slack")>>
           w == Plan(s, q)
<1>1. q \in Seq(Ops) /\ \A op \in Acts(q) : op[2][2] # "period"
  BY DEF Cancel, Ops, Timers, Kinds, Acts
<1>2. PICK B \in SUBSET Rids, v \in Stopped(w, r) : u = [v EXCEPT !.blocked = B]
  BY DEF Departed
<1> HIDE DEF q
<1>3. Mild(s, w, {}) /\ w \in States
  BY <1>1, PlanMild DEF Mild
<1> HIDE DEF w
<1>4. Mild(w, v, {}) /\ v \in States
  BY <1>2, <1>3, StoppedMild DEF Mild
<1>5. Mild(v, u, {})
  BY <1>2, <1>4 DEF Mild, States
<1> QED BY <1>3, <1>4, <1>5, MildTwice

\* start_of_period arms the period timer of its reserve.
LEMMA ArrivedMild ==
  ASSUME NEW s \in States, NEW Q, NEW r \in Rids, s.plan = <<>>,
         NEW u \in Arrived(s, r)
  PROVE  Mild(s, u, {r}) /\ Guarded(u, Q, r)
<1> DEFINE k == <<Cancel(r, "enforcement"), Cancel(r, "zero_slack")>>
           q == <<Cancel(r, "zero_slack"), Arm(r, "zero_slack"), Arm(r, "period")>>
<1>1. PICK o \in {s} \cup Overrun(s, r) :
        u = Plan(o, q) \/ u \in Started(Plan(o, q), r)
  BY DEF Arrived
<1>2. k \in Seq(Ops) /\ \A op \in Acts(k) : op[2][2] # "period"
  <2>1. k \in Seq(Ops) /\ Acts(k) = {k[1], k[2]}
    BY DEF Cancel, Ops, Timers, Kinds, Acts
  <2> QED BY <2>1 DEF Cancel
<1>3. o = s \/ o \in Stopped(Plan(s, k), r)
  BY <1>1 DEF Overrun
<1>4. q \in Seq(Ops)
      /\ Acts(q) = {Cancel(r, "zero_slack"), Arm(r, "zero_slack"), Arm(r, "period")}
  <2>1. q \in Seq(Ops) /\ Acts(q) = {q[1], q[2], q[3]}
    BY DEF Cancel, Arm, Ops, Timers, Kinds, Acts
  <2> QED BY <2>1
<1> HIDE DEF k, q
<1>5. Mild(s, o, {}) /\ o \in States
  <2>1. Mild(s, Plan(s, k), {}) /\ Plan(s, k) \in States
    BY <1>2, PlanMild DEF Mild
  <2>2. Mild(s, o, {})
    BY <1>3, <2>1, StoppedMild, MildSelf, MildTwice
  <2> QED BY <2>2 DEF Mild
<1> DEFINE v == Plan(o, q)
<1>6. /\ v \in States /\ Acts(v.plan) = Acts(o.plan) \cup Acts(q)
      /\ v.attached = o.attached /\ v.alive = o.alive /\ v.requests = o.requests
  BY <1>4, <1>5, PlanActs
<1> HIDE DEF v
<1>7. \A x \in Rids : x # r => Cancel(x, "period") \notin Acts(q)
                            /\ Arm(x, "period") \notin Acts(q)
  BY <1>4 DEF Cancel, Arm
<1>8. Mild(o, v, {r})
  BY <1>5, <1>6, <1>7 DEF Mild
<1>9. Cancel(r, "period") \notin Acts(o.plan)
  <2>1. Acts(s.plan) = {}
    BY DEF Acts
  <2> QED BY <1>5, <2>1 DEF Mild
<1>10. Guarded(v, Q, r)
  <2>1. Cancel(r, "period") \notin Acts(q) /\ Arm(r, "period") \in Acts(q)
    BY <1>4 DEF Cancel, Arm
  <2> QED BY <1>6, <1>9, <2>1 DEF Guarded
<1>11. u = v \/ Mild(v, u, {})
  BY <1>1, <1>6, StartedMild DEF v
<1>12. Mild(s, u, {r})
  BY <1>5, <1>8, <1>11, MildMore, MildTwice
<1>13. Guarded(u, Q, r)
  BY <1>10, <1>11, MildGuarded
<1> QED BY <1>12, <1>13

\* attach_reserve arms the period timer of its reserve.
LEMMA AttachedMild ==
  ASSUME NEW s \in States, NEW Q, NEW r \in Rids, s.plan = <<>>,
         NEW u \in Attached(s, r)
  PROVE  Mild(s, u, {r}) /\ Guarded(u, Q, r)
<1> DEFINE e == [s EXCEPT !.attached = s.attached \cup {r},
                          !.alive = s.alive \cup {r}]
           q == <<Arm(r, "period"), Arm(r, "zero_slack")>>
           v == Plan(e, q)
<1>1. u \in Started(v, r)
  BY DEF Attached
<1>2. /\ e \in States /\ e.plan = <<>> /\ e.requests = s.requests
      /\ e.attached = s.attached \cup {r} /\ e.alive = s.alive \cup {r}
  BY DEF States
<1>3. q \in Seq(Ops) /\ Acts(q) = {Arm(r, "period"), Arm(r, "zero_slack")}
  <2>1. q \in Seq(Ops) /\ Acts(q) = {q[1], q[2]}
    BY DEF Arm, Ops, Timers, Kinds, Acts
  <2> QED BY <2>1
<1> HIDE DEF e, q
<1>4. /\ v \in States /\ Acts(v.plan) = Acts(q)
      /\ v.attached = e.attached /\ v.alive = e.alive /\ v.requests = e.requests
  <2>1. Acts(e.plan) = {}
    BY <1>2 DEF Acts
  <2> QED BY <1>2, <1>3, <2>1, PlanActs
<1> HIDE DEF v
<1>5. Mild(s, v, {r})
  <2>1. Acts(s.plan) = {}
    BY DEF Acts
  <2>2. \A x \in Rids : x # r => Cancel(x, "period") \notin Acts(q)
                              /\ Arm(x, "period") \notin Acts(q)
    BY <1>3 DEF Cancel, Arm
  <2> QED BY <1>2, <1>4, <2>1, <2>2 DEF Mild
<1>6. Guarded(v, Q, r)
  <2>1. Cancel(r, "period") \notin Acts(q) /\ Arm(r, "period") \in Acts(q)
    BY <1>3 DEF Cancel, Arm
  <2> QED BY <1>4, <2>1 DEF Guarded
<1>7. Mild(v, u, {})
  BY <1>1, <1>4, StartedMild
<1> QED BY <1>5, <1>6, <1>7, MildMore, MildTwice, MildGuarded

\* delete_reserve leaves the other reserves alone.
LEMMA DeletedMild ==
  ASSUME NEW s \in States, NEW Q, NEW r \in Rids, NEW u \in Deleted(s, r)
  PROVE  Mild(s, u, {r}) /\ Guarded(u, Q, r)
<1>1. PICK v \in (IF r \in s.alive THEN Stopped(s, r) ELSE Unlinked(s, r)) :
        u = Plan([v EXCEPT !.attached = v.attached \ {r}, !.alive = v.alive \ {r}],
                 <<Cancel(r, "enforcement"), Cancel(r, "period"),
                   Cancel(r, "zero_slack")>>)
  BY DEF Deleted
<1> DEFINE e == [v EXCEPT !.attached = v.attached \ {r}, !.alive = v.alive \ {r}]
           q == <<Cancel(r, "enforcement"), Cancel(r, "period"),
                  Cancel(r, "zero_slack")>>
<1>2. Mild(s, v, {}) /\ v \in States
  <2>1. Mild(s, v, {})
    BY <1>1, StoppedMild, UnlinkedMild
  <2> QED BY <2>1 DEF Mild
<1>3. /\ e \in States /\ e.plan = v.plan /\ e.requests = v.requests
      /\ e.attached = v.attached \ {r} /\ e.alive = v.alive \ {r}
  BY <1>2 DEF States
<1>4. q \in Seq(Ops) /\ \A op \in Acts(q) : op[2][1] = r
  <2>1. q \in Seq(Ops) /\ Acts(q) = {q[1], q[2], q[3]}
    BY DEF Cancel, Ops, Timers, Kinds, Acts
  <2> QED BY <2>1 DEF Cancel
<1>5. u = Plan(e, q)
  BY <1>1
<1> HIDE DEF e, q
<1>6. /\ u \in States /\ Acts(u.plan) = Acts(e.plan) \cup Acts(q)
      /\ u.attached = e.attached /\ u.alive = e.alive /\ u.requests = e.requests
  BY <1>3, <1>4, <1>5, PlanActs
<1>7. \A x \in Rids : x # r => Cancel(x, "period") \notin Acts(q)
                            /\ Arm(x, "period") \notin Acts(q)
  BY <1>4 DEF Cancel, Arm
<1>8. Mild(v, u, {r})
  BY <1>2, <1>3, <1>6, <1>7 DEF Mild
<1>9. Guarded(u, Q, r)
  BY <1>3, <1>6 DEF Guarded
<1> QED BY <1>2, <1>8, <1>9, MildMore, MildTwice

\* zs_enforcement only asks for reserves to be stopped.
LEMMA ZeroSlackMild ==
  ASSUME NEW s \in States, NEW r \in Rids, NEW u \in ZeroSlackEnforced(s, r)
  PROVE  Mild(s, u, {})
<1>1. PICK S \in SUBSET (s.ready \ {r}) :
        u = [s EXCEPT !.requests = s.requests \cup {<<x, TRUE>> : x \in S}]
  BY DEF ZeroSlackEnforced
<1>2. s.requests \cup {<<x, TRUE>> : x \in S} \in SUBSET (Rids \X BOOLEAN)
  <2>1. s.requests \in SUBSET (Rids \X BOOLEAN) /\ S \in SUBSET Rids
    BY <1>1 DEF States
  <2>2. ASSUME NEW y \in {<<x, TRUE>> : x \in S}
        PROVE  y \in Rids \X BOOLEAN
    <3>1. PICK x \in S : y = <<x, TRUE>>
      OBVIOUS
    <3> QED BY <2>1, <3>1
  <2> QED BY <2>1, <2>2
<1> DEFINE more == s.requests \cup {<<x, TRUE>> : x \in S}
<1>3. s.requests \subseteq more
  OBVIOUS
<1> HIDE DEF more
<1>4. u = [s EXCEPT !.requests = more] /\ more \in SUBSET (Rids \X BOOLEAN)
  BY <1>1, <1>2 DEF more
<1> QED BY <1>3, <1>4 DEF Mild, States

-----------------------------------------------------------------------------
\* The reserves and the plan, as a state of an outcome.
LEMMA NowMeans ==
  ASSUME LockInv
  PROVE  /\ Now \in States /\ Now.attached = attached /\ Now.alive = alive
         /\ Now.requests = requests /\ Now.plan = plan
         /\ plan = <<>> => State = Now /\ ~Stuck /\ State \in States
         /\ State.plan = <<>>
<1>1. /\ Now \in States /\ Now.attached = attached /\ Now.alive = alive
      /\ Now.requests = requests /\ Now.plan = plan /\ State.plan = <<>>
  BY DEF LockInv, TypeOK, Now, State, States
<1>2. plan = <<>> => State = Now
  BY DEF Now, State
<1>3. plan = <<>> => ~Stuck
  BY DEF Stuck, Acts
<1> QED BY <1>1, <1>2, <1>3

\* A step that takes a guarded outcome.
LEMMA OutcomeGuarded ==
  ASSUME NEW S, Outcome(S), NEW Q, Q \subseteq Pending', NEW r \in Rids,
         \A u \in S : Guarded(u, Q, r)
  PROVE  Guarded(Now, Pending, r)'
<1>1. PICK u \in S : /\ attached' = u.attached /\ alive' = u.alive
                     /\ ready' = u.ready /\ requests' = u.requests
                     /\ blocked' = u.blocked /\ plan' = u.plan
  BY DEF Outcome
<1>2. Guarded(u, Q, r)
  BY <1>1
<1>3. /\ Now'.attached = u.attached /\ Now'.alive = u.alive
      /\ Now'.requests = u.requests /\ Now'.plan = u.plan
  BY <1>1 DEF Now, State
<1>4. Guarded(Now', Pending', r)
  BY <1>2, <1>3 DEF Guarded
<1> QED BY <1>4 DEF Guarded

\* A step that leaves r and the plan alone, and its period timer in use.
LEMMA StaysGuarded ==
  ASSUME NEW r \in Rids, Guarded(Now, Pending, r),
         UNCHANGED <<attached, plan>>, alive' \subseteq alive,
         <<r, FALSE>> \in requests => <<r, FALSE>> \in requests',
         <<r, "period">> \in Pending => <<r, "period">> \in Pending'
  PROVE  Guarded(Now, Pending, r)'
<1>1. /\ Now.attached = attached /\ Now.alive = alive
      /\ Now.requests = requests /\ Now.plan = plan
      /\ Now'.attached = attached' /\ Now'.alive = alive'
      /\ Now'.requests = requests' /\ Now'.plan = plan'
  BY DEF Now, State
<1>2. Guarded(Now', Pending', r)
  BY <1>1 DEF Guarded
<1> QED BY <1>2 DEF Guarded

\* A holder that waits for itself waits on.
LEMMA StuckStays ==
  ASSUME LockInv, Stuck, [Next]_vars
  PROVE  Stuck'
<1> DEFINE h == zsrmlock
<1>1. /\ plan # <<>> /\ zsrmlock # Nobody /\ h \in CPUs /\ pc[h] = "section"
      /\ plan \in Seq(Ops)
  BY DEF Stuck, LockInv, TypeOK, Acts
<1>2. ASSUME zsrmlock' = zsrmlock, plan' = plan, firing'[h] = firing[h]
      PROVE  Stuck'
  BY <1>2 DEF Stuck
<1>3. ASSUME NEW c \in CPUs, NEW who, Spin(c, who)
      PROVE  Stuck'
  BY <1>2, <1>3 DEF Spin
<1>4. ASSUME NEW c \in CPUs, NEW t, Expire(c, t)
      PROVE  Stuck'
  <2>1. firing'[h] = firing[h]
    BY <1>1, <1>4 DEF Expire, LockInv, TypeOK
  <2> QED BY <1>2, <1>4, <2>1 DEF Expire
<1>5. ASSUME NEW c \in CPUs PROVE ~Enters(c)
  BY <1>1 DEF Enters, SystemCall, SchedulerEnters, HandlerEnters, Acquire
<1>6. ASSUME NEW c \in CPUs, GiveUp(c)
      PROVE  Stuck'
  <2>1. firing'[h] = firing[h]
    BY <1>1, <1>6 DEF GiveUp, Return, LockInv, TypeOK
  <2> QED BY <1>2, <1>6, <2>1 DEF GiveUp
<1>7. ASSUME NEW c \in CPUs
      PROVE  /\ ~SchedulerPop(c) /\ ~ReleaseBlocked(c) /\ ~Release(c)
             /\ ~StartOfPeriod(c) /\ ~BudgetEnforcement(c) /\ ~ZsEnforcement(c)
  BY <1>1 DEF SchedulerPop, ReleaseBlocked, Release, StartOfPeriod,
              BudgetEnforcement, ZsEnforcement, LockInv
<1>8. ASSUME NEW c \in CPUs, CancelTimer(c) \/ ArmTimer(c)
      PROVE  Stuck'
  <2>1. plan' = Tail(plan) /\ UNCHANGED <<firing, zsrmlock>>
    BY <1>8 DEF CancelTimer, ArmTimer
  <2>2. PICK i \in 1 .. Len(plan) : plan[i] = <<"cancel", firing[h]>>
    BY DEF Stuck, Acts
  <2>3. /\ Head(plan) = plan[1] /\ Len(plan) \in Nat
        /\ Len(Tail(plan)) = Len(plan) - 1
        /\ \A j \in 1 .. Len(plan) - 1 : Tail(plan)[j] = plan[j + 1]
    BY <1>1, TailOfPlan
  <2>4. i # 1
    BY <1>1, <1>8, <2>2, <2>3 DEF CancelTimer, ArmTimer, Running
  <2>5. i - 1 \in 1 .. Len(plan) - 1 /\ (i - 1) + 1 = i
    BY <2>2, <2>3, <2>4
  <2>6. <<"cancel", firing[h]>> \in Acts(Tail(plan))
    BY <2>2, <2>3, <2>5 DEF Acts
  <2> QED BY <1>1, <2>1, <2>6 DEF Stuck
<1>9. ASSUME NEW r, Exit(r)
      PROVE  Stuck'
  BY <1>2, <1>9 DEF Exit
<1>10. CASE UNCHANGED vars
  BY <1>2, <1>10 DEF vars
<1> QED BY <1>3, <1>4, <1>5, <1>6, <1>7, <1>8, <1>9, <1>10, CPUsAssumption
       DEF Next, SchedulerWakes, Call, Section

-----------------------------------------------------------------------------
Lives == \A r \in Rids : Guarded(Now, Pending, r)

\* A timer stays pending when a processor that handled none moves on.
LEMMA PendingStays ==
  ASSUME queued \subseteq queued', NEW c \in CPUs, firing[c] \notin Timers,
         \A d \in CPUs \ {c} : firing'[d] = firing[d] /\ pc'[d] = pc[d]
  PROVE  Pending \subseteq Pending'
BY DEF Pending

\* One processor is done with its timer, the others go on.
LEMMA PendingBut ==
  ASSUME queued \subseteq queued', NEW c \in CPUs,
         \A d \in CPUs \ {c} : firing'[d] = firing[d] /\ pc'[d] = pc[d]
  PROVE  Pending \ {firing[c]} \subseteq Pending'
BY DEF Pending

LEMMA ExitLives ==
  ASSUME LockInv, Lives, NEW r \in Rids, Exit(r)
  PROVE  Lives'
<1>1. UNCHANGED <<attached, plan, requests>> /\ alive' \subseteq alive
      /\ Pending' = Pending
  BY DEF Exit, Pending
<1> QED BY <1>1, StaysGuarded DEF Lives

LEMMA SpinLives ==
  ASSUME LockInv, Lives, NEW c \in CPUs, NEW who, Spin(c, who)
  PROVE  Lives'
<1>1. UNCHANGED <<attached, alive, plan, requests, queued, firing>>
      /\ pc[c] = "idle" /\ pc' = [pc EXCEPT ![c] = "spin"]
  BY DEF Spin, Become, reserves
<1>2. Pending \subseteq Pending'
  BY <1>1 DEF Pending, LockInv, TypeOK
<1> QED BY <1>1, <1>2, StaysGuarded DEF Lives

LEMMA ExpireLives ==
  ASSUME LockInv, Lives, NEW c \in CPUs, NEW t \in Timers, Expire(c, t)
  PROVE  Lives'
<1>1. /\ pc' = [pc EXCEPT ![c] = "spin"]
      /\ firing' = [firing EXCEPT ![c] = t] /\ queued' = queued \ {t}
      /\ UNCHANGED <<attached, alive, ready, requests, zsrmlock, plan>>
      /\ pc[c] = "idle"
  BY DEF Expire, Become, reserves
<1>2. pc'[c] = "spin" /\ firing'[c] = t
  BY <1>1 DEF LockInv, TypeOK
<1>3. \A d \in CPUs : pc[d] # "idle" => pc'[d] = pc[d] /\ firing'[d] = firing[d]
  BY <1>1 DEF LockInv, TypeOK
<1>4. t \in Pending'
  BY <1>2 DEF Pending
<1>5. Pending \subseteq Pending'
  BY <1>1, <1>3, <1>4 DEF Pending
<1> QED BY <1>1, <1>5, StaysGuarded DEF Lives

\* What a processor that acquires the lock leaves alone.
LEMMA AcquirePending ==
  ASSUME LockInv, NEW c \in CPUs, NEW who, Acquire(c, who),
         NEW place, Become(c, place)
  PROVE  /\ plan = <<>> /\ pc[c] = "spin" /\ UNCHANGED <<queued, firing>>
         /\ Pending \ {firing[c]} \subseteq Pending'
         /\ who # "timer" => firing[c] \notin Timers /\ Pending \subseteq Pending'
         /\ place = "called" => Pending \subseteq Pending'
<1>1. /\ plan = <<>> /\ pc[c] = "spin" /\ UNCHANGED <<queued, firing>>
      /\ pc' = [pc EXCEPT ![c] = place]
  BY DEF Acquire, Become, LockInv
<1>2. \A d \in CPUs \ {c} : firing'[d] = firing[d] /\ pc'[d] = pc[d]
  BY <1>1 DEF LockInv, TypeOK
<1>3. Pending \ {firing[c]} \subseteq Pending'
  BY <1>1, <1>2, PendingBut
<1>4. who # "timer" => firing[c] \notin Timers
  BY DEF Acquire, LockInv, Timers, NoTimer
<1>5. place = "called" => Pending \subseteq Pending'
  BY <1>1, <1>2 DEF Pending, LockInv, TypeOK
<1>6. firing[c] \notin Timers => Pending \subseteq Pending'
  BY <1>1, <1>2, PendingStays
<1> QED BY <1>1, <1>3, <1>4, <1>5, <1>6

\* An outcome that is mild but for x, which it leaves guarded.
LEMMA MildBut ==
  ASSUME NEW s, NEW u, NEW x, Mild(s, u, {x}), NEW Q, Guarded(u, Q, x),
         \A r \in Rids : r # x => Guarded(s, Q, r)
  PROVE  \A r \in Rids : Guarded(u, Q, r)
<1> SUFFICES ASSUME NEW r \in Rids PROVE Guarded(u, Q, r)
  OBVIOUS
<1>1. CASE r # x
  <2>1. r \in Rids \ {x} /\ Guarded(s, Q, r)
    BY <1>1
  <2> QED BY <2>1, MildGuarded
<1> QED BY <1>1

LEMMA SystemCallLives ==
  ASSUME LockInv, Lives, NEW c \in CPUs, SystemCall(c)
  PROVE  Lives'
<1>1. Acquire(c, "call") /\ Become(c, "section")
  BY DEF SystemCall
<1>2. plan = <<>> /\ Pending \subseteq Pending'
  BY <1>1, AcquirePending
<1>3. State \in States /\ State.plan = <<>> /\ attached \subseteq Rids
      /\ alive \subseteq Rids
      /\ \A r \in Rids : Guarded(State, Pending, r)
  BY <1>2, NowMeans DEF Lives, LockInv, TypeOK
<1>4. PICK S : Outcome(S) /\ \A u \in S : \A r \in Rids : Guarded(u, Pending, r)
  <2>1. ASSUME NEW x \in Rids, NEW u, Mild(State, u, {x}) /\ Guarded(u, Pending, x)
        PROVE  \A r \in Rids : Guarded(u, Pending, r)
    BY <1>3, <2>1, MildBut
  <2>2. CASE \E x \in Rids \ attached : Outcome(Attached(State, x))
    BY <1>3, <2>1, <2>2, AttachedMild
  <2>3. CASE \E x \in attached : Outcome(Deleted(State, x))
    BY <1>3, <2>1, <2>3, DeletedMild
  <2>4. CASE \E x \in alive : Outcome(Departed(State, x))
    BY <1>3, <2>4, DepartedMild, MildGuarded
  <2> QED BY <2>2, <2>3, <2>4 DEF SystemCall
<1> QED BY <1>2, <1>4, OutcomeGuarded DEF Lives

LEMMA SchedulerEntersLives ==
  ASSUME LockInv, Lives, NEW c \in CPUs, SchedulerEnters(c)
  PROVE  Lives'
<1>1. Acquire(c, "scheduler") /\ Become(c, "section")
      /\ UNCHANGED <<attached, alive, requests, plan>>
  BY DEF SchedulerEnters, reserves
<1>2. Pending \subseteq Pending'
  BY <1>1, AcquirePending
<1> QED BY <1>1, <1>2, StaysGuarded DEF Lives

\* A handler that finds no task dooms the reserve instead.
LEMMA HandlerEntersLives ==
  ASSUME LockInv, Lives, NEW c \in CPUs, HandlerEnters(c)
  PROVE  Lives'
<1>1. Acquire(c, "timer") /\ UNCHANGED <<attached, alive, plan>>
  BY DEF HandlerEnters
<1>2. firing[c][1] \in Rids
  <2>1. firing[c] \in Timers
    BY <1>1 DEF Acquire, LockInv, TypeOK
  <2> QED BY <2>1 DEF Timers
<1> SUFFICES ASSUME NEW r \in Rids, r = firing[c][1] PROVE Lives'
  BY <1>2
<1>3. \A x : x # r => <<x, "period">> # firing[c]
  OBVIOUS
<1>4. CASE Become(c, "called") /\ UNCHANGED requests
  BY <1>1, <1>4, AcquirePending, StaysGuarded DEF Lives
<1>5. CASE /\ r \in attached \ alive /\ Become(c, "section")
           /\ requests' = Doom(requests, r)
  <2>1. Pending \ {firing[c]} \subseteq Pending'
    BY <1>1, <1>5, AcquirePending
  <2>2. <<r, FALSE>> \in requests'
        /\ \A x \in Rids : <<x, FALSE>> \in requests => <<x, FALSE>> \in requests'
    BY <1>5 DEF Doom
  <2>3. ASSUME NEW x \in Rids, x # r
        PROVE  Guarded(Now, Pending, x)'
    BY <1>1, <1>3, <2>1, <2>2, <2>3, StaysGuarded DEF Lives
  <2>4. Guarded(Now, Pending, r)'
    <3>1. plan = <<>> /\ UNCHANGED <<attached, alive, plan>>
      BY <1>1, <1>5, AcquirePending
    <3>2. Now'.plan = <<>> /\ Now'.alive = alive /\ Now'.requests = requests'
      BY <3>1 DEF Now, State
    <3>3. Acts(<<>>) = {}
      BY DEF Acts
    <3>4. Guarded(Now', Pending', r)
      BY <1>5, <2>2, <3>2, <3>3 DEF Guarded
    <3> QED BY <3>4 DEF Guarded
  <2> QED BY <2>3, <2>4 DEF Lives
<1>6. CASE r \notin attached /\ Become(c, "section") /\ UNCHANGED requests
  <2>1. Pending \ {firing[c]} \subseteq Pending'
    BY <1>1, <1>6, AcquirePending
  <2>2. ASSUME NEW x \in Rids, x # r
        PROVE  Guarded(Now, Pending, x)'
    BY <1>1, <1>3, <1>6, <2>1, <2>2, StaysGuarded DEF Lives
  <2>3. Guarded(Now, Pending, r)'
    <3>1. Now'.attached = attached
      BY <1>1 DEF Now, State
    <3>2. Guarded(Now', Pending', r)
      BY <1>6, <3>1 DEF Guarded
    <3> QED BY <3>2 DEF Guarded
  <2> QED BY <2>2, <2>3 DEF Lives
<1> QED BY <1>4, <1>5, <1>6 DEF HandlerEnters

\* A handler that was called arms the period timer, or was not its handler.
LEMMA CalledLives ==
  ASSUME LockInv, Lives, NEW c \in CPUs,
         StartOfPeriod(c) \/ BudgetEnforcement(c) \/ ZsEnforcement(c)
  PROVE  Lives'
<1> DEFINE x == firing[c][1]
           Q == Pending \ {firing[c]}
<1>1. /\ pc[c] = "called" /\ pc' = [pc EXCEPT ![c] = "section"]
      /\ UNCHANGED <<queued, firing>> /\ plan = <<>>
  BY DEF StartOfPeriod, BudgetEnforcement, ZsEnforcement, Become, LockInv
<1>2. firing[c] \in Timers /\ x \in Rids
  BY <1>1, FiringOfReserve
<1>3. Q \subseteq Pending'
  <2>1. \A d \in CPUs \ {c} : firing'[d] = firing[d] /\ pc'[d] = pc[d]
    BY <1>1 DEF LockInv, TypeOK
  <2> QED BY <1>1, <2>1, PendingBut
<1>4. State \in States /\ State.plan = <<>>
      /\ \A r \in Rids : Guarded(State, Pending, r)
  BY <1>1, NowMeans DEF Lives
<1>5. \A r \in Rids : <<r, "period">> # firing[c] => Guarded(State, Q, r)
  BY <1>4 DEF Guarded
<1>6. \A r : r # x => <<r, "period">> # firing[c]
  OBVIOUS
<1> HIDE DEF Q
<1>7. PICK S : Outcome(S) /\ \A u \in S : \A r \in Rids : Guarded(u, Q, r)
  <2>1. CASE StartOfPeriod(c)
    <3> HIDE DEF x
    <3>1. Outcome(IF x \in alive THEN Arrived(State, x) ELSE Deleted(State, x))
      BY <2>1 DEF StartOfPeriod, x
    <3>2. ASSUME NEW u, u \in (IF x \in alive THEN Arrived(State, x)
                               ELSE Deleted(State, x))
          PROVE  Mild(State, u, {x}) /\ Guarded(u, Q, x)
      BY <1>2, <1>4, <3>2, ArrivedMild, DeletedMild
    <3>3. ASSUME NEW u, Mild(State, u, {x}) /\ Guarded(u, Q, x)
          PROVE  \A r \in Rids : Guarded(u, Q, r)
      BY <1>5, <1>6, <3>3, MildBut
    <3> QED BY <3>1, <3>2, <3>3
  <2>2. CASE firing[c][2] # "period"
    <3>1. \A r \in Rids : Guarded(State, Q, r)
      <4>1. \A r : <<r, "period">>[2] = "period"
        OBVIOUS
      <4>2. \A r : <<r, "period">> # firing[c]
        BY <2>2, <4>1
      <4> QED BY <1>5, <4>2
    <3>2. \/ Outcome(Enforced(State, x)) \/ Outcome(ZeroSlackEnforced(State, x))
      BY <2>2 DEF StartOfPeriod, BudgetEnforcement, ZsEnforcement
    <3> HIDE DEF x
    <3> QED BY <1>2, <1>4, <3>1, <3>2, EnforcedMild, ZeroSlackMild, MildGuarded
  <2> QED BY <2>1, <2>2 DEF BudgetEnforcement, ZsEnforcement
<1> QED BY <1>3, <1>7, OutcomeGuarded DEF Lives

\* What is left of a plan after its first operation.
LEMMA TailActs ==
  ASSUME NEW p \in Seq(Ops), p # <<>>
  PROVE  Acts(Tail(p)) \subseteq Acts(p) /\ Acts(p) \subseteq Acts(Tail(p)) \cup {p[1]}
<1> DEFINE q == Tail(p)
<1>1. /\ Len(p) \in Nat /\ Len(p) >= 1 /\ Len(q) = Len(p) - 1
      /\ \A i \in 1 .. Len(p) - 1 : q[i] = p[i + 1]
  BY TailOfPlan
<1> HIDE DEF q
<1>2. ASSUME NEW i \in 1 .. Len(q)
      PROVE  q[i] \in Acts(p)
  <2>1. i + 1 \in 1 .. Len(p) /\ q[i] = p[i + 1]
    BY <1>1
  <2> QED BY <2>1 DEF Acts
<1>3. ASSUME NEW i \in 1 .. Len(p), i # 1
      PROVE  p[i] \in Acts(q)
  <2>1. i - 1 \in 1 .. Len(q) /\ i - 1 \in 1 .. Len(p) - 1 /\ (i - 1) + 1 = i
    BY <1>1, <1>3
  <2>2. q[i - 1] = p[i]
    BY <1>1, <2>1
  <2> QED BY <2>1, <2>2 DEF Acts
<1>4. Acts(q) \subseteq Acts(p)
  BY <1>2 DEF Acts
<1>5. Acts(p) \subseteq Acts(q) \cup {p[1]}
  BY <1>3 DEF Acts
<1> QED BY <1>4, <1>5 DEF q

\* An operation on a timer does to it what the plan says.
LEMMA TimerLives ==
  ASSUME LockInv, Lives, NEW c \in CPUs, CancelTimer(c) \/ ArmTimer(c)
  PROVE  Lives'
<1>1. /\ plan # <<>> /\ plan' = Tail(plan) /\ plan \in Seq(Ops)
      /\ UNCHANGED <<attached, alive, requests, pc, firing>>
  BY DEF CancelTimer, ArmTimer, reserves, LockInv, TypeOK
<1>2. Head(plan) = plan[1] /\ plan[1] \in Ops /\ plan[1] \in Acts(plan)
  <2>1. Head(plan) = plan[1] /\ plan[1] \in Ops /\ 1 \in 1 .. Len(plan)
    BY <1>1, TailOfPlan
  <2> QED BY <2>1 DEF Acts
<1>3. PICK o \in {"cancel", "arm"}, t \in Timers : plan[1] = <<o, t>>
  BY <1>2 DEF Ops
<1>4. /\ Acts(Tail(plan)) \subseteq Acts(plan)
      /\ Acts(plan) \subseteq Acts(Tail(plan)) \cup {plan[1]}
  BY <1>1, TailActs
<1>5. \/ o = "cancel" /\ queued' = queued \ {t}
      \/ o = "arm" /\ queued' = queued \cup {t}
  <2>1. Head(plan)[1] = o /\ Head(plan)[2] = t
    BY <1>2, <1>3
  <2>2. CancelTimer(c) => Head(plan)[1] = "cancel" /\ queued' = queued \ {Head(plan)[2]}
    BY DEF CancelTimer
  <2>3. ArmTimer(c) => Head(plan)[1] = "arm" /\ queued' = queued \cup {Head(plan)[2]}
    BY DEF ArmTimer
  <2> QED BY <2>1, <2>2, <2>3
<1>6. ASSUME NEW r \in Rids, r \in attached
      PROVE  /\ Cancel(r, "period") \notin Acts(plan')
             /\ \/ r \notin alive /\ <<r, FALSE>> \in requests
                \/ <<r, "period">> \in Pending'
                \/ Arm(r, "period") \in Acts(plan')
  <2>1. /\ Cancel(r, "period") \notin Acts(plan)
        /\ \/ r \notin alive /\ <<r, FALSE>> \in requests
           \/ <<r, "period">> \in Pending
           \/ Arm(r, "period") \in Acts(plan)
    BY <1>6, NowMeans DEF Lives, Guarded
  <2>2. CASE o = "cancel"
    <3>1. t # <<r, "period">> /\ plan[1] # Arm(r, "period")
      BY <1>2, <1>3, <2>1, <2>2 DEF Cancel, Arm
    <3>2. Pending \ {t} \subseteq Pending'
      BY <1>1, <1>5, <2>2 DEF Pending
    <3> QED BY <1>1, <1>4, <2>1, <3>1, <3>2
  <2>3. CASE o = "arm"
    <3>1. queued' = queued \cup {t}
      BY <1>5, <2>3
    <3>2. Pending \cup {t} \subseteq Pending'
      BY <1>1, <3>1 DEF Pending
    <3>3. plan[1] = Arm(r, "period") => t = <<r, "period">>
      BY <1>3 DEF Arm
    <3> QED BY <1>1, <1>4, <2>1, <3>2, <3>3
  <2> QED BY <1>5, <2>2, <2>3
<1>7. /\ Now'.attached = attached /\ Now'.alive = alive
      /\ Now'.requests = requests /\ Now'.plan = plan'
  BY <1>1 DEF Now, State
<1>8. \A r \in Rids : Guarded(Now', Pending', r)
  BY <1>6, <1>7 DEF Guarded
<1> QED BY <1>8 DEF Lives, Guarded

LEMMA ReleaseLives ==
  ASSUME LockInv, Lives, NEW c \in CPUs, Release(c)
  PROVE  Lives'
<1>1. /\ UNCHANGED <<attached, alive, requests, queued, plan>> /\ pc[c] = "section"
      /\ pc' = [pc EXCEPT ![c] = "idle"] /\ firing' = [firing EXCEPT ![c] = NoTimer]
  BY DEF Release, Return, Become, reserves
<1>2. \A d \in CPUs : d # c => firing'[d] = firing[d] /\ pc'[d] = pc[d]
  BY <1>1 DEF LockInv, TypeOK
<1>3. Pending \subseteq Pending'
  BY <1>1, <1>2 DEF Pending
<1> QED BY <1>1, <1>3, StaysGuarded DEF Lives

\* With two processors the holder waits for the handler that gives up, which
\* it has doomed, or for itself.
LEMMA GiveUpLives ==
  ASSUME TwoCPUs, LockInv, ~Stuck, Lives, NEW c \in CPUs, GiveUp(c)
  PROVE  Lives'
<1>1. /\ UNCHANGED <<attached, alive, requests, queued, plan>> /\ pc[c] = "spin"
      /\ pc' = [pc EXCEPT ![c] = "idle"] /\ firing' = [firing EXCEPT ![c] = NoTimer]
      /\ zsrmlock # Nobody /\ Waits
  BY DEF GiveUp, Return, Become, reserves
<1>2. Pending \ {firing[c]} \subseteq Pending'
  <2>1. \A d \in CPUs \ {c} : firing'[d] = firing[d] /\ pc'[d] = pc[d]
    BY <1>1 DEF LockInv, TypeOK
  <2> QED BY <1>1, <2>1, PendingBut
<1>3. PICK e \in CPUs : plan # <<>> /\ plan[1] = <<"cancel", firing[e]>>
                        /\ plan[1] \in Acts(plan)
  <2>1. plan \in Seq(Ops) /\ plan # <<>>
    BY <1>1 DEF Waits, LockInv, TypeOK
  <2>2. Head(plan) = plan[1] /\ plan[1] \in Ops /\ 1 \in 1 .. Len(plan)
    BY <2>1, TailOfPlan
  <2>3. plan[1] = <<plan[1][1], plan[1][2]>>
    BY <2>2 DEF Ops
  <2> QED BY <1>1, <2>1, <2>2, <2>3 DEF Waits, Running, Acts
<1>4. zsrmlock \in CPUs /\ zsrmlock # c /\ zsrmlock # e
  <2>1. zsrmlock \in CPUs /\ pc[zsrmlock] # "spin"
    BY <1>1 DEF LockInv, TypeOK
  <2> QED BY <1>1, <1>3, <2>1 DEF Stuck
<1>5. <<"cancel", firing[c]>> \in Acts(plan)
  BY <1>3, <1>4 DEF TwoCPUs
<1>6. ASSUME NEW r \in Rids
      PROVE  Guarded(Now, Pending, r)'
  <2>1. CASE <<r, "period">> = firing[c]
    <3>1. r \notin attached
      BY <1>5, <2>1, NowMeans DEF Lives, Guarded, Cancel
    <3>2. Now'.attached = attached
      BY <1>1 DEF Now, State
    <3>3. Guarded(Now', Pending', r)
      BY <3>1, <3>2 DEF Guarded
    <3> QED BY <3>3 DEF Guarded
  <2>2. CASE <<r, "period">> # firing[c]
    BY <1>1, <1>2, <2>2, StaysGuarded DEF Lives
  <2> QED BY <2>1, <2>2
<1> QED BY <1>6 DEF Lives

\* scheduler_task drops a request for a deletion only when it deletes, or
\* when the reserve has a task again.
LEMMA SchedulerPopLives ==
  ASSUME LockInv, Lives, NEW c \in CPUs, SchedulerPop(c)
  PROVE  Lives'
<1>1. plan = <<>> /\ UNCHANGED <<queued, pc, firing>>
  BY DEF SchedulerPop
<1>2. Pending' = Pending
  BY <1>1 DEF Pending
<1>3. State \in States /\ \A r \in Rids : Guarded(State, Pending, r)
  BY <1>1, NowMeans DEF Lives
<1> DEFINE s(q) == [State EXCEPT !.requests = @ \ {q}]
<1>4. PICK q \in requests :
        \/ q[2] /\ Outcome({s(q)})
        \/ q[1] \notin alive /\ Outcome(Deleted(s(q), q[1]))
        \/ q[1] \in alive /\ q[2] /\ Outcome(Stopped(s(q), q[1]))
        \/ q[1] \in alive /\ ~q[2] /\ Outcome(Started(s(q), q[1]))
  BY DEF SchedulerPop
<1>5. q[1] \in Rids /\ q[2] \in BOOLEAN
  BY DEF LockInv, TypeOK
<1>6. /\ s(q) \in States /\ s(q).attached = State.attached
      /\ s(q).alive = alive /\ s(q).plan = State.plan
      /\ s(q).requests = State.requests \ {q} /\ State.alive = alive
  <2>1. State.alive = alive
    BY DEF State
  <2> QED BY <1>3, <2>1 DEF States
<1> HIDE DEF s
<1>7. \A r \in Rids : r # q[1] => Guarded(s(q), Pending, r)
  <2> SUFFICES ASSUME NEW r \in Rids, r # q[1] PROVE Guarded(s(q), Pending, r)
    OBVIOUS
  <2>1. <<r, FALSE>> # q
    <3>1. <<r, FALSE>>[1] = r
      OBVIOUS
    <3> QED BY <3>1
  <2> QED BY <1>3, <1>6, <2>1 DEF Guarded
<1>8. ASSUME q[1] \in alive \/ q[2]
      PROVE  \A r \in Rids : Guarded(s(q), Pending, r)
  <2> SUFFICES ASSUME NEW r \in Rids, r = q[1] PROVE Guarded(s(q), Pending, r)
    BY <1>7
  <2>1. r \in alive \/ <<r, FALSE>> # q
    <3>1. <<r, FALSE>>[2] = FALSE
      OBVIOUS
    <3> QED BY <1>8, <3>1
  <2> QED BY <1>3, <1>6, <2>1 DEF Guarded
<1>9. PICK S : Outcome(S) /\ \A u \in S : \A r \in Rids : Guarded(u, Pending, r)
  <2>1. CASE q[2] /\ Outcome({s(q)})
    BY <1>8, <2>1
  <2>2. CASE Outcome(Deleted(s(q), q[1]))
    <3>1. ASSUME NEW u \in Deleted(s(q), q[1])
          PROVE  \A r \in Rids : Guarded(u, Pending, r)
      <4>1. Mild(s(q), u, {q[1]}) /\ Guarded(u, Pending, q[1])
        BY <1>5, <1>6, DeletedMild
      <4> QED BY <1>7, <4>1, MildBut
    <3> QED BY <2>2, <3>1
  <2>3. CASE q[1] \in alive /\ q[2] /\ Outcome(Stopped(s(q), q[1]))
    BY <1>5, <1>6, <1>8, <2>3, StoppedMild, MildGuarded
  <2>4. CASE q[1] \in alive /\ ~q[2] /\ Outcome(Started(s(q), q[1]))
    BY <1>5, <1>6, <1>8, <2>4, StartedMild, MildGuarded
  <2> QED BY <1>4, <2>1, <2>2, <2>3, <2>4
<1> QED BY <1>2, <1>9, OutcomeGuarded DEF Lives

LEMMA ReleaseBlockedLives ==
  ASSUME LockInv, Lives, NEW c \in CPUs, ReleaseBlocked(c)
  PROVE  Lives'
<1>1. plan = <<>> /\ UNCHANGED <<queued, pc, firing>>
  BY DEF ReleaseBlocked
<1>2. Pending' = Pending
  BY <1>1 DEF Pending
<1>3. State \in States /\ \A r \in Rids : Guarded(State, Pending, r)
  BY <1>1, NowMeans DEF Lives
<1>4. PICK x \in blocked :
        Outcome(Released([State EXCEPT !.blocked = @ \ {x}], x))
  BY DEF ReleaseBlocked
<1> DEFINE s == [State EXCEPT !.blocked = @ \ {x}]
<1>5. Mild(State, s, {}) /\ s \in States /\ x \in Rids
  BY <1>3 DEF Mild, States, LockInv, TypeOK
<1> HIDE DEF s
<1>6. ASSUME NEW v, NEW u, Mild(v, u, {}),
             \A r \in Rids : Guarded(v, Pending, r)
      PROVE  \A r \in Rids : Guarded(u, Pending, r)
  <2> SUFFICES ASSUME NEW r \in Rids PROVE Guarded(u, Pending, r)
    OBVIOUS
  <2>1. r \in Rids \ {}
    OBVIOUS
  <2> QED BY <1>6, <2>1, MildGuarded
<1>7. \A r \in Rids : Guarded(s, Pending, r)
  BY <1>3, <1>5, <1>6
<1>8. ASSUME NEW u \in Released(s, x)
      PROVE  \A r \in Rids : Guarded(u, Pending, r)
  <2>1. CASE u \in Started(s, x)
    <3>1. Mild(s, u, {})
      BY <1>5, <2>1, StartedMild
    <3> QED BY <1>6, <1>7, <3>1
  <2>2. CASE u \in Deleted(s, x)
    <3>1. Mild(s, u, {x}) /\ Guarded(u, Pending, x)
      BY <1>5, <2>2, DeletedMild
    <3> QED BY <1>7, <3>1, MildBut
  <2> QED BY <1>8, <2>1, <2>2 DEF Released
<1>9. Outcome(Released(s, x))
  BY <1>4 DEF s
<1> QED BY <1>2, <1>8, <1>9, OutcomeGuarded DEF Lives

-----------------------------------------------------------------------------
LEMMA LivesInvInductive ==
  ASSUME TwoCPUs
  PROVE  LivesInv /\ [Next]_vars => LivesInv'
<1> SUFFICES ASSUME LivesInv, [Next]_vars PROVE LivesInv'
  OBVIOUS
<1>1. LockInv /\ LockInv'
  BY LockInvInductive DEF LivesInv
<1>2. CASE Stuck
  BY <1>1, <1>2, StuckStays DEF LivesInv
<1>3. CASE ~Stuck
  <2>1. Lives
    BY <1>3 DEF LivesInv, Lives
  <2> SUFFICES Lives'
    BY <1>1 DEF LivesInv, Lives
  <2>2. CASE \E r \in Rids : Exit(r)
    BY <1>1, <2>1, <2>2, ExitLives
  <2>3. CASE SchedulerWakes
    BY <1>1, <2>1, <2>3, SpinLives, CPUsAssumption DEF SchedulerWakes
  <2>4. ASSUME NEW c \in CPUs, Call(c)
        PROVE  Lives'
    BY <1>1, <2>1, <2>4, SpinLives DEF Call
  <2>5. ASSUME NEW c \in CPUs, Enters(c)
        PROVE  Lives'
    BY <1>1, <2>1, <2>5, SystemCallLives, SchedulerEntersLives,
       HandlerEntersLives DEF Enters
  <2>6. ASSUME NEW c \in CPUs, Section(c)
        PROVE  Lives'
    BY <1>1, <2>1, <2>6, SchedulerPopLives, ReleaseBlockedLives, CalledLives,
       TimerLives, ReleaseLives DEF Section
  <2>7. ASSUME NEW c \in CPUs, GiveUp(c)
        PROVE  Lives'
    BY <1>1, <1>3, <2>1, <2>7, GiveUpLives
  <2>8. ASSUME NEW c \in CPUs, NEW t \in Timers, Expire(c, t)
        PROVE  Lives'
    BY <1>1, <2>1, <2>8, ExpireLives
  <2>9. CASE UNCHANGED vars
    <3>1. UNCHANGED <<attached, alive, plan, requests>> /\ Pending' = Pending
      BY <2>9 DEF vars, Pending
    <3> QED BY <2>1, <3>1, StaysGuarded DEF Lives
  <2> QED BY <2>2, <2>3, <2>4, <2>5, <2>6, <2>7, <2>8, <2>9 DEF Next
<1> QED BY <1>2, <1>3

\* "At least the periodic timer will be active", on any two processors and
\* for any number of reserves, also when a task exits between the two looks
\* of one handler: a handler that gives up was waited for by a deletion of
\* its reserve, and each other handler of a period timer arms it again, has
\* the reserve deleted, or asks the scheduler thread for that.  With a third
\* processor it is false (README, section 3).
THEOREM PeriodTimerStaysAlive ==
  ASSUME TwoCPUs
  PROVE  Spec => []PeriodTimerLives
<1>1. Init => LivesInv
  <2> SUFFICES ASSUME Init PROVE LivesInv
    OBVIOUS
  <2>1. LockInv
    BY InitLock
  <2>2. \A r \in Rids : Guarded(Now, Pending, r)
    BY <2>1, NowMeans DEF Init, Guarded
  <2> QED BY <2>1, <2>2 DEF LivesInv
<1>2. LivesInv /\ [Next]_vars => LivesInv'
  BY LivesInvInductive
<1>3. LivesInv => PeriodTimerLives
  <2> SUFFICES ASSUME LivesInv, zsrmlock = Nobody, NEW r \in attached
               PROVE  \/ <<r, "period">> \in queued \/ Running(<<r, "period">>)
                      \/ <<r, FALSE>> \in requests
    BY DEF PeriodTimerLives
  <2>1. LockInv /\ plan = <<>> /\ r \in Rids
    BY DEF LivesInv, LockInv, TypeOK
  <2>2. Guarded(Now, Pending, r)
    BY <2>1 DEF LivesInv, Stuck
  <2>3. Acts(plan) = {}
    BY <2>1 DEF Acts
  <2> QED BY <2>1, <2>2, <2>3, NowMeans DEF Guarded, Pending, Running
<1> QED BY <1>1, <1>2, <1>3, PTL DEF Spec
=============================================================================
