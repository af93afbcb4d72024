-------------------------- MODULE AdmissionProofs --------------------------
(***************************************************************************)
(* The admission test, for every set of specifications and every size of   *)
(* the table: zsv_is_admissible tests from the most critical reserve down  *)
(* (its exchange sort is a sort); the types; the verdict of admit is that  *)
(* of the response-time test; the zero-slack instants leave room.  The     *)
(* sums and the iterations of the test are recursive functions: what they  *)
(* compute is proved by induction on intervals of the naturals.            *)
(***************************************************************************)
EXTENDS Admission, WellFoundedInduction, TLAPS

Crit(k) == specs[order[k]].crit

\* The sort has placed the positions below i, and at i the largest of those
\* it has compared.
Placed ==
  /\ \A a, b \in Rids : a < test.i /\ a < b => Crit(a) >= Crit(b)
  /\ \A b \in Rids : test.i < b /\ b < test.j => Crit(test.i) >= Crit(b)

Sorting ==
  test.pc = "sort" =>
    /\ caller = "library"
    /\ test = [pc |-> "sort", i |-> test.i, j |-> test.j]
    /\ test.i \in Rids
    /\ test.j \in Int
    /\ test.i < test.j
    /\ test.j <= Slots + 1
    /\ specs \in [Rids -> Specs]
    /\ Placed

\* An entry of the table is the specification the sort put there.
Row(k) == "spec" \in DOMAIN table[k] /\ table[k].spec = specs[order[k]]

TestShape ==
  test.pc = "admit" => "pc" \in DOMAIN test /\ "new" \in DOMAIN test

Testing ==
  caller = "library" /\ test.pc = "admit" =>
    /\ test.new \in Rids
    /\ specs \in [Rids -> Specs]
    /\ \A a, b \in Rids : a < b => Crit(a) >= Crit(b)
    /\ DOMAIN table = Rids
    /\ \A k \in Rids : Row(k)

\* The inductive invariant.
IInv ==
  /\ order \in [Rids -> Rids]
  /\ test.pc \in {"idle", "sort", "admit"}
  /\ Sorting
  /\ TestShape
  /\ Testing

-----------------------------------------------------------------------------
\* What the sort compares are numbers.
LEMMA CritNat ==
  ASSUME order \in [Rids -> Rids], specs \in [Rids -> Specs], NEW k \in Rids
  PROVE  Crit(k) \in Nat
<1>1. specs[order[k]] \in Specs
  OBVIOUS
<1> QED
  BY <1>1, SpecsAssumption DEF Crit

LEMMA InitIInv == Init => IInv
BY DEF Init, IInv, Sorting, TestShape, Testing, NoTest

-----------------------------------------------------------------------------
\* The kernel's calls do not concern the library.
LEMMA KernelStep ==
  ASSUME IInv, caller = "kernel", caller' = caller, order' = order,
         test'.pc \in {"idle", "admit"}, TestShape'
  PROVE  IInv'
BY DEF IInv, Sorting, Testing

LEMMA CreateRsvIInv == ASSUME IInv, NEW s \in Specs, CreateRsv(s) PROVE IInv'
BY KernelStep DEF CreateRsv, Begin, TestShape

LEMMA DeleteRsvIInv == ASSUME IInv, NEW i \in Rids, DeleteRsv(i) PROVE IInv'
BY KernelStep DEF DeleteRsv, IInv, TestShape

LEMMA KernelAnswerIInv == ASSUME IInv, KernelAnswer PROVE IInv'
BY KernelStep DEF KernelAnswer, NoTest, TestShape

-----------------------------------------------------------------------------
\* The call starts with every position unplaced.
LEMMA IsAdmissibleIInv ==
  ASSUME IInv, NEW s \in [Rids -> Specs], IsAdmissible(s) PROVE IInv'
<1>1. 1 \in Rids /\ 2 <= Slots + 1 /\ Slots \in Nat
  BY SlotsAssumption DEF Rids
<1>2. /\ test' = [pc |-> "sort", i |-> 1, j |-> 2]
      /\ specs' = s
      /\ order' = [i \in Rids |-> i]
      /\ caller' = "library"
  BY DEF IsAdmissible
<1>3. order' \in [Rids -> Rids]
  BY <1>2
<1>4. Sorting'
  <2>1. Placed'
    BY <1>2 DEF Placed, Rids
  <2> QED
    BY <1>1, <1>2, <2>1 DEF Sorting
<1> QED
  BY <1>2, <1>3, <1>4 DEF IInv, TestShape, Testing

\* A comparison: the larger of the two is at position i afterwards, and the
\* positions below i hold what they held, at least as large as both.
LEMMA CompareIInv == ASSUME IInv, Compare PROVE IInv'
<1>0. PICK i, j : i = test.i /\ j = test.j
  OBVIOUS
<1>1. /\ order \in [Rids -> Rids]
      /\ specs \in [Rids -> Specs]
      /\ i \in Rids
      /\ j \in Rids
      /\ i < j
      /\ Slots \in Nat
  BY <1>0, SlotsAssumption DEF IInv, Sorting, Compare, Rids
<1>2. /\ test' = [pc |-> "sort", i |-> i, j |-> j + 1]
      /\ specs' = specs
      /\ caller' = "library"
      /\ order' = IF Misplaced(i, j) THEN Swapped(order, i, j) ELSE order
  BY <1>0 DEF IInv, Sorting, Compare
<1>3. order' \in [Rids -> Rids]
  BY <1>1, <1>2 DEF Swapped
<1>4. \A k \in Rids : Crit(k) \in Nat
  BY <1>1, CritNat
<1>5. \A k \in Rids \ {i, j} : Crit(k)' = Crit(k)
  BY <1>1, <1>2 DEF Crit, Swapped
<1>6. \/ /\ Crit(i) < Crit(j)
         /\ Crit(i)' = Crit(j)
         /\ Crit(j)' = Crit(i)
      \/ /\ ~(Crit(i) < Crit(j))
         /\ Crit(i)' = Crit(i)
         /\ Crit(j)' = Crit(j)
  <2>1. CASE Misplaced(i, j)
    BY <1>1, <1>2, <2>1 DEF Crit, Swapped, Misplaced
  <2>2. CASE ~Misplaced(i, j)
    BY <1>1, <1>2, <2>2 DEF Crit, Misplaced
  <2> QED
    BY <2>1, <2>2
<1>7. Crit(i)' \in Nat /\ Crit(j)' \in Nat
  BY <1>1, <1>4, <1>6
<1>8. Placed
  BY DEF IInv, Sorting, Compare
<1>9. \A a, b \in Rids : a < i /\ a < b => Crit(a)' >= Crit(b)'
  <2> SUFFICES ASSUME NEW a \in Rids, NEW b \in Rids, a < i, a < b
               PROVE  Crit(a)' >= Crit(b)'
    OBVIOUS
  <2>1. Crit(a)' = Crit(a) /\ Crit(a) \in Nat
    BY <1>1, <1>4, <1>5 DEF Rids
  <2>2. Crit(a) >= Crit(b) /\ Crit(a) >= Crit(i) /\ Crit(a) >= Crit(j)
    <3>1. a < j
      BY <1>1 DEF Rids
    <3>2. \A c \in Rids : a < c => Crit(a) >= Crit(c)
      BY <1>0, <1>8 DEF Placed
    <3> QED
      BY <1>1, <3>1, <3>2
  <2>3. CASE b \in {i, j}
    BY <1>6, <2>1, <2>2, <2>3
  <2>4. CASE b \notin {i, j}
    BY <1>5, <2>1, <2>2, <2>4
  <2> QED
    BY <2>3, <2>4
<1>10. \A b \in Rids : i < b /\ b < j + 1 => Crit(i)' >= Crit(b)'
  <2> SUFFICES ASSUME NEW b \in Rids, i < b, b < j + 1
               PROVE  Crit(i)' >= Crit(b)'
    OBVIOUS
  <2>1. CASE b = j
    BY <1>1, <1>4, <1>6, <1>7, <2>1
  <2>2. CASE b # j
    <3>1. Crit(b)' = Crit(b) /\ Crit(b) \in Nat
      <4>1. b # i
        BY <1>1 DEF Rids
      <4> QED
        BY <1>1, <1>4, <1>5, <2>2, <4>1
    <3>2. b < j
      BY <1>1, <2>2 DEF Rids
    <3>3. Crit(i) >= Crit(b)
      BY <1>0, <1>8, <3>2 DEF Placed
    <3> QED
      BY <1>1, <1>4, <1>6, <3>1, <3>3
  <2> QED
    BY <2>1, <2>2
<1>11. Placed'
  BY <1>2, <1>9, <1>10 DEF Placed
<1>12. Sorting'
  BY <1>1, <1>2, <1>11 DEF Sorting, Rids
<1> QED
  BY <1>2, <1>3, <1>12 DEF IInv, TestShape, Testing

\* Position i has been compared with all that follow: it is placed.
LEMMA NextPositionIInv == ASSUME IInv, NextPosition PROVE IInv'
<1>0. PICK i, j : i = test.i /\ j = test.j
  OBVIOUS
<1>1. /\ order \in [Rids -> Rids]
      /\ specs \in [Rids -> Specs]
      /\ i \in Rids
      /\ i < Slots
      /\ j = Slots + 1
      /\ Slots \in Nat
  <2>1. Slots \in Nat
    BY SlotsAssumption
  <2>2. /\ order \in [Rids -> Rids]
        /\ specs \in [Rids -> Specs]
        /\ i \in Rids
        /\ i < Slots
        /\ j \in Int /\ j <= Slots + 1 /\ j > Slots
    BY <1>0 DEF IInv, Sorting, NextPosition
  <2> QED
    BY <2>1, <2>2
<1>2. /\ test' = [pc |-> "sort", i |-> i + 1, j |-> i + 2]
      /\ specs' = specs
      /\ caller' = "library"
      /\ order' = order
  BY <1>0 DEF IInv, Sorting, NextPosition
<1>3. Placed
  BY DEF IInv, Sorting, NextPosition
<1>4. \A a, b \in Rids : a < i + 1 /\ a < b => Crit(a) >= Crit(b)
  BY <1>0, <1>1, <1>3 DEF Placed, Rids
<1>5. \A b \in Rids : ~(i + 1 < b /\ b < i + 2)
  BY <1>1 DEF Rids
<1>6. \A k \in Rids : Crit(k)' = Crit(k)
  BY <1>2 DEF Crit
<1>7. Placed'
  BY <1>2, <1>4, <1>5, <1>6 DEF Placed
<1>8. Sorting'
  BY <1>1, <1>2, <1>7 DEF Sorting, Rids
<1> QED
  BY <1>1, <1>2, <1>8 DEF IInv, TestShape, Testing

\* Every position is placed when the table is copied.
LEMMA CopyTableIInv == ASSUME IInv, CopyTable PROVE IInv'
<1>1. /\ order \in [Rids -> Rids]
      /\ specs \in [Rids -> Specs]
      /\ test.i = Slots
      /\ caller = "library"
      /\ Placed
      /\ Slots \in Nat \ {0}
  BY SlotsAssumption DEF IInv, Sorting, CopyTable
<1>2. \A a, b \in Rids : a < b => Crit(a) >= Crit(b)
  BY <1>1 DEF Placed, Rids
<1> DEFINE t == [k \in Rids |-> Entry(specs[order[k]])]
<1>3. /\ table' = [t EXCEPT ![1].rm = 0]
      /\ test' = [pc |-> "admit", new |-> 1, Z |-> 1, prevZ |-> 0, resp |-> 0, slack |-> 0]
      /\ UNCHANGED <<caller, specs, order>>
  BY DEF CopyTable, Begin
<1>4. 1 \in Rids
  BY <1>1 DEF Rids
<1>5. DOMAIN table' = Rids /\ \A k \in Rids : Row(k)'
  BY <1>3 DEF Row, Entry
<1>6. \A k \in Rids : Crit(k)' = Crit(k)
  BY <1>3 DEF Crit
<1>7. Testing'
  BY <1>1, <1>2, <1>3, <1>4, <1>5, <1>6 DEF Testing
<1> QED
  BY <1>1, <1>3, <1>7 DEF IInv, TestShape, Sorting

-----------------------------------------------------------------------------
Rows == DOMAIN table = Rids /\ \A k \in Rids : Row(k)

\* A test in the library changes nothing of the table but what its entries
\* run in rate-monotonic mode.
LEMMA RowsKept ==
  ASSUME Rows, UNCHANGED <<specs, order>>, NEW n \in Rids, NEW x,
         table' = [table EXCEPT ![n].rm = x]
  PROVE  Rows'
<1> SUFFICES ASSUME NEW k \in Rids PROVE Row(k)'
  BY DEF Rows
<1>1. Row(k)
  BY DEF Rows
<1>2. specs' = specs /\ order' = order
  OBVIOUS
<1>3. CASE k = n
  <2>1. table'[k] = [table[k] EXCEPT !.rm = x]
    BY <1>3 DEF Rows
  <2>2. "spec" \in DOMAIN table'[k] /\ table'[k].spec = table[k].spec
    BY <1>1, <2>1 DEF Row
  <2> QED
    BY <1>1, <1>2, <2>2 DEF Row
<1>4. CASE k # n
  <2>1. table'[k] = table[k]
    BY <1>4 DEF Rows
  <2> QED
    BY <1>1, <1>2, <2>1 DEF Row
<1> QED
  BY <1>3, <1>4

LEMMA TestStep ==
  ASSUME IInv, caller = "library", test.pc = "admit",
         caller' = caller, specs' = specs, order' = order,
         Rows', TestShape', test'.pc = "admit", test'.new \in Rids
  PROVE  IInv'
<1>1. \A k \in Rids : Crit(k)' = Crit(k)
  BY DEF Crit
<1>2. Testing'
  BY <1>1 DEF IInv, Testing, Rows
<1> QED
  BY <1>2 DEF IInv, Sorting

LEMMA IterateIInv == ASSUME IInv, Iterate PROVE IInv'
<1>1. /\ test.pc = "admit"
      /\ caller' = caller /\ specs' = specs /\ order' = order
  BY DEF Iterate
<1>2. "pc" \in DOMAIN test /\ "new" \in DOMAIN test
  BY <1>1 DEF IInv, TestShape
<1>3. PICK resp \in {getResponseTimeCritNs(test.new)} :
        \/ /\ Current.spec.period >= resp
           /\ \E found \in {SlackAndZ(resp)} :
                LET next == WithSlack(found)
                IN  /\ table' = [table EXCEPT ![test.new].rm = next.rm]
                    /\ test' = [test EXCEPT !.prevZ = test.Z, !.resp = resp,
                                            !.slack = found.slack, !.Z = next.Z]
        \/ /\ Current.spec.period < resp
           /\ test' = [test EXCEPT !.prevZ = test.Z, !.resp = resp]
           /\ UNCHANGED table
  BY DEF Iterate
<1>4. test'.pc = "admit" /\ test'.new = test.new /\ TestShape'
  <2>1. CASE test' = [test EXCEPT !.prevZ = test.Z, !.resp = resp]
    BY <1>1, <1>2, <2>1 DEF TestShape
  <2>2. ASSUME NEW found,
               test' = [test EXCEPT !.prevZ = test.Z, !.resp = resp,
                                    !.slack = found.slack, !.Z = WithSlack(found).Z]
        PROVE  test'.pc = "admit" /\ test'.new = test.new /\ TestShape'
    BY <1>1, <1>2, <2>2 DEF TestShape
  <2> QED
    BY <1>3, <2>1, <2>2
<1>5. PICK n : n = test.new
  OBVIOUS
<1>6. table' = table \/ \E x : table' = [table EXCEPT ![n].rm = x]
  BY <1>3, <1>5
<1>7. CASE caller = "library"
  <2>1. Rows /\ n \in Rids
    BY <1>1, <1>5, <1>7 DEF IInv, Testing, Rows
  <2>2. Rows'
    <3>1. CASE table' = table
      BY <1>1, <2>1, <3>1 DEF Rows, Row
    <3>2. ASSUME NEW x, table' = [table EXCEPT ![n].rm = x] PROVE Rows'
      BY <1>1, <2>1, <3>2, RowsKept
    <3> QED
      BY <1>6, <3>1, <3>2
  <2> QED
    BY <1>1, <1>4, <1>5, <1>7, <2>1, <2>2, TestStep
<1>8. CASE caller # "library"
  BY <1>1, <1>4, <1>8 DEF IInv, Sorting, Testing
<1> QED
  BY <1>7, <1>8

LEMMA LibraryPassesIInv == ASSUME IInv, LibraryPasses PROVE IInv'
<1>1. /\ caller = "library" /\ test.pc = "admit"
      /\ caller' = caller /\ specs' = specs /\ order' = order
  BY DEF LibraryPasses, Decided
<1>2. test.new \in Rids
  BY <1>1 DEF IInv, Testing
<1>3. CASE test.new < Slots
  <2>1. test.new + 1 \in Rids
    BY <1>2, <1>3, SlotsAssumption DEF Rids
  <2>2. Begin(table, test.new + 1)
    BY <1>3 DEF LibraryPasses
  <2>3. PICK n : n = test.new + 1
    OBVIOUS
  <2>4. /\ table' = [table EXCEPT ![n].rm = 0]
        /\ test' = [pc |-> "admit", new |-> n, Z |-> 1, prevZ |-> 0, resp |-> 0, slack |-> 0]
    BY <2>2, <2>3 DEF Begin
  <2>5. Rows'
    BY <1>1, <2>1, <2>3, <2>4, RowsKept DEF IInv, Testing, Rows
  <2>6. TestShape' /\ test'.pc = "admit" /\ test'.new \in Rids
    BY <2>1, <2>3, <2>4 DEF TestShape
  <2> QED
    BY <1>1, <2>5, <2>6, TestStep
<1>4. CASE ~(test.new < Slots)
  BY <1>1, <1>4 DEF LibraryPasses, IInv, Sorting, TestShape, Testing, NoTest
<1> QED
  BY <1>3, <1>4

LEMMA LibraryFailsIInv == ASSUME IInv, LibraryFails PROVE IInv'
BY DEF LibraryFails, IInv, Sorting, TestShape, Testing, NoTest

-----------------------------------------------------------------------------
LEMMA NextIInv == IInv /\ [Next]_vars => IInv'
<1> SUFFICES ASSUME IInv, [Next]_vars PROVE IInv'
  OBVIOUS
<1>1. CASE Run
  BY <1>1, CompareIInv, NextPositionIInv, CopyTableIInv, IterateIInv, KernelAnswerIInv,
     LibraryPassesIInv, LibraryFailsIInv DEF Run
<1>2. CASE \E s \in Specs : CreateRsv(s)
  BY <1>2, CreateRsvIInv
<1>3. CASE \E i \in Rids : DeleteRsv(i)
  BY <1>3, DeleteRsvIInv
<1>4. CASE \E s \in [Rids -> Specs] : IsAdmissible(s)
  BY <1>4, IsAdmissibleIInv
<1>5. CASE UNCHANGED vars
  BY <1>5 DEF vars, IInv, Sorting, Placed, TestShape, Testing, Row, Crit
<1> QED
  BY <1>1, <1>2, <1>3, <1>4, <1>5 DEF Next

LEMMA IInvCriticalFirst == IInv => CriticalFirst
<1> SUFFICES ASSUME IInv, caller = "library", test.pc = "admit",
                    NEW i \in Rids, i > test.new
             PROVE  table[i].spec.crit <= Current.spec.crit
  BY DEF CriticalFirst
<1>1. /\ test.new \in Rids
      /\ table[i].spec = specs[order[i]]
      /\ Current.spec = specs[order[test.new]]
  BY DEF IInv, Testing, Row, Current
<1>2. Crit(test.new) >= Crit(i)
  BY <1>1 DEF IInv, Testing, Rids
<1>3. Crit(test.new) \in Nat /\ Crit(i) \in Nat
  BY <1>1, CritNat DEF IInv, Testing
<1> QED
  BY <1>1, <1>2, <1>3 DEF Crit

\* Whatever set of specifications the library is given, it tests the reserves
\* from the most critical down.
THEOREM TestsCriticalFirst == Spec => []CriticalFirst
BY InitIInv, NextIInv, IInvCriticalFirst, PTL DEF Spec

-----------------------------------------------------------------------------
(***************************************************************************)
(* Induction, for the sums and the iterations of the test.                 *)
(***************************************************************************)
\* A set of naturals has a least element: induction, in the form used below.
LEMMA LeastNatural ==
  ASSUME NEW S \in SUBSET Nat, S # {}
  PROVE  \E m \in S : \A k \in S : m <= k
<1> DEFINE R == {p \in Nat \X Nat : p[1] < p[2]}
<1>1. IsWellFoundedOn(R, Nat)
  BY NatLessThanWellFounded DEF OpToRel
<1>2. PICK x \in S : \A y \in S : ~ (<<y, x>> \in R)
  <2> HIDE DEF R
  <2> QED
    BY <1>1, WFMin
<1>3. \A y \in S : <<y, x>> \in Nat \X Nat /\ <<y, x>>[1] = y /\ <<y, x>>[2] = x
  OBVIOUS
<1>4. \A y \in S : ~(y < x)
  BY <1>2, <1>3
<1> QED
  BY <1>4

\* A set that holds 0, and n with n - 1, is the interval.
LEMMA IntervalInduction ==
  ASSUME NEW N \in Nat, NEW S \in SUBSET (0 .. N), 0 \in S,
         \A n \in 1 .. N : n - 1 \in S => n \in S
  PROVE  S = 0 .. N
<1> SUFFICES ASSUME (0 .. N) \ S # {} PROVE FALSE
  OBVIOUS
<1>1. PICK m \in (0 .. N) \ S : \A k \in (0 .. N) \ S : m <= k
  <2>1. (0 .. N) \ S \in SUBSET Nat
    OBVIOUS
  <2> QED
    BY <2>1, LeastNatural
<1>2. m # 0
  OBVIOUS
<1>3. m \in 1 .. N /\ m - 1 \in 0 .. N /\ m - 1 < m
  BY <1>2
<1>4. m - 1 \in S
  BY <1>1, <1>3
<1> QED
  BY <1>1, <1>3, <1>4

\* Total is defined by recursion on the entries: the function exists.
LEMMA PartialSums ==
  ASSUME NEW f, \A j \in Rids : f[j] \in Int
  PROVE  \E g \in [0 .. Slots -> Int] :
           g[0] = 0 /\ \A k \in Rids : g[k] = g[k - 1] + f[k]
<1> DEFINE Sums(n) == {g \in [0 .. Slots -> Int] :
                         g[0] = 0 /\ \A k \in 1 .. n : g[k] = g[k - 1] + f[k]}
           S == {n \in 0 .. Slots : Sums(n) # {}}
<1>1. Slots \in Nat /\ 0 \in 0 .. Slots
  BY SlotsAssumption
<1>2. 0 \in S
  <2>1. [n \in 0 .. Slots |-> 0] \in Sums(0)
    BY <1>1
  <2> QED
    BY <1>1, <2>1
<1>3. ASSUME NEW n \in 1 .. Slots, n - 1 \in S
      PROVE  n \in S
  <2>1. PICK g \in [0 .. Slots -> Int] :
          g[0] = 0 /\ \A k \in 1 .. n - 1 : g[k] = g[k - 1] + f[k]
    BY <1>3
  <2> DEFINE v == g[n - 1] + f[n]
             h == [g EXCEPT ![n] = v]
  <2>2. n \in Rids /\ n - 1 \in 0 .. Slots /\ n \in 0 .. Slots /\ v \in Int
    BY <1>1 DEF Rids
  <2>3. h \in [0 .. Slots -> Int] /\ h[n] = v
        /\ \A k \in 0 .. Slots : k # n => h[k] = g[k]
    <3> HIDE DEF v
    <3> QED
      BY <2>2
  <2>4. \A k \in 1 .. n : h[k] = h[k - 1] + f[k]
    <3> SUFFICES ASSUME NEW k \in 1 .. n PROVE h[k] = h[k - 1] + f[k]
      OBVIOUS
    <3> HIDE DEF h
    <3>1. k - 1 \in 0 .. Slots /\ k - 1 # n /\ k \in 0 .. Slots
      BY <1>1
    <3>2. CASE k = n
      BY <2>3, <3>1, <3>2
    <3>3. CASE k # n
      <4>1. k \in 1 .. n - 1
        BY <3>3
      <4> QED
        BY <2>1, <2>3, <3>1, <3>3, <4>1
    <3> QED
      BY <3>2, <3>3
  <2>5. h[0] = 0
    BY <1>1, <2>1, <2>3
  <2> HIDE DEF h
  <2>6. h \in Sums(n)
    BY <2>3, <2>4, <2>5
  <2> QED
    BY <2>2, <2>6
<1> HIDE DEF S
<1>4. S = 0 .. Slots
  <2>1. S \in SUBSET (0 .. Slots)
    BY DEF S
  <2> QED
    BY <1>1, <1>2, <1>3, <2>1, IntervalInduction
<1>5. Sums(Slots) # {}
  <2>1. Slots \in S
    BY <1>1, <1>4
  <2> HIDE DEF Sums
  <2> QED
    BY <2>1 DEF S
<1> QED
  BY <1>5 DEF Rids

\* Total is the last of the partial sums.
LEMMA TotalIsSum ==
  ASSUME NEW f, \A j \in Rids : f[j] \in Int
  PROVE  \E g \in [0 .. Slots -> Int] :
           /\ g[0] = 0 /\ \A k \in Rids : g[k] = g[k - 1] + f[k]
           /\ Total(f) = g[Slots]
<1> DEFINE sum[n \in 0 .. Slots] == IF n = 0 THEN 0 ELSE sum[n - 1] + f[n]
<1>1. PICK g \in [0 .. Slots -> Int] :
           g[0] = 0 /\ \A k \in Rids : g[k] = g[k - 1] + f[k]
  BY PartialSums
<1>2. g = [n \in 0 .. Slots |-> IF n = 0 THEN 0 ELSE g[n - 1] + f[n]]
  <2>1. \A n \in 0 .. Slots : g[n] = IF n = 0 THEN 0 ELSE g[n - 1] + f[n]
    <3> SUFFICES ASSUME NEW n \in 0 .. Slots PROVE g[n] = IF n = 0 THEN 0 ELSE g[n - 1] + f[n]
      OBVIOUS
    <3>1. n # 0 => n \in Rids
      BY SlotsAssumption DEF Rids
    <3> QED
      BY <1>1, <3>1
  <2> QED
    BY <2>1
<1>3. sum = [n \in 0 .. Slots |-> IF n = 0 THEN 0 ELSE sum[n - 1] + f[n]]
  BY <1>2
<1>4. Total(f) = sum[Slots]
  BY DEF Total
<1> HIDE DEF sum
<1>5. Slots \in Nat /\ 0 \in 0 .. Slots
  BY SlotsAssumption
<1>6. sum[0] = 0 /\ \A k \in Rids : sum[k] = sum[k - 1] + f[k]
  <2>1. \A k \in Rids : k \in 0 .. Slots /\ k # 0
    BY <1>5 DEF Rids
  <2> QED
    BY <1>3, <1>5, <2>1
<1> DEFINE S == {n \in 0 .. Slots : sum[n] \in Int}
<1>7. S = 0 .. Slots
  <2>1. S \in SUBSET (0 .. Slots) /\ 0 \in S
    BY <1>5, <1>6
  <2>2. ASSUME NEW n \in 1 .. Slots, n - 1 \in S
        PROVE  n \in S
    <3>1. n \in Rids /\ n \in 0 .. Slots /\ sum[n - 1] \in Int
      BY <1>5, <2>2 DEF Rids
    <3>2. sum[n] \in Int
      BY <1>6, <3>1
    <3> QED
      BY <3>1, <3>2
  <2> HIDE DEF S
  <2> QED
    BY <1>5, <2>1, <2>2, IntervalInduction
<1>8. sum \in [0 .. Slots -> Int]
  <2>1. \A n \in 0 .. Slots : sum[n] \in Int
    BY <1>7
  <2>2. sum = [n \in 0 .. Slots |-> sum[n]]
    BY <1>3
  <2> QED
    BY <2>1, <2>2
<1> QED
  BY <1>4, <1>6, <1>8

\* A property of the partial sums that each entry keeps holds of the total.
LEMMA TotalNat ==
  ASSUME NEW f, \A j \in Rids : f[j] \in Nat
  PROVE  Total(f) \in Nat
<1>1. PICK g \in [0 .. Slots -> Int] :
        /\ g[0] = 0 /\ \A k \in Rids : g[k] = g[k - 1] + f[k]
        /\ Total(f) = g[Slots]
  BY TotalIsSum
<1>2. Slots \in Nat /\ Slots \in 0 .. Slots /\ Rids = 1 .. Slots
  BY SlotsAssumption DEF Rids
<1> DEFINE S == {n \in 0 .. Slots : g[n] >= 0}
<1>3. S \in SUBSET (0 .. Slots) /\ 0 \in S
  BY <1>1, <1>2
<1>4. ASSUME NEW n \in 1 .. Slots, n - 1 \in S
      PROVE  n \in S
  <2>1. n \in Rids /\ n \in 0 .. Slots /\ g[n - 1] >= 0 /\ g[n - 1] \in Int
    BY <1>2, <1>4
  <2>2. g[n] >= 0
    BY <1>1, <2>1
  <2> QED
    BY <2>1, <2>2
<1> HIDE DEF S
<1>5. S = 0 .. Slots
  BY <1>2, <1>3, <1>4, IntervalInduction
<1>6. g[Slots] >= 0 /\ g[Slots] \in Int
  BY <1>2, <1>5 DEF S
<1> QED
  BY <1>1, <1>6

\* A sum of larger entries is larger.
LEMMA TotalMonotone ==
  ASSUME NEW f, NEW h, \A j \in Rids : f[j] \in Int /\ h[j] \in Int /\ f[j] <= h[j]
  PROVE  Total(f) <= Total(h)
<1>1. PICK g \in [0 .. Slots -> Int] :
        /\ g[0] = 0 /\ \A k \in Rids : g[k] = g[k - 1] + f[k]
        /\ Total(f) = g[Slots]
  BY TotalIsSum
<1>2. PICK w \in [0 .. Slots -> Int] :
        /\ w[0] = 0 /\ \A k \in Rids : w[k] = w[k - 1] + h[k]
        /\ Total(h) = w[Slots]
  BY TotalIsSum
<1>3. Slots \in Nat /\ Slots \in 0 .. Slots /\ Rids = 1 .. Slots
  BY SlotsAssumption DEF Rids
<1> DEFINE S == {n \in 0 .. Slots : g[n] <= w[n]}
<1>4. S \in SUBSET (0 .. Slots) /\ 0 \in S
  BY <1>1, <1>2, <1>3
<1>5. ASSUME NEW n \in 1 .. Slots, n - 1 \in S
      PROVE  n \in S
  <2>1. n \in Rids /\ n \in 0 .. Slots /\ g[n - 1] <= w[n - 1]
        /\ g[n - 1] \in Int /\ w[n - 1] \in Int
    BY <1>3, <1>5
  <2>2. g[n] <= w[n]
    BY <1>1, <1>2, <2>1
  <2> QED
    BY <2>1, <2>2
<1> HIDE DEF S
<1>6. S = 0 .. Slots
  BY <1>3, <1>4, <1>5, IntervalInduction
<1> QED
  BY <1>1, <1>2, <1>3, <1>6 DEF S

\* The sum of two sums, entry by entry.
LEMMA TotalAdds ==
  ASSUME NEW f, NEW h, NEW fh,
         \A j \in Rids : f[j] \in Int /\ h[j] \in Int /\ fh[j] = f[j] + h[j]
  PROVE  Total(fh) = Total(f) + Total(h)
<1>1. PICK g \in [0 .. Slots -> Int] :
        /\ g[0] = 0 /\ \A k \in Rids : g[k] = g[k - 1] + f[k]
        /\ Total(f) = g[Slots]
  BY TotalIsSum
<1>2. PICK w \in [0 .. Slots -> Int] :
        /\ w[0] = 0 /\ \A k \in Rids : w[k] = w[k - 1] + h[k]
        /\ Total(h) = w[Slots]
  BY TotalIsSum
<1>3. \A j \in Rids : fh[j] \in Int
  OBVIOUS
<1>4. PICK v \in [0 .. Slots -> Int] :
        /\ v[0] = 0 /\ \A k \in Rids : v[k] = v[k - 1] + fh[k]
        /\ Total(fh) = v[Slots]
  BY <1>3, TotalIsSum
<1>5. Slots \in Nat /\ Slots \in 0 .. Slots /\ Rids = 1 .. Slots
  BY SlotsAssumption DEF Rids
<1> DEFINE S == {n \in 0 .. Slots : v[n] = g[n] + w[n]}
<1>6. S \in SUBSET (0 .. Slots) /\ 0 \in S
  BY <1>1, <1>2, <1>4, <1>5
<1>7. ASSUME NEW n \in 1 .. Slots, n - 1 \in S
      PROVE  n \in S
  <2>1. n \in Rids /\ n \in 0 .. Slots /\ v[n - 1] = g[n - 1] + w[n - 1]
        /\ g[n - 1] \in Int /\ w[n - 1] \in Int
    BY <1>5, <1>7
  <2>2. g[n] = g[n - 1] + f[n] /\ w[n] = w[n - 1] + h[n] /\ v[n] = v[n - 1] + fh[n]
    BY <1>1, <1>2, <1>4, <2>1
  <2>3. f[n] \in Int /\ h[n] \in Int /\ fh[n] = f[n] + h[n]
    BY <2>1
  <2>4. v[n] = g[n] + w[n]
    BY <2>1, <2>2, <2>3
  <2> QED
    BY <2>1, <2>4
<1> HIDE DEF S
<1>8. S = 0 .. Slots
  BY <1>5, <1>6, <1>7, IntervalInduction
<1> QED
  BY <1>1, <1>2, <1>4, <1>5, <1>8 DEF S


-----------------------------------------------------------------------------
(***************************************************************************)
(* Counts, arrivals, and the sums of interference.                         *)
(***************************************************************************)
\* What a count that may wrap is, and when it does not.
LEMMA UintType ==
  ASSUME NEW n \in Int
  PROVE  Uint(n) \in Uints /\ Uint(n) \in Nat /\ (n \in Uints => Uint(n) = n)
BY UintModAssumption DEF Uint, Uints

\* p periods of t, begun or completed.
LEMMA Arrivals ==
  ASSUME NEW t \in Nat, NEW p \in Nat \ {0}
  PROVE  /\ numArrivals(t, p) \in Nat
         /\ numArrivals(t, p) * p >= t
         /\ (numArrivals(t, p) - 1) * p < t
         /\ numArrivals(t, p) = (t + p - 1) \div p
<1> DEFINE q == t \div p
           r == t % p
<1>1. q \in Nat /\ r \in Nat /\ r < p /\ t = p * q + r
  OBVIOUS
<1>2. numArrivals(t, p) = q + (IF r > 0 THEN 1 ELSE 0)
  BY DEF numArrivals
<1>3. (t + p - 1) \div p = q + (IF r > 0 THEN 1 ELSE 0)
  <2> DEFINE u == t + p - 1
             v == u \div p
             w == u % p
  <2>1. u \in Nat /\ v \in Nat /\ w \in Nat /\ w < p /\ u = p * v + w
    OBVIOUS
  <2>2. p * v + w = p * q + r + p - 1
    BY <1>1, <2>1
  <2> HIDE DEF q, r, v, w
  <2>3. CASE r > 0
    <3>1. p * (v - q - 1) = r - 1 - w /\ r - 1 - w < p /\ r - 1 - w > 0 - p
      BY <1>1, <2>1, <2>2, <2>3
    <3>2. v - q - 1 = 0
      BY <1>1, <2>1, <3>1
    <3> QED
      BY <1>1, <2>1, <2>3, <3>2 DEF v
  <2>4. CASE r = 0
    <3>1. p * (v - q) = p - 1 - w /\ p - 1 - w < p /\ p - 1 - w > 0 - p
      BY <1>1, <2>1, <2>2, <2>4
    <3>2. v - q = 0
      BY <1>1, <2>1, <3>1
    <3> QED
      BY <1>1, <2>1, <2>4, <3>2 DEF v
  <2> QED
    BY <1>1, <2>3, <2>4
<1> HIDE DEF q, r
<1>4. (q + 1) * p = p * q + p /\ q * p = p * q /\ (q - 1) * p = p * q - p
  BY <1>1
<1>5. CASE r > 0
  <2>1. numArrivals(t, p) = q + 1
    BY <1>2, <1>5
  <2> QED
    BY <1>1, <1>3, <1>4, <1>5, <2>1
<1>6. CASE r = 0
  <2>1. numArrivals(t, p) = q
    BY <1>1, <1>2, <1>6
  <2> QED
    BY <1>1, <1>3, <1>4, <1>6, <2>1
<1> QED
  BY <1>1, <1>5, <1>6

\* A longer interval sees no fewer arrivals.
LEMMA ArrivalsMonotone ==
  ASSUME NEW t \in Nat, NEW u \in Nat, t <= u, NEW p \in Nat \ {0}
  PROVE  numArrivals(t, p) <= numArrivals(u, p)
<1> DEFINE a == numArrivals(t, p)
           b == numArrivals(u, p)
<1>1. a \in Nat /\ b \in Nat /\ b * p >= u /\ (a - 1) * p < t
  BY Arrivals
<1> HIDE DEF a, b
<1>2. (a - 1 - b) * p < 0
  BY <1>1
<1>3. a - 1 - b < 0
  BY <1>1, <1>2
<1> QED
  BY <1>1, <1>3 DEF a, b

\* Products of naturals are monotone.
LEMMA ProductMonotone ==
  ASSUME NEW a \in Nat, NEW b \in Nat, a <= b, NEW c \in Nat
  PROVE  a * c \in Nat /\ b * c \in Nat /\ a * c <= b * c
<1>1. b * c = a * c + (b - a) * c /\ (b - a) * c >= 0
  OBVIOUS
<1> QED
  BY <1>1

-----------------------------------------------------------------------------
\* What the table says of a reserve in use.
LEMMA UsedRow ==
  ASSUME TypeOK, NEW i \in Rids, table[i].used
  PROVE  /\ table[i].spec \in Specs
         /\ table[i].spec.period \in Nat \ {0} /\ table[i].spec.exec \in Nat
         /\ table[i].spec.nominal \in Nat /\ table[i].spec.crit \in Nat
         /\ table[i].spec.exec \in Uints /\ table[i].rm \in Uints
         /\ table[i].rm \in Nat /\ 2 * table[i].spec.period < UintMod
<1>1. table[i] \in [used : {TRUE}, spec : Specs, rm : Uints, zs : Nat]
  <2>1. \/ table[i] = Unused
        \/ table[i] \in [used : {TRUE}, spec : Specs, rm : Uints, zs : Nat]
    BY DEF TypeOK
  <2>2. ~Unused.used
    BY DEF Unused
  <2> QED
    BY <2>1, <2>2
<1>2. table[i].spec \in Specs /\ table[i].rm \in Uints
  BY <1>1
<1>3. table[i].spec.exec < UintMod /\ 2 * table[i].spec.period < UintMod
  BY <1>2, UintModAssumption
<1>4. table[i].spec \in [period : Nat \ {0}, exec : Nat, nominal : Nat, crit : Nat]
  BY <1>2, SpecsAssumption
<1> QED
  BY <1>2, <1>3, <1>4, UintModAssumption DEF Uints

Users == {j \in Rids : table[j].used}

\* What reserve j asks for in an interval of t, if it has a cost.
Part(cost, t, j) ==
  IF j \in DOMAIN cost THEN numArrivals(t, table[j].spec.period) * cost[j] ELSE 0

\* A cost for reserves in use, and for no others.
Costs(cost) == DOMAIN cost \subseteq Users /\ \A j \in DOMAIN cost : cost[j] \in Nat

\* A part is a natural number.
LEMMA PartType ==
  ASSUME TypeOK, NEW t \in Nat, NEW cost, Costs(cost), NEW j \in Rids
  PROVE  Part(cost, t, j) \in Nat
<1>1. CASE j \in DOMAIN cost
  <2>1. table[j].spec.period \in Nat \ {0} /\ cost[j] \in Nat
    BY <1>1, UsedRow DEF Costs, Users
  <2>2. numArrivals(t, table[j].spec.period) \in Nat
    BY <2>1, Arrivals
  <2> QED
    BY <1>1, <2>1, <2>2, ProductMonotone DEF Part
<1> QED
  BY <1>1 DEF Part

\* A part grows with the interval.
LEMMA PartMonotone ==
  ASSUME TypeOK, NEW t \in Nat, NEW u \in Nat, t <= u, NEW cost, Costs(cost),
         NEW j \in Rids
  PROVE  Part(cost, t, j) <= Part(cost, u, j)
<1>1. CASE j \in DOMAIN cost
  <2>1. table[j].spec.period \in Nat \ {0} /\ cost[j] \in Nat
    BY <1>1, UsedRow DEF Costs, Users
  <2>2. /\ numArrivals(t, table[j].spec.period) \in Nat
        /\ numArrivals(u, table[j].spec.period) \in Nat
        /\ numArrivals(t, table[j].spec.period) <= numArrivals(u, table[j].spec.period)
    BY <2>1, Arrivals, ArrivalsMonotone
  <2> QED
    BY <1>1, <2>1, <2>2, ProductMonotone DEF Part
<1> QED
  BY <1>1 DEF Part

\* So is the interference of a set.
LEMMA InterferenceType ==
  ASSUME TypeOK, NEW t \in Nat, NEW cost, Costs(cost)
  PROVE  Interference(cost, t) \in Nat
<1>1. Interference(cost, t) = Total([j \in Rids |-> Part(cost, t, j)])
  BY DEF Interference, Part
<1> QED
  BY <1>1, PartType, TotalNat

\* Three sets of interfering reserves as one.
LEMMA ThreeParts ==
  ASSUME TypeOK, NEW t \in Nat, NEW a, NEW b, NEW c,
         Costs(a), Costs(b), Costs(c), NEW h,
         \A j \in Rids : h[j] = Part(a, t, j) + Part(b, t, j) + Part(c, t, j)
  PROVE  Interference(a, t) + Interference(b, t) + Interference(c, t) = Total(h)
<1> DEFINE f(x) == [j \in Rids |-> Part(x, t, j)]
           ab == [j \in Rids |-> Part(a, t, j) + Part(b, t, j)]
<1>1. /\ Interference(a, t) = Total(f(a)) /\ Interference(b, t) = Total(f(b))
      /\ Interference(c, t) = Total(f(c))
  BY DEF Interference, Part
<1>2. \A j \in Rids : Part(a, t, j) \in Int /\ Part(b, t, j) \in Int /\ Part(c, t, j) \in Int
  BY PartType
<1>3. \A j \in Rids : f(a)[j] = Part(a, t, j) /\ f(b)[j] = Part(b, t, j)
        /\ f(c)[j] = Part(c, t, j) /\ ab[j] = Part(a, t, j) + Part(b, t, j)
  OBVIOUS
<1> HIDE DEF f, ab
<1>4. Total(ab) = Total(f(a)) + Total(f(b))
  BY <1>2, <1>3, TotalAdds
<1>5. Total(h) = Total(ab) + Total(f(c))
  BY <1>2, <1>3, TotalAdds
<1> QED
  BY <1>1, <1>4, <1>5

-----------------------------------------------------------------------------
(***************************************************************************)
(* The demand in critical mode.                                            *)
(***************************************************************************)
Nominal(i) == [j \in HigherPrioHigherCrit(i) |-> getExecTimeHigherPrioHigherCrit(j)]
Rest(i) == [j \in LowerPrioHigherCrit(i) |-> getExecTimeLowerPrioHigherCrit(j)]
Peers(i) == [j \in HigherPrioSameCrit(i) |-> getExecTimeHigherPrioSameCrit(j)]

\* What the three sets ask for together, before it wraps.
Busy(i, t) ==
  Interference(Nominal(i), t) + Interference(Rest(i), t) + Interference(Peers(i), t)

\* The costs of the three sets are naturals.
LEMMA CritCosts ==
  ASSUME TypeOK, NEW i \in Rids
  PROVE  Costs(Nominal(i)) /\ Costs(Rest(i)) /\ Costs(Peers(i))
<1>1. Costs(Nominal(i))
  <2>1. DOMAIN Nominal(i) \subseteq Users
    BY DEF Nominal, HigherPrioHigherCrit, Others, Users
  <2>2. ASSUME NEW j \in DOMAIN Nominal(i) PROVE Nominal(i)[j] \in Nat
    BY <2>1, UsedRow DEF Nominal, getExecTimeHigherPrioHigherCrit, Users
  <2> QED
    BY <2>1, <2>2 DEF Costs
<1>2. Costs(Rest(i))
  <2>1. DOMAIN Rest(i) \subseteq Users
    BY DEF Rest, LowerPrioHigherCrit, Others, Users
  <2>2. ASSUME NEW j \in DOMAIN Rest(i) PROVE Rest(i)[j] \in Nat
    <3>1. table[j].spec.nominal - table[j].rm \in Int
      BY <2>1, UsedRow DEF Users
    <3> QED
      BY <3>1, UintType DEF Rest, getExecTimeLowerPrioHigherCrit
  <2> QED
    BY <2>1, <2>2 DEF Costs
<1>3. Costs(Peers(i))
  <2>1. DOMAIN Peers(i) \subseteq Users
    BY DEF Peers, HigherPrioSameCrit, Others, Users
  <2>2. ASSUME NEW j \in DOMAIN Peers(i) PROVE Peers(i)[j] \in Nat
    BY <2>1, UsedRow DEF Peers, getExecTimeHigherPrioSameCrit, Users
  <2> QED
    BY <2>1, <2>2 DEF Costs
<1> QED
  BY <1>1, <1>2, <1>3

\* So is what they ask for.
LEMMA BusyType ==
  ASSUME TypeOK, NEW i \in Rids, NEW t \in Nat
  PROVE  Busy(i, t) \in Nat
BY CritCosts, InterferenceType DEF Busy

\* The demand of an interval is the sum, modulo the width of the type.
LEMMA DemandMod ==
  ASSUME TypeOK, NEW i \in Rids, table[i].used, NEW t \in Nat
  PROVE  /\ InCritical(i) \in Uints /\ InCritical(i) \in Nat
         /\ CritDemand(i, t) = Uint(InCritical(i) + Busy(i, t))
         /\ CritDemand(i, t) \in Uints /\ CritDemand(i, t) \in Nat
<1>1. InCritical(i) \in Uints /\ InCritical(i) \in Nat
  <2>1. table[i].spec.exec - table[i].rm \in Int
    BY UsedRow
  <2> QED
    BY <2>1, UintType DEF InCritical
<1>2. /\ Interference(Nominal(i), t) \in Nat /\ Interference(Rest(i), t) \in Nat
      /\ Interference(Peers(i), t) \in Nat
  BY CritCosts, InterferenceType
<1>3. CritDemand(i, t) = Uint(InCritical(i) + Interference(Nominal(i), t)
                  + Interference(Rest(i), t) + Interference(Peers(i), t))
  BY DEF CritDemand, Nominal, Rest, Peers
<1>4. InCritical(i) + Interference(Nominal(i), t)
                  + Interference(Rest(i), t) + Interference(Peers(i), t)
        = InCritical(i) + Busy(i, t)
  BY <1>1, <1>2 DEF Busy
<1>5. InCritical(i) + Busy(i, t) \in Int
  BY <1>1, BusyType
<1> QED
  BY <1>1, <1>3, <1>4, <1>5, UintType

-----------------------------------------------------------------------------
(***************************************************************************)
(* The iteration of getResponseTimeCritNs, for any function d of demand    *)
(* and any period p.                                                       *)
(***************************************************************************)

\* F answers for demands from prev on.
Answered(d, p, F, prev) ==
  F[prev] = IF d[prev] > prev /\ d[prev] <= p THEN F[d[prev]] ELSE d[prev]

\* The recursion is well founded: an iteration only goes up, to the period.
LEMMA IterationExists ==
  ASSUME NEW d \in [Nat -> Nat], NEW p \in Nat
  PROVE  \E F \in [Nat -> Nat] : \A prev \in Nat : Answered(d, p, F, prev)
<1> DEFINE Good(k) == {F \in [Nat -> Nat] :
                         \A prev \in Nat : prev >= p - k => Answered(d, p, F, prev)}
           S == {k \in 0 .. p : Good(k) # {}}
<1>1. 0 \in S
  <2>1. d \in Good(0)
    BY DEF Answered
  <2> QED
    BY <2>1
<1>2. ASSUME NEW k \in 1 .. p, k - 1 \in S
      PROVE  k \in S
  <2> DEFINE m == p - k
  <2>1. m \in Nat /\ p - (k - 1) = m + 1 /\ k \in 0 .. p
    OBVIOUS
  <2>2. PICK F \in [Nat -> Nat] :
          \A prev \in Nat : prev >= m + 1 => Answered(d, p, F, prev)
    BY <1>2, <2>1
  <2> HIDE DEF m
  <2> DEFINE v == IF d[m] > m /\ d[m] <= p THEN F[d[m]] ELSE d[m]
             G == [F EXCEPT ![m] = v]
  <2>3. v \in Nat /\ G \in [Nat -> Nat] /\ G[m] = v
        /\ \A n \in Nat : n # m => G[n] = F[n]
    <3>1. v \in Nat
      BY <2>1
    <3> HIDE DEF v
    <3> QED
      BY <2>1, <3>1
  <2>4. ASSUME NEW prev \in Nat, prev >= m
        PROVE  Answered(d, p, G, prev)
    <3>1. CASE prev = m
      <4>1. d[m] \in Nat /\ (d[m] > m => G[d[m]] = F[d[m]])
        BY <2>1, <2>3
      <4> QED
        BY <2>3, <3>1, <4>1 DEF Answered
    <3>2. CASE prev # m
      <4>1. prev >= m + 1
        BY <2>1, <2>4, <3>2
      <4>2. d[prev] \in Nat /\ (d[prev] > prev => d[prev] # m)
        BY <2>1, <2>4
      <4> HIDE DEF G
      <4> QED
        BY <2>2, <2>3, <3>2, <4>1, <4>2 DEF Answered
    <3> QED
      BY <3>1, <3>2
  <2> HIDE DEF G
  <2>5. G \in Good(k)
    BY <2>3, <2>4 DEF m
  <2> HIDE DEF Good
  <2> QED
    BY <2>1, <2>5
<1> HIDE DEF Good
<1>3. S \in SUBSET (0 .. p)
  OBVIOUS
<1> HIDE DEF S
<1>4. S = 0 .. p
  BY <1>1, <1>2, <1>3, IntervalInduction
<1>5. Good(p) # {}
  BY <1>4 DEF S
<1>6. PICK F \in [Nat -> Nat] : \A prev \in Nat : prev >= p - p => Answered(d, p, F, prev)
  BY <1>5 DEF Good
<1> QED
  BY <1>6

\* It ends with the demand of an interval that holds it, or one beyond p.
LEMMA IterationEnds ==
  ASSUME NEW d \in [Nat -> Nat], NEW p \in Nat, NEW F,
         \A prev \in Nat : Answered(d, p, F, prev), NEW start \in Nat
  PROVE  \E prev \in Nat :
           /\ F[start] = d[prev]
           /\ d[prev] <= prev \/ d[prev] > p
           /\ prev = start \/ (start < prev /\ prev <= p)
<1> DEFINE E(a) == \E prev \in Nat :
                     /\ F[a] = d[prev]
                     /\ d[prev] <= prev \/ d[prev] > p
                     /\ prev = a \/ (a < prev /\ prev <= p)
           S == {k \in 0 .. p : \A a \in Nat : a >= p - k => E(a)}
<1>1. ASSUME NEW a \in Nat, ~(d[a] > a /\ d[a] <= p)
      PROVE  E(a)
  <2>1. F[a] = d[a] /\ d[a] \in Nat
    BY <1>1 DEF Answered
  <2> QED
    BY <1>1, <2>1
<1>2. ASSUME NEW a \in Nat, d[a] > a, d[a] <= p, E(d[a])
      PROVE  E(a)
  <2>1. F[a] = F[d[a]] /\ d[a] \in Nat
    BY <1>2 DEF Answered
  <2>2. PICK prev \in Nat :
          /\ F[d[a]] = d[prev]
          /\ d[prev] <= prev \/ d[prev] > p
          /\ prev = d[a] \/ (d[a] < prev /\ prev <= p)
    BY <1>2
  <2>3. a < prev /\ prev <= p
    BY <1>2, <2>1, <2>2
  <2> QED
    BY <2>1, <2>2, <2>3
<1> HIDE DEF E
<1>3. 0 \in S
  <2>1. ASSUME NEW a \in Nat, a >= p PROVE E(a)
    <3>1. d[a] \in Nat
      OBVIOUS
    <3> QED
      BY <1>1, <2>1, <3>1
  <2> QED
    BY <2>1
<1>4. ASSUME NEW k \in 1 .. p, k - 1 \in S
      PROVE  k \in S
  <2>1. ASSUME NEW a \in Nat, a >= p - k PROVE E(a)
    <3>1. CASE d[a] > a /\ d[a] <= p
      <4>1. d[a] \in Nat /\ d[a] >= p - (k - 1)
        BY <2>1, <3>1
      <4>2. E(d[a])
        BY <1>4, <4>1
      <4> QED
        BY <1>2, <3>1, <4>2
    <3> QED
      BY <1>1, <3>1
  <2>2. k \in 0 .. p
    OBVIOUS
  <2> QED
    BY <2>1, <2>2
<1>5. S \in SUBSET (0 .. p)
  OBVIOUS
<1> HIDE DEF S
<1>6. S = 0 .. p
  BY <1>3, <1>4, <1>5, IntervalInduction
<1>7. p \in S
  BY <1>6
<1>8. E(start)
  BY <1>7 DEF S
<1> QED
  BY <1>8 DEF E

\* An interval that holds its demand holds the result.
LEMMA IterationBounded ==
  ASSUME NEW d \in [Nat -> Nat], NEW p \in Nat, NEW F \in [Nat -> Nat],
         \A prev \in Nat : Answered(d, p, F, prev),
         NEW t \in Nat, \A a \in 0 .. t : d[a] <= t, NEW start \in 0 .. t
  PROVE  F[start] <= t
<1> DEFINE S == {k \in 0 .. t : \A a \in 0 .. t : a >= t - k => F[a] <= t}
<1>1. \A a \in 0 .. t : F[a] \in Nat /\ d[a] \in Nat
  OBVIOUS
<1>2. ASSUME NEW a \in 0 .. t, d[a] > a => F[d[a]] <= t
      PROVE  F[a] <= t
  BY <1>1, <1>2 DEF Answered
<1>3. 0 \in S
  <2>1. ASSUME NEW a \in 0 .. t, a >= t PROVE F[a] <= t
    BY <1>1, <1>2, <2>1
  <2> QED
    BY <2>1
<1>4. ASSUME NEW k \in 1 .. t, k - 1 \in S
      PROVE  k \in S
  <2>1. ASSUME NEW a \in 0 .. t, a >= t - k PROVE F[a] <= t
    <3>1. CASE d[a] > a
      <4>1. d[a] \in 0 .. t /\ d[a] >= t - (k - 1)
        BY <1>1, <2>1, <3>1
      <4>2. F[d[a]] <= t
        BY <1>4, <4>1
      <4> QED
        BY <1>2, <4>2
    <3> QED
      BY <1>2, <3>1
  <2>2. k \in 0 .. t
    OBVIOUS
  <2> QED
    BY <2>1, <2>2
<1>5. S \in SUBSET (0 .. t)
  OBVIOUS
<1> HIDE DEF S
<1>6. S = 0 .. t
  BY <1>3, <1>4, <1>5, IntervalInduction
<1>7. t \in S
  BY <1>6
<1> QED
  BY <1>7 DEF S

\* What the recursive function computes.
LEMMA ResponseIs ==
  ASSUME TypeOK, NEW i \in Rids, table[i].used,
         NEW d, d = [t \in Nat |-> CritDemand(i, t)]
  PROVE  /\ d \in [Nat -> Nat]
         /\ \E F \in [Nat -> Nat] :
              /\ \A prev \in Nat : Answered(d, table[i].spec.period, F, prev)
              /\ getResponseTimeCritNs(i) = F[InCritical(i)]
<1> DEFINE p == table[i].spec.period
           from[prev \in Nat] ==
             LET resp == CritDemand(i, prev)
             IN  IF resp > prev /\ resp <= table[i].spec.period THEN from[resp] ELSE resp
<1>1. d \in [Nat -> Nat] /\ p \in Nat
  BY DemandMod, UsedRow
<1>2. PICK F \in [Nat -> Nat] : \A prev \in Nat : Answered(d, p, F, prev)
  BY <1>1, IterationExists
<1>3. F = [prev \in Nat |->
             LET resp == CritDemand(i, prev)
             IN  IF resp > prev /\ resp <= table[i].spec.period THEN F[resp] ELSE resp]
  <2>1. \A prev \in Nat : d[prev] = CritDemand(i, prev)
    OBVIOUS
  <2> QED
    BY <1>2, <2>1 DEF Answered
<1>4. from = [prev \in Nat |->
             LET resp == CritDemand(i, prev)
             IN  IF resp > prev /\ resp <= table[i].spec.period THEN from[resp] ELSE resp]
  BY <1>3
<1>5. getResponseTimeCritNs(i) = from[InCritical(i)]
  BY DEF getResponseTimeCritNs
<1> HIDE DEF from
<1>6. \A prev \in Nat : Answered(d, p, from, prev)
  <2>1. \A prev \in Nat : d[prev] = CritDemand(i, prev)
    OBVIOUS
  <2> QED
    BY <1>4, <2>1 DEF Answered
<1>7. from \in [Nat -> Nat]
  <2>1. ASSUME NEW a \in Nat
        PROVE  \E prev \in Nat : from[a] = d[prev]
    <3> HIDE DEF p
    <3>1. \E prev \in Nat :
            /\ from[a] = d[prev]
            /\ d[prev] <= prev \/ d[prev] > p
            /\ prev = a \/ (a < prev /\ prev <= p)
      BY <1>1, <1>6, IterationEnds
    <3> QED
      BY <3>1
  <2>2. \A a \in Nat : from[a] \in Nat
    BY <1>1, <2>1
  <2>3. from = [a \in Nat |-> from[a]]
    BY <1>4
  <2> QED
    BY <2>2, <2>3
<1> QED
  BY <1>1, <1>5, <1>6, <1>7

-----------------------------------------------------------------------------
(***************************************************************************)
(* Types.                                                                  *)
(***************************************************************************)
RowSet == [used : {TRUE}, spec : Specs, rm : Uints, zs : Nat]

\* A table of entries.
TableRows(t) ==
  /\ DOMAIN t = Rids
  /\ \A i \in Rids : t[i] = Unused \/ t[i] \in RowSet

TestType ==
  \/ test = NoTest
  \/ test \in [pc : {"sort"}, i : Rids, j : 2 .. Slots + 1]
  \/ /\ test \in [pc : {"admit"}, new : Rids, Z : Nat, prevZ : Nat, resp : Uints, slack : Uints]
     /\ Current.used

\* TypeOK, part by part.
LEMMA TypeParts ==
  TypeOK <=>
    /\ caller \in {"kernel", "library"}
    /\ TableRows(table)
    /\ specs = NoSpecs \/ specs \in [Rids -> Specs]
    /\ zsinstant \in [Rids -> Nat]
    /\ order \in [Rids -> Rids]
    /\ TestType
    /\ answer \in {"none", "admissible", "refused"}
BY DEF TypeOK, TableRows, RowSet, TestType

\* The ranges are naturals.
LEMMA Numbers ==
  /\ Slots \in Nat /\ Slots >= 1 /\ Rids = 1 .. Slots /\ Rids \subseteq Nat
  /\ 0 \in Uints /\ Uints \subseteq Nat
BY SlotsAssumption, UintModAssumption DEF Rids, Uints

\* An entry of rows is replaced.
LEMMA RowsExcept ==
  ASSUME NEW t, TableRows(t), NEW i \in Rids, NEW row, row = Unused \/ row \in RowSet
  PROVE  /\ TableRows([t EXCEPT ![i] = row])
         /\ [t EXCEPT ![i] = row][i] = row
         /\ \A k \in Rids \ {i} : [t EXCEPT ![i] = row][k] = t[k]
BY DEF TableRows

\* The budget of rate-monotonic mode of an entry is replaced.
LEMMA RmExcept ==
  ASSUME NEW t, TableRows(t), NEW i \in Rids, t[i] \in RowSet, NEW rm \in Uints
  PROVE  /\ TableRows([t EXCEPT ![i].rm = rm])
         /\ [t EXCEPT ![i].rm = rm][i] \in RowSet
         /\ [t EXCEPT ![i].rm = rm][i] = [t[i] EXCEPT !.rm = rm]
         /\ \A k \in Rids \ {i} : [t EXCEPT ![i].rm = rm][k] = t[k]
<1> DEFINE row == [t[i] EXCEPT !.rm = rm]
<1>1. row \in RowSet
  BY DEF RowSet
<1>2. [t EXCEPT ![i].rm = rm] = [t EXCEPT ![i] = row]
  BY DEF TableRows
<1> HIDE DEF row
<1>3. [t EXCEPT ![i] = row][i] = row
  BY DEF TableRows
<1>4. QED
  BY <1>1, <1>2, <1>3, RowsExcept DEF row

\* A test begins on an entry in use.
LEMMA BeginType ==
  ASSUME NEW t, TableRows(t), NEW i \in Rids, t[i] \in RowSet, Begin(t, i)
  PROVE  TableRows(table)' /\ TestType'
<1>1. TableRows(table') /\ table'[i] \in RowSet
  BY Numbers, RmExcept DEF Begin
<1>2. test' = [pc |-> "admit", new |-> i, Z |-> 1, prevZ |-> 0, resp |-> 0, slack |-> 0]
  BY DEF Begin
<1>3. test'.new = i /\ test' \in [pc : {"admit"}, new : Rids, Z : Nat, prevZ : Nat,
                                  resp : Uints, slack : Uints]
  BY <1>2, Numbers
<1>4. table'[i].used
  BY <1>1 DEF RowSet
<1>5. TestType'
  BY <1>3, <1>4 DEF TestType, Current
<1>6. TableRows(table)'
  BY <1>1 DEF TableRows
<1> QED
  BY <1>5, <1>6

\* The first free entry is free.
LEMMA LeastFree == ASSUME Free # {} PROVE Min(Free) \in Free
<1>1. Free \in SUBSET Nat
  BY Numbers DEF Free
<1>2. \E x \in Free : \A y \in Free : x <= y
  BY <1>1, LeastNatural
<1> QED
  BY <1>2 DEF Min

\* An entry in use is a record.
LEMMA UsedIsRow ==
  ASSUME TableRows(table), NEW i \in Rids
  PROVE  table[i].used <=> table[i] \in RowSet
<1>1. ~Unused.used
  BY DEF Unused
<1>2. table[i] \in RowSet => table[i].used
  BY DEF RowSet
<1> QED
  BY <1>1, <1>2 DEF TableRows

\* The test under way.
LEMMA AdmitType ==
  ASSUME TypeOK, test.pc = "admit"
  PROVE  /\ test \in [pc : {"admit"}, new : Rids, Z : Nat, prevZ : Nat,
                      resp : Uints, slack : Uints]
         /\ test.new \in Rids /\ table[test.new].used /\ table[test.new] \in RowSet
<1>1. NoTest.pc = "idle"
  BY DEF NoTest
<1>2. test \in [pc : {"sort"}, i : Rids, j : 2 .. Slots + 1] => test.pc = "sort"
  OBVIOUS
<1>3. /\ test \in [pc : {"admit"}, new : Rids, Z : Nat, prevZ : Nat,
                   resp : Uints, slack : Uints]
      /\ Current.used
  BY <1>1, <1>2, TypeParts DEF TestType
<1> QED
  BY <1>3, TypeParts, UsedIsRow DEF Current

\* The response time is a count of the type.
LEMMA ResponseType ==
  ASSUME TypeOK, NEW i \in Rids, table[i].used
  PROVE  getResponseTimeCritNs(i) \in Uints
<1> DEFINE d == [t \in Nat |-> CritDemand(i, t)]
           p == table[i].spec.period
<1>1. PICK F \in [Nat -> Nat] :
         /\ \A prev \in Nat : Answered(d, p, F, prev)
         /\ getResponseTimeCritNs(i) = F[InCritical(i)]
  BY ResponseIs
<1>2. InCritical(i) \in Nat /\ p \in Nat
  BY DemandMod, UsedRow
<1>3. d \in [Nat -> Nat] /\ \A t \in Nat : d[t] \in Uints
  BY DemandMod
<1> HIDE DEF d, p
<1> DEFINE start == InCritical(i)
<1> HIDE DEF start
<1>4. \E prev \in Nat :
           /\ F[start] = d[prev]
           /\ d[prev] <= prev \/ d[prev] > p
           /\ prev = start \/ (start < prev /\ prev <= p)
  BY <1>1, <1>2, <1>3, IterationEnds DEF start
<1> QED
  BY <1>1, <1>3, <1>4 DEF start


-----------------------------------------------------------------------------
(***************************************************************************)
(* Rate-monotonic mode.                                                    *)
(***************************************************************************)
\* The costs of the three sets in rate-monotonic mode.
RmNominal(i) == [j \in HigherPrioHigherCrit(i) |-> table[j].spec.nominal]
RmLower(i) == [j \in HigherPrioLowerCrit(i) |-> table[j].spec.exec]
RmPeers(i) == [j \in HigherPrioSameCrit(i) |-> table[j].spec.exec]

\* What they ask for together, before it wraps.
RmBusy(i, t) ==
  Interference(RmNominal(i), t) + Interference(RmLower(i), t) + Interference(RmPeers(i), t)

\* They are naturals.
LEMMA RmCosts ==
  ASSUME TypeOK, NEW i \in Rids
  PROVE  Costs(RmNominal(i)) /\ Costs(RmLower(i)) /\ Costs(RmPeers(i))
<1>1. Costs(RmNominal(i))
  <2>1. DOMAIN RmNominal(i) \subseteq Users
    BY DEF RmNominal, HigherPrioHigherCrit, Others, Users
  <2>2. ASSUME NEW j \in DOMAIN RmNominal(i) PROVE RmNominal(i)[j] \in Nat
    BY <2>1, UsedRow DEF RmNominal, Users
  <2> QED
    BY <2>1, <2>2 DEF Costs
<1>2. Costs(RmLower(i))
  <2>1. DOMAIN RmLower(i) \subseteq Users
    BY DEF RmLower, HigherPrioLowerCrit, Others, Users
  <2>2. ASSUME NEW j \in DOMAIN RmLower(i) PROVE RmLower(i)[j] \in Nat
    BY <2>1, UsedRow DEF RmLower, Users
  <2> QED
    BY <2>1, <2>2 DEF Costs
<1>3. Costs(RmPeers(i))
  <2>1. DOMAIN RmPeers(i) \subseteq Users
    BY DEF RmPeers, HigherPrioSameCrit, Others, Users
  <2>2. ASSUME NEW j \in DOMAIN RmPeers(i) PROVE RmPeers(i)[j] \in Nat
    BY <2>1, UsedRow DEF RmPeers, Users
  <2> QED
    BY <2>1, <2>2 DEF Costs
<1> QED
  BY <1>1, <1>2, <1>3

\* The interference is the sum, modulo the width of the type.
LEMMA RmInterferenceType ==
  ASSUME TypeOK, NEW i \in Rids, NEW t \in Nat
  PROVE  /\ RmBusy(i, t) \in Nat
         /\ getRMInterference(i, t) = Uint(RmBusy(i, t))
         /\ getRMInterference(i, t) \in Uints /\ getRMInterference(i, t) \in Nat
<1>1. RmBusy(i, t) \in Nat
  BY RmCosts, InterferenceType DEF RmBusy
<1>2. getRMInterference(i, t) = Uint(RmBusy(i, t))
  BY DEF getRMInterference, RmBusy, RmNominal, RmLower, RmPeers
<1> QED
  BY <1>1, <1>2, UintType

\* What an iteration finds keeps the types, whatever wraps.
LEMMA SlackType ==
  ASSUME TypeOK, test.pc = "admit", NEW resp \in Uints, Current.spec.period >= resp
  PROVE  /\ SlackAndZ(resp).slack \in Uints /\ SlackAndZ(resp).Z \in Nat
         /\ WithSlack(SlackAndZ(resp)).rm \in Uints /\ WithSlack(SlackAndZ(resp)).Z \in Nat
<1> DEFINE Z == Current.spec.period - resp
           rm == Current.rm
           demand == Uint(getRMInterference(test.new, Z) + rm)
           critical == Uint(resp - InCritical(test.new))
           pushed == Uint(Z + critical)
           interf1 == getRMInterference(test.new, pushed)
           found == SlackAndZ(resp)
<1>0. resp \in Nat
  BY Numbers
<1>1. /\ test.new \in Rids /\ table[test.new].used /\ test.slack \in Uints
      /\ rm \in Uints /\ rm \in Nat
      /\ Current.spec.period \in Nat /\ Current.spec.exec \in Uints
  <2>1. test.new \in Rids /\ table[test.new].used /\ test.slack \in Uints
    BY AdmitType
  <2> QED
    BY <2>1, UsedRow DEF Current
<1>2. Z \in Nat /\ critical \in Nat /\ pushed \in Nat
  <2>1. Z \in Nat
    BY <1>0, <1>1
  <2>2. critical \in Nat
    BY <1>0, <1>1, DemandMod, UintType
  <2> HIDE DEF Z, critical
  <2> QED
    BY <2>1, <2>2, UintType
<1>3. demand \in Nat /\ interf1 \in Nat
  <2> HIDE DEF Z, pushed
  <2>1. getRMInterference(test.new, Z) \in Nat /\ interf1 \in Nat
    BY <1>1, <1>2, RmInterferenceType
  <2> QED
    BY <1>1, <2>1, UintType
<1>4. found = IF Z > demand THEN [slack |-> Uint(Z - demand), Z |-> Z]
      ELSE IF Z < demand THEN [slack |-> 0, Z |-> Z]
      ELSE IF pushed <= Current.spec.period /\ interf1 <= critical
           THEN [slack |-> Uint(pushed - interf1 - rm), Z |-> pushed]
      ELSE [slack |-> test.slack, Z |-> Z]
  BY DEF SlackAndZ
<1>5. Uint(Z - demand) \in Uints /\ Uint(pushed - interf1 - rm) \in Uints
  <2> HIDE DEF Z, demand, pushed, interf1, rm
  <2> QED
    BY <1>1, <1>2, <1>3, UintType
<1>6. found.slack \in Uints /\ found.Z \in Nat
  <2> HIDE DEF Z, demand, critical, pushed, interf1, rm, found
  <2> QED
    BY <1>1, <1>2, <1>4, <1>5, Numbers
<1> HIDE DEF found
<1>7. Uint(Current.rm + found.slack) \in Uints
  BY <1>1, <1>6, Numbers, UintType
<1>8. WithSlack(found).rm \in Uints /\ WithSlack(found).Z \in Nat
  BY <1>1, <1>6, <1>7 DEF WithSlack
<1> QED
  BY <1>6, <1>8 DEF found

\* TypeOK is kept by every action.
LEMMA InitTypeOK == Init => TypeOK
<1> SUFFICES ASSUME Init PROVE TypeOK
  OBVIOUS
<1>1. TableRows(table) /\ zsinstant \in [Rids -> Nat] /\ order \in [Rids -> Rids]
  BY DEF Init, TableRows
<1>2. TestType
  BY DEF Init, TestType
<1> QED
  BY <1>1, <1>2, TypeParts DEF Init

LEMMA CreateRsvTypeOK == ASSUME TypeOK, NEW s \in Specs, CreateRsv(s) PROVE TypeOK'
<1> DEFINE rid == Min(Free)
           t == [table EXCEPT ![rid] = Entry(s)]
<1>1. rid \in Rids
  BY LeastFree DEF CreateRsv, Free
<1>2. Entry(s) \in RowSet
  BY Numbers DEF Entry, RowSet
<1>3. TableRows(t) /\ t[rid] \in RowSet
  BY <1>1, <1>2, TypeParts, RowsExcept
<1>4. Begin(t, rid)
  BY DEF CreateRsv
<1> HIDE DEF t, rid
<1>5. TableRows(table)' /\ TestType'
  BY <1>1, <1>3, <1>4, BeginType
<1> QED
  BY <1>5, TypeParts DEF CreateRsv, TypeOK, TableRows, TestType, RowSet

LEMMA KernelAnswerTypeOK == ASSUME TypeOK, KernelAnswer PROVE TypeOK'
<1>1. test.new \in Rids /\ table[test.new] \in RowSet /\ test.Z \in Nat
  BY AdmitType DEF KernelAnswer, Decided
<1>2. KernelInstant \in Nat
  BY <1>1 DEF KernelInstant
<1>3. \A z \in Nat : [table[test.new] EXCEPT !.zs = z] \in RowSet
  BY <1>1 DEF RowSet
<1>4. TableRows(table')
  <2>1. \/ table' = [table EXCEPT ![test.new] = [table[test.new] EXCEPT !.zs = KernelInstant]]
        \/ table' = [table EXCEPT ![test.new] = Unused]
    BY DEF KernelAnswer
  <2> QED
    BY <1>1, <1>2, <1>3, <2>1, TypeParts, RowsExcept
<1>5. TestType'
  BY DEF KernelAnswer, TestType
<1> QED
  BY <1>4, <1>5, TypeParts DEF KernelAnswer, TypeOK, TableRows, TestType, RowSet

LEMMA DeleteRsvTypeOK == ASSUME TypeOK, NEW i \in Rids, DeleteRsv(i) PROVE TypeOK'
<1>1. TableRows(table')
  BY TypeParts, RowsExcept DEF DeleteRsv
<1>2. test = NoTest
  <2>1. test \in [pc : {"sort"}, i : Rids, j : 2 .. Slots + 1] => test.pc = "sort"
    OBVIOUS
  <2>2. test.pc # "admit" /\ test.pc = "idle"
    BY DEF DeleteRsv
  <2> QED
    BY <2>1, <2>2, TypeParts DEF TestType
<1> QED
  BY <1>1, <1>2, TypeParts DEF DeleteRsv, TypeOK, TableRows, TestType, RowSet

LEMMA IsAdmissibleTypeOK ==
  ASSUME TypeOK, NEW s \in [Rids -> Specs], IsAdmissible(s) PROVE TypeOK'
<1>1. 1 \in Rids /\ 2 \in 2 .. Slots + 1
  BY Numbers
<1>2. TestType'
  BY <1>1 DEF IsAdmissible, TestType
<1> QED
  BY <1>2, TypeParts DEF IsAdmissible, TypeOK, TableRows, TestType, RowSet

\* The sort under way.
LEMMA SortType ==
  ASSUME TypeOK, test.pc = "sort"
  PROVE  test \in [pc : {"sort"}, i : Rids, j : 2 .. Slots + 1]
<1>1. NoTest.pc = "idle"
  BY DEF NoTest
<1>2. test \in [pc : {"admit"}, new : Rids, Z : Nat, prevZ : Nat,
                      resp : Uints, slack : Uints] => test.pc = "admit"
  OBVIOUS
<1> QED
  BY <1>1, <1>2, TypeParts DEF TestType

LEMMA CompareTypeOK == ASSUME TypeOK, IInv, Compare PROVE TypeOK'
<1>1. test \in [pc : {"sort"}, i : Rids, j : 2 .. Slots + 1]
  BY SortType DEF Compare
<1>2. test.i \in Rids /\ test.j \in 2 .. Slots + 1 /\ test.j <= Slots
  BY <1>1 DEF Compare
<1>3. test.j + 1 \in 2 .. Slots + 1 /\ test.j \in Rids
  BY <1>2, Numbers
<1>4. test' \in [pc : {"sort"}, i : Rids, j : 2 .. Slots + 1]
  BY <1>1, <1>2, <1>3 DEF Compare
<1>5. order' \in [Rids -> Rids]
  BY <1>2, <1>3, TypeParts DEF Compare, Swapped
<1> QED
  BY <1>4, <1>5, TypeParts DEF Compare, TypeOK, TableRows, TestType, RowSet

LEMMA NextPositionTypeOK == ASSUME TypeOK, NextPosition PROVE TypeOK'
<1>1. test \in [pc : {"sort"}, i : Rids, j : 2 .. Slots + 1]
  BY SortType DEF NextPosition
<1>2. test.i \in Rids /\ test.i < Slots
  BY <1>1 DEF NextPosition
<1>3. test.i + 1 \in Rids /\ test.i + 2 \in 2 .. Slots + 1
  BY <1>2, Numbers
<1>4. test' \in [pc : {"sort"}, i : Rids, j : 2 .. Slots + 1]
  BY <1>1, <1>2, <1>3 DEF NextPosition
<1> QED
  BY <1>4, TypeParts DEF NextPosition, TypeOK, TableRows, TestType, RowSet

LEMMA CopyTableTypeOK == ASSUME TypeOK, IInv, CopyTable PROVE TypeOK'
<1> DEFINE t == [i \in Rids |-> Entry(specs[order[i]])]
<1>1. specs \in [Rids -> Specs] /\ order \in [Rids -> Rids]
  BY DEF IInv, Sorting, CopyTable
<1>2. \A i \in Rids : t[i] \in RowSet
  BY <1>1, Numbers DEF Entry, RowSet
<1>3. TableRows(t) /\ 1 \in Rids
  BY <1>2, Numbers DEF TableRows
<1>4. Begin(t, 1)
  BY DEF CopyTable
<1> HIDE DEF t
<1>5. TableRows(table)' /\ TestType'
  BY <1>2, <1>3, <1>4, BeginType
<1> QED
  BY <1>5, TypeParts DEF CopyTable, TypeOK, TableRows, TestType, RowSet

LEMMA IterateTypeOK == ASSUME TypeOK, Iterate PROVE TypeOK'
<1> DEFINE n == test.new
           resp == getResponseTimeCritNs(n)
           next == WithSlack(SlackAndZ(resp))
<1>1. /\ test \in [pc : {"admit"}, new : Rids, Z : Nat, prevZ : Nat,
                      resp : Uints, slack : Uints]
      /\ n \in Rids /\ table[n].used /\ table[n] \in RowSet
  BY AdmitType DEF Iterate
<1>2. resp \in Uints
  BY <1>1, ResponseType
<1>3. \/ /\ Current.spec.period >= resp
         /\ table' = [table EXCEPT ![n].rm = next.rm]
         /\ test' = [test EXCEPT !.prevZ = test.Z, !.resp = resp,
                                 !.slack = SlackAndZ(resp).slack, !.Z = next.Z]
      \/ /\ test' = [test EXCEPT !.prevZ = test.Z, !.resp = resp]
         /\ UNCHANGED table
  BY DEF Iterate
<1>4. TableRows(table)' /\ TestType'
  <2>1. CASE /\ Current.spec.period >= resp
             /\ table' = [table EXCEPT ![n].rm = next.rm]
             /\ test' = [test EXCEPT !.prevZ = test.Z, !.resp = resp,
                                 !.slack = SlackAndZ(resp).slack, !.Z = next.Z]
    <3>1. /\ SlackAndZ(resp).slack \in Uints
          /\ next.rm \in Uints /\ next.Z \in Nat
      <4> HIDE DEF resp
      <4> QED
        BY <1>2, <2>1, SlackType DEF Iterate
    <3> HIDE DEF resp, next
    <3>2. TableRows(table') /\ table'[n] \in RowSet
      BY <1>1, <2>1, <3>1, TypeParts, RmExcept
    <3>3. /\ test' \in [pc : {"admit"}, new : Rids, Z : Nat, prevZ : Nat,
                      resp : Uints, slack : Uints]
          /\ test'.new = n
      BY <1>1, <1>2, <2>1, <3>1
    <3>4. table'[n].used
      BY <3>2 DEF RowSet
    <3>5. TestType'
      BY <3>3, <3>4 DEF TestType, Current
    <3> QED
      BY <3>2, <3>5 DEF TableRows
  <2>2. CASE /\ test' = [test EXCEPT !.prevZ = test.Z, !.resp = resp]
             /\ UNCHANGED table
    <3> HIDE DEF resp
    <3>1. /\ test' \in [pc : {"admit"}, new : Rids, Z : Nat, prevZ : Nat,
                      resp : Uints, slack : Uints]
          /\ test'.new = n
      BY <1>1, <1>2, <2>2
    <3>2. TestType'
      BY <1>1, <2>2, <3>1 DEF TestType, Current
    <3> QED
      BY <2>2, <3>2, TypeParts DEF TableRows
  <2> QED
    BY <1>3, <2>1, <2>2
<1> QED
  BY <1>4, TypeParts DEF Iterate, TypeOK, TableRows, TestType, RowSet

LEMMA LibraryPassesTypeOK == ASSUME TypeOK, IInv, LibraryPasses PROVE TypeOK'
<1>1. /\ test.new \in Rids /\ test.Z \in Nat
  BY AdmitType DEF LibraryPasses, Decided
<1>2. zsinstant' \in [Rids -> Nat]
  BY <1>1, TypeParts DEF LibraryPasses
<1>3. CASE test.new < Slots
  <2> DEFINE m == test.new + 1
  <2>1. m \in Rids
    BY <1>1, <1>3, Numbers
  <2>2. table[m] \in RowSet
    <3>1. Row(m)
      BY <2>1 DEF LibraryPasses, Decided, IInv, Testing
    <3>2. "spec" \notin DOMAIN Unused
      BY DEF Unused
    <3> QED
      BY <2>1, <3>1, <3>2, TypeParts DEF Row, TableRows
  <2>3. Begin(table, m) /\ UNCHANGED answer
    BY <1>3 DEF LibraryPasses
  <2> HIDE DEF m
  <2>4. TableRows(table)' /\ TestType'
    BY <2>1, <2>2, <2>3, TypeParts, BeginType
  <2> QED
    BY <1>2, <2>3, <2>4, TypeParts DEF LibraryPasses, TypeOK, TableRows, TestType, RowSet
<1>4. CASE ~(test.new < Slots)
  <2>1. test' = NoTest /\ answer' = "admissible" /\ UNCHANGED table
    BY <1>4 DEF LibraryPasses
  <2>2. TestType'
    BY <2>1 DEF TestType
  <2> QED
    BY <1>2, <2>1, <2>2, TypeParts DEF LibraryPasses, TypeOK, TableRows, TestType, RowSet
<1> QED
  BY <1>3, <1>4

LEMMA LibraryFailsTypeOK == ASSUME TypeOK, LibraryFails PROVE TypeOK'
<1>1. TestType'
  BY DEF LibraryFails, TestType
<1> QED
  BY <1>1, TypeParts DEF LibraryFails, TypeOK, TableRows, TestType, RowSet

LEMMA NextTypeOK == TypeOK /\ IInv /\ [Next]_vars => TypeOK'
<1> SUFFICES ASSUME TypeOK, IInv, [Next]_vars PROVE TypeOK'
  OBVIOUS
<1>1. CASE Run
  BY <1>1, CompareTypeOK, NextPositionTypeOK, CopyTableTypeOK, IterateTypeOK,
     KernelAnswerTypeOK, LibraryPassesTypeOK, LibraryFailsTypeOK DEF Run
<1>2. CASE \E s \in Specs : CreateRsv(s)
  BY <1>2, CreateRsvTypeOK
<1>3. CASE \E i \in Rids : DeleteRsv(i)
  BY <1>3, DeleteRsvTypeOK
<1>4. CASE \E s \in [Rids -> Specs] : IsAdmissible(s)
  BY <1>4, IsAdmissibleTypeOK
<1>5. CASE UNCHANGED vars
  BY <1>5 DEF vars, TypeOK, Current
<1> QED
  BY <1>1, <1>2, <1>3, <1>4, <1>5 DEF Next

\* The table, the instants and the locals of the test keep their types: no count
\* leaves unsigned long long, an entry under test is one in use, and the recursion
\* of the response time ends in a count.
THEOREM AdmissionTypeCorrect == Spec => []TypeOK
BY InitIInv, NextIInv, InitTypeOK, NextTypeOK, PTL DEF Spec


-----------------------------------------------------------------------------
(***************************************************************************)
(* The verdict.  Within the horizon nothing wraps: the demand of the code  *)
(* is that of the reference definition, and the iteration on Z keeps the   *)
(* first verdict.                                                          *)
(***************************************************************************)
\* The demand of the whole table, over a period or a budget of the reserve
\* under test and with every budget counted, fits the type: 64 bits.
NoOverflow ==
  \A s \in Specs, f \in [Rids -> Specs] :
    \A t \in (0 .. s.period) \cup (0 .. s.exec) :
      s.exec + Total([j \in Rids |-> numArrivals(t, f[j].period) * (f[j].exec + f[j].nominal)])
        < UintMod

\* NoWrap, for the reserves other than the one under test.
OthersNoWrap(i) ==
  \A j \in Rids \ {i} : table[j].used => table[j].rm <= table[j].spec.nominal

\* The intervals the iterations look at.
Horizon(i) == (0 .. table[i].spec.period) \cup (0 .. table[i].spec.exec)

\* A sum is no less than any of its entries.
LEMMA TotalAtLeast ==
  ASSUME NEW f, \A j \in Rids : f[j] \in Nat, NEW i \in Rids
  PROVE  Total(f) >= f[i]
<1>1. PICK g \in [0 .. Slots -> Int] :
        /\ g[0] = 0 /\ \A k \in Rids : g[k] = g[k - 1] + f[k]
        /\ Total(f) = g[Slots]
  BY TotalIsSum
<1>2. Slots \in Nat /\ Slots \in 0 .. Slots /\ Rids = 1 .. Slots /\ f[i] \in Nat
  BY SlotsAssumption DEF Rids
<1> DEFINE S == {n \in 0 .. Slots : g[n] >= 0 /\ (n >= i => g[n] >= f[i])}
<1>3. S \in SUBSET (0 .. Slots) /\ 0 \in S
  BY <1>1, <1>2
<1>4. ASSUME NEW n \in 1 .. Slots, n - 1 \in S
      PROVE  n \in S
  <2>1. n \in Rids /\ n \in 0 .. Slots /\ g[n - 1] >= 0 /\ g[n - 1] \in Int
        /\ (n - 1 >= i => g[n - 1] >= f[i]) /\ f[n] \in Nat
    BY <1>2, <1>4
  <2>2. g[n] = g[n - 1] + f[n]
    BY <1>1, <2>1
  <2>3. g[n] >= 0 /\ (n >= i => g[n] >= f[i])
    <3>1. CASE n = i
      BY <2>1, <2>2, <3>1
    <3>2. CASE n # i
      <4>1. n >= i => n - 1 >= i
        BY <1>2, <2>1, <3>2
      <4> QED
        BY <1>2, <2>1, <2>2, <4>1
    <3> QED
      BY <3>1, <3>2
  <2> QED
    BY <2>1, <2>3
<1> HIDE DEF S
<1>5. S = 0 .. Slots
  BY <1>2, <1>3, <1>4, IntervalInduction
<1>6. g[Slots] >= f[i]
  BY <1>2, <1>5 DEF S
<1> QED
  BY <1>1, <1>6

\* A demand that no reserve exceeds does not overflow.
LEMMA TotalFits ==
  ASSUME NoOverflow, TypeOK, NEW i \in Rids, table[i].used, NEW t \in Horizon(i),
         NEW h,
         \A j \in Rids : h[j] \in Nat,
         \A j \in Rids : h[j] # 0 =>
            /\ table[j].used
            /\ h[j] <= numArrivals(t, table[j].spec.period)
                         * (table[j].spec.exec + table[j].spec.nominal)
  PROVE  Total(h) \in Nat /\ table[i].spec.exec + Total(h) < UintMod
<1> DEFINE f == [j \in Rids |-> IF table[j].used THEN table[j].spec ELSE table[i].spec]
           w == [j \in Rids |-> numArrivals(t, f[j].period) * (f[j].exec + f[j].nominal)]
<1>1. f \in [Rids -> Specs] /\ table[i].spec \in Specs
  BY UsedRow
<1>2. t \in Nat /\ table[i].spec.exec \in Nat
  BY UsedRow DEF Horizon
<1>3. \A j \in Rids : w[j] \in Nat
  <2> SUFFICES ASSUME NEW j \in Rids PROVE w[j] \in Nat
    OBVIOUS
  <2>1. f[j] \in [period : Nat \ {0}, exec : Nat, nominal : Nat, crit : Nat]
    BY <1>1, SpecsAssumption
  <2> HIDE DEF f
  <2>2. f[j].period \in Nat \ {0} /\ f[j].exec + f[j].nominal \in Nat
    BY <2>1
  <2>3. numArrivals(t, f[j].period) \in Nat
    BY <1>2, <2>2, Arrivals
  <2> QED
    BY <2>2, <2>3, ProductMonotone
<1>4. \A j \in Rids : h[j] <= w[j]
  <2> SUFFICES ASSUME NEW j \in Rids PROVE h[j] <= w[j]
    OBVIOUS
  <2>1. CASE h[j] = 0
    <3>1. w[j] \in Nat
      BY <1>3
    <3> HIDE DEF w
    <3> QED
      BY <2>1, <3>1
  <2>2. CASE h[j] # 0
    <3>1. f[j] = table[j].spec
      BY <2>2
    <3> QED
      BY <2>2, <3>1
  <2> QED
    BY <2>1, <2>2
<1>5. table[i].spec.exec + Total(w) < UintMod
  <2>1. t \in (0 .. table[i].spec.period) \cup (0 .. table[i].spec.exec)
    BY DEF Horizon
  <2> HIDE DEF f
  <2> QED
    BY <1>1, <2>1 DEF NoOverflow
<1> HIDE DEF w, f
<1>6. Total(h) <= Total(w) /\ Total(h) \in Nat /\ Total(w) \in Nat
  <2>1. \A j \in Rids : h[j] \in Int /\ w[j] \in Int /\ h[j] <= w[j]
    BY <1>3, <1>4
  <2> QED
    BY <1>3, <2>1, TotalMonotone, TotalNat
<1> QED
  BY <1>2, <1>5, <1>6, UintModAssumption

\* So a nominal budget fits the type.
LEMMA NominalFits == ASSUME NoOverflow, NEW s \in Specs PROVE s.nominal < UintMod
<1> DEFINE f == [j \in Rids |-> s]
           w == [j \in Rids |-> numArrivals(s.period, f[j].period) * (f[j].exec + f[j].nominal)]
           a == numArrivals(s.period, s.period)
<1>1. s.period \in Nat \ {0} /\ s.exec \in Nat /\ s.nominal \in Nat
  BY SpecsAssumption
<1>2. a \in Nat /\ a * s.period >= s.period
  BY <1>1, Arrivals
<1>3. a >= 1
  <2> HIDE DEF a
  <2> QED
    BY <1>1, <1>2
<1>4. f \in [Rids -> Specs] /\ s.period \in (0 .. s.period) \cup (0 .. s.exec)
  BY <1>1
<1>5. s.exec + Total(w) < UintMod
  BY <1>4 DEF NoOverflow
<1>6. \A j \in Rids : w[j] = a * (s.exec + s.nominal)
  OBVIOUS
<1> HIDE DEF w, f, a
<1>7. a * (s.exec + s.nominal) \in Nat /\ a * (s.exec + s.nominal) >= s.nominal
  <2>1. 1 * (s.exec + s.nominal) <= a * (s.exec + s.nominal) /\ a * (s.exec + s.nominal) \in Nat
    BY <1>1, <1>2, <1>3, ProductMonotone
  <2> QED
    BY <1>1, <2>1
<1>8. 1 \in Rids
  BY Numbers
<1>9. Total(w) >= w[1] /\ Total(w) \in Nat
  BY <1>6, <1>7, <1>8, TotalAtLeast, TotalNat
<1> QED
  BY <1>1, <1>5, <1>6, <1>7, <1>8, <1>9, UintModAssumption

-----------------------------------------------------------------------------
\* The cost of reserve j in the reference definition, Demand.
CostOf(i, j) ==
  LET o == table[j].spec
      s == table[i].spec
  IN  CASE o.crit > s.crit /\ o.period <= s.period -> o.nominal
        [] o.crit > s.crit /\ o.period > s.period -> Remaining(j)
        [] o.crit = s.crit /\ o.period <= s.period -> o.exec
        [] OTHER -> 0

\* What each reserve is owed in an interval of t, by that definition.
Owed(i, t) ==
  [j \in Rids |-> IF table[j].used /\ j # i
                  THEN ((t + table[j].spec.period - 1) \div table[j].spec.period) * CostOf(i, j)
                  ELSE 0]

\* The reference definition, in these terms.
LEMMA DemandIs ==
  ASSUME NEW i \in Rids, NEW t
  PROVE  Demand(i, t) = table[i].spec.exec + Total(Owed(i, t))
BY DEF Demand, Owed, CostOf

\* Without a wrap, the budget left is the difference.
LEMMA RemainingIs ==
  ASSUME NoOverflow, TypeOK, NEW j \in Rids, table[j].used,
         table[j].rm <= table[j].spec.nominal
  PROVE  /\ Remaining(j) = table[j].spec.nominal - table[j].rm
         /\ getExecTimeLowerPrioHigherCrit(j) = Remaining(j)
         /\ Remaining(j) \in Nat /\ Remaining(j) <= table[j].spec.nominal
<1> DEFINE v == table[j].spec.nominal - table[j].rm
           x == Max({v, 0})
<1>1. table[j].spec.nominal \in Nat /\ table[j].rm \in Nat /\ table[j].spec \in Specs
  BY UsedRow
<1>2. v \in Nat /\ v <= table[j].spec.nominal
  BY <1>1
<1>3. v < UintMod
  BY <1>1, <1>2, NominalFits, UintModAssumption
<1>4. x = v
  <2> HIDE DEF v
  <2>1. \E a \in {v, 0} : \A b \in {v, 0} : a >= b
    BY <1>2
  <2>2. x \in {v, 0} /\ \A b \in {v, 0} : x >= b
    BY <2>1 DEF Max
  <2> QED
    BY <1>2, <2>2
<1>5. Remaining(j) = x
  BY DEF Remaining
<1>6. Uint(v) = v
  <2> HIDE DEF v
  <2> QED
    BY <1>2, <1>3, UintType, UintModAssumption DEF Uints
<1> QED
  BY <1>2, <1>4, <1>5, <1>6 DEF getExecTimeLowerPrioHigherCrit

\* The four relations of reserve j to reserve i, and what each costs.
LEMMA CostOfIs ==
  ASSUME NoOverflow, TypeOK, NEW i \in Rids, table[i].used, OthersNoWrap(i),
         NEW j \in Rids, table[j].used, j # i
  PROVE  /\ CostOf(i, j) \in Nat
         /\ CostOf(i, j) <= table[j].spec.exec + table[j].spec.nominal
         /\ \/ /\ j \in HigherPrioHigherCrit(i)
               /\ j \notin LowerPrioHigherCrit(i) /\ j \notin HigherPrioSameCrit(i)
               /\ CostOf(i, j) = Nominal(i)[j]
            \/ /\ j \in LowerPrioHigherCrit(i)
               /\ j \notin HigherPrioHigherCrit(i) /\ j \notin HigherPrioSameCrit(i)
               /\ CostOf(i, j) = Rest(i)[j]
            \/ /\ j \in HigherPrioSameCrit(i)
               /\ j \notin HigherPrioHigherCrit(i) /\ j \notin LowerPrioHigherCrit(i)
               /\ CostOf(i, j) = Peers(i)[j]
            \/ /\ j \notin HigherPrioHigherCrit(i) /\ j \notin LowerPrioHigherCrit(i)
               /\ j \notin HigherPrioSameCrit(i)
               /\ CostOf(i, j) = 0
<1> DEFINE o == table[j].spec
           s == table[i].spec
<1>1. /\ o.period \in Nat \ {0} /\ o.exec \in Nat /\ o.nominal \in Nat /\ o.crit \in Nat
      /\ s.period \in Nat \ {0} /\ s.crit \in Nat
  BY UsedRow
<1>2. /\ j \in HigherPrioHigherCrit(i) <=> s.period >= o.period /\ s.crit < o.crit
      /\ j \in LowerPrioHigherCrit(i) <=> s.period < o.period /\ s.crit < o.crit
      /\ j \in HigherPrioSameCrit(i) <=> s.period >= o.period /\ s.crit = o.crit
  BY DEF HigherPrioHigherCrit, LowerPrioHigherCrit, HigherPrioSameCrit, Others,
     isHigherPrioHigherCrit, isLowerPrioHigherCrit, isHigherPrioSameCrit
<1>3. /\ Remaining(j) \in Nat /\ Remaining(j) <= o.nominal
      /\ getExecTimeLowerPrioHigherCrit(j) = Remaining(j)
  BY RemainingIs DEF OthersNoWrap
<1>4. CostOf(i, j) = CASE o.crit > s.crit /\ o.period <= s.period -> o.nominal
        [] o.crit > s.crit /\ o.period > s.period -> Remaining(j)
        [] o.crit = s.crit /\ o.period <= s.period -> o.exec
        [] OTHER -> 0
  BY DEF CostOf
<1>5. /\ j \in HigherPrioHigherCrit(i) => Nominal(i)[j] = o.nominal
      /\ j \in LowerPrioHigherCrit(i) => Rest(i)[j] = Remaining(j)
      /\ j \in HigherPrioSameCrit(i) => Peers(i)[j] = o.exec
  BY <1>3 DEF Nominal, Rest, Peers, getExecTimeHigherPrioHigherCrit,
     getExecTimeHigherPrioSameCrit
<1> HIDE DEF o, s
<1>6. CASE s.period >= o.period /\ s.crit < o.crit
  <2>1. CostOf(i, j) = o.nominal
    BY <1>1, <1>4, <1>6
  <2> QED
    BY <1>1, <1>2, <1>5, <1>6, <2>1 DEF o
<1>7. CASE s.period < o.period /\ s.crit < o.crit
  <2>1. CostOf(i, j) = Remaining(j)
    BY <1>1, <1>4, <1>7
  <2>2. CostOf(i, j) <= o.exec + o.nominal
    BY <1>1, <1>3, <2>1
  <2> QED
    BY <1>1, <1>2, <1>3, <1>5, <1>7, <2>1, <2>2 DEF o
<1>8. CASE s.period >= o.period /\ s.crit = o.crit
  <2>1. CostOf(i, j) = o.exec
    BY <1>1, <1>4, <1>8
  <2> QED
    BY <1>1, <1>2, <1>5, <1>8, <2>1 DEF o
<1>9. CASE /\ ~(s.period >= o.period /\ s.crit < o.crit)
           /\ ~(s.period < o.period /\ s.crit < o.crit)
           /\ ~(s.period >= o.period /\ s.crit = o.crit)
  <2>1. CostOf(i, j) = 0
    BY <1>1, <1>4, <1>9
  <2> QED
    BY <1>1, <1>2, <1>9, <2>1 DEF o
<1> QED
  BY <1>6, <1>7, <1>8, <1>9

\* Entry by entry, the code's three sets are the reference definition.
LEMMA OwedIs ==
  ASSUME NoOverflow, TypeOK, NEW i \in Rids, table[i].used, OthersNoWrap(i),
         NEW t \in Nat, NEW j \in Rids
  PROVE  /\ Owed(i, t)[j] = Part(Nominal(i), t, j) + Part(Rest(i), t, j) + Part(Peers(i), t, j)
         /\ Owed(i, t)[j] \in Nat
         /\ Owed(i, t)[j] # 0 =>
              /\ table[j].used
              /\ Owed(i, t)[j] <= numArrivals(t, table[j].spec.period)
                                    * (table[j].spec.exec + table[j].spec.nominal)
<1>1. /\ DOMAIN Nominal(i) = HigherPrioHigherCrit(i)
      /\ DOMAIN Rest(i) = LowerPrioHigherCrit(i)
      /\ DOMAIN Peers(i) = HigherPrioSameCrit(i)
  BY DEF Nominal, Rest, Peers
<1>2. CASE table[j].used /\ j # i
  <2> DEFINE a == numArrivals(t, table[j].spec.period)
             c == CostOf(i, j)
             m == table[j].spec.exec + table[j].spec.nominal
  <2>1. /\ a \in Nat /\ m \in Nat
        /\ (t + table[j].spec.period - 1) \div table[j].spec.period = a
    BY <1>2, UsedRow, Arrivals
  <2>2. Owed(i, t)[j] = a * c
    BY <1>2, <2>1 DEF Owed
  <2>3. /\ c \in Nat /\ c <= m
        /\ \/ /\ j \in HigherPrioHigherCrit(i)
               /\ j \notin LowerPrioHigherCrit(i) /\ j \notin HigherPrioSameCrit(i)
               /\ c = Nominal(i)[j]
            \/ /\ j \in LowerPrioHigherCrit(i)
               /\ j \notin HigherPrioHigherCrit(i) /\ j \notin HigherPrioSameCrit(i)
               /\ c = Rest(i)[j]
            \/ /\ j \in HigherPrioSameCrit(i)
               /\ j \notin HigherPrioHigherCrit(i) /\ j \notin LowerPrioHigherCrit(i)
               /\ c = Peers(i)[j]
            \/ /\ j \notin HigherPrioHigherCrit(i) /\ j \notin LowerPrioHigherCrit(i)
               /\ j \notin HigherPrioSameCrit(i)
               /\ c = 0
    BY <1>2, CostOfIs
  <2>4. /\ Part(Nominal(i), t, j) = IF j \in HigherPrioHigherCrit(i) THEN a * Nominal(i)[j] ELSE 0
        /\ Part(Rest(i), t, j) = IF j \in LowerPrioHigherCrit(i) THEN a * Rest(i)[j] ELSE 0
        /\ Part(Peers(i), t, j) = IF j \in HigherPrioSameCrit(i) THEN a * Peers(i)[j] ELSE 0
    BY <1>1 DEF Part
  <2> HIDE DEF a, c, m
  <2>5. a * c \in Nat /\ a * c <= a * m
    <3>1. a * c = c * a /\ a * m = m * a
      BY <2>1, <2>3
    <3> QED
      BY <2>1, <2>3, <3>1, ProductMonotone
  <2>6. a * c = Part(Nominal(i), t, j) + Part(Rest(i), t, j) + Part(Peers(i), t, j)
    <3>1. c = 0 => a * c = 0
      BY <2>1
    <3> DEFINE ac == a * c
    <3>2. ac \in Nat
      BY <2>5
    <3>3. /\ c = Nominal(i)[j] => a * Nominal(i)[j] = ac
          /\ c = Rest(i)[j] => a * Rest(i)[j] = ac
          /\ c = Peers(i)[j] => a * Peers(i)[j] = ac
      OBVIOUS
    <3> HIDE DEF ac
    <3>4. ac = Part(Nominal(i), t, j) + Part(Rest(i), t, j) + Part(Peers(i), t, j)
      BY <2>3, <2>4, <3>1, <3>2, <3>3 DEF ac
    <3> QED
      BY <3>4 DEF ac
  <2> QED
    BY <1>2, <2>2, <2>5, <2>6 DEF a, m
<1>3. CASE ~(table[j].used /\ j # i)
  <2>1. Owed(i, t)[j] = 0
    BY <1>3 DEF Owed
  <2>2. j \notin HigherPrioHigherCrit(i) /\ j \notin LowerPrioHigherCrit(i)
        /\ j \notin HigherPrioSameCrit(i)
    BY <1>3 DEF HigherPrioHigherCrit, LowerPrioHigherCrit, HigherPrioSameCrit, Others
  <2> QED
    BY <1>1, <2>1, <2>2 DEF Part
<1> QED
  BY <1>2, <1>3

\* So are their sums.
LEMMA BusyIs ==
  ASSUME NoOverflow, TypeOK, NEW i \in Rids, table[i].used, OthersNoWrap(i), NEW t \in Nat
  PROVE  Busy(i, t) = Total(Owed(i, t)) /\ Demand(i, t) = table[i].spec.exec + Busy(i, t)
<1>1. Busy(i, t) = Total(Owed(i, t))
  BY CritCosts, OwedIs, ThreeParts DEF Busy
<1> QED
  BY <1>1, DemandIs

\* The demand grows with the interval.
LEMMA BusyMonotone ==
  ASSUME NoOverflow, TypeOK, NEW i \in Rids, table[i].used, OthersNoWrap(i),
         NEW t \in Nat, NEW u \in Nat, t <= u
  PROVE  Busy(i, t) <= Busy(i, u)
<1>1. \A j \in Rids : /\ Owed(i, t)[j] \in Int /\ Owed(i, u)[j] \in Int
                      /\ Owed(i, t)[j] <= Owed(i, u)[j]
  <2> SUFFICES ASSUME NEW j \in Rids
               PROVE  /\ Owed(i, t)[j] \in Int /\ Owed(i, u)[j] \in Int
                      /\ Owed(i, t)[j] <= Owed(i, u)[j]
    OBVIOUS
  <2> DEFINE N(x) == Part(Nominal(i), x, j)
             R(x) == Part(Rest(i), x, j)
             P(x) == Part(Peers(i), x, j)
  <2>1. /\ N(t) \in Nat /\ R(t) \in Nat /\ P(t) \in Nat
        /\ N(u) \in Nat /\ R(u) \in Nat /\ P(u) \in Nat
    BY CritCosts, PartType
  <2>2. N(t) <= N(u) /\ R(t) <= R(u) /\ P(t) <= P(u)
    BY CritCosts, PartMonotone
  <2>3. Owed(i, t)[j] = N(t) + R(t) + P(t) /\ Owed(i, u)[j] = N(u) + R(u) + P(u)
    BY OwedIs
  <2> HIDE DEF N, R, P
  <2> QED
    BY <2>1, <2>2, <2>3
<1> QED
  BY <1>1, BusyIs, TotalMonotone

\* No pass of the iteration wraps within the horizon.
LEMMA DemandExact ==
  ASSUME NoOverflow, TypeOK, NEW i \in Rids, table[i].used, OthersNoWrap(i),
         table[i].rm <= table[i].spec.exec
  PROVE  /\ InCritical(i) = table[i].spec.exec - table[i].rm
         /\ \A t \in Horizon(i) : /\ t \in Nat /\ Busy(i, t) \in Nat
                                  /\ CritDemand(i, t) = InCritical(i) + Busy(i, t)
<1>1. /\ table[i].spec.exec \in Nat /\ table[i].rm \in Nat /\ table[i].spec.exec \in Uints
      /\ table[i].spec.period \in Nat
  BY UsedRow
<1>2. InCritical(i) = table[i].spec.exec - table[i].rm
  <2> DEFINE v == table[i].spec.exec - table[i].rm
  <2>1. v \in Nat /\ v \in Uints
    BY <1>1, UintModAssumption DEF Uints
  <2> HIDE DEF v
  <2>2. Uint(v) = v
    BY <2>1, UintType
  <2> QED
    BY <2>2 DEF v, InCritical
<1>3. ASSUME NEW t \in Horizon(i)
      PROVE  /\ t \in Nat /\ Busy(i, t) \in Nat
             /\ CritDemand(i, t) = InCritical(i) + Busy(i, t)
  <2>1. t \in Nat
    BY <1>1 DEF Horizon
  <2>2. /\ \A j \in Rids : Owed(i, t)[j] \in Nat
        /\ \A j \in Rids : Owed(i, t)[j] # 0 =>
            /\ table[j].used
            /\ Owed(i, t)[j] <= numArrivals(t, table[j].spec.period)
                         * (table[j].spec.exec + table[j].spec.nominal)
    BY <2>1, OwedIs
  <2>3. Busy(i, t) \in Nat /\ table[i].spec.exec + Busy(i, t) < UintMod
    BY <2>1, <2>2, TotalFits, BusyIs
  <2>4. InCritical(i) + Busy(i, t) \in Uints
    BY <1>1, <1>2, <2>3, UintModAssumption DEF Uints
  <2>5. CritDemand(i, t) = Uint(InCritical(i) + Busy(i, t))
    BY <2>1, DemandMod
  <2>6. InCritical(i) + Busy(i, t) \in Int
    BY <1>1, <1>2, <2>3
  <2> QED
    BY <2>1, <2>3, <2>4, <2>5, <2>6, UintType
<1> QED
  BY <1>2, <1>3

\* The response time is in the period if the budget fits, at any iteration; at
\* the first, it is only if it fits.
LEMMA ResponseVerdict ==
  ASSUME NoOverflow, TypeOK, NEW i \in Rids, table[i].used, OthersNoWrap(i),
         table[i].rm <= table[i].spec.exec
  PROVE  /\ getResponseTimeCritNs(i) >= InCritical(i)
         /\ Fits(i) => getResponseTimeCritNs(i) <= table[i].spec.period
         /\ /\ table[i].rm = 0 /\ table[i].spec.exec > 0
            /\ getResponseTimeCritNs(i) <= table[i].spec.period
            => Fits(i)
<1> DEFINE d == [t \in Nat |-> CritDemand(i, t)]
           p == table[i].spec.period
           c == table[i].spec.exec
           b == InCritical(i)
           resp == getResponseTimeCritNs(i)
<1>1. p \in Nat /\ c \in Nat /\ b \in Nat /\ b <= c /\ (table[i].rm = 0 => b = c)
  BY UsedRow, DemandExact
<1>2. d \in [Nat -> Nat]
  BY DemandMod
<1>3. PICK F \in [Nat -> Nat] : /\ \A prev \in Nat : Answered(d, p, F, prev)
                                /\ resp = F[b]
  BY ResponseIs
<1>4. \A t \in Nat : t <= p \/ t <= c => Busy(i, t) \in Nat /\ d[t] = b + Busy(i, t)
  <2> SUFFICES ASSUME NEW t \in Nat, t <= p \/ t <= c
               PROVE  Busy(i, t) \in Nat /\ d[t] = b + Busy(i, t)
    OBVIOUS
  <2>1. t \in Horizon(i)
    BY <1>1 DEF Horizon
  <2> QED
    BY <2>1, DemandExact
<1>5. \A t \in Nat : Demand(i, t) = c + Busy(i, t)
  BY BusyIs
<1>6. \A t, u \in Nat : t <= u => Busy(i, t) <= Busy(i, u)
  BY BusyMonotone
<1>7. Fits(i) <=> \E t \in 1 .. p : Demand(i, t) <= t
  BY DEF Fits
<1> HIDE DEF d, p, c, b, resp
<1>8. PICK prev \in Nat :
           /\ F[b] = d[prev]
           /\ d[prev] <= prev \/ d[prev] > p
           /\ prev = b \/ (b < prev /\ prev <= p)
  BY <1>1, <1>2, <1>3, IterationEnds
<1>9. resp = b + Busy(i, prev) /\ Busy(i, prev) \in Nat
  BY <1>1, <1>3, <1>4, <1>8
<1>10. resp >= b
  BY <1>1, <1>9
<1>11. ASSUME Fits(i) PROVE resp <= p
  <2>1. PICK t \in 1 .. p : Demand(i, t) <= t
    BY <1>7, <1>11
  <2>2. t \in Nat /\ t <= p /\ Busy(i, t) \in Nat /\ c + Busy(i, t) <= t
    BY <1>1, <1>4, <1>5, <2>1
  <2>3. \A a \in 0 .. t : d[a] <= t
    <3> SUFFICES ASSUME NEW a \in 0 .. t PROVE d[a] <= t
      OBVIOUS
    <3>1. a \in Nat /\ a <= p /\ a <= t
      BY <1>1, <2>2
    <3>2. Busy(i, a) \in Nat /\ d[a] = b + Busy(i, a) /\ Busy(i, a) <= Busy(i, t)
      BY <1>4, <1>6, <2>2, <3>1
    <3> QED
      BY <1>1, <2>2, <3>2
  <2>4. b \in 0 .. t
    BY <1>1, <2>2
  <2>5. F[b] <= t
    BY <1>1, <1>2, <1>3, <2>2, <2>3, <2>4, IterationBounded
  <2> QED
    BY <1>1, <1>2, <1>3, <2>2, <2>5
<1>12. ASSUME table[i].rm = 0, c > 0, resp <= p PROVE Fits(i)
  <2>1. b = c
    BY <1>1, <1>12
  <2>2. d[prev] <= prev
    BY <1>1, <1>2, <1>3, <1>8, <1>12
  <2>3. prev >= b /\ prev <= p
    <3>1. CASE prev = b
      BY <1>1, <1>3, <1>8, <1>10, <1>12, <2>2, <3>1
    <3>2. CASE prev # b
      BY <1>1, <1>8, <3>2
    <3> QED
      BY <3>1, <3>2
  <2>4. prev \in 1 .. p
    BY <1>1, <1>12, <2>1, <2>3
  <2>5. Demand(i, prev) <= prev
    BY <1>3, <1>5, <1>8, <1>9, <2>1, <2>2
  <2> QED
    BY <1>7, <2>4, <2>5
<1> QED
  BY <1>10, <1>11, <1>12 DEF b, c, p, resp

-----------------------------------------------------------------------------
\* Rate-monotonic mode holds no more than the budget.
RmBounded == \A i \in Rids : table[i].used => table[i].rm <= table[i].spec.exec

\* A test that has not iterated yet.
Fresh ==
  test.Z = 1 /\ test.prevZ = 0 /\ test.resp = 0 /\ test.slack = 0 /\ Current.rm = 0

\* Once it has, the verdict is the one of the first iteration.
VerdictKept ==
  test.pc = "admit" =>
    \/ Fresh
    \/ OthersNoWrap(test.new) /\ Current.spec.exec > 0 => (Verdict <=> Fits(test.new))

\* The inductive invariant, with TypeOK and IInv.
VInv == RmBounded /\ VerdictKept

\* A fresh test is not decided.
LEMMA FreshContinues ==
  ASSUME TypeOK, test.pc = "admit", Fresh PROVE Continues
<1>1. Current.spec.period \in Nat
  BY AdmitType, UsedRow DEF Current
<1> QED
  BY <1>1 DEF Fresh, Continues

\* VInv is kept by every action.
LEMMA InitVInv == Init => VInv
<1> SUFFICES ASSUME Init PROVE VInv
  OBVIOUS
<1>1. \A i \in Rids : ~table[i].used
  BY DEF Init, Unused
<1>2. test.pc # "admit"
  BY DEF Init, NoTest
<1> QED
  BY <1>1, <1>2 DEF VInv, RmBounded, VerdictKept

\* Steps that leave the budgets of rate-monotonic mode bounded.
LEMMA RmBoundedExcept ==
  ASSUME NEW t, NEW u, TableRows(t), NEW i \in Rids, t[i] \in RowSet, NEW rm \in Uints,
         u = [t EXCEPT ![i].rm = rm], rm <= t[i].spec.exec,
         \A k \in Rids \ {i} : t[k].used => t[k].rm <= t[k].spec.exec
  PROVE  \A k \in Rids : u[k].used => u[k].rm <= u[k].spec.exec
<1>1. u[i] = [t[i] EXCEPT !.rm = rm] /\ \A k \in Rids \ {i} : u[k] = t[k]
  BY RmExcept
<1>2. u[i].rm = rm /\ u[i].spec = t[i].spec
  BY <1>1 DEF RowSet
<1> QED
  BY <1>1, <1>2

\* A test that begins is fresh.
LEMMA BeginVInv ==
  ASSUME NEW t, TableRows(t), NEW i \in Rids, t[i] \in RowSet, Begin(t, i),
         \A k \in Rids \ {i} : t[k].used => t[k].rm <= t[k].spec.exec
  PROVE  VInv' /\ Fresh'
<1>0. /\ table' = [t EXCEPT ![i].rm = 0]
      /\ test' = [pc |-> "admit", new |-> i, Z |-> 1, prevZ |-> 0, resp |-> 0, slack |-> 0]
  BY DEF Begin
<1>1. t[i].spec \in Specs
  BY DEF RowSet
<1>2. 0 <= t[i].spec.exec
  BY <1>1, SpecsAssumption
<1>3. \A k \in Rids : table'[k].used => table'[k].rm <= table'[k].spec.exec
  BY <1>0, <1>2, Numbers, RmBoundedExcept
<1>4. table'[i] = [t[i] EXCEPT !.rm = 0]
  BY <1>0, Numbers, RmExcept
<1>5. table'[i].rm = 0
  BY <1>4 DEF RowSet
<1>6. Fresh'
  BY <1>0, <1>5 DEF Fresh, Current
<1> QED
  BY <1>3, <1>6 DEF VInv, RmBounded, VerdictKept

\* A step of the test on reserve i itself concerns nobody else.
LEMMA FitsKept ==
  ASSUME TypeOK, NEW i \in Rids, table[i].used, NEW rm \in Uints,
         table' = [table EXCEPT ![i].rm = rm] \/ table' = table
  PROVE  /\ OthersNoWrap(i)' <=> OthersNoWrap(i)
         /\ Fits(i)' <=> Fits(i)
         /\ table'[i].spec = table[i].spec
<1>1. /\ \A k \in Rids \ {i} : table'[k] = table[k]
      /\ table'[i].spec = table[i].spec
  <2>1. CASE table' = table
    BY <2>1
  <2>2. CASE table' = [table EXCEPT ![i].rm = rm]
    <3>1. /\ table'[i] = [table[i] EXCEPT !.rm = rm] /\ table[i] \in RowSet
          /\ \A k \in Rids \ {i} : table'[k] = table[k]
      BY <2>2, TypeParts, UsedIsRow, RmExcept
    <3> QED
      BY <3>1 DEF RowSet
  <2> QED
    BY <2>1, <2>2
<1>2. OthersNoWrap(i)' <=> OthersNoWrap(i)
  BY <1>1 DEF OthersNoWrap
<1>3. ASSUME NEW t PROVE Demand(i, t)' = Demand(i, t)
  <2>1. ASSUME NEW j \in Rids \ {i} PROVE CostOf(i, j)' = CostOf(i, j)
    <3>1. table'[j] = table[j] /\ table'[i].spec = table[i].spec
      BY <1>1
    <3>2. Remaining(j)' = Remaining(j)
      BY <3>1 DEF Remaining
    <3> QED
      BY <3>1, <3>2 DEF CostOf
  <2>2. Owed(i, t)' = Owed(i, t)
    <3>1. \A j \in Rids :
             (IF table[j].used /\ j # i
                  THEN ((t + table[j].spec.period - 1) \div table[j].spec.period) * CostOf(i, j)
                  ELSE 0)'
             = IF table[j].used /\ j # i
                  THEN ((t + table[j].spec.period - 1) \div table[j].spec.period) * CostOf(i, j)
                  ELSE 0
      BY <1>1, <2>1
    <3> QED
      BY <3>1 DEF Owed
  <2>3. Demand(i, t)' = table'[i].spec.exec + Total(Owed(i, t)')
    BY DEF Demand, Owed, CostOf
  <2> QED
    BY <1>1, <2>2, <2>3, DemandIs
<1>4. Fits(i)' <=> Fits(i)
  BY <1>1, <1>3 DEF Fits
<1> QED
  BY <1>1, <1>2, <1>4

\* The slack adds no more than what is left of the budget.
LEMMA WithSlackBounded ==
  ASSUME TypeOK, test.pc = "admit", NEW resp \in Uints, Current.spec.period >= resp
  PROVE  WithSlack(SlackAndZ(resp)).rm <= Current.spec.exec
<1> DEFINE found == SlackAndZ(resp)
<1>1. found.slack \in Uints /\ Current.rm \in Uints /\ Current.spec.exec \in Nat
  <2>1. Current.rm \in Uints /\ Current.spec.exec \in Nat
    BY AdmitType, UsedRow DEF Current
  <2> QED
    BY <2>1, SlackType
<1> HIDE DEF found
<1>2. Uint(found.slack + Current.rm) = Uint(Current.rm + found.slack)
      /\ Uint(Current.rm + found.slack) \in Nat
  <2>0. found.slack \in Nat /\ Current.rm \in Nat
    BY <1>1, Numbers
  <2>1. found.slack + Current.rm = Current.rm + found.slack
        /\ Current.rm + found.slack \in Int
    BY <2>0
  <2>2. \A n \in Int : Uint(n) \in Nat
    BY UintType
  <2> QED
    BY <2>1, <2>2
<1>3. WithSlack(found).rm <= Current.spec.exec
  BY <1>1, <1>2 DEF WithSlack
<1> QED
  BY <1>3 DEF found

\* What a step of the iteration does.
LEMMA IterateStep ==
  ASSUME TypeOK, Iterate
  PROVE  \E n \in Rids, resp \in Uints :
           /\ n = test.new /\ table[n].used /\ table[n] \in RowSet
           /\ resp = getResponseTimeCritNs(n)
           /\ test.pc = "admit" /\ Continues
           /\ test' \in [pc : {"admit"}, new : Rids, Z : Nat, prevZ : Nat,
                         resp : Uints, slack : Uints]
           /\ test'.pc = "admit" /\ test'.new = n /\ test'.resp = resp
           /\ UNCHANGED <<caller, specs, zsinstant, order, answer>>
           /\ \/ /\ table[n].spec.period >= resp
                 /\ table' = [table EXCEPT ![n].rm = WithSlack(SlackAndZ(resp)).rm]
                 /\ test'.slack = SlackAndZ(resp).slack
                 /\ test'.Z = WithSlack(SlackAndZ(resp)).Z
              \/ /\ table[n].spec.period < resp
                 /\ table' = table
<1> DEFINE n == test.new
           resp == getResponseTimeCritNs(n)
           next == WithSlack(SlackAndZ(resp))
<1>1. /\ test \in [pc : {"admit"}, new : Rids, Z : Nat, prevZ : Nat,
                      resp : Uints, slack : Uints]
      /\ n \in Rids /\ table[n].used /\ table[n] \in RowSet
  BY AdmitType DEF Iterate
<1>2. resp \in Uints
  BY <1>1, ResponseType
<1>3. \/ /\ table[n].spec.period >= resp
         /\ table' = [table EXCEPT ![n].rm = next.rm]
         /\ test' = [test EXCEPT !.prevZ = test.Z, !.resp = resp,
                                 !.slack = SlackAndZ(resp).slack, !.Z = next.Z]
      \/ /\ table[n].spec.period < resp
         /\ test' = [test EXCEPT !.prevZ = test.Z, !.resp = resp]
         /\ table' = table
  BY DEF Iterate, Current
<1>4. test.pc = "admit" /\ Continues /\ UNCHANGED <<caller, specs, zsinstant, order, answer>>
  BY DEF Iterate
<1>5. table[n].spec.period >= resp => SlackAndZ(resp).slack \in Uints /\ next.Z \in Nat
  <2> HIDE DEF resp
  <2> QED
    BY <1>2, <1>4, SlackType DEF Current
<1>6. /\ test' \in [pc : {"admit"}, new : Rids, Z : Nat, prevZ : Nat,
                         resp : Uints, slack : Uints]
      /\ test'.pc = "admit" /\ test'.new = n /\ test'.resp = resp
      /\ table[n].spec.period >= resp => /\ test'.slack = SlackAndZ(resp).slack
                                         /\ test'.Z = next.Z
  <2>1. CASE /\ table[n].spec.period >= resp
             /\ test' = [test EXCEPT !.prevZ = test.Z, !.resp = resp,
                                 !.slack = SlackAndZ(resp).slack, !.Z = next.Z]
    <3> HIDE DEF resp, next
    <3> QED
      BY <1>1, <1>2, <1>5, <2>1
  <2>2. CASE /\ table[n].spec.period < resp
             /\ test' = [test EXCEPT !.prevZ = test.Z, !.resp = resp]
    <3>1. ~(table[n].spec.period >= resp)
      BY <1>1, <1>2, <2>2, UsedRow, Numbers
    <3> HIDE DEF resp, next
    <3> QED
      BY <1>1, <1>2, <2>2, <3>1
  <2> QED
    BY <1>3, <2>1, <2>2
<1> HIDE DEF n, resp
<1>7. /\ n \in Rids /\ resp \in Uints
      /\ n = test.new /\ resp = getResponseTimeCritNs(n)
  BY <1>1, <1>2 DEF n, resp
<1>8. \/ /\ table[n].spec.period >= resp
         /\ table' = [table EXCEPT ![n].rm = WithSlack(SlackAndZ(resp)).rm]
         /\ test'.slack = SlackAndZ(resp).slack
         /\ test'.Z = WithSlack(SlackAndZ(resp)).Z
      \/ /\ table[n].spec.period < resp
         /\ table' = table
  BY <1>3, <1>6
<1> QED
  BY <1>1, <1>4, <1>6, <1>7, <1>8

LEMMA IterateVInv ==
  ASSUME NoOverflow, TypeOK, VInv, Iterate
  PROVE  VInv'
<1>1. PICK n \in Rids, resp \in Uints :
           /\ n = test.new /\ table[n].used /\ table[n] \in RowSet
           /\ resp = getResponseTimeCritNs(n)
           /\ test.pc = "admit" /\ Continues
           /\ test'.pc = "admit" /\ test'.new = n /\ test'.resp = resp
           /\ \/ /\ table[n].spec.period >= resp
                 /\ table' = [table EXCEPT ![n].rm = WithSlack(SlackAndZ(resp)).rm]
              \/ /\ table[n].spec.period < resp
                 /\ table' = table
  BY IterateStep
<1>2. /\ table[n].spec.period \in Nat /\ resp \in Nat
      /\ table[n].rm <= table[n].spec.exec
  BY <1>1, UsedRow, Numbers DEF VInv, RmBounded
<1>3. table[n].spec.period >= resp =>
        /\ WithSlack(SlackAndZ(resp)).rm \in Uints
        /\ WithSlack(SlackAndZ(resp)).rm <= table[n].spec.exec
  BY <1>1, SlackType, WithSlackBounded DEF Current
<1>4. PICK rm \in Uints : /\ rm <= table[n].spec.exec
                          /\ table' = [table EXCEPT ![n].rm = rm] \/ table' = table
  <2>1. table[n].rm \in Uints
    BY <1>1, UsedRow
  <2> QED
    BY <1>1, <1>2, <1>3, <2>1
<1>5. RmBounded'
  <2>1. CASE table' = table
    BY <2>1 DEF VInv, RmBounded
  <2>2. CASE table' = [table EXCEPT ![n].rm = rm]
    <3>1. \A k \in Rids : table'[k].used => table'[k].rm <= table'[k].spec.exec
      BY <1>1, <1>4, <2>2, TypeParts, RmBoundedExcept DEF VInv, RmBounded
    <3> QED
      BY <3>1 DEF RmBounded
  <2> QED
    BY <1>4, <2>1, <2>2
<1>6. /\ OthersNoWrap(n)' <=> OthersNoWrap(n)
      /\ Fits(n)' <=> Fits(n)
      /\ table'[n].spec = table[n].spec
  BY <1>1, <1>4, FitsKept
<1>7. ASSUME OthersNoWrap(n), table[n].spec.exec > 0
      PROVE  table[n].spec.period >= resp <=> Fits(n)
  <2>1. Fits(n) => table[n].spec.period >= resp
    BY <1>1, <1>2, <1>7, ResponseVerdict
  <2>2. table[n].spec.period >= resp => Fits(n)
    <3>1. CASE Fresh
      <4>1. table[n].rm = 0
        BY <1>1, <3>1 DEF Fresh, Current
      <4> QED
        BY <1>1, <1>2, <1>7, <4>1, ResponseVerdict
    <3>2. CASE ~Fresh
      <4>1. Verdict <=> Fits(n)
        BY <1>1, <1>7, <3>2 DEF VInv, VerdictKept, Current
      <4>2. Verdict
        BY <1>1 DEF Continues, Verdict
      <4> QED
        BY <4>1, <4>2
    <3> QED
      BY <3>1, <3>2
  <2> QED
    BY <2>1, <2>2
<1>8. VerdictKept'
  <2>1. Verdict' <=> table[n].spec.period >= resp
    BY <1>1, <1>6 DEF Verdict, Current
  <2>2. OthersNoWrap(test.new)' <=> OthersNoWrap(n)
    BY <1>1, <1>6 DEF OthersNoWrap
  <2>3. Fits(test.new)' <=> Fits(n)
    <3>1. Fits(test.new)' <=> Fits(n)'
      BY <1>1 DEF Fits, Demand, Remaining
    <3> QED
      BY <1>6, <3>1
  <2>4. Current'.spec = table[n].spec
    BY <1>1, <1>6 DEF Current
  <2> QED
    BY <1>7, <2>1, <2>2, <2>3, <2>4 DEF VerdictKept
<1> QED
  BY <1>5, <1>8 DEF VInv

\* Nobody is in the middle of a test.
LEMMA IdleVInv ==
  ASSUME test'.pc # "admit",
         \A k \in Rids : table'[k].used => table'[k].rm <= table'[k].spec.exec
  PROVE  VInv'
BY DEF VInv, RmBounded, VerdictKept

LEMMA NextVInv ==
  ASSUME NoOverflow, TypeOK, IInv, VInv, [Next]_vars
  PROVE  VInv'
<1>0. \A k \in Rids : table[k].used => table[k].rm <= table[k].spec.exec
  BY DEF VInv, RmBounded
<1>1. CASE Compare \/ NextPosition
  <2>1. test \in [pc : {"sort"}, i : Rids, j : 2 .. Slots + 1]
    BY <1>1, SortType DEF Compare, NextPosition
  <2>2. test'.pc # "admit" /\ UNCHANGED table
    BY <1>1, <2>1 DEF Compare, NextPosition
  <2> QED
    BY <1>0, <2>2, IdleVInv
<1>2. CASE CopyTable
  <2> DEFINE t == [i \in Rids |-> Entry(specs[order[i]])]
  <2>1. specs \in [Rids -> Specs] /\ order \in [Rids -> Rids]
    BY <1>2 DEF IInv, Sorting, CopyTable
  <2>2. \A i \in Rids : t[i] \in RowSet /\ t[i].rm = 0 /\ t[i].spec \in Specs
    BY <2>1, Numbers DEF Entry, RowSet
  <2>3. TableRows(t) /\ 1 \in Rids
    BY <2>2, Numbers DEF TableRows
  <2>4. Begin(t, 1)
    BY <1>2 DEF CopyTable
  <2> HIDE DEF t
  <2>5. \A k \in Rids \ {1} : t[k].used => t[k].rm <= t[k].spec.exec
    BY <2>2, SpecsAssumption
  <2> QED
    BY <2>2, <2>3, <2>4, <2>5, BeginVInv
<1>3. CASE Iterate
  BY <1>3, IterateVInv
<1>4. CASE KernelAnswer
  <2>1. test.new \in Rids /\ table[test.new] \in RowSet
    BY <1>4, AdmitType DEF KernelAnswer, Decided
  <2>2. ~Unused.used /\ NoTest.pc = "idle"
    BY DEF Unused, NoTest
  <2>3. \/ table' = [table EXCEPT ![test.new] = [table[test.new] EXCEPT !.zs = KernelInstant]]
        \/ table' = [table EXCEPT ![test.new] = Unused]
    BY <1>4 DEF KernelAnswer
  <2>4. ASSUME NEW k \in Rids, table'[k].used PROVE table'[k].rm <= table'[k].spec.exec
    <3>1. CASE k # test.new
      BY <1>0, <2>3, <2>4, <3>1, TypeParts DEF TableRows
    <3>2. CASE k = test.new
      <4>1. table'[k] = [table[k] EXCEPT !.zs = KernelInstant]
        BY <2>2, <2>3, <2>4, <3>2, TypeParts DEF TableRows
      <4>2. /\ table'[k].rm = table[k].rm /\ table'[k].spec = table[k].spec
            /\ table[k].used
        BY <2>1, <3>2, <4>1 DEF RowSet
      <4> QED
        BY <1>0, <4>2
    <3> QED
      BY <3>1, <3>2
  <2> QED
    BY <1>4, <2>2, <2>4, IdleVInv DEF KernelAnswer
<1>5. CASE LibraryPasses
  <2>1. CASE test.new < Slots
    <3> DEFINE m == test.new + 1
    <3>1. m \in Rids
      BY <1>5, <2>1, Numbers, AdmitType DEF LibraryPasses, Decided
    <3>2. table[m] \in RowSet
      <4>1. Row(m)
        BY <1>5, <3>1 DEF LibraryPasses, Decided, IInv, Testing
      <4>2. "spec" \notin DOMAIN Unused
        BY DEF Unused
      <4> QED
        BY <3>1, <4>1, <4>2, TypeParts DEF Row, TableRows
    <3>3. Begin(table, m)
      BY <1>5, <2>1 DEF LibraryPasses
    <3> HIDE DEF m
    <3> QED
      BY <1>0, <3>1, <3>2, <3>3, TypeParts, BeginVInv
  <2>2. CASE ~(test.new < Slots)
    <3>1. test' = NoTest /\ UNCHANGED table
      BY <1>5, <2>2 DEF LibraryPasses
    <3> QED
      BY <1>0, <3>1, IdleVInv DEF NoTest
  <2> QED
    BY <2>1, <2>2
<1>6. CASE LibraryFails
  BY <1>0, <1>6, IdleVInv DEF LibraryFails, NoTest
<1>7. ASSUME NEW s \in Specs, CreateRsv(s) PROVE VInv'
  <2> DEFINE rid == Min(Free)
             t == [table EXCEPT ![rid] = Entry(s)]
  <2>1. rid \in Rids
    BY <1>7, LeastFree DEF CreateRsv, Free
  <2>2. Entry(s) \in RowSet
    BY Numbers DEF Entry, RowSet
  <2>3. TableRows(t) /\ t[rid] \in RowSet /\ \A k \in Rids \ {rid} : t[k] = table[k]
    BY <2>1, <2>2, TypeParts, RowsExcept
  <2>4. Begin(t, rid)
    BY <1>7 DEF CreateRsv
  <2> HIDE DEF t, rid
  <2> QED
    BY <1>0, <2>1, <2>3, <2>4, BeginVInv
<1>8. ASSUME NEW i \in Rids, DeleteRsv(i) PROVE VInv'
  <2>1. ~Unused.used
    BY DEF Unused
  <2>2. \A k \in Rids : table'[k].used => table'[k] = table[k]
    BY <1>8, <2>1, TypeParts DEF DeleteRsv, TableRows
  <2>3. test'.pc # "admit"
    BY <1>8 DEF DeleteRsv
  <2> QED
    BY <1>0, <2>2, <2>3, IdleVInv
<1>9. ASSUME NEW s \in [Rids -> Specs], IsAdmissible(s) PROVE VInv'
  BY <1>0, <1>9, IdleVInv DEF IsAdmissible
<1>10. CASE UNCHANGED vars
  <2>1. UNCHANGED <<table, test>>
    BY <1>10 DEF vars
  <2>2. Fits(test.new)' <=> Fits(test.new)
    BY <2>1 DEF Fits, Demand, Remaining
  <2> QED
    BY <2>1, <2>2 DEF VInv, RmBounded, VerdictKept, Fresh, OthersNoWrap, Verdict, Current
<1> QED
  BY <1>1, <1>2, <1>3, <1>4, <1>5, <1>6, <1>7, <1>8, <1>9, <1>10 DEF Next, Run

\* A test that is decided is not fresh.
LEMMA VInvVerdict ==
  ASSUME \A s \in Specs : s.exec > 0
  PROVE  TypeOK /\ VInv => VerdictIsResponseTime
<1> SUFFICES ASSUME TypeOK, VInv, Decided, NoWrap PROVE Verdict <=> Fits(test.new)
  BY DEF VerdictIsResponseTime
<1>1. test.pc = "admit" /\ ~Continues
  BY DEF Decided
<1>2. ~Fresh
  BY <1>1, FreshContinues
<1>3. OthersNoWrap(test.new)
  BY DEF NoWrap, OthersNoWrap
<1>4. Current.spec.exec > 0
  BY <1>1, AdmitType, UsedRow DEF Current
<1> QED
  BY <1>1, <1>2, <1>3, <1>4 DEF VInv, VerdictKept

\* For every set of specifications with budgets, on every table that has not
\* wrapped, admit accepts a reserve if and only if its budget fits in its period in
\* critical mode: the iterations that move Z and the budget of rate-monotonic mode
\* never change the verdict of the first.
THEOREM VerdictIsExact ==
  ASSUME NoOverflow, \A s \in Specs : s.exec > 0
  PROVE  Spec => []VerdictIsResponseTime
<1>1. TypeOK /\ IInv /\ VInv /\ [Next]_vars => VInv'
  BY NextVInv
<1>2. TypeOK /\ VInv => VerdictIsResponseTime
  BY VInvVerdict
<1> QED
  BY <1>1, <1>2, InitIInv, NextIInv, InitTypeOK, NextTypeOK, InitVInv, PTL DEF Spec


-----------------------------------------------------------------------------
(***************************************************************************)
(* The instants.                                                           *)
(***************************************************************************)
\* What each reserve asks for in rate-monotonic mode.
RmOwed(i, t) ==
  [j \in Rids |-> Part(RmNominal(i), t, j) + Part(RmLower(i), t, j) + Part(RmPeers(i), t, j)]

\* It is no more than what NoOverflow counts.
LEMMA RmOwedIs ==
  ASSUME TypeOK, NEW i \in Rids, table[i].used, NEW t \in Nat, NEW j \in Rids
  PROVE  /\ RmOwed(i, t)[j] \in Nat
         /\ RmOwed(i, t)[j] # 0 =>
              /\ table[j].used
              /\ RmOwed(i, t)[j] <= numArrivals(t, table[j].spec.period)
                                    * (table[j].spec.exec + table[j].spec.nominal)
<1>1. /\ DOMAIN RmNominal(i) = HigherPrioHigherCrit(i)
      /\ DOMAIN RmLower(i) = HigherPrioLowerCrit(i)
      /\ DOMAIN RmPeers(i) = HigherPrioSameCrit(i)
  BY DEF RmNominal, RmLower, RmPeers
<1>2. CASE table[j].used
  <2> DEFINE a == numArrivals(t, table[j].spec.period)
             x == table[j].spec.exec
             y == table[j].spec.nominal
  <2>1. /\ a \in Nat /\ x \in Nat /\ y \in Nat
        /\ table[j].spec.crit \in Nat /\ table[i].spec.crit \in Nat
    BY <1>2, UsedRow, Arrivals
  <2>2. /\ j \in HigherPrioHigherCrit(i) => table[i].spec.crit < table[j].spec.crit
        /\ j \in HigherPrioLowerCrit(i) => table[i].spec.crit > table[j].spec.crit
        /\ j \in HigherPrioSameCrit(i) => table[i].spec.crit = table[j].spec.crit
    BY DEF HigherPrioHigherCrit, HigherPrioLowerCrit, HigherPrioSameCrit,
       isHigherPrioHigherCrit, isHigherPrioLowerCrit, isHigherPrioSameCrit
  <2>3. /\ Part(RmNominal(i), t, j) = IF j \in HigherPrioHigherCrit(i) THEN a * y ELSE 0
        /\ Part(RmLower(i), t, j) = IF j \in HigherPrioLowerCrit(i) THEN a * x ELSE 0
        /\ Part(RmPeers(i), t, j) = IF j \in HigherPrioSameCrit(i) THEN a * x ELSE 0
    BY <1>1 DEF Part, RmNominal, RmLower, RmPeers
  <2>4. /\ RmOwed(i, t)[j] = Part(RmNominal(i), t, j) + Part(RmLower(i), t, j)
                               + Part(RmPeers(i), t, j)
    BY DEF RmOwed
  <2> HIDE DEF a, x, y
  <2>5. /\ a * x \in Nat /\ a * y \in Nat /\ a * (x + y) = a * x + a * y
    BY <2>1, ProductMonotone
  <2>6. \/ RmOwed(i, t)[j] = a * y \/ RmOwed(i, t)[j] = a * x \/ RmOwed(i, t)[j] = 0
    BY <2>1, <2>2, <2>3, <2>4, <2>5
  <2>7. RmOwed(i, t)[j] \in Nat /\ RmOwed(i, t)[j] <= a * (x + y)
    BY <2>5, <2>6
  <2> QED
    BY <1>2, <2>7 DEF a, x, y
<1>3. CASE ~table[j].used
  <2>1. j \notin HigherPrioHigherCrit(i) /\ j \notin HigherPrioLowerCrit(i)
        /\ j \notin HigherPrioSameCrit(i)
    BY <1>3 DEF HigherPrioHigherCrit, HigherPrioLowerCrit, HigherPrioSameCrit, Others
  <2> QED
    BY <1>1, <2>1 DEF Part, RmOwed
<1> QED
  BY <1>2, <1>3

\* The interference in rate-monotonic mode does not wrap within the horizon.
LEMMA RmExact ==
  ASSUME NoOverflow, TypeOK, NEW i \in Rids, table[i].used, NEW t \in Horizon(i)
  PROVE  /\ getRMInterference(i, t) \in Nat
         /\ table[i].spec.exec + getRMInterference(i, t) < UintMod
<1>1. t \in Nat /\ table[i].spec.exec \in Nat
  BY UsedRow DEF Horizon
<1>2. RmBusy(i, t) = Total(RmOwed(i, t))
  BY <1>1, RmCosts, ThreeParts DEF RmBusy, RmOwed
<1>3. /\ \A j \in Rids : RmOwed(i, t)[j] \in Nat
      /\ \A j \in Rids : RmOwed(i, t)[j] # 0 =>
            /\ table[j].used
            /\ RmOwed(i, t)[j] <= numArrivals(t, table[j].spec.period)
                         * (table[j].spec.exec + table[j].spec.nominal)
  BY <1>1, RmOwedIs
<1>4. RmBusy(i, t) \in Nat /\ table[i].spec.exec + RmBusy(i, t) < UintMod
  BY <1>2, <1>3, TotalFits
<1>5. RmBusy(i, t) \in Uints
  BY <1>1, <1>4, UintModAssumption DEF Uints
<1>6. getRMInterference(i, t) = RmBusy(i, t)
  BY <1>1, <1>4, <1>5, RmInterferenceType, UintType
<1> QED
  BY <1>4, <1>6

\* An iteration that finds a response time in the period leaves room between
\* its instant and the period for what rate-monotonic mode does not hold.
LEMMA IterationLeavesRoom ==
  ASSUME NoOverflow, TypeOK, test.pc = "admit", NEW i \in Rids, i = test.new,
         OthersNoWrap(i), table[i].rm <= table[i].spec.exec,
         NEW resp, resp = getResponseTimeCritNs(i), resp <= table[i].spec.period,
         test.slack <= table[i].spec.period,
         table[i].rm = 0 \/ table[i].spec.exec <= table[i].spec.period
  PROVE  LET found == SlackAndZ(resp)
             next == WithSlack(found)
         IN  /\ table[i].spec.exec <= table[i].spec.period
             /\ found.slack <= table[i].spec.period
             /\ next.Z + table[i].spec.exec - next.rm <= table[i].spec.period
<1> DEFINE P == table[i].spec.period
           C == table[i].spec.exec
           rm == table[i].rm
           b == InCritical(i)
           Z == P - resp
           RM(t) == getRMInterference(i, t)
           demand == Uint(RM(Z) + rm)
           critical == Uint(resp - b)
           pushed == Uint(Z + critical)
           interf1 == RM(pushed)
           found == SlackAndZ(resp)
           next == WithSlack(found)
<1>1. /\ table[i].used /\ P \in Nat /\ C \in Nat /\ rm \in Nat /\ rm <= C
      /\ 2 * P < UintMod /\ test.slack \in Nat /\ test.slack <= P /\ UintMod \in Nat
      /\ C < UintMod
  BY AdmitType, UsedRow, Numbers, UintModAssumption DEF Uints
<1>2. b = C - rm /\ resp >= b /\ resp \in Nat /\ resp <= P
  <2>1. resp \in Uints
    BY <1>1, ResponseType
  <2>2. resp \in Nat /\ resp <= P
    BY <2>1, Numbers
  <2> QED
    BY <1>1, <2>2, DemandExact, ResponseVerdict
<1>3. C <= P
  <2> HIDE DEF b
  <2> QED
    BY <1>1, <1>2
<1>4. found = IF Z > demand THEN [slack |-> Uint(Z - demand), Z |-> Z]
      ELSE IF Z < demand THEN [slack |-> 0, Z |-> Z]
      ELSE IF pushed <= P /\ interf1 <= critical
           THEN [slack |-> Uint(pushed - interf1 - rm), Z |-> pushed]
      ELSE [slack |-> test.slack, Z |-> Z]
  BY DEF SlackAndZ, Current
<1>5. next = IF Uint(found.slack + rm) < C
             THEN [rm |-> Uint(rm + found.slack), Z |-> found.Z]
             ELSE [rm |-> C, Z |-> P]
  BY DEF WithSlack, Current
<1>6. \A t \in 0 .. P : RM(t) \in Nat /\ C + RM(t) < UintMod
  BY <1>1, RmExact DEF Horizon
<1>7. \A n \in Int : 0 <= n /\ n < UintMod => Uint(n) = n
  <2>1. \A n \in Int : 0 <= n /\ n < UintMod => n \in Uints
    BY <1>1 DEF Uints
  <2> QED
    BY <2>1, UintType
<1> HIDE DEF P, C, rm, b, RM, found, next
<1>8. Z \in 0 .. P /\ Z <= P - C + rm
  BY <1>1, <1>2, <1>3
<1> DEFINE i0 == RM(Z)
<1>9. i0 \in Nat /\ C + i0 < UintMod
  BY <1>6, <1>8
<1>10. demand = i0 + rm
  <2>1. i0 + rm \in Int /\ 0 <= i0 + rm /\ i0 + rm < UintMod
    BY <1>1, <1>9
  <2> HIDE DEF i0
  <2>2. Uint(i0 + rm) = i0 + rm
    BY <1>7, <2>1
  <2> QED
    BY <2>2 DEF i0
<1>11. critical = resp - b /\ critical \in Nat
  <2>1. resp - b \in Int /\ 0 <= resp - b /\ resp - b < UintMod /\ resp - b \in Nat
    BY <1>1, <1>2
  <2> QED
    BY <1>7, <2>1
<1>12. pushed = P - C + rm /\ pushed \in 0 .. P
  <2> HIDE DEF critical
  <2>1. Z + critical = P - C + rm
    BY <1>1, <1>2, <1>11
  <2>2. P - C + rm \in Int /\ 0 <= P - C + rm /\ P - C + rm < UintMod /\ P - C + rm <= P
    BY <1>1, <1>3
  <2> HIDE DEF Z
  <2>3. Uint(Z + critical) = P - C + rm
    BY <1>7, <2>1, <2>2
  <2>4. P - C + rm \in 0 .. P
    BY <1>1, <2>2
  <2> QED
    BY <2>3, <2>4
<1>13. interf1 \in Nat
  <2> HIDE DEF pushed
  <2> QED
    BY <1>6, <1>12
<1> HIDE DEF Z, i0, demand, critical, pushed, interf1

\* The slack is what it seems, and the instant is early enough as it stands.
<1>14. /\ found.slack \in Nat /\ found.slack <= P
       /\ found.Z \in Nat /\ found.Z <= P - C + rm
  <2>1. CASE Z > demand
    <3>1. Uint(Z - demand) = Z - demand /\ Z - demand \in Nat /\ Z - demand <= P
      <4>1. Z - demand \in Int /\ 0 <= Z - demand /\ Z - demand < UintMod
            /\ Z - demand \in Nat /\ Z - demand <= P
        BY <1>1, <1>8, <1>9, <1>10, <2>1
      <4> QED
        BY <1>7, <4>1
    <3>2. found = [slack |-> Uint(Z - demand), Z |-> Z]
      BY <1>4, <2>1
    <3>3. found.slack = Z - demand /\ found.Z = Z
      BY <3>1, <3>2
    <3> QED
      BY <1>8, <3>1, <3>3
  <2>2. CASE ~(Z > demand) /\ Z < demand
    <3>1. found = [slack |-> 0, Z |-> Z]
      BY <1>4, <2>2
    <3>2. found.slack = 0 /\ found.Z = Z
      BY <3>1
    <3> QED
      BY <1>1, <1>8, <3>2
  <2>3. CASE ~(Z > demand) /\ ~(Z < demand) /\ pushed <= P /\ interf1 <= critical
    <3>1. Z = demand
      BY <1>1, <1>8, <1>9, <1>10, <2>3
    <3>2. /\ pushed - interf1 - rm \in Int /\ 0 <= pushed - interf1 - rm
          /\ pushed - interf1 - rm < UintMod /\ pushed - interf1 - rm <= P
      <4>1. pushed = Z + critical
        BY <1>1, <1>2, <1>11, <1>12 DEF Z
      <4> QED
        BY <1>1, <1>8, <1>9, <1>10, <1>11, <1>12, <1>13, <2>3, <3>1, <4>1
    <3>3. Uint(pushed - interf1 - rm) = pushed - interf1 - rm
      BY <1>7, <3>2
    <3>4. found = [slack |-> Uint(pushed - interf1 - rm), Z |-> pushed]
      BY <1>4, <2>3
    <3>5. found.slack = pushed - interf1 - rm /\ found.Z = pushed
      BY <3>3, <3>4
    <3> QED
      BY <1>1, <1>12, <3>2, <3>5
  <2>4. CASE ~(Z > demand) /\ ~(Z < demand) /\ ~(pushed <= P /\ interf1 <= critical)
    <3>1. found = [slack |-> test.slack, Z |-> Z]
      BY <1>4, <2>4
    <3>2. found.slack = test.slack /\ found.Z = Z
      BY <3>1
    <3> QED
      BY <1>1, <1>8, <3>2
  <2> QED
    BY <2>1, <2>2, <2>3, <2>4
<1>15. Uint(found.slack + rm) = rm + found.slack /\ Uint(rm + found.slack) = rm + found.slack
  <2>1. /\ found.slack + rm = rm + found.slack
        /\ rm + found.slack \in Int /\ 0 <= rm + found.slack /\ rm + found.slack < UintMod
    BY <1>1, <1>3, <1>14
  <2> QED
    BY <1>7, <2>1
<1>16. next.Z + C - next.rm <= P
  <2>1. CASE Uint(found.slack + rm) < C
    <3>1. next = [rm |-> Uint(rm + found.slack), Z |-> found.Z]
      BY <1>5, <2>1
    <3>2. next.rm = rm + found.slack /\ next.Z = found.Z
      BY <1>15, <3>1
    <3> QED
      BY <1>1, <1>14, <3>2
  <2>2. CASE ~(Uint(found.slack + rm) < C)
    <3>1. next = [rm |-> C, Z |-> P]
      BY <1>5, <2>2
    <3>2. next.rm = C /\ next.Z = P
      BY <3>1
    <3> QED
      BY <1>1, <3>2
  <2> QED
    BY <2>1, <2>2
<1> QED
  BY <1>3, <1>14, <1>16 DEF P, C, found, next

-----------------------------------------------------------------------------
\* An instant of a test under way leaves room.
Room ==
  test.pc = "admit" /\ Verdict /\ ~Fresh =>
    /\ Current.spec.exec <= Current.spec.period
    /\ test.slack <= Current.spec.period
    /\ test.Z + Current.spec.exec - Current.rm <= Current.spec.period

\* So do those the kernel keeps, but for the reserve under test.
KernelRoom ==
  caller = "kernel" =>
    \A i \in Rids : table[i].used /\ (test.pc = "admit" => i # test.new)
                      => LeavesRoom(i, table[i].zs)

\* And those the library has handed back.
LibraryRoom ==
  caller = "library" =>
    /\ test.pc = "admit" =>
         \A i \in Rids : i < test.new => LeavesRoom(i, zsinstant[order[i]])
    /\ answer = "admissible" =>
         test.pc = "idle" /\ \A i \in Rids : LeavesRoom(i, zsinstant[order[i]])

\* Two entries of rtable are never the same specification.
OneToOne == \A a, b \in Rids : order[a] = order[b] => a = b

\* The inductive invariant, with TypeOK, IInv and VInv, as long as NoWrap holds.
RInv == Room /\ KernelRoom /\ LibraryRoom /\ OneToOne

\* Room depends on the entry alone.
LEMMA RoomStays ==
  ASSUME caller' = caller, NEW i \in Rids, NEW z, table'[i] = table[i], LeavesRoom(i, z)
  PROVE  LeavesRoom(i, z)'
BY DEF LeavesRoom

\* RInv is kept by every action.
LEMMA InitRInv == Init => RInv
<1> SUFFICES ASSUME Init PROVE RInv
  OBVIOUS
<1>1. \A i \in Rids : ~table[i].used
  BY DEF Init, Unused
<1>2. test.pc = "idle" /\ answer = "none" /\ order = [i \in Rids |-> i]
  BY DEF Init, NoTest
<1> QED
  BY <1>1, <1>2 DEF RInv, Room, KernelRoom, LibraryRoom, OneToOne

\* The kernel begins a test on an entry of its own.
LEMMA CreateRsvRInv ==
  ASSUME TypeOK, VInv, RInv, NEW s \in Specs, CreateRsv(s) PROVE RInv'
<1> DEFINE rid == Min(Free)
           t == [table EXCEPT ![rid] = Entry(s)]
<1>1. rid \in Rids
  BY LeastFree DEF CreateRsv, Free
<1>2. Entry(s) \in RowSet
  BY Numbers DEF Entry, RowSet
<1>3. TableRows(t) /\ t[rid] \in RowSet /\ \A k \in Rids \ {rid} : t[k] = table[k]
  BY <1>1, <1>2, TypeParts, RowsExcept
<1>4. Begin(t, rid) /\ caller = "kernel" /\ test.pc = "idle"
      /\ UNCHANGED <<caller, specs, zsinstant, order, answer>>
  BY DEF CreateRsv
<1> HIDE DEF t, rid
<1>5. Fresh'
  BY <1>1, <1>3, <1>4, BeginVInv DEF VInv, RmBounded
<1>6. /\ test' = [pc |-> "admit", new |-> rid, Z |-> 1, prevZ |-> 0, resp |-> 0, slack |-> 0]
      /\ \A k \in Rids \ {rid} : table'[k] = table[k]
  BY <1>1, <1>3, <1>4, Numbers, RmExcept DEF Begin
<1>7. KernelRoom'
  <2> SUFFICES ASSUME NEW i \in Rids, table'[i].used, i # rid
               PROVE  LeavesRoom(i, table[i].zs)'
    BY <1>6 DEF KernelRoom
  <2>1. table'[i] = table[i]
    BY <1>6
  <2>2. LeavesRoom(i, table[i].zs)
    BY <1>4, <2>1 DEF RInv, KernelRoom
  <2>3. PICK z : z = table[i].zs
    OBVIOUS
  <2>4. LeavesRoom(i, z)'
    BY <1>4, <2>1, <2>2, <2>3, RoomStays
  <2> QED
    BY <2>1, <2>3, <2>4 DEF LeavesRoom
<1> QED
  BY <1>4, <1>5, <1>7 DEF RInv, Room, LibraryRoom, OneToOne

\* The budget of rate-monotonic mode of an instant put out of reach is whole.
LEMMA KernelAnswerRInv ==
  ASSUME TypeOK, VInv, RInv, KernelAnswer PROVE RInv'
<1> DEFINE n == test.new
<1>1. /\ n \in Rids /\ table[n] \in RowSet /\ table[n].used /\ test.Z \in Nat
      /\ test.pc = "admit" /\ caller = "kernel" /\ ~Continues
      /\ test' = NoTest /\ UNCHANGED <<caller, specs, zsinstant, order, answer>>
  BY AdmitType DEF KernelAnswer, Decided
<1>2. /\ table[n].spec.period \in Nat /\ table[n].spec.exec \in Nat /\ table[n].rm \in Nat
      /\ table[n].rm <= table[n].spec.exec
  BY <1>1, UsedRow DEF VInv, RmBounded
<1>3. test'.pc = "idle" /\ ~Unused.used
  BY <1>1 DEF NoTest, Unused
<1>4. \/ /\ Verdict
         /\ table' = [table EXCEPT ![n] = [table[n] EXCEPT !.zs = KernelInstant]]
      \/ table' = [table EXCEPT ![n] = Unused]
  BY DEF KernelAnswer
<1>5. \A k \in Rids \ {n} : table'[k] = table[k]
  BY <1>4, TypeParts DEF TableRows
<1>6. KernelRoom'
  <2> SUFFICES ASSUME NEW i \in Rids, table'[i].used
               PROVE  LeavesRoom(i, table[i].zs)'
    BY DEF KernelRoom
  <2>1. CASE i # n
    <3>1. table'[i] = table[i]
      BY <1>5, <2>1
    <3>2. LeavesRoom(i, table[i].zs)
      BY <1>1, <2>1, <3>1 DEF RInv, KernelRoom
    <3>3. PICK z : z = table[i].zs
      OBVIOUS
    <3>4. LeavesRoom(i, z)'
      BY <1>1, <3>1, <3>2, <3>3, RoomStays
    <3> QED
      BY <3>1, <3>3, <3>4 DEF LeavesRoom
  <2>2. CASE i = n
    <3>1. Verdict /\ table'[n] = [table[n] EXCEPT !.zs = KernelInstant]
      BY <1>1, <1>3, <1>4, <2>2, TypeParts DEF TableRows
    <3>2. /\ table'[n].zs = KernelInstant /\ table'[n].rm = table[n].rm
          /\ table'[n].spec = table[n].spec
      BY <1>1, <3>1 DEF RowSet
    <3>3. ~Fresh
      BY <1>1, FreshContinues
    <3>4. test.Z + table[n].spec.exec - table[n].rm <= table[n].spec.period
      BY <1>1, <3>1, <3>3 DEF RInv, Room, Current
    <3>5. CASE test.Z = table[n].spec.period
      <4>1. KernelInstant = 2 * table[n].spec.period
        BY <3>5 DEF KernelInstant, Current
      <4>2. table[n].rm = table[n].spec.exec
        BY <1>1, <1>2, <3>4, <3>5
      <4> QED
        BY <1>1, <2>2, <3>2, <4>1, <4>2 DEF LeavesRoom
    <3>6. CASE test.Z # table[n].spec.period
      <4>1. KernelInstant = test.Z
        BY <3>6 DEF KernelInstant, Current
      <4> QED
        BY <2>2, <3>2, <3>4, <4>1 DEF LeavesRoom
    <3> QED
      BY <3>5, <3>6
  <2> QED
    BY <2>1, <2>2
<1> QED
  BY <1>1, <1>3, <1>6 DEF RInv, Room, LibraryRoom, OneToOne

LEMMA DeleteRsvRInv ==
  ASSUME TypeOK, RInv, NEW d \in Rids, DeleteRsv(d) PROVE RInv'
<1>1. /\ caller = "kernel" /\ test.pc = "idle"
      /\ UNCHANGED <<caller, specs, zsinstant, order, test, answer>>
  BY DEF DeleteRsv
<1>2. \A k \in Rids : table'[k].used => table'[k] = table[k]
  <2>1. ~Unused.used
    BY DEF Unused
  <2> QED
    BY <2>1, TypeParts DEF DeleteRsv, TableRows
<1>3. KernelRoom'
  <2> SUFFICES ASSUME NEW i \in Rids, table'[i].used
               PROVE  LeavesRoom(i, table[i].zs)'
    BY DEF KernelRoom
  <2>1. table'[i] = table[i]
    BY <1>2
  <2>2. LeavesRoom(i, table[i].zs)
    BY <1>1, <2>1 DEF RInv, KernelRoom
  <2>3. PICK z : z = table[i].zs
    OBVIOUS
  <2>4. LeavesRoom(i, z)'
    BY <1>1, <2>1, <2>2, <2>3, RoomStays
  <2> QED
    BY <2>1, <2>3, <2>4 DEF LeavesRoom
<1> QED
  BY <1>1, <1>3 DEF RInv, Room, LibraryRoom, OneToOne

\* An iteration concerns the entry under test alone.
LEMMA IterateRInv ==
  ASSUME NoOverflow, NoWrap, TypeOK, VInv, RInv, Iterate PROVE RInv'
<1>1. PICK n \in Rids, resp \in Uints :
           /\ n = test.new /\ table[n].used /\ table[n] \in RowSet
           /\ resp = getResponseTimeCritNs(n)
           /\ test.pc = "admit" /\ Continues
           /\ test'.pc = "admit" /\ test'.new = n /\ test'.resp = resp
           /\ UNCHANGED <<caller, specs, zsinstant, order, answer>>
           /\ \/ /\ table[n].spec.period >= resp
                 /\ table' = [table EXCEPT ![n].rm = WithSlack(SlackAndZ(resp)).rm]
                 /\ test'.slack = SlackAndZ(resp).slack
                 /\ test'.Z = WithSlack(SlackAndZ(resp)).Z
              \/ /\ table[n].spec.period < resp
                 /\ table' = table
  BY IterateStep
<1>2. /\ table[n].spec.period \in Nat /\ table[n].spec.exec \in Nat /\ resp \in Nat
      /\ table[n].rm <= table[n].spec.exec
  BY <1>1, UsedRow, Numbers DEF VInv, RmBounded
<1>3. \A k \in Rids \ {n} : table'[k] = table[k]
  BY <1>1, TypeParts DEF TableRows
<1>4. Room'
  <2> SUFFICES ASSUME Verdict'
               PROVE  /\ Current'.spec.exec <= Current'.spec.period
                      /\ test'.slack <= Current'.spec.period
                      /\ test'.Z + Current'.spec.exec - Current'.rm <= Current'.spec.period
    BY DEF Room
  <2>1. table'[n].spec.period >= resp
    BY <1>1 DEF Verdict, Current
  <2>2. /\ table[n].spec.period >= resp
        /\ table' = [table EXCEPT ![n].rm = WithSlack(SlackAndZ(resp)).rm]
        /\ test'.slack = SlackAndZ(resp).slack
        /\ test'.Z = WithSlack(SlackAndZ(resp)).Z
    BY <1>1, <1>2, <2>1
  <2>3. table'[n] = [table[n] EXCEPT !.rm = WithSlack(SlackAndZ(resp)).rm]
    BY <1>1, <2>2, TypeParts DEF TableRows
  <2>4. table'[n].rm = WithSlack(SlackAndZ(resp)).rm /\ table'[n].spec = table[n].spec
    BY <1>1, <2>3 DEF RowSet
  <2>5. OthersNoWrap(n)
    BY DEF NoWrap, OthersNoWrap
  <2>6. Verdict
    BY <1>1 DEF Continues, Verdict
  <2>7. /\ test.slack <= table[n].spec.period
        /\ table[n].rm = 0 \/ table[n].spec.exec <= table[n].spec.period
    <3>1. CASE Fresh
      BY <1>1, <1>2, <3>1 DEF Fresh, Current
    <3>2. CASE ~Fresh
      BY <1>1, <2>6, <3>2 DEF RInv, Room, Current
    <3> QED
      BY <3>1, <3>2
  <2>8. /\ table[n].spec.exec <= table[n].spec.period
        /\ SlackAndZ(resp).slack <= table[n].spec.period
        /\ WithSlack(SlackAndZ(resp)).Z + table[n].spec.exec
             - WithSlack(SlackAndZ(resp)).rm <= table[n].spec.period
    <3>1. resp <= table[n].spec.period
      BY <1>2, <2>2
    <3> QED
      BY <1>1, <1>2, <2>5, <2>7, <3>1, IterationLeavesRoom
  <2>9. Current' = table'[n]
    BY <1>1 DEF Current
  <2> QED
    BY <2>2, <2>4, <2>8, <2>9
<1>5. KernelRoom'
  <2> SUFFICES ASSUME caller = "kernel", NEW i \in Rids, table'[i].used, i # n
               PROVE  LeavesRoom(i, table[i].zs)'
    BY <1>1 DEF KernelRoom
  <2>1. table'[i] = table[i]
    BY <1>3
  <2>2. LeavesRoom(i, table[i].zs)
    BY <1>1, <2>1 DEF RInv, KernelRoom
  <2>3. PICK z : z = table[i].zs
    OBVIOUS
  <2>4. LeavesRoom(i, z)'
    BY <1>1, <2>1, <2>2, <2>3, RoomStays
  <2> QED
    BY <2>1, <2>3, <2>4 DEF LeavesRoom
<1>6. LibraryRoom'
  <2> SUFFICES ASSUME caller = "library"
               PROVE  /\ \A i \in Rids : i < n => LeavesRoom(i, zsinstant[order[i]])'
                      /\ answer # "admissible"
    BY <1>1 DEF LibraryRoom
  <2>1. answer # "admissible"
    BY <1>1 DEF RInv, LibraryRoom
  <2>2. ASSUME NEW i \in Rids, i < n PROVE LeavesRoom(i, zsinstant[order[i]])'
    <3>1. n \in Nat /\ i \in Nat
      BY Numbers
    <3>2. table'[i] = table[i]
      BY <1>3, <2>2, <3>1
    <3>3. PICK z : z = zsinstant[order[i]]
      OBVIOUS
    <3>4. LeavesRoom(i, z)
      BY <1>1, <2>2, <3>3 DEF RInv, LibraryRoom
    <3>5. LeavesRoom(i, z)'
      BY <1>1, <3>2, <3>4, RoomStays
    <3> QED
      BY <1>1, <3>3, <3>5 DEF LeavesRoom
  <2> QED
    BY <2>1, <2>2
<1> QED
  BY <1>1, <1>4, <1>5, <1>6 DEF RInv, OneToOne

\* The call of the library: the table is not there yet.
LEMMA IsAdmissibleRInv ==
  ASSUME RInv, NEW s \in [Rids -> Specs], IsAdmissible(s) PROVE RInv'
<1>1. /\ caller' = "library" /\ answer' = "none" /\ test'.pc = "sort"
      /\ order' = [i \in Rids |-> i]
  BY DEF IsAdmissible
<1> QED
  BY <1>1 DEF RInv, Room, KernelRoom, LibraryRoom, OneToOne

\* The sort only exchanges.
LEMMA SortRInv ==
  ASSUME TypeOK, IInv, RInv, Compare \/ NextPosition PROVE RInv'
<1>1. test \in [pc : {"sort"}, i : Rids, j : 2 .. Slots + 1] /\ test.pc = "sort"
  BY SortType DEF Compare, NextPosition
<1>2. /\ caller = "library" /\ caller' = "library" /\ answer' = answer
      /\ answer # "admissible" /\ test'.pc = "sort"
  BY <1>1 DEF Compare, NextPosition, IInv, Sorting, RInv, LibraryRoom
<1>3. OneToOne'
  <2>1. CASE order' = order
    BY <2>1 DEF RInv, OneToOne
  <2>2. CASE order' = Swapped(order, test.i, test.j) /\ test.j <= Slots
    <3>1. test.i \in Rids /\ test.j \in Rids
      BY <1>1, <2>2, Numbers
    <3>2. order \in [Rids -> Rids]
      BY TypeParts
    <3> QED
      BY <2>2, <3>1, <3>2 DEF RInv, OneToOne, Swapped
  <2> QED
    BY <2>1, <2>2 DEF Compare, NextPosition
<1> QED
  BY <1>2, <1>3 DEF RInv, Room, KernelRoom, LibraryRoom

\* The first entry is tested: nothing is handed back yet.
LEMMA CopyTableRInv ==
  ASSUME TypeOK, IInv, VInv, RInv, CopyTable PROVE RInv'
<1> DEFINE t == [i \in Rids |-> Entry(specs[order[i]])]
<1>1. /\ specs \in [Rids -> Specs] /\ order \in [Rids -> Rids]
      /\ caller = "library" /\ test.pc = "sort"
  BY DEF IInv, Sorting, CopyTable
<1>2. \A i \in Rids : t[i] \in RowSet /\ t[i].rm = 0 /\ t[i].spec \in Specs
  BY <1>1, Numbers DEF Entry, RowSet
<1>3. TableRows(t) /\ 1 \in Rids
  BY <1>2, Numbers DEF TableRows
<1>4. Begin(t, 1) /\ UNCHANGED <<caller, specs, order, zsinstant, answer>>
  BY DEF CopyTable
<1> HIDE DEF t
<1>5. \A k \in Rids \ {1} : t[k].used => t[k].rm <= t[k].spec.exec
  BY <1>2, SpecsAssumption
<1>6. Fresh'
  BY <1>2, <1>3, <1>4, <1>5, BeginVInv
<1>7. test'.new = 1 /\ \A i \in Rids : ~(i < 1)
  BY <1>4, Numbers DEF Begin
<1>8. answer' # "admissible"
  BY <1>1, <1>4 DEF RInv, LibraryRoom
<1> QED
  BY <1>1, <1>4, <1>6, <1>7, <1>8 DEF RInv, Room, KernelRoom, LibraryRoom, OneToOne

\* The instant goes to the specification the entry was copied from.
LEMMA LibraryPassesRInv ==
  ASSUME TypeOK, IInv, VInv, RInv, LibraryPasses PROVE RInv'
<1> DEFINE n == test.new
           m == n + 1
<1>1. /\ n \in Rids /\ table[n] \in RowSet /\ table[n].used /\ test.Z \in Nat
      /\ test.pc = "admit" /\ caller = "library" /\ ~Continues /\ Verdict
      /\ zsinstant' = [zsinstant EXCEPT ![order[n]] = test.Z]
      /\ UNCHANGED <<caller, specs, order>>
  BY AdmitType DEF LibraryPasses, Decided
<1>2. ~Fresh
  BY <1>1, FreshContinues
<1>3. LeavesRoom(n, test.Z)
  BY <1>1, <1>2 DEF RInv, Room, Current, LeavesRoom
<1>4. order \in [Rids -> Rids] /\ zsinstant \in [Rids -> Nat]
  BY TypeParts
<1>5. ASSUME NEW i \in Rids, i < n \/ i = n
      PROVE  LeavesRoom(i, zsinstant'[order[i]])
  <2>1. CASE i = n
    <3>1. zsinstant'[order[i]] = test.Z
      BY <1>1, <1>4, <2>1
    <3> QED
      BY <1>3, <2>1, <3>1
  <2>2. CASE i # n
    <3>1. order[i] # order[n]
      BY <1>1, <2>2 DEF RInv, OneToOne
    <3>2. zsinstant'[order[i]] = zsinstant[order[i]]
      BY <1>1, <1>4, <3>1
    <3>3. LeavesRoom(i, zsinstant[order[i]])
      BY <1>1, <1>5, <2>2 DEF RInv, LibraryRoom
    <3> QED
      BY <3>2, <3>3
  <2> QED
    BY <2>1, <2>2
<1> HIDE DEF n
<1>6. n = test.new
  BY DEF n
<1>7. CASE n < Slots
  <2>1. m \in Rids
    BY <1>1, <1>7, Numbers
  <2>2. table[m] \in RowSet
    <3>1. Row(m)
      BY <1>1, <2>1 DEF IInv, Testing
    <3>2. "spec" \notin DOMAIN Unused
      BY DEF Unused
    <3> QED
      BY <2>1, <3>1, <3>2, TypeParts DEF Row, TableRows
  <2>3. Begin(table, m) /\ UNCHANGED answer
    BY <1>6, <1>7 DEF LibraryPasses
  <2>4. \A i \in Rids : i < m => i < n \/ i = n
    BY <1>1, Numbers
  <2> HIDE DEF m
  <2>5. Fresh'
    BY <2>1, <2>2, <2>3, TypeParts, BeginVInv DEF VInv, RmBounded
  <2>6. test'.new = m /\ \A k \in Rids \ {m} : table'[k] = table[k]
    BY <2>1, <2>2, <2>3, TypeParts, Numbers, RmExcept DEF Begin
  <2>7. ASSUME NEW i \in Rids, i < m PROVE LeavesRoom(i, zsinstant[order[i]])'
    <3>1. table'[i] = table[i]
      <4>1. i # m
        BY <2>1, <2>7, Numbers
      <4> QED
        BY <2>6, <4>1
    <3>2. PICK z : z = zsinstant'[order[i]]
      OBVIOUS
    <3>3. LeavesRoom(i, z)
      BY <1>5, <2>4, <2>7, <3>2
    <3>4. LeavesRoom(i, z)'
      BY <1>1, <3>1, <3>3, RoomStays
    <3> QED
      BY <1>1, <3>2, <3>4 DEF LeavesRoom
  <2>8. answer' # "admissible"
    BY <1>1, <2>3 DEF RInv, LibraryRoom
  <2> QED
    BY <1>1, <2>5, <2>6, <2>7, <2>8 DEF RInv, Room, KernelRoom, LibraryRoom, OneToOne
<1>8. CASE ~(n < Slots)
  <2>1. test' = NoTest /\ UNCHANGED table
    BY <1>6, <1>8 DEF LibraryPasses
  <2>2. test'.pc = "idle"
    BY <2>1 DEF NoTest
  <2>3. ASSUME NEW i \in Rids PROVE LeavesRoom(i, zsinstant[order[i]])'
    <3>1. i < n \/ i = n
      BY <1>1, <1>8, Numbers
    <3>2. PICK z : z = zsinstant'[order[i]]
      OBVIOUS
    <3>3. LeavesRoom(i, z)
      BY <1>5, <3>1, <3>2
    <3>4. LeavesRoom(i, z)'
      BY <1>1, <2>1, <3>3, RoomStays
    <3> QED
      BY <1>1, <3>2, <3>4 DEF LeavesRoom
  <2> QED
    BY <1>1, <2>2, <2>3 DEF RInv, Room, KernelRoom, LibraryRoom, OneToOne
<1> QED
  BY <1>7, <1>8

LEMMA LibraryFailsRInv == ASSUME RInv, LibraryFails PROVE RInv'
<1>1. /\ caller' = "library" /\ answer' = "refused" /\ test'.pc = "idle" /\ order' = order
  BY DEF LibraryFails, NoTest
<1> QED
  BY <1>1 DEF RInv, Room, KernelRoom, LibraryRoom, OneToOne

LEMMA NextRInv ==
  ASSUME NoOverflow, NoWrap, TypeOK, IInv, VInv, RInv, [Next]_vars PROVE RInv'
<1>1. CASE Run
  BY <1>1, SortRInv, CopyTableRInv, IterateRInv, KernelAnswerRInv, LibraryPassesRInv,
     LibraryFailsRInv DEF Run
<1>2. CASE \E s \in Specs : CreateRsv(s)
  BY <1>2, CreateRsvRInv
<1>3. CASE \E i \in Rids : DeleteRsv(i)
  BY <1>3, DeleteRsvRInv
<1>4. CASE \E s \in [Rids -> Specs] : IsAdmissible(s)
  BY <1>4, IsAdmissibleRInv
<1>5. CASE UNCHANGED vars
  BY <1>5 DEF vars, RInv, Room, KernelRoom, LibraryRoom, OneToOne, Verdict, Fresh, Current,
     LeavesRoom
<1> QED
  BY <1>1, <1>2, <1>3, <1>4, <1>5 DEF Next

LEMMA RInvLeavesRoom == TypeOK /\ RInv => InstantLeavesRoom
<1> SUFFICES ASSUME TypeOK, RInv, test.pc = "idle"
             PROVE  \A i \in Rids :
                      IF caller = "kernel" THEN table[i].used => LeavesRoom(i, table[i].zs)
                      ELSE answer = "admissible" => LeavesRoom(i, zsinstant[order[i]])
  BY DEF InstantLeavesRoom
<1>1. caller \in {"kernel", "library"}
  BY TypeParts
<1> QED
  BY <1>1 DEF RInv, KernelRoom, LibraryRoom

\* In behaviours where no nominal budget wraps, the kernel's instants and those the
\* library hands back, each in its own specification, leave time before the period
\* for what rate-monotonic mode does not hold.
THEOREM InstantsLeaveRoom ==
  ASSUME NoOverflow
  PROVE  Spec /\ []NoWrap => []InstantLeavesRoom
<1>1. TypeOK /\ IInv /\ VInv /\ [Next]_vars => VInv'
  BY NextVInv
<1>2. NoWrap /\ TypeOK /\ IInv /\ VInv /\ RInv /\ [Next]_vars => RInv'
  BY NextRInv
<1> QED
  BY <1>1, <1>2, InitIInv, NextIInv, InitTypeOK, NextTypeOK, InitVInv, InitRInv,
     RInvLeavesRoom, PTL DEF Spec

\* No budget wraps where none is larger than its nominal budget (no reserve declares
\* an overload budget): there the instants leave room without a condition.
THEOREM NominalBudgetsLeaveRoom ==
  ASSUME NoOverflow, \A s \in Specs : s.exec <= s.nominal
  PROVE  Spec => []NoWrap /\ []InstantLeavesRoom
<1>1. TypeOK /\ IInv /\ VInv /\ [Next]_vars => VInv'
  BY NextVInv
<1>2. ASSUME TypeOK, VInv PROVE NoWrap
  <2> SUFFICES ASSUME NEW j \in Rids, table[j].used
               PROVE  table[j].rm <= table[j].spec.nominal
    BY DEF NoWrap
  <2>1. /\ table[j].rm \in Nat /\ table[j].spec.exec \in Nat /\ table[j].spec.nominal \in Nat
        /\ table[j].spec \in Specs
    BY <1>2, UsedRow
  <2>2. table[j].rm <= table[j].spec.exec
    BY <1>2 DEF VInv, RmBounded
  <2> QED
    BY <2>1, <2>2
<1>3. TypeOK /\ VInv => NoWrap
  BY <1>2
<1>4. Spec => []NoWrap
  BY <1>1, <1>3, InitIInv, NextIInv, InitTypeOK, NextTypeOK, InitVInv, PTL DEF Spec
<1> QED
  BY <1>4, InstantsLeaveRoom, PTL
=============================================================================
