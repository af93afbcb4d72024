----------------------------- MODULE Admission -----------------------------
(***************************************************************************)
(* The admission test of admission.c and its two callers: the kernel       *)
(* module, which tests each reserve as it is created against those created *)
(* before it (zsrmv.c), and zsv_is_admissible of the library, which tests  *)
(* a whole set of specifications before any reserve exists (libzsv.c).     *)
(* Each test is a fixed point: an iteration computes the response time in  *)
(* critical mode, the zero-slack instant Z this leaves, and the execution  *)
(* that rate-monotonic mode provides before Z.  An action is one iteration.*)
(***************************************************************************)
EXTENDS Integers, FiniteSetsExt

CONSTANTS
  Specs,     \* the specifications a client may ask for
  Slots,     \* the length of the table
  UintMod    \* unsigned long long counts modulo UintMod

ASSUME SpecsAssumption ==
  Specs \subseteq [period : Nat \ {0}, exec : Nat, nominal : Nat, crit : Nat]
ASSUME SlotsAssumption == Slots \in Nat \ {0}
ASSUME UintModAssumption ==
  UintMod \in Nat \ {0} /\ \A s \in Specs : 2 * s.period < UintMod /\ s.exec < UintMod

VARIABLES
  caller,    \* the program that runs the test: the kernel or the library
  table,     \* reserve_table, or the library's copy of it, rtable
  specs,     \* reserves_specs_table, the client's array, as it is given
  zsinstant, \* the instants the library hands back, one in each specification
  order,     \* dec_crit_indices: the specification in each entry of rtable
  test,      \* the local variables of admit and of its caller
  answer     \* what zsv_is_admissible returned, "none" before it does

vars == <<caller, table, specs, zsinstant, order, test, answer>>

Rids == 1 .. Slots
Uints == 0 .. UintMod - 1
\* Mutant of Uint: a signed type.
SignedLong(n) == n
Uint(n) == n % UintMod

\* An entry of the table; nothing is known of an entry never used.
Entry(s) == [used |-> TRUE, spec |-> s, rm |-> 0, zs |-> 0]
Unused == [used |-> FALSE]

Current == table[test.new]

-----------------------------------------------------------------------------
(***************************************************************************)
(* The sets of reserves that interfere (getNextInSet), by relation of      *)
(* priority and criticality to the reserve under test.                     *)
(***************************************************************************)
isHigherPrioHigherCrit(s, o) == s.period >= o.period /\ s.crit < o.crit
isLowerPrioHigherCrit(s, o) == s.period < o.period /\ s.crit < o.crit
isHigherPrioSameCrit(s, o) == s.period >= o.period /\ s.crit = o.crit
isHigherPrioLowerCrit(s, o) == s.period >= o.period /\ s.crit > o.crit

Others(i) == {j \in Rids : table[j].used /\ j # i}

HigherPrioHigherCrit(i) ==
  {j \in Others(i) : isHigherPrioHigherCrit(table[i].spec, table[j].spec)}
LowerPrioHigherCrit(i) ==
  {j \in Others(i) : isLowerPrioHigherCrit(table[i].spec, table[j].spec)}
HigherPrioSameCrit(i) ==
  {j \in Others(i) : isHigherPrioSameCrit(table[i].spec, table[j].spec)}
HigherPrioLowerCrit(i) ==
  {j \in Others(i) : isHigherPrioLowerCrit(table[i].spec, table[j].spec)}

\* Mutant of numArrivals: the period under way is not counted.
CompletedPeriods(t, period) == t \div period
numArrivals(t, period) == t \div period + (IF t % period > 0 THEN 1 ELSE 0)

\* The sum over the entries of the table.
Total(f) ==
  LET sum[n \in 0 .. Slots] == IF n = 0 THEN 0 ELSE sum[n - 1] + f[n] IN sum[Slots]

\* What the reserves of a set ask for in an interval of t, each cost[j] an arrival.
Interference(cost, t) ==
  Total([j \in Rids |-> IF j \in DOMAIN cost
                        THEN numArrivals(t, table[j].spec.period) * cost[j] ELSE 0])

getExecTimeHigherPrioHigherCrit(j) == table[j].spec.nominal
getExecTimeHigherPrioSameCrit(j) == table[j].spec.exec
getExecTimeLowerPrioHigherCrit(j) == Uint(table[j].spec.nominal - table[j].rm)

\* What is left to run in critical mode.
InCritical(i) == Uint(table[i].spec.exec - table[i].rm)

\* One pass of the response-time iteration: the demand in an interval of t.
CritDemand(i, t) ==
  Uint(InCritical(i)
       + Interference([j \in HigherPrioHigherCrit(i) |-> getExecTimeHigherPrioHigherCrit(j)], t)
       + Interference([j \in LowerPrioHigherCrit(i) |-> getExecTimeLowerPrioHigherCrit(j)], t)
       + Interference([j \in HigherPrioSameCrit(i) |-> getExecTimeHigherPrioSameCrit(j)], t))

\* The iteration ends at a fixed point, or past the period.
getResponseTimeCritNs(i) ==
  LET from[prev \in Nat] ==
        LET resp == CritDemand(i, prev)
        IN  IF resp > prev /\ resp <= table[i].spec.period THEN from[resp] ELSE resp
  IN  from[InCritical(i)]

getRMInterference(i, Z) ==
  Uint(Interference([j \in HigherPrioHigherCrit(i) |-> table[j].spec.nominal], Z)
       + Interference([j \in HigherPrioLowerCrit(i) |-> table[j].spec.exec], Z)
       + Interference([j \in HigherPrioSameCrit(i) |-> table[j].spec.exec], Z))

-----------------------------------------------------------------------------
(***************************************************************************)
(* admit                                                                   *)
(***************************************************************************)
NoTest == [pc |-> "idle"]
NoSpecs == <<>>

\* The assignments before the loop, for entry i of table t.
Begin(t, i) ==
  /\ table' = [t EXCEPT ![i].rm = 0]
  /\ test' = [pc |-> "admit", new |-> i, Z |-> 1, prevZ |-> 0, resp |-> 0, slack |-> 0]

\* Mutant of Continues: an iteration that leaves Z as it was is repeated.
ContinuesAtFixpoint == Current.spec.period >= test.resp /\ test.Z >= test.prevZ
Continues == Current.spec.period >= test.resp /\ test.Z > test.prevZ

\* The slack between Z and what must run before it.  At the limit, Z is
\* pushed past the interference if that opens some slack; if it does not,
\* the slack of the iteration before stands.
SlackAndZ(resp) ==
  LET Z == Current.spec.period - resp
      rm == Current.rm
      demand == Uint(getRMInterference(test.new, Z) + rm)
      critical == Uint(resp - InCritical(test.new))
      pushed == Uint(Z + critical)
      interf1 == getRMInterference(test.new, pushed)
  IN  IF Z > demand THEN [slack |-> Uint(Z - demand), Z |-> Z]
      ELSE IF Z < demand THEN [slack |-> 0, Z |-> Z]
      ELSE IF pushed <= Current.spec.period /\ interf1 <= critical
           THEN [slack |-> Uint(pushed - interf1 - rm), Z |-> pushed]
      ELSE [slack |-> test.slack, Z |-> Z]

\* The execution guaranteed in rate-monotonic mode grows by the slack, up to
\* the whole budget: then the zero-slack instant is the period.
WithSlack(found) ==
  IF Uint(found.slack + Current.rm) < Current.spec.exec
  THEN [rm |-> Uint(Current.rm + found.slack), Z |-> found.Z]
  ELSE [rm |-> Current.spec.exec, Z |-> Current.spec.period]

Iterate ==
  /\ test.pc = "admit"
  /\ Continues
  /\ \E resp \in {getResponseTimeCritNs(test.new)} :
       \/ /\ Current.spec.period >= resp
          /\ \E found \in {SlackAndZ(resp)} :
               LET next == WithSlack(found)
               IN  /\ table' = [table EXCEPT ![test.new].rm = next.rm]
                   /\ test' = [test EXCEPT !.prevZ = test.Z, !.resp = resp,
                                           !.slack = found.slack, !.Z = next.Z]
       \/ /\ Current.spec.period < resp
          /\ test' = [test EXCEPT !.prevZ = test.Z, !.resp = resp]
          /\ UNCHANGED table
  /\ UNCHANGED <<caller, specs, zsinstant, order, answer>>

\* The loop has ended; what admit returns.
Decided == test.pc = "admit" /\ ~Continues
Verdict == Current.spec.period >= test.resp

-----------------------------------------------------------------------------
(***************************************************************************)
(* The kernel module: CREATE_RSV and DELETE_RSV                            *)
(***************************************************************************)
Free == {i \in Rids : ~table[i].used}

CreateRsv(s) ==
  /\ caller = "kernel"
  /\ test.pc = "idle"
  /\ Free # {}
  /\ LET rid == Min(Free)
     IN  Begin([table EXCEPT ![rid] = Entry(s)], rid)
  /\ UNCHANGED <<caller, specs, zsinstant, order, answer>>

\* An instant that is the period is put out of reach of the period timer.
KernelInstant == IF test.Z = Current.spec.period THEN 2 * test.Z ELSE test.Z

KernelAnswer ==
  /\ caller = "kernel"
  /\ Decided
  /\ IF Verdict
     THEN table' = [table EXCEPT ![test.new].zs = KernelInstant]
     ELSE table' = [table EXCEPT ![test.new] = Unused]
  /\ test' = NoTest
  /\ UNCHANGED <<caller, specs, zsinstant, order, answer>>

DeleteRsv(i) ==
  /\ caller = "kernel"
  /\ test.pc = "idle"
  /\ table[i].used
  /\ table' = [table EXCEPT ![i] = Unused]
  /\ UNCHANGED <<caller, specs, zsinstant, order, test, answer>>

-----------------------------------------------------------------------------
(***************************************************************************)
(* The library: zsv_is_admissible                                          *)
(***************************************************************************)
Swapped(d, i, j) == [d EXCEPT ![i] = d[j], ![j] = d[i]]

\* Calls share nothing: the library makes one.
IsAdmissible(s) ==
  /\ caller = "library"
  /\ test.pc = "idle"
  /\ answer = "none"
  /\ specs' = s
  /\ order' = [i \in Rids |-> i]
  /\ test' = [pc |-> "sort", i |-> 1, j |-> 2]
  /\ UNCHANGED <<caller, table, zsinstant, answer>>

\* Mutant of Misplaced: the indices are compared as if they were in place.
MisplacedDirect(i, j) == specs[i].crit < specs[j].crit
Misplaced(i, j) == specs[order[i]].crit < specs[order[j]].crit

\* A comparison of the exchange sort by decreasing criticality, of indices.
Compare ==
  /\ test.pc = "sort"
  /\ test.j <= Slots
  /\ order' = IF Misplaced(test.i, test.j) THEN Swapped(order, test.i, test.j) ELSE order
  /\ test' = [test EXCEPT !.j = @ + 1]
  /\ UNCHANGED <<caller, table, specs, zsinstant, answer>>

NextPosition ==
  /\ test.pc = "sort"
  /\ test.j > Slots
  /\ test.i < Slots
  /\ test' = [test EXCEPT !.i = @ + 1, !.j = test.i + 2]
  /\ UNCHANGED <<caller, table, specs, order, zsinstant, answer>>

\* The table is copied in that order and its first entry is tested.
CopyTable ==
  /\ test.pc = "sort"
  /\ test.j > Slots
  /\ test.i = Slots
  /\ Begin([i \in Rids |-> Entry(specs[order[i]])], 1)
  /\ UNCHANGED <<caller, specs, order, zsinstant, answer>>

\* Mutant of LibraryPasses: the instant goes to the specification at the
\* position of the entry.
LibraryPassesUnmapped ==
  /\ caller = "library"
  /\ Decided
  /\ Verdict
  /\ zsinstant' = [zsinstant EXCEPT ![test.new] = test.Z]
  /\ IF test.new < Slots
     THEN Begin(table, test.new + 1) /\ UNCHANGED answer
     ELSE test' = NoTest /\ answer' = "admissible" /\ UNCHANGED table
  /\ UNCHANGED <<caller, specs, order>>

\* An admitted entry hands its instant back in the client's specification,
\* and the next entry is tested, unless it was the last.
LibraryPasses ==
  /\ caller = "library"
  /\ Decided
  /\ Verdict
  /\ zsinstant' = [zsinstant EXCEPT ![order[test.new]] = test.Z]
  /\ IF test.new < Slots
     THEN Begin(table, test.new + 1) /\ UNCHANGED answer
     ELSE test' = NoTest /\ answer' = "admissible" /\ UNCHANGED table
  /\ UNCHANGED <<caller, specs, order>>

LibraryFails ==
  /\ caller = "library"
  /\ Decided
  /\ ~Verdict
  /\ test' = NoTest
  /\ answer' = "refused"
  /\ UNCHANGED <<caller, table, specs, zsinstant, order>>

-----------------------------------------------------------------------------
Init ==
  /\ caller \in {"kernel", "library"}
  /\ table = [i \in Rids |-> Unused]
  /\ specs = NoSpecs
  /\ zsinstant = [i \in Rids |-> 0]
  /\ order = [i \in Rids |-> i]
  /\ test = NoTest
  /\ answer = "none"

\* A test runs to its end without a pause.
Run ==
  \/ Compare \/ NextPosition \/ CopyTable
  \/ Iterate \/ KernelAnswer \/ LibraryPasses \/ LibraryFails

Next ==
  \/ Run
  \/ \E s \in Specs : CreateRsv(s)
  \/ \E i \in Rids : DeleteRsv(i)
  \/ \E s \in [Rids -> Specs] : IsAdmissible(s)

Spec == Init /\ [][Next]_vars

\* A call that has started is run to its end.
FairSpec == Spec /\ WF_vars(Run)

-----------------------------------------------------------------------------
(***************************************************************************)
(* Properties                                                              *)
(***************************************************************************)
TypeOK ==
  /\ caller \in {"kernel", "library"}
  /\ DOMAIN table = Rids
  /\ \A i \in Rids : \/ table[i] = Unused
                    \/ table[i] \in [used : {TRUE}, spec : Specs, rm : Uints, zs : Nat]
  /\ specs = NoSpecs \/ specs \in [Rids -> Specs]
  /\ zsinstant \in [Rids -> Nat]
  /\ order \in [Rids -> Rids]
  /\ \/ test = NoTest
     \/ test \in [pc : {"sort"}, i : Rids, j : 2 .. Slots + 1]
     \/ /\ test \in [pc : {"admit"}, new : Rids, Z : Nat, prevZ : Nat, resp : Uints, slack : Uints]
        /\ Current.used
  /\ answer \in {"none", "admissible", "refused"}

\* A reserve of higher criticality leaves its nominal budget less what it
\* runs in rate-monotonic mode to its critical mode, and no less than nothing.
Remaining(j) == Max({table[j].spec.nominal - table[j].rm, 0})

\* In an interval of t that starts with everything released, the budget of i
\* and the demand of those it cannot stop in critical mode.
Demand(i, t) ==
  LET s == table[i].spec
      cost(j) ==
        LET o == table[j].spec
        IN  CASE o.crit > s.crit /\ o.period <= s.period -> o.nominal
              [] o.crit > s.crit /\ o.period > s.period -> Remaining(j)
              [] o.crit = s.crit /\ o.period <= s.period -> o.exec
              [] OTHER -> 0
      ceiling(j) == (t + table[j].spec.period - 1) \div table[j].spec.period
  IN  s.exec + Total([j \in Rids |-> IF table[j].used /\ j # i
                                       THEN ceiling(j) * cost(j) ELSE 0])

Fits(i) == \E t \in 1 .. table[i].spec.period : Demand(i, t) <= t

\* nominal_exectime_ns - exectime_in_rm_ns does not wrap (line 100).
NoWrap ==
  \A j \in Rids : table[j].used => table[j].rm <= table[j].spec.nominal

\* The verdict is that of the response-time test: a reserve is admitted if,
\* and only if, its whole budget fits in its period in critical mode.  The
\* iterations on Z, which change the budget left for critical mode while the
\* verdict is being reached, never change the verdict.
VerdictIsResponseTime == Decided /\ NoWrap => (Verdict <=> Fits(test.new))

\* The zero-slack instant leaves room for the budget that remains: from it to
\* the end of the period there is time for what rate-monotonic mode does not
\* guarantee, and the kernel disables the timer only for a reserve whose
\* whole budget it guarantees.  The client finds its own instant in each
\* specification, although the table is in another order.
LeavesRoom(i, z) ==
  \/ z + table[i].spec.exec - table[i].rm <= table[i].spec.period
  \/ caller = "kernel" /\ z = 2 * table[i].spec.period /\ table[i].rm = table[i].spec.exec
InstantLeavesRoom ==
  test.pc = "idle" =>
    \A i \in Rids :
      IF caller = "kernel" THEN table[i].used => LeavesRoom(i, table[i].zs)
      ELSE answer = "admissible" => LeavesRoom(i, zsinstant[order[i]])

\* The library tests a set from the most critical reserve down: the budget
\* in rate-monotonic mode of a reserve a test counts on is final.
CriticalFirst ==
  caller = "library" /\ test.pc = "admit" =>
    \A i \in Rids : i > test.new => table[i].spec.crit <= Current.spec.crit

\* Every call ends, with an answer: the instants of the iterations increase.
Answers == test.pc # "idle" ~> test.pc = "idle"

\* Rate-monotonic mode is credited with execution only where an interval up
\* to Z holds it besides the interference: "see if there is some slack if we
\* push Z a bit beyond interference window" (admission.c:197).
SlackIsThere ==
  [][\A i \in Rids :
       /\ test.pc = "admit" /\ test'.pc = "admit" /\ test.new = i /\ test'.new = i
       /\ table'[i].rm > table[i].rm
       => \E t \in 1 .. test'.Z : getRMInterference(i, t) + table'[i].rm <= t]_vars
=============================================================================
