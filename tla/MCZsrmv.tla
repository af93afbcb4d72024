------------------------------ MODULE MCZsrmv ------------------------------
(***************************************************************************)
(* Instances of Zsrmv for TLC.  A client creates any number of reserves    *)
(* with the parameters of one of the sets below.                           *)
(***************************************************************************)
EXTENDS ZsrmvProperties

S(p, c, e, n, z) ==
  [period |-> p, criticality |-> c, exectime |-> e, nominal |-> n,
   zsinstant |-> z, priority |-> 1]

\* One kind of reserve.
One == {S(1, 1, 1, 1, FALSE)}

\* Two budgets, one criticality.
Same == {S(1, 1, 1, 1, FALSE), S(2, 1, 2, 1, FALSE)}

\* The reserve of the longer period is the more critical one.
Two == {S(1, 1, 1, 1, FALSE), S(2, 2, 2, 1, TRUE)}

\* The same with budgets of one tick, for the larger instances.
UnitSame == {S(1, 1, 1, 1, FALSE), S(2, 1, 1, 1, FALSE)}
Unit == {S(1, 1, 1, 1, FALSE), S(2, 2, 1, 1, TRUE)}

\* Equally critical reserves with zero-slack instants within their periods.
Early == {S(1, 1, 1, 1, TRUE), S(2, 1, 2, 1, TRUE)}
=============================================================================
