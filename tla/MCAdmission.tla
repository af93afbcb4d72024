---------------------------- MODULE MCAdmission ----------------------------
(* Sets of specifications for model checking the admission test. *)
EXTENDS Admission

Task(period, exec, nominal, crit) ==
  [period |-> period, exec |-> exec, nominal |-> nominal, crit |-> crit]

\* Reserves of three criticalities: priorities along and against them, equal
\* periods, overload budgets larger than the nominal ones, and a heavy one.
MixedTasks ==
  { Task(2, 1, 1, 1), Task(3, 1, 1, 1), Task(4, 3, 2, 1), Task(4, 2, 1, 2),
    Task(6, 4, 2, 2), Task(6, 1, 1, 1), Task(8, 4, 3, 3), Task(8, 2, 2, 1) }

\* A critical reserve of low priority beside a light one of high priority.
TightTasks == { Task(5, 3, 3, 2), Task(2, 1, 1, 1) }
=============================================================================
