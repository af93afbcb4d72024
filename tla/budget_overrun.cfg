SPECIFICATION Spec
CONSTANTS
  MaxReserves = 2
  Specs <- Same
  MinPriority = 50
  MaxTicks = 3
  UintMod = 2
  MaxDrift = 1
  MaxSignals = 1
  Calls = {"wait"}
  Mortal = {}
  SchedFirst = FALSE
INVARIANTS
  BudgetKept
