SPECIFICATION FairSpec
CONSTANTS
  MaxReserves = 2
  Specs <- Same
  MinPriority = 50
  MaxTicks = 3
  UintMod = 2
  MaxDrift = 1
  MaxSignals = 1
  Calls = {"wait", "delete"}
  Mortal = {0}
  SchedFirst = TRUE
INVARIANTS
  ReadyAttached
  PrioritiesFollow
  HeadEnforced
  StartPeriodCounts
  EnforcedExhausted
  BudgetKept
  RunningReady
  ReadyAwake
PROPERTIES
  StoppedUntilNextPeriod
  ImplementsDispatch
  Released
  DeadDeleted
