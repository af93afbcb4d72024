SPECIFICATION Spec
CONSTANTS
  MaxReserves = 2
  Specs <- Early
  MinPriority = 50
  MaxTicks = 3
  UintMod = 2
  MaxDrift = 1
  MaxSignals = 1
  Calls = {"wait"}
  Mortal = {}
  SchedFirst = TRUE
INVARIANTS
  CritStackAcyclic
