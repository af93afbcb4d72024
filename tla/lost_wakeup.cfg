SPECIFICATION Spec
CONSTANTS
  MaxReserves = 2
  Specs <- UnitSame
  MinPriority = 50
  MaxTicks = 1
  UintMod = 2
  MaxDrift = 0
  MaxSignals = 1
  Calls = {"wait"}
  Mortal = {}
  SchedFirst = FALSE
INVARIANTS
  RequestWakes
