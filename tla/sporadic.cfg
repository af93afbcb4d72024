SPECIFICATION Spec
CONSTANTS
  MaxReserves = 2
  Specs <- One
  MinPriority = 50
  MaxTicks = 1
  UintMod = 4
  MaxDrift = 0
  MaxSignals = 2
  Calls = {"release", "capture"}
  Mortal = {}
  SchedFirst = TRUE
PROPERTIES
  EndedJobWaits
  ExhaustedSignalled
