SPECIFICATION ProgressSpec
CONSTANTS
  Rids = {0, 1}
  CPUs = {0, 1}
  Mortal = {1}
  AtomicLooks = TRUE
INVARIANTS
  TypeOK
  NoStaleFiring
  PeriodTimerLives
PROPERTIES
  SectionsEnd
