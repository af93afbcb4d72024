SPECIFICATION FairSpec
CONSTANTS
  Threads = {t1, t2, t3}
  MaxForks = 2
  MaxSignals = 1
INVARIANTS
  TypeOK
  Ring
PROPERTIES
  MissedOnlyByRace
  LookupsEnd
CHECK_DEADLOCK FALSE
