SPECIFICATION FairSpec
CONSTANTS
  Rids = {0}
  CPUs = {0, 1}
  Mortal = {0}
  AtomicLooks = FALSE
PROPERTIES
  DeadReserveDeleted
CHECK_DEADLOCK FALSE
