SPECIFICATION FairSpec
CONSTANTS
  Specs <- MixedTasks
  Slots = 3
  UintMod = 1000
INVARIANTS
  TypeOK
  VerdictIsResponseTime
  InstantLeavesRoom
  CriticalFirst
PROPERTIES
  Answers
CHECK_DEADLOCK FALSE
