SPECIFICATION FairSpec
CONSTANTS
 Specs <- TightTasks
 Slots = 2
 UintMod = 1000
PROPERTIES
 SlackIsThere
CHECK_DEADLOCK FALSE
