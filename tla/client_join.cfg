SPECIFICATION FairSpec
CONSTANTS
  MaxTicks = 3
PROPERTIES
  EndedSessionRestarts
CHECK_DEADLOCK FALSE
