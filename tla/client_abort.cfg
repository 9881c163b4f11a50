SPECIFICATION Spec
CONSTANTS
  MaxTicks = 3
INVARIANTS
  NeverAborts
CHECK_DEADLOCK FALSE
