SPECIFICATION LiveDeviceSpec
CONSTANTS
  MaxTicks = 3
INVARIANTS
  TypeOK
  DestroyedClean
  LossBound
  QuietExitCloses
PROPERTIES
  LossRestarts
\* The process may abort (the run client_abort): nothing is left to happen.
CHECK_DEADLOCK FALSE
