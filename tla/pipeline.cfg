\* Two sessions of the client.
SPECIFICATION FairSpec
CONSTANTS
  MaxSessions = 2
  Interruptible = {0, 1}
  Room = 0
  MaxQueue = 1
  MaxMsgs = 3
  HighWater = 0
  LowWater = 0
  DrainLimit = 0
  MaxYields = 1
INVARIANTS
  TypeOK
  RelaySound
PROPERTIES
  SessionForgotten
  InterruptStops
  LossEndsSession
  SendEndsUntilQueueFull
\* The client stops when it is told to.
CHECK_DEADLOCK FALSE
