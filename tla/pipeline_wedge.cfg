\* One session of the client that sends three packets.
SPECIFICATION FairSpec
CONSTANTS
  MaxSessions = 1
  Interruptible = {}
  Room = 0
  MaxQueue = 1
  MaxMsgs = 7
  HighWater = 0
  LowWater = 0
  DrainLimit = 1
  MaxYields = 1
PROPERTIES
  SendEnds
\* The client stops when it is told to.
CHECK_DEADLOCK FALSE
