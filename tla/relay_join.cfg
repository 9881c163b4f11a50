\* Browsers join and leave while a frame is being broadcast.
SPECIFICATION Spec
CONSTANTS
  p = p
  q = q
  b = b
  NoConn = NoConn
  Conns <- ThreeConns
  Producers <- OneProducer
  MaxMsgs = 1
  HighWater = 1
  LowWater = 0
  DrainLimit = 1
  MaxYields = 2
PROPERTIES
  BroadcastReachesAll
CHECK_DEADLOCK FALSE
