\* The frames of one producer to two other connections that come and go.
SPECIFICATION FairSpec
CONSTANTS
  p = p
  q = q
  b = b
  NoConn = NoConn
  Conns <- ThreeConns
  Producers <- OneProducer
  MaxMsgs = 2
  HighWater = 0
  LowWater = 0
  DrainLimit = 1
  MaxYields = 2
INVARIANTS
  TypeOK
  RegistrySound
  Backpressure
  SenderOrder
PROPERTIES
  StableBroadcastDelivers
  SendsEnd
  LostIsForgotten
  KeepsPromise
\* At the end every connection is lost and every handler has returned.
CHECK_DEADLOCK FALSE
