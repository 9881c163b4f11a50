SPECIFICATION Spec
CONSTANTS
  Bytes <- SomeBytes
  MaxPayload = 2
INVARIANTS
  CountsEveryByte
