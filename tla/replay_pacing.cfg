SPECIFICATION Spec
CONSTANTS
  Dumps <- AllDumps
  Block = 2
  Room = 2
PROPERTIES
  EveryPassPaced
