SPECIFICATION FairSpec
CONSTANTS
  Dumps <- AllDumps
  Block = 2
  Room = 2
INVARIANTS
  TypeOK
PROPERTIES
  ReplayInOrder
  RecordsWhole
  ReportsTheDistance
  GoneClientIsNoticed
  StuckClientIsDropped
