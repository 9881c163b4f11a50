SPECIFICATION Spec
CONSTANTS
  maxDataPoints = 2
  MAX_LINES = 3
  MavLines <- ShortMavlink
  Fields <- TwoFields
  MaxMessages = 6
INVARIANTS
  TypeOK
  ChartShowsNewest
  StampsAligned
  TextShowsNewest
PROPERTIES
  ChartsFollow
CHECK_DEADLOCK FALSE
