SPECIFICATION Spec
CONSTANTS
  Nav <- MCNav
  NoSat = 0
  NoSystem = 0
  OffsetFilter = "BySV"
  Convertible <- MCConvertible
  END_OF_TIME = 10
  EditSpan <- MCEditSpan
  EditSignals <- MCEditSignals
  Query <- MCQuery
INVARIANTS
  TypeOK
  OffsetsInStore
  SpanCovered
  ExactUserLatest
  ExactNearestClosest
PROPERTIES
  NoForesight
