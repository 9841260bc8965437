SPECIFICATION MultiSpec
CONSTANTS
  Page <- MCPage
  Setups <- MCSetups
  Week = 90
INVARIANTS
  TypeOK
  OneUpload
  CompleteFrameReported
  DatedByOwnToa
  NoneOverdue
  NoPairWaits
  EverySF2Published
PROPERTIES
  MakesPageSets
  WaitsUntilUsed
