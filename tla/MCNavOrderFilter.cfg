SPECIFICATION Spec
CONSTANTS
  Msg <- MCMsg
  timeStamp <- MCTimeStamp
  prn <- MCOne
  bits <- MCOne
  MaxTime = 20
  procDepth = 2
  epochInSeconds = 2
  minIdentical = 2
  minTotal = 3
INVARIANTS
  TypeOK
  HeldWithinDepth
  RejectedAreStale
PROPERTIES
  AcceptedInTimeOrder
