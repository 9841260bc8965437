SPECIFICATION Spec
CONSTANTS
  Msg <- MCMsg
  timeStamp <- MCTimeStamp
  prn <- MCOne
  bits <- MCBits
  channel <- MCChannel
  sfid <- MCSfid
  tow <- MCTow
  iode <- MCOne
  MaxTime = 60
  procDepth = 1
  epochInSeconds = 6
  minIdentical = 1
  minTotal = 1
  filters <- MCFilters
  failing <- MCFailing
INVARIANTS
  TypeOK
  NothingLost
  DrainedWhenDone
  EpochsWithinDepth
  OneContentPerEpoch
PROPERTIES
  ReturnedInTimeOrder
