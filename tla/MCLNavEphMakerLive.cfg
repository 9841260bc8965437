SPECIFICATION Spec
CONSTANTS
  Msg <- MCMsg
  timeStamp <- MCTimeStamp
  prn <- MCOne
  bits <- MCOne
  channel <- MCChannel
  sfid <- MCSfid
  tow <- MCTow
  iode <- MCIode
  MaxTime = 60
  procDepth = 2
  epochInSeconds = 6
  minIdentical = 2
  minTotal = 3
INVARIANT
  CompleteEphsValid
