SPECIFICATION Spec
CONSTANTS
  Msg <- MCMsg
  timeStamp <- MCTimeStamp
  prn <- MCPrn
  bits <- MCBits
  MaxTime = 20
  procDepth = 2
  epochInSeconds = 6
  minIdentical = 2
  minTotal = 3
INVARIANTS
  TypeOK
PROPERTIES
  AcceptedAgree
  AcceptedNotOutvoted
  VoteNotSplit
