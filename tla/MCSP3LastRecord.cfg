SPECIFICATION Spec
CONSTANTS
  Sources <- MCSources
  Setups <- MCSetups
INVARIANT
  EveryRecordRead
