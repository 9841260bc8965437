SPECIFICATION Spec
CONSTANTS
  Sources <- MCSources
  Setups <- MCSetups
INVARIANTS
  TypeOK
  RecordsInOrder
  MessagesWhole
  LoadComplete
  ClocksApart
PROPERTIES
  LoadEnds
