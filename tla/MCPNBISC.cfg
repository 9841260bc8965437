SPECIFICATION MultiSpec
CONSTANTS
  Page <- MCPage
  Setups <- MCSetups
  Week = 90
INVARIANTS
  LatestPage1
