CONSTANTS
  n1 = n1
  n2 = n2
  rotator = rotator
  omni = omni
  None = None
  Node <- MCNode
  Radio <- MCRadio
  Rotator <- rotator
  ScanListener <- MCListener
  MaxTime = 2
  MaxReports = 3
  MaxRestarts = 1
SPECIFICATION Spec
SYMMETRY MCSymmetry
INVARIANTS
  SweepListsContacts
  ContactsSurviveRestart
  AttributionIsEarned
PROPERTIES
  LastHeardMovesForward
