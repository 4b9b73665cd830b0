CONSTANTS
  n1 = n1
  n2 = n2
  yagi = yagi
  fixed = fixed
  omni = omni
  Foreign = Foreign
  None = None
  Node <- MCNode
  Radio <- MCRadio
  Directional <- MCDirectional
  Steerable <- MCSteerable
  MaxRuns = 3
SPECIFICATION Spec
SYMMETRY MCSymmetry
INVARIANTS
  OneOutcomePerDispatch
PROPERTIES
  EntriesCloseWhole
  FeedIsLegal
