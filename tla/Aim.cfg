CONSTANTS
  c1 = c1
  n1 = n1
  n2 = n2
  Broadcast = Broadcast
  None = None
  Call <- MCCall
  Node <- MCNode
  HalfBeam <- MCHalfBeam
  N = 4
  Retries = 2
SPECIFICATION Spec
CHECK_DEADLOCK FALSE
INVARIANTS
  SettledOnBeam
PROPERTIES
  KeepsPromise
  EveryAimEnds
