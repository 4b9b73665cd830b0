CONSTANTS
  o1 = o1
  o2 = o2
  r1 = r1
  r2 = r2
  None = None
  Request <- MCRequest
  Radio <- MCRadio
SPECIFICATION Spec
CHECK_DEADLOCK FALSE
INVARIANTS
  PageIsToldTheEnd
  OnIsWatched
PROPERTIES
  EverySubmitSettles
