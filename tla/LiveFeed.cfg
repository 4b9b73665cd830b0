CONSTANTS
  d1 = d1
  t1 = t1
  lora1 = lora1
  None = None
  Radio <- MCRadio
  Settings <- MCSettings
  Run <- MCRun
  Socket <- MCSocket
  Modes = 1
  Steps = 2
  Levels = 2
  MaxNews = 2
  MaxCuts = 2
  MaxQueue = 2
SPECIFICATION Spec
CHECK_DEADLOCK FALSE
INVARIANTS
  Converges
PROPERTIES
  PageCatchesUp
