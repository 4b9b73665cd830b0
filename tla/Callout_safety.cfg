CONSTANTS
  n1 = n1
  n2 = n2
  t1 = t1
  t2 = t2
  s1 = s1
  s2 = s2
  None = None
  Node <- MCNode
  Template <- MCTemplate
  Slot <- MCSlot
  Ttl <- MCTtl
  StoredMax <- MCStoredMax
  StoredCooldown <- MCStoredCooldown
  QuietHours = {0}
  Day = 2
  HardMaxPerDay = 1
  HardMinCooldown = 3
  ReplyWindow = 2
  MaxTime = 6
  MaxAir = 3
  MaxDelay = 1
SPECIFICATION Spec
SYMMETRY MCSymmetry
INVARIANTS
  LogWithinCeiling
  NodesAreLeftInPeace
  WordingsRest
  AnswersInOrder
