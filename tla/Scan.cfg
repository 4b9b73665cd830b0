CONSTANTS
  Steps = 2
  MaxChains = 2
  MaxOrphans = 1
  MaxRestarts = 1
  Elsewhere = Elsewhere
  None = None
SPECIFICATION FairSpec
INVARIANTS
  SnapshotIsCurrent
  ActvKeepsMoving
PROPERTY EveryScanEnds
