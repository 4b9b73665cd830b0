CONSTANTS
  c1 = c1
  c2 = c2
  c3 = c3
  c4 = c4
  a = a
  b = b
  None = None
  Command <- MCCommand
  Radio <- MCRadio
  Kind <- MCKind
  MaxTime = 2
  Grace = 1
  Skew = 2
  HardMax = 2
  MaxConfig = 3
SPECIFICATION HeardSpec
SYMMETRY Alike
CHECK_DEADLOCK FALSE
INVARIANTS
  OncePerCommand
  CeilingHolds
  TablesAgree
PROPERTIES
  RowMovesForward
