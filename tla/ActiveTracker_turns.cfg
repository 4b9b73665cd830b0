CONSTANTS
  None = None
  Node = {a, b}
  MaxOrphans = 0
SPECIFICATION Spec
PROPERTIES
  EveryNodeInTurn
