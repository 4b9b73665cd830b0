CONSTANTS
  a = a
  b = b
  c = c
  Null = Null
  Foreign = Foreign
  Target <- MCTarget
  MaxLost = 1
  Site <- MCSite
  Lookup <- MCLookup
  MaxBreaks = 1
  Minutes = 3
  Days = 2
  MaxAsks = 2
  MaxFails = 2
  Peer <- MCPeer
  Radio <- MCRadio
  Directional <- MCRadio
  Steerable <- MCRadio
  MaxRuns = 3
SPECIFICATION ApartSpec
INVARIANTS
  ApartTypeOK
  NobodyTwiceBefore
  NoDayForgotten
PROPERTIES
  EveryNodeHasItsTurn
  EveryNodeNamed
  OncePerDay
  EveryCallerAnswered
