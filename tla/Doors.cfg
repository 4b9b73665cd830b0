CONSTANTS
    a = a
    b = b
    Node <- MCNode
    Place <- MCPlace
    RelayRole <- MCRelayRole
    Spot <- MCSpot
    Radii <- MCRadii
    Radius = 6
    MinMembers = 2
    Unnamed = Unnamed
    MaxAnchors = 2
SPECIFICATION DoorsSpec
INVARIANTS
    DoorsAreProven
    AnchorsAreCurrent
PROPERTIES
    DoorStaysADoor
    SeedingSettles
