------------------------------ MODULE MCDoors -------------------------------
(* Two nodes on a line within one radius of each other, and one spot for an  *)
(* anchor besides the place between them where seeding plants one.           *)
EXTENDS Doors, TLC
CONSTANTS a, b
MCNode == {a, b}
MCPlace == (a :> 6) @@ (b :> 12)
MCRelayRole == {b}
MCSpot == {18}
MCRadii == {6}
=============================================================================
