------------------------------- MODULE MCAim -------------------------------
(* One request among two nodes.  Requests share nothing in the program: the *)
(* beam itself is the gateway's, and busy stands for every other user.      *)
EXTENDS Aim

CONSTANTS c1, n1, n2

MCCall     == {c1}
MCNode     == {n1, n2}
MCHalfBeam == {None, 0, 1}
=============================================================================
