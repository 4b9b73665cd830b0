---------------------------- MODULE MCTraceroute ----------------------------
(* Traceroute on a small instance: two nodes, the yagi on the rotator, a    *)
(* directional antenna that is not, and an omni.                            *)
EXTENDS Traceroute, TLC

CONSTANTS n1, n2, yagi, fixed, omni

MCNode        == {n1, n2}
MCRadio       == {yagi, fixed, omni}
MCDirectional == {yagi, fixed}
MCSteerable   == {yagi}

MCSymmetry == Permutations(MCNode)
=============================================================================
