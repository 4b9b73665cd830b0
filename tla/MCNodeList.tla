----------------------------- MODULE MCNodeList -----------------------------
(* Two nodes; the rotator's radio and another one.                          *)
EXTENDS NodeList, TLC

CONSTANTS n1, n2, rotator, omni

MCNode     == {n1, n2}
MCRadio    == {rotator, omni}
MCListener == {rotator}
MCSymmetry == Permutations(MCNode)

=============================================================================
