------------------------------ MODULE MCOpFlow ------------------------------
(* Two operations of one page, two radios.                                 *)
EXTENDS OpFlow

CONSTANTS o1, o2, r1, r2

MCRequest == {o1, o2}
MCRadio   == {r1, r2}
=============================================================================
