------------------------------ MODULE MCApart -------------------------------
(* The four components on small instances.                                  *)
EXTENDS Apart

CONSTANTS a, b, c

MCTarget == {a, b, c}
MCSite   == {a, b}
MCLookup == {c}
MCPeer   == {a}
MCRadio  == {b}
=============================================================================
