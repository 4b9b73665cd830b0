------------------------------ MODULE MCHeard -------------------------------
(* What a packet sets off besides the live list, which NodeList has: its    *)
(* rows, and the command in it.  The two share no variable, so each is      *)
(* followed by itself, the other at rest.  Four commands, a ceiling of two  *)
(* that a configuration of three tries to raise; the packets of one node,   *)
(* heard by two radios.                                                     *)
EXTENDS Automation, PacketStore, TLC

CONSTANTS c1, c2, c3, c4, a, b

VARIABLE part

MCCommand == {c1, c2, c3, c4}
MCRadio   == {a, b}
MCKind    == {"text", "info", "position", "telemetry", "environment", "sealed"}
Alike     == Permutations(MCCommand) \cup Permutations(MCRadio)

HeardInit ==
  /\ part \in {"store", "verbs"}
  /\ Init /\ StoreInit
  /\ part = "verbs" \/ (~enabled /\ configMax = 0)

HeardNext ==
  \/ part = "verbs" /\ Next /\ UNCHANGED <<part, storeVars>>
  \/ part = "store" /\ StoreNext /\ UNCHANGED <<part, vars>>

HeardSpec == HeardInit /\ [][HeardNext]_<<part, vars, storeVars>>
=============================================================================
