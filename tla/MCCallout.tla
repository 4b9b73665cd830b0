------------------------------ MODULE MCCallout ------------------------------
(* Small instances of Callout: two nodes; a wording that rests longer than  *)
(* the hard cooldown and one that rests as long; a stored configuration on  *)
(* either side of each hard limit.                                          *)
EXTENDS Callout, TLC

CONSTANTS n1, n2, t1, t2, s1, s2

MCNode           == {n1, n2}
MCTemplate       == {t1, t2}
MCTtl            == [t \in MCTemplate |-> IF t = t1 THEN 4 ELSE 3]
MCSlot           == {s1, s2}
MCStoredMax      == {0, 2}
MCStoredCooldown == {0, 4}

MCSymmetry == Permutations(MCNode) \cup Permutations(MCSlot)
=============================================================================
