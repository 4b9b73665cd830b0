---------------------------- MODULE ActiveTracker ----------------------------
(***************************************************************************)
(* src/active-tracker.js: in ACTV the beam visits the nodes on the radar,  *)
(* least recently targeted first, one dwell each.                          *)
(*                                                                         *)
(* When a node had its turn is a column of nodeinfo, written by an UPDATE: *)
(* a node without a row there has its turn and no stamp.  The radar is a   *)
(* set here (NodeList has how it comes about), and so is what ends a mode  *)
(* (ScanLifecycle).                                                        *)
(***************************************************************************)
EXTENDS Naturals

CONSTANTS
  Node,
  MaxOrphans,   \* bound on the timers no handle refers to
  None

VARIABLES
  radar,    \* the nodes of nodeList.nodes that have a position
  home,     \* home.lat and home.lon are stored
  row,      \* the nodes with a row in nodeinfo
  stamped,  \* those with yagi_last_targeted
  older,    \* the pairs of those of which the first has the earlier one
  contact,  \* those with yagi_last_contact
  actv,     \* the mode is ACTV, and no sweep runs
  held,     \* _holdTimer is set
  orphans,  \* timers that are set and that _holdTimer lost
  fired,    \* _firedNum
  served    \* history: how often others were stamped since a node waits

stored == <<home, row, stamped, older, contact, actv>>
timers == <<held, orphans>>
vars   == <<radar, stored, timers, fired, served>>

Nobody == [m \in Node |-> 0]

Init ==
  /\ radar = {} /\ home = TRUE
  /\ row = {} /\ stamped = {} /\ older = {} /\ contact = {}
  /\ actv = FALSE
  /\ held = FALSE /\ orphans = 0 /\ fired = None
  /\ served = [n \in Node |-> Nobody]

-----------------------------------------------------------------------------

(* buildSchedule()                                                          *)
Schedule == IF home THEN radar ELSE {}

Unstamped(s) == s \ stamped

(* Those with the last stamp: the next one may fall into its second.        *)
Latest == {n \in stamped : \A m \in stamped : <<n, m>> \notin older}

\* The latest first.
First_newest(s) ==
  IF Unstamped(s) # {} THEN Unstamped(s)
  ELSE {n \in s : \A m \in s : <<n, m>> \notin older}

(* Its head: never targeted first, then the one whose turn is longest ago.  *)
(* Which of the never targeted is left open (it is the order of the list).  *)
First(s) ==
  IF Unstamped(s) # {} THEN Unstamped(s)
  ELSE {n \in s : \A m \in s : <<m, n>> \notin older}

(* n has no turn, or its last one was a second ago when m is stamped.      *)
After(m, n) == n \notin stamped \/ <<n, m>> \in older'

(* Those who wait while m is stamped, or no longer wait; who was stamped in *)
(* the same second as m has just had its turn.                              *)
Served(m, waiting) ==
  [n \in Node |-> IF n \in waiting \ {m}
                  THEN [served[n] EXCEPT ![m] = IF m \in row /\ After(m, n) /\ @ < 2 THEN @ + 1 ELSE @]
                  ELSE Nobody]

Reset(waiting) == [n \in Node |-> IF n \in waiting THEN served[n] ELSE Nobody]

(* updateNodeYagiTargeted(): an UPDATE, with the second of now; same are    *)
(* those whose stamp has that second already.                               *)
Stamp(n, same) ==
  IF n \in row
  THEN /\ stamped' = stamped \cup {n}
       /\ older' = {p \in older : n \notin {p[1], p[2]}} \cup ((stamped \ (same \cup {n})) \X {n})
  ELSE UNCHANGED <<stamped, older>>

(* pointAt()                                                                *)
PointAt(n, others, same) ==
  /\ fired' = n
  /\ Stamp(n, same)
  /\ held' = TRUE /\ orphans' = others
  /\ served' = Served(n, Schedule)

\* With nobody to visit no timer is set.
Advance_once(handle, others, Same) ==
  IF Schedule = {}
  THEN held' = handle /\ orphans' = others /\ UNCHANGED <<fired, stamped, older, served>>
  ELSE \E n \in First(Schedule), same \in Same : PointAt(n, others, same)

(* advance(), which clears no timer if there is nobody to visit.            *)
Advance(handle, others, Same) ==
  IF Schedule = {}
  THEN /\ held' = TRUE
       /\ orphans' = others + (IF handle THEN 1 ELSE 0) /\ orphans' <= MaxOrphans
       /\ UNCHANGED <<fired, stamped, older, served>>
  ELSE \E n \in First(Schedule), same \in Same : PointAt(n, others, same)

HoldFires ==
  /\ held
  /\ Advance(FALSE, orphans, {{}})
  /\ UNCHANGED <<radar, home, row, contact, actv>>

OrphanFires ==
  /\ orphans > 0
  /\ Advance(held, orphans - 1, {{}, Latest})
  /\ UNCHANGED <<radar, home, row, contact, actv>>

(* The mode becomes ACTV, or is set to it again.                            *)
Start ==
  /\ actv' = TRUE
  /\ Advance(held, orphans, {{}, Latest})
  /\ UNCHANGED <<radar, home, row, contact>>

Stop ==
  /\ actv' = FALSE
  /\ held' = FALSE /\ fired' = None
  /\ UNCHANGED <<radar, home, row, stamped, older, contact, orphans, served>>

(* handlePacket(): a packet of the target at the radio that traces.         *)
HandlePacket ==
  /\ fired # None
  /\ contact' = contact \cup ({fired} \cap row)
  /\ UNCHANGED <<radar, home, row, stamped, older, actv, timers, fired, served>>

-----------------------------------------------------------------------------
(* Around the tracker.                                                      *)

Appears(n) ==
  /\ radar' = radar \cup {n}
  /\ UNCHANGED <<stored, timers, fired, served>>

Leaves(n) ==
  /\ radar' = radar \ {n}
  /\ served' = Reset(Schedule \ {n})
  /\ UNCHANGED <<stored, timers, fired>>

(* A NODEINFO of the node: rows of nodeinfo are never deleted.              *)
NodeInfo(n) ==
  /\ row' = row \cup {n}
  /\ UNCHANGED <<radar, home, stamped, older, contact, actv, timers, fired, served>>

PutHome(known) ==
  /\ home' = known
  /\ served' = IF known THEN served ELSE Reset({})
  /\ UNCHANGED <<radar, row, stamped, older, contact, actv, timers, fired>>

(* Boot: a stored ACTV starts over, on whatever the store put on the radar. *)
Restart ==
  /\ IF actv /\ Schedule # {}
     THEN \E n \in First(Schedule), same \in {{}, Latest} : PointAt(n, 0, same)
     ELSE held' = actv /\ orphans' = 0 /\ fired' = None /\ UNCHANGED <<stamped, older, served>>
  /\ UNCHANGED <<radar, home, row, contact, actv>>

Next ==
  \/ HoldFires \/ OrphanFires \/ Start \/ Stop \/ HandlePacket
  \/ \E n \in Node : Appears(n) \/ Leaves(n) \/ NodeInfo(n)
  \/ \E known \in BOOLEAN : PutHome(known)
  \/ Restart

(* The timers fire.                                                         *)
Fairness == WF_vars(HoldFires)

Spec == Init /\ [][Next]_vars /\ Fairness

-----------------------------------------------------------------------------

TypeOK ==
  /\ radar \subseteq Node /\ row \subseteq Node /\ contact \subseteq row
  /\ home \in BOOLEAN /\ actv \in BOOLEAN /\ held \in BOOLEAN
  /\ stamped \subseteq row /\ older \subseteq stamped \X stamped
  /\ \A m, n \in stamped : <<m, n>> \in older => <<n, m>> \notin older
  /\ orphans \in 0 .. MaxOrphans
  /\ fired \in Node \cup {None}
  /\ served \in [Node -> [Node -> 0 .. 2]]

(* "Points the YAGI rotator toward each in turn" (active-tracker.md:12-13): *)
(* while a node waits no other is stamped twice, whatever mode changes,     *)
(* lost timers and restarts do.                                             *)
NobodyTwiceBefore == \A n, m \in Node : served[n][m] <= 1

Waits(n) == actv /\ n \in Schedule

(* A node on the radar has its turn, if those on it have rows.              *)
RowsKnown == radar \subseteq row
EveryNodeHasItsTurn ==
  \A n \in Node : (Waits(n) /\ RowsKnown) ~> (fired = n \/ ~Waits(n) \/ ~RowsKnown)

(* The same of any radar.                                                   *)
EveryNodeInTurn == \A n \in Node : Waits(n) ~> (fired = n \/ ~Waits(n))

=============================================================================
