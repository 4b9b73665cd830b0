------------------------------- MODULE NodeList -------------------------------
(***************************************************************************)
(* src/node-list.js with its callers in bridge-events.js, lifecycle.js,    *)
(* startup.js and index.js: the live list of nodes.                        *)
(*                                                                         *)
(* A packet received by one of our radios lists its sender; a node_info    *)
(* replayed from the node database of a radio only refreshes it.  A sweep  *)
(* works on a clean list: reports are buffered until a direct contact      *)
(* confirms their node, and at the end the list of before comes back with  *)
(* the contacts laid over it.  Contacts are stored, so that a sweep        *)
(* resumed after a restart has them.                                       *)
(*                                                                         *)
(* An entry keeps when its node was last heard (0: never told), the radios *)
(* it is attributed to and whether it is a contact of a sweep; identity,   *)
(* position, telemetry, hops and signal ride along.  Our own radios, the   *)
(* filters an operator sets and the favourites are left out.               *)
(***************************************************************************)
EXTENDS Integers, FiniteSets

CONSTANTS
  Node,          \* the nodes of the mesh, our own radios excepted
  Radio,         \* our radios
  Rotator,       \* the one on the rotator
  ScanListener,  \* the radios whose packets count in a sweep: isListenerForMode('scan')
  MaxTime,       \* bound on the times at which a node can be heard
  MaxReports,    \* bound on what radios and gateway report
  MaxRestarts,   \* bound on the restarts
  None           \* null

ASSUME RadioAssumption == Rotator \in Radio /\ ScanListener \subseteq Radio
ASSUME BoundAssumption == MaxTime \in Nat /\ MaxReports \in Nat /\ MaxRestarts \in Nat

VARIABLES
  scanActive,  \* _scanActive
  cache,       \* _cache: the live list
  pending,     \* _pending: reports buffered during a sweep
  preScan,     \* _preScanCache: the list a sweep put aside
  emitTimer,   \* _emitTimer is set: the list will be sent
  scanNodes,   \* scan_nodes, stored: the contacts of the sweep
  rows,        \* the rows of table nodes
  heardBy,     \* the radios that ever delivered a packet of a node
  seeds,       \* history: how often the node database was seeded
  reports,
  restarts

listVars  == <<scanActive, cache, pending, preScan>>
storeVars == <<scanNodes, rows>>
vars ==
  <<scanActive, cache, pending, preScan, emitTimer, scanNodes, rows, heardBy, seeds, reports,
    restarts>>

Heard == 0 .. MaxTime
Entry == [heard : Heard, devices : SUBSET Radio, contact : BOOLEAN]
Row   == [rf : Heard, device : Radio \cup {None}]

ASSUME NoneAssumption == None \notin Radio /\ None \notin Entry

Blank == [heard |-> 0, devices |-> {}, contact |-> FALSE]
Empty == [n \in Node |-> None]

Latest(a, b) == IF a > b THEN a ELSE b

Init ==
  /\ scanActive = FALSE
  /\ cache = Empty
  /\ pending = Empty
  /\ preScan = Empty
  /\ emitTimer = FALSE
  /\ scanNodes = Empty
  /\ rows = Empty
  /\ heardBy = [n \in Node |-> {}]
  /\ seeds = 0 /\ reports = 0 /\ restarts = 0

-----------------------------------------------------------------------------
(* Merging a report into an entry.                                          *)

Known(e) == IF e = None THEN Blank ELSE e

\* Any report is newer.
IsStaleReplay_never(e, t) == FALSE

IsStaleReplay(e, t) == t # 0 /\ e.heard # 0 /\ t < e.heard

Refreshed(e, t) == [e EXCEPT !.heard = IF t # 0 THEN t ELSE @]

Attributed(e, r) == [e EXCEPT !.devices = @ \cup {r}]

(* setScanActive(false): the list of before, the contacts laid over it.     *)
Overlaid(before, e) ==
  IF e = None THEN before
  ELSE IF before = None THEN e
  ELSE [e EXCEPT !.heard = IF @ # 0 THEN @ ELSE before.heard]

(* A row of table nodes, made by persist.js before the list is told.        *)
RowOf(n) == IF rows[n] = None THEN [rf |-> 0, device |-> None] ELSE rows[n]

(* confirmScanContact() attributes a contact to the rotator.                *)
Contact(e) == [Attributed(e, Rotator) EXCEPT !.contact = TRUE]

Report == reports < MaxReports /\ reports' = reports + 1

-----------------------------------------------------------------------------
(* What radios report.                                                      *)

(* handleNodeUpdate(): radio r says, from its node database, that n was     *)
(* last heard at t.  Only the rotator is listened to during a sweep.        *)
NodeUpdate(n, r, t) ==
  /\ Report
  /\ rows' = [rows EXCEPT ![n] = RowOf(n)]
  /\ IF scanActive /\ (r # Rotator \/ cache[n] = None)
       THEN /\ pending' = IF r # Rotator \/ IsStaleReplay(Known(pending[n]), t)
                            THEN pending
                            ELSE [pending EXCEPT ![n] = Refreshed(Known(@), t)]
            /\ UNCHANGED <<cache, emitTimer>>
       ELSE /\ UNCHANGED pending
            /\ IF cache[n] = None \/ IsStaleReplay(cache[n], t)
                 THEN UNCHANGED <<cache, emitTimer>>
                 ELSE /\ cache' = [cache EXCEPT ![n] = Refreshed(@, t)]
                      /\ emitTimer' = TRUE
  /\ UNCHANGED <<scanActive, preScan, scanNodes, heardBy, seeds, restarts>>

Touched(e, r, t) == [Attributed(Known(e), r) EXCEPT !.heard = Latest(@, t)]

(* touchLastHeard(): nothing during a sweep; outside one, a node without an *)
(* entry gets one if the store has its name or position (left open).        *)
TouchLastHeard(n, r, t) ==
  IF scanActive \/ (cache[n] # None /\ t <= cache[n].heard /\ r \in cache[n].devices)
    THEN UNCHANGED <<cache, emitTimer>>
    ELSE \/ /\ cache' = [cache EXCEPT ![n] = Touched(@, r, t)]
            /\ emitTimer' = TRUE
         \/ /\ cache[n] = None
            /\ UNCHANGED <<cache, emitTimer>>

\* The list is stored before the contact is in it.
Confirm_storedBefore(n) ==
  /\ \/ /\ pending[n] # None
        /\ cache' = [cache EXCEPT ![n] = Contact(pending[n])]
     \/ /\ pending[n] = None
        /\ cache' = [cache EXCEPT ![n] = Contact(Known(@))]
  /\ pending' = [pending EXCEPT ![n] = None]
  /\ scanNodes' = cache
  /\ emitTimer' = TRUE

(* confirmScanContact(): a buffered report is promoted; a contact heard     *)
(* again keeps its signal unless the new one is better; the list is stored. *)
Confirm(n) ==
  /\ \/ /\ pending[n] # None
        /\ cache' = [cache EXCEPT ![n] = Contact(pending[n])]
     \/ /\ pending[n] = None
        /\ cache' = [cache EXCEPT ![n] = Contact(Known(@))]
     \/ /\ pending[n] = None /\ cache[n] # None
        /\ cache' = cache
  /\ pending' = [pending EXCEPT ![n] = None]
  /\ scanNodes' = cache'
  /\ emitTimer' = TRUE

(* registerBridgeEvents(): radio r delivers a packet of n, received at t.   *)
(* persist.js may write its row (most kinds of packet), the scanner may     *)
(* take it as a contact, and unless it came over MQTT the row is stamped.   *)
Packet(n, r, t) ==
  /\ Report
  /\ heardBy' = [heardBy EXCEPT ![n] = @ \cup {r}]
  /\ \E row \in {rows[n], [RowOf(n) EXCEPT !.device = r]}, mqtt \in BOOLEAN :
       rows' = [rows EXCEPT ![n] =
                  IF mqtt \/ row = None THEN row ELSE [row EXCEPT !.rf = Latest(@, t)]]
  /\ \/ /\ scanActive /\ r \in ScanListener
        /\ Confirm(n)
     \/ /\ TouchLastHeard(n, r, t)
        /\ UNCHANGED <<pending, scanNodes>>
  /\ UNCHANGED <<scanActive, preScan, seeds, restarts>>

-----------------------------------------------------------------------------
(* Sweeps.                                                                  *)

\* The list itself is swept, and only a copy put aside.
ScanStarts_keepsList ==
  /\ ~scanActive
  /\ scanActive' = TRUE
  /\ preScan' = cache
  /\ pending' = Empty
  /\ scanNodes' = Empty
  /\ emitTimer' = TRUE
  /\ UNCHANGED <<cache, rows, heardBy, seeds, reports, restarts>>

(* setScanActive(true)                                                      *)
ScanStarts ==
  /\ ~scanActive
  /\ scanActive' = TRUE
  /\ preScan' = cache
  /\ cache' = Empty
  /\ pending' = Empty
  /\ scanNodes' = Empty
  /\ emitTimer' = TRUE
  /\ UNCHANGED <<rows, heardBy, seeds, reports, restarts>>

(* setScanActive(false)                                                     *)
ScanEnds ==
  /\ scanActive
  /\ scanActive' = FALSE
  /\ cache' = [n \in Node |-> Overlaid(preScan[n], cache[n])]
  /\ preScan' = Empty
  /\ emitTimer' = TRUE
  /\ UNCHANGED <<pending, scanNodes, rows, heardBy, seeds, reports, restarts>>

-----------------------------------------------------------------------------
(* Seeds, restarts and the operator.                                        *)

\* Whatever the gateway seeds is credited to the rotator.
Restored_toRotator(e, n) == IF e = None THEN e ELSE Attributed(e, Rotator)

(* restoreDeviceAttribution(): the radio a row names is added.              *)
Restored(e, n) ==
  IF e = None \/ rows[n] = None THEN e
  ELSE IF rows[n].device = None THEN e
  ELSE Attributed(e, rows[n].device)

(* registerStartupHandlers(), up to its second await: the gateway is back   *)
(* and its whole node database, last heard at f, is seeded.                 *)
Connected(f) ==
  /\ Report
  /\ cache' = [n \in Node |->
                 Restored(IF f[n] = None \/ (scanActive /\ cache[n] = None)
                            THEN cache[n] ELSE Refreshed(Known(cache[n]), f[n]), n)]
  /\ pending' = [n \in Node |->
                   IF f[n] # None /\ scanActive /\ cache[n] = None
                     THEN Refreshed(Known(pending[n]), f[n]) ELSE pending[n]]
  /\ emitTimer' = TRUE
  /\ seeds' = seeds + 1
  /\ UNCHANGED <<scanActive, preScan, scanNodes, rows, heardBy, restarts>>

(* load_nodes_on_boot: the named nodes of the gateway get their rows.       *)
PersistSeed(S) ==
  /\ Report
  /\ rows' = [n \in Node |-> IF n \in S THEN RowOf(n) ELSE rows[n]]
  /\ UNCHANGED <<listVars, emitTimer, scanNodes, heardBy, seeds, restarts>>

(* DELETE /nodes                                                            *)
Clear ==
  /\ rows' = Empty
  /\ cache' = Empty
  /\ pending' = Empty
  /\ emitTimer' = TRUE
  /\ UNCHANGED <<scanActive, preScan, scanNodes, heardBy, seeds, reports, restarts>>

(* hydrateFromStore(): the rows stamped after since.                        *)
Hydrated(row) ==
  [heard |-> row.rf, devices |-> {row.device} \ {None}, contact |-> FALSE]

HydrateFromStore(since) ==
  [n \in Node |-> IF rows[n] = None THEN None
                  ELSE IF rows[n].rf > since THEN Hydrated(rows[n]) ELSE None]

(* The process dies and index.js boots: the store is read; then, if a sweep *)
(* was stored as running, the list is put aside and its contacts restored.  *)
Restart ==
  /\ restarts < MaxRestarts
  /\ restarts' = restarts + 1
  /\ pending' = Empty
  /\ \E since \in Heard :
       IF scanActive
         THEN /\ preScan' = HydrateFromStore(since)
              /\ cache' = [n \in Node |->
                   IF scanNodes[n] = None THEN None
                   ELSE IF scanNodes[n].contact THEN scanNodes[n] ELSE None]
              /\ emitTimer' = TRUE
         ELSE /\ preScan' = Empty
              /\ cache' = HydrateFromStore(since)
              /\ emitTimer' = (cache' # Empty)
  /\ UNCHANGED <<scanActive, scanNodes, rows, heardBy, seeds, reports>>

(* The timer of _scheduleEmit(): the list goes to the clients.              *)
Emit ==
  /\ emitTimer
  /\ emitTimer' = FALSE
  /\ UNCHANGED <<listVars, storeVars, heardBy, seeds, reports, restarts>>

Next ==
  \/ \E n \in Node, r \in Radio, t \in Heard : NodeUpdate(n, r, t)
  \/ \E n \in Node, r \in Radio, t \in Heard \ {0} : Packet(n, r, t)
  \/ ScanStarts \/ ScanEnds
  \/ \E f \in [Node -> Heard \cup {None}] : Connected(f)
  \/ \E S \in SUBSET Node : PersistSeed(S)
  \/ Clear \/ Restart \/ Emit

Spec == Init /\ [][Next]_vars

-----------------------------------------------------------------------------
(* Every variable keeps to its set; a list is put aside in a sweep only.    *)
TypeOK ==
  /\ scanActive \in BOOLEAN /\ emitTimer \in BOOLEAN
  /\ cache \in [Node -> Entry \cup {None}]
  /\ pending \in [Node -> Entry \cup {None}]
  /\ preScan \in [Node -> Entry \cup {None}]
  /\ ~scanActive => preScan = Empty
  /\ scanNodes \in [Node -> Entry \cup {None}]
  /\ rows \in [Node -> Row \cup {None}]
  /\ heardBy \in [Node -> SUBSET Radio]
  /\ seeds \in 0 .. reports
  /\ reports \in 0 .. MaxReports /\ restarts \in 0 .. MaxRestarts

(* node-list.md: during a sweep "the scan works on a clean slate".  Only    *)
(* confirmed contacts are listed, and no node is listed and buffered at     *)
(* once, whatever reports, seeds and restarts come in between.              *)
SweepListsContacts ==
  scanActive => \A n \in Node : cache[n] # None => cache[n].contact /\ pending[n] = None

(* A crash during a sweep loses no contact: each one on the list is stored, *)
(* marked so that it is restored, and with the radio that makes it visible. *)
ContactsSurviveRestart ==
  scanActive => \A n \in Node : cache[n] # None =>
    /\ scanNodes[n] # None
    /\ scanNodes[n].contact
    /\ Rotator \in scanNodes[n].devices

(* node-list.md:148: _devices are the radios that "actually HEARD this      *)
(* node".  On no list, and after no seed, sweep, crash or hydration, is a   *)
(* node attributed to a radio that never delivered a packet of it.          *)
AttributionIsEarned ==
  \A n \in Node :
    /\ \A l \in {cache, pending, preScan, scanNodes} :
         l[n] # None => l[n].devices \subseteq heardBy[n]
    /\ rows[n] # None => rows[n].device \in heardBy[n] \cup {None}

Listed(n) == cache[n] # None \/ preScan[n] # None

(* No node falls off the list but by DELETE /nodes or a restart: a sweep    *)
(* puts it aside and gives it back.                                         *)
NothingForgotten ==
  [][(\A n \in Node : Listed(n) => Listed(n)') \/ Clear \/ Restart]_vars

Regresses(list, n) ==
  list[n] # None /\ list'[n] # None /\ list'[n].heard < list[n].heard

(* node-list.md:301: a replay older than the entry is skipped, on the list  *)
(* and in the buffer, in a sweep and outside, whatever rows and attribution *)
(* the node has.  Only three steps compare nothing: the seed at a           *)
(* reconnect, the end of a sweep and a restart.                             *)
LastHeardMovesForward ==
  [][(\E n \in Node : Regresses(cache, n) \/ Regresses(pending, n)) =>
       \/ seeds' # seeds
       \/ scanActive /\ ~scanActive'
       \/ restarts' # restarts]_vars

(* What a client is shown: in a sweep, the filter wants the rotator.        *)
Shown(n) ==
  IF scanActive /\ cache[n] # None
    THEN IF Rotator \in cache[n].devices THEN cache[n] ELSE None
    ELSE cache[n]

(* Whatever changes what a client is shown leaves the timer set that will   *)
(* send it: no client keeps a list that is out of date.                     *)
ChangesAreAnnounced ==
  [][restarts' = restarts /\ (\E n \in Node : Shown(n)' # Shown(n)) => emitTimer']_vars

(* node-list.js:349-350: the contacts are laid over the list because        *)
(* "their signal/az/identity data is fresher than the snapshot's".  A       *)
(* replay buffered in the sweep is compared with nothing, and a contact     *)
(* promotes it: afterwards the node was last heard earlier than before.     *)
SweepLeavesNothingOlder ==
  [][scanActive /\ ~scanActive' =>
       \A n \in Node : preScan[n] # None => cache'[n].heard >= preScan[n].heard]_vars

-----------------------------------------------------------------------------
(* The inductive invariant: what makes a contact visible is on the list     *)
(* during a sweep and, marked, in the store.                                *)
ContactsAreTheRotators ==
  /\ scanActive => \A n \in Node : cache[n] # None => Rotator \in cache[n].devices
  /\ \A n \in Node : scanNodes[n] # None =>
       scanNodes[n].contact /\ Rotator \in scanNodes[n].devices

IInv ==
  /\ TypeOK
  /\ SweepListsContacts
  /\ ContactsAreTheRotators
  /\ ContactsSurviveRestart

=============================================================================
