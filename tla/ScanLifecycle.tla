--------------------------- MODULE ScanLifecycle ---------------------------
(***************************************************************************)
(* SCAN and ACTV, the two modes that move the beam: the sweep of           *)
(* src/scanner.js, the timers of src/active-tracker.js, the stored mode of *)
(* src/dash-mode.js and the listeners of src/lifecycle.js that tie them    *)
(* together, with POST /mode, /scan/start, /scan/abort and the resumption  *)
(* of a sweep after a restart (src/index.js).                              *)
(*                                                                         *)
(* A sweep is a chain of asynchronous steps: move, dwell, move, ...  The   *)
(* scanner has ONE set of fields and one timer handle, whatever the number *)
(* of chains alive.  Listeners run synchronously, so each action is one    *)
(* turn of the event loop.  The rotator behind mesh-gw is external.        *)
(***************************************************************************)
EXTENDS Naturals, FiniteSets

CONSTANTS
  Steps,        \* the bearings of a full sweep: 0 .. Steps-1; Steps is 360 degrees
  MaxChains,    \* bound on the chains alive at once
  MaxOrphans,   \* bound on the tracker timers no handle refers to
  MaxRestarts,  \* bound on the restarts of the process
  Elsewhere,    \* the beam is on no bearing of the sweep
  None          \* null

ASSUME BoundAssumption ==
  Steps \in Nat \ {0} /\ MaxChains \in Nat \ {0} /\ MaxOrphans \in Nat /\ MaxRestarts \in Nat
ASSUME ValueAssumption ==
  Elsewhere \notin Nat /\ None \notin Nat /\ Elsewhere # None

Chain   == 1 .. MaxChains
Bearing == 0 .. Steps - 1
Beam    == Bearing \cup {Elsewhere}

PASV == 0
ACTV == 1
SCAN == 2
Mode == {PASV, ACTV, SCAN}

VARIABLES
  mode,         \* config rotator.dash_mode                     (stored)
  scanState,    \* config scan_state                            (stored)
  active,       \* scanner._active
  aborted,      \* scanner._aborted
  az,           \* scanner._az, in steps
  dwellAz,      \* scanner._dwellAz
  preMode,      \* scanner._preMode
  contacts,     \* scanner._contacts: where the beam was when each was heard
  timer,        \* scanner._timer: the chain whose dwell timer it holds, or 0
  chain,        \* each chain: not alive, awaiting point(), or dwelling
  aim,          \* the bearing the point() call of a moving chain asked for
  scanActive,   \* nodeList: buffering contacts of a sweep
  held,         \* _holdTimer of the tracker is set
  orphans,      \* tracker timers that are set and that _holdTimer lost
  moving,       \* a fire-and-forget move of the tracker is in flight
  beam,         \* where the rotator really points
  restarts      \* bounded

scanVars    == <<active, aborted, az, dwellAz, preMode, contacts, timer, chain, aim, scanState>>
trackerVars == <<held, orphans, moving>>
vars == <<mode, scanState, active, aborted, az, dwellAz, preMode, contacts, timer, chain,
          aim, scanActive, held, orphans, moving, beam, restarts>>

NoContacts == [b \in Bearing |-> None]
NoScan     == [active |-> FALSE]
Snapshot(a, p, c) == [active |-> TRUE, az |-> a, preMode |-> p, contacts |-> c]

Init ==
  /\ mode = PASV
  /\ scanState = NoScan
  /\ active = FALSE
  /\ aborted = FALSE
  /\ az = 0
  /\ dwellAz = None
  /\ preMode = PASV
  /\ contacts = NoContacts
  /\ timer = 0
  /\ chain = [k \in Chain |-> "none"]
  /\ aim = [k \in Chain |-> 0]
  /\ scanActive = FALSE
  /\ held = FALSE
  /\ orphans = 0
  /\ moving = FALSE
  /\ beam = Elsewhere
  /\ restarts = 0

-----------------------------------------------------------------------------
(* The tracker.                                                             *)

(* advance(), with or without a timer in the handle.  With nobody on the    *)
(* radar it waits to retry, and forgets a timer the handle still held; else *)
(* it points at the next node and replaces that timer.                      *)
Advance(handle, others) ==
  /\ held' = TRUE
  /\ \/ /\ orphans' = others + (IF handle THEN 1 ELSE 0)
        /\ orphans' <= MaxOrphans
        /\ UNCHANGED moving
     \/ /\ orphans' = others
        /\ moving' = TRUE

TrackerStart == Advance(held, orphans)

TrackerStop ==
  /\ held' = FALSE
  /\ UNCHANGED <<orphans, moving>>

(* dashMode.set() and its change listener, which refuses ACTV while a scan  *)
(* runs and stops the tracker in every other mode.                          *)
SetMode(m, scanning) ==
  /\ mode' = m
  /\ CASE m = ACTV /\ scanning  -> UNCHANGED trackerVars
       [] m = ACTV /\ ~scanning -> TrackerStart
       [] OTHER                 -> TrackerStop

-----------------------------------------------------------------------------
(* The sweep.                                                               *)

\* The end listener runs before _active is cleared.
End_lateClear(chains) ==
  /\ active' = FALSE
  /\ dwellAz' = None
  /\ timer' = 0
  /\ chain' = [k \in Chain |-> IF k = timer /\ chains[k] = "dwelling" THEN "none" ELSE chains[k]]
  /\ scanState' = NoScan
  /\ SetMode(preMode, TRUE)
  /\ scanActive' = FALSE

(* _end() and the end listener; chains are the chains as the caller leaves  *)
(* them.  clearTimeout reaches the one timer the handle holds.              *)
End(chains) ==
  /\ active' = FALSE
  /\ dwellAz' = None
  /\ timer' = 0
  /\ chain' = [k \in Chain |-> IF k = timer /\ chains[k] = "dwelling" THEN "none" ELSE chains[k]]
  /\ scanState' = NoScan
  /\ SetMode(preMode, FALSE)
  /\ scanActive' = FALSE

(* _doStep(), the part before the move: store the sweep, ask for bearing a. *)
Move(k, a, p, c) ==
  /\ dwellAz' = None
  /\ scanState' = Snapshot(a, p, c)
  /\ chain' = [chain EXCEPT ![k] = "moving"]
  /\ aim' = [aim EXCEPT ![k] = a]

(* start() and the start listener: the tracker stops, the mode is SCAN.     *)
Start ==
  /\ ~active
  /\ active' = TRUE
  /\ aborted' = FALSE
  /\ az' = 0
  /\ preMode' = mode
  /\ contacts' = NoContacts
  /\ \E k \in Chain : chain[k] = "none" /\ Move(k, 0, mode, NoContacts)
  /\ mode' = SCAN
  /\ TrackerStop
  /\ scanActive' = TRUE
  /\ UNCHANGED <<timer, beam, restarts>>

Abort ==
  /\ active
  /\ aborted' = TRUE
  /\ End(chain)
  /\ UNCHANGED <<az, preMode, contacts, aim, beam, restarts>>

(* point() came back for chain k: the rotator is on the bearing asked for,  *)
(* or the gateway was busy, refused or timed out.  _doStep() does not look  *)
(* at the answer.                                                           *)
PointReturns(k) ==
  /\ chain[k] = "moving"
  /\ beam' \in {aim[k], beam}
  /\ IF aborted
       THEN /\ chain' = [chain EXCEPT ![k] = "none"]
            /\ UNCHANGED <<dwellAz, timer>>
       ELSE /\ chain' = [chain EXCEPT ![k] = "dwelling"]
            /\ dwellAz' = az
            /\ timer' = k
  /\ UNCHANGED <<mode, active, aborted, az, preMode, contacts, aim, scanState,
                 scanActive, trackerVars, restarts>>

\* The bearing wraps round.
DwellFires_wraps(k) ==
  /\ chain[k] = "dwelling"
  /\ az' = (az + 1) % Steps
  /\ IF aborted
       THEN /\ End([chain EXCEPT ![k] = "none"])
            /\ UNCHANGED aim
       ELSE /\ Move(k, az', preMode, contacts)
            /\ UNCHANGED <<mode, active, timer, scanActive, trackerVars>>
  /\ UNCHANGED <<aborted, preMode, contacts, beam, restarts>>

\* The step is taken and not stored.
DwellFires_notStored(k) ==
  /\ chain[k] = "dwelling"
  /\ az' = az + 1
  /\ IF aborted \/ az + 1 >= Steps
       THEN /\ End([chain EXCEPT ![k] = "none"])
            /\ UNCHANGED aim
       ELSE /\ dwellAz' = None
            /\ chain' = [chain EXCEPT ![k] = "moving"]
            /\ aim' = [aim EXCEPT ![k] = az + 1]
            /\ UNCHANGED <<mode, active, timer, scanActive, trackerVars, scanState>>
  /\ UNCHANGED <<aborted, preMode, contacts, beam, restarts>>

(* The dwell timer of chain k: the next step, or the end of the sweep.      *)
DwellFires(k) ==
  /\ chain[k] = "dwelling"
  /\ az' = az + 1
  /\ IF aborted \/ az + 1 >= Steps
       THEN /\ End([chain EXCEPT ![k] = "none"])
            /\ UNCHANGED aim
       ELSE /\ Move(k, az + 1, preMode, contacts)
            /\ UNCHANGED <<mode, active, timer, scanActive, trackerVars>>
  /\ UNCHANGED <<aborted, preMode, contacts, beam, restarts>>

(* handlePacket(): a direct reception during a dwell, the first or the best *)
(* at this bearing.                                                         *)
Contact ==
  /\ active
  /\ dwellAz # None
  /\ contacts' = [contacts EXCEPT ![dwellAz] = beam]
  /\ scanState' = Snapshot(az, preMode, contacts')
  /\ UNCHANGED <<mode, active, aborted, az, dwellAz, preMode, timer, chain, aim,
                 scanActive, trackerVars, beam, restarts>>

-----------------------------------------------------------------------------
(* The mode, the tracker's timers, and the restart.                         *)

PostMode(m) ==
  /\ SetMode(m, active)
  /\ UNCHANGED <<scanVars, scanActive, beam, restarts>>

(* The timer of the handle fires, or one the handle lost.                   *)
HoldFires ==
  /\ held
  /\ Advance(FALSE, orphans)
  /\ UNCHANGED <<mode, scanVars, scanActive, beam, restarts>>

OrphanFires ==
  /\ orphans > 0
  /\ Advance(held, orphans - 1)
  /\ UNCHANGED <<mode, scanVars, scanActive, beam, restarts>>

(* The gateway carries out the tracker's move, or refuses it.               *)
MoveReturns ==
  /\ moving
  /\ moving' = FALSE
  /\ beam' \in {Elsewhere, beam}
  /\ UNCHANGED <<mode, scanVars, scanActive, held, orphans, restarts>>

(* The process dies and comes back.  initLifecycle() restarts the tracker   *)
(* in ACTV, with nobody on the radar yet; then index.js resumes a stored    *)
(* sweep, and the start listener stops the tracker and sets the mode.  A    *)
(* call in flight may still be carried out.                                 *)
Restart ==
  /\ restarts < MaxRestarts
  /\ restarts' = restarts + 1
  /\ timer' = 0
  /\ orphans' = 0
  /\ moving' = FALSE
  /\ dwellAz' = None
  /\ aborted' = FALSE
  /\ beam' \in {beam} \cup {aim[k] : k \in {c \in Chain : chain[c] = "moving"}}
                      \cup (IF moving THEN {Elsewhere} ELSE {})
  /\ scanActive' = scanState.active
  /\ active' = scanState.active
  /\ IF scanState.active
       THEN /\ az' = scanState.az
            /\ preMode' = scanState.preMode
            /\ contacts' = scanState.contacts
            /\ chain' = [k \in Chain |-> IF k = 1 THEN "moving" ELSE "none"]
            /\ aim' = [k \in Chain |-> IF k = 1 THEN scanState.az ELSE 0]
            /\ scanState' = Snapshot(scanState.az, scanState.preMode, scanState.contacts)
            /\ mode' = SCAN
            /\ held' = FALSE
       ELSE /\ az' = 0
            /\ preMode' = PASV
            /\ contacts' = NoContacts
            /\ chain' = [k \in Chain |-> "none"]
            /\ aim' = [k \in Chain |-> 0]
            /\ held' = (mode = ACTV)
            /\ UNCHANGED <<mode, scanState>>

Next ==
  \/ Start \/ Abort \/ Contact
  \/ \E k \in Chain : PointReturns(k) \/ DwellFires(k)
  \/ \E m \in Mode : PostMode(m)
  \/ HoldFires \/ OrphanFires \/ MoveReturns
  \/ Restart

(* A point() call always returns (aim-client aborts it at its timeout) and  *)
(* a set timer fires.  Nobody has to press anything.                        *)
Fairness == \A k \in Chain : WF_vars(PointReturns(k)) /\ WF_vars(DwellFires(k))

Spec     == Init /\ [][Next]_vars
FairSpec == Spec /\ Fairness

-----------------------------------------------------------------------------
(* Every variable keeps to its set; while a sweep runs it asks for bearings *)
(* of the sweep only.                                                       *)
Contacts == [Bearing -> Beam \cup {None}]

TypeOK ==
  /\ mode \in Mode
  /\ scanState \in {NoScan} \cup
       [active : {TRUE}, az : Bearing, preMode : Mode, contacts : Contacts]
  /\ active \in BOOLEAN /\ aborted \in BOOLEAN /\ scanActive \in BOOLEAN
  /\ az \in Nat
  /\ active => az \in Bearing
  /\ dwellAz \in Nat \cup {None}
  /\ active => dwellAz \in Bearing \cup {None}
  /\ preMode \in Mode
  /\ contacts \in Contacts
  /\ timer \in Chain \cup {0}
  /\ chain \in [Chain -> {"none", "moving", "dwelling"}]
  /\ aim \in [Chain -> Bearing]
  /\ held \in BOOLEAN /\ moving \in BOOLEAN
  /\ orphans \in 0 .. MaxOrphans
  /\ beam \in Beam
  /\ restarts \in 0 .. MaxRestarts

-----------------------------------------------------------------------------
(* Safety.                                                                  *)

Alive == {k \in Chain : chain[k] # "none"}

(* "scan_state in the DB is the authoritative resume checkpoint": between   *)
(* any two turns the stored sweep is the one in memory, so that a restart   *)
(* loses no contact, no step and no pre-scan mode, and resumes no sweep     *)
(* that has ended, not even when a chain of an aborted sweep is still       *)
(* walking.                                                                 *)
SnapshotIsCurrent ==
  scanState = IF active THEN Snapshot(az, preMode, contacts) ELSE NoScan

(* node-list buffers the contacts of a sweep exactly while one runs.        *)
BufferingMatchesScan ==
  scanActive = active

(* ACTV never falls silent: outside a scan its mode always has a timer set, *)
(* whichever way it was entered (POST, end of a scan, restart).             *)
ActvKeepsMoving ==
  mode = ACTV /\ ~active => held

(* A running sweep always has a step to take: no abort, restart or refused  *)
(* move leaves it active and stuck.                                         *)
SweepIsAlive ==
  active => Alive # {}

(* Contacts are accepted during a dwell only, never while every chain moves.*)
ListeningMeansDwelling ==
  dwellAz # None => \E k \in Chain : chain[k] = "dwelling"

(* Every sweep ends, whatever the rotator answers.                          *)
EveryScanEnds ==
  active ~> ~active

(* scanner.md:152: "second call returns; single sweep runs".  After an      *)
(* abort during a move, the next start() clears _aborted and the old chain  *)
(* walks on beside the new one, both dwelling and both counting bearings.   *)
SingleSweep ==
  Cardinality({k \in Chain : chain[k] = "dwelling"}) <= 1

(* lifecycle.js:16: "ACTV and SCAN are mutually exclusive".  A tracker      *)
(* started twice with nobody on the radar has a timer stop() cannot reach.  *)
ActvScanExclusive ==
  active => ~held /\ orphans = 0

(* scanner.md:175: "every contact's azimuth is real".  The answer of        *)
(* point() is not looked at, so a dwell may begin where the beam never went.*)
ContactsAtTheirBearing ==
  \A b \in Bearing : contacts[b] \in {None, b}

-----------------------------------------------------------------------------
(* The inductive invariant: with no sweep running, a chain that is still    *)
(* alive will find it was aborted, or will find the sweep complete.         *)
NoSweepToContinue ==
  ~active => aborted \/ az >= Steps \/ \A k \in Chain : chain[k] = "none"

AbortedIsOver ==
  active => ~aborted

IInv ==
  /\ TypeOK
  /\ SnapshotIsCurrent
  /\ BufferingMatchesScan
  /\ ActvKeepsMoving
  /\ SweepIsAlive
  /\ ListeningMeansDwelling
  /\ NoSweepToContinue
  /\ AbortedIsOver

=============================================================================
