---------------------------- MODULE ApartProofs -----------------------------
(***************************************************************************)
(* Proofs about components that share no variable: the scan (ScanLifecycle)*)
(* and what it hands the beam over to (ActiveTracker), the names of places *)
(* (Geocode), the purge (AutoPurge), and the doors and clusters of the     *)
(* dashboard (Doors).  Those that Apart puts side by side are proved of    *)
(* its specification: an invariant of one component with the step of that  *)
(* component, and one lemma, ApartStep, that a step of the whole is a step *)
(* or a stutter of each.                                                   *)
(***************************************************************************)
EXTENDS Apart, ScanLifecycle, Doors, FiniteSetTheorems, SequenceTheorems, TLAPS

-----------------------------------------------------------------------------
(* ScanLifecycle.  Its IInv adds two facts to the properties: a sweep that  *)
(* is over has nothing to continue, and an aborted one is over.             *)

LEMMA Values ==
  /\ Steps \in Nat /\ 0 \in Bearing /\ None \notin Bearing /\ None \notin Nat
  /\ \A n \in Nat : n < Steps => n \in Bearing
  /\ \A b \in Bearing : b \in Nat /\ b < Steps
  /\ NoContacts \in Contacts
  /\ PASV \in Mode /\ SCAN \in Mode /\ SCAN # ACTV /\ PASV # ACTV
  BY BoundAssumption, ValueAssumption
     DEF Bearing, NoContacts, Contacts, PASV, ACTV, SCAN, Mode

(* The record stored for a running sweep.                                   *)
Stored == [active : {TRUE}, az : Bearing, preMode : Mode, contacts : Contacts]

LEMMA SnapshotIsStored ==
  ASSUME NEW a \in Bearing, NEW p \in Mode, NEW c \in Contacts
  PROVE  /\ Snapshot(a, p, c) \in Stored
         /\ Snapshot(a, p, c).active = TRUE
         /\ Snapshot(a, p, c).az = a
         /\ Snapshot(a, p, c).preMode = p
         /\ Snapshot(a, p, c).contacts = c
  BY DEF Snapshot, Stored

-----------------------------------------------------------------------------
(* The tracker.                                                             *)

TrackerOK == held \in BOOLEAN /\ moving \in BOOLEAN /\ orphans \in 0 .. MaxOrphans

LEMMA AdvanceIsTyped ==
  ASSUME TrackerOK, NEW handle \in BOOLEAN, NEW others \in 0 .. MaxOrphans,
         Advance(handle, others)
  PROVE  TrackerOK' /\ held'
  <1>1. held' = TRUE /\ moving' \in BOOLEAN
    BY DEF Advance, TrackerOK
  <1>2. orphans' \in 0 .. MaxOrphans
    BY BoundAssumption DEF Advance, TrackerOK
  <1> QED BY <1>1, <1>2 DEF TrackerOK

(* Every mode change leaves the tracker well typed; ACTV outside a scan     *)
(* leaves it with a timer.                                                  *)
LEMMA SetModeFacts ==
  ASSUME TrackerOK, NEW m \in Mode, NEW scanning \in BOOLEAN, SetMode(m, scanning)
  PROVE  /\ mode' = m
         /\ TrackerOK'
         /\ m = ACTV /\ ~scanning => held'
  <1>1. CASE m = ACTV /\ scanning
    BY <1>1 DEF SetMode, trackerVars, TrackerOK
  <1>2. CASE m = ACTV /\ ~scanning
    <2>1. mode' = m /\ Advance(held, orphans)
      BY <1>2 DEF SetMode, TrackerStart
    <2> QED BY <1>2, <2>1, AdvanceIsTyped DEF TrackerOK
  <1>3. CASE m # ACTV
    BY <1>3 DEF SetMode, TrackerStop, TrackerOK
  <1> QED BY <1>1, <1>2, <1>3

-----------------------------------------------------------------------------
(* The sweep.                                                               *)

(* The parts of TypeOK that hold whatever the sweep does.                   *)
LEMMA TypedParts ==
  ASSUME TypeOK
  PROVE  /\ mode \in Mode /\ preMode \in Mode /\ TrackerOK
         /\ active \in BOOLEAN /\ aborted \in BOOLEAN /\ az \in Nat
         /\ contacts \in Contacts /\ beam \in Beam /\ restarts \in 0 .. MaxRestarts
         /\ chain \in [Chain -> {"none", "moving", "dwelling"}] /\ aim \in [Chain -> Bearing]
         /\ timer \in Chain \cup {0}
  BY DEF TypeOK, TrackerOK

LEMMA EndKeepsInv ==
  ASSUME IInv, NEW chains \in [Chain -> {"none", "moving", "dwelling"}], End(chains),
         az' \in Nat, aborted' \in BOOLEAN, aborted' \/ az' >= Steps,
         UNCHANGED <<preMode, contacts, aim, beam, restarts>>
  PROVE  IInv'
  <1>1. TypeOK
    BY DEF IInv
  <1>2. /\ mode' = preMode /\ TrackerOK' /\ preMode \in Mode
        /\ preMode = ACTV => held'
    BY <1>1, TypedParts, SetModeFacts DEF End
  <1>3. /\ active' = FALSE /\ dwellAz' = None /\ timer' = 0
        /\ scanState' = NoScan /\ scanActive' = FALSE
    BY DEF End
  <1>4. chain' \in [Chain -> {"none", "moving", "dwelling"}]
    BY DEF End
  <1>5. TypeOK'
    BY <1>1, <1>2, <1>3, <1>4 DEF TypeOK, TrackerOK
  <1>6. SnapshotIsCurrent' /\ BufferingMatchesScan' /\ ActvKeepsMoving'
    BY <1>2, <1>3 DEF SnapshotIsCurrent, BufferingMatchesScan, ActvKeepsMoving
  <1>7. SweepIsAlive' /\ ListeningMeansDwelling' /\ NoSweepToContinue' /\ AbortedIsOver'
    BY <1>3 DEF SweepIsAlive, ListeningMeansDwelling, NoSweepToContinue, AbortedIsOver
  <1> QED BY <1>5, <1>6, <1>7 DEF IInv

LEMMA AbortKeepsInv ==
  ASSUME IInv, Abort
  PROVE  IInv'
  <1>1. PICK chains : chains = chain
    OBVIOUS
  <1>2. chains \in [Chain -> {"none", "moving", "dwelling"}] /\ az \in Nat
    BY <1>1, TypedParts DEF IInv
  <1>3. /\ End(chains) /\ aborted' = TRUE /\ az' = az
        /\ UNCHANGED <<preMode, contacts, aim, beam, restarts>>
    BY <1>1 DEF Abort
  <1> QED BY <1>2, <1>3, EndKeepsInv

LEMMA StartKeepsInv ==
  ASSUME IInv, Start
  PROVE  IInv'
  <1>t. TypeOK
    BY DEF IInv
  <1>1. PICK k \in Chain : chain[k] = "none" /\ Move(k, 0, mode, NoContacts)
    BY DEF Start
  <1>2. /\ active' = TRUE /\ aborted' = FALSE /\ az' = 0 /\ preMode' = mode
        /\ contacts' = NoContacts /\ mode' = SCAN /\ scanActive' = TRUE
        /\ timer' = timer /\ beam' = beam /\ restarts' = restarts
        /\ held' = FALSE /\ orphans' = orphans /\ moving' = moving
    BY DEF Start, TrackerStop
  <1>3. /\ dwellAz' = None
        /\ scanState' = Snapshot(0, mode, NoContacts)
        /\ chain' = [chain EXCEPT ![k] = "moving"]
        /\ aim' = [aim EXCEPT ![k] = 0]
    BY <1>1 DEF Move
  <1>4. /\ scanState' \in Stored
        /\ chain' \in [Chain -> {"none", "moving", "dwelling"}] /\ chain'[k] = "moving"
        /\ aim' \in [Chain -> Bearing]
    BY <1>t, <1>3, TypedParts, Values, SnapshotIsStored
  <1>5. TypeOK'
    BY <1>t, <1>2, <1>3, <1>4, TypedParts, Values DEF TypeOK, Stored, TrackerOK
  <1>6. SnapshotIsCurrent' /\ BufferingMatchesScan' /\ ActvKeepsMoving'
    BY <1>2, <1>3, Values DEF SnapshotIsCurrent, BufferingMatchesScan, ActvKeepsMoving
  <1>7. SweepIsAlive' /\ ListeningMeansDwelling' /\ NoSweepToContinue' /\ AbortedIsOver'
    BY <1>2, <1>3, <1>4 DEF SweepIsAlive, ListeningMeansDwelling, NoSweepToContinue,
                           AbortedIsOver, Alive
  <1> QED BY <1>5, <1>6, <1>7 DEF IInv

LEMMA PointReturnsKeepsInv ==
  ASSUME IInv, NEW k \in Chain, PointReturns(k)
  PROVE  IInv'
  <1>t. TypeOK
    BY DEF IInv
  <1>1. /\ chain[k] = "moving" /\ beam' \in {aim[k], beam}
        /\ UNCHANGED <<mode, active, aborted, az, preMode, contacts, aim, scanState,
                       scanActive, held, orphans, moving, restarts>>
    BY DEF PointReturns, trackerVars
  <1>2. beam' \in Beam
    BY <1>t, <1>1, TypedParts DEF Beam
  <1>3. CASE aborted
    <2>1. /\ chain' = [chain EXCEPT ![k] = "none"]
          /\ UNCHANGED <<dwellAz, timer>>
      BY <1>3 DEF PointReturns
    <2>2. ~active
      BY <1>3 DEF IInv, AbortedIsOver
    <2>3. TypeOK'
      BY <1>t, <1>1, <1>2, <2>1 DEF TypeOK
    <2>4. \A j \in Chain : chain[j] = "dwelling" => chain'[j] = "dwelling"
      BY <1>t, <1>1, <2>1, TypedParts
    <2>5. /\ SnapshotIsCurrent' /\ BufferingMatchesScan' /\ ActvKeepsMoving'
          /\ SweepIsAlive' /\ NoSweepToContinue' /\ AbortedIsOver'
      BY <1>1, <1>3, <2>2 DEF IInv, SnapshotIsCurrent, BufferingMatchesScan,
             ActvKeepsMoving, SweepIsAlive, NoSweepToContinue, AbortedIsOver
    <2>6. ListeningMeansDwelling'
      BY <2>1, <2>4 DEF IInv, ListeningMeansDwelling
    <2> QED BY <2>3, <2>5, <2>6 DEF IInv
  <1>4. CASE ~aborted
    <2>1. /\ chain' = [chain EXCEPT ![k] = "dwelling"]
          /\ dwellAz' = az /\ timer' = k
      BY <1>4 DEF PointReturns
    <2>2. TypeOK'
      BY <1>t, <1>1, <1>2, <2>1, TypedParts DEF TypeOK
    <2>3. chain'[k] = "dwelling"
      BY <1>t, <2>1, TypedParts
    <2>4. SweepIsAlive' /\ ListeningMeansDwelling'
      BY <2>3 DEF SweepIsAlive, ListeningMeansDwelling, Alive
    <2>5. /\ SnapshotIsCurrent' /\ BufferingMatchesScan' /\ ActvKeepsMoving'
          /\ AbortedIsOver'
      BY <1>1 DEF IInv, SnapshotIsCurrent, BufferingMatchesScan, ActvKeepsMoving,
                  AbortedIsOver
    <2>6. NoSweepToContinue'
      BY <1>1, <1>4 DEF IInv, NoSweepToContinue
    <2> QED BY <2>2, <2>4, <2>5, <2>6 DEF IInv
  <1> QED BY <1>3, <1>4

LEMMA DwellFiresKeepsInv ==
  ASSUME IInv, NEW k \in Chain, DwellFires(k)
  PROVE  IInv'
  <1>t. TypeOK
    BY DEF IInv
  <1>1. /\ chain[k] = "dwelling" /\ az' = az + 1 /\ az \in Nat
        /\ UNCHANGED <<aborted, preMode, contacts, beam, restarts>>
    BY <1>t, TypedParts DEF DwellFires
  <1>2. CASE aborted \/ az + 1 >= Steps
    <2>1. PICK chains : chains = [chain EXCEPT ![k] = "none"]
      OBVIOUS
    <2>2. /\ chains \in [Chain -> {"none", "moving", "dwelling"}]
          /\ End(chains) /\ aim' = aim
      BY <1>t, <1>2, <2>1, TypedParts DEF DwellFires
    <2>3. az' \in Nat /\ aborted' \in BOOLEAN /\ (aborted' \/ az' >= Steps)
      BY <1>t, <1>1, <1>2, TypedParts
    <2> QED BY <1>1, <2>2, <2>3, EndKeepsInv
  <1>3. CASE ~(aborted \/ az + 1 >= Steps)
    <2>1. /\ Move(k, az + 1, preMode, contacts)
          /\ UNCHANGED <<mode, active, timer, scanActive, held, orphans, moving>>
      BY <1>3 DEF DwellFires, trackerVars
    <2>2. active
      <3>1. az < Steps
        BY <1>1, <1>3, Values
      <3> QED BY <1>1, <1>3, <3>1, <1>t, Values DEF IInv, NoSweepToContinue, TypeOK
    <2>3. az + 1 \in Bearing
      BY <1>1, <1>3, Values
    <2>4. /\ dwellAz' = None
          /\ scanState' = Snapshot(az + 1, preMode, contacts)
          /\ chain' = [chain EXCEPT ![k] = "moving"]
          /\ aim' = [aim EXCEPT ![k] = az + 1]
      BY <2>1 DEF Move
    <2>5. /\ scanState' \in Stored
          /\ chain' \in [Chain -> {"none", "moving", "dwelling"}] /\ chain'[k] = "moving"
          /\ aim' \in [Chain -> Bearing]
      BY <1>t, <2>3, <2>4, TypedParts, SnapshotIsStored
    <2>6. TypeOK'
      BY <1>t, <1>1, <2>1, <2>3, <2>4, <2>5, Values DEF TypeOK, Stored
    <2>7. SnapshotIsCurrent' /\ BufferingMatchesScan' /\ ActvKeepsMoving'
      BY <1>1, <2>1, <2>2, <2>4 DEF IInv, SnapshotIsCurrent, BufferingMatchesScan, ActvKeepsMoving
    <2>8. SweepIsAlive' /\ ListeningMeansDwelling' /\ NoSweepToContinue' /\ AbortedIsOver'
      BY <1>1, <1>3, <2>1, <2>2, <2>4, <2>5
         DEF SweepIsAlive, ListeningMeansDwelling, NoSweepToContinue, AbortedIsOver, Alive
    <2> QED BY <2>6, <2>7, <2>8 DEF IInv
  <1> QED BY <1>2, <1>3

LEMMA ContactKeepsInv ==
  ASSUME IInv, Contact
  PROVE  IInv'
  <1>t. TypeOK
    BY DEF IInv
  <1>1. /\ active /\ dwellAz # None
        /\ contacts' = [contacts EXCEPT ![dwellAz] = beam]
        /\ scanState' = Snapshot(az, preMode, contacts')
        /\ UNCHANGED <<mode, active, aborted, az, dwellAz, preMode, timer, chain, aim,
                       scanActive, held, orphans, moving, beam, restarts>>
    BY DEF Contact, trackerVars
  <1>2. contacts' \in Contacts
    BY <1>t, <1>1, TypedParts DEF Contacts
  <1>3. PICK c \in Contacts : c = contacts'
    BY <1>2
  <1>4. az \in Bearing /\ preMode \in Mode
    BY <1>t, <1>1 DEF TypeOK
  <1>5. scanState' \in Stored
    BY <1>1, <1>3, <1>4, SnapshotIsStored
  <1>6. TypeOK'
    BY <1>t, <1>1, <1>2, <1>5 DEF TypeOK, Stored
  <1>7. SnapshotIsCurrent'
    BY <1>1 DEF SnapshotIsCurrent
  <1>8. /\ BufferingMatchesScan' /\ ActvKeepsMoving' /\ SweepIsAlive'
        /\ ListeningMeansDwelling' /\ NoSweepToContinue' /\ AbortedIsOver'
    BY <1>1 DEF IInv, BufferingMatchesScan, ActvKeepsMoving, SweepIsAlive, Alive,
                ListeningMeansDwelling, NoSweepToContinue, AbortedIsOver
  <1> QED BY <1>6, <1>7, <1>8 DEF IInv

(* A step that leaves the sweep alone.                                      *)
LEMMA TrackerStepKeepsInv ==
  ASSUME IInv, TrackerOK', mode' \in Mode, beam' \in Beam,
         mode' = ACTV /\ ~active => held',
         UNCHANGED <<scanVars, scanActive, restarts>>
  PROVE  IInv'
  <1>1. TypeOK'
    BY DEF IInv, TypeOK, TrackerOK, scanVars
  <1>2. ActvKeepsMoving'
    BY DEF ActvKeepsMoving, scanVars
  <1>3. /\ SnapshotIsCurrent' /\ BufferingMatchesScan' /\ SweepIsAlive'
        /\ ListeningMeansDwelling' /\ NoSweepToContinue' /\ AbortedIsOver'
    BY DEF IInv, SnapshotIsCurrent, BufferingMatchesScan, SweepIsAlive, Alive,
           ListeningMeansDwelling, NoSweepToContinue, AbortedIsOver, scanVars
  <1> QED BY <1>1, <1>2, <1>3 DEF IInv

LEMMA PostModeKeepsInv ==
  ASSUME IInv, NEW m \in Mode, PostMode(m)
  PROVE  IInv'
  <1>1. active \in BOOLEAN /\ TrackerOK /\ beam \in Beam
    BY TypedParts DEF IInv
  <1>2. PICK scanning \in BOOLEAN : scanning = active
    BY <1>1
  <1>3. /\ SetMode(m, scanning)
        /\ UNCHANGED <<scanVars, scanActive, beam, restarts>>
    BY <1>2 DEF PostMode
  <1>4. mode' = m /\ TrackerOK' /\ (m = ACTV /\ ~active => held')
    BY <1>1, <1>2, <1>3, SetModeFacts
  <1> QED BY <1>1, <1>3, <1>4, TrackerStepKeepsInv

LEMMA TimerStepKeepsInv ==
  ASSUME IInv, HoldFires \/ OrphanFires
  PROVE  IInv'
  <1>1. TrackerOK /\ beam \in Beam /\ mode \in Mode
    BY TypedParts DEF IInv
  <1>2. UNCHANGED <<mode, scanVars, scanActive, beam, restarts>>
    BY DEF HoldFires, OrphanFires
  <1>3. PICK handle \in BOOLEAN, others \in 0 .. MaxOrphans : Advance(handle, others)
    <2>1. CASE HoldFires
      BY <1>1, <2>1 DEF HoldFires, TrackerOK
    <2>2. CASE OrphanFires
      <3>1. orphans - 1 \in 0 .. MaxOrphans /\ held \in BOOLEAN
        BY <1>1, <2>2, BoundAssumption DEF OrphanFires, TrackerOK
      <3> QED BY <2>2, <3>1 DEF OrphanFires
    <2> QED BY <2>1, <2>2
  <1>4. TrackerOK' /\ held'
    BY <1>1, <1>3, AdvanceIsTyped
  <1> QED BY <1>1, <1>2, <1>4, TrackerStepKeepsInv

LEMMA MoveReturnsKeepsInv ==
  ASSUME IInv, MoveReturns
  PROVE  IInv'
  <1>1. TrackerOK /\ beam \in Beam /\ mode \in Mode
    BY TypedParts DEF IInv
  <1>2. /\ UNCHANGED <<mode, scanVars, scanActive, held, orphans, restarts>>
        /\ moving' = FALSE /\ beam' \in Beam
    BY <1>1 DEF MoveReturns, Beam
  <1>3. TrackerOK'
    BY <1>1, <1>2 DEF TrackerOK
  <1>4. mode' = ACTV /\ ~active => held'
    BY <1>2 DEF IInv, ActvKeepsMoving
  <1> QED BY <1>1, <1>2, <1>3, <1>4, TrackerStepKeepsInv

-----------------------------------------------------------------------------
(* The restart.                                                             *)

LEMMA RestartKeepsInv ==
  ASSUME IInv, Restart
  PROVE  IInv'
  <1>t. TypeOK
    BY DEF IInv
  <1>1. /\ timer' = 0 /\ orphans' = 0 /\ moving' = FALSE /\ dwellAz' = None
        /\ aborted' = FALSE /\ scanActive' = scanState.active /\ active' = scanState.active
        /\ restarts' \in 0 .. MaxRestarts
    BY <1>t, BoundAssumption DEF Restart, TypeOK
  <1>2. beam' \in Beam
    BY <1>t, TypedParts DEF Restart, Beam
  <1>3. 1 \in Chain /\ 0 \in 0 .. MaxOrphans /\ MaxOrphans \in Nat
    BY BoundAssumption DEF Chain
  <1>4. CASE scanState.active
    <2>0. NoScan.active = FALSE
      BY DEF NoScan
    <2>1. scanState \in Stored
      BY <1>t, <1>4, <2>0 DEF TypeOK, Stored
    <2>2. PICK a \in Bearing, p \in Mode, c \in Contacts :
            a = scanState.az /\ p = scanState.preMode /\ c = scanState.contacts
      BY <2>1 DEF Stored
    <2>3. /\ az' = a /\ preMode' = p /\ contacts' = c
          /\ chain' = [k \in Chain |-> IF k = 1 THEN "moving" ELSE "none"]
          /\ aim' = [k \in Chain |-> IF k = 1 THEN a ELSE 0]
          /\ scanState' = Snapshot(a, p, c)
          /\ mode' = SCAN /\ held' = FALSE
      BY <1>4, <2>2 DEF Restart
    <2>4. /\ scanState' \in Stored
          /\ chain' \in [Chain -> {"none", "moving", "dwelling"}] /\ chain'[1] = "moving"
          /\ aim' \in [Chain -> Bearing]
      BY <1>3, <2>3, Values, SnapshotIsStored
    <2>5. active' = TRUE /\ scanActive' = TRUE
      BY <1>1, <2>1 DEF Stored
    <2>6. TypeOK'
      BY <1>1, <1>2, <1>3, <2>3, <2>4, <2>5, Values DEF TypeOK, Stored
    <2>7. SnapshotIsCurrent' /\ BufferingMatchesScan' /\ ActvKeepsMoving'
      BY <1>1, <2>3, <2>5 DEF SnapshotIsCurrent, BufferingMatchesScan, ActvKeepsMoving
    <2>8. SweepIsAlive' /\ ListeningMeansDwelling' /\ NoSweepToContinue' /\ AbortedIsOver'
      BY <1>1, <1>3, <2>4, <2>5
         DEF SweepIsAlive, ListeningMeansDwelling, NoSweepToContinue, AbortedIsOver, Alive
    <2> QED BY <2>6, <2>7, <2>8 DEF IInv
  <1>5. CASE ~scanState.active
    <2>1. scanState = NoScan
      BY <1>t, <1>5 DEF TypeOK
    <2>2. active' = FALSE /\ scanActive' = FALSE
      BY <1>1, <2>1 DEF NoScan
    <2>3. /\ az' = 0 /\ preMode' = PASV /\ contacts' = NoContacts
          /\ chain' = [k \in Chain |-> "none"] /\ aim' = [k \in Chain |-> 0]
          /\ held' = (mode = ACTV) /\ mode' = mode /\ scanState' = NoScan
      BY <1>5, <2>1 DEF Restart
    <2>4. /\ chain' \in [Chain -> {"none", "moving", "dwelling"}]
          /\ aim' \in [Chain -> Bearing]
      BY <2>3, Values
    <2>5. TypeOK'
      BY <1>t, <1>1, <1>2, <1>3, <2>2, <2>3, <2>4, Values DEF TypeOK
    <2>6. SnapshotIsCurrent' /\ BufferingMatchesScan' /\ ActvKeepsMoving'
      BY <2>2, <2>3 DEF SnapshotIsCurrent, BufferingMatchesScan, ActvKeepsMoving
    <2>7. SweepIsAlive' /\ ListeningMeansDwelling' /\ NoSweepToContinue' /\ AbortedIsOver'
      BY <1>1, <2>2, <2>3
         DEF SweepIsAlive, ListeningMeansDwelling, NoSweepToContinue, AbortedIsOver
    <2> QED BY <2>5, <2>6, <2>7 DEF IInv
  <1> QED BY <1>4, <1>5

-----------------------------------------------------------------------------
LEMMA InitHolds ==
  Init => IInv
  <1> SUFFICES ASSUME Init PROVE IInv
    OBVIOUS
  <1>b. 0 \in 0 .. MaxOrphans /\ 0 \in 0 .. MaxRestarts /\ 0 \in Nat
    BY BoundAssumption
  <1>c. Elsewhere \in Beam
    BY DEF Beam
  <1>a. chain \in [Chain -> {"none", "moving", "dwelling"}] /\ aim \in [Chain -> Bearing]
    BY Values DEF Init
  <1>1. TypeOK
    BY <1>a, <1>b, <1>c, Values DEF Init, TypeOK
  <1>2. SnapshotIsCurrent /\ BufferingMatchesScan /\ ActvKeepsMoving
    BY Values DEF Init, SnapshotIsCurrent, BufferingMatchesScan, ActvKeepsMoving
  <1>3. SweepIsAlive /\ ListeningMeansDwelling /\ NoSweepToContinue /\ AbortedIsOver
    BY DEF Init, SweepIsAlive, ListeningMeansDwelling, NoSweepToContinue, AbortedIsOver
  <1> QED BY <1>1, <1>2, <1>3 DEF IInv

LEMMA StepKeepsInv ==
  IInv /\ [Next]_vars => IInv'
  <1> SUFFICES ASSUME IInv, [Next]_vars PROVE IInv'
    OBVIOUS
  <1>1. CASE UNCHANGED vars
    BY <1>1 DEF vars, IInv, TypeOK, SnapshotIsCurrent, BufferingMatchesScan, ActvKeepsMoving,
       SweepIsAlive, ListeningMeansDwelling, NoSweepToContinue, AbortedIsOver, Alive
  <1> QED BY <1>1, StartKeepsInv, AbortKeepsInv, ContactKeepsInv, PointReturnsKeepsInv,
             DwellFiresKeepsInv, PostModeKeepsInv, TimerStepKeepsInv, MoveReturnsKeepsInv,
             RestartKeepsInv DEF Next

(* The inductive invariant of the two beam-moving modes.                    *)
THEOREM InvariantHolds ==
  Spec => []IInv
  BY InitHolds, StepKeepsInv, PTL DEF Spec

(* Every variable keeps to its type, and a running sweep asks for bearings  *)
(* of the sweep only, whatever chains of aborted sweeps are still walking.  *)
THEOREM TypesHold ==
  Spec => []TypeOK
  <1>1. IInv => TypeOK
    BY DEF IInv
  <1> QED BY <1>1, InvariantHolds, PTL

(* The stored sweep is the one in memory between any two turns: a restart   *)
(* loses nothing of it and resumes none that has ended.                     *)
THEOREM CheckpointIsCurrent ==
  Spec => []SnapshotIsCurrent
  <1>1. IInv => SnapshotIsCurrent
    BY DEF IInv
  <1> QED BY <1>1, InvariantHolds, PTL

(* node-list buffers exactly while a sweep runs.                            *)
THEOREM BufferingFollowsScan ==
  Spec => []BufferingMatchesScan
  <1>1. IInv => BufferingMatchesScan
    BY DEF IInv
  <1> QED BY <1>1, InvariantHolds, PTL

(* Outside a scan, ACTV always has a timer set.                             *)
THEOREM ActvNeverFallsSilent ==
  Spec => []ActvKeepsMoving
  <1>1. IInv => ActvKeepsMoving
    BY DEF IInv
  <1> QED BY <1>1, InvariantHolds, PTL

(* An active sweep always has a step to take.                               *)
THEOREM SweepNeverSticks ==
  Spec => []SweepIsAlive
  <1>1. IInv => SweepIsAlive
    BY DEF IInv
  <1> QED BY <1>1, InvariantHolds, PTL

(* Contacts are accepted during a dwell only.                               *)
THEOREM ListensOnlyWhileDwelling ==
  Spec => []ListeningMeansDwelling
  <1>1. IInv => ListeningMeansDwelling
    BY DEF IInv
  <1> QED BY <1>1, InvariantHolds, PTL

-----------------------------------------------------------------------------
(* ActiveTracker.  NobodyTwiceBefore counts the turns of others; that none  *)
(* has a second one follows from the order of the stamps: who had a turn    *)
(* since n waits has a later stamp than n, and the head of the schedule is  *)
(* one than which none is earlier.                                          *)

TurnsWait ==
  \A n, m \in Target :
    served[n][m] # 0 =>
      /\ served[n][m] = 1
      /\ n \in Tracker!Schedule /\ n # m
      /\ m \in stamped
      /\ n \in stamped => <<n, m>> \in older

TrackerInv == Tracker!TypeOK /\ TurnsWait

-----------------------------------------------------------------------------
(* pointAt() on the head of the schedule keeps the types, and the order of  *)
(* the stamps one.                                                          *)
LEMMA TurnTyped ==
  ASSUME TrackerInv, NEW n \in Tracker!First(Tracker!Schedule), NEW same, NEW others,
         Tracker!PointAt(n, others, same)
  PROVE  /\ n \in Target
         /\ fired' \in Target \cup {Null} /\ holding' = TRUE /\ lost' = others
         /\ stamped' \subseteq known /\ older' \subseteq stamped' \X stamped'
         /\ \A k, m \in stamped' : <<k, m>> \in older' => <<m, k>> \notin older'
         /\ served' \in [Target -> [Target -> 0 .. 2]]
  <1>1. n \in Target
    BY DEF TrackerInv, Tracker!TypeOK, Tracker!First, Tracker!Unstamped,
       Tracker!Schedule
  <1>2. fired' \in Target \cup {Null} /\ holding' = TRUE /\ lost' = others
    BY <1>1 DEF Tracker!PointAt
  <1>3. stamped' \subseteq known /\ older' \subseteq stamped' \X stamped'
    <2>1. CASE n \in known
      <3>1. stamped' = stamped \cup {n}
        BY <2>1 DEF Tracker!PointAt, Tracker!Stamp
      <3>2. older' = {p \in older : n \notin {p[1], p[2]}} \cup ((stamped \ (same \cup {n})) \X {n})
        BY <2>1 DEF Tracker!PointAt, Tracker!Stamp
      <3> QED BY <2>1, <3>1, <3>2 DEF TrackerInv, Tracker!TypeOK
    <2>2. CASE n \notin known
      BY <2>2 DEF Tracker!PointAt, Tracker!Stamp, TrackerInv, Tracker!TypeOK
    <2> QED BY <2>1, <2>2
  <1>4. \A k, m \in stamped' : <<k, m>> \in older' => <<m, k>> \notin older'
    <2>1. CASE n \in known
      <3>1. stamped' = stamped \cup {n}
        BY <2>1 DEF Tracker!PointAt, Tracker!Stamp
      <3>2. older' = {p \in older : n \notin {p[1], p[2]}} \cup ((stamped \ (same \cup {n})) \X {n})
        BY <2>1 DEF Tracker!PointAt, Tracker!Stamp
      <3> QED BY <3>1, <3>2 DEF TrackerInv, Tracker!TypeOK
    <2>2. CASE n \notin known
      BY <2>2 DEF Tracker!PointAt, Tracker!Stamp, TrackerInv, Tracker!TypeOK
    <2> QED BY <2>1, <2>2
  <1>5. served' \in [Target -> [Target -> 0 .. 2]]
    <2>1. \A k \in Target : served[k] \in [Target -> 0 .. 2]
      BY DEF TrackerInv, Tracker!TypeOK
    <2>2. served' = Tracker!Served(n, Tracker!Schedule)
      BY DEF Tracker!PointAt
    <2>3. ASSUME NEW k \in Target
          PROVE  [served[k] EXCEPT
                  ![n] = IF n \in known /\ Tracker!After(n, k) /\ @ < 2 THEN @ + 1 ELSE @]
                 \in [Target -> 0 .. 2]
      <3>1. served[k][n] \in 0 .. 2
        BY <1>1, <2>1
      <3>2. (IF n \in known /\ Tracker!After(n, k) /\ served[k][n] < 2
             THEN served[k][n] + 1 ELSE served[k][n]) \in 0 .. 2
        BY <3>1
      <3> QED BY <2>1, <3>2
    <2> QED BY <2>2, <2>3 DEF Tracker!Served, Tracker!Nobody
  <1> QED BY <1>1, <1>2, <1>3, <1>4, <1>5

(* pointAt() on the head of the schedule: for who waits, it is the first    *)
(* turn of the one it goes to.                                              *)
LEMMA TurnWaited ==
  ASSUME TrackerInv, NEW n \in Tracker!First(Tracker!Schedule), NEW same, NEW others,
         Tracker!PointAt(n, others, same),
         UNCHANGED <<radar, home>>
  PROVE  TurnsWait'
  <1>1. n \in Target
    BY TurnTyped
  <1>2. Tracker!Schedule' = Tracker!Schedule
    BY DEF Tracker!Schedule
  <1>3. served' = Tracker!Served(n, Tracker!Schedule)
    BY DEF Tracker!PointAt
  <1>s. served \in [Target -> [Target -> 0 .. 2]]
    BY DEF TrackerInv, Tracker!TypeOK
  <1> SUFFICES ASSUME NEW k \in Target, NEW m \in Target, served'[k][m] # 0
               PROVE  /\ served'[k][m] = 1
                      /\ k \in Tracker!Schedule /\ k # m
                      /\ m \in stamped'
                      /\ k \in stamped' => <<k, m>> \in older'
    BY <1>2 DEF TurnsWait
  <1>4. k \in Tracker!Schedule /\ k # n
    <2>1. Tracker!Nobody[m] = 0
      BY DEF Tracker!Nobody
    <2> QED BY <1>3, <2>1 DEF Tracker!Served
  <1>5. served'[k] = [served[k] EXCEPT
                        ![n] = IF n \in known /\ Tracker!After(n, k) /\ @ < 2 THEN @ + 1 ELSE @]
    BY <1>3, <1>4 DEF Tracker!Served
  <1>6. CASE m = n
    <2>1. served[k][n] = 0
      <3> SUFFICES ASSUME served[k][n] # 0 PROVE FALSE
        OBVIOUS
      <3>1. n \in stamped /\ (k \in stamped => <<k, n>> \in older)
        BY <1>1 DEF TrackerInv, TurnsWait
      <3> QED BY <1>4, <3>1 DEF Tracker!First, Tracker!Unstamped
    <2>2. n \in known /\ Tracker!After(n, k) /\ served'[k][n] = 1
      BY <1>s, <1>1, <1>5, <1>6, <2>1
    <2>3. n \in stamped' /\ (k \in stamped' => k \in stamped)
      BY <1>4, <2>2 DEF Tracker!PointAt, Tracker!Stamp
    <2> QED BY <1>4, <1>6, <2>2, <2>3 DEF Tracker!After
  <1>7. CASE m # n
    <2>1. served'[k][m] = served[k][m]
      BY <1>s, <1>1, <1>5, <1>7
    <2>2. served[k][m] = 1 /\ k # m /\ m \in stamped /\ (k \in stamped => <<k, m>> \in older)
      BY <2>1 DEF TrackerInv, TurnsWait
    <2>3. m \in stamped' /\ (k \in stamped' => k \in stamped)
      BY <1>4, <2>2 DEF Tracker!PointAt, Tracker!Stamp
    <2>4. <<k, m>> \in older => <<k, m>> \in older'
      BY <1>4, <1>7 DEF Tracker!PointAt, Tracker!Stamp
    <2> QED BY <1>4, <2>1, <2>2, <2>3, <2>4
  <1> QED BY <1>6, <1>7

(* advance(), whichever timer fires: the schedule stays, and one of it is   *)
(* pointed at or nobody.                                                    *)
LEMMA AdvanceTyped ==
  ASSUME TrackerInv, NEW handle \in BOOLEAN, NEW others \in 0 .. MaxLost, NEW Same,
         Tracker!Advance(handle, others, Same),
         UNCHANGED <<radar, home, known, contact>>, actv' \in BOOLEAN
  PROVE  TrackerInv'
  <1>1. Tracker!Schedule' = Tracker!Schedule
    BY DEF Tracker!Schedule
  <1>2. CASE Tracker!Schedule = {}
    <2>1. holding' = TRUE /\ lost' \in 0 .. MaxLost /\ UNCHANGED <<fired, stamped, older, served>>
      BY <1>2, ApartAssumption DEF Tracker!Advance
    <2>2. Tracker!TypeOK'
      BY <2>1 DEF TrackerInv, Tracker!TypeOK
    <2>3. TurnsWait'
      BY <1>1, <2>1 DEF TrackerInv, TurnsWait
    <2> QED BY <2>2, <2>3 DEF TrackerInv
  <1>3. CASE Tracker!Schedule # {}
    <2>1. PICK n \in Tracker!First(Tracker!Schedule), same \in Same : Tracker!PointAt(n, others, same)
      BY <1>3 DEF Tracker!Advance
    <2>2. TurnsWait'
      BY <2>1, TurnWaited
    <2>3. Tracker!TypeOK'
      BY <2>1, TurnTyped DEF TrackerInv, Tracker!TypeOK
    <2> QED BY <2>2, <2>3 DEF TrackerInv
  <1> QED BY <1>2, <1>3

LEMMA ResetTyped ==
  ASSUME TrackerInv, NEW waiting
  PROVE  Tracker!Reset(waiting) \in [Target -> [Target -> 0 .. 2]]
  BY DEF TrackerInv, Tracker!TypeOK, Tracker!Reset, Tracker!Nobody

LEMMA TrackerInit == Tracker!Init => TrackerInv
  <1> SUFFICES ASSUME Tracker!Init PROVE TrackerInv
    OBVIOUS
  <1>1. Tracker!TypeOK
    <2>1. Tracker!Nobody \in [Target -> 0 .. 2] /\ lost \in 0 .. MaxLost
      BY ApartAssumption DEF Tracker!Init, Tracker!Nobody
    <2> QED BY <2>1 DEF Tracker!Init, Tracker!TypeOK
  <1>2. TurnsWait
    <2>1. \A n, m \in Target : served[n][m] = 0
      BY DEF Tracker!Init, Tracker!Nobody
    <2> QED BY <2>1 DEF TurnsWait
  <1> QED BY <1>1, <1>2 DEF TrackerInv

(* One case for each action of the tracker.                                 *)
LEMMA TrackerStep == TrackerInv /\ [Tracker!Next]_tracker => TrackerInv'
  <1> SUFFICES ASSUME TrackerInv, [Tracker!Next]_tracker PROVE TrackerInv'
    OBVIOUS
  <1>t. holding \in BOOLEAN /\ actv \in BOOLEAN /\ lost \in 0 .. MaxLost
    BY DEF TrackerInv, Tracker!TypeOK
  <1>1. CASE Tracker!HoldFires
    <2> QED BY <1>t, <1>1, AdvanceTyped DEF Tracker!HoldFires
  <1>2. CASE Tracker!OrphanFires
    <2>1. lost - 1 \in 0 .. MaxLost
      BY <1>t, <1>2, ApartAssumption DEF Tracker!OrphanFires
    <2> QED BY <1>t, <1>2, <2>1, AdvanceTyped DEF Tracker!OrphanFires
  <1>3. CASE Tracker!Start
    <2> QED BY <1>t, <1>3, AdvanceTyped DEF Tracker!Start
  <1>4. CASE Tracker!Stop
    <2>1. Tracker!TypeOK'
      BY <1>4 DEF Tracker!Stop, TrackerInv, Tracker!TypeOK
    <2>2. TurnsWait'
      BY <1>4 DEF Tracker!Stop, TrackerInv, TurnsWait, Tracker!Schedule
    <2> QED BY <2>1, <2>2 DEF TrackerInv
  <1>5. CASE Tracker!HandlePacket
    <2>1. Tracker!TypeOK'
      BY <1>5 DEF Tracker!HandlePacket, TrackerInv, Tracker!TypeOK, Tracker!timers
    <2>2. TurnsWait'
      BY <1>5 DEF Tracker!HandlePacket, TrackerInv, TurnsWait, Tracker!Schedule
    <2> QED BY <2>1, <2>2 DEF TrackerInv
  <1>6. CASE \E n \in Target : Tracker!Appears(n)
    <2>1. Tracker!TypeOK'
      BY <1>6 DEF Tracker!Appears, TrackerInv, Tracker!TypeOK, Tracker!timers,
         Tracker!stored
    <2>2. TurnsWait'
      BY <1>6 DEF Tracker!Appears, TrackerInv, TurnsWait, Tracker!Schedule,
         Tracker!stored
    <2> QED BY <2>1, <2>2 DEF TrackerInv
  <1>7. CASE \E n \in Target : Tracker!Leaves(n)
    <2>1. PICK n \in Target : Tracker!Leaves(n)
      BY <1>7
    <2>2. served' \in [Target -> [Target -> 0 .. 2]]
      BY <2>1, ResetTyped DEF Tracker!Leaves
    <2>3. Tracker!TypeOK'
      BY <2>1, <2>2
         DEF Tracker!Leaves, TrackerInv, Tracker!TypeOK, Tracker!timers, Tracker!stored
    <2>4. Tracker!Schedule' = Tracker!Schedule \ {n} /\ UNCHANGED <<stamped, older>>
      BY <2>1 DEF Tracker!Leaves, Tracker!Schedule, Tracker!stored
    <2>5. \A k, m \in Target :
            served'[k][m] # 0 => k \in Tracker!Schedule \ {n} /\ served'[k][m] = served[k][m]
      BY <2>1 DEF Tracker!Leaves, Tracker!Reset, Tracker!Nobody
    <2>6. TurnsWait'
      BY <2>4, <2>5 DEF TrackerInv, TurnsWait
    <2> QED BY <2>3, <2>6 DEF TrackerInv
  <1>8. CASE \E n \in Target : Tracker!NodeInfo(n)
    <2>1. Tracker!TypeOK'
      BY <1>8 DEF Tracker!NodeInfo, TrackerInv, Tracker!TypeOK, Tracker!timers
    <2>2. TurnsWait'
      BY <1>8 DEF Tracker!NodeInfo, TrackerInv, TurnsWait, Tracker!Schedule
    <2> QED BY <2>1, <2>2 DEF TrackerInv
  <1>9. CASE \E given \in BOOLEAN : Tracker!PutHome(given)
    <2>1. PICK given \in BOOLEAN : Tracker!PutHome(given)
      BY <1>9
    <2>2. served' \in [Target -> [Target -> 0 .. 2]]
      BY <2>1, ResetTyped DEF Tracker!PutHome, TrackerInv, Tracker!TypeOK
    <2>3. Tracker!TypeOK'
      BY <2>1, <2>2 DEF Tracker!PutHome, TrackerInv, Tracker!TypeOK, Tracker!timers
    <2>4. UNCHANGED <<stamped, older>>
      BY <2>1 DEF Tracker!PutHome
    <2>5. \A k, m \in Target : served'[k][m] # 0 => given /\ served'[k][m] = served[k][m]
      BY <2>1 DEF Tracker!PutHome, Tracker!Reset, Tracker!Nobody
    <2>6. given => \A k \in Tracker!Schedule : k \in Tracker!Schedule'
      BY <2>1 DEF Tracker!PutHome, Tracker!Schedule
    <2>7. TurnsWait'
      BY <2>4, <2>5, <2>6 DEF TrackerInv, TurnsWait
    <2> QED BY <2>3, <2>7 DEF TrackerInv
  <1>10. CASE Tracker!Restart
    <2>1. CASE actv /\ Tracker!Schedule # {}
      <3>1. PICK n \in Tracker!First(Tracker!Schedule), same \in {{}, Tracker!Latest} :
              Tracker!PointAt(n, 0, same)
        BY <1>10, <2>1 DEF Tracker!Restart
      <3>2. UNCHANGED <<radar, home, known, contact, actv>>
        BY <1>10 DEF Tracker!Restart
      <3>3. TurnsWait'
        BY <3>1, <3>2, TurnWaited
      <3>4. 0 \in 0 .. MaxLost /\ TRUE \in BOOLEAN
        BY ApartAssumption
      <3>5. /\ fired' \in Target \cup {Null} /\ holding' = TRUE /\ lost' = 0
            /\ stamped' \subseteq known /\ older' \subseteq stamped' \X stamped'
            /\ \A k, m \in stamped' : <<k, m>> \in older' => <<m, k>> \notin older'
            /\ served' \in [Target -> [Target -> 0 .. 2]]
        BY <3>1, TurnTyped
      <3>6. Tracker!TypeOK'
        BY <3>2, <3>4, <3>5 DEF TrackerInv, Tracker!TypeOK
      <3> QED BY <3>3, <3>6 DEF TrackerInv
    <2>2. CASE ~(actv /\ Tracker!Schedule # {})
      <3>1. Tracker!TypeOK'
        BY <1>10, <2>2, ApartAssumption DEF Tracker!Restart, TrackerInv, Tracker!TypeOK
      <3>2. TurnsWait'
        BY <1>10, <2>2 DEF Tracker!Restart, TrackerInv, TurnsWait, Tracker!Schedule
      <3> QED BY <3>1, <3>2 DEF TrackerInv
    <2> QED BY <2>1, <2>2
  <1>11. CASE UNCHANGED tracker
    <2>1. Tracker!TypeOK'
      BY <1>11 DEF tracker, Tracker!timers, Tracker!stored, TrackerInv, Tracker!TypeOK
    <2>2. TurnsWait'
      BY <1>11 DEF tracker, Tracker!timers, Tracker!stored, TrackerInv, TurnsWait,
         Tracker!Schedule
    <2> QED BY <2>1, <2>2 DEF TrackerInv
  <1> QED
    BY <1>1, <1>2, <1>3, <1>4, <1>5, <1>6, <1>7, <1>8, <1>9, <1>10, <1>11
       DEF Tracker!Next

LEMMA TrackerGives == TrackerInv => Tracker!TypeOK /\ Tracker!NobodyTwiceBefore
  <1> SUFFICES ASSUME TrackerInv PROVE Tracker!NobodyTwiceBefore
    BY DEF TrackerInv
  <1>1. SUFFICES ASSUME NEW n \in Target, NEW m \in Target PROVE served[n][m] <= 1
    BY DEF Tracker!NobodyTwiceBefore
  <1>2. served[n][m] # 0 => served[n][m] = 1
    BY DEF TrackerInv, TurnsWait
  <1> QED BY <1>2

-----------------------------------------------------------------------------
(* Geocode.  That the chain of jobs is no longer than the look-ups of the   *)
(* page and one of the backfill needs a count: every job and every request  *)
(* on its way is of a look-up that was made, or of the one timer whose      *)
(* backfill waits for an answer.                                            *)

(* The look-ups the page has made; the timers at work on a backlog; the     *)
(* jobs the backfill may have on the chain.                                 *)
LookedUp == {i \in Lookup : lookup[i].state # "new"}
Filling  == {t \in Naming!Timer : fill[t].phase \in {"lookup", "gap"}}
Share    == IF \E t \in Naming!Timer : fill[t].phase = "lookup" THEN 1 ELSE 0

NamingTypes ==
  /\ placed \subseteq Site
  /\ address \in [Site -> Naming!Named \cup {Null}]
  /\ queue \in Seq(Naming!Job)
  /\ phase \in {"gap", "asking"}
  /\ running \in BOOLEAN /\ fill \in [Naming!Timer -> Naming!Fill]
  /\ resolver \in [Site -> Lookup \cup {Null}]
  /\ lookup \in [Lookup -> [num : Site \cup {Null},
                            state : {"new", "waiting", "answered", "null"}]]
  /\ timers \in Seq(Lookup)
  /\ open \in BOOLEAN /\ up \in Seq(Site) /\ down \in Seq(Naming!Result)
  /\ breaks \in 0 .. MaxBreaks

(* _backfillRunning is up while a backfill is at work, and only one is.     *)
OneRuns == (Filling # {} => running) /\ \A s, t \in Filling : s = t

(* It has one job on the chain, which it waits for.                         *)
OneJob ==
  /\ \A k \in DOMAIN queue :
       queue[k].asker \in Naming!Timer => fill[queue[k].asker].phase = "lookup"
  /\ \A k, l \in DOMAIN queue :
       queue[k].asker \in Naming!Timer /\ queue[l].asker \in Naming!Timer => k = l

QueueBounded == Len(queue) + Len(up) <= Cardinality(LookedUp) + Share

NamingInv == NamingTypes /\ OneRuns /\ OneJob /\ QueueBounded

-----------------------------------------------------------------------------
LEMMA AskedFinite ==
  /\ IsFiniteSet(LookedUp)
  /\ Cardinality(LookedUp) \in Nat /\ Cardinality(LookedUp) <= Cardinality(Lookup)
  <1>1. LookedUp \subseteq Lookup
    BY DEF LookedUp
  <1> QED BY <1>1, FS_Subset, FS_CardinalityType, ApartAssumption

(* The count is the bound that Geocode's TypeOK states.                     *)
LEMMA QueueFits == ASSUME NamingInv PROVE Naming!TypeOK
  <1>1. Len(queue) \in Nat /\ Len(up) \in Nat /\ Cardinality(Lookup) \in Nat
    BY LenProperties, FS_CardinalityType, ApartAssumption DEF NamingInv, NamingTypes
  <1>2. Share <= 1 /\ Share \in Nat
    BY DEF Share
  <1>3. Len(queue) <= Cardinality(Lookup) + 1
    BY <1>1, <1>2, AskedFinite DEF NamingInv, QueueBounded
  <1>4. Naming!Cardinality(Lookup) = Cardinality(Lookup)
    BY DEF Naming!Cardinality, Cardinality
  <1> QED BY <1>3, <1>4 DEF NamingInv, NamingTypes, Naming!TypeOK

LEMMA NamingInit == ASSUME Naming!Init PROVE NamingInv
  <1>1. NamingTypes
    <2>1. fill \in [Naming!Timer -> Naming!Fill]
      BY DEF Naming!Init, Naming!Resting, Naming!Fill
    <2>2. /\ queue \in Seq(Naming!Job) /\ timers \in Seq(Lookup)
          /\ up \in Seq(Site) /\ down \in Seq(Naming!Result)
      BY DEF Naming!Init
    <2>3. breaks \in 0 .. MaxBreaks
      BY ApartAssumption DEF Naming!Init
    <2> QED BY <2>1, <2>2, <2>3 DEF Naming!Init, NamingTypes
  <1>2. OneRuns /\ OneJob
    BY DEF Naming!Init, OneRuns, OneJob, Filling, Naming!Resting
  <1>3. QueueBounded
    <2>1. Len(queue) = 0 /\ Len(up) = 0
      BY DEF Naming!Init
    <2>2. Share \in Nat
      BY DEF Share
    <2> QED BY <2>1, <2>2, AskedFinite DEF QueueBounded
  <1> QED BY <1>1, <1>2, <1>3 DEF NamingInv

(* Room is kept by a step that asks for nothing.                            *)
LEMMA SameRoom ==
  ASSUME NamingInv, LookedUp' = LookedUp, Share' = Share,
         queue' \in Seq(Naming!Job), up' \in Seq(Site),
         Len(queue') + Len(up') <= Len(queue) + Len(up)
  PROVE  QueueBounded'
  <1>1. Len(queue) \in Nat /\ Len(up) \in Nat /\ Len(queue') \in Nat /\ Len(up') \in Nat
    BY LenProperties DEF NamingInv, NamingTypes
  <1>2. Share \in Nat
    BY DEF Share
  <1> QED BY <1>1, <1>2, AskedFinite DEF NamingInv, QueueBounded

(* A look-up of the backfill: a job of its own, or none.                    *)
LEMMA LookUpKeeps ==
  ASSUME NamingInv, NEW t \in Naming!Timer, NEW n \in Site, NEW todo \in SUBSET Site,
         Naming!LooksUp(t, n, todo),
         \A s \in Filling : s = t /\ fill[s].phase # "lookup",
         running', running' \in BOOLEAN,
         UNCHANGED <<placed, address, phase, Naming!page, Naming!wire, breaks>>
  PROVE  NamingInv'
  <1> DEFINE f == [phase |-> IF Naming!Askable(n) THEN "lookup" ELSE "gap", todo |-> todo \ {n}]
             job == [num |-> n, asker |-> t]
  <1>1. f \in Naming!Fill
    BY DEF Naming!Fill
  <1>2. fill' = [fill EXCEPT ![t] = f]
    BY DEF Naming!LooksUp
  <1>3. /\ fill' \in [Naming!Timer -> Naming!Fill] /\ fill'[t] = f
        /\ \A s \in Naming!Timer \ {t} : fill'[s] = fill[s]
    BY <1>1, <1>2 DEF NamingInv, NamingTypes
  <1>4. job \in Naming!Job
    BY DEF Naming!Job
  <1>5. queue' \in Seq(Naming!Job)
    <2>1. queue \in Seq(Naming!Job)
      BY DEF NamingInv, NamingTypes
    <2>2. queue' = Append(queue, job) \/ queue' = queue
      BY DEF Naming!LooksUp, Naming!Queued
    <2> QED BY <1>4, <2>1, <2>2, AppendProperties
  <1>6. NamingTypes'
    BY <1>3, <1>5 DEF NamingInv, NamingTypes, Naming!page, Naming!wire
  <1>7. \A s \in Naming!Timer \ {t} : fill[s].phase \notin {"lookup", "gap"}
    BY DEF Filling
  <1>8. OneRuns'
    BY <1>3, <1>7 DEF OneRuns, Filling
  <1>9. \A k \in DOMAIN queue : queue[k].asker \notin Naming!Timer
    BY DEF NamingInv, OneJob, Filling
  <1>10. CASE Naming!Askable(n)
    <2>1. queue' = Append(queue, job) /\ fill'[t].phase = "lookup"
      BY <1>3, <1>10 DEF Naming!LooksUp, Naming!Queued
    <2>2. /\ Len(queue') = Len(queue) + 1 /\ Len(queue) \in Nat
          /\ DOMAIN queue' = 1 .. Len(queue) + 1 /\ DOMAIN queue = 1 .. Len(queue)
          /\ queue'[Len(queue) + 1] = job
          /\ \A k \in 1 .. Len(queue) : queue'[k] = queue[k]
      BY <1>4, <2>1, AppendProperties, LenProperties DEF NamingInv, NamingTypes
    <2>3. OneJob'
      <3>1. ASSUME NEW k \in DOMAIN queue', queue'[k].asker \in Naming!Timer PROVE k = Len(queue) + 1
        BY <1>9, <2>2, <3>1
      <3> QED BY <2>1, <2>2, <3>1 DEF OneJob
    <2>4. Share = 0
      BY <1>7 DEF Share, Filling
    <2>5. Share' = 1
      BY <2>1 DEF Share
    <2>6. LookedUp' = LookedUp /\ Len(up') = Len(up) /\ Len(up) \in Nat
      BY LenProperties DEF LookedUp, Naming!page, Naming!wire, NamingInv, NamingTypes
    <2>7. QueueBounded'
      BY <2>2, <2>4, <2>5, <2>6, AskedFinite DEF NamingInv, QueueBounded
    <2> QED BY <1>6, <1>8, <2>3, <2>7 DEF NamingInv
  <1>11. CASE ~Naming!Askable(n)
    <2>1. queue' = queue /\ fill'[t].phase = "gap"
      BY <1>3, <1>11 DEF Naming!LooksUp
    <2>2. OneJob'
      BY <1>9, <2>1 DEF OneJob
    <2>3. Share = 0 /\ Share' = 0
      BY <1>3, <1>7, <2>1 DEF Share, Filling
    <2>4. LookedUp' = LookedUp /\ up' = up
      BY DEF LookedUp, Naming!page, Naming!wire
    <2>5. QueueBounded'
      BY <2>1, <2>3, <2>4, SameRoom, LenProperties DEF NamingInv, NamingTypes
    <2> QED BY <1>6, <1>8, <2>2, <2>5 DEF NamingInv
  <1> QED BY <1>10, <1>11

(* The backfill ends.                                                       *)
LEMMA EndKeeps ==
  ASSUME NamingInv, NEW t \in Naming!Timer, Naming!Ends(t),
         \A s \in Filling : s = t /\ fill[s].phase # "lookup",
         UNCHANGED <<placed, address, phase, Naming!page, Naming!wire, breaks>>
  PROVE  NamingInv'
  <1> DEFINE f == [phase |-> IF t = "boot" THEN "over" ELSE "off", todo |-> {}]
  <1>1. f \in Naming!Fill
    BY DEF Naming!Fill
  <1>2. fill' = [fill EXCEPT ![t] = f]
    BY DEF Naming!Ends
  <1>3. /\ fill' \in [Naming!Timer -> Naming!Fill] /\ fill'[t] = f
        /\ \A s \in Naming!Timer \ {t} : fill'[s] = fill[s]
    BY <1>1, <1>2 DEF NamingInv, NamingTypes
  <1>4. NamingTypes'
    BY <1>3 DEF Naming!Ends, NamingInv, NamingTypes, Naming!page, Naming!wire
  <1>5. Filling' = {}
    BY <1>3 DEF Filling
  <1>6. OneRuns'
    BY <1>5 DEF OneRuns
  <1>7. \A k \in DOMAIN queue : queue[k].asker \notin Naming!Timer
    BY DEF NamingInv, OneJob, Filling
  <1>8. OneJob'
    BY <1>7 DEF Naming!Ends, OneJob
  <1>9. Share = 0 /\ Share' = 0
    BY <1>5 DEF Share, Filling
  <1>10. LookedUp' = LookedUp /\ up' = up /\ queue' = queue
    BY DEF LookedUp, Naming!page, Naming!wire, Naming!Ends
  <1>11. QueueBounded'
    BY <1>9, <1>10, SameRoom, LenProperties DEF NamingInv, NamingTypes
  <1> QED BY <1>4, <1>6, <1>8, <1>11 DEF NamingInv

(* One case for each action of the look-ups.                                *)
LEMMA NamingStep == ASSUME NamingInv, [Naming!Next]_naming PROVE NamingInv'
  <1> USE DEF NamingInv
  <1>l. Len(queue) \in Nat /\ Len(up) \in Nat
    BY LenProperties DEF NamingTypes
  <1>1. CASE \/ \E n \in Site : Naming!Place(n)
             \/ Naming!ClearNodes
             \/ Naming!GapOver
             \/ Naming!Reconnects
             \/ UNCHANGED naming
    <2>1. UNCHANGED <<address, queue, running, fill, resolver, lookup, timers, up, down, breaks>>
      BY <1>1 DEF Naming!Place, Naming!ClearNodes, Naming!GapOver, Naming!Reconnects,
         naming, Naming!server, Naming!page, Naming!wire
    <2>2. placed' \subseteq Site /\ phase' \in {"gap", "asking"} /\ open' \in BOOLEAN
      BY <1>1 DEF Naming!Place, Naming!ClearNodes, Naming!GapOver, Naming!Reconnects,
         naming, Naming!server, Naming!page, Naming!wire, NamingTypes
    <2>3. NamingTypes'
      BY <2>1, <2>2 DEF NamingTypes
    <2>4. OneRuns' /\ OneJob'
      BY <2>1 DEF OneRuns, OneJob, Filling
    <2>5. QueueBounded'
      BY <2>1 DEF QueueBounded, LookedUp, Share
    <2> QED BY <2>3, <2>4, <2>5
  <1>2. CASE Naming!Receive
    <2> DEFINE n == Head(up)
               job == [num |-> n, asker |-> "page"]
    <2>1. n \in Site /\ up' = Tail(up) /\ up' \in Seq(Site) /\ Len(up') = Len(up) - 1
      BY <1>2, HeadTailProperties DEF Naming!Receive, NamingTypes
    <2>2. UNCHANGED <<placed, address, phase, running, fill, Naming!page, open, breaks>>
      BY <1>2 DEF Naming!Receive
    <2>3. LookedUp' = LookedUp /\ Share' = Share /\ OneRuns'
      BY <2>2 DEF LookedUp, Share, Naming!page, OneRuns, Filling
    <2>4. job \in Naming!Job
      BY <2>1 DEF Naming!Job
    <2>5. CASE Naming!Askable(n)
      <3>1. queue' = Append(queue, job) /\ down' = down
        BY <1>2, <2>5 DEF Naming!Receive, Naming!Queued
      <3>2. /\ queue' \in Seq(Naming!Job) /\ Len(queue') = Len(queue) + 1
            /\ DOMAIN queue' = 1 .. Len(queue) + 1 /\ DOMAIN queue = 1 .. Len(queue)
            /\ queue'[Len(queue) + 1] = job
            /\ \A k \in 1 .. Len(queue) : queue'[k] = queue[k]
        BY <2>4, <3>1, AppendProperties, LenProperties DEF NamingTypes
      <3>3. NamingTypes'
        BY <2>1, <2>2, <3>1, <3>2 DEF NamingTypes, Naming!page
      <3>4. \A k \in DOMAIN queue' :
              queue'[k].asker \in Naming!Timer => k \in DOMAIN queue /\ queue'[k] = queue[k]
        BY <1>l, <3>2 DEF Naming!Timer
      <3>5. OneJob'
        BY <2>2, <3>4 DEF OneJob
      <3>6. QueueBounded'
        BY <1>l, <2>1, <2>3, <3>2, SameRoom
      <3> QED BY <2>3, <3>3, <3>5, <3>6
    <2>6. CASE ~Naming!Askable(n)
      <3>1. queue' = queue /\ down' = Append(down, [num |-> n, address |-> address[n]])
        BY <1>2, <2>6 DEF Naming!Receive
      <3>2. [num |-> n, address |-> address[n]] \in Naming!Result
        BY <2>1 DEF NamingTypes, Naming!Result
      <3>3. down' \in Seq(Naming!Result)
        BY <3>1, <3>2 DEF NamingTypes
      <3>4. NamingTypes'
        BY <2>1, <2>2, <3>1, <3>3 DEF NamingTypes, Naming!page
      <3>5. OneJob'
        BY <2>2, <3>1 DEF OneJob
      <3>6. QueueBounded'
        BY <1>l, <2>1, <2>3, <3>1, <3>4, SameRoom DEF NamingTypes
      <3> QED BY <2>3, <3>4, <3>5, <3>6
    <2> QED BY <2>5, <2>6
  <1>3. CASE \E a \in Naming!Named : Naming!Fetched(a)
    <2>1. PICK a \in Naming!Named : Naming!Fetched(a)
      BY <1>3
    <2> DEFINE job == Head(queue)
    <2>2. /\ queue # <<>> /\ queue' = Tail(queue) /\ queue' \in Seq(Naming!Job) /\ job \in Naming!Job
          /\ Len(queue') = Len(queue) - 1 /\ job = queue[1]
          /\ DOMAIN queue = 1 .. Len(queue) /\ DOMAIN queue' = 1 .. Len(queue) - 1
          /\ \A k \in 1 .. Len(queue) - 1 : queue'[k] = queue[k + 1]
      BY <2>1, HeadTailProperties, LenProperties DEF Naming!Fetched, NamingTypes
    <2>3. /\ address' = [address EXCEPT ![job.num] = a]
          /\ down' = IF job.asker = "page" THEN Append(down, [num |-> job.num, address |-> a]) ELSE down
          /\ fill' = [t \in Naming!Timer |->
                        IF t = job.asker THEN [fill[t] EXCEPT !.phase = "gap"] ELSE fill[t]]
          /\ phase' = "gap"
          /\ UNCHANGED <<placed, running, Naming!page, open, up, breaks>>
      BY <2>1 DEF Naming!Fetched
    <2>4. job.num \in Site /\ [num |-> job.num, address |-> a] \in Naming!Result
      BY <2>1, <2>2 DEF Naming!Job, Naming!Result
    <2>5. down' \in Seq(Naming!Result)
      BY <2>3, <2>4 DEF NamingTypes
    <2>6. \A t \in Naming!Timer : fill[t] \in Naming!Fill /\ [fill[t] EXCEPT !.phase = "gap"] \in Naming!Fill
                           /\ [fill[t] EXCEPT !.phase = "gap"].phase = "gap"
      BY DEF NamingTypes, Naming!Fill
    <2>7. fill' \in [Naming!Timer -> Naming!Fill]
      BY <2>3, <2>6
    <2>8. NamingTypes'
      BY <2>2, <2>3, <2>4, <2>5, <2>7 DEF NamingTypes, Naming!page
    <2>9. \A t \in Naming!Timer : fill'[t].phase = IF t = job.asker THEN "gap" ELSE fill[t].phase
      BY <2>3, <2>6
    <2>10. \A t \in Naming!Timer : t = job.asker => fill[t].phase = "lookup"
      BY <1>l, <2>2 DEF OneJob
    <2>11. Filling' = Filling
      BY <2>9, <2>10 DEF Filling
    <2>12. OneRuns'
      BY <2>3, <2>11 DEF OneRuns
    <2>13. \A k \in DOMAIN queue' :
             k + 1 \in DOMAIN queue /\ k + 1 # 1 /\ queue'[k] = queue[k + 1]
      BY <1>l, <2>2
    <2>14. 1 \in DOMAIN queue
      BY <1>l, <2>2 DEF NamingTypes
    <2>15. OneJob'
      <3>1. ASSUME NEW k \in DOMAIN queue', queue'[k].asker \in Naming!Timer
            PROVE  fill'[queue'[k].asker].phase = "lookup"
        <4>1. queue[k + 1].asker \in Naming!Timer /\ fill[queue[k + 1].asker].phase = "lookup"
          BY <2>13, <3>1 DEF OneJob
        <4>2. job.asker \notin Naming!Timer
          BY <2>2, <2>13, <2>14, <4>1 DEF OneJob
        <4> QED BY <2>9, <2>13, <4>1, <4>2
      <3>2. ASSUME NEW k \in DOMAIN queue', NEW l \in DOMAIN queue',
                   queue'[k].asker \in Naming!Timer, queue'[l].asker \in Naming!Timer
            PROVE  k = l
        <4>1. k + 1 = l + 1
          BY <2>13, <3>2 DEF OneJob
        <4>2. k \in Int /\ l \in Int
          BY <2>2, <1>l
        <4> QED BY <4>1, <4>2
      <3> QED BY <3>1, <3>2 DEF OneJob
    <2>16. LookedUp' = LookedUp /\ up' = up
      BY <2>3 DEF LookedUp, Naming!page
    <2>17. Share \in Nat /\ Share' \in Nat /\ Share <= Share' + 1
      BY DEF Share
    <2>18. Len(queue) + Len(up) <= Cardinality(LookedUp) + Share /\ Cardinality(LookedUp) \in Nat
      BY AskedFinite DEF QueueBounded
    <2>a. \A q, u, c, s, r \in Nat : q + u <= c + s /\ s <= r + 1 => (q - 1) + u <= c + r
      OBVIOUS
    <2>19. (Len(queue) - 1) + Len(up) <= Cardinality(LookedUp) + Share'
      <3> HIDE DEF NamingInv
      <3> QED BY <1>l, <2>17, <2>18, <2>a
    <2>20. QueueBounded'
      BY <2>2, <2>16, <2>19 DEF QueueBounded
    <2> QED BY <2>8, <2>12, <2>15, <2>20
  <1>4. CASE \E t \in Naming!Timer : Naming!Tick(t)
    <2>1. PICK t \in Naming!Timer : Naming!Tick(t)
      BY <1>4
    <2>2. UNCHANGED <<placed, address, phase, Naming!page, Naming!wire, breaks>>
      BY <2>1 DEF Naming!Tick
    <2>3. CASE running
      <3>1. /\ fill[t].phase = "off"
            /\ fill' = [fill EXCEPT ![t].phase = "over"] /\ UNCHANGED <<running, queue>>
        BY <2>1, <2>3 DEF Naming!Tick
      <3>2. /\ fill' \in [Naming!Timer -> Naming!Fill] /\ fill'[t].phase = "over"
            /\ \A s \in Naming!Timer \ {t} : fill'[s] = fill[s]
        BY <3>1 DEF NamingTypes, Naming!Fill
      <3>3. NamingTypes'
        BY <2>2, <3>1, <3>2 DEF NamingTypes, Naming!page, Naming!wire
      <3>4. Filling' = Filling
        BY <3>1, <3>2 DEF Filling
      <3>5. OneRuns'
        BY <3>1, <3>4 DEF OneRuns
      <3>6. OneJob'
        BY <3>1, <3>2 DEF OneJob
      <3>7. Share' = Share
        BY <3>1, <3>2 DEF Share
      <3>8. LookedUp' = LookedUp /\ up' = up
        BY <2>2 DEF LookedUp, Naming!page, Naming!wire
      <3>9. QueueBounded'
        BY <3>1, <3>7, <3>8 DEF QueueBounded
      <3> QED BY <3>3, <3>5, <3>6, <3>9
    <2>4. CASE ~running /\ Naming!Backlog = {}
      <3>1. Filling = {}
        BY <2>4 DEF OneRuns
      <3> QED BY <2>1, <2>2, <2>4, <3>1, EndKeeps DEF Naming!Tick
    <2>5. CASE ~running /\ Naming!Backlog # {}
      <3>1. Filling = {}
        BY <2>5 DEF OneRuns
      <3>2. running' = TRUE /\ \E n \in Naming!Backlog : Naming!LooksUp(t, n, Naming!Backlog)
        BY <2>1, <2>5 DEF Naming!Tick
      <3>3. Naming!Backlog \in SUBSET Site
        BY DEF Naming!Backlog, NamingTypes
      <3> QED BY <2>2, <3>1, <3>2, <3>3, LookUpKeeps
    <2> QED BY <2>3, <2>4, <2>5
  <1>5. CASE \E t \in Naming!Timer : Naming!Proceeds(t)
    <2>1. PICK t \in Naming!Timer : Naming!Proceeds(t)
      BY <1>5
    <2>2. UNCHANGED <<placed, address, phase, Naming!page, Naming!wire, breaks>> /\ fill[t].phase = "gap"
      BY <2>1 DEF Naming!Proceeds
    <2>3. t \in Filling /\ \A s \in Filling : s = t /\ fill[s].phase # "lookup"
      BY <2>2 DEF Filling, OneRuns
    <2>4. CASE fill[t].todo = {}
      <3> QED BY <2>1, <2>2, <2>3, <2>4, EndKeeps DEF Naming!Proceeds
    <2>5. CASE fill[t].todo # {}
      <3>1. running' = running /\ \E n \in fill[t].todo : Naming!LooksUp(t, n, fill[t].todo)
        BY <2>1, <2>5 DEF Naming!Proceeds
      <3>2. fill[t].todo \in SUBSET Site
        BY DEF NamingTypes, Naming!Fill
      <3>3. running' /\ running' \in BOOLEAN
        BY <2>3, <3>1 DEF OneRuns, NamingTypes
      <3> QED BY <2>2, <2>3, <3>1, <3>2, <3>3, LookUpKeeps
    <2> QED BY <2>4, <2>5
  <1>6. CASE \E i \in Lookup, n \in Site : Naming!Ask(i, n)
    <2>1. PICK i \in Lookup, n \in Site : Naming!Ask(i, n)
      BY <1>6
    <2>2. UNCHANGED <<placed, address, queue, phase, running, fill, open, down, breaks>>
      BY <2>1 DEF Naming!Ask, Naming!server
    <2>3. lookup' = [lookup EXCEPT ![i] = [num |-> n, state |-> "waiting"]] /\ lookup[i].state = "new"
      BY <2>1 DEF Naming!Ask
    <2>4. /\ lookup' \in [Lookup -> [num : Site \cup {Null},
                                     state : {"new", "waiting", "answered", "null"}]]
          /\ lookup'[i].state = "waiting" /\ \A j \in Lookup \ {i} : lookup'[j] = lookup[j]
      BY <2>3 DEF NamingTypes
    <2>5. resolver' \in [Site -> Lookup \cup {Null}] /\ timers' \in Seq(Lookup)
      BY <2>1 DEF Naming!Ask, NamingTypes
    <2>6. up' \in Seq(Site) /\ Len(up') = Len(up) + 1
      BY <2>1, AppendProperties DEF Naming!Ask, NamingTypes
    <2>7. NamingTypes'
      BY <2>2, <2>4, <2>5, <2>6 DEF NamingTypes
    <2>8. OneRuns' /\ OneJob' /\ Share' = Share
      BY <2>2 DEF OneRuns, OneJob, Filling, Share
    <2>9. LookedUp' = LookedUp \cup {i} /\ i \notin LookedUp
      BY <2>3, <2>4 DEF LookedUp
    <2>10. Cardinality(LookedUp') = Cardinality(LookedUp) + 1
      BY <2>9, AskedFinite, FS_AddElement
    <2>11. Share \in Nat
      BY DEF Share
    <2>12. QueueBounded'
      BY <1>l, <2>2, <2>6, <2>8, <2>10, <2>11, AskedFinite DEF QueueBounded
    <2> QED BY <2>7, <2>8, <2>12
  <1>7. CASE Naming!Deliver
    <2>1. UNCHANGED <<placed, address, queue, phase, running, fill, timers, open, up, breaks>>
      BY <1>7 DEF Naming!Deliver, Naming!server
    <2>2. Head(down) \in Naming!Result /\ down' \in Seq(Naming!Result)
      BY <1>7, HeadTailProperties DEF Naming!Deliver, NamingTypes
    <2> DEFINE n == Head(down).num
    <2>3. n \in Site /\ resolver[n] \in Lookup \cup {Null}
      BY <2>2 DEF Naming!Result, NamingTypes
    <2>4. resolver' \in [Site -> Lookup \cup {Null}]
      BY <1>7, <2>3 DEF Naming!Deliver, NamingTypes
    <2>5. \/ lookup' = lookup
          \/ \E i \in Lookup, s \in {"null", "answered"} : lookup' = Naming!Settled(i, s)
      BY <1>7, <2>3 DEF Naming!Deliver
    <2>6. /\ lookup' \in [Lookup -> [num : Site \cup {Null},
                                     state : {"new", "waiting", "answered", "null"}]]
          /\ LookedUp' = LookedUp
      BY <2>5 DEF Naming!Settled, Naming!Waits, NamingTypes, LookedUp
    <2>7. NamingTypes'
      BY <2>1, <2>2, <2>4, <2>6 DEF NamingTypes
    <2>8. OneRuns' /\ OneJob' /\ Share' = Share
      BY <2>1 DEF OneRuns, OneJob, Filling, Share
    <2>9. QueueBounded'
      BY <2>1, <2>6, <2>8 DEF QueueBounded
    <2> QED BY <2>7, <2>8, <2>9
  <1>8. CASE Naming!TimeOut
    <2>1. UNCHANGED <<placed, address, queue, phase, running, fill, open, up, down, breaks>>
      BY <1>8 DEF Naming!TimeOut, Naming!server, Naming!wire
    <2>2. Head(timers) \in Lookup /\ timers' \in Seq(Lookup)
      BY <1>8, HeadTailProperties DEF Naming!TimeOut, NamingTypes
    <2>4. resolver' \in [Site -> Lookup \cup {Null}]
      BY <1>8 DEF Naming!TimeOut, NamingTypes
    <2>5. \/ lookup' = lookup
          \/ \E i \in Lookup, s \in {"null", "answered"} : lookup' = Naming!Settled(i, s)
      BY <1>8, <2>2 DEF Naming!TimeOut
    <2>6. /\ lookup' \in [Lookup -> [num : Site \cup {Null},
                                     state : {"new", "waiting", "answered", "null"}]]
          /\ LookedUp' = LookedUp
      BY <2>5 DEF Naming!Settled, Naming!Waits, NamingTypes, LookedUp
    <2>7. NamingTypes'
      BY <2>1, <2>2, <2>4, <2>6 DEF NamingTypes
    <2>8. OneRuns' /\ OneJob' /\ Share' = Share
      BY <2>1 DEF OneRuns, OneJob, Filling, Share
    <2>9. QueueBounded'
      BY <2>1, <2>6, <2>8 DEF QueueBounded
    <2> QED BY <2>7, <2>8, <2>9
  <1>9. CASE Naming!SocketBreaks
    <2>1. /\ queue' = Naming!Abandoned /\ open' = FALSE /\ up' = <<>> /\ down' = <<>>
          /\ breaks' = breaks + 1 /\ breaks < MaxBreaks
          /\ UNCHANGED <<placed, address, phase, running, fill, Naming!page>>
      BY <1>9 DEF Naming!SocketBreaks, Naming!Cut
    <2>2. \A k \in DOMAIN queue : queue[k] \in Naming!Job
      BY DEF NamingTypes
    <2>3. \A k \in DOMAIN queue :
            /\ queue'[k] \in Naming!Job
            /\ queue'[k].asker \in Naming!Timer <=> queue[k].asker \in Naming!Timer
            /\ queue'[k].asker \in Naming!Timer => queue'[k] = queue[k]
      BY <2>1, <2>2 DEF Naming!Abandoned, Naming!Job, Naming!Timer
    <2>4. DOMAIN queue' = DOMAIN queue /\ queue' \in Seq(Naming!Job) /\ Len(queue') = Len(queue)
      <3>1. DOMAIN queue = 1 .. Len(queue)
        BY LenProperties DEF NamingTypes
      <3>2. queue' \in [1 .. Len(queue) -> Naming!Job]
        BY <2>1, <2>3, <3>1 DEF Naming!Abandoned
      <3>3. queue' \in Seq(Naming!Job)
        BY <1>l, <3>2, SeqDef
      <3> QED BY <1>l, <3>1, <3>2, <3>3, LenProperties
    <2>f. breaks' \in 0 .. MaxBreaks
      BY <2>1, ApartAssumption DEF NamingTypes
    <2>s. up' \in Seq(Site) /\ down' \in Seq(Naming!Result)
      BY <2>1
    <2>5. NamingTypes'
      BY <2>1, <2>4, <2>f, <2>s DEF NamingTypes, Naming!page
    <2>6. OneRuns' /\ Share' = Share /\ LookedUp' = LookedUp
      BY <2>1 DEF OneRuns, Filling, Share, LookedUp, Naming!page
    <2>7. OneJob'
      BY <2>1, <2>3, <2>4 DEF OneJob
    <2>8. up' \in Seq(Site) /\ Len(up') = 0
      BY <2>1
    <2>9. QueueBounded'
      BY <1>l, <2>4, <2>6, <2>8, SameRoom
    <2> QED BY <2>5, <2>6, <2>7, <2>9
  <1>10. CASE Naming!Restart
    <2>1. queue' = <<>> /\ phase' = "gap" /\ running' = FALSE /\ fill' = Naming!Resting
          /\ open' = FALSE /\ up' = <<>> /\ down' = <<>>
          /\ breaks' = breaks + 1 /\ breaks < MaxBreaks
          /\ UNCHANGED <<placed, address, Naming!page>>
      BY <1>10 DEF Naming!Restart, Naming!Cut
    <2>2. /\ Naming!Resting \in [Naming!Timer -> Naming!Fill]
          /\ \A t \in Naming!Timer : Naming!Resting[t].phase = "off"
      BY DEF Naming!Resting, Naming!Fill
    <2>3. /\ queue' \in Seq(Naming!Job) /\ up' \in Seq(Site) /\ down' \in Seq(Naming!Result)
          /\ Len(queue') = 0 /\ Len(up') = 0
      BY <2>1
    <2>f. breaks' \in 0 .. MaxBreaks
      BY <2>1, ApartAssumption DEF NamingTypes
    <2>4. NamingTypes'
      BY <2>1, <2>2, <2>3, <2>f DEF NamingTypes, Naming!page
    <2>5. Filling' = {} /\ Share' = 0 /\ LookedUp' = LookedUp
      BY <2>1, <2>2 DEF Filling, Share, LookedUp, Naming!page
    <2>6. OneRuns'
      BY <2>5 DEF OneRuns
    <2>7. OneJob'
      BY <2>1 DEF OneJob
    <2>8. QueueBounded'
      BY <2>3, <2>5, AskedFinite DEF QueueBounded
    <2> QED BY <2>4, <2>6, <2>7, <2>8
  <1> QED
    BY <1>1, <1>2, <1>3, <1>4, <1>5, <1>6, <1>7, <1>8, <1>9, <1>10 DEF Naming!Next

-----------------------------------------------------------------------------
(* AutoPurge.  Both of its properties rest on Ledger: a purge has ended     *)
(* well today exactly if the stored day is today, so the timer, which looks *)
(* at nothing else, knows; and a tick that saw the minute began one or      *)
(* found one ended.                                                         *)

Ledger ==
  /\ ended # Null <=> lastRun = day
  /\ seen => begun > 0 \/ ended # Null

(* The conjuncts of TypeOK, by what they are about.                         *)
AskedOn ==
  \A k \in Purge!Slot :
    asks[k] = Purge!Free \/ (asks[k].by \in Purge!By /\ asks[k].day \in 1 .. day)
Dated == day \in Purge!Day /\ minute \in Purge!Minute /\ ticked \in BOOLEAN
Told  == calm \in BOOLEAN /\ seen \in BOOLEAN /\ begun \in Nat /\ ended \in Purge!Day \cup {Null}
Ran   == lastRun \in Purge!Day \cup {Null} /\ (lastRun # Null => lastRun <= day)
Kept  == settings \in Purge!Setting /\ faults \in 0 .. MaxFails

LEMMA PurgeParts == Purge!TypeOK <=> AskedOn /\ Dated /\ Told /\ Ran /\ Kept
  BY DEF Purge!TypeOK, AskedOn, Dated, Told, Ran, Kept

PurgeInv == AskedOn /\ Dated /\ Told /\ Ran /\ Kept /\ Ledger

LEMMA PurgeInit == Purge!Init => PurgeInv
  <1> SUFFICES ASSUME Purge!Init PROVE PurgeInv
    OBVIOUS
  <1> USE ApartAssumption DEF Purge!Init
  <1>1. AskedOn
    BY DEF AskedOn
  <1>2. Dated /\ Told
    <2>1. day \in Purge!Day /\ minute \in Purge!Minute
      BY DEF Purge!Day, Purge!Minute
    <2>2. ticked \in BOOLEAN /\ calm \in BOOLEAN /\ seen \in BOOLEAN
      OBVIOUS
    <2>3. begun \in Nat /\ ended = Null
      OBVIOUS
    <2> QED BY <2>1, <2>2, <2>3 DEF Dated, Told
  <1>3. Ran /\ Ledger
    BY DEF Ran, Ledger
  <1>4. Kept
    BY DEF Kept, Purge!Setting
  <1> QED BY <1>1, <1>2, <1>3, <1>4 DEF PurgeInv

(* One case for each action of the purge.  The timer begins a purge only on *)
(* a day without one.                                                       *)
LEMMA PurgeStep ==
  ASSUME PurgeInv, [Purge!Next]_purge
  PROVE  PurgeInv' /\ (begun' > begun => ended = Null)
  <1> USE ApartAssumption DEF PurgeInv, Purge!Day
  <1>1. CASE Purge!Later
    <2>1. AskedOn'
      BY <1>1 DEF Purge!Later, AskedOn, Dated
    <2>2. Dated'
      <3>1. day' \in Purge!Day
        BY <1>1 DEF Purge!Later, Dated
      <3>2. minute' \in Purge!Minute
        BY <1>1 DEF Purge!Later, Dated, Purge!Minute
      <3>3. ticked' = FALSE
        BY <1>1 DEF Purge!Later
      <3> QED BY <3>1, <3>2, <3>3 DEF Dated
    <2>3. Told' /\ ~(begun' > begun)
      <3>1. CASE UNCHANGED Purge!told
        BY <3>1 DEF Told, Purge!told
      <3>2. CASE calm' = TRUE /\ seen' = FALSE /\ begun' = 0 /\ ended' = Null
        <4>1. calm' \in BOOLEAN /\ seen' \in BOOLEAN
          BY <3>2
        <4>2. begun' \in Nat /\ ended' \in Purge!Day \cup {Null} /\ ~(begun' > begun)
          BY <3>2 DEF Told
        <4> QED BY <4>1, <4>2 DEF Told
      <3> QED BY <1>1, <3>1, <3>2 DEF Purge!Later
    <2>4. Ran' /\ Ledger'
      BY <1>1 DEF Purge!Later, Ran, Ledger, Purge!told, Dated, Told
    <2>5. Kept'
      BY <1>1 DEF Purge!Later, Kept
    <2> QED BY <2>1, <2>2, <2>3, <2>4, <2>5
  <1>2. CASE Purge!Tick
    <2>1. CASE Purge!Due /\ ~Purge!HasRun
      <3>1. PICK k \in Purge!Slot : 
              /\ asks[k] = Purge!Free
              /\ asks' = [asks EXCEPT ![k] = [by |-> "timer", day |-> day]]
        BY <1>2, <2>1 DEF Purge!Tick
      <3>2. AskedOn'
        BY <1>2, <3>1 DEF Purge!Tick, AskedOn, Dated, Purge!By
      <3> QED BY <1>2, <2>1, <3>2 DEF Purge!Tick, Purge!HasRun, Dated, Told, Ran, Kept, Ledger
    <2>2. CASE ~(Purge!Due /\ ~Purge!HasRun)
      <3>1. Dated' /\ Told' /\ Ran' /\ Kept' /\ AskedOn' /\ begun' = begun
        BY <1>2, <2>2 DEF Purge!Tick, Dated, Told, Ran, Kept, AskedOn
      <3>2. Ledger'
        BY <1>2, <2>2 DEF Purge!Tick, Purge!HasRun, Ledger, Told
      <3> QED BY <3>1, <3>2 DEF Told
    <2> QED BY <2>1, <2>2
  <1>3. ASSUME NEW k \in Purge!Slot, Purge!PurgeNow(k) PROVE PurgeInv' /\ begun' = begun
    BY <1>3 DEF Purge!PurgeNow, Purge!clock, Purge!told, Purge!By,
              AskedOn, Dated, Told, Ran, Kept, Ledger
  <1>4. ASSUME NEW k \in Purge!Slot, Purge!Done(k) PROVE PurgeInv' /\ begun' = begun
    BY <1>4 DEF Purge!Done, Purge!clock, AskedOn, Dated, Told, Ran, Kept, Ledger
  <1>5. ASSUME NEW k \in Purge!Slot, Purge!Failed(k) PROVE PurgeInv' /\ begun' = begun
    BY <1>5 DEF Purge!Failed, Purge!clock, Purge!told,
              AskedOn, Dated, Told, Ran, Kept, Ledger
  <1>6. ASSUME NEW new \in Purge!Setting, Purge!PutSettings(new) PROVE PurgeInv' /\ begun' = begun
    <2>1. AskedOn' /\ Dated' /\ Ran' /\ Ledger' /\ begun' = begun
      BY <1>6 DEF Purge!PutSettings, Purge!clock, AskedOn, Dated, Ran, Ledger
    <2>2. Told'
      BY <1>6 DEF Purge!PutSettings, Told
    <2>3. Kept'
      BY <1>6 DEF Purge!PutSettings, Kept
    <2> QED BY <2>1, <2>2, <2>3
  <1>7. CASE Purge!Restart
    <2>1. AskedOn'
      BY <1>7 DEF Purge!Restart, AskedOn
    <2>2. Dated' /\ Told' /\ begun' = begun
      BY <1>7 DEF Purge!Restart, Dated, Told
    <2>3. Ran' /\ Ledger'
      BY <1>7 DEF Purge!Restart, Ran, Ledger
    <2>4. Kept'
      BY <1>7 DEF Purge!Restart, Kept
    <2> QED BY <2>1, <2>2, <2>3, <2>4 DEF Told
  <1>8. CASE Purge!StepBack
    <2>1. Dated'
      <3>1. day' = day /\ minute' \in Purge!Minute /\ ticked' = FALSE
        BY <1>8 DEF Purge!StepBack, Dated, Purge!Minute
      <3> QED BY <3>1 DEF Dated
    <2>2. AskedOn' /\ Ran' /\ Ledger' /\ Told' /\ begun' = begun
      BY <1>8 DEF Purge!StepBack, Purge!told, AskedOn, Told, Ran, Ledger
    <2>3. Kept'
      BY <1>8 DEF Purge!StepBack, Kept
    <2> QED BY <2>1, <2>2, <2>3 DEF Told
  <1>9. CASE UNCHANGED purge
    BY <1>9 DEF purge, Purge!clock, Purge!told, AskedOn, Dated, Told, Ran, Kept, Ledger
  <1> QED BY <1>1, <1>2, <1>3, <1>4, <1>5, <1>6, <1>7, <1>8, <1>9 DEF Purge!Next, Told

-----------------------------------------------------------------------------
(* Apart: a step of one component is a step or a stutter of each.           *)

LEMMA ApartStep ==
  ASSUME [ApartNext]_apartVars
  PROVE  [Tracker!Next]_tracker /\ [Naming!Next]_naming /\ [Purge!Next]_purge
  BY DEF ApartNext, apartVars

(* The strengthening of the tracker holds throughout, the order of the      *)
(* stamps in it (active-tracker.js, buildSchedule() and pointAt()).         *)
THEOREM TrackerHolds == ApartSpec => []TrackerInv
  <1>1. ApartInit => TrackerInv
    BY TrackerInit DEF ApartInit
  <1>2. TrackerInv /\ [ApartNext]_apartVars => TrackerInv'
    BY ApartStep, TrackerStep
  <1> QED BY <1>1, <1>2, PTL DEF ApartSpec

(* The strengthening of the names: one backfill at most is at work, with    *)
(* one job at most, and the jobs are accounted for (geocode.js, the chain   *)
(* _geocodeQueue and the flag _backfillRunning).                            *)
THEOREM NamingHolds == ApartSpec => []NamingInv
  <1>1. ApartInit => NamingInv
    BY NamingInit DEF ApartInit
  <1>2. NamingInv /\ [ApartNext]_apartVars => NamingInv'
    BY ApartStep, NamingStep
  <1> QED BY <1>1, <1>2, PTL DEF ApartSpec

(* The strengthening of the purge: the stored day tells what has ended      *)
(* (auto-purge-api.js, auto_purge_last_run_ts_).                            *)
THEOREM PurgeHolds == ApartSpec => []PurgeInv
  <1>1. ApartInit => PurgeInv
    BY PurgeInit DEF ApartInit
  <1>2. PurgeInv /\ [ApartNext]_apartVars => PurgeInv'
    BY ApartStep, PurgeStep
  <1> QED BY <1>1, <1>2, PTL DEF ApartSpec

(* Every variable of the three keeps to its values: no restart, broken      *)
(* socket, lost timer or step of the clock makes the chain of look-ups      *)
(* longer than what was asked, or stores a purge ahead of its day.          *)
THEOREM TypesKept == ApartSpec => []ApartTypeOK
  <1>1. TrackerInv /\ NamingInv /\ PurgeInv => ApartTypeOK
    BY QueueFits, PurgeParts DEF TrackerInv, PurgeInv, ApartTypeOK
  <1> QED BY <1>1, TrackerHolds, NamingHolds, PurgeHolds, PTL

(* While a node waits for the beam no other has two turns, on any radar and *)
(* whatever mode changes, lost timers and restarts do (buildSchedule()).    *)
THEOREM TurnsAreFair == ApartSpec => []NobodyTwiceBefore
  <1>1. TrackerInv => NobodyTwiceBefore
    BY TrackerGives DEF NobodyTwiceBefore
  <1> QED BY <1>1, TrackerHolds, PTL

(* A day on which a tick of the timer fell into the minute has a purge      *)
(* (auto-purge-api.js, the scheduler's callback).                           *)
THEOREM DayKept == ApartSpec => []NoDayForgotten
  <1>1. PurgeInv => NoDayForgotten
    BY DEF PurgeInv, Ledger, NoDayForgotten, Purge!NoDayForgotten
  <1> QED BY <1>1, PurgeHolds, PTL

(* The timer begins no purge on a day on which one has ended well, of the   *)
(* timer or by hand, whatever settings, restarts and clock do.              *)
THEOREM PurgedOnce == ApartSpec => OncePerDay
  <1>1. PurgeInv /\ [ApartNext]_apartVars => [begun' > begun => ended = Null]_(Purge!vars)
    BY ApartStep, PurgeStep
  <1> QED BY <1>1, PurgeHolds, PTL DEF ApartSpec, OncePerDay, Purge!OncePerDay

(* "leaving room between items lets an interactive lookup slot in"          *)
(* (geocode.js:50): a person who asks waits behind one job of the backfill. *)
THEOREM BackfillWaits == ApartSpec => []Naming!BackfillYields
  <1>1. NamingInv => Naming!BackfillYields
    <2> SUFFICES ASSUME NamingInv PROVE Naming!BackfillYields
      OBVIOUS
    <2> DEFINE J == {k \in DOMAIN queue : queue[k].asker \in Naming!Timer}
    <2>1. \A k, l \in J : k = l
      BY DEF NamingInv, OneJob
    <2>2. CASE J = {}
      <3>1. Cardinality(J) = 0
        BY <2>2, FS_EmptySet
      <3> QED BY <3>1 DEF Naming!BackfillYields, Naming!Cardinality, Cardinality
    <2>3. CASE J # {}
      <3>1. PICK k \in J : J = {k}
        BY <2>1, <2>3
      <3>2. Cardinality(J) = 1
        BY <3>1, FS_Singleton
      <3> QED BY <3>2 DEF Naming!BackfillYields, Naming!Cardinality, Cardinality
    <2> QED BY <2>2, <2>3
  <1> QED BY <1>1, NamingHolds, PTL

-----------------------------------------------------------------------------
(* Doors.  What makes a door of a node is kept for ever, and what is held   *)
(* of it is never more than that: the held set goes stale on the safe side  *)
(* only, and what was published of it is a part of it still.                *)

DoorsInv ==
  /\ DOMAIN cache = {"current", "clusters"}
  /\ doors \subseteq carried
  /\ \A n \in Node : kinds[n] = "door" => n \in doors
  /\ \A c \in cache.clusters : c.inside \subseteq doors
  /\ cache.current => {c.anchor : c \in cache.clusters} = anchors

(* A listed door stays one as long as it is listed.                         *)
Lasts == \A n \in Node : kinds[n] = "door" => kinds'[n] \in {"door", "unlisted"}

(* What clusters() derives: every anchor, with doors of the set it is given.*)
LEMMA DerivedShape ==
  ASSUME NEW d
  PROVE  /\ \A c \in Derived(d) : c.inside \subseteq d
         /\ {c.anchor : c \in Derived(d)} = anchors
  <1> DEFINE C(a) == [anchor |-> a, members |-> {n \in Candidates : Joins(n, a)},
                      inside |-> {n \in Candidates : Joins(n, a) /\ n \in d}]
  <1>1. Derived(d) = {C(a) : a \in anchors}
    BY DEF Derived
  <1>2. \A a : C(a).anchor = a /\ C(a).inside \subseteq d
    OBVIOUS
  <1> HIDE DEF C
  <1> QED BY <1>1, <1>2

LEMMA KindGiven ==
  ASSUME NEW n, NEW d, NEW r
  PROVE  KindOf(n, d, r) = "door" <=> n \in d
  BY DEF KindOf

(* Reading the set of doors, from the cache or the database, loses none.    *)
LEMMA DoorsGrow ==
  ASSUME DoorsInv, doors' \in Reads(doors, carried), carried' = carried
  PROVE  doors \subseteq doors' /\ doors' \subseteq carried
  BY DEF Reads, DoorsInv

LEMMA DoorsInvInit == DoorsInit => DoorsInv
  BY DEF DoorsInit, DoorsInv

LEMMA ListStep ==
  ASSUME DoorsInv, NEW nodes, NEW relaying, ListNodes(nodes, relaying)
  PROVE  DoorsInv' /\ Lasts
  <1>1. /\ doors \subseteq doors' /\ doors' \subseteq carried
        /\ UNCHANGED <<carried, row, anchors, cache>>
    BY DoorsGrow DEF ListNodes
  <1>2. \A n \in Node : kinds'[n] =
           IF n \in nodes THEN KindOf(n, doors', roles' \cup relaying) ELSE "unlisted"
    BY DEF ListNodes
  <1>3. \A n \in Node : kinds'[n] = "door" => n \in doors'
    BY <1>2, KindGiven
  <1>4. \A n \in Node : n \in doors' => kinds'[n] \in {"door", "unlisted"}
    BY <1>2, KindGiven
  <1> QED BY <1>1, <1>3, <1>4 DEF DoorsInv, Lasts

LEMMA ClustersStep ==
  ASSUME DoorsInv, ListClusters
  PROVE  DoorsInv'
  <1>1. /\ doors \subseteq doors' /\ doors' \subseteq carried
        /\ UNCHANGED <<carried, row, roles, kinds, anchors>>
    BY DoorsGrow DEF ListClusters, DoorsInv
  <1>2. /\ cache'.clusters = Derived(doors') /\ cache'.current = TRUE
        /\ DOMAIN cache' = {"current", "clusters"}
    BY DEF ListClusters
  <1>3. /\ \A c \in cache'.clusters : c.inside \subseteq doors'
        /\ {c.anchor : c \in cache'.clusters} = anchors'
    BY <1>1, <1>2, DerivedShape
  <1> QED BY <1>1, <1>2, <1>3 DEF DoorsInv

LEMMA EditStep ==
  ASSUME DoorsInv, NEW A, Edited(A)
  PROVE  DoorsInv' /\ kinds' = kinds
  <1>1. cache'.clusters = cache.clusters /\ ~cache'.current /\ DOMAIN cache' = DOMAIN cache
    BY DEF Edited, Dropped, DoorsInv
  <1> QED BY <1>1 DEF Edited, DoorsInv

(* One case for each action of DoorsNext.                                   *)
LEMMA DoorsStep ==
  ASSUME DoorsInv, [DoorsNext]_doorVars
  PROVE  DoorsInv' /\ Lasts
  <1> USE DEF Lasts
  <1>1. ASSUME NEW hop \in Node \cup {Unnamed}, TraceAnswered(hop)
        PROVE  DoorsInv' /\ kinds' = kinds
    BY <1>1 DEF TraceAnswered, DoorsInv
  <1>2. ASSUME NEW n \in Node, NodeFallsSilent(n) \/ \E onMap \in BOOLEAN : NodeHeard(n, onMap)
        PROVE  DoorsInv' /\ kinds' = kinds
    BY <1>2 DEF NodeFallsSilent, NodeHeard, DoorsInv
  <1>3. CASE ClearNodes
    BY <1>3 DEF ClearNodes, DoorsInv
  <1>4. CASE ClustersAge
    <2>1. /\ cache'.clusters = cache.clusters /\ ~cache'.current
          /\ DOMAIN cache' = DOMAIN cache /\ kinds' = kinds
      BY <1>4 DEF ClustersAge, Dropped, DoorsInv
    <2> QED BY <1>4, <2>1 DEF ClustersAge, DoorsInv
  <1>5. CASE DoorsRestart
    BY <1>5 DEF DoorsRestart, DoorsInv
  <1>6. CASE SeedClusters \/ \E a \in anchors : DeleteAnchor(a)
    BY <1>6, EditStep DEF SeedClusters, DeleteAnchor
  <1>7. ASSUME NEW at \in Spot, NEW radius \in Radii,
               CreateAnchor(at, radius) \/ \E a \in anchors : UpdateAnchor(a, at, radius)
        PROVE  DoorsInv' /\ kinds' = kinds
    BY <1>7, EditStep DEF CreateAnchor, UpdateAnchor
  <1>8. CASE ListClusters
    BY <1>8, ClustersStep DEF ListClusters
  <1>9. CASE UNCHANGED doorVars
    BY <1>9 DEF doorVars, DoorsInv
  <1> QED BY <1>1, <1>2, <1>3, <1>4, <1>5, <1>6, <1>7, <1>8, <1>9, ListStep DEF DoorsNext

(* Nothing is called a door, in a node list or a cluster, that was not the  *)
(* first hop of an answered route, however old the caches it comes from     *)
(* (node-kind.js, clusters.js).                                             *)
THEOREM DoorsProven == DoorsSpec => []DoorsAreProven
  <1>1. DoorsInv => DoorsAreProven
    BY DEF DoorsInv, DoorsAreProven
  <1>2. DoorsInv /\ [DoorsNext]_doorVars => DoorsInv'
    BY DoorsStep
  <1> QED BY <1>1, <1>2, DoorsInvInit, PTL DEF DoorsSpec

(* A cluster answer that still counts as current shows the anchors as they  *)
(* are: no edit leaves it standing (clusters.js).                           *)
THEOREM AnchorsCurrent == DoorsSpec => []AnchorsAreCurrent
  <1>1. DoorsInv => AnchorsAreCurrent
    BY DEF DoorsInv, AnchorsAreCurrent
  <1>2. DoorsInv /\ [DoorsNext]_doorVars => DoorsInv'
    BY DoorsStep
  <1> QED BY <1>1, <1>2, DoorsInvInit, PTL DEF DoorsSpec

(* A listed door is never listed as anything less later, whichever query    *)
(* failed: the set that is held only grows (node-kind.js).                  *)
THEOREM DoorsStay == DoorsSpec => DoorStaysADoor
  <1>1. DoorsInv /\ [DoorsNext]_doorVars 
        => /\ DoorsInv'
           /\ [\A n \in Node : kinds[n] = "door" => kinds'[n] \in {"door", "unlisted"}]_doorVars
    BY DoorsStep DEF Lasts
  <1> QED BY <1>1, DoorsInvInit, PTL DEF DoorsSpec, DoorStaysADoor
=============================================================================
