--------------------------- MODULE NodeListProofs ---------------------------
(***************************************************************************)
(* The list of nodes, for any nodes, radios, times and number of reports:  *)
(* what a sweep lists and stores, where attribution comes from, and what   *)
(* no step may forget, set back or leave unannounced.                      *)
(***************************************************************************)
EXTENDS NodeList, TLAPS

Slot == Entry \cup {None}

-----------------------------------------------------------------------------
(* What the operators on entries return.                                    *)

LEMMA KnownFacts ==
  ASSUME NEW e \in Slot
  PROVE  /\ Known(e) \in Entry
         /\ e # None => Known(e) = e
         /\ e = None => Known(e) = Blank
  BY BoundAssumption DEF Known, Slot, Blank, Entry, Heard

LEMMA RefreshedFacts ==
  ASSUME NEW e \in Entry, NEW t \in Heard
  PROVE  /\ Refreshed(e, t) \in Entry
         /\ Refreshed(e, t).devices = e.devices
         /\ Refreshed(e, t).contact = e.contact
         /\ Refreshed(e, t).heard = IF t # 0 THEN t ELSE e.heard
  BY DEF Refreshed, Entry

LEMMA AttributedFacts ==
  ASSUME NEW e \in Entry, NEW r \in Radio
  PROVE  /\ Attributed(e, r) \in Entry
         /\ Attributed(e, r).devices = e.devices \cup {r}
         /\ Attributed(e, r).contact = e.contact
         /\ Attributed(e, r).heard = e.heard
  BY DEF Attributed, Entry

LEMMA ContactFacts ==
  ASSUME NEW e \in Entry
  PROVE  /\ Contact(e) \in Entry
         /\ Contact(e).devices = e.devices \cup {Rotator}
         /\ Contact(e).contact
         /\ Contact(e).heard = e.heard
  <1>1. Attributed(e, Rotator) \in Entry
        /\ Attributed(e, Rotator).devices = e.devices \cup {Rotator}
        /\ Attributed(e, Rotator).heard = e.heard
    BY AttributedFacts, RadioAssumption
  <1> QED BY <1>1 DEF Contact, Entry

LEMMA TouchedFacts ==
  ASSUME NEW e \in Slot, NEW r \in Radio, NEW t \in Heard
  PROVE  /\ Touched(e, r, t) \in Entry
         /\ Touched(e, r, t).devices = Known(e).devices \cup {r}
         /\ Touched(e, r, t).heard >= Known(e).heard
  <1>1. Known(e) \in Entry
    BY KnownFacts
  <1>2. /\ Attributed(Known(e), r) \in Entry
        /\ Attributed(Known(e), r).devices = Known(e).devices \cup {r}
        /\ Attributed(Known(e), r).heard = Known(e).heard
    BY <1>1, AttributedFacts
  <1>3. /\ Known(e).heard \in Heard
        /\ Latest(Known(e).heard, t) \in Heard
        /\ Latest(Known(e).heard, t) >= Known(e).heard
    BY <1>1, BoundAssumption DEF Entry, Heard, Latest
  <1>4. Touched(e, r, t) =
          [Attributed(Known(e), r) EXCEPT !.heard = Latest(Attributed(Known(e), r).heard, t)]
    BY DEF Touched
  <1> QED BY <1>2, <1>3, <1>4 DEF Entry

LEMMA OverlaidFacts ==
  ASSUME NEW before \in Slot, NEW e \in Slot
  PROVE  /\ Overlaid(before, e) \in Slot
         /\ before # None \/ e # None => Overlaid(before, e) # None
         /\ Overlaid(before, e) # None =>
              Overlaid(before, e).devices \in {before.devices, e.devices}
         /\ e = None => Overlaid(before, e) = before
         /\ e # None => Overlaid(before, e).devices = e.devices
  <1>1. CASE e = None \/ before = None
    BY <1>1 DEF Overlaid, Slot
  <1>2. CASE e # None /\ before # None
    <2>1. e \in Entry /\ before \in Entry
      BY <1>2 DEF Slot
    <2>2. Overlaid(before, e) = [e EXCEPT !.heard = IF e.heard # 0 THEN e.heard ELSE before.heard]
      BY <1>2 DEF Overlaid
    <2>3. Overlaid(before, e) \in Entry /\ Overlaid(before, e).devices = e.devices
      BY <2>1, <2>2 DEF Entry
    <2> QED BY <2>1, <2>3, <1>2, NoneAssumption DEF Slot
  <1> QED BY <1>1, <1>2

LEMMA RowFacts ==
  ASSUME rows \in [Node -> Row \cup {None}], NEW n \in Node
  PROVE  RowOf(n) \in Row
  BY BoundAssumption DEF RowOf, Row, Heard

LEMMA RestoredFacts ==
  ASSUME rows \in [Node -> Row \cup {None}], NEW n \in Node, NEW e \in Slot
  PROVE  /\ Restored(e, n) \in Slot
         /\ Restored(e, n) = None <=> e = None
         /\ e # None =>
              /\ Restored(e, n).contact = e.contact
              /\ e.devices \subseteq Restored(e, n).devices
              /\ Restored(e, n).devices \subseteq
                   e.devices \cup (IF rows[n] = None THEN {} ELSE {rows[n].device} \ {None})
  <1>1. CASE e = None \/ rows[n] = None
    BY <1>1 DEF Restored
  <1>2. CASE e # None /\ rows[n] # None
    <2>1. e \in Entry /\ rows[n] \in Row
      BY <1>2 DEF Slot
    <2>2. CASE rows[n].device = None
      BY <1>2, <2>2 DEF Restored
    <2>3. CASE rows[n].device # None
      <3>1. rows[n].device \in Radio
        BY <2>1, <2>3 DEF Row
      <3>2. Restored(e, n) = Attributed(e, rows[n].device)
        BY <1>2, <2>3 DEF Restored
      <3> QED BY <1>2, <2>1, <2>3, <3>1, <3>2, AttributedFacts, NoneAssumption DEF Slot
    <2> QED BY <2>2, <2>3
  <1> QED BY <1>1, <1>2

LEMMA HydrateFacts ==
  ASSUME rows \in [Node -> Row \cup {None}], NEW since \in Heard
  PROVE  /\ HydrateFromStore(since) \in [Node -> Slot]
         /\ \A n \in Node : HydrateFromStore(since)[n] # None =>
              /\ rows[n] # None
              /\ HydrateFromStore(since)[n].devices = {rows[n].device} \ {None}
  <1>1. ASSUME NEW n \in Node, rows[n] # None
        PROVE  /\ Hydrated(rows[n]) \in Entry
               /\ Hydrated(rows[n]).devices = {rows[n].device} \ {None}
    BY <1>1 DEF Hydrated, Entry, Row
  <1> QED BY <1>1 DEF HydrateFromStore, Slot

-----------------------------------------------------------------------------
(* The invariant is inductive.                                              *)

List == [Node -> Slot]

LEMMA Types ==
  ASSUME TypeOK
  PROVE  /\ cache \in List /\ pending \in List /\ preScan \in List
         /\ scanNodes \in List /\ Empty \in List
         /\ rows \in [Node -> Row \cup {None}]
         /\ scanActive \in BOOLEAN
  BY DEF TypeOK, List, Slot, Empty

(* What a confirmed contact leaves behind.                                  *)
LEMMA ConfirmFacts ==
  ASSUME IInv, scanActive, NEW n \in Node, Confirm(n)
  PROVE  /\ cache' \in List /\ pending' \in List /\ scanNodes' = cache'
         /\ \A m \in Node : cache'[m] # None =>
              /\ cache'[m].contact /\ pending'[m] = None
              /\ Rotator \in cache'[m].devices
         /\ \A m \in Node : cache[m] # None =>
              cache'[m] # None /\ cache'[m].heard = cache[m].heard
         /\ \A m \in Node : pending'[m] # None => pending'[m] = pending[m]
         /\ \A m \in Node : cache'[m] # None /\ cache'[m] # cache[m] =>
              /\ m = n
              /\ cache'[m].devices \subseteq
                   Known(pending[m]).devices \cup Known(cache[m]).devices \cup {Rotator}
  <1>1. /\ cache \in List /\ pending \in List
        /\ \A m \in Node : cache[m] # None =>
             cache[m].contact /\ pending[m] = None /\ Rotator \in cache[m].devices
    BY Types DEF IInv, SweepListsContacts, ContactsAreTheRotators
  <1>2. pending' = [pending EXCEPT ![n] = None] /\ scanNodes' = cache'
    BY DEF Confirm
  <1>3. pending' \in List
    BY <1>1, <1>2 DEF List, Slot
  <1>4. CASE cache' = cache /\ pending[n] = None
    BY <1>1, <1>2, <1>3, <1>4 DEF List
  <1>5. ASSUME NEW e \in Entry, cache' = [cache EXCEPT ![n] = Contact(e)],
               \/ e = pending[n] /\ pending[n] # None
               \/ e = Known(cache[n]) /\ pending[n] = None
        PROVE  /\ cache' \in List /\ pending' \in List /\ scanNodes' = cache'
               /\ \A m \in Node : cache'[m] # None =>
                    /\ cache'[m].contact /\ pending'[m] = None
                    /\ Rotator \in cache'[m].devices
               /\ \A m \in Node : cache[m] # None =>
                    cache'[m] # None /\ cache'[m].heard = cache[m].heard
               /\ \A m \in Node : pending'[m] # None => pending'[m] = pending[m]
               /\ \A m \in Node : cache'[m] # None /\ cache'[m] # cache[m] =>
                    /\ m = n
                    /\ cache'[m].devices \subseteq
                         Known(pending[m]).devices \cup Known(cache[m]).devices \cup {Rotator}
    <2>1. /\ Contact(e) \in Slot /\ Contact(e) # None /\ Contact(e).contact
          /\ Rotator \in Contact(e).devices
          /\ Contact(e).heard = e.heard
          /\ Contact(e).devices = e.devices \cup {Rotator}
      BY ContactFacts, NoneAssumption DEF Slot
    <2>2. cache[n] # None => e = cache[n]
      BY <1>1, <1>5, KnownFacts DEF List
    <2>3. e.devices \subseteq Known(pending[n]).devices \cup Known(cache[n]).devices
      BY <1>1, <1>5, KnownFacts DEF List
    <2> QED BY <1>1, <1>2, <1>3, <1>5, <2>1, <2>2, <2>3 DEF List
  <1> QED BY <1>1, <1>2, <1>4, <1>5, KnownFacts DEF Confirm, List, Slot

LEMMA InitInv ==
  Init => IInv
  <1> SUFFICES ASSUME Init PROVE IInv
    OBVIOUS
  <1>1. scanActive \in BOOLEAN /\ emitTimer \in BOOLEAN /\ ~scanActive
    BY DEF Init
  <1>2. Empty \in [Node -> Slot] /\ Empty \in [Node -> Row \cup {None}]
    BY DEF Empty, Slot
  <1>3. TypeOK
    BY <1>1, <1>2, BoundAssumption DEF Init, TypeOK, Slot
  <1> QED BY <1>1, <1>3 DEF Init, IInv, SweepListsContacts, ContactsAreTheRotators,
          ContactsSurviveRestart, Empty

LEMMA NodeUpdateInv ==
  ASSUME IInv, NEW n \in Node, NEW r \in Radio, NEW t \in Heard, NodeUpdate(n, r, t)
  PROVE  IInv'
  <1>1. /\ cache \in List /\ pending \in List /\ rows \in [Node -> Row \cup {None}]
        /\ Known(pending[n]) \in Entry
    BY Types, KnownFacts DEF IInv, List
  <1>2. rows' \in [Node -> Row \cup {None}]
    BY <1>1, RowFacts DEF NodeUpdate
  <1>3. /\ UNCHANGED <<scanActive, preScan, scanNodes, heardBy, restarts>>
        /\ reports' \in 0 .. MaxReports /\ seeds' \in 0 .. reports'
    BY BoundAssumption DEF NodeUpdate, Report, IInv, TypeOK
  <1>4. CASE /\ UNCHANGED <<cache, emitTimer>>
             /\ pending' \in List
             /\ \A m \in Node : cache[m] # None => pending'[m] = pending[m]
    BY <1>1, <1>2, <1>3, <1>4 DEF IInv, TypeOK, SweepListsContacts, ContactsAreTheRotators,
       ContactsSurviveRestart, List, Slot
  <1>5. CASE /\ cache[n] # None /\ cache' = [cache EXCEPT ![n] = Refreshed(@, t)]
             /\ emitTimer' = TRUE /\ UNCHANGED pending
    <2>1. /\ Refreshed(cache[n], t) \in Entry
          /\ Refreshed(cache[n], t).devices = cache[n].devices
          /\ Refreshed(cache[n], t).contact = cache[n].contact
      BY <1>1, <1>5, RefreshedFacts DEF List, Slot
    <2>2. cache' \in List
      BY <1>1, <1>5, <2>1 DEF List, Slot
    <2>3. \A m \in Node : cache'[m] # None =>
            /\ cache[m] # None
            /\ cache'[m].devices = cache[m].devices
            /\ cache'[m].contact = cache[m].contact
      BY <1>1, <1>5, <2>1 DEF List
    <2> QED BY <1>2, <1>3, <1>5, <2>2, <2>3 DEF IInv, TypeOK, SweepListsContacts,
            ContactsAreTheRotators, ContactsSurviveRestart, List, Slot
  <1>6. Refreshed(Known(pending[n]), t) \in Slot
    BY <1>1, RefreshedFacts DEF Slot
  <1>7. CASE scanActive /\ (r # Rotator \/ cache[n] = None)
    <2>1. /\ UNCHANGED <<cache, emitTimer>>
          /\ \/ pending' = pending
             \/ r = Rotator /\ pending' = [pending EXCEPT ![n] = Refreshed(Known(@), t)]
      BY <1>7 DEF NodeUpdate
    <2> QED BY <1>1, <1>4, <1>6, <1>7, <2>1 DEF List
  <1>8. CASE ~(scanActive /\ (r # Rotator \/ cache[n] = None))
    <2>1. /\ UNCHANGED pending
          /\ \/ UNCHANGED <<cache, emitTimer>>
             \/ /\ cache[n] # None /\ cache' = [cache EXCEPT ![n] = Refreshed(@, t)]
                /\ emitTimer' = TRUE
      BY <1>8 DEF NodeUpdate
    <2> QED BY <1>1, <1>4, <1>5, <2>1
  <1> QED BY <1>7, <1>8

LEMMA PacketInv ==
  ASSUME IInv, NEW n \in Node, NEW r \in Radio, NEW t \in Heard, Packet(n, r, t)
  PROVE  IInv'
  <1>1. /\ cache \in List /\ pending \in List /\ rows \in [Node -> Row \cup {None}]
    BY Types DEF IInv
  <1>2. /\ UNCHANGED <<scanActive, preScan, restarts>>
        /\ reports' \in 0 .. MaxReports /\ seeds' \in 0 .. reports'
        /\ heardBy' \in [Node -> SUBSET Radio]
    BY BoundAssumption DEF Packet, Report, IInv, TypeOK
  <1>3. rows' \in [Node -> Row \cup {None}]
    <2>1. PICK row \in {rows[n], [RowOf(n) EXCEPT !.device = r]}, mqtt \in BOOLEAN :
            rows' = [rows EXCEPT ![n] =
                       IF mqtt \/ row = None THEN row ELSE [row EXCEPT !.rf = Latest(@, t)]]
      BY DEF Packet
    <2>2. row \in Row \cup {None}
      BY <1>1, <2>1, RowFacts DEF Row
    <2>3. row # None => [row EXCEPT !.rf = Latest(@, t)] \in Row
      BY <2>2, BoundAssumption DEF Row, Latest, Heard
    <2> QED BY <1>1, <2>1, <2>2, <2>3
  <1>4. CASE scanActive /\ Confirm(n)
    <2>1. /\ cache' \in List /\ pending' \in List /\ scanNodes' = cache'
          /\ \A m \in Node : cache'[m] # None =>
               /\ cache'[m].contact /\ pending'[m] = None
               /\ Rotator \in cache'[m].devices
      BY <1>4, ConfirmFacts
    <2>2. emitTimer' = TRUE
      BY <1>4 DEF Confirm
    <2> QED BY <1>2, <1>3, <1>4, <2>1, <2>2 DEF IInv, TypeOK, SweepListsContacts,
            ContactsAreTheRotators, ContactsSurviveRestart, List, Slot
  <1>5. CASE TouchLastHeard(n, r, t) /\ UNCHANGED <<pending, scanNodes>>
    <2>1. \/ cache' = cache
          \/ ~scanActive /\ cache' = [cache EXCEPT ![n] = Touched(cache[n], r, t)]
      BY <1>5 DEF TouchLastHeard
    <2>t. Touched(cache[n], r, t) \in Slot
      BY <1>1, TouchedFacts DEF List, Slot
    <2>e. emitTimer' = emitTimer \/ emitTimer' = TRUE
      BY <1>5 DEF TouchLastHeard
    <2>2. cache' \in List
      BY <1>1, <2>1, <2>t DEF List
    <2>3. scanActive => cache' = cache
      BY <2>1
    <2> QED BY <1>2, <1>3, <1>5, <2>e, <2>2, <2>3 DEF IInv, TypeOK, SweepListsContacts,
            ContactsAreTheRotators, ContactsSurviveRestart, List, Slot
  <1> QED BY <1>4, <1>5 DEF Packet

LEMMA ConnectedInv ==
  ASSUME IInv, NEW f \in [Node -> Heard \cup {None}], Connected(f)
  PROVE  IInv'
  <1>1. /\ cache \in List /\ pending \in List /\ rows \in [Node -> Row \cup {None}]
    BY Types DEF IInv
  <1>2. /\ UNCHANGED <<scanActive, preScan, scanNodes, rows, heardBy, restarts>>
        /\ reports' \in 0 .. MaxReports /\ seeds' \in 0 .. reports' /\ emitTimer' = TRUE
    BY BoundAssumption DEF Connected, Report, IInv, TypeOK
  <1> DEFINE Seeded(n) == IF f[n] = None \/ (scanActive /\ cache[n] = None)
                            THEN cache[n] ELSE Refreshed(Known(cache[n]), f[n])
  <1>3. ASSUME NEW n \in Node
        PROVE  /\ Seeded(n) \in Slot
               /\ scanActive /\ cache[n] = None => Seeded(n) = None
               /\ scanActive /\ cache[n] # None =>
                    /\ Seeded(n) # None /\ Seeded(n).contact = cache[n].contact
                    /\ Seeded(n).devices = cache[n].devices
    <2>1. CASE f[n] = None \/ (scanActive /\ cache[n] = None)
      BY <1>1, <2>1 DEF List
    <2>2. CASE ~(f[n] = None \/ (scanActive /\ cache[n] = None))
      <3>1. /\ Known(cache[n]) \in Entry /\ f[n] \in Heard
            /\ cache[n] # None => Known(cache[n]) = cache[n]
        BY <1>1, <2>2, KnownFacts DEF List
      <3>2. /\ Refreshed(Known(cache[n]), f[n]) \in Entry
            /\ Refreshed(Known(cache[n]), f[n]).devices = Known(cache[n]).devices
            /\ Refreshed(Known(cache[n]), f[n]).contact = Known(cache[n]).contact
        BY <3>1, RefreshedFacts
      <3>3. Seeded(n) = Refreshed(Known(cache[n]), f[n])
        BY <2>2
      <3> QED BY <2>2, <3>1, <3>2, <3>3, NoneAssumption DEF Slot
    <2> QED BY <2>1, <2>2
  <1>4. /\ cache' = [n \in Node |-> Restored(Seeded(n), n)]
    BY DEF Connected
  <1> HIDE DEF Seeded
  <1>5. /\ cache' \in List
        /\ scanActive => \A n \in Node : cache'[n] # None =>
             /\ cache[n] # None
             /\ cache'[n].contact = cache[n].contact
             /\ cache[n].devices \subseteq cache'[n].devices
    BY <1>1, <1>3, <1>4, RestoredFacts DEF List
  <1>6. /\ pending' \in List
        /\ \A n \in Node : cache[n] # None => pending'[n] = pending[n]
    <2>1. ASSUME NEW n \in Node, f[n] # None
          PROVE  Refreshed(Known(pending[n]), f[n]) \in Slot
      BY <1>1, <2>1, KnownFacts, RefreshedFacts DEF List, Slot
    <2> QED BY <1>1, <2>1 DEF Connected, List
  <1> QED BY <1>1, <1>2, <1>5, <1>6 DEF IInv, TypeOK, SweepListsContacts,
          ContactsAreTheRotators, ContactsSurviveRestart, List, Slot

LEMMA RestartInv ==
  ASSUME IInv, Restart
  PROVE  IInv'
  <1>1. /\ scanNodes \in List /\ Empty \in List /\ rows \in [Node -> Row \cup {None}]
    BY Types DEF IInv
  <1>2. /\ UNCHANGED <<scanActive, scanNodes, rows, heardBy, seeds, reports>>
        /\ restarts' \in 0 .. MaxRestarts /\ pending' = Empty
    BY BoundAssumption DEF Restart, IInv, TypeOK
  <1>3. PICK since \in Heard :
          IF scanActive
            THEN /\ preScan' = HydrateFromStore(since)
                 /\ cache' = [n \in Node |->
                      IF scanNodes[n] = None THEN None
                      ELSE IF scanNodes[n].contact THEN scanNodes[n] ELSE None]
                 /\ emitTimer' = TRUE
            ELSE /\ preScan' = Empty
                 /\ cache' = HydrateFromStore(since)
                 /\ emitTimer' = (cache' # Empty)
    BY DEF Restart
  <1>4. HydrateFromStore(since) \in List
    BY <1>1, HydrateFacts DEF List
  <1>5. /\ cache' \in List /\ preScan' \in List /\ emitTimer' \in BOOLEAN
        /\ ~scanActive => preScan' = Empty
    BY <1>1, <1>3, <1>4 DEF List, Slot
  <1>6. scanActive => \A n \in Node : cache'[n] # None =>
          scanNodes[n] # None /\ cache'[n] = scanNodes[n]
    BY <1>3
  <1> QED BY <1>1, <1>2, <1>5, <1>6 DEF IInv, TypeOK, SweepListsContacts,
          ContactsAreTheRotators, ContactsSurviveRestart, List, Slot, Empty

LEMMA ScanInv ==
  ASSUME IInv, ScanStarts \/ ScanEnds
  PROVE  IInv'
  <1>1. cache \in List /\ preScan \in List /\ Empty \in List
    BY Types DEF IInv
  <1>2. CASE ScanStarts
    BY <1>1, <1>2 DEF ScanStarts, IInv, TypeOK, SweepListsContacts,
       ContactsAreTheRotators, ContactsSurviveRestart, List, Slot, Empty
  <1>3. CASE ScanEnds
    <2>1. cache' \in List
      BY <1>1, <1>3, OverlaidFacts DEF ScanEnds, List
    <2> QED BY <1>1, <1>3, <2>1 DEF ScanEnds, IInv, TypeOK, SweepListsContacts,
            ContactsAreTheRotators, ContactsSurviveRestart, List, Slot, Empty
  <1> QED BY <1>2, <1>3

LEMMA OtherInv ==
  ASSUME IInv, Clear \/ Emit \/ UNCHANGED vars \/ \E S \in SUBSET Node : PersistSeed(S)
  PROVE  IInv'
  <1>1. rows \in [Node -> Row \cup {None}]
    BY Types DEF IInv
  <1>2. CASE Clear
    BY <1>2 DEF Clear, IInv, TypeOK, SweepListsContacts, ContactsAreTheRotators,
       ContactsSurviveRestart, Empty
  <1>3. CASE Emit \/ UNCHANGED vars
    <2>1. emitTimer' \in BOOLEAN
      BY <1>3, Zenon DEF Emit, vars, IInv, TypeOK
    <2>2. UNCHANGED <<listVars, storeVars, heardBy, seeds, reports, restarts>>
      BY <1>3, Zenon DEF Emit, vars, listVars, storeVars
    <2> QED BY <2>1, <2>2 DEF listVars, storeVars, IInv, TypeOK,
            SweepListsContacts, ContactsAreTheRotators, ContactsSurviveRestart
  <1>4. ASSUME NEW S \in SUBSET Node, PersistSeed(S)
        PROVE  IInv'
    <2>1. rows' \in [Node -> Row \cup {None}]
      BY <1>1, <1>4, RowFacts DEF PersistSeed
    <2> QED BY <1>4, <2>1, BoundAssumption DEF PersistSeed, Report, listVars, IInv, TypeOK,
            SweepListsContacts, ContactsAreTheRotators, ContactsSurviveRestart
  <1> QED BY <1>2, <1>3, <1>4

(* Every step keeps the invariant.                                          *)
THEOREM InvariantHolds ==
  Spec => []IInv
  <1>1. IInv /\ [Next]_vars => IInv'
    <2> SUFFICES ASSUME IInv, [Next]_vars PROVE IInv'
      OBVIOUS
    <2>1. ASSUME NEW n \in Node, NEW r \in Radio, NEW t \in Heard,
                 NodeUpdate(n, r, t) \/ Packet(n, r, t)
          PROVE  IInv'
      BY <2>1, NodeUpdateInv, PacketInv
    <2>2. ASSUME NEW f \in [Node -> Heard \cup {None}], Connected(f)
          PROVE  IInv'
      BY <2>2, ConnectedInv
    <2> QED BY <2>1, <2>2, RestartInv, ScanInv, OtherInv DEF Next
  <1> QED BY <1>1, InitInv, PTL DEF Spec

(* Every variable keeps to its set.                                         *)
THEOREM TypesHold ==
  Spec => []TypeOK
  BY InvariantHolds, PTL DEF IInv

(* During a sweep only contacts are listed, and none of them is buffered.   *)
THEOREM SweepsListContacts ==
  Spec => []SweepListsContacts
  BY InvariantHolds, PTL DEF IInv

(* Every contact of a running sweep is stored so that a restart restores it.*)
THEOREM ContactsAreKept ==
  Spec => []ContactsSurviveRestart
  BY InvariantHolds, PTL DEF IInv

-----------------------------------------------------------------------------
(* Attribution.                                                             *)

Earned(list, by) == \A n \in Node : list[n] # None => list[n].devices \subseteq by[n]

LEMMA EarnedLists ==
  AttributionIsEarned <=>
    /\ Earned(cache, heardBy) /\ Earned(pending, heardBy)
    /\ Earned(preScan, heardBy) /\ Earned(scanNodes, heardBy)
    /\ \A n \in Node : rows[n] # None => rows[n].device \in heardBy[n] \cup {None}
  BY DEF AttributionIsEarned, Earned

(* Every list stays earned: what a step adds is a radio that was heard.     *)
LEMMA EarnedStep ==
  ASSUME ScanListener \subseteq {Rotator}, IInv, [Next]_vars, AttributionIsEarned
  PROVE  AttributionIsEarned'
  <1>1. /\ cache \in List /\ pending \in List /\ preScan \in List /\ scanNodes \in List
        /\ rows \in [Node -> Row \cup {None}] /\ heardBy \in [Node -> SUBSET Radio]
    BY Types DEF IInv, TypeOK
  <1>2. /\ Earned(cache, heardBy) /\ Earned(pending, heardBy)
        /\ Earned(preScan, heardBy) /\ Earned(scanNodes, heardBy)
        /\ \A n \in Node : rows[n] # None => rows[n].device \in heardBy[n] \cup {None}
    BY EarnedLists
  <1> SUFFICES /\ Earned(cache', heardBy') /\ Earned(pending', heardBy')
               /\ Earned(preScan', heardBy') /\ Earned(scanNodes', heardBy')
               /\ \A n \in Node : rows'[n] # None => rows'[n].device \in heardBy'[n] \cup {None}
    BY DEF AttributionIsEarned, Earned
  <1>3. \A n \in Node : RowOf(n).device \in heardBy[n] \cup {None}
    BY <1>2 DEF RowOf
  <1>4. ASSUME NEW n \in Node, NEW r \in Radio, NEW t \in Heard, NodeUpdate(n, r, t)
        PROVE  /\ Earned(cache', heardBy) /\ Earned(pending', heardBy)
               /\ \A m \in Node : rows'[m] # None => rows'[m].device \in heardBy[m] \cup {None}
    <2>1. ASSUME NEW e \in Slot
          PROVE  Refreshed(Known(e), t).devices = IF e = None THEN {} ELSE e.devices
      <3>1. Known(e) \in Entry /\ (e # None => Known(e) = e) /\ (e = None => Known(e) = Blank)
        BY KnownFacts
      <3> QED BY <3>1, RefreshedFacts DEF Blank
    <2>2. /\ \/ cache' = cache
             \/ cache[n] # None /\ cache' = [cache EXCEPT ![n] = Refreshed(Known(cache[n]), t)]
          /\ \/ pending' = pending
             \/ pending' = [pending EXCEPT ![n] = Refreshed(Known(pending[n]), t)]
          /\ rows' = [rows EXCEPT ![n] = RowOf(n)]
      BY <1>4 DEF NodeUpdate, Known
    <2>3. Earned(cache', heardBy)
      BY <1>1, <1>2, <2>1, <2>2 DEF Earned, List
    <2>4. Earned(pending', heardBy)
      BY <1>1, <1>2, <2>1, <2>2 DEF Earned, List
    <2> QED BY <1>1, <1>2, <1>3, <2>2, <2>3, <2>4
  <1>5. ASSUME NEW n \in Node, NEW r \in Radio, NEW t \in Heard, Packet(n, r, t)
        PROVE  /\ Earned(cache', heardBy') /\ Earned(pending', heardBy')
               /\ Earned(preScan', heardBy') /\ Earned(scanNodes', heardBy')
               /\ \A m \in Node : rows'[m] # None => rows'[m].device \in heardBy'[m] \cup {None}
    <2>1. /\ \A m \in Node : heardBy[m] \subseteq heardBy'[m]
          /\ r \in heardBy'[n]
          /\ preScan' = preScan
      BY <1>1, <1>5 DEF Packet
    <2>2. Earned(preScan', heardBy')
      BY <1>2, <2>1 DEF Earned
    <2>3. \A m \in Node : rows'[m] # None => rows'[m].device \in heardBy'[m] \cup {None}
      <3>1. PICK row \in {rows[n], [RowOf(n) EXCEPT !.device = r]}, mqtt \in BOOLEAN :
              rows' = [rows EXCEPT ![n] =
                         IF mqtt \/ row = None THEN row ELSE [row EXCEPT !.rf = Latest(@, t)]]
        BY <1>5 DEF Packet
      <3>2. row \in Row \cup {None} /\ (row # None => row.device \in heardBy'[n] \cup {None})
        BY <1>1, <1>2, <2>1, <3>1, RowFacts DEF Row
      <3>3. row # None => [row EXCEPT !.rf = Latest(@, t)].device = row.device
        BY <3>2 DEF Row
      <3> QED BY <1>1, <1>2, <2>1, <3>1, <3>2, <3>3
    <2>4. CASE scanActive /\ r \in ScanListener /\ Confirm(n)
      <3>1. /\ scanNodes' = cache'
            /\ \A m \in Node : pending'[m] # None => pending'[m] = pending[m]
            /\ \A m \in Node : cache'[m] # None /\ cache'[m] # cache[m] =>
                 /\ m = n
                 /\ cache'[m].devices \subseteq
                      Known(pending[m]).devices \cup Known(cache[m]).devices \cup {Rotator}
        BY <2>4, ConfirmFacts
      <3>2. /\ Known(pending[n]).devices \subseteq heardBy[n]
            /\ Known(cache[n]).devices \subseteq heardBy[n]
        BY <1>2 DEF Known, Earned, Blank
      <3>3. Rotator \in heardBy'[n]
        BY <2>1, <2>4
      <3>4. Earned(cache', heardBy')
        BY <1>2, <2>1, <3>1, <3>2, <3>3 DEF Earned
      <3>5. Earned(pending', heardBy')
        BY <1>2, <2>1, <3>1 DEF Earned
      <3> QED BY <2>2, <2>3, <3>1, <3>4, <3>5
    <2>5. CASE TouchLastHeard(n, r, t) /\ UNCHANGED <<pending, scanNodes>>
      <3>1. \/ cache' = cache
            \/ cache' = [cache EXCEPT ![n] = Touched(cache[n], r, t)]
        BY <2>5 DEF TouchLastHeard
      <3>2. Touched(cache[n], r, t).devices \subseteq heardBy'[n]
        <4>1. Known(cache[n]).devices \subseteq heardBy[n]
          BY <1>2 DEF Known, Earned, Blank
        <4> QED BY <1>1, <2>1, <4>1, TouchedFacts DEF List
      <3>3. Earned(cache', heardBy')
        BY <1>1, <1>2, <2>1, <3>1, <3>2 DEF Earned, List
      <3>4. Earned(pending', heardBy') /\ Earned(scanNodes', heardBy')
        BY <1>2, <2>1, <2>5 DEF Earned
      <3> QED BY <2>2, <2>3, <3>3, <3>4
    <2> QED BY <1>5, <2>4, <2>5 DEF Packet
  <1>6. ASSUME NEW f \in [Node -> Heard \cup {None}], Connected(f)
        PROVE  Earned(cache', heardBy) /\ Earned(pending', heardBy)
    <2>1. ASSUME NEW n \in Node, NEW e \in Slot, f[n] # None,
                 e # None => e.devices \subseteq heardBy[n]
          PROVE  /\ Refreshed(Known(e), f[n]) \in Slot
                 /\ Refreshed(Known(e), f[n]).devices \subseteq heardBy[n]
      <3>1. Known(e) \in Entry /\ (e # None => Known(e) = e) /\ (e = None => Known(e) = Blank)
        BY KnownFacts
      <3>2. f[n] \in Heard
        BY <2>1
      <3> QED BY <2>1, <3>1, <3>2, RefreshedFacts DEF Blank, Slot
    <2>2. Earned(pending', heardBy)
      BY <1>1, <1>2, <1>6, <2>1 DEF Connected, Earned, List
    <2>3. ASSUME NEW n \in Node, cache'[n] # None
          PROVE  cache'[n].devices \subseteq heardBy[n]
      <3> DEFINE e == IF f[n] = None \/ (scanActive /\ cache[n] = None)
                        THEN cache[n] ELSE Refreshed(Known(cache[n]), f[n])
      <3>1. e \in Slot /\ (e # None => e.devices \subseteq heardBy[n])
        BY <1>1, <1>2, <2>1 DEF Earned, List
      <3>2. cache'[n] = Restored(e, n)
        BY <1>6 DEF Connected
      <3> HIDE DEF e
      <3>3. rows[n] # None => {rows[n].device} \ {None} \subseteq heardBy[n]
        BY <1>2
      <3> QED BY <1>1, <2>3, <3>1, <3>2, <3>3, RestoredFacts
    <2> QED BY <2>2, <2>3 DEF Earned
  <1>7. ASSUME Restart
        PROVE  Earned(cache', heardBy) /\ Earned(pending', heardBy) /\ Earned(preScan', heardBy)
    <2>1. PICK since \in Heard :
            /\ preScan' \in {Empty, HydrateFromStore(since)}
            /\ \/ cache' = HydrateFromStore(since)
               \/ cache' = [n \in Node |->
                    IF scanNodes[n] = None THEN None
                    ELSE IF scanNodes[n].contact THEN scanNodes[n] ELSE None]
      BY <1>7, Zenon DEF Restart
    <2>2. Earned(HydrateFromStore(since), heardBy)
      BY <1>1, <1>2, HydrateFacts DEF Earned
    <2>3. Earned(Empty, heardBy) /\ pending' = Empty
      BY <1>7 DEF Earned, Empty, Restart
    <2>4. Earned(cache', heardBy)
      <3>1. CASE cache' = HydrateFromStore(since)
        BY <2>2, <3>1
      <3>2. CASE cache' = [n \in Node |->
                   IF scanNodes[n] = None THEN None
                   ELSE IF scanNodes[n].contact THEN scanNodes[n] ELSE None]
        BY <1>2, <3>2 DEF Earned
      <3> QED BY <2>1, <3>1, <3>2
    <2> QED BY <2>1, <2>2, <2>3, <2>4
  <1>8. CASE ScanStarts
    BY <1>2, <1>8 DEF ScanStarts, Earned, Empty
  <1>9. CASE ScanEnds
    <2>1. Earned(cache', heardBy)
      <3>1. ASSUME NEW n \in Node, cache'[n] # None
            PROVE  cache'[n].devices \subseteq heardBy[n]
        <4>1. cache'[n] = Overlaid(preScan[n], cache[n])
          BY <1>9 DEF ScanEnds
        <4>2. CASE cache[n] = None
          BY <1>1, <1>2, <3>1, <4>1, <4>2, OverlaidFacts DEF Earned, List
        <4>3. CASE cache[n] # None
          BY <1>1, <1>2, <4>1, <4>3, OverlaidFacts DEF Earned, List
        <4> QED BY <4>2, <4>3
      <3> QED BY <3>1 DEF Earned
    <2> QED BY <1>2, <1>9, <2>1 DEF ScanEnds, Earned, Empty
  <1>10. CASE Clear
    BY <1>2, <1>10 DEF Clear, Earned, Empty
  <1>11. CASE Emit \/ UNCHANGED vars
    BY <1>2, <1>11 DEF Emit, vars, listVars, storeVars
  <1>12. CASE \E S \in SUBSET Node : PersistSeed(S)
    BY <1>1, <1>2, <1>3, <1>12 DEF PersistSeed, listVars
  <1>13. CASE \E n \in Node, r \in Radio, t \in Heard : NodeUpdate(n, r, t)
    BY <1>2, <1>4, <1>13 DEF NodeUpdate
  <1>14. CASE \E f \in [Node -> Heard \cup {None}] : Connected(f)
    BY <1>2, <1>6, <1>14 DEF Connected
  <1>15. CASE Restart
    BY <1>2, <1>7, <1>15 DEF Restart
  <1> QED BY <1>5, <1>8, <1>9, <1>10, <1>11, <1>12, <1>13, <1>14, <1>15 DEF Next

(* As long as the rotator's is the only radio listened to in a sweep, no    *)
(* node is attributed to a radio that never delivered a packet of it.       *)
THEOREM AttributionHolds ==
  ASSUME ScanListener \subseteq {Rotator}
  PROVE  Spec => []AttributionIsEarned
  <1>1. Init => AttributionIsEarned
    BY DEF Init, AttributionIsEarned, Empty
  <1>2. IInv /\ [Next]_vars /\ AttributionIsEarned => AttributionIsEarned'
    BY EarnedStep
  <1> QED BY <1>1, <1>2, InvariantHolds, PTL DEF Spec

-----------------------------------------------------------------------------
(* What a step may not do.                                                  *)

LEMMA KeepsListed ==
  ASSUME IInv, [Next]_vars, ~Clear, ~Restart, NEW m \in Node, Listed(m)
  PROVE  Listed(m)'
  <1>1. /\ cache \in List /\ pending \in List /\ preScan \in List
        /\ rows \in [Node -> Row \cup {None}]
        /\ ~scanActive => preScan = Empty
        /\ scanActive \in BOOLEAN
    BY Types DEF IInv, TypeOK
  <1>2. ASSUME preScan' = preScan, cache[m] # None => cache'[m] # None
        PROVE  Listed(m)'
    BY <1>2 DEF Listed
  <1>3. ASSUME NEW n \in Node, NEW r \in Radio, NEW t \in Heard, NodeUpdate(n, r, t)
        PROVE  Listed(m)'
    <2>1. /\ preScan' = preScan
          /\ \/ cache' = cache
             \/ cache[n] # None /\ cache' = [cache EXCEPT ![n] = Refreshed(cache[n], t)]
      BY <1>3 DEF NodeUpdate
    <2>2. cache[n] # None => Refreshed(cache[n], t) # None
      BY <1>1, RefreshedFacts, NoneAssumption DEF List, Slot
    <2> QED BY <1>1, <1>2, <2>1, <2>2 DEF List
  <1>4. ASSUME NEW n \in Node, NEW r \in Radio, NEW t \in Heard, Packet(n, r, t)
        PROVE  Listed(m)'
    <2>1. preScan' = preScan
      BY <1>4 DEF Packet
    <2>2. CASE scanActive /\ Confirm(n)
      BY <1>2, <2>1, <2>2, ConfirmFacts
    <2>3. CASE TouchLastHeard(n, r, t)
      <3>1. \/ cache' = cache
            \/ cache' = [cache EXCEPT ![n] = Touched(cache[n], r, t)]
        BY <2>3 DEF TouchLastHeard
      <3>2. Touched(cache[n], r, t) # None
        BY <1>1, TouchedFacts, NoneAssumption DEF List
      <3> QED BY <1>1, <1>2, <2>1, <3>1, <3>2 DEF List
    <2> QED BY <1>4, <2>2, <2>3 DEF Packet
  <1>5. CASE ScanStarts
    BY <1>1, <1>5 DEF ScanStarts, Listed, Empty
  <1>6. CASE ScanEnds
    <2>1. cache'[m] = Overlaid(preScan[m], cache[m])
      BY <1>6 DEF ScanEnds
    <2>2. cache[m] \in Slot /\ preScan[m] \in Slot
      BY <1>1 DEF List
    <2>3. (Listed(m))' <=> cache'[m] # None \/ preScan'[m] # None
      BY DEF Listed
    <2> QED BY <2>1, <2>2, <2>3, OverlaidFacts DEF Listed
  <1>7. ASSUME NEW f \in [Node -> Heard \cup {None}], Connected(f)
        PROVE  Listed(m)'
    <2> DEFINE e == IF f[m] = None \/ (scanActive /\ cache[m] = None)
                      THEN cache[m] ELSE Refreshed(Known(cache[m]), f[m])
    <2>1. cache'[m] = Restored(e, m) /\ preScan' = preScan
      BY <1>7 DEF Connected
    <2>2. cache[m] \in Slot
      BY <1>1 DEF List
    <2>3. f[m] # None => f[m] \in Heard
      BY <1>7
    <2>4. f[m] # None => Refreshed(Known(cache[m]), f[m]) \in Entry
      BY <2>2, <2>3, KnownFacts, RefreshedFacts
    <2>5. e \in Slot /\ (cache[m] # None => e # None)
      BY <2>2, <2>4, NoneAssumption DEF Slot
    <2> HIDE DEF e
    <2> QED BY <1>1, <1>2, <2>1, <2>5, RestoredFacts
  <1>8. CASE Emit \/ UNCHANGED vars \/ \E S \in SUBSET Node : PersistSeed(S)
    <2>1. UNCHANGED <<cache, preScan>>
      BY <1>8 DEF Emit, PersistSeed, vars, listVars
    <2> QED BY <2>1 DEF Listed
  <1> QED BY <1>3, <1>4, <1>5, <1>6, <1>7, <1>8 DEF Next

(* No node falls off the list in a sweep, nor by any report: only DELETE    *)
(* /nodes and a restart drop one.                                           *)
THEOREM NodesAreKept ==
  Spec => NothingForgotten
  <1>1. IInv /\ [Next]_vars =>
          [(\A n \in Node : Listed(n) => Listed(n)') \/ Clear \/ Restart]_vars
    BY KeepsListed
  <1> QED BY <1>1, InvariantHolds, PTL DEF Spec, NothingForgotten

LEMMA NeverBack ==
  ASSUME IInv, [Next]_vars, NEW m \in Node, Regresses(cache, m) \/ Regresses(pending, m)
  PROVE  seeds' # seeds \/ (scanActive /\ ~scanActive') \/ restarts' # restarts
  <1>1. /\ cache \in List /\ pending \in List
        /\ restarts \in Nat /\ seeds \in Nat
    BY Types, BoundAssumption DEF IInv, TypeOK
  <1>2. \A x \in Entry : x.heard \in Nat
    BY BoundAssumption DEF Entry, Heard
  <1>3. ASSUME NEW list \in List, NEW n \in Node, NEW t \in Heard, ~IsStaleReplay(Known(list[n]), t)
        PROVE  list[n] # None =>
                 /\ Refreshed(Known(list[n]), t).heard >= list[n].heard
                 /\ Refreshed(list[n], t).heard >= list[n].heard
    <2>1. ASSUME list[n] # None
          PROVE  Refreshed(list[n], t).heard >= list[n].heard
      <3>1. Known(list[n]) = list[n] /\ list[n] \in Entry
        BY <2>1 DEF List, Slot, Known
      <3>2. Refreshed(list[n], t).heard = IF t # 0 THEN t ELSE list[n].heard
        BY <3>1, RefreshedFacts
      <3>3. t \in Nat /\ list[n].heard \in Nat
        BY <1>2, <3>1, BoundAssumption DEF Heard
      <3> QED BY <1>3, <3>1, <3>2, <3>3 DEF IsStaleReplay
    <2> QED BY <2>1 DEF Known
  <1>4. ASSUME NEW n \in Node, NEW r \in Radio, NEW t \in Heard, NodeUpdate(n, r, t)
        PROVE  FALSE
    <2>1. \/ cache' = cache
          \/ /\ cache[n] # None /\ ~IsStaleReplay(cache[n], t)
             /\ cache' = [cache EXCEPT ![n] = Refreshed(cache[n], t)]
      BY <1>4 DEF NodeUpdate
    <2>2. \/ pending' = pending
          \/ /\ ~IsStaleReplay(Known(pending[n]), t)
             /\ pending' = [pending EXCEPT ![n] = Refreshed(Known(pending[n]), t)]
      BY <1>4 DEF NodeUpdate
    <2>3. ~Regresses(cache, m)
      <3>1. CASE cache' = cache
        BY <1>1, <1>2, <3>1 DEF Regresses, List, Slot
      <3>2. CASE /\ cache[n] # None /\ ~IsStaleReplay(cache[n], t)
                 /\ cache' = [cache EXCEPT ![n] = Refreshed(cache[n], t)]
        <4>1. Refreshed(cache[n], t).heard >= cache[n].heard
          BY <1>1, <1>3, <3>2 DEF Known
        <4>2. Refreshed(cache[n], t) \in Entry /\ cache[n] \in Entry
          BY <1>1, <3>2, RefreshedFacts DEF List, Slot
        <4>3. cache[m] # None => cache[m].heard \in Nat
          BY <1>1, <1>2 DEF List, Slot
        <4> QED BY <1>1, <1>2, <3>2, <4>1, <4>2, <4>3 DEF Regresses, List
      <3> QED BY <2>1, <3>1, <3>2
    <2>4. ~Regresses(pending, m)
      <3>1. CASE pending' = pending
        BY <1>1, <1>2, <3>1 DEF Regresses, List, Slot
      <3>2. CASE /\ ~IsStaleReplay(Known(pending[n]), t)
                 /\ pending' = [pending EXCEPT ![n] = Refreshed(Known(pending[n]), t)]
        <4>1. pending[n] # None => Refreshed(Known(pending[n]), t).heard >= pending[n].heard
          BY <1>1, <1>3, <3>2
        <4>2. Refreshed(Known(pending[n]), t) \in Entry
          BY <1>1, KnownFacts, RefreshedFacts DEF List
        <4>3. \A k \in Node : pending[k] # None => pending[k].heard \in Nat
          BY <1>1, <1>2 DEF List, Slot
        <4> QED BY <1>1, <1>2, <3>2, <4>1, <4>2, <4>3 DEF Regresses, List
      <3> QED BY <2>2, <3>1, <3>2
    <2> QED BY <2>3, <2>4
  <1>5. ASSUME NEW n \in Node, NEW r \in Radio, NEW t \in Heard, Packet(n, r, t)
        PROVE  FALSE
    <2>1. CASE scanActive /\ Confirm(n)
      <3>1. \/ cache' = [cache EXCEPT ![n] = Contact(pending[n])] /\ cache[n] = None /\ pending[n] # None
            \/ cache' = [cache EXCEPT ![n] = Contact(Known(cache[n]))]
            \/ cache' = cache
        BY <2>1 DEF Confirm, IInv, SweepListsContacts
      <3>2. pending' = [pending EXCEPT ![n] = None]
        BY <2>1 DEF Confirm
      <3>3. ~Regresses(pending, m)
        BY <1>1, <1>2, <3>2 DEF Regresses, List, Slot
      <3>4. Known(cache[n]) \in Entry /\ (cache[n] # None => Known(cache[n]) = cache[n])
        BY <1>1, KnownFacts DEF List
      <3>5. cache[n] # None => Contact(Known(cache[n])).heard = cache[n].heard
        BY <3>4, ContactFacts
      <3>6. \A k \in Node : cache[k] # None => cache[k].heard \in Nat
        BY <1>1, <1>2 DEF List, Slot
      <3>7. ~Regresses(cache, m)
        BY <1>1, <3>1, <3>5, <3>6 DEF Regresses, List
      <3> QED BY <3>3, <3>7
    <2>2. CASE TouchLastHeard(n, r, t) /\ pending' = pending
      <3>1. \/ cache' = cache
            \/ cache' = [cache EXCEPT ![n] = Touched(cache[n], r, t)]
        BY <2>2 DEF TouchLastHeard
      <3>2. cache[n] # None => Touched(cache[n], r, t).heard >= cache[n].heard
        <4>1. Touched(cache[n], r, t).heard >= Known(cache[n]).heard
          BY <1>1, TouchedFacts DEF List
        <4> QED BY <4>1 DEF Known
      <3>3. Touched(cache[n], r, t).heard \in Nat
        BY <1>1, <1>2, TouchedFacts DEF List
      <3>4. \A k \in Node : /\ cache[k] # None => cache[k].heard \in Nat
                            /\ pending[k] # None => pending[k].heard \in Nat
        BY <1>1, <1>2 DEF List, Slot
      <3> QED BY <1>1, <2>2, <3>1, <3>2, <3>3, <3>4 DEF Regresses, List
    <2> QED BY <1>5, <2>1, <2>2 DEF Packet
  <1>6. CASE ScanStarts \/ ScanEnds
    BY <1>6 DEF ScanStarts, ScanEnds, Regresses, Empty
  <1>7. CASE \E f \in [Node -> Heard \cup {None}] : Connected(f)
    BY <1>1, <1>7 DEF Connected
  <1>8. CASE Restart
    BY <1>1, <1>8 DEF Restart
  <1>9. CASE Clear
    BY <1>9 DEF Clear, Regresses, Empty
  <1>10. CASE Emit \/ UNCHANGED vars \/ \E S \in SUBSET Node : PersistSeed(S)
    <2>1. UNCHANGED <<cache, pending>>
      BY <1>10 DEF Emit, PersistSeed, vars, listVars
    <2>2. \A k \in Node : /\ cache[k] # None => cache[k].heard \in Nat
                          /\ pending[k] # None => pending[k].heard \in Nat
      BY <1>1, <1>2 DEF List, Slot
    <2> QED BY <2>1, <2>2 DEF Regresses
  <1> QED BY <1>4, <1>5, <1>6, <1>7, <1>8, <1>9, <1>10 DEF Next

(* No report of a radio, live or replayed, sets back when a node was last   *)
(* heard, on the list or in the buffer: a step that does is a seed, counted *)
(* as one, the end of a sweep or a restart.                                 *)
THEOREM NoReportSetsBack ==
  Spec => LastHeardMovesForward
  <1>1. IInv /\ [Next]_vars =>
          [(\E n \in Node : Regresses(cache, n) \/ Regresses(pending, n)) =>
             \/ seeds' # seeds
             \/ scanActive /\ ~scanActive'
             \/ restarts' # restarts]_vars
    BY NeverBack
  <1> QED BY <1>1, InvariantHolds, PTL DEF Spec, LastHeardMovesForward

(* Whatever a client is shown differently will be sent.                     *)
THEOREM NothingChangesInSilence ==
  Spec => ChangesAreAnnounced
  <1>1. ASSUME IInv, [Next]_vars, restarts' = restarts, NEW n \in Node, Shown(n)' # Shown(n), ~emitTimer'
        PROVE  FALSE
    <2>1. CASE UNCHANGED <<scanActive, cache>>
      BY <1>1, <2>1 DEF Shown
    <2>2. CASE Next /\ ~UNCHANGED <<scanActive, cache>>
      <3>1. ASSUME NEW k \in Node, NEW r \in Radio, NEW t \in Heard,
                   NodeUpdate(k, r, t) \/ Packet(k, r, t)
            PROVE  FALSE
        BY <1>1, <2>2, <3>1 DEF NodeUpdate, Packet, Confirm, TouchLastHeard
      <3>2. CASE ScanStarts \/ ScanEnds \/ Clear \/ \E f \in [Node -> Heard \cup {None}] : Connected(f)
        BY <1>1, <3>2 DEF ScanStarts, ScanEnds, Clear, Connected
      <3>3. CASE Emit \/ \E S \in SUBSET Node : PersistSeed(S)
        BY <2>2, <3>3 DEF Emit, PersistSeed, listVars
      <3>4. ASSUME Restart
            PROVE  FALSE
        <4>1. restarts \in Nat
          BY <1>1, BoundAssumption DEF IInv, TypeOK
        <4> QED BY <1>1, <3>4, <4>1 DEF Restart
      <3> QED BY <2>2, <3>1, <3>2, <3>3, <3>4 DEF Next
    <2> QED BY <1>1, <2>1, <2>2 DEF vars
  <1>2. IInv /\ [Next]_vars =>
          [restarts' = restarts /\ (\E n \in Node : Shown(n)' # Shown(n)) => emitTimer']_vars
    BY <1>1
  <1> QED BY <1>2, InvariantHolds, PTL DEF Spec, ChangesAreAnnounced

=============================================================================
