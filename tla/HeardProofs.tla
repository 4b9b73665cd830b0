----------------------------- MODULE HeardProofs ----------------------------
(***************************************************************************)
(* Proofs about what is made of the packets our radios hear: Automation,   *)
(* which answers the commands among them, and PacketStore, which keeps     *)
(* what they say of their node.  The two share no variable.                *)
(***************************************************************************)
EXTENDS Automation, PacketStore, FiniteSetTheorems, WellFoundedInduction, TLAPS

-----------------------------------------------------------------------------
(* Automation.                                                              *)

(* At each stage of a command, how often it can have been carried out and   *)
(* answered so far: what OncePerCommand needs to be inductive.              *)
Once ==
  \A c \in Command :
    /\ done[c] <= 1
    /\ work[c] = "none" => done[c] = 0 /\ onAir[c] = 0
    /\ work[c] = "aiming" => onAir[c] = 0
    /\ work[c] = "replying" => onAir[c] = 0 \/ (again[c] /\ onAir[c] = 1)
    /\ work[c] = "sent" => onAir[c] = 1 \/ (again[c] /\ onAir[c] = 2)
    /\ work[c] = "over" => onAir[c] <= 2

(* The commands in work count with the replies, because a reply is counted  *)
(* only after it is sent and neither of the two is bounded alone.           *)
InWork == Cardinality(Busy(work))

Budget ==
  /\ IsFiniteSet(Busy(work))
  /\ replies + InWork > 0 => replies + InWork + 1 <= HardMax + peak

-----------------------------------------------------------------------------
LEMMA TypeInit == Init => TypeOK
  BY DEF Init, TypeOK, Stage

LEMMA CountIsNatural ==
  ASSUME NEW S, IsFiniteSet(S)
  PROVE  Cardinality(S) \in Nat
  BY FS_CardinalityType

(* The commands at work grow by the one that starts and shrink by the one   *)
(* that ends; a command that moves on stays among them.                     *)
LEMMA BusyAdds ==
  ASSUME TypeOK, NEW c \in Command, NEW s \in {"aiming", "replying", "sent"},
         work' = [work EXCEPT ![c] = s]
  PROVE  Busy(work') = Busy(work) \cup {c}
  BY DEF Busy, TypeOK

LEMMA BusyRemoves ==
  ASSUME TypeOK, NEW c \in Command, work' = [work EXCEPT ![c] = "over"]
  PROVE  Busy(work') = Busy(work) \ {c}
  BY DEF Busy, TypeOK

-----------------------------------------------------------------------------
LEMMA TypeStep ==
  ASSUME TypeOK, [Next]_vars, IsFiniteSet(Busy(work))
  PROVE  TypeOK'
  <1>1. ASSUME NEW c \in Command, NEW verdict \in Verdicts, Hear(c, verdict)
        PROVE  TypeOK'
    <2>1. CASE c \notin handled /\ enabled /\ ReplyBudgetLeft /\ verdict # "unknown"
      <3>1. Starts(c, verdict) /\ handled' = handled \cup {c}
            /\ UNCHANGED <<enabled, configMax, replies, onAir>>
        BY <1>1, <2>1 DEF Hear
      <3>0. PICK s : s = (verdict = "bad target")
        OBVIOUS
      <3>2. /\ work' \in [Command -> Stage] /\ done' \in [Command -> Nat]
            /\ again' \in [Command -> BOOLEAN]
        <4>1. /\ work' = [work EXCEPT ![c] = IF verdict = "aim" THEN "aiming" ELSE "replying"]
              /\ done' = [done EXCEPT ![c] = @ + 1]
              /\ again' = [again EXCEPT ![c] = s] /\ s \in BOOLEAN
          BY <3>0, <3>1 DEF Starts
        <4>2. work' \in [Command -> Stage] /\ done' \in [Command -> Nat]
          BY <4>1 DEF TypeOK, Stage
        <4>3. again' \in [Command -> BOOLEAN]
          BY <4>1 DEF TypeOK
        <4> QED BY <4>2, <4>3
      <3>3. \A d \in Command : work'[d] # "none" => d \in handled'
        BY <3>1 DEF Starts, TypeOK
      <3>4. Busy(work') = Busy(work) \cup {c}
        BY <3>1, BusyAdds DEF Starts
      <3>5. Cardinality(Busy(work')) \in Nat
        BY <3>4, FS_AddElement, CountIsNatural
      <3>6. peak' \in Nat
        BY <3>1, <3>5 DEF Starts, TypeOK
      <3> QED BY <3>1, <3>2, <3>3, <3>6 DEF TypeOK
    <2>2. CASE ~(c \notin handled /\ enabled /\ ReplyBudgetLeft /\ verdict # "unknown")
      BY <1>1, <2>2 DEF Hear, TypeOK
    <2> QED BY <2>1, <2>2
  <1>2. ASSUME NEW c \in Command, NEW threw \in BOOLEAN, Aimed(c, threw)
        PROVE  TypeOK'
    BY <1>2 DEF Aimed, TypeOK, Stage
  <1>3. ASSUME NEW c \in Command, GatewayTakes(c) \/ Replied(c) \/ ReplyFails(c)
        PROVE  TypeOK'
    <2>1. CASE GatewayTakes(c)
      BY <2>1 DEF GatewayTakes, TypeOK, Stage
    <2>2. CASE Replied(c)
      BY <2>2 DEF Replied, TypeOK, Stage
    <2>3. CASE ReplyFails(c)
      <3>1. PICK s \in {"over", "replying"} : work' = [work EXCEPT ![c] = s]
        BY <2>3 DEF ReplyFails
      <3> QED BY <2>3, <3>1 DEF ReplyFails, TypeOK, Stage
    <2> QED BY <1>3, <2>1, <2>2, <2>3
  <1>4. CASE ReplyAges
    BY <1>4 DEF ReplyAges, TypeOK
  <1>5. ASSUME NEW on \in BOOLEAN, NEW max \in 0 .. MaxConfig, Configure(on, max)
        PROVE  TypeOK'
    BY <1>5, AutomationAssumption DEF Configure, TypeOK
  <1>6. CASE UNCHANGED vars
    BY <1>6 DEF vars, TypeOK
  <1> QED BY <1>1, <1>2, <1>3, <1>4, <1>5, <1>6 DEF Next

LEMMA OnceStep ==
  ASSUME TypeOK, Once, [Next]_vars
  PROVE  Once'
  <1>1. ASSUME NEW c \in Command, NEW verdict \in Verdicts, Hear(c, verdict)
        PROVE  Once'
    <2>1. CASE c \notin handled /\ enabled /\ ReplyBudgetLeft /\ verdict # "unknown"
      <3>1. Starts(c, verdict) /\ onAir' = onAir
        BY <1>1, <2>1 DEF Hear
      <3>2. work[c] = "none"
        BY <2>1 DEF TypeOK
      <3>3. done[c] = 0 /\ onAir[c] = 0
        BY <3>2 DEF Once
      <3>4. \A d \in Command : d # c => work'[d] = work[d] /\ again'[d] = again[d]
                                        /\ done'[d] = done[d] /\ onAir'[d] = onAir[d]
        BY <3>1 DEF Starts, TypeOK
      <3>5. work'[c] \in {"aiming", "replying"} /\ done'[c] = 1 /\ onAir'[c] = 0
        <4>1. /\ work' = [work EXCEPT ![c] = IF verdict = "aim" THEN "aiming" ELSE "replying"]
              /\ done' = [done EXCEPT ![c] = @ + 1]
          BY <3>1 DEF Starts
        <4> QED BY <3>1, <3>3, <4>1 DEF TypeOK
      <3> QED BY <3>4, <3>5 DEF Once
    <2>2. CASE ~(c \notin handled /\ enabled /\ ReplyBudgetLeft /\ verdict # "unknown")
      BY <1>1, <2>2 DEF Hear, Once
    <2> QED BY <2>1, <2>2
  <1>2. ASSUME NEW c \in Command, NEW threw \in BOOLEAN, Aimed(c, threw)
        PROVE  Once'
    BY <1>2 DEF Aimed, Once, TypeOK
  <1>3. ASSUME NEW c \in Command, GatewayTakes(c)
        PROVE  Once'
    BY <1>3 DEF GatewayTakes, Once, TypeOK
  <1>4. ASSUME NEW c \in Command, Replied(c)
        PROVE  Once'
    BY <1>4 DEF Replied, Once, TypeOK
  <1>5. ASSUME NEW c \in Command, ReplyFails(c)
        PROVE  Once'
    BY <1>5 DEF ReplyFails, Once, TypeOK
  <1>6. CASE ReplyAges \/ UNCHANGED vars
    BY <1>6 DEF ReplyAges, vars, Once
  <1>7. ASSUME NEW on \in BOOLEAN, NEW max \in 0 .. MaxConfig, Configure(on, max)
        PROVE  Once'
    BY <1>7 DEF Configure, Once
  <1> QED BY <1>1, <1>2, <1>3, <1>4, <1>5, <1>6, <1>7 DEF Next

LEMMA BudgetStep ==
  ASSUME TypeOK, Budget, [Next]_vars
  PROVE  Budget'
  <1>0. /\ IsFiniteSet(Busy(work)) /\ InWork \in Nat
        /\ replies \in Nat /\ peak \in Nat /\ HardMax \in Nat /\ configMax \in Nat
    BY CountIsNatural, AutomationAssumption DEF Budget, TypeOK, InWork
  <1>1. ASSUME NEW c \in Command, NEW verdict \in Verdicts, Hear(c, verdict)
        PROVE  Budget'
    <2>1. CASE c \notin handled /\ enabled /\ ReplyBudgetLeft /\ verdict # "unknown"
      <3>1. Starts(c, verdict) /\ replies' = replies
        BY <1>1, <2>1 DEF Hear
      <3>2. Busy(work') = Busy(work) \cup {c}
        BY <3>1, BusyAdds DEF Starts
      <3>3. IsFiniteSet(Busy(work')) /\ Cardinality(Busy(work')) \in Nat
        BY <3>2, <1>0, FS_AddElement, CountIsNatural
      <3>4. Cardinality(Busy(work')) <= peak' /\ peak' \in Nat
        <4> DEFINE n == Cardinality(Busy(work'))
        <4>1. peak' = IF n > peak THEN n ELSE peak
          BY <3>1 DEF Starts
        <4>2. n \in Nat
          BY <3>3
        <4> HIDE DEF n
        <4>3. n <= peak' /\ peak' \in Nat
          BY <4>1, <4>2, <1>0
        <4> QED BY <4>3 DEF n
      <3>5. replies + 1 <= HardMax
        BY <2>1, <1>0 DEF ReplyBudgetLeft
      <3> QED BY <1>0, <3>1, <3>3, <3>4, <3>5 DEF Budget, InWork
    <2>2. CASE ~(c \notin handled /\ enabled /\ ReplyBudgetLeft /\ verdict # "unknown")
      BY <1>1, <2>2 DEF Hear, Budget, InWork
    <2> QED BY <2>1, <2>2
  <1>2. ASSUME NEW c \in Command, c \in Busy(work), replies' = replies, peak' = peak,
               NEW s \in {"aiming", "replying", "sent"}, work' = [work EXCEPT ![c] = s]
        PROVE  Budget'
    <2>1. Busy(work') = Busy(work)
      BY <1>2, BusyAdds
    <2> QED BY <2>1, <1>2 DEF Budget, InWork
  <1>3. ASSUME NEW c \in Command, c \in Busy(work), work' = [work EXCEPT ![c] = "over"],
               replies' \in {replies, replies + 1}, peak' = peak
        PROVE  Budget'
    <2>1. Busy(work') = Busy(work) \ {c}
      BY <1>3, BusyRemoves
    <2>2. IsFiniteSet(Busy(work')) /\ InWork' = InWork - 1
      BY <2>1, <1>0, <1>3, FS_RemoveElement DEF InWork
    <2>3. InWork' \in Nat
      BY <2>2, CountIsNatural DEF InWork
    <2>4. InWork > 0 /\ replies + InWork + 1 <= HardMax + peak
      BY <1>0, <2>2, <2>3 DEF Budget
    <2>5. (replies' = replies \/ replies' = replies + 1) /\ peak' = peak /\ InWork' = InWork - 1
      BY <1>3, <2>2
    <2>6. replies' + InWork' + 1 <= HardMax + peak'
      BY <1>0, <2>4, <2>5
    <2> QED BY <2>2, <2>6 DEF Budget
  <1>4. ASSUME NEW c \in Command, NEW threw \in BOOLEAN, Aimed(c, threw)
        PROVE  Budget'
    BY <1>2, <1>4 DEF Aimed, Busy
  <1>5. ASSUME NEW c \in Command, GatewayTakes(c)
        PROVE  Budget'
    BY <1>2, <1>5 DEF GatewayTakes, Busy
  <1>6. ASSUME NEW c \in Command, Replied(c)
        PROVE  Budget'
    <2>1. c \in Busy(work) /\ work' = [work EXCEPT ![c] = "over"] /\ peak' = peak
      BY <1>6 DEF Replied, Busy
    <2>2. replies' \in {replies, replies + 1}
      BY <1>0, <1>6 DEF Replied
    <2> QED BY <1>3, <2>1, <2>2
  <1>7. ASSUME NEW c \in Command, ReplyFails(c)
        PROVE  Budget'
    <2>1. c \in Busy(work) /\ replies' = replies /\ peak' = peak
      BY <1>7 DEF ReplyFails, Busy
    <2>2. CASE again[c]
      <3>1. work' = [work EXCEPT ![c] = "over"]
        BY <1>7, <2>2 DEF ReplyFails
      <3>2. replies' \in {replies, replies + 1}
        BY <1>0, <2>1
      <3> QED BY <1>3, <2>1, <3>1, <3>2
    <2>3. CASE ~again[c]
      BY <1>2, <1>7, <2>1, <2>3 DEF ReplyFails
    <2> QED BY <2>2, <2>3
  <1>8. CASE ReplyAges
    BY <1>0, <1>8 DEF ReplyAges, Budget, InWork
  <1>9. ASSUME NEW on \in BOOLEAN, NEW max \in 0 .. MaxConfig, Configure(on, max)
        PROVE  Budget'
    BY <1>9 DEF Configure, Budget, InWork
  <1>10. CASE UNCHANGED vars
    BY <1>10 DEF vars, Budget, InWork
  <1> QED BY <1>1, <1>4, <1>5, <1>6, <1>7, <1>8, <1>9, <1>10 DEF Next

-----------------------------------------------------------------------------
IInv == TypeOK /\ Once /\ Budget

LEMMA InvInit == Init => IInv
  <1> SUFFICES ASSUME Init PROVE IInv
    OBVIOUS
  <1>1. TypeOK /\ Once
    BY TypeInit DEF Init, Once
  <1>2. Busy(work) = {} /\ replies = 0
    BY DEF Init, Busy
  <1>3. Budget
    BY <1>2, FS_EmptySet DEF Budget, InWork
  <1> QED BY <1>1, <1>3 DEF IInv

LEMMA InvStep == IInv /\ [Next]_vars => IInv'
  BY TypeStep, OnceStep, BudgetStep DEF IInv, Budget

(* The strengthening holds throughout.                                      *)
THEOREM Invariance == Spec => []IInv
  <1> QED BY InvInit, InvStep, PTL DEF Spec

(* Every variable keeps to its values, and only what was handled is worked  *)
(* on.                                                                      *)
THEOREM TypeCorrect == Spec => []TypeOK
  <1>1. IInv => TypeOK
    BY DEF IInv
  <1> QED BY <1>1, Invariance, PTL

(* However many radios hear a command and however often the bridge          *)
(* reconnects, the rotator moves once for it, and it is answered once, or   *)
(* twice when the first answer's fate was not learnt.                       *)
THEOREM CommandsOnce == Spec => []OncePerCommand
  <1>1. IInv => OncePerCommand
    BY DEF IInv, TypeOK, Stage, Once, OncePerCommand
  <1> QED BY <1>1, Invariance, PTL

(* The hour's replies go over the ceiling by no more than the commands that *)
(* were in work together, whatever the configuration says.                  *)
THEOREM HourlyCeiling == Spec => []CeilingHolds
  <1>1. IInv => CeilingHolds
    <2> SUFFICES ASSUME IInv, replies > 0 PROVE replies + 1 <= HardMax + peak
      BY DEF CeilingHolds
    <2>1. InWork \in Nat /\ replies \in Nat /\ peak \in Nat /\ HardMax \in Nat
      BY CountIsNatural, AutomationAssumption DEF IInv, Budget, TypeOK, InWork
    <2> QED BY <2>1 DEF IInv, Budget
  <1> QED BY <1>1, Invariance, PTL

-----------------------------------------------------------------------------
(* PacketStore.  StoreInv keeps to one row of each table what the           *)
(* properties say of both.  TablesAgree and NoPositionIsStranded are not    *)
(* kept by the cache alone: a report that is stale for the row must be      *)
(* stale for the cache, which has no time of its own, and a report that     *)
(* gives the cache a position must have been let into the row before.       *)

Typed ==
  /\ row \in Row \cup {None} /\ info \in InfoRow \cup {None}
  /\ signals \subseteq Signal

Heard ==
  /\ now \in 0 .. MaxTime
  /\ kind \in Seq(Kind) /\ Len(kind) = now
  /\ air \subseteq Reception
  /\ newest \in 0 .. MaxTime
  /\ cleared \in BOOLEAN

(* The signal the row shows has its sample, and every sample is of a        *)
(* reception straight from the node.                                        *)
Shows  == row # None => row.signal \in signals \cup {None}
Direct == \A s \in signals : \E a \in air : ~a.relayed /\ s = <<a.packet, a.radio>>

(* A row with a name has a cached one, the same; a cached one has its row,  *)
(* with a position if it has one itself.                                    *)
Agrees(r, i) == r # None /\ r.name # 0 => i # None /\ i.name = r.name
Placed(r, i) == i # None => r # None /\ (i.pos # 0 => r.pos # 0)

StoreInv ==
  /\ Typed /\ Heard /\ Shows /\ Direct
  /\ Agrees(row, info)
  /\ ~cleared => Placed(row, info)

(* A row that is there before and after a step is heard no earlier.         *)
Forward ==
  row # None /\ row' # None => row'.heard >= row.heard /\ row'.rf >= row.rf

(* A nonempty set of numbers has a least, and a bounded one a greatest,     *)
(* which is what Max chooses.                                               *)
LEMMA Least == ASSUME NEW S \in SUBSET Nat, S # {} PROVE \E x \in S : \A y \in S : x <= y
  <1> DEFINE R == OpToRel(<, Nat)
  <1>1. IsWellFoundedOn(R, Nat)
    BY NatLessThanWellFounded
  <1>2. \A x, y \in Nat : y < x => <<y, x>> \in R
    BY DEF OpToRel
  <1> HIDE DEF R
  <1>3. PICK x \in S : \A y \in S : <<y, x>> \notin R
    BY <1>1, WFMin
  <1>4. ASSUME NEW y \in S PROVE x <= y
    <2>1. x \in Nat /\ y \in Nat /\ ~(y < x)
      BY <1>2, <1>3
    <2> QED BY <2>1
  <1> QED BY <1>4

LEMMA Greatest ==
  ASSUME NEW b \in Nat, NEW S \in SUBSET (0 .. b), S # {}
  PROVE  Max(S) \in S /\ \A y \in S : y <= Max(S)
  <1> DEFINE T == {n \in Nat : \E x \in S : n = b - x}
  <1>1. T \in SUBSET Nat
    OBVIOUS
  <1>2. T # {}
    <2>1. PICK x \in S : TRUE
      OBVIOUS
    <2>2. b - x \in T
      OBVIOUS
    <2> QED BY <2>2
  <1>3. PICK t \in T : \A u \in T : t <= u
    BY <1>1, <1>2, Least
  <1>4. PICK x \in S : t = b - x
    BY <1>3
  <1>5. ASSUME NEW y \in S PROVE x >= y
    <2>1. b - y \in T
      OBVIOUS
    <2>2. b - x <= b - y
      BY <1>3, <1>4, <2>1
    <2> QED BY <2>2
  <1>6. \E z \in S : \A y \in S : z >= y
    BY <1>5
  <1>7. Max(S) \in S /\ \A y \in S : Max(S) >= y
    BY <1>6 DEF Max
  <1> QED BY <1>7

LEMMA LatestBounds ==
  ASSUME NEW b \in Nat, NEW S \in SUBSET (0 .. b)
  PROVE  Latest(S) \in 0 .. b /\ Latest(S) \in S \cup {0} /\ \A x \in S : x <= Latest(S)
  <1>1. S \cup {0} \in SUBSET (0 .. b)
    OBVIOUS
  <1> QED BY <1>1, Greatest DEF Latest

-----------------------------------------------------------------------------
(* A row stays a row whatever is merged into it; upsertNode moves its time  *)
(* forward only, and forgets no position.                                   *)
LEMMA UpsertTyped ==
  ASSUME row \in Row \cup {None}, NEW new \in Row
  PROVE  /\ Upserted(new) \in Row
         /\ row # None => Upserted(new).heard >= row.heard /\ Upserted(new).rf = row.rf
         /\ IF row = None THEN Upserted(new).signal = new.signal
                          ELSE Upserted(new).signal \in {row.signal, new.signal}
  <1>1. CASE row = None
    BY <1>1 DEF Upserted
  <1>2. CASE row # None /\ IsStale(new.heard, row.heard)
    BY <1>2, StoreAssumption DEF Upserted, Row, Time
  <1>3. CASE row # None /\ ~IsStale(new.heard, row.heard)
    <2>1. row \in Row /\ Upserted(new) = Merged(row, new)
      BY <1>3 DEF Upserted
    <2>2. /\ Merged(row, new).heard = Coalesce(new.heard, row.heard)
          /\ Merged(row, new).name = Coalesce(new.name, row.name)
          /\ Merged(row, new).pos = Coalesce(new.pos, row.pos)
          /\ Merged(row, new).rf = row.rf
          /\ Merged(row, new).signal = IF new.signal = None THEN row.signal ELSE new.signal
      BY <2>1 DEF Merged, Row
    <2>3. Merged(row, new) \in Row
      BY <2>1 DEF Merged, Row, Coalesce
    <2>4. Coalesce(new.heard, row.heard) >= row.heard
      BY <1>3, <2>1, StoreAssumption DEF Coalesce, IsStale, Row, Time
    <2> QED BY <1>3, <2>1, <2>2, <2>3, <2>4
  <1> QED BY <1>1, <1>2, <1>3

(* upsertNode and then _upsertCache(): the two tables agree as before.       *)
LEMMA ReportTurn ==
  ASSUME row \in Row \cup {None}, info \in InfoRow \cup {None}, NEW new \in Row
  PROVE  /\ Cached(new) \in InfoRow \cup {None}
         /\ Agrees(row, info) => Agrees(Upserted(new), Cached(new))
         /\ Placed(row, info) => Placed(Upserted(new), Cached(new))
  <1> DEFINE u == Upserted(new)
  <1>0. u \in Row /\ u # None
    BY UpsertTyped, StoreAssumption
  <1>1. CASE row = None
    <2>1. u = new /\ ~IsStale(new.heard, u.heard)
      BY <1>1, StoreAssumption DEF Upserted, IsStale, Row, Time
    <2> QED BY <1>0, <1>1, <2>1, StoreAssumption DEF Cached, Agrees, Placed, Row, InfoRow, Coalesce
  <1>2. CASE row # None /\ IsStale(new.heard, row.heard)
    <2>1. u = row /\ Cached(new) = info
      BY <1>2 DEF Upserted, Cached
    <2> QED BY <2>1
  <1>3. CASE row # None /\ ~IsStale(new.heard, row.heard)
    <2>1. row \in Row
      BY <1>3
    <2>2. /\ u.heard = Coalesce(new.heard, row.heard)
          /\ u.name = Coalesce(new.name, row.name)
          /\ u.pos = Coalesce(new.pos, row.pos)
      BY <1>3, <2>1 DEF Merged, Row, Upserted
    <2>3. ~IsStale(new.heard, u.heard)
      BY <1>3, <2>1, <2>2, StoreAssumption DEF Coalesce, IsStale, Row, Time
    <2>4. CASE new.name = 0
      <3>1. Cached(new) = info /\ u.name = row.name /\ (row.pos # 0 => u.pos # 0)
        BY <2>2, <2>4 DEF Cached, Coalesce
      <3> QED BY <1>0, <1>3, <3>1 DEF Agrees, Placed
    <2>5. CASE new.name # 0 /\ info = None
      <3>1. Cached(new) = [name |-> new.name, pos |-> new.pos]
        BY <2>3, <2>5 DEF Cached
      <3>2. u.name = new.name /\ (new.pos # 0 => u.pos # 0)
        BY <2>2, <2>5 DEF Coalesce
      <3>3. Cached(new) \in InfoRow
        BY <3>1 DEF Row, InfoRow
      <3> QED BY <1>0, <3>1, <3>2, <3>3, StoreAssumption DEF Agrees, Placed
    <2>6. CASE new.name # 0 /\ info # None
      <3>1. Cached(new) = [name |-> new.name, pos |-> Coalesce(new.pos, info.pos)]
        BY <2>3, <2>6 DEF Cached
      <3>2. u.name = new.name /\ (new.pos # 0 \/ row.pos # 0 => u.pos # 0)
        BY <2>2, <2>6 DEF Coalesce
      <3>3. Cached(new) \in InfoRow
        BY <2>6, <3>1 DEF Row, InfoRow, Coalesce
      <3>4. Cached(new).pos # 0 => new.pos # 0 \/ info.pos # 0
        BY <3>1 DEF Coalesce
      <3> QED BY <1>0, <1>3, <2>6, <3>1, <3>2, <3>3, <3>4, StoreAssumption DEF Agrees, Placed
    <2> QED BY <2>4, <2>5, <2>6
  <1> QED BY <1>1, <1>2, <1>3

LEMMA MaxOfTwo ==
  ASSUME NEW x \in Int, NEW y \in Int
  PROVE  Max({x, y}) \in {x, y} /\ Max({x, y}) >= x /\ Max({x, y}) >= y
  <1>1. \E z \in {x, y} : \A w \in {x, y} : z >= w
    <2>1. CASE x >= y
      BY <2>1
    <2>2. CASE ~(x >= y)
      BY <2>2
    <2> QED BY <2>1, <2>2
  <1> QED BY <1>1 DEF Max

LEMMA LatestTwo ==
  ASSUME NEW x \in Nat, NEW y \in Nat
  PROVE  Latest({x, y}) \in {x, y, 0} /\ Latest({x, y}) >= x /\ Latest({x, y}) >= y
  <1>1. {x, y} \in SUBSET (0 .. x + y)
    OBVIOUS
  <1> QED BY <1>1, LatestBounds

(* touchRfHeard changes the two times of the row, forward.                  *)
LEMMA StampTurn ==
  ASSUME NEW r \in Row \cup {None}, NEW t \in 0 .. MaxTime
  PROVE  LET s == Stamped(r, t) IN
         /\ s \in Row \cup {None}
         /\ r = None => s = None
         /\ r # None => s # None /\ s.name = r.name /\ s.pos = r.pos /\ s.signal = r.signal
         /\ r # None => s.heard >= r.heard /\ s.rf >= r.rf
  <1>1. CASE r = None
    BY <1>1 DEF Stamped
  <1>2. CASE r # None
    <2> DEFINE h == Latest({r.heard, t})
               f == Latest({r.rf, t})
    <2>1. r \in Row /\ Stamped(r, t) = [r EXCEPT !.heard = h, !.rf = f]
      BY <1>2 DEF Stamped
    <2>2. /\ r.heard \in Time /\ r.rf \in 0 .. MaxTime
          /\ r.heard \in Nat /\ r.rf \in Nat /\ t \in Nat /\ t \in Time /\ 0 \in Time /\ 0 \in 0 .. MaxTime
      BY <2>1, StoreAssumption DEF Row, Time
    <2>3. h \in Time /\ h >= r.heard /\ f \in 0 .. MaxTime /\ f >= r.rf
      BY <2>2, LatestTwo
    <2> HIDE DEF h, f
    <2>4. Stamped(r, t) \in Row
      BY <2>1, <2>3 DEF Row
    <2> QED BY <1>2, <2>1, <2>3, <2>4, StoreAssumption DEF Row
  <1> QED BY <1>1, <1>2

LEMMA ReportIsRow ==
  ASSUME NEW t \in Time, NEW name \in 0 .. MaxTime, NEW pos \in 0 .. MaxTime, NEW signal \in Signal \cup {None}
  PROVE  LET new == Report(t, name, pos, signal) IN
         /\ new \in Row /\ new.name = name /\ new.signal = signal
  BY StoreAssumption DEF Report, Row

(* What upsertNode leaves of the row, of any kind of packet.                *)
LEMMA KeptTurn ==
  ASSUME Typed, NEW k, NEW new \in Row
  PROVE  /\ Kept(k, new) \in Row \cup {None}
         /\ row # None => /\ Kept(k, new) # None
                          /\ Kept(k, new).heard >= row.heard /\ Kept(k, new).rf = row.rf
         /\ Kept(k, new) # None /\ new.signal = None => Kept(k, new).signal \in {None} \cup {r.signal : r \in {row} \ {None}}
         /\ Kept(k, new) # None => Kept(k, new).signal \in {new.signal} \cup {r.signal : r \in {row} \ {None}}
         /\ k \in {"text", "sealed"} => Kept(k, new) = row
         /\ new.name = 0 => Cached(new) = info
         /\ new.name = 0 \/ k = "info" =>
              /\ Agrees(row, info) => Agrees(Kept(k, new), Cached(new))
              /\ Placed(row, info) => Placed(Kept(k, new), Cached(new))
  <1>1. new.name = 0 => Cached(new) = info
    BY DEF Cached
  <1>2. row # None => row.heard >= row.heard
    BY StoreAssumption DEF Typed, Row, Time
  <1>3. CASE Kept(k, new) = row
    <2>1. new.name # 0 /\ k = "info" => Kept(k, new) = Upserted(new)
      BY DEF Kept
    <2> QED BY <1>1, <1>2, <1>3, <2>1, ReportTurn DEF Typed, Kept
  <1>4. CASE Kept(k, new) = Upserted(new) /\ k \notin {"text", "sealed"}
    BY <1>1, <1>4, UpsertTyped, ReportTurn, StoreAssumption DEF Typed
  <1> QED BY <1>3, <1>4 DEF Kept

(* A packet stored as handlePacket() does, with the stamp after it.         *)
LEMMA StoreTurn ==
  ASSUME Typed, Shows, NEW p \in 0 .. MaxTime, NEW r \in Radio, NEW k, NEW t \in 0 .. MaxTime,
         NEW name \in 0 .. MaxTime, NEW direct \in BOOLEAN, Store(p, r, k, t, name, direct)
  PROVE  /\ Typed' /\ Shows' /\ Forward
         /\ Agrees(row, info) => Agrees(row', info')
         /\ Placed(row, info) => Placed(row', info')
         /\ signals' = signals \/ (direct /\ signals' = signals \cup {<<p, r>>})
  <1> DEFINE signal == IF direct THEN <<p, r>> ELSE None
             report == Report(t, IF k = "info" THEN name ELSE 0, IF k = "position" THEN name ELSE 0, signal)
             kept   == Kept(k, report)
  <1>0. /\ signals' = Captured(p, r, direct /\ k # "sealed")
        /\ row' = Stamped(kept, t)
        /\ info' = IF k = "info" THEN Cached(report) ELSE info
    BY DEF Store
  <1>1. signal \in Signal \cup {None} /\ t \in Time /\ 0 \in 0 .. MaxTime
    BY StoreAssumption DEF Signal, Time
  <1>2. report \in Row /\ report.name = (IF k = "info" THEN name ELSE 0) /\ report.signal = signal
    BY <1>1, ReportIsRow
  <1> HIDE DEF report
  <1>3. /\ kept \in Row \cup {None}
        /\ row # None => kept # None /\ kept.heard >= row.heard /\ kept.rf = row.rf
        /\ kept # None => kept.signal \in {signal} \cup {x.signal : x \in {row} \ {None}}
        /\ k \in {"text", "sealed"} => kept = row
        /\ Agrees(row, info) => Agrees(kept, info')
        /\ Placed(row, info) => Placed(kept, info')
    BY <1>0, <1>2, KeptTurn
  <1> HIDE DEF kept
  <1>4. /\ row' \in Row \cup {None}
        /\ kept = None => row' = None
        /\ kept # None => /\ row' # None /\ row'.name = kept.name /\ row'.pos = kept.pos /\ row'.signal = kept.signal
                          /\ row'.heard >= kept.heard /\ row'.rf >= kept.rf
    BY <1>0, <1>3, StampTurn
  <1>5. info' \in InfoRow \cup {None}
    BY <1>0, <1>2, ReportTurn DEF Typed
  <1>6. signals' = signals \/ (direct /\ signals' = signals \cup {<<p, r>>})
    BY <1>0 DEF Captured
  <1>7. signals' \subseteq Signal
    BY <1>6 DEF Typed, Signal
  <1>8. Forward
    <2>1. ASSUME row # None PROVE row'.heard >= row.heard /\ row'.rf >= row.rf
      <3>1. kept # None /\ kept.heard >= row.heard /\ kept.rf = row.rf /\ row'.heard >= kept.heard /\ row'.rf >= kept.rf
        BY <1>3, <1>4, <2>1
      <3>2. row.heard \in Int /\ kept.heard \in Int /\ row'.heard \in Int
        BY <1>3, <1>4, <2>1, <3>1, StoreAssumption DEF Typed, Row, Time
      <3> QED BY <3>1, <3>2
    <2> QED BY <2>1 DEF Forward
  <1>9. Shows'
    <2>1. ASSUME row' # None PROVE row'.signal \in signals' \cup {None}
      <3>1. kept # None /\ row'.signal = kept.signal
        BY <1>4, <2>1
      <3>2. CASE k \in {"text", "sealed"}
        BY <1>3, <1>6, <3>1, <3>2 DEF Shows
      <3>3. CASE k \notin {"text", "sealed"}
        <4>1. direct => <<p, r>> \in signals'
          BY <1>0, <3>3 DEF Captured
        <4>2. row # None => row.signal \in signals' \cup {None}
          BY <1>6 DEF Shows
        <4> QED BY <1>3, <3>1, <4>1, <4>2
      <3> QED BY <3>2, <3>3
    <2> QED BY <2>1 DEF Shows
  <1>10. (Agrees(row, info) => Agrees(row', info')) /\ (Placed(row, info) => Placed(row', info'))
    BY <1>3, <1>4 DEF Agrees, Placed
  <1> QED BY <1>4, <1>5, <1>6, <1>7, <1>8, <1>9, <1>10 DEF Typed

(* The radio's memory of the node holds times of packets, or nothing.       *)
LEMMA Remembered ==
  ASSUME Heard, NEW r
  PROVE  Latest(HeardBy(r)) \in 0 .. MaxTime /\ \A k : Remembers(r, k) \in 0 .. MaxTime
  <1>1. HeardBy(r) \in SUBSET (0 .. MaxTime)
    BY StoreAssumption DEF HeardBy, Heard, Reception, Packet
  <1>2. \A k : {p \in HeardBy(r) : kind[p] = k} \in SUBSET (0 .. MaxTime)
    BY <1>1
  <1> QED BY <1>1, <1>2, LatestBounds, StoreAssumption DEF Remembers

LEMMA StoreInitHolds == StoreInit => StoreInv
  <1> SUFFICES ASSUME StoreInit PROVE StoreInv
    OBVIOUS
  <1>1. kind \in Seq(Kind) /\ Len(kind) = 0
    BY DEF StoreInit
  <1>2. Heard /\ Typed
    <2>1. now \in 0 .. MaxTime /\ newest \in 0 .. MaxTime /\ now = 0
      BY StoreAssumption DEF StoreInit
    <2>2. air \subseteq Reception /\ cleared \in BOOLEAN
      BY DEF StoreInit
    <2>3. Typed
      BY DEF StoreInit, Typed
    <2> QED BY <1>1, <2>1, <2>2, <2>3 DEF Heard
  <1>3. Shows /\ Direct /\ Agrees(row, info) /\ Placed(row, info)
    BY DEF StoreInit, Shows, Direct, Agrees, Placed
  <1> QED BY <1>2, <1>3 DEF StoreInv

(* One case for each action of StoreNext.                                   *)
LEMMA StoreStep ==
  ASSUME StoreInv, [StoreNext]_storeVars
  PROVE  StoreInv' /\ Forward
  <1>0. row # None => row.heard >= row.heard /\ row.rf >= row.rf
    BY StoreAssumption DEF StoreInv, Typed, Row, Time
  <1>1. CASE Send
    <2>1. /\ now' \in 0 .. MaxTime /\ now' \in Packet /\ now' = now + 1
          /\ UNCHANGED <<row, info, signals, newest, cleared>>
      BY <1>1, StoreAssumption DEF Send, StoreInv, Heard, tables, Packet
    <2>2. kind' \in Seq(Kind) /\ Len(kind') = now'
      BY <1>1, <2>1 DEF Send, StoreInv, Heard
    <2>3. air' \subseteq Reception /\ air \subseteq air'
      <3>1. PICK H \in SUBSET Radio, D \in SUBSET Radio :
              air' = air \cup {[packet |-> now', radio |-> r, relayed |-> r \notin D] : r \in H}
        BY <1>1 DEF Send
      <3>2. \A r \in H : [packet |-> now', radio |-> r, relayed |-> r \notin D] \in Reception
        BY <2>1 DEF Reception
      <3> QED BY <3>1, <3>2 DEF StoreInv, Heard
    <2> QED BY <1>0, <2>1, <2>2, <2>3 DEF StoreInv, Typed, Heard, Shows, Direct, Forward
  <1>2. ASSUME NEW a \in air, Deliver(a) PROVE StoreInv' /\ Forward
    <2>1. PICK hops \in {0, 1} :
            Store(a.packet, a.radio, kind[a.packet], a.packet, a.packet, IsDirectPacket(a.relayed, hops, FALSE))
      BY <1>2 DEF Deliver
    <2>2. a \in Reception /\ a.packet \in 0 .. MaxTime /\ a.radio \in Radio
      BY StoreAssumption DEF StoreInv, Heard, Reception, Packet
    <2>3. IsDirectPacket(a.relayed, hops, FALSE) \in BOOLEAN
          /\ (IsDirectPacket(a.relayed, hops, FALSE) => ~a.relayed)
      BY DEF IsDirectPacket
    <2>4. /\ Typed' /\ Shows' /\ Forward
          /\ Agrees(row, info) => Agrees(row', info')
          /\ Placed(row, info) => Placed(row', info')
          /\ signals' = signals \/ (~a.relayed /\ signals' = signals \cup {<<a.packet, a.radio>>})
      BY <2>1, <2>2, <2>3, StoreTurn DEF StoreInv
    <2>5. UNCHANGED <<now, kind, air, cleared>> /\ newest' \in 0 .. MaxTime
      <3>1. newest \in Nat /\ a.packet \in Nat /\ newest \in 0 .. MaxTime /\ 0 \in 0 .. MaxTime
        BY <2>2, StoreAssumption DEF StoreInv, Heard
      <3> QED BY <1>2, <2>2, <3>1, LatestTwo DEF Deliver
    <2>6. Direct'
      BY <2>4, <2>5 DEF StoreInv, Direct
    <2> QED BY <2>4, <2>5, <2>6 DEF StoreInv, Heard
  <1>3. ASSUME NEW a \in air, TypedEvent(a) PROVE StoreInv' /\ Forward
    <2>1. /\ a.packet = now /\ now \in 0 .. MaxTime /\ now \in Nat /\ now \in Time /\ 0 \in 0 .. MaxTime
          /\ UNCHANGED <<now, kind, air, signals, newest, cleared>>
      BY <1>3, StoreAssumption DEF TypedEvent, StoreInv, Heard, Time
    <2>2. PICK t \in IF kind[now] \in Metrics THEN {DeviceTime(d) : d \in Max({1, now - Skew}) .. now + Skew} ELSE {now} :
            LET report == Report(t, IF kind[now] = "info" THEN now ELSE 0,
                               IF kind[now] = "position" THEN now ELSE 0, None)
            IN  row' = Kept(kind[now], report) /\ info' = Cached(report)
      BY <1>3 DEF TypedEvent
    <2>3. t \in Time
      <3>1. CASE t = now
        BY <2>1, <3>1
      <3>2. CASE \E d \in Max({1, now - Skew}) .. now + Skew : t = DeviceTime(d)
        <4>1. PICK d \in Max({1, now - Skew}) .. now + Skew : t = DeviceTime(d)
          BY <3>2
        <4>2. Max({1, now - Skew}) \in Int /\ Max({1, now - Skew}) >= 1
          <5>1. 1 \in Int /\ now - Skew \in Int
            BY <2>1, StoreAssumption
          <5> QED BY <5>1, MaxOfTwo
        <4>3. d \in Int /\ d >= 1
          BY <4>2, <2>1, StoreAssumption
        <4>4. CASE Abs(d - now) <= Grace
          BY <2>1, <4>1, <4>3, <4>4, StoreAssumption DEF Abs, DeviceTime, Time
        <4>5. CASE ~(Abs(d - now) <= Grace)
          BY <2>1, <4>1, <4>5 DEF DeviceTime
        <4> QED BY <4>4, <4>5
      <3> QED BY <2>2, <3>1, <3>2
    <2> DEFINE name == IF kind[now] = "info" THEN now ELSE 0
               pos == IF kind[now] = "position" THEN now ELSE 0
               report == Report(t, name, pos, None)
    <2>4. report \in Row /\ report.name = name /\ report.signal = None
      BY <2>1, <2>3, ReportIsRow
    <2>5. row' = Kept(kind[now], report) /\ info' = Cached(report)
      BY <2>2
    <2>6. report.name = 0 \/ kind[now] = "info"
      BY <2>4
    <2> HIDE DEF report
    <2>7. /\ row' \in Row \cup {None} /\ info' \in InfoRow \cup {None}
          /\ Agrees(row', info') /\ (Placed(row, info) => Placed(row', info'))
          /\ row # None => row'.heard >= row.heard /\ row'.rf = row.rf
          /\ row' # None => row'.signal \in {None} \cup {r.signal : r \in {row} \ {None}}
      BY <2>4, <2>5, <2>6, KeptTurn, ReportTurn DEF StoreInv, Typed
    <2> QED BY <1>0, <2>1, <2>7 DEF StoreInv, Typed, Heard, Shows, Direct, Forward
  <1>4. ASSUME NEW r \in Radio, ReplayPacket(r) PROVE StoreInv' /\ Forward
    <2>1. /\ Latest(HeardBy(r)) \in 0 .. MaxTime /\ Remembers(r, "info") \in 0 .. MaxTime /\ 0 \in 0 .. MaxTime
      BY Remembered, StoreAssumption DEF StoreInv
    <2>2. IsDirectPacket(FALSE, 0, TRUE) = FALSE
      BY DEF IsDirectPacket
    <2>3. Store(0, r, "info", Latest(HeardBy(r)), Remembers(r, "info"), FALSE)
      BY <1>4, <2>2 DEF ReplayPacket
    <2>4. /\ Typed' /\ Shows' /\ Forward
          /\ Agrees(row, info) => Agrees(row', info')
          /\ Placed(row, info) => Placed(row', info')
          /\ signals' = signals
      BY <2>1, <2>3, StoreTurn DEF StoreInv
    <2>5. UNCHANGED <<now, kind, air, newest, cleared>>
      BY <1>4 DEF ReplayPacket
    <2> QED BY <2>4, <2>5 DEF StoreInv, Heard, Direct
  <1>5. ASSUME NEW r \in Radio, NodeInfo(r) PROVE StoreInv' /\ Forward
    <2> DEFINE report == Report(Latest(HeardBy(r)), Remembers(r, "info"), Remembers(r, "position"), None)
    <2>1. report \in Row /\ report.signal = None
      <3>1. /\ Latest(HeardBy(r)) \in Time /\ Remembers(r, "info") \in 0 .. MaxTime
            /\ Remembers(r, "position") \in 0 .. MaxTime
        <4>1. /\ Latest(HeardBy(r)) \in 0 .. MaxTime /\ Remembers(r, "info") \in 0 .. MaxTime
              /\ Remembers(r, "position") \in 0 .. MaxTime
          BY Remembered DEF StoreInv
        <4> QED BY <4>1, StoreAssumption DEF Time
      <3> QED BY <3>1, ReportIsRow
    <2>2. row' = Upserted(report) /\ info' = Cached(report) /\ UNCHANGED <<now, kind, air, signals, newest, cleared>>
      BY <1>5 DEF NodeInfo
    <2> HIDE DEF report
    <2>3. /\ row' \in Row /\ info' \in InfoRow \cup {None}
          /\ Agrees(row', info') /\ (Placed(row, info) => Placed(row', info'))
          /\ row # None => row'.heard >= row.heard /\ row'.rf = row.rf
          /\ row'.signal = None \/ (row # None /\ row'.signal = row.signal)
      BY <2>1, <2>2, UpsertTyped, ReportTurn DEF StoreInv, Typed
    <2> QED BY <1>0, <2>2, <2>3 DEF StoreInv, Typed, Heard, Shows, Direct, Forward
  <1>6. CASE ClearNodes
    BY <1>6, StoreAssumption DEF ClearNodes, StoreInv, Typed, Heard, Shows, Direct, Forward, Agrees
  <1>7. CASE UNCHANGED storeVars
    BY <1>0, <1>7 DEF storeVars, StoreInv, Typed, Heard, Shows, Direct, Forward
  <1> QED BY <1>1, <1>2, <1>3, <1>4, <1>5, <1>6, <1>7 DEF StoreNext

(* Every variable of the store keeps to its values: no report, stale,       *)
(* copied or replayed, leaves a row of another shape (persist.js).          *)
THEOREM StoreTyped == StoreSpec => []StoreTypeOK
  <1>1. StoreInv => StoreTypeOK
    BY DEF StoreInv, Typed, Heard, StoreTypeOK
  <1>2. StoreInv /\ [StoreNext]_storeVars => StoreInv'
    BY StoreStep
  <1> QED BY <1>1, <1>2, StoreInitHolds, PTL DEF StoreSpec

(* nodes and nodeinfo never disagree on the name of a node, in whatever     *)
(* order its packets and the memories of the radios arrive                  *)
(* (_upsertCache(), persist.js).                                            *)
THEOREM TablesAlike == StoreSpec => []TablesAgree
  <1>1. StoreInv => TablesAgree
    BY DEF StoreInv, Agrees, TablesAgree
  <1>2. StoreInv /\ [StoreNext]_storeVars => StoreInv'
    BY StoreStep
  <1> QED BY <1>1, <1>2, StoreInitHolds, PTL DEF StoreSpec

(* No relay and no replay ever counts as a signal sample, and the signal    *)
(* shown of a node has its sample (isDirectPacket(), _captureSignal()).     *)
THEOREM SignalsDirect == StoreSpec => []SignalsAreDirect
  <1>1. StoreInv => SignalsAreDirect
    BY DEF StoreInv, Shows, Direct, SignalsAreDirect
  <1>2. StoreInv /\ [StoreNext]_storeVars => StoreInv'
    BY StoreStep
  <1> QED BY <1>1, <1>2, StoreInitHolds, PTL DEF StoreSpec

(* As long as nobody deletes the nodes, no position is in the cache that    *)
(* the row lacks (_upsertCache() after upsertNode).                         *)
THEOREM NotStranded == StoreSpec => []NoPositionIsStranded
  <1>1. StoreInv => NoPositionIsStranded
    BY DEF StoreInv, Placed, NoPositionIsStranded
  <1>2. StoreInv /\ [StoreNext]_storeVars => StoreInv'
    BY StoreStep
  <1> QED BY <1>1, <1>2, StoreInitHolds, PTL DEF StoreSpec

(* The two times of a row never move back, however late, often and out of   *)
(* order its receptions are delivered (upsertNode, touchRfHeard).           *)
THEOREM RowForward == StoreSpec => RowMovesForward
  <1>1. StoreInv /\ [StoreNext]_storeVars
        => /\ StoreInv'
           /\ [row # None /\ row' # None =>
                 row'.heard >= row.heard /\ row'.rf >= row.rf]_storeVars
    BY StoreStep DEF Forward
  <1> QED BY <1>1, StoreInitHolds, PTL DEF StoreSpec, RowMovesForward
=============================================================================
