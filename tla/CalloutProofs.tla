---------------------------- MODULE CalloutProofs ----------------------------
(***************************************************************************)
(* Proofs about Callout.  The row a guard has to read is written only      *)
(* after the send it guards, so no guard is inductive alone: IInv adds     *)
(* that what they found stays true for as long as the send is awaited.     *)
(***************************************************************************)
EXTENDS Callout, MailReplies, FiniteSetTheorems, TLAPS

(* A row is the same to every guard whatever its reply.                     *)
SameRow(r, s) == r.ts = s.ts /\ r.node = s.node /\ r.template = s.template

LEMMA LogIsASequence ==
  ASSUME TypeOK
  PROVE  /\ Rows = 1 .. Len(log) /\ Len(log) \in Nat
         /\ \A i \in Rows : log[i] \in [ts : 1 .. now, node : Node, template : Template,
                                       replied : 1 .. now \cup {None}]
  <1> DEFINE S == [ts : 1 .. now, node : Node, template : Template,
                   replied : 1 .. now \cup {None}]
  <1>1. log \in Seq(S)
    BY DEF TypeOK
  <1> HIDE DEF S
  <1>2. Rows = 1 .. Len(log) /\ Len(log) \in Nat /\ \A i \in Rows : log[i] \in S
    BY <1>1 DEF Rows
  <1> QED BY <1>2 DEF S

LEMMA RowParts ==
  ASSUME TypeOK, NEW i \in Rows
  PROVE  /\ log[i].ts \in Int /\ log[i].ts >= 1 /\ log[i].ts <= now
         /\ log[i].node \in Node /\ log[i].template \in Template
         /\ Ttl[log[i].template] \in Nat
  <1>1. log[i].ts \in 1 .. now /\ log[i].node \in Node /\ log[i].template \in Template
    BY LogIsASequence
  <1>2. now \in Nat
    BY DEF TypeOK
  <1> QED BY <1>1, <1>2, GuardAssumption

LEMMA Numbers ==
  ASSUME TypeOK
  PROVE  /\ now \in Int /\ now >= 1 /\ Day \in Int /\ Day >= 1
         /\ HardMaxPerDay \in Nat /\ HardMinCooldown \in Nat /\ ReplyWindow \in Nat
         /\ ReplyWindow <= HardMinCooldown
         /\ MaxPerDay \in Nat /\ MaxPerDay <= HardMaxPerDay
         /\ Cooldown \in Nat /\ Cooldown >= HardMinCooldown
  <1>0. now \in Nat \ {0}
    BY DEF TypeOK
  <1>1. now \in Int /\ now >= 1 /\ Day \in Int /\ Day >= 1
    BY <1>0, TimeAssumption
  <1>2. /\ HardMaxPerDay \in Nat /\ HardMinCooldown \in Nat /\ ReplyWindow \in Nat
        /\ ReplyWindow <= HardMinCooldown
    BY GuardAssumption
  <1>3. config.maxPerDay \in Nat /\ config.cooldown \in Nat
    BY StoredAssumption DEF TypeOK, Config
  <1> QED BY <1>1, <1>2, <1>3 DEF MaxPerDay, Cooldown

LEMMA RowsAreFinite ==
  ASSUME TypeOK, NEW S \in SUBSET Rows
  PROVE  IsFiniteSet(S) /\ Cardinality(S) \in Nat
  <1>1. Rows = 1 .. Len(log) /\ Len(log) \in Int
    BY LogIsASequence
  <1>2. IsFiniteSet(Rows)
    BY <1>1, FS_Interval
  <1>3. IsFiniteSet(S)
    BY <1>2, FS_Subset
  <1> QED BY <1>3, FS_CardinalityType

LEMMA SmallerCount ==
  ASSUME TypeOK, NEW S \in SUBSET Rows, NEW T \in SUBSET S
  PROVE  Cardinality(T) <= Cardinality(S)
  BY RowsAreFinite, FS_Subset

-----------------------------------------------------------------------------
(* Steps that leave the clock and, up to replies, the log alone.            *)

LEMMA SameRowsKeepHistory ==
  ASSUME IInv, now' = now, Rows' = Rows, \A i \in Rows : SameRow(log'[i], log[i])
  PROVE  /\ LogWithinCeiling' /\ NodesAreLeftInPeace' /\ WordingsRest'
         /\ RowsSince(now - Day)' = RowsSince(now - Day)
  <1>1. \A t : {i \in Rows' : log'[i].ts > t} = {i \in Rows : log[i].ts > t}
    BY DEF SameRow
  <1>2. RowsSince(now - Day)' = RowsSince(now - Day)
    BY <1>1 DEF RowsSince
  <1>3. LogWithinCeiling'
    <2> SUFFICES ASSUME NEW w \in 1 .. now
                 PROVE  Cardinality({i \in {j \in Rows' : log'[j].ts > w - Day} :
                                       log'[i].ts <= w}) <= HardMaxPerDay
      BY DEF LogWithinCeiling, RowsSince
    <2>1. {i \in {j \in Rows' : log'[j].ts > w - Day} : log'[i].ts <= w}
            = {i \in {j \in Rows : log[j].ts > w - Day} : log[i].ts <= w}
      BY DEF SameRow
    <2>2. Cardinality({i \in {j \in Rows : log[j].ts > w - Day} : log[i].ts <= w})
            <= HardMaxPerDay
      BY DEF IInv, LogWithinCeiling, RowsSince
    <2> QED BY <2>1, <2>2
  <1>4. NodesAreLeftInPeace'
    BY DEF IInv, NodesAreLeftInPeace, SameRow
  <1>5. WordingsRest'
    BY DEF IInv, WordingsRest, SameRow
  <1> QED BY <1>2, <1>3, <1>4, <1>5

LEMMA SameRowsKeepClear ==
  ASSUME IInv, now' = now, Rows' = Rows, \A i \in Rows : SameRow(log'[i], log[i]),
         NEW k \in Slot, StillClear(k),
         send'[k].node = send[k].node, send'[k].template = send[k].template
  PROVE  StillClear(k)'
  <1>1. RowsSince(now - Day)' = RowsSince(now - Day)
    BY SameRowsKeepHistory
  <1>2. Cardinality(RowsSince(now - Day)') < HardMaxPerDay
    BY <1>1 DEF StillClear
  <1>3. \A i \in Rows' : log'[i].node = send'[k].node => now' - log'[i].ts >= HardMinCooldown
    BY DEF StillClear, SameRow
  <1>4. \A i \in Rows' : log'[i].node = send'[k].node /\ log'[i].template = send'[k].template
          => now' - log'[i].ts > Ttl[send'[k].template]
    BY DEF StillClear, SameRow
  <1> QED BY <1>2, <1>3, <1>4 DEF StillClear

(* What a slot can hold.                                                    *)
Sending == [at : {"posted", "on air"}, node : Node, template : Template]

LEMMA Slots ==
  ASSUME TypeOK, NEW k \in Slot
  PROVE  /\ send[k] = Idle \/ send[k] = [at |-> "orphan"] \/ send[k] \in Sending
         /\ k \in Waiting <=> send[k] \in Sending
         /\ Idle.at = "idle"
  <1>1. send \in [Slot -> {Idle, [at |-> "orphan"]} \cup Sending]
    BY DEF TypeOK, Sending
  <1>2. send[k] = Idle \/ send[k] = [at |-> "orphan"] \/ send[k] \in Sending
    BY <1>1
  <1>3. \A r \in Sending : r.at \in {"posted", "on air"} /\ r.at # "idle" /\ r.at # "orphan"
    BY DEF Sending
  <1>4. Idle.at = "idle" /\ [at |-> "orphan"].at = "orphan"
    BY DEF Idle
  <1> QED BY <1>2, <1>3, <1>4 DEF Waiting

(* The slots after a step that changes one of them.                         *)
LEMMA SlotTyped ==
  ASSUME TypeOK, NEW k \in Slot, NEW r \in {Idle, [at |-> "orphan"]} \cup Sending,
         send' = [send EXCEPT ![k] = r]
  PROVE  /\ send' \in [Slot -> {Idle, [at |-> "orphan"]} \cup Sending]
         /\ send'[k] = r /\ \A j \in Slot \ {k} : send'[j] = send[j]
  BY DEF TypeOK, Sending

LEMMA KeepInv ==
  ASSUME IInv, TypeOK', OneInFlight', now' = now, Rows' = Rows,
         \A i \in Rows : SameRow(log'[i], log[i]),
         \A k \in Waiting' : /\ k \in Waiting /\ send'[k].node = send[k].node
                             /\ send'[k].template = send[k].template
  PROVE  IInv'
  <1>1. LogWithinCeiling' /\ NodesAreLeftInPeace' /\ WordingsRest'
    BY SameRowsKeepHistory
  <1>2. ASSUME NEW k \in Waiting' PROVE StillClear(k)'
    <2>1. k \in Slot /\ StillClear(k)
      BY DEF Waiting, IInv
    <2> QED BY <2>1, SameRowsKeepClear
  <1> QED BY <1>1, <1>2 DEF IInv

LEMMA SweepKeepsInv ==
  ASSUME IInv, NEW n \in Node, NEW t \in Template, Sweep(n, t)
  PROVE  IInv'
  <1>t. TypeOK
    BY DEF IInv
  <1>1. PICK k \in Slot :
          /\ send[k] = Idle
          /\ send' = [send EXCEPT ![k] = [at |-> "posted", node |-> n, template |-> t]]
    BY DEF Sweep
  <1>2. UNCHANGED <<now, config, log, air>> /\ inFlight' = TRUE /\ ~inFlight /\ Clear(n, t)
    BY DEF Sweep, Clear
  <1>3. TypeOK'
    BY <1>t, <1>1, <1>2 DEF TypeOK
  <1>4. Waiting = {}
    BY <1>2 DEF IInv, OneInFlight
  <1>5. Waiting' = {k}
    BY <1>t, <1>1, <1>4 DEF TypeOK, Waiting
  <1>6. OneInFlight'
    BY <1>2, <1>5 DEF OneInFlight
  <1>7. LogWithinCeiling' /\ NodesAreLeftInPeace' /\ WordingsRest'
    BY <1>2, SameRowsKeepHistory DEF SameRow, Rows
  <1>8. StillClear(k)'
    <2>1. send'[k].node = n /\ send'[k].template = t
      BY <1>t, <1>1 DEF TypeOK
    <2>2. Cardinality(RowsSince(now - Day)') < HardMaxPerDay
      <3>1. RowsSince(now - Day)' = RowsSince(now - Day)
        BY <1>2 DEF RowsSince, Rows
      <3>2. Cardinality(RowsSince(now - Day)) \in Nat
        BY <1>t, RowsAreFinite DEF RowsSince
      <3>3. Cardinality(RowsSince(now - Day)) < MaxPerDay
        BY <1>2 DEF Clear, UnderCeiling
      <3> QED BY <1>t, <3>1, <3>2, <3>3, Numbers
    <2>3. \A i \in Rows : log[i].node = n => now - log[i].ts >= HardMinCooldown
      <3> SUFFICES ASSUME NEW i \in Rows, log[i].node = n
                   PROVE  now - log[i].ts >= HardMinCooldown
        OBVIOUS
      <3>1. now - log[i].ts >= Cooldown
        BY <1>2 DEF Clear, LeftInPeace
      <3> QED BY <1>t, <3>1, Numbers, RowParts
    <2>4. \A i \in Rows : log[i].node = n /\ log[i].template = t => now - log[i].ts > Ttl[t]
      BY <1>2 DEF Clear, Unheard
    <2> QED BY <1>2, <2>1, <2>2, <2>3, <2>4 DEF StillClear, Rows
  <1>9. \A j \in Waiting' : StillClear(j)'
    BY <1>5, <1>8
  <1> QED BY <1>3, <1>6, <1>7, <1>9 DEF IInv

LEMMA SendFailsKeepsInv ==
  ASSUME IInv, NEW k \in Slot, SendFails(k)
  PROVE  IInv'
  <1>t. TypeOK
    BY DEF IInv
  <1>1. /\ send' = [send EXCEPT ![k] = Idle] /\ inFlight' = FALSE
        /\ UNCHANGED <<now, config, log, air>> /\ k \in Waiting
    BY DEF SendFails, Waiting
  <1>2. Waiting = {k}
    BY <1>1 DEF IInv, OneInFlight
  <1>3. TypeOK'
    BY <1>t, <1>1, SlotTyped DEF TypeOK, Sending
  <1>4. Waiting' = {}
    BY <1>t, <1>1, <1>2, <1>3, Slots, SlotTyped DEF Waiting
  <1>5. OneInFlight'
    BY <1>1, <1>4 DEF OneInFlight
  <1> QED BY <1>1, <1>3, <1>4, <1>5, KeepInv DEF SameRow, Rows

LEMMA TransmitKeepsInv ==
  ASSUME IInv, NEW k \in Slot, Transmit(k)
  PROVE  IInv'
  <1>t. TypeOK
    BY DEF IInv
  <1>1. PICK r : r = IF send[k].at = "orphan" THEN Idle ELSE [send[k] EXCEPT !.at = "on air"]
    OBVIOUS
  <1>2. /\ send' = [send EXCEPT ![k] = r] /\ send[k].at \in {"posted", "orphan"}
        /\ UNCHANGED <<now, config, inFlight, log>> /\ air' = Append(air, now)
    BY <1>1 DEF Transmit
  <1>n. \A q \in Sending : q.at # "idle" /\ q.at # "orphan"
    BY DEF Sending
  <1>o. Idle \notin Sending /\ [at |-> "orphan"] \notin Sending
    BY <1>n DEF Idle
  <1>3. /\ r = Idle \/ r \in Sending
        /\ r \in Sending <=> k \in Waiting
        /\ r \in Sending => r.node = send[k].node /\ r.template = send[k].template
    <2>1. CASE send[k].at = "orphan"
      <3>1. r = Idle /\ send[k] \notin Sending
        BY <1>1, <1>n, <2>1
      <3> QED BY <1>t, <1>o, <3>1, Slots
    <2>2. CASE send[k].at = "posted"
      <3>1. send[k] \in Sending
        BY <1>t, <2>2, Slots DEF Idle
      <3>2. r = [send[k] EXCEPT !.at = "on air"]
        BY <1>1, <2>2
      <3>3. r \in Sending /\ r.node = send[k].node /\ r.template = send[k].template
        BY <3>1, <3>2 DEF Sending
      <3> QED BY <1>t, <3>1, <3>3, Slots
    <2> QED BY <1>2, <2>1, <2>2
  <1>4. air' \in Seq(1 .. now) /\ now' = now
    <2>1. air \in Seq(1 .. now) /\ now \in Nat \ {0}
      BY <1>t DEF TypeOK
    <2>2. now \in 1 .. now
      BY <2>1
    <2> QED BY <1>2, <2>1, <2>2
  <1>5. TypeOK'
    BY <1>t, <1>2, <1>3, <1>4, SlotTyped DEF TypeOK, Sending
  <1>6. \A j \in Slot \ {k} : send'[j] = send[j] /\ send'[k] = r
    BY <1>t, <1>2, <1>3, SlotTyped
  <1>7. send'[k] = r
    BY <1>t, <1>2, <1>3, SlotTyped
  <1>8. Waiting' = Waiting
    BY <1>t, <1>2, <1>3, <1>5, <1>6, <1>7, Slots DEF Waiting, Sending, Idle
  <1>9. OneInFlight'
    BY <1>2, <1>8 DEF IInv, OneInFlight
  <1>10. \A j \in Waiting' : send'[j].node = send[j].node /\ send'[j].template = send[j].template
    BY <1>3, <1>6, <1>7, <1>8 DEF Waiting
  <1> QED BY <1>2, <1>5, <1>8, <1>9, <1>10, KeepInv DEF SameRow, Rows

LEMMA DropKeepsInv ==
  ASSUME IInv, NEW k \in Slot, Drop(k)
  PROVE  IInv'
  <1>t. TypeOK
    BY DEF IInv
  <1>1. /\ send' = [send EXCEPT ![k] = Idle] /\ send[k].at = "orphan"
        /\ UNCHANGED <<now, config, inFlight, log, air>>
    BY DEF Drop
  <1>2. TypeOK'
    BY <1>t, <1>1, SlotTyped DEF TypeOK, Sending
  <1>3. send'[k] = Idle /\ \A j \in Slot \ {k} : send'[j] = send[j]
    BY <1>t, <1>1, SlotTyped
  <1>i. Idle.at = "idle"
    BY DEF Idle
  <1>4. Waiting' = Waiting /\ k \notin Waiting
    <2>1. k \notin Waiting /\ k \notin Waiting'
      BY <1>1, <1>3, <1>i DEF Waiting
    <2>2. \A j \in Slot \ {k} : j \in Waiting' <=> j \in Waiting
      BY <1>3 DEF Waiting
    <2> QED BY <2>1, <2>2 DEF Waiting
  <1>5. OneInFlight'
    BY <1>1, <1>4 DEF IInv, OneInFlight
  <1>6. \A j \in Waiting' : send'[j] = send[j]
    BY <1>3, <1>4 DEF Waiting
  <1> QED BY <1>1, <1>2, <1>4, <1>5, <1>6, KeepInv DEF SameRow, Rows

LEMMA RestartKeepsInv ==
  ASSUME IInv, Restart
  PROVE  IInv'
  <1>1. /\ send' = [k \in Slot |-> IF send[k].at \in {"posted", "orphan"}
                                   THEN [at |-> "orphan"] ELSE Idle]
        /\ inFlight' = FALSE /\ UNCHANGED <<now, config, log, air>>
    BY DEF Restart
  <1>2. TypeOK'
    <2>1. TypeOK
      BY DEF IInv
    <2>2. send' \in [Slot -> {Idle, [at |-> "orphan"]} \cup Sending]
      BY <1>1
    <2> QED BY <1>1, <2>1, <2>2 DEF TypeOK, Sending
  <1>3. \A k \in Slot : send'[k].at \in {"idle", "orphan"}
    BY <1>1 DEF Idle
  <1>4. Waiting' = {}
    BY <1>3 DEF Waiting
  <1>5. OneInFlight'
    BY <1>1, <1>4 DEF OneInFlight
  <1> QED BY <1>1, <1>2, <1>4, <1>5, KeepInv DEF SameRow, Rows

LEMMA ConfigureKeepsInv ==
  ASSUME IInv, NEW c \in Config, Configure(c)
  PROVE  IInv'
  <1>1. config' = c /\ UNCHANGED <<now, inFlight, send, log, air>>
    BY DEF Configure
  <1>2. TypeOK'
    BY <1>1 DEF IInv, TypeOK
  <1>3. Waiting' = Waiting
    BY <1>1 DEF Waiting
  <1>4. OneInFlight'
    BY <1>1, <1>3 DEF IInv, OneInFlight
  <1> QED BY <1>1, <1>2, <1>3, <1>4, KeepInv DEF SameRow, Rows

LEMMA NoteInboundTextKeepsInv ==
  ASSUME IInv, NEW n \in Node, NEW rx \in Received, NoteInboundText(n, rx)
  PROVE  IInv'
  <1>t. TypeOK
    BY DEF IInv
  <1>1. PICK i \in Rows : log' = [log EXCEPT ![i].replied = rx]
    BY DEF NoteInboundText, Unanswered
  <1>2. UNCHANGED <<now, config, inFlight, send, air>>
    BY DEF NoteInboundText
  <1> DEFINE R == [ts : 1 .. now, node : Node, template : Template,
                   replied : 1 .. now \cup {None}]
  <1>3. log \in Seq(R) /\ rx \in 1 .. now
    BY <1>t DEF TypeOK, Received
  <1>4. log[i] \in R /\ i \in DOMAIN log
    BY <1>t, LogIsASequence DEF Rows
  <1>5. [log[i] EXCEPT !.replied = rx] \in R
    BY <1>3, <1>4
  <1>6. log' = [log EXCEPT ![i] = [log[i] EXCEPT !.replied = rx]]
    BY <1>1
  <1>7. \A j \in Rows : SameRow(log'[j], log[j])
    BY <1>4, <1>6 DEF SameRow, Rows
  <1>8. Rows' = Rows
    BY <1>6 DEF Rows
  <1>9. log' \in Seq(R)
    <2> HIDE DEF R
    <2> QED BY <1>3, <1>4, <1>5, <1>6
  <1>10. TypeOK'
    BY <1>t, <1>2, <1>9 DEF TypeOK
  <1>11. Waiting' = Waiting
    BY <1>2 DEF Waiting
  <1>12. OneInFlight'
    BY <1>2, <1>11 DEF IInv, OneInFlight
  <1> QED BY <1>2, <1>7, <1>8, <1>10, <1>11, <1>12, KeepInv

-----------------------------------------------------------------------------
(* The row is written: what StillClear kept true is what the log needs.     *)
LEMMA SendReturnsKeepsInv ==
  ASSUME IInv, NEW k \in Slot, SendReturns(k)
  PROVE  IInv'
  <1>t. TypeOK
    BY DEF IInv
  <1>1. /\ send' = [send EXCEPT ![k] = Idle] /\ inFlight' = FALSE
        /\ UNCHANGED <<now, config, air>> /\ k \in Waiting
        /\ log' = Append(log, Row(now, send[k].node, send[k].template))
    BY DEF SendReturns, Waiting
  <1>2. Waiting = {k} /\ StillClear(k)
    BY <1>1 DEF IInv, OneInFlight
  <1>3. send[k].node \in Node /\ send[k].template \in Template
    BY <1>t, <1>1, Slots DEF Sending
  <1> DEFINE R == [ts : 1 .. now, node : Node, template : Template,
                   replied : 1 .. now \cup {None}]
             r == Row(now, send[k].node, send[k].template)
             m == Len(log) + 1
  <1>4. r \in R
    <2>1. now \in 1 .. now
      BY <1>t, Numbers
    <2> QED BY <1>3, <2>1 DEF Row
  <1>5. log \in Seq(R) /\ log' = Append(log, r)
    BY <1>t, <1>1 DEF TypeOK
  <1>6. log' \in Seq(R)
    <2> HIDE DEF R, r
    <2> QED BY <1>4, <1>5
  <1>7. /\ Rows = 1 .. Len(log) /\ Rows' = 1 .. m /\ m \in Nat /\ m \notin Rows
        /\ Rows' = Rows \cup {m}
        /\ \A i \in Rows : log'[i] = log[i] /\ i < m
        /\ log'[m] = r
    <2> HIDE DEF R, r
    <2> QED BY <1>4, <1>5 DEF Rows
  <1>8. r.ts = now /\ r.node = send[k].node /\ r.template = send[k].template
    BY DEF Row
  <1> HIDE DEF r, m
  <1>9. TypeOK'
    <2>1. send' \in [Slot -> {Idle, [at |-> "orphan"]} \cup Sending]
      BY <1>t, <1>1, SlotTyped
    <2> QED BY <1>t, <1>1, <1>6, <2>1 DEF TypeOK, Sending
  <1>10. Waiting' = {}
    BY <1>t, <1>1, <1>2, <1>9, Slots, SlotTyped DEF Waiting
  <1>11. OneInFlight'
    BY <1>1, <1>10 DEF OneInFlight
  <1>12. LogWithinCeiling'
    <2> SUFFICES ASSUME NEW w \in 1 .. now
                 PROVE  Cardinality({i \in {j \in Rows' : log'[j].ts > w - Day} :
                                       log'[i].ts <= w}) <= HardMaxPerDay
      BY <1>1 DEF LogWithinCeiling, RowsSince
    <2> DEFINE Old == {i \in {j \in Rows : log[j].ts > w - Day} : log[i].ts <= w}
               New == {i \in {j \in Rows' : log'[j].ts > w - Day} : log'[i].ts <= w}
    <2>1. IsFiniteSet(Old) /\ Cardinality(Old) \in Nat
      BY <1>t, RowsAreFinite
    <2>2. CASE w = now
      <3>1. New \subseteq Old \cup {m} /\ Old \cup {m} \subseteq New
        <4>1. m \in Rows' /\ log'[m].ts = now
          BY <1>7, <1>8
        <4>2. m \in New
          BY <1>t, <2>2, <4>1, Numbers
        <4>3. \A i \in Rows : i \in New <=> i \in Old
          BY <1>7
        <4> QED BY <1>7, <4>2, <4>3
      <3>2. Old = RowsSince(now - Day)
        BY <1>t, <2>2, RowParts DEF RowsSince
      <3>3. Cardinality(Old) < HardMaxPerDay
        BY <1>2, <3>2 DEF StillClear
      <3>4. Cardinality(Old \cup {m}) = Cardinality(Old) + 1
        BY <1>7, <2>1, FS_AddElement
      <3>5. Cardinality(New) = Cardinality(Old) + 1
        BY <3>1, <3>4
      <3> QED BY <1>t, <2>1, <3>3, <3>5, Numbers
    <2>3. CASE w # now
      <3>1. m \notin New
        BY <1>t, <1>7, <1>8, <2>3, Numbers
      <3>2. New = Old
        <4>1. \A i \in Rows : i \in New <=> i \in Old
          BY <1>7
        <4> QED BY <1>7, <3>1, <4>1
      <3>3. Cardinality(Old) <= HardMaxPerDay
        BY DEF IInv, LogWithinCeiling, RowsSince
      <3> QED BY <3>2, <3>3
    <2> QED BY <2>2, <2>3
  <1>13. NodesAreLeftInPeace'
    <2> SUFFICES ASSUME NEW i \in Rows', NEW j \in Rows', i < j, log'[i].node = log'[j].node
                 PROVE  log'[j].ts - log'[i].ts >= HardMinCooldown
      BY DEF NodesAreLeftInPeace
    <2>1. i \in Rows
      BY <1>7
    <2>2. CASE j \in Rows
      BY <1>7, <2>1, <2>2 DEF IInv, NodesAreLeftInPeace
    <2>3. CASE j = m
      BY <1>2, <1>7, <1>8, <2>1, <2>3 DEF StillClear
    <2> QED BY <1>7, <2>2, <2>3
  <1>14. WordingsRest'
    <2> SUFFICES ASSUME NEW i \in Rows', NEW j \in Rows', i < j,
                        log'[i].node = log'[j].node, log'[i].template = log'[j].template
                 PROVE  log'[j].ts - log'[i].ts > Ttl[log'[i].template]
      BY DEF WordingsRest
    <2>1. i \in Rows
      BY <1>7
    <2>2. CASE j \in Rows
      BY <1>7, <2>1, <2>2 DEF IInv, WordingsRest
    <2>3. CASE j = m
      BY <1>2, <1>7, <1>8, <2>1, <2>3 DEF StillClear
    <2> QED BY <1>7, <2>2, <2>3
  <1> QED BY <1>9, <1>10, <1>11, <1>12, <1>13, <1>14 DEF IInv

-----------------------------------------------------------------------------
(* A later clock only makes the guards easier to pass.                      *)
LEMMA TickKeepsInv ==
  ASSUME IInv, Tick
  PROVE  IInv'
  <1>t. TypeOK
    BY DEF IInv
  <1>1. now' = now + 1 /\ UNCHANGED <<config, inFlight, send, log, air>>
    BY DEF Tick
  <1>2. Rows' = Rows /\ Waiting' = Waiting
    BY <1>1 DEF Rows, Waiting
  <1>3. TypeOK'
    <2>0. now \in Nat \ {0}
      BY <1>t DEF TypeOK
    <2>1. now' \in Nat \ {0} /\ 1 .. now \subseteq 1 .. now'
      BY <2>0, <1>1
    <2>2. air' \in Seq(1 .. now')
      <3>1. air \in Seq(1 .. now)
        BY <1>t DEF TypeOK
      <3> DEFINE A == 1 .. now
                 B == 1 .. now'
      <3>2. air \in Seq(A) /\ A \subseteq B
        BY <2>1, <3>1
      <3> HIDE DEF A, B
      <3>3. air' \in Seq(B)
        BY <1>1, <3>2
      <3> QED BY <3>3 DEF B
    <2>3. log' \in Seq([ts : 1 .. now', node : Node, template : Template,
                        replied : 1 .. now' \cup {None}])
      <3> DEFINE R == [ts : 1 .. now, node : Node, template : Template,
                       replied : 1 .. now \cup {None}]
                 Q == [ts : 1 .. now', node : Node, template : Template,
                       replied : 1 .. now' \cup {None}]
      <3>1. log \in Seq(R)
        BY <1>t DEF TypeOK
      <3>2. R \subseteq Q
        BY <2>1
      <3> HIDE DEF R, Q
      <3>3. log' \in Seq(Q)
        BY <1>1, <3>1, <3>2
      <3> QED BY <3>3 DEF Q
    <2>4. config' \in Config /\ inFlight' \in BOOLEAN
          /\ send' \in [Slot -> {Idle, [at |-> "orphan"]} \cup Sending]
      BY <1>t, <1>1 DEF TypeOK, Sending
    <2> QED BY <2>1, <2>2, <2>3, <2>4 DEF TypeOK, Sending
  <1>4. OneInFlight'
    BY <1>1, <1>2 DEF IInv, OneInFlight
  <1>5. LogWithinCeiling'
    <2> DEFINE In(w) == {i \in {j \in Rows : log[j].ts > w - Day} : log[i].ts <= w}
    <2> SUFFICES ASSUME NEW w \in 1 .. now'
                 PROVE  Cardinality(In(w)) <= HardMaxPerDay
      BY <1>1, <1>2 DEF LogWithinCeiling, RowsSince
    <2>1. \A v \in 1 .. now : Cardinality(In(v)) <= HardMaxPerDay
      BY DEF IInv, LogWithinCeiling, RowsSince
    <2>2. CASE w \in 1 .. now
      BY <2>1, <2>2
    <2>3. CASE w = now + 1
      <3>1. In(w) \subseteq In(now)
        BY <1>t, <2>3, RowParts, Numbers
      <3>2. now \in 1 .. now
        BY <1>t, Numbers
      <3>3. Cardinality(In(now)) <= HardMaxPerDay
        BY <2>1, <3>2
      <3>4. In(now) \in SUBSET Rows /\ In(w) \in SUBSET Rows
        OBVIOUS
      <3> HIDE DEF In
      <3>5. Cardinality(In(w)) <= Cardinality(In(now))
        BY <1>t, <3>1, <3>4, SmallerCount
      <3>6. Cardinality(In(w)) \in Nat /\ Cardinality(In(now)) \in Nat
        BY <1>t, <3>4, RowsAreFinite
      <3> QED BY <1>t, <3>3, <3>5, <3>6, Numbers
    <2>4. w \in 1 .. now \/ w = now + 1
      BY <1>t, <1>1, Numbers
    <2> QED BY <2>2, <2>3, <2>4
  <1>6. NodesAreLeftInPeace' /\ WordingsRest'
    BY <1>1, <1>2 DEF IInv, NodesAreLeftInPeace, WordingsRest
  <1>7. ASSUME NEW k \in Waiting' PROVE StillClear(k)'
    <2>1. StillClear(k)
      BY <1>2 DEF IInv
    <2>2. Cardinality(RowsSince(now - Day)') < HardMaxPerDay
      <3>1. RowsSince(now - Day)' \subseteq RowsSince(now - Day)
        BY <1>t, <1>1, <1>2, RowParts, Numbers DEF RowsSince
      <3>2. RowsSince(now - Day) \in SUBSET Rows
        BY DEF RowsSince
      <3>3. PICK S : S = RowsSince(now - Day)'
        OBVIOUS
      <3>4. Cardinality(S) <= Cardinality(RowsSince(now - Day))
        BY <1>t, <3>1, <3>2, <3>3, SmallerCount
      <3>5. Cardinality(S) \in Nat /\ Cardinality(RowsSince(now - Day)) \in Nat
        BY <1>t, <3>1, <3>2, <3>3, RowsAreFinite
      <3>6. Cardinality(RowsSince(now - Day)) < HardMaxPerDay
        BY <2>1 DEF StillClear
      <3> QED BY <1>t, <3>3, <3>4, <3>5, <3>6, Numbers
    <2>3. Rows' = Rows /\ log' = log /\ send' = send
      BY <1>1, <1>2
    <2>5. \A i \in Rows' : log'[i].node = send'[k].node
            => now' - log'[i].ts >= HardMinCooldown
      <3> SUFFICES ASSUME NEW i \in Rows, log[i].node = send[k].node
                   PROVE  now' - log[i].ts >= HardMinCooldown
        BY <2>3
      <3>1. now - log[i].ts >= HardMinCooldown
        BY <2>1 DEF StillClear
      <3> QED BY <1>t, <1>1, <3>1, RowParts, Numbers
    <2>6. \A i \in Rows' : log'[i].node = send'[k].node /\ log'[i].template = send'[k].template
            => now' - log'[i].ts > Ttl[send'[k].template]
      <3> SUFFICES ASSUME NEW i \in Rows, log[i].node = send[k].node,
                          log[i].template = send[k].template
                   PROVE  now' - log[i].ts > Ttl[send[k].template]
        BY <2>3
      <3>1. now - log[i].ts > Ttl[log[i].template]
        BY <2>1 DEF StillClear
      <3>2. now' - log[i].ts > Ttl[log[i].template]
        BY <1>t, <1>1, <3>1, RowParts, Numbers
      <3> QED BY <3>2
    <2> QED BY <2>2, <2>5, <2>6 DEF StillClear
  <1> QED BY <1>3, <1>4, <1>5, <1>6, <1>7 DEF IInv

LEMMA InitHolds ==
  Init => IInv
  <1> SUFFICES ASSUME Init PROVE IInv
    OBVIOUS
  <1>1. Rows = {} /\ now = 1 /\ inFlight = FALSE /\ Waiting = {}
    <2>1. \A k \in Slot : send[k].at = "idle"
      BY DEF Init, Idle
    <2>2. log = << >> /\ now = 1 /\ inFlight = FALSE
      BY DEF Init
    <2>3. Rows = {}
      BY <2>2 DEF Rows
    <2>4. Waiting = {}
      BY <2>1 DEF Waiting
    <2> QED BY <2>2, <2>3, <2>4
  <1>2. TypeOK
    <2>1. send \in [Slot -> {Idle, [at |-> "orphan"]} \cup Sending]
      BY DEF Init
    <2>0. config \in Config
      BY DEF Init
    <2>5. now \in Nat \ {0}
      BY <1>1
    <2>6. inFlight \in BOOLEAN
      BY <1>1, Zenon
    <2>2. config \in Config /\ now \in Nat \ {0} /\ inFlight \in BOOLEAN
      BY <2>0, <2>5, <2>6
    <2>3. log \in Seq([ts : 1 .. now, node : Node, template : Template,
                       replied : 1 .. now \cup {None}])
      <3> DEFINE R == [ts : 1 .. now, node : Node, template : Template,
                       replied : 1 .. now \cup {None}]
      <3>1. log = << >>
        BY DEF Init
      <3> HIDE DEF R
      <3>2. log \in Seq(R)
        BY <3>1
      <3> QED BY <3>2 DEF R
    <2>4. air \in Seq(1 .. now)
      BY DEF Init
    <2> QED BY <2>1, <2>2, <2>3, <2>4 DEF TypeOK, Sending
  <1>3. OneInFlight
    BY <1>1 DEF OneInFlight
  <1>4. LogWithinCeiling
    <2> SUFFICES ASSUME NEW w \in 1 .. now
                 PROVE  Cardinality({i \in RowsSince(w - Day) : log[i].ts <= w}) <= HardMaxPerDay
      BY DEF LogWithinCeiling
    <2>1. {i \in RowsSince(w - Day) : log[i].ts <= w} = {}
      BY <1>1 DEF RowsSince
    <2>2. Cardinality({i \in RowsSince(w - Day) : log[i].ts <= w}) = 0
      BY <2>1, FS_EmptySet
    <2> QED BY <1>2, <2>2, Numbers
  <1>5. NodesAreLeftInPeace /\ WordingsRest
    BY <1>1 DEF NodesAreLeftInPeace, WordingsRest
  <1> QED BY <1>1, <1>2, <1>3, <1>4, <1>5 DEF IInv

LEMMA StepKeepsInv ==
  IInv /\ [Next]_vars => IInv'
  <1> SUFFICES ASSUME IInv, [Next]_vars PROVE IInv'
    OBVIOUS
  <1>1. ASSUME NEW n \in Node, NEW t \in Template, Sweep(n, t) PROVE IInv'
    BY <1>1, SweepKeepsInv
  <1>2. ASSUME NEW k \in Slot, SendReturns(k) PROVE IInv'
    BY <1>2, SendReturnsKeepsInv
  <1>3. ASSUME NEW k \in Slot, SendFails(k) PROVE IInv'
    BY <1>3, SendFailsKeepsInv
  <1>4. ASSUME NEW k \in Slot, Transmit(k) PROVE IInv'
    BY <1>4, TransmitKeepsInv
  <1>5. ASSUME NEW k \in Slot, Drop(k) PROVE IInv'
    BY <1>5, DropKeepsInv
  <1>6. ASSUME NEW n \in Node, NEW rx \in Received, NoteInboundText(n, rx) PROVE IInv'
    <2>1. PICK q : q = rx
      OBVIOUS
    <2> QED BY <1>6, NoteInboundTextKeepsInv
  <1>7. ASSUME NEW c \in Config, Configure(c) PROVE IInv'
    BY <1>7, ConfigureKeepsInv
  <1>8. CASE Restart
    BY <1>8, RestartKeepsInv
  <1>9. CASE Tick
    BY <1>9, TickKeepsInv
  <1>10. CASE UNCHANGED vars
    <2>1. UNCHANGED <<now, config, inFlight, send, log, air>>
      BY <1>10 DEF vars
    <2>2. TypeOK'
      BY <2>1 DEF IInv, TypeOK
    <2>3. Waiting' = Waiting
      BY <2>1 DEF Waiting
    <2>4. OneInFlight'
      BY <2>1, <2>3 DEF IInv, OneInFlight
    <2> QED BY <2>1, <2>2, <2>3, <2>4, KeepInv DEF SameRow, Rows
  <1> QED BY <1>1, <1>2, <1>3, <1>4, <1>5, <1>6, <1>7, <1>8, <1>9, <1>10 DEF Next

(* The inductive invariant: what a send's guards found holds until it is    *)
(* settled.                                                                 *)
THEOREM InvariantHolds ==
  Spec => []IInv
  BY InitHolds, StepKeepsInv, PTL DEF Spec

(* Every variable keeps to its set.                                         *)
THEOREM TypesHold ==
  Spec => []TypeOK
  <1>1. IInv => TypeOK
    BY DEF IInv
  <1> QED BY <1>1, InvariantHolds, PTL

(* Never two callouts in flight at once, and the flag never outlives the    *)
(* send it stands for.                                                      *)
THEOREM NeverTwoInFlight ==
  Spec => []OneInFlight
  <1>1. IInv => OneInFlight
    BY DEF IInv
  <1> QED BY <1>1, InvariantHolds, PTL

(* The log never holds more rows in a day than the hard ceiling, whatever   *)
(* is stored.                                                               *)
THEOREM CeilingHolds ==
  Spec => []LogWithinCeiling
  <1>1. IInv => LogWithinCeiling
    BY DEF IInv
  <1> QED BY <1>1, InvariantHolds, PTL

(* No node is called twice within the hard cooldown.                        *)
THEOREM CooldownHolds ==
  Spec => []NodesAreLeftInPeace
  <1>1. IInv => NodesAreLeftInPeace
    BY DEF IInv
  <1> QED BY <1>1, InvariantHolds, PTL

(* No node reads a wording again within its time to live.                   *)
THEOREM WordingsHold ==
  Spec => []WordingsRest
  <1>1. IInv => WordingsRest
    BY DEF IInv
  <1> QED BY <1>1, InvariantHolds, PTL

(* When the text an answered row names was received: before the window of   *)
(* the row closed, and no longer before the row than a text may be late.    *)
Credits ==
  \A i \in Rows : log[i].replied # None =>
    /\ log[i].replied \in Int
    /\ log[i].replied < log[i].ts + ReplyWindow
    /\ log[i].replied + MaxDelay >= log[i].ts

LEMMA CreditsStep ==
  IInv /\ Credits /\ [Next]_vars => Credits'
  <1> SUFFICES ASSUME IInv, Credits, [Next]_vars PROVE Credits'
    OBVIOUS
  <1>t. TypeOK
    BY DEF IInv
  <1>1. ASSUME NEW k \in Slot, SendReturns(k) PROVE Credits'
    <2> DEFINE r == Row(now, send[k].node, send[k].template)
    <2>1. log' = Append(log, r) /\ r.replied = None
      BY <1>1 DEF SendReturns, Row
    <2>2. Rows = 1 .. Len(log) /\ Len(log) \in Nat
      BY <1>t, LogIsASequence
    <2> DEFINE R == [ts : 1 .. now, node : Node, template : Template,
                     replied : 1 .. now \cup {None}]
    <2>3. log \in Seq(R) /\ r \in R
      <3>1. send[k].node \in Node /\ send[k].template \in Template
        BY <1>t, <1>1, Slots DEF SendReturns, Waiting, Sending
      <3>2. now \in 1 .. now
        BY <1>t, Numbers
      <3> QED BY <1>t, <3>1, <3>2 DEF TypeOK, Row
    <2>4. \A i \in Rows' : (i \in Rows /\ log'[i] = log[i]) \/ log'[i] = r
      <3> HIDE DEF r, R
      <3> QED BY <2>1, <2>2, <2>3 DEF Rows
    <2> HIDE DEF r
    <2> QED BY <2>1, <2>4 DEF Credits
  <1>2. ASSUME NEW n \in Node, NEW rx \in Received, NoteInboundText(n, rx) PROVE Credits'
    <2>1. PICK i \in Unanswered(n, rx) : log' = [log EXCEPT ![i].replied = rx]
      BY <1>2 DEF NoteInboundText
    <2>2. i \in Rows /\ log[i].ts > rx - ReplyWindow
      BY <2>1 DEF Unanswered
    <2>3. /\ Rows' = Rows
          /\ \A j \in Rows : log'[j].ts = log[j].ts
          /\ \A j \in Rows \ {i} : log'[j].replied = log[j].replied
      BY <2>1, <2>2 DEF Rows
    <2>4. log'[i].replied = rx
      <3>1. log[i] \in [ts : 1 .. now, node : Node, template : Template,
                        replied : 1 .. now \cup {None}]
        BY <1>t, <2>2, LogIsASequence
      <3> QED BY <2>1, <2>2, <3>1 DEF Rows
    <2>5. rx \in Int /\ rx >= now - MaxDelay /\ MaxDelay \in Nat
      BY <1>t, Numbers, TimeAssumption DEF Received
    <2>6. rx < log[i].ts + ReplyWindow /\ rx + MaxDelay >= log[i].ts
      BY <1>t, <2>2, <2>5, RowParts, Numbers
    <2> QED BY <2>2, <2>3, <2>4, <2>5, <2>6 DEF Credits
  <1>3. CASE log' = log
    BY <1>3 DEF Credits, Rows
  <1>4. ASSUME NEW n \in Node, NEW t \in Template, Sweep(n, t) PROVE log' = log
    BY <1>4 DEF Sweep
  <1>5. ASSUME NEW k \in Slot, SendFails(k) \/ Transmit(k) \/ Drop(k) PROVE log' = log
    BY <1>5 DEF SendFails, Transmit, Drop
  <1>6. ASSUME NEW c \in Config, Configure(c) PROVE log' = log
    BY <1>6 DEF Configure
  <1>7. CASE Restart \/ Tick \/ UNCHANGED vars
    BY <1>3, <1>7 DEF Restart, Tick, vars
  <1> QED BY <1>1, <1>2, <1>3, <1>4, <1>5, <1>6, <1>7 DEF Next

(* However often and however late, within what the cooldown leaves beyond   *)
(* the reply window, the texts of a node are delivered: each answers one    *)
(* callout, and they answer in the order of the callouts.                   *)
THEOREM AnswersKeepOrder ==
  Spec => []AnswersInOrder
  <1>1. Init => Credits
    BY DEF Init, Credits, Rows
  <1>2. IInv /\ Credits => AnswersInOrder
    <2> SUFFICES ASSUME IInv, Credits, MaxDelay + ReplyWindow <= HardMinCooldown,
                        NEW i \in Rows, NEW j \in Rows, i < j, log[i].node = log[j].node,
                        log[i].replied # None, log[j].replied # None
                 PROVE  log[i].replied < log[j].replied
      BY DEF AnswersInOrder
    <2>t. TypeOK
      BY DEF IInv
    <2>1. log[j].ts - log[i].ts >= HardMinCooldown
      BY DEF IInv, NodesAreLeftInPeace
    <2>2. /\ log[i].replied \in Int /\ log[i].replied < log[i].ts + ReplyWindow
          /\ log[j].replied \in Int /\ log[j].replied + MaxDelay >= log[j].ts
      BY DEF Credits
    <2>3. MaxDelay \in Nat /\ ReplyWindow \in Nat /\ HardMinCooldown \in Nat
      BY <2>t, Numbers, TimeAssumption
    <2> QED BY <2>t, <2>1, <2>2, <2>3, RowParts
  <1> QED BY <1>1, <1>2, CreditsStep, InvariantHolds, PTL DEF Spec


-----------------------------------------------------------------------------
(***************************************************************************)
(* MailReplies.  A token is live until the gateway's answer is in, so a    *)
(* message can be on the mesh while its token still is: Tokens says how    *)
(* many there can be at each stage of a poll, and Mails that the mail in   *)
(* hand is a written one, about a single packet.                           *)
(***************************************************************************)

InMail(p, at) == poll.at = at /\ p \in inbox[poll.mail].about

Mailed ==
  \A p \in Packet :
    /\ mails[p] = 0 => token[p] = "none" /\ mail[p] = "none"
    /\ mails[p] # 0 => mails[p] = 1 /\ p \in alertedAt

Mails ==
  /\ \A m \in poll.left : inbox[m] # Unwritten
  /\ poll.at \in {"posting", "taken", "flagging"} => inbox[poll.mail] # Unwritten
  /\ \A m \in Reply : inbox[m] # Unwritten => \A p, q \in inbox[m].about : p = q

Tokens ==
  \A p \in Packet :
    /\ sent[p] <= 1 + doubts[p]
    /\ token[p] = "none" => sent[p] = 0
    /\ token[p] = "live" => sent[p] <= doubts[p] \/ InMail(p, "taken")
    /\ InMail(p, "posting") => token[p] # "none" /\ sent[p] <= doubts[p]
    /\ InMail(p, "taken") => token[p] # "none"

MailInv == MailTypeOK /\ Mailed /\ Mails /\ Tokens

-----------------------------------------------------------------------------
(* What the prover needs to know of the records.                            *)

LEMMA PollParts ==
  ASSUME MailTypeOK
  PROVE  /\ poll.at \in {"idle", "reading", "posting", "taken", "flagging"}
         /\ poll.left \subseteq Reply
         /\ poll.at \in {"posting", "taken", "flagging"} => poll.mail \in Reply
  <1>1. poll \in [at : {"idle", "reading"}, left : SUBSET Reply] \cup InHand
    BY DEF MailTypeOK
  <1> QED BY <1>1 DEF InHand

LEMMA MailParts ==
  ASSUME MailTypeOK, NEW m \in Reply, inbox[m] # Unwritten
  PROVE  /\ inbox[m] \in [at : {"unseen", "seen"}, about : SUBSET Packet]
         /\ inbox[m].about \subseteq Packet
  <1>1. inbox[m] \in [at : {"unseen", "seen"}, about : SUBSET Packet]
    BY DEF MailTypeOK
  <1> QED BY <1>1

LEMMA Counters ==
  ASSUME MailTypeOK, NEW p \in Packet
  PROVE  mails[p] \in Nat /\ sent[p] \in Nat /\ doubts[p] \in Nat
  BY DEF MailTypeOK

LEMMA NewPoll ==
  ASSUME MailTypeOK,
         \/ poll' \in [at : {"idle", "reading"}, left : SUBSET Reply]
         \/ poll' \in InHand
  PROVE  poll' \in [at : {"idle", "reading"}, left : SUBSET Reply] \cup InHand
  OBVIOUS

LEMMA HandedOn ==
  ASSUME MailTypeOK, NEW at \in {"posting", "taken", "flagging"},
         poll.at \in {"posting", "taken", "flagging"}, poll' = [poll EXCEPT !.at = at]
  PROVE  poll' \in InHand /\ poll'.at = at /\ poll'.mail = poll.mail /\ poll'.left = poll.left
  <1>1. poll \in [at : {"idle", "reading"}, left : SUBSET Reply] \cup InHand
    BY DEF MailTypeOK
  <1>2. poll \in InHand
    BY <1>1 DEF InHand
  <1> QED BY <1>2 DEF InHand

LEMMA WentIdle ==
  ASSUME poll' = NoPoll
  PROVE  /\ poll' \in [at : {"idle", "reading"}, left : SUBSET Reply]
         /\ poll'.at = "idle" /\ poll'.left = {}
  BY DEF NoPoll

-----------------------------------------------------------------------------
(* Steps that concern the alerts leave the inbox, the poll and the messages.*)

LEMMA AlertSide ==
  ASSUME MailInv, NEW p \in Packet,
         UNCHANGED <<inbox, poll, sent, doubts>>,
         token' \in [Packet -> {"none", "live", "used", "expired"}],
         \A q \in Packet : \/ token'[q] = token[q]
                           \/ token[q] = "live" /\ token'[q] = "expired"
                           \/ token[q] = "none" /\ token'[q] = "live"
  PROVE  Mails' /\ Tokens'
  <1>1. Mails'
    BY DEF MailInv, Mails
  <1>2. ASSUME NEW q \in Packet
        PROVE  /\ InMail(q, "posting")' = InMail(q, "posting")
               /\ InMail(q, "taken")' = InMail(q, "taken")
    BY DEF InMail
  <1>3. ASSUME NEW q \in Packet
        PROVE  sent[q] \in Nat /\ doubts[q] \in Nat /\ sent'[q] = sent[q] /\ doubts'[q] = doubts[q]
    BY Counters DEF MailInv
  <1>4. Tokens'
    BY <1>2, <1>3 DEF MailInv, Tokens
  <1> QED BY <1>1, <1>4

LEMMA HearStep ==
  ASSUME MailInv, NEW p \in Packet, Hear(p)
  PROVE  MailInv'
  <1>0. /\ alertedAt' = alertedAt \cup ({p} \cap alerted')
        /\ stored' = stored \cup {p} /\ seenLive' = seenLive \cup {p}
        /\ UNCHANGED <<inbox, poll, sent, doubts, faults>>
    BY DEF Hear, Persisted, pollVars
  <1>1. CASE p \notin seenLive /\ CanSend(RuleOf[p]) /\ ~IsAlerted(p)
    <2>1. Alert(p)
      BY <1>1 DEF Hear
    <2>2. mails[p] = 0 /\ token[p] = "none"
      BY <1>1 DEF MailInv, Mailed, IsAlerted
    <2>3. p \in alertedAt'
      BY <1>0, <2>1 DEF Alert
    <2>4. RuleOf[p] \in Rule
      BY MailAssumption
    <2>5. MailTypeOK'
      BY <1>0, <2>1, <2>4 DEF MailInv, MailTypeOK, Alert
    <2>6. Mailed'
      BY <1>0, <2>1, <2>2, <2>3 DEF MailInv, MailTypeOK, Mailed, Alert
    <2>7. Mails' /\ Tokens'
      <3>1. \A q \in Packet : token'[q] = token[q] \/ (token[q] = "none" /\ token'[q] = "live")
        BY <2>1, <2>2 DEF Alert, MailInv, MailTypeOK
      <3>2. token' \in [Packet -> {"none", "live", "used", "expired"}]
        BY <2>5 DEF MailTypeOK
      <3> QED BY <1>0, <3>1, <3>2, AlertSide
    <2> QED BY <2>5, <2>6, <2>7 DEF MailInv
  <1>2. CASE ~(p \notin seenLive /\ CanSend(RuleOf[p]) /\ ~IsAlerted(p))
    <2>1. UNCHANGED <<cooling, alerted, token, mail, mails>>
      BY <1>2 DEF Hear
    <2>2. MailTypeOK'
      BY <1>0, <2>1 DEF MailInv, MailTypeOK
    <2>3. Mailed'
      BY <1>0, <2>1 DEF MailInv, Mailed
    <2>4. Mails' /\ Tokens'
      BY <1>0, <2>1, AlertSide DEF MailInv, MailTypeOK
    <2> QED BY <2>2, <2>3, <2>4 DEF MailInv
  <1> QED BY <1>1, <1>2

LEMMA AlertStep ==
  ASSUME MailInv,
         \/ BridgeConnects
         \/ \E r \in Rule : OtherAlert(r) \/ CooldownEnds(r)
         \/ \E p \in Packet : TokenExpires(p) \/ \E end \in {"delivered", "lost"} : MailEnds(p, end)
  PROVE  MailInv'
  <1>1. ASSUME BridgeConnects \/ \E r \in Rule : OtherAlert(r) \/ CooldownEnds(r)
        PROVE  MailInv'
    <2>1. /\ cooling' \subseteq Rule /\ seenLive' \subseteq Packet
          /\ UNCHANGED <<alerted, stored, alertedAt, token, mail, inbox, poll, mails, sent, doubts,
                         faults>>
      BY <1>1 DEF BridgeConnects, OtherAlert, CooldownEnds, pollVars, history, MailInv, MailTypeOK
    <2> QED BY <2>1 DEF MailInv, MailTypeOK, Mailed, Mails, Tokens, InMail
  <1>2. ASSUME NEW p \in Packet, TokenExpires(p)
        PROVE  MailInv'
    <2>1. /\ UNCHANGED <<cooling, seenLive, alerted, stored, alertedAt, mail>>
          /\ UNCHANGED <<inbox, poll, mails, sent, doubts, faults>>
          /\ token[p] = "live" /\ token' = [token EXCEPT ![p] = "expired"]
      BY <1>2 DEF TokenExpires, pollVars, history
    <2>2. MailTypeOK'
      BY <2>1 DEF MailInv, MailTypeOK
    <2>3. Mailed'
      BY <2>1 DEF MailInv, MailTypeOK, Mailed
    <2>4. Mails' /\ Tokens'
      BY <2>1, <2>2, AlertSide DEF MailInv, MailTypeOK
    <2> QED BY <2>2, <2>3, <2>4 DEF MailInv
  <1>3. ASSUME NEW p \in Packet, NEW end \in {"delivered", "lost"}, MailEnds(p, end)
        PROVE  MailInv'
    <2>1. /\ UNCHANGED <<cooling, seenLive, alerted, stored, alertedAt, token>>
          /\ UNCHANGED <<inbox, poll, mails, sent, doubts, faults>>
          /\ mail[p] = "sending" /\ mail' = [mail EXCEPT ![p] = end]
      BY <1>3 DEF MailEnds, pollVars, history
    <2>2. MailTypeOK'
      BY <2>1 DEF MailInv, MailTypeOK
    <2>3. Mailed'
      BY <2>1 DEF MailInv, MailTypeOK, Mailed
    <2>4. Mails' /\ Tokens'
      BY <2>1 DEF MailInv, Mails, Tokens, InMail
    <2> QED BY <2>2, <2>3, <2>4 DEF MailInv
  <1> QED BY <1>1, <1>2, <1>3

-----------------------------------------------------------------------------
(* Steps of the poll leave the alerts, and what is unchanged with them.     *)

LEMMA WrittenStep ==
  ASSUME MailInv, NEW m \in Reply, NEW about \in {{}} \cup {{p} : p \in Packet}, Written(m, about)
  PROVE  MailInv'
  <1>1. /\ inbox[m] = Unwritten
        /\ inbox' = [inbox EXCEPT ![m] = [at |-> "unseen", about |-> about]]
        /\ UNCHANGED <<cooling, seenLive, alerted, stored, alertedAt, token, mail>>
        /\ UNCHANGED <<poll, mails, sent, doubts, faults>>
    BY DEF Written, alertVars, history
  <1>2. about \in SUBSET Packet /\ \A p, q \in about : p = q
    OBVIOUS
  <1>3. [at |-> "unseen", about |-> about] \in [at : {"unseen", "seen"}, about : SUBSET Packet]
    BY <1>2
  <1>4. [at |-> "unseen", about |-> about] # Unwritten
        /\ [at |-> "unseen", about |-> about].about = about
    BY DEF Unwritten
  <1>5. /\ \A n \in Reply \ {m} : inbox'[n] = inbox[n]
        /\ inbox'[m] = [at |-> "unseen", about |-> about]
    BY <1>1 DEF MailInv, MailTypeOK
  <1>6. inbox' \in [Reply -> {Unwritten} \cup [at : {"unseen", "seen"}, about : SUBSET Packet]]
    BY <1>1, <1>3 DEF MailInv, MailTypeOK
  <1>7. MailTypeOK'
    BY <1>1, <1>6 DEF MailInv, MailTypeOK
  <1>8. Mailed'
    BY <1>1 DEF MailInv, Mailed
  <1>9. m \notin poll.left
        /\ (poll.at \in {"posting", "taken", "flagging"} => poll.mail \in Reply \ {m})
    BY <1>1, PollParts DEF MailInv, Mails
  <1>10. Mails'
    <2>1. \A n \in poll.left : inbox'[n] # Unwritten
      BY <1>5, <1>9, PollParts DEF MailInv, Mails
    <2>2. poll.at \in {"posting", "taken", "flagging"} => inbox'[poll.mail] # Unwritten
      BY <1>5, <1>9 DEF MailInv, Mails
    <2>3. \A n \in Reply : inbox'[n] # Unwritten => \A p, q \in inbox'[n].about : p = q
      BY <1>2, <1>4, <1>5 DEF MailInv, Mails
    <2> QED BY <1>1, <2>1, <2>2, <2>3 DEF Mails
  <1>11. Tokens'
    <2>1. ASSUME NEW p \in Packet
          PROVE  /\ InMail(p, "posting")' = InMail(p, "posting")
                 /\ InMail(p, "taken")' = InMail(p, "taken")
      BY <1>1, <1>5, <1>9 DEF InMail
    <2> QED BY <1>1, <2>1 DEF MailInv, Tokens
  <1> QED BY <1>7, <1>8, <1>10, <1>11 DEF MailInv

(* A step that only moves the poll on.                                      *)
LEMMA PollOnly ==
  ASSUME MailInv, UNCHANGED <<alertVars, inbox, history>>, faults' \in 0 .. MaxFaults,
         \/ poll' \in [at : {"idle", "reading"}, left : SUBSET Reply]
         \/ poll' \in InHand,
         Mails',
         \A p \in Packet :
           /\ token[p] = "live" => sent[p] <= doubts[p] \/ InMail(p, "taken")'
           /\ InMail(p, "posting")' => token[p] # "none" /\ sent[p] <= doubts[p]
           /\ InMail(p, "taken")' => token[p] # "none"
  PROVE  MailInv'
  <1>1. /\ UNCHANGED <<cooling, seenLive, alerted, stored, alertedAt, token, mail>>
        /\ UNCHANGED <<inbox, mails, sent, doubts>>
    BY DEF alertVars, history
  <1>2. MailTypeOK'
    BY <1>1 DEF MailInv, MailTypeOK
  <1>3. Mailed'
    BY <1>1 DEF MailInv, Mailed
  <1>4. Tokens'
    BY <1>1 DEF MailInv, Tokens
  <1> QED BY <1>2, <1>3, <1>4 DEF MailInv

LEMMA NothingInHand ==
  ASSUME MailInv, UNCHANGED <<alertVars, inbox, history>>, faults' \in 0 .. MaxFaults,
         poll.at # "taken",
         poll' \in [at : {"idle", "reading"}, left : SUBSET Reply],
         \A m \in poll'.left : inbox[m] # Unwritten
  PROVE  MailInv'
  <1>1. poll'.at \in {"idle", "reading"} /\ inbox' = inbox
    OBVIOUS
  <1>2. Mails'
    BY <1>1 DEF MailInv, Mails
  <1>3. ASSUME NEW p \in Packet
        PROVE  ~InMail(p, "taken") /\ ~InMail(p, "taken")' /\ ~InMail(p, "posting")'
    BY <1>1 DEF InMail
  <1> QED BY <1>2, <1>3, PollOnly DEF MailInv, Tokens

LEMMA PollMoves ==
  ASSUME MailInv, PollStarts \/ PollBreaks \/ GatewayRefuses
  PROVE  MailInv'
  <1>0. faults \in 0 .. MaxFaults /\ MaxFaults \in Nat
    BY MailAssumption DEF MailInv, MailTypeOK
  <1>1. CASE PollStarts
    <2>1. poll = NoPoll /\ poll' = [at |-> "reading", left |-> Unseen] /\ faults' = faults
          /\ UNCHANGED <<alertVars, inbox, history>>
      BY <1>1 DEF PollStarts
    <2>2. Unseen \subseteq Reply /\ \A m \in Unseen : inbox[m] # Unwritten
      BY DEF Unseen, Unwritten
    <2>3. poll.at # "taken" /\ poll' \in [at : {"idle", "reading"}, left : SUBSET Reply]
          /\ poll'.left = Unseen
      BY <2>1, <2>2 DEF NoPoll
    <2> QED BY <1>0, <2>1, <2>2, <2>3, NothingInHand
  <1>2. CASE PollBreaks
    <2>1. poll.at # "taken" /\ poll' = NoPoll /\ UNCHANGED <<alertVars, inbox, history>>
          /\ faults < MaxFaults /\ faults' = faults + 1
      BY <1>2 DEF PollBreaks, Fault
    <2>2. faults' \in 0 .. MaxFaults
      BY <1>0, <2>1
    <2> QED BY <2>1, <2>2, WentIdle, NothingInHand
  <1>3. CASE GatewayRefuses
    <2>1. poll.at = "posting" /\ poll' = [poll EXCEPT !.at = "flagging"] /\ faults' = faults
          /\ UNCHANGED <<alertVars, inbox, history>> /\ inbox' = inbox
      BY <1>3 DEF GatewayRefuses
    <2>2. poll' \in InHand /\ poll'.at = "flagging" /\ poll'.mail = poll.mail
          /\ poll'.left = poll.left
      BY <2>1, HandedOn DEF MailInv
    <2>3. Mails'
      BY <2>1, <2>2 DEF MailInv, Mails
    <2>4. ASSUME NEW p \in Packet
          PROVE  ~InMail(p, "taken") /\ ~InMail(p, "taken")' /\ ~InMail(p, "posting")'
      BY <2>1, <2>2 DEF InMail
    <2> QED BY <1>0, <2>1, <2>2, <2>3, <2>4, PollOnly DEF MailInv, Tokens
  <1> QED BY <1>1, <1>2, <1>3

LEMMA TakeStep ==
  ASSUME MailInv, NEW m \in Reply, Take(m)
  PROVE  MailInv'
  <1>0. faults \in 0 .. MaxFaults
    BY DEF MailInv, MailTypeOK
  <1>1. PICK at \in {"posting", "flagging"} :
          at = IF HasToken(m) THEN "posting" ELSE "flagging"
    OBVIOUS
  <1>2. /\ poll.at = "reading" /\ m \in poll.left /\ faults' = faults
        /\ UNCHANGED <<alertVars, inbox, history>> /\ inbox' = inbox
        /\ poll' = [at |-> at, left |-> poll.left \ {m}, mail |-> m]
    BY <1>1 DEF Take, InHandNow
  <1>3. poll' \in InHand /\ poll'.at = at /\ poll'.mail = m /\ poll'.left \subseteq poll.left
    BY <1>2, PollParts DEF MailInv, InHand
  <1>4. inbox[m] # Unwritten
    BY <1>2 DEF MailInv, Mails
  <1>5. Mails'
    BY <1>2, <1>3, <1>4 DEF MailInv, Mails
  <1>6. ASSUME NEW p \in Packet
        PROVE  ~InMail(p, "taken") /\ ~InMail(p, "taken")'
               /\ (token[p] = "live" => sent[p] <= doubts[p])
    BY <1>2, <1>3 DEF InMail, MailInv, Tokens
  <1>7. ASSUME NEW p \in Packet, InMail(p, "posting")'
        PROVE  token[p] = "live"
    <2>1. p \in inbox[m].about /\ at = "posting"
      BY <1>2, <1>3, <1>7 DEF InMail
    <2>2. PICK q \in inbox[m].about : token[q] = "live"
      BY <1>1, <2>1 DEF HasToken
    <2> QED BY <1>4, <2>1, <2>2 DEF MailInv, Mails
  <1> QED BY <1>0, <1>2, <1>3, <1>5, <1>6, <1>7, PollOnly

LEMMA GatewayTakesStep ==
  ASSUME MailInv, GatewayTakes
  PROVE  MailInv'
  <1>1. /\ poll.at = "posting" /\ poll' = [poll EXCEPT !.at = "taken"]
        /\ sent' = [p \in Packet |-> sent[p] + IF p \in inbox[poll.mail].about THEN 1 ELSE 0]
        /\ UNCHANGED <<cooling, seenLive, alerted, stored, alertedAt, token, mail>>
        /\ UNCHANGED <<inbox, mails, doubts, faults>>
    BY DEF GatewayTakes, alertVars
  <1>2. poll' \in InHand /\ poll'.at = "taken" /\ poll'.mail = poll.mail /\ poll'.left = poll.left
    BY <1>1, HandedOn DEF MailInv
  <1>3. \A p \in Packet :
          sent'[p] = IF InMail(p, "posting") THEN sent[p] + 1 ELSE sent[p]
    <2>1. ASSUME NEW p \in Packet
          PROVE  sent'[p] = IF InMail(p, "posting") THEN sent[p] + 1 ELSE sent[p]
      BY <1>1, Counters DEF InMail, MailInv
    <2> QED BY <2>1
  <1>4. sent' \in [Packet -> Nat]
    BY <1>1, Counters DEF MailInv
  <1>5. MailTypeOK'
    BY <1>1, <1>2, <1>4 DEF MailInv, MailTypeOK
  <1>6. Mailed'
    BY <1>1 DEF MailInv, Mailed
  <1>7. Mails'
    BY <1>1, <1>2 DEF MailInv, Mails
  <1>8. ASSUME NEW p \in Packet
        PROVE  /\ InMail(p, "taken")' = InMail(p, "posting")
               /\ ~InMail(p, "posting")' /\ ~InMail(p, "taken")
    BY <1>1, <1>2 DEF InMail
  <1>9. ASSUME NEW p \in Packet
        PROVE  sent[p] \in Nat /\ doubts[p] \in Nat /\ token'[p] = token[p] /\ doubts'[p] = doubts[p]
    BY <1>1, Counters DEF MailInv
  <1>10. Tokens'
    <2> SUFFICES ASSUME NEW p \in Packet
                 PROVE  /\ sent'[p] <= 1 + doubts'[p]
                        /\ token'[p] = "none" => sent'[p] = 0
                        /\ token'[p] = "live" => sent'[p] <= doubts'[p] \/ InMail(p, "taken")'
                        /\ InMail(p, "taken")' => token'[p] # "none"
      BY <1>8 DEF Tokens
    <2>1. CASE InMail(p, "posting")
      BY <1>3, <1>8, <1>9, <2>1 DEF MailInv, Tokens
    <2>2. CASE ~InMail(p, "posting")
      BY <1>3, <1>8, <1>9, <2>2 DEF MailInv, Tokens
    <2> QED BY <2>1, <2>2
  <1> QED BY <1>5, <1>6, <1>7, <1>10 DEF MailInv

LEMMA AnsweredStep ==
  ASSUME MailInv, Answered
  PROVE  MailInv'
  <1>1. /\ poll.at = "taken" /\ poll' = [poll EXCEPT !.at = "flagging"]
        /\ token' = Consumed(inbox[poll.mail].about)
        /\ UNCHANGED <<cooling, seenLive, alerted, stored, alertedAt, mail>>
        /\ UNCHANGED <<inbox, mails, sent, doubts, faults>>
    BY DEF Answered, history
  <1>2. poll' \in InHand /\ poll'.at = "flagging" /\ poll'.mail = poll.mail /\ poll'.left = poll.left
    BY <1>1, HandedOn DEF MailInv
  <1>3. \A p \in Packet :
          token'[p] = IF InMail(p, "taken") /\ token[p] = "live" THEN "used" ELSE token[p]
    BY <1>1 DEF Consumed, InMail
  <1>4. token' \in [Packet -> {"none", "live", "used", "expired"}]
    BY <1>1 DEF Consumed, MailInv, MailTypeOK
  <1>5. MailTypeOK'
    BY <1>1, <1>2, <1>4 DEF MailInv, MailTypeOK
  <1>6. Mailed'
    BY <1>1, <1>3 DEF MailInv, Mailed
  <1>7. Mails'
    BY <1>1, <1>2 DEF MailInv, Mails
  <1>8. ASSUME NEW p \in Packet
        PROVE  ~InMail(p, "taken")' /\ ~InMail(p, "posting")'
    BY <1>2 DEF InMail
  <1>9. Tokens'
    BY <1>1, <1>3, <1>8 DEF MailInv, Tokens
  <1> QED BY <1>5, <1>6, <1>7, <1>9 DEF MailInv

(* An answer that does not come: the messages it leaves in doubt.           *)
LEMMA DoubtedStep ==
  ASSUME MailInv, doubts' = Doubted, UNCHANGED <<token, sent>>,
         poll'.at \in {"idle", "flagging"}
  PROVE  doubts' \in [Packet -> Nat] /\ Tokens'
  <1>1. \A p \in Packet :
          doubts'[p] = IF InMail(p, "taken") THEN doubts[p] + 1 ELSE doubts[p]
    <2>1. ASSUME NEW p \in Packet
          PROVE  doubts'[p] = IF InMail(p, "taken") THEN doubts[p] + 1 ELSE doubts[p]
      BY Counters DEF Doubted, InMail, MailInv
    <2> QED BY <2>1
  <1>2. doubts' \in [Packet -> Nat]
    BY Counters DEF Doubted, MailInv, MailTypeOK
  <1>3. ASSUME NEW p \in Packet
        PROVE  /\ ~InMail(p, "taken")' /\ ~InMail(p, "posting")'
               /\ sent[p] \in Nat /\ doubts[p] \in Nat
    BY Counters DEF InMail, MailInv
  <1>4. Tokens'
    BY <1>1, <1>3 DEF MailInv, Tokens
  <1> QED BY <1>2, <1>4

LEMMA AnswerLostStep ==
  ASSUME MailInv, AnswerLost
  PROVE  MailInv'
  <1>1. /\ poll.at = "taken" /\ poll' = [poll EXCEPT !.at = "flagging"]
        /\ doubts' = Doubted /\ faults < MaxFaults /\ faults' = faults + 1
        /\ UNCHANGED <<cooling, seenLive, alerted, stored, alertedAt, token, mail>>
        /\ UNCHANGED <<inbox, mails, sent>>
    BY DEF AnswerLost, Fault, alertVars
  <1>2. poll' \in InHand /\ poll'.at = "flagging" /\ poll'.mail = poll.mail /\ poll'.left = poll.left
    BY <1>1, HandedOn DEF MailInv
  <1>3. doubts' \in [Packet -> Nat] /\ Tokens'
    BY <1>1, <1>2, DoubtedStep
  <1>4. faults' \in 0 .. MaxFaults
    BY <1>1, MailAssumption DEF MailInv, MailTypeOK
  <1>5. MailTypeOK'
    BY <1>1, <1>2, <1>3, <1>4 DEF MailInv, MailTypeOK
  <1>6. Mailed'
    BY <1>1 DEF MailInv, Mailed
  <1>7. Mails'
    BY <1>1, <1>2 DEF MailInv, Mails
  <1> QED BY <1>3, <1>5, <1>6, <1>7 DEF MailInv

LEMMA DiesStep ==
  ASSUME MailInv, Dies, faults' \in 0 .. MaxFaults
  PROVE  MailInv'
  <1>1. /\ seenLive' = {} /\ alerted' = {} /\ poll' = NoPoll /\ doubts' = Doubted
        /\ mail' = [p \in Packet |-> IF mail[p] = "sending" THEN "lost" ELSE mail[p]]
        /\ UNCHANGED <<cooling, stored, alertedAt, token, inbox, mails, sent>>
    BY DEF Dies
  <1>2. poll'.at = "idle" /\ poll'.left = {}
        /\ poll' \in [at : {"idle", "reading"}, left : SUBSET Reply]
    BY <1>1, WentIdle
  <1>3. doubts' \in [Packet -> Nat] /\ Tokens'
    BY <1>1, <1>2, DoubtedStep
  <1>4. mail' \in [Packet -> {"none", "sending", "delivered", "lost"}]
    BY <1>1 DEF MailInv, MailTypeOK
  <1>5. MailTypeOK'
    BY <1>1, <1>2, <1>3, <1>4 DEF MailInv, MailTypeOK
  <1>6. Mailed'
    BY <1>1 DEF MailInv, Mailed
  <1>7. Mails'
    BY <1>1, <1>2 DEF MailInv, Mails
  <1> QED BY <1>3, <1>5, <1>6, <1>7 DEF MailInv

LEMMA CrashStep ==
  ASSUME MailInv, Crash
  PROVE  MailInv'
  <1>1. Dies /\ faults' \in 0 .. MaxFaults
    BY MailAssumption DEF Crash, Fault, MailInv, MailTypeOK
  <1> QED BY <1>1, DiesStep

LEMMA FlagHangsStep ==
  ASSUME MailInv, FlagHangs
  PROVE  MailInv'
  <1>0. poll.at = "flagging" /\ faults' \in 0 .. MaxFaults
    BY DEF FlagHangs, MailInv, MailTypeOK
  <1>1. CASE poll' = NoPoll /\ UNCHANGED <<alertVars, inbox, history>>
    BY <1>0, <1>1, WentIdle, NothingInHand
  <1>2. CASE Dies
    BY <1>0, <1>2, DiesStep
  <1> QED BY <1>1, <1>2 DEF FlagHangs

LEMMA FlaggedStep ==
  ASSUME MailInv, Flagged
  PROVE  MailInv'
  <1>1. /\ poll.at = "flagging"
        /\ inbox' = [inbox EXCEPT ![poll.mail].at = "seen"]
        /\ poll' = IF poll.left = {} THEN NoPoll ELSE [at |-> "reading", left |-> poll.left]
        /\ UNCHANGED <<cooling, seenLive, alerted, stored, alertedAt, token, mail>>
        /\ UNCHANGED <<mails, sent, doubts, faults>>
    BY DEF Flagged, alertVars, history
  <1>2. /\ poll' \in [at : {"idle", "reading"}, left : SUBSET Reply]
        /\ poll'.at \in {"idle", "reading"} /\ poll'.left = poll.left
    BY <1>1, PollParts DEF MailInv, NoPoll
  <1>3. PICK m \in Reply : m = poll.mail
    BY <1>1, PollParts DEF MailInv
  <1>4. inbox[m] # Unwritten
    BY <1>1, <1>3 DEF MailInv, Mails
  <1>5. PICK r : r = [inbox[m] EXCEPT !.at = "seen"]
    OBVIOUS
  <1>6. r \in [at : {"unseen", "seen"}, about : SUBSET Packet] /\ r.about = inbox[m].about
    BY <1>4, <1>5, MailParts DEF MailInv
  <1>7. r # Unwritten
    BY <1>6 DEF Unwritten
  <1>8. inbox' = [inbox EXCEPT ![m] = r]
    BY <1>1, <1>3, <1>5
  <1>9. inbox' \in [Reply -> {Unwritten} \cup [at : {"unseen", "seen"}, about : SUBSET Packet]]
    BY <1>6, <1>8 DEF MailInv, MailTypeOK
  <1>10. /\ inbox'[m] = r
         /\ \A n \in Reply \ {m} : inbox'[n] = inbox[n]
    BY <1>8 DEF MailInv, MailTypeOK
  <1>11. MailTypeOK'
    BY <1>1, <1>2, <1>9 DEF MailInv, MailTypeOK
  <1>12. Mailed'
    BY <1>1 DEF MailInv, Mailed
  <1>13. Mails'
    <2>1. \A n \in poll.left : inbox'[n] # Unwritten
      BY <1>7, <1>10, PollParts DEF MailInv, Mails
    <2>2. \A n \in Reply : inbox'[n] # Unwritten => \A p, q \in inbox'[n].about : p = q
      BY <1>4, <1>6, <1>10 DEF MailInv, Mails
    <2> QED BY <1>2, <2>1, <2>2 DEF Mails
  <1>14. ASSUME NEW p \in Packet
         PROVE  ~InMail(p, "taken") /\ ~InMail(p, "taken")' /\ ~InMail(p, "posting")'
    BY <1>1, <1>2 DEF InMail
  <1>15. Tokens'
    BY <1>1, <1>14 DEF MailInv, Tokens
  <1> QED BY <1>11, <1>12, <1>13, <1>15 DEF MailInv

-----------------------------------------------------------------------------
LEMMA MailInvInit == MailInit => MailInv
  <1> SUFFICES ASSUME MailInit PROVE MailInv
    OBVIOUS
  <1>1. /\ cooling = {} /\ seenLive = {} /\ alerted = {} /\ stored = {} /\ alertedAt = {}
        /\ token = [p \in Packet |-> "none"] /\ mail = [p \in Packet |-> "none"]
        /\ inbox = [m \in Reply |-> Unwritten] /\ poll = NoPoll /\ faults = 0
        /\ mails = [p \in Packet |-> 0] /\ sent = [p \in Packet |-> 0]
        /\ doubts = [p \in Packet |-> 0]
    BY DEF MailInit
  <1>2. poll \in [at : {"idle", "reading"}, left : SUBSET Reply]
        /\ poll.at = "idle" /\ poll.left = {}
    BY <1>1 DEF NoPoll
  <1>3. MailTypeOK
    BY <1>1, <1>2, MailAssumption DEF MailTypeOK
  <1>4. Mailed
    BY <1>1 DEF Mailed
  <1>5. Mails
    BY <1>1, <1>2 DEF Mails
  <1>6. Tokens
    BY <1>1, <1>2 DEF Tokens, InMail
  <1> QED BY <1>3, <1>4, <1>5, <1>6 DEF MailInv

LEMMA MailInvStep == MailInv /\ [MailNext]_mailVars => MailInv'
  <1> SUFFICES ASSUME MailInv, [MailNext]_mailVars PROVE MailInv'
    OBVIOUS
  <1>1. CASE UNCHANGED mailVars
    BY <1>1 DEF mailVars, alertVars, pollVars, history, MailInv, MailTypeOK, Mailed, Mails, Tokens, InMail
  <1>2. CASE MailNext
    BY <1>2, HearStep, AlertStep, WrittenStep, TakeStep, PollMoves, GatewayTakesStep,
       AnsweredStep, AnswerLostStep, FlaggedStep, FlagHangsStep, CrashStep DEF MailNext
  <1> QED BY <1>1, <1>2

(* The strengthening holds throughout.                                      *)
THEOREM MailInvariance == MailSpec => []MailInv
  <1> QED BY MailInvInit, MailInvStep, PTL DEF MailSpec

(* Every variable keeps to its values.                                      *)
THEOREM MailsTyped == MailSpec => []MailTypeOK
  <1>1. MailInv => MailTypeOK
    BY DEF MailInv
  <1> QED BY <1>1, MailInvariance, PTL

(* A message is mailed once, by however many radios it is heard, and        *)
(* whenever the process restarts.                                           *)
THEOREM MailedOnce == MailSpec => []OneMailPerPacket
  <1>1. MailInv => OneMailPerPacket
    BY DEF MailInv, Mailed, OneMailPerPacket
  <1> QED BY <1>1, MailInvariance, PTL

(* A token sends one message to the mesh, and one more for each time the    *)
(* answer of the gateway was lost, however often the same mail is handled.  *)
THEOREM AnsweredOnce == MailSpec => []OneAnswerPerToken
  <1>1. MailInv => OneAnswerPerToken
    BY DEF MailInv, Tokens, OneAnswerPerToken
  <1> QED BY <1>1, MailInvariance, PTL
=============================================================================
