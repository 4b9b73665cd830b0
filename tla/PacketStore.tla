----------------------------- MODULE PacketStore -----------------------------
(***************************************************************************)
(* src/persist.js with the statements of db.js it runs and the stamp of    *)
(* bridge-events.js: what is stored of the packets of one node.  The rows  *)
(* of two nodes share nothing.                                             *)
(*                                                                         *)
(* The node sends one packet per tick, so a packet is named by its time,   *)
(* and so are the name and the position it carries: a later one is newer.  *)
(* Each of our radios may hear it, straight from the node or by a relay.   *)
(* The gateway delivers a reception as a packet event, again after a       *)
(* reconnection, late and in any order; as a typed event of the same tick; *)
(* and later what a radio remembers, as a node_info or as a made-up packet *)
(* with the flag replay.  0 stands for null.                               *)
(***************************************************************************)
EXTENDS Integers, Sequences, FiniteSetsExt

CONSTANTS
  Radio,    \* our radios
  Kind,     \* those the node sends: text, info, position, telemetry, environment, sealed
  MaxTime,  \* bound on the time, and on the packets sent
  Grace,    \* CLOCK_SKEW_GRACE_S
  Skew,     \* bound on how far the node's clock is off
  None      \* no row

VARIABLES
  now,
  kind,      \* kind[p]: what was sent at p
  air,       \* the receptions there were: packet, radio, by a relay or not
  row,       \* the row of table nodes
  info,      \* the row of table nodeinfo
  signals,   \* signal_history: packet and radio, unique
  newest,    \* the latest reception delivered since the rows were deleted
  cleared    \* DELETE /nodes was called

tables == <<row, info, signals>>
storeVars   == <<now, kind, air, row, info, signals, newest, cleared>>

Metrics == {"telemetry", "environment"}
Decoded == Metrics \cup {"info", "position"}

Packet    == 1 .. MaxTime
Time      == 0 .. MaxTime + Grace
Reception == [packet : Packet, radio : Radio, relayed : BOOLEAN]
Signal    == (0 .. MaxTime) \X Radio
Row       == [heard : Time, rf : 0 .. MaxTime, name : 0 .. MaxTime, pos : 0 .. MaxTime,
              signal : Signal \cup {None}]
InfoRow   == [name : 0 .. MaxTime, pos : 0 .. MaxTime]

ASSUME StoreAssumption ==
  /\ MaxTime \in Nat /\ Grace \in Nat /\ Skew \in Nat
  /\ None \notin Row \cup InfoRow

StoreInit ==
  /\ now = 0
  /\ kind = <<>>
  /\ air = {}
  /\ row = None /\ info = None
  /\ signals = {}
  /\ newest = 0
  /\ cleared = FALSE

Latest(S) == Max(S \cup {0})

(* A packet is sent, and heard by some of our radios.                       *)
Send ==
  /\ now < MaxTime
  /\ now' = now + 1
  /\ \E k \in Kind : kind' = Append(kind, k)
  /\ \E heard \in SUBSET Radio :
       \E direct \in SUBSET heard :
         air' = air \cup {[packet |-> now', radio |-> r, relayed |-> r \notin direct] : r \in heard}
  /\ UNCHANGED <<tables, newest, cleared>>

(* What radio r remembers of the node: when it last heard it, and the last  *)
(* name and position among the packets it heard.                            *)
HeardBy(r)      == {a.packet : a \in {b \in air : b.radio = r}}
Remembers(r, k) == Latest({p \in HeardBy(r) : kind[p] = k})

-----------------------------------------------------------------------------
(* The statements of db.js.                                                 *)

Coalesce(new, old) == IF new = 0 THEN old ELSE new

(* The WHERE of upsertNode                                                  *)
IsStale(t, stored) == t # 0 /\ stored # 0 /\ t < stored

Merged(old, new) ==
  [old EXCEPT !.heard  = Coalesce(new.heard, @),
              !.name   = Coalesce(new.name, @),
              !.pos    = Coalesce(new.pos, @),
              !.signal = IF new.signal = None THEN @ ELSE new.signal]

(* upsertNode                                                               *)
Upserted(new) ==
  IF row = None THEN new
  ELSE IF IsStale(new.heard, row.heard) THEN row
  ELSE Merged(row, new)

\* The stamp is assigned.
Stamped_assigns(r, t) ==
  IF r = None THEN None ELSE [r EXCEPT !.heard = t, !.rf = t]

(* touchRfHeard                                                             *)
Stamped(r, t) ==
  IF r = None THEN None
  ELSE [r EXCEPT !.heard = Latest({@, t}), !.rf = Latest({@, t})]

\* The freshness of the row is not looked at.
Cached_ungated(new) ==
  IF new.name = 0 THEN info
  ELSE IF info = None THEN [name |-> new.name, pos |-> new.pos]
  ELSE [name |-> new.name, pos |-> Coalesce(new.pos, info.pos)]

(* _upsertCache(), after the upsert: nothing without a name, nothing older  *)
(* than the row of table nodes.                                             *)
Cached(new) ==
  IF new.name = 0 \/ IsStale(new.heard, Upserted(new).heard) THEN info
  ELSE IF info = None THEN [name |-> new.name, pos |-> new.pos]
  ELSE [name |-> new.name, pos |-> Coalesce(new.pos, info.pos)]

(* The row after a packet of kind k: upsertNodeEnvMetrics makes one and     *)
(* changes nothing that is modelled of it.                                  *)
Kept(k, report) ==
  IF k \in {"text", "sealed"} \/ (k = "environment" /\ row # None) THEN row
  ELSE Upserted(report)

Report(t, name, pos, signal) ==
  [heard |-> t, rf |-> 0, name |-> name, pos |-> pos, signal |-> signal]

-----------------------------------------------------------------------------
(* Events.                                                                  *)

(* isDirectPacket(): a relayed packet may arrive with no hops to its name   *)
IsDirectPacket(relayed, hops, replay) == ~replay /\ ~relayed /\ hops = 0

(* _captureSignal(): a copy by the same radio is ignored                    *)
Captured(p, r, direct) == IF direct THEN signals \cup {<<p, r>>} ELSE signals

(* handlePacket() and the stamp: packet p of kind k, received by r at t,    *)
(* naming the node and placing it.  A sealed packet is not decoded: it only *)
(* stamps the row.                                                          *)
Store(p, r, k, t, name, direct) ==
  LET signal == IF direct THEN <<p, r>> ELSE None
      report == Report(t, IF k = "info" THEN name ELSE 0, IF k = "position" THEN name ELSE 0, signal)
  IN  /\ signals' = Captured(p, r, direct /\ k # "sealed")
      /\ row' = Stamped(Kept(k, report), t)
      /\ info' = IF k = "info" THEN Cached(report) ELSE info

(* A packet event of a reception, the first or a copy.  1 hop stands for    *)
(* any number but 0, and for a packet that does not tell.                   *)
Deliver(a) ==
  /\ \E hops \in {0, 1} :
       Store(a.packet, a.radio, kind[a.packet], a.packet, a.packet,
             IsDirectPacket(a.relayed, hops, FALSE))
  /\ newest' = Latest({newest, a.packet})
  /\ UNCHANGED <<now, kind, air, cleared>>

(* The firmware of r replays its node database: a packet nobody sent now.   *)
ReplayPacket(r) ==
  /\ HeardBy(r) # {}
  /\ Remembers(r, "info") # 0
  /\ Store(0, r, "info", Latest(HeardBy(r)), Remembers(r, "info"),
           IsDirectPacket(FALSE, 0, TRUE))
  /\ UNCHANGED <<now, kind, air, newest, cleared>>

Abs(x) == IF x < 0 THEN -x ELSE x

(* deviceTime()                                                             *)
DeviceTime(t) == IF Abs(t - now) <= Grace THEN t ELSE now

(* handleEvent() with a decoded event of the packet just received: user and *)
(* position are stamped by our clock, telemetry by the node's.              *)
TypedEvent(a) ==
  /\ a.packet = now
  /\ kind[now] \in Decoded
  /\ \E t \in IF kind[now] \in Metrics THEN {DeviceTime(d) : d \in Max({1, now - Skew}) .. now + Skew}
                                      ELSE {now} :
       LET report == Report(t, IF kind[now] = "info" THEN now ELSE 0,
                               IF kind[now] = "position" THEN now ELSE 0, None)
       IN  /\ row' = Kept(kind[now], report)
           /\ info' = Cached(report)
  /\ UNCHANGED <<now, kind, air, signals, newest, cleared>>

(* handleNodeInfo(): r says what it remembers of the node.                  *)
NodeInfo(r) ==
  LET report == Report(Latest(HeardBy(r)), Remembers(r, "info"), Remembers(r, "position"), None)
  IN  /\ HeardBy(r) # {}
      /\ row' = Upserted(report)
      /\ info' = Cached(report)
      /\ UNCHANGED <<now, kind, air, signals, newest, cleared>>

(* DELETE /nodes                                                            *)
ClearNodes ==
  /\ row # None
  /\ row' = None
  /\ newest' = 0
  /\ cleared' = TRUE
  /\ UNCHANGED <<now, kind, air, info, signals>>

StoreNext ==
  \/ Send
  \/ \E a \in air : Deliver(a) \/ TypedEvent(a)
  \/ \E r \in Radio : ReplayPacket(r) \/ NodeInfo(r)
  \/ ClearNodes

StoreSpec == StoreInit /\ [][StoreNext]_storeVars

-----------------------------------------------------------------------------

StoreTypeOK ==
  /\ now \in 0 .. MaxTime
  /\ kind \in Seq(Kind) /\ Len(kind) = now
  /\ air \subseteq Reception
  /\ newest \in 0 .. MaxTime
  /\ row \in Row \cup {None} /\ info \in InfoRow \cup {None}
  /\ signals \subseteq Signal
  /\ cleared \in BOOLEAN

(* A signal is stored of receptions straight from the node only, and the    *)
(* one the row shows has its sample: neither a relay nor a replay counts    *)
(* (isDirectPacket(), _captureSignal()).                                    *)
SignalsAreDirect ==
  /\ \A s \in signals : \E a \in air : ~a.relayed /\ s = <<a.packet, a.radio>>
  /\ row # None => row.signal \in signals \cup {None}

(* last_heard and rf_last_heard never move back, whatever is delivered late,*)
(* copied or replayed (upsertNode, touchRfHeard).                           *)
RowMovesForward ==
  [][row # None /\ row' # None => row'.heard >= row.heard /\ row'.rf >= row.rf]_storeVars

(* Both tables know the node by the same name, though only one of them      *)
(* keeps the time that decides which report is newer (_upsertCache()).      *)
TablesAgree ==
  row # None /\ row.name # 0 => info # None /\ info.name = row.name

(* A position in nodeinfo is one the row has too, unless the rows were      *)
(* deleted: the cause of the stranded positions that standing-tasks.js      *)
(* looks for.                                                               *)
NoPositionIsStranded ==
  ~cleared /\ row # None /\ info # None /\ info.pos # 0 => row.pos # 0

(* What docs/modules/db.md:273-276 says the WHERE of upsertNode ended: a    *)
(* radio that replays its database rolls a name back.                       *)
NamesMoveForward ==
  [][row # None /\ row' # None => row'.name >= row.name]_storeVars

(* bridge-events.js:56, last-heard-is-king.md:50: a reception is persisted, *)
(* always.                                                                  *)
HeardIsKept == row # None => newest <= row.heard

=============================================================================
