------------------------------- MODULE Callout -------------------------------
(***************************************************************************)
(* src/callout.js and src/callout-runner.js: the public "did you hear me?" *)
(* broadcast.  A sweep picks a node and a wording the guards let through,  *)
(* awaits the gateway, and only then writes the row of callout_log that    *)
(* the guards of the next sweep read.  A text from a node that was called  *)
(* is credited to its latest unanswered row.                               *)
(*                                                                         *)
(* Time is counted in ticks.  Which nodes were heard, placed and in range  *)
(* is left open: a sweep may find any node the best candidate.  A request  *)
(* the gateway has taken goes out even if its answer is lost, or the       *)
(* process that sent it died.                                              *)
(***************************************************************************)
EXTENDS Integers, Sequences, FiniteSets

CONSTANTS
  Node,             \* the nodes that can be called
  Template,         \* the wordings
  Ttl,              \* ttl_days of each wording, in ticks
  Day,              \* a day, in ticks
  QuietHours,       \* the ticks of a day during which we never broadcast
  HardMaxPerDay,    \* HARD_MAX_PER_DAY
  HardMinCooldown,  \* HARD_MIN_COOLDOWN_DAYS, in ticks
  ReplyWindow,      \* REPLY_WINDOW_H, in ticks
  StoredMax,        \* values max_per_day may have in the stored configuration
  StoredCooldown,   \* values cooldown_days may have there, in ticks
  Slot,             \* bound on the sends awaited at once
  MaxTime,          \* bound on the clock
  MaxAir,           \* bound on the transmissions
  MaxDelay,         \* bound on how late a received text is delivered
  None              \* null

ASSUME TimeAssumption ==
  /\ Day \in Nat \ {0} /\ MaxTime \in Nat /\ MaxAir \in Nat /\ MaxDelay \in Nat
  /\ QuietHours \subseteq 0 .. Day - 1
ASSUME GuardAssumption ==
  /\ HardMaxPerDay \in Nat
  /\ HardMinCooldown \in Nat
  /\ ReplyWindow \in 0 .. HardMinCooldown
  /\ Ttl \in [Template -> Nat \ {0}]
ASSUME StoredAssumption ==
  StoredMax \subseteq Nat /\ StoredCooldown \subseteq Nat /\ None \notin Nat

VARIABLES
  now,       \* the clock
  config,    \* the stored callout configuration
  inFlight,  \* _inFlight
  send,      \* what each awaited send is at: idle, posted, on the air, orphan
  log,       \* callout_log, oldest first
  air        \* when each callout was transmitted

vars == <<now, config, inFlight, send, log, air>>

Time   == 1 .. MaxTime
Config == [enabled : BOOLEAN, maxPerDay : StoredMax, cooldown : StoredCooldown,
           quiet : BOOLEAN]
Idle   == [at |-> "idle"]

Row(ts, n, t) == [ts |-> ts, node |-> n, template |-> t, replied |-> None]

Init ==
  /\ now = 1
  /\ config \in {c \in Config : ~c.enabled /\ c.quiet}
  /\ inFlight = FALSE
  /\ send = [k \in Slot |-> Idle]
  /\ log = << >>
  /\ air = << >>

-----------------------------------------------------------------------------
(* calloutConfig(): whatever is stored, the hard limits hold.               *)

\* The stored number is taken as it is.
MaxPerDay_stored == config.maxPerDay

MaxPerDay == IF config.maxPerDay > HardMaxPerDay THEN HardMaxPerDay ELSE config.maxPerDay

\* The stored number is taken as it is.
Cooldown_stored == config.cooldown

Cooldown == IF config.cooldown < HardMinCooldown THEN HardMinCooldown ELSE config.cooldown

Rows == DOMAIN log

RowsSince(t) == {i \in Rows : log[i].ts > t}

UnderCeiling == Cardinality(RowsSince(now - Day)) < MaxPerDay

LeftInPeace(n) == \A i \in Rows : log[i].node = n => now - log[i].ts >= Cooldown

\* A wording may come back on the day its time is up.
Unheard_onTheDay(n, t) ==
  \A i \in Rows : log[i].node = n /\ log[i].template = t => now - log[i].ts >= Ttl[t]

(* eligibleTemplates(): the wordings whose time to live has passed for n.   *)
Unheard(n, t) ==
  \A i \in Rows : log[i].node = n /\ log[i].template = t => now - log[i].ts > Ttl[t]

(* evaluate(): every guard, against the log as it is now.                   *)
Clear(n, t) ==
  /\ config.enabled
  /\ ~inFlight
  /\ config.quiet => now % Day \notin QuietHours
  /\ UnderCeiling
  /\ LeftInPeace(n)
  /\ Unheard(n, t)

(* sweepCallouts() and callout(), up to the await of the gateway.           *)
Sweep(n, t) ==
  /\ Clear(n, t)
  /\ inFlight' = TRUE
  /\ \E k \in Slot :
       /\ send[k] = Idle
       /\ send' = [send EXCEPT ![k] = [at |-> "posted", node |-> n, template |-> t]]
  /\ UNCHANGED <<now, config, log, air>>

(* The gateway answered: the row is written and the flag released.          *)
SendReturns(k) ==
  /\ send[k].at = "on air"
  /\ log' = Append(log, Row(now, send[k].node, send[k].template))
  /\ send' = [send EXCEPT ![k] = Idle]
  /\ inFlight' = FALSE
  /\ UNCHANGED <<now, config, air>>

(* The gateway refused, or its answer was lost: no row, the flag released.  *)
SendFails(k) ==
  /\ send[k].at \in {"posted", "on air"}
  /\ send' = [send EXCEPT ![k] = Idle]
  /\ inFlight' = FALSE
  /\ UNCHANGED <<now, config, log, air>>

\* A text may answer a callout on the hour its window closes.
Unanswered_onTheHour(n, rx) ==
  {i \in Rows : log[i].node = n /\ log[i].replied = None /\ log[i].ts >= rx - ReplyWindow}

(* noteInboundText(), called for each copy of a text, by whichever radio    *)
(* and however late: a text of node n, received at rx, is credited to the   *)
(* latest unanswered row of n younger than the reply window at rx.          *)
Unanswered(n, rx) ==
  {i \in Rows : log[i].node = n /\ log[i].replied = None /\ log[i].ts > rx - ReplyWindow}

Received == {rx \in 1 .. now : rx >= now - MaxDelay}

NoteInboundText(n, rx) ==
  /\ \E i \in Unanswered(n, rx) :
       /\ \A j \in Unanswered(n, rx) : log[j].ts <= log[i].ts
       /\ log' = [log EXCEPT ![i].replied = rx]
  /\ UNCHANGED <<now, config, inFlight, send, air>>

(* PUT /callout: anything may be stored.                                    *)
Configure(c) ==
  /\ config' = c
  /\ UNCHANGED <<now, inFlight, send, log, air>>

(* The process dies and comes back: the flag is gone, and a request it      *)
(* posted may still be with the gateway.                                    *)
Restart ==
  /\ inFlight' = FALSE
  /\ send' = [k \in Slot |-> IF send[k].at \in {"posted", "orphan"}
                               THEN [at |-> "orphan"] ELSE Idle]
  /\ UNCHANGED <<now, config, log, air>>

-----------------------------------------------------------------------------
(* The gateway, and time.                                                   *)

Transmit(k) ==
  /\ send[k].at \in {"posted", "orphan"}
  /\ Len(air) < MaxAir
  /\ air' = Append(air, now)
  /\ send' = [send EXCEPT ![k] =
                IF send[k].at = "orphan" THEN Idle ELSE [@ EXCEPT !.at = "on air"]]
  /\ UNCHANGED <<now, config, inFlight, log>>

Drop(k) ==
  /\ send[k].at = "orphan"
  /\ send' = [send EXCEPT ![k] = Idle]
  /\ UNCHANGED <<now, config, inFlight, log, air>>

Tick ==
  /\ now < MaxTime
  /\ now' = now + 1
  /\ UNCHANGED <<config, inFlight, send, log, air>>

Next ==
  \/ \E n \in Node, t \in Template : Sweep(n, t)
  \/ \E k \in Slot : SendReturns(k) \/ SendFails(k) \/ Transmit(k) \/ Drop(k)
  \/ \E n \in Node, rx \in Received : NoteInboundText(n, rx)
  \/ \E c \in Config : Configure(c)
  \/ Restart
  \/ Tick

Spec == Init /\ [][Next]_vars

-----------------------------------------------------------------------------
(* Every variable keeps to its set; no row, reply or transmission is of the *)
(* future.                                                                  *)
TypeOK ==
  /\ now \in Nat \ {0}
  /\ config \in Config
  /\ inFlight \in BOOLEAN
  /\ send \in [Slot -> {Idle, [at |-> "orphan"]} \cup
                 [at : {"posted", "on air"}, node : Node, template : Template]]
  /\ log \in Seq([ts : 1 .. now, node : Node, template : Template,
                  replied : 1 .. now \cup {None}])
  /\ air \in Seq(1 .. now)

Waiting == {k \in Slot : send[k].at \in {"posted", "on air"}}

(* MESH_REACH_SPEC.md:884, "Never two callouts in flight at once": the flag *)
(* is up exactly while one send is awaited, on every path out of it.        *)
OneInFlight ==
  IF inFlight THEN \E k \in Slot : Waiting = {k} ELSE Waiting = {}

(* The hard ceiling: in no stretch of a day does the log hold more rows     *)
(* than it allows, whatever the configuration was changed to meanwhile and  *)
(* though the row is written long after the guard read the log.             *)
LogWithinCeiling ==
  \A w \in 1 .. now :
    Cardinality({i \in RowsSince(w - Day) : log[i].ts <= w}) <= HardMaxPerDay

(* A node is not called twice within the hard cooldown.                     *)
NodesAreLeftInPeace ==
  \A i, j \in Rows :
    i < j /\ log[i].node = log[j].node => log[j].ts - log[i].ts >= HardMinCooldown

(* A node does not read the same wording twice within its time to live.     *)
WordingsRest ==
  \A i, j \in Rows :
    i < j /\ log[i].node = log[j].node /\ log[i].template = log[j].template
      => log[j].ts - log[i].ts > Ttl[log[i].template]

(* callout.js:332-334: every copy of a text is looked at, late ones and     *)
(* those of another radio too, and its receive time is compared with a row  *)
(* on one side only.  A text answers one callout all the same, and of two   *)
(* callouts of a node the later has the later answer, as long as no text is *)
(* delivered later than the cooldown outlasts the reply window.             *)
AnswersInOrder ==
  MaxDelay + ReplyWindow <= HardMinCooldown =>
    \A i, j \in Rows :
      i < j /\ log[i].node = log[j].node /\ log[i].replied # None /\ log[j].replied # None
        => log[i].replied < log[j].replied

(* callout.js:315-317: a text back "proves the packet arrived, a human read *)
(* it, and their answer travelled the whole way home".  A text received     *)
(* before anything was transmitted, and delivered after it, is an answer.   *)
AnswersFollowCallouts ==
  \A i \in Rows : log[i].replied # None => \E k \in DOMAIN air : air[k] <= log[i].replied

(* MESH_REACH_SPEC.md:880, callout.md:37: "A hard ceiling on transmissions  *)
(* per day, enforced in the transmit path itself".  A transmission whose    *)
(* answer is lost leaves no row, and the next sweep does not count it.      *)
TransmissionsWithinCeiling ==
  \A w \in 1 .. now :
    Cardinality({i \in DOMAIN air : air[i] > w - Day /\ air[i] <= w}) <= HardMaxPerDay

-----------------------------------------------------------------------------
(* The inductive invariant: what the guards found when a send began still   *)
(* holds while it is awaited, for nobody else can write a row.              *)
StillClear(k) ==
  /\ Cardinality(RowsSince(now - Day)) < HardMaxPerDay
  /\ \A i \in Rows : log[i].node = send[k].node => now - log[i].ts >= HardMinCooldown
  /\ \A i \in Rows : log[i].node = send[k].node /\ log[i].template = send[k].template
       => now - log[i].ts > Ttl[send[k].template]

IInv ==
  /\ TypeOK
  /\ OneInFlight
  /\ LogWithinCeiling
  /\ NodesAreLeftInPeace
  /\ WordingsRest
  /\ \A k \in Waiting : StillClear(k)

=============================================================================
