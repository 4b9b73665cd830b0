----------------------------- MODULE MailReplies -----------------------------
(***************************************************************************)
(* src/alerts.js, mailer.js, imap-receiver.js and the reply tokens of      *)
(* db.js: a message heard on the mesh becomes a mail with a one-use token  *)
(* in its subject, and the answer to the mail goes back to the mesh.       *)
(*                                                                         *)
(* A packet is heard by several radios, and again when the gateway replays *)
(* it after a reconnection; the process may die at any await.  The mail    *)
(* server, the IMAP server and the gateway are modelled from how the code  *)
(* uses them.  A packet is taken to name its port in decoded.portnum, as   *)
(* alerts.js:148 expects.  The alerts that carry no token (a node offline, *)
(* a temperature, the tilt, the bridge) appear as the cooldown of a rule.  *)
(***************************************************************************)
EXTENDS Naturals, FiniteSets

CONSTANTS
  Packet,       \* the direct messages and 0-hop broadcasts, each with an id
  Rule,         \* the types of alert
  RuleOf,       \* RuleOf[p]: dm_received or broadcast_direct
  Reply,        \* the mails that may come, by number in the inbox: a bound
  MaxFaults     \* bounds crashes, lost answers and polls that break

ASSUME MailAssumption ==
  /\ RuleOf \in [Packet -> Rule]
  /\ Reply \subseteq Nat
  /\ MaxFaults \in Nat

VARIABLES
  cooling,      \* the rules whose last_sent is less than their cooldown ago
  seenLive,     \* _seenLivePktIds of the relay, of this session
  alerted,      \* _alertedPacketIds, in memory
  stored,       \* the packets with a row in messages
  alertedAt,    \* those whose row says alerted_at
  token,        \* token[p]: none, live, used or expired
  mail,         \* mail[p]: none, sending, delivered or lost
  inbox,        \* inbox[m]: about which packet, and whether it has been seen
  poll,         \* the poll under way: where it is, the mails left, the mail in hand
  mails, sent, doubts,  \* history: mails per packet, messages per token, and
                        \* the messages whose answer did not come back
  faults        \* what MaxFaults bounds

alertVars == <<cooling, seenLive, alerted, stored, alertedAt, token, mail>>
pollVars  == <<inbox, poll>>
history   == <<mails, sent, doubts>>
mailVars      == <<alertVars, pollVars, history, faults>>

Unwritten == [at |-> "unwritten"]
NoPoll      == [at |-> "idle", left |-> {}]
Unseen    == {m \in Reply : inbox[m].at = "unseen"}

Fault == faults < MaxFaults /\ faults' = faults + 1

-----------------------------------------------------------------------------
(* alerts.js, and what persist.js does with the same event after it.        *)

(* canSend() and isPacketAlerted(): the memory first, then the row.         *)
CanSend(r)      == r \notin cooling
IsAlerted(p)    == p \in alerted \cup alertedAt

(* touchAlertLastSent(), markPacketAlerted(), createReplyToken() and        *)
(* sendAlert(), in one turn up to the first await of the mailer.            *)
Alert(p) ==
  /\ cooling' = cooling \cup {RuleOf[p]}
  /\ alerted' = alerted \cup {p}
  /\ token' = [token EXCEPT ![p] = "live"]
  /\ mail' = [mail EXCEPT ![p] = "sending"]
  /\ mails' = [mails EXCEPT ![p] = @ + 1]

\* The row is written after the mark, and nobody marks it again.
Persisted_unmarked(p) ==
  /\ stored' = stored \cup {p}
  /\ alertedAt' = alertedAt \cup ({p} \cap alerted' \cap stored)

(* The row, and syncAlertedAt(): markPacketAlerted() ran before there was   *)
(* a row to mark.                                                           *)
Persisted(p) ==
  /\ stored' = stored \cup {p}
  /\ alertedAt' = alertedAt \cup ({p} \cap alerted')

(* A copy of the packet: the relay drops it if this session knows it, the   *)
(* alert only if its rule is quiet or the packet has had its mail.          *)
Hear(p) ==
  /\ seenLive' = seenLive \cup {p}
  /\ IF p \notin seenLive /\ CanSend(RuleOf[p]) /\ ~IsAlerted(p)
     THEN Alert(p)
     ELSE UNCHANGED <<cooling, alerted, token, mail, mails>>
  /\ Persisted(p)
  /\ UNCHANGED <<pollVars, sent, doubts, faults>>

(* bridge.on('connected').                                                  *)
BridgeConnects ==
  /\ seenLive # {}
  /\ seenLive' = {}
  /\ UNCHANGED <<cooling, alerted, stored, alertedAt, token, mail, pollVars, history, faults>>

(* A node is offline, it is hot, the mast leans, the bridge is gone.        *)
OtherAlert(r) ==
  /\ CanSend(r)
  /\ cooling' = cooling \cup {r}
  /\ UNCHANGED <<seenLive, alerted, stored, alertedAt, token, mail, pollVars, history, faults>>

(* The cooldown of a rule is over, or is shortened by PUT /rules.           *)
CooldownEnds(r) ==
  /\ r \in cooling
  /\ cooling' = cooling \ {r}
  /\ UNCHANGED <<seenLive, alerted, stored, alertedAt, token, mail, pollVars, history, faults>>

(* sendMail() ends; a mail that fails is not tried again.                   *)
MailEnds(p, end) ==
  /\ mail[p] = "sending"
  /\ mail' = [mail EXCEPT ![p] = end]
  /\ UNCHANGED <<cooling, seenLive, alerted, stored, alertedAt, token, pollVars, history, faults>>

(* 24 hours later, pruneExpiredTokens() or not.                             *)
TokenExpires(p) ==
  /\ token[p] = "live"
  /\ token' = [token EXCEPT ![p] = "expired"]
  /\ UNCHANGED <<cooling, seenLive, alerted, stored, alertedAt, mail, pollVars, history, faults>>

-----------------------------------------------------------------------------
(* imap-receiver.js.                                                        *)

(* The user answers a mail, once or several times, or writes another mail.  *)
(* The server numbers the mails as they come.                               *)
Written(m, about) ==
  /\ inbox[m] = Unwritten /\ \A k \in Reply : k < m => inbox[k] # Unwritten
  /\ about # {} => \E p \in about : mail[p] = "delivered"
  /\ inbox' = [inbox EXCEPT ![m] = [at |-> "unseen", about |-> about]]
  /\ UNCHANGED <<alertVars, poll, history, faults>>

(* pollInbox() of the timer, unless one is running; search({seen: false}).  *)
PollStarts ==
  /\ poll = NoPoll /\ Unseen # {}
  /\ poll' = [at |-> "reading", left |-> Unseen]
  /\ UNCHANGED <<alertVars, inbox, history, faults>>

InHandNow(m, at) == [at |-> at, left |-> poll.left \ {m}, mail |-> m]

(* A reply is one with a token that has not been used and has not expired.  *)
HasToken(m) == \E p \in inbox[m].about : token[p] = "live"

(* fetch() yields the next mail, in the order of the inbox, and             *)
(* _handleMessage() goes up to its post, or to an early return.             *)
Take(m) ==
  /\ poll.at = "reading" /\ m \in poll.left /\ \A k \in poll.left : m <= k
  /\ poll' = InHandNow(m, IF HasToken(m) THEN "posting" ELSE "flagging")
  /\ UNCHANGED <<alertVars, inbox, history, faults>>

(* POST /:device/messages reaches the gateway, or does not: refused.        *)
GatewayTakes ==
  /\ poll.at = "posting"
  /\ poll' = [poll EXCEPT !.at = "taken"]
  /\ sent' = [p \in Packet |-> sent[p] + IF p \in inbox[poll.mail].about THEN 1 ELSE 0]
  /\ UNCHANGED <<alertVars, inbox, mails, doubts, faults>>

GatewayRefuses ==
  /\ poll.at = "posting"
  /\ poll' = [poll EXCEPT !.at = "flagging"]
  /\ UNCHANGED <<alertVars, inbox, history, faults>>

\* The token is not consumed.
Consumed_never(ps) == token

Consumed(ps) ==
  [p \in Packet |-> IF p \in ps /\ token[p] = "live" THEN "used" ELSE token[p]]

(* Its answer comes, and the token is consumed; or it is lost on the way,   *)
(* fetch() throws, and the mail counts as handled all the same.             *)
Answered ==
  /\ poll.at = "taken"
  /\ token' = Consumed(inbox[poll.mail].about)
  /\ poll' = [poll EXCEPT !.at = "flagging"]
  /\ UNCHANGED <<cooling, seenLive, alerted, stored, alertedAt, mail, inbox, history, faults>>

Doubted ==
  IF poll.at = "taken"
  THEN [p \in Packet |-> doubts[p] + IF p \in inbox[poll.mail].about THEN 1 ELSE 0]
  ELSE doubts

AnswerLost ==
  /\ poll.at = "taken"
  /\ Fault
  /\ doubts' = Doubted
  /\ poll' = [poll EXCEPT !.at = "flagging"]
  /\ UNCHANGED <<alertVars, inbox, mails, sent>>

(* messageFlagsAdd() comes back: the next mail, or the end of the poll.     *)
(* It need not come back.  The flag is awaited in the body of the loop over *)
(* fetch(), and the IMAP client runs one command at a time: the flag waits  *)
(* for the fetch to end, and the fetch for the body to ask for more.        *)
Flagged ==
  /\ poll.at = "flagging"
  /\ inbox' = [inbox EXCEPT ![poll.mail].at = "seen"]
  /\ poll' = IF poll.left = {} THEN NoPoll ELSE [at |-> "reading", left |-> poll.left]
  /\ UNCHANGED <<alertVars, history, faults>>

(* What is in memory is gone, what is in the database is not.               *)
Dies ==
  /\ seenLive' = {} /\ alerted' = {}
  /\ mail' = [p \in Packet |-> IF mail[p] = "sending" THEN "lost" ELSE mail[p]]
  /\ poll' = NoPoll
  /\ doubts' = Doubted
  /\ UNCHANGED <<cooling, stored, alertedAt, token, inbox, mails, sent>>

Crash == Fault /\ Dies

\* The poll is not over for _running.
FlagHangs_keepsRunning ==
  /\ poll.at = "flagging"
  /\ poll' = [at |-> "broken", left |-> {}]
  /\ UNCHANGED <<alertVars, inbox, history, faults>>

(* It does not come back: the client gives the silent connection up, which  *)
(* ends the poll, or the process, as nobody listens to its error event.     *)
(* Nothing bounds how often: the next poll meets the same mail.             *)
FlagHangs ==
  /\ poll.at = "flagging"
  /\ \/ poll' = NoPoll /\ UNCHANGED <<alertVars, inbox, history>>
     \/ Dies
  /\ UNCHANGED faults

(* Any other IMAP command fails, and ends the poll.                         *)
PollBreaks ==
  /\ poll.at = "reading"
  /\ Fault
  /\ poll' = NoPoll
  /\ UNCHANGED <<alertVars, inbox, history>>

-----------------------------------------------------------------------------
MailInit ==
  /\ cooling = {} /\ seenLive = {} /\ alerted = {} /\ stored = {} /\ alertedAt = {}
  /\ token = [p \in Packet |-> "none"]
  /\ mail = [p \in Packet |-> "none"]
  /\ inbox = [m \in Reply |-> Unwritten]
  /\ poll = NoPoll
  /\ mails = [p \in Packet |-> 0] /\ sent = [p \in Packet |-> 0] /\ doubts = [p \in Packet |-> 0]
  /\ faults = 0

MailNext ==
  \/ \E p \in Packet : \/ Hear(p) \/ TokenExpires(p)
                       \/ \E end \in {"delivered", "lost"} : MailEnds(p, end)
  \/ \E r \in Rule : OtherAlert(r) \/ CooldownEnds(r)
  \/ \E m \in Reply : \/ \E about \in {{}} \cup {{p} : p \in Packet} : Written(m, about)
                      \/ Take(m)
  \/ BridgeConnects
  \/ PollStarts \/ GatewayTakes \/ GatewayRefuses \/ Answered \/ AnswerLost
  \/ Flagged \/ FlagHangs \/ PollBreaks \/ Crash

(* The timer of the poll, and what answers it: the mail server and the      *)
(* gateway answer, or the connection breaks.  No flag need be set.  *)
Fairness ==
  /\ WF_mailVars(PollStarts)
  /\ \A m \in Reply : WF_mailVars(Take(m))
  /\ WF_mailVars(GatewayTakes \/ GatewayRefuses)
  /\ WF_mailVars(Answered \/ AnswerLost)
  /\ WF_mailVars(Flagged \/ FlagHangs)

MailSpec == MailInit /\ [][MailNext]_mailVars /\ Fairness

-----------------------------------------------------------------------------
InHand == [at : {"posting", "taken", "flagging"}, left : SUBSET Reply, mail : Reply]

(* The values every variable keeps to.                                      *)
MailTypeOK ==
  /\ cooling \subseteq Rule
  /\ seenLive \subseteq Packet /\ alerted \subseteq Packet /\ stored \subseteq Packet
  /\ alertedAt \subseteq stored
  /\ token \in [Packet -> {"none", "live", "used", "expired"}]
  /\ mail \in [Packet -> {"none", "sending", "delivered", "lost"}]
  /\ inbox \in [Reply -> {Unwritten} \cup [at : {"unseen", "seen"}, about : SUBSET Packet]]
  /\ poll \in [at : {"idle", "reading"}, left : SUBSET Reply] \cup InHand
  /\ mails \in [Packet -> Nat] /\ sent \in [Packet -> Nat] /\ doubts \in [Packet -> Nat]
  /\ faults \in 0 .. MaxFaults

(* A message is mailed once, by however many radios it is heard, however    *)
(* often the gateway replays it and whenever the process restarts           *)
(* (alerts.js:159-175, persist.js:484, db.js:2473-2497).                    *)
OneMailPerPacket == \A p \in Packet : mails[p] <= 1

(* A token sends one message to the mesh, for each time the answer of the   *)
(* gateway was lost, or the process died waiting for it, one more           *)
(* (imap-receiver.js:118-127).                                              *)
OneAnswerPerToken == \A p \in Packet : sent[p] <= 1 + doubts[p]

Oldest(m) == m \in Unseen /\ \A k \in Unseen : m <= k

(* The oldest mail that is not seen is taken in hand again, however polls   *)
(* break off, hang or die with the process: each ends, and another begins   *)
(* with it (imap-receiver.js:40-50, 66-84).                                 *)
OldestIsHandled ==
  \A m \in Reply : Oldest(m) ~> poll.at \in {"posting", "taken", "flagging"} /\ poll.mail = m

(* "Mark as seen regardless -- avoid reprocessing on next poll"             *)
(* (imap-receiver.js:75).  Not so: a flag that hangs leaves its mail        *)
(* unseen, and every poll ends at the same one.  No run checks it.          *)
EveryMailIsSeen == \A m \in Reply : inbox[m].at = "unseen" ~> inbox[m].at = "seen"
=============================================================================
