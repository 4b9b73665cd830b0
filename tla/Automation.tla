----------------------------- MODULE Automation -----------------------------
(***************************************************************************)
(* src/automation.js with sendMeshText() of src/mesh-send.js: commands     *)
(* heard on the private channel are carried out and answered, each once    *)
(* however many radios heard it, and no more than so many an hour.  Unlike *)
(* the rest of the program nothing here is persisted: a process that       *)
(* restarts begins with Init.                                              *)
(*                                                                         *)
(* A packet is taken to name its port in decoded.portnum, as               *)
(* automation.js:212 expects.  The ids handled are kept for 500 commands:  *)
(* Command stands for that many at most.  point() is module Aim; its four  *)
(* outcomes are all answered, with another text.                           *)
(***************************************************************************)
EXTENDS Naturals, FiniteSets

CONSTANTS
  Command,      \* the packets with a command in them, each with an id
  HardMax,      \* HARD_MAX_REPLIES_PER_HOUR
  MaxConfig     \* the largest automation.max_replies_per_hour tried, a bound

ASSUME AutomationAssumption == HardMax \in Nat /\ MaxConfig \in Nat

VARIABLES
  enabled,      \* automation.enabled
  configMax,    \* automation.max_replies_per_hour
  handled,      \* _handled
  work,         \* work[c]: where the command is, see Stage
  again,        \* again[c]: its reply is the one of the catch, or of a bad target
  replies,      \* how many of _replyTimes are of the last hour
  done, onAir,  \* history: times carried out, messages sent for it
  peak          \* history: the most commands there ever were at once

vars == <<enabled, configMax, handled, work, again, replies, done, onAir, peak>>

Stage == {"none", "aiming", "replying", "sent", "over"}
Busy(w) == {c \in Command : w[c] \in {"aiming", "replying", "sent"}}

\* The configuration replaces the ceiling.
ReplyBudgetLeft_configured == configMax > replies

(* replyBudgetLeft() > 0: the configuration may only lower the ceiling.     *)
ReplyBudgetLeft == (IF configMax < HardMax THEN configMax ELSE HardMax) > replies

(* What handleAutomationEvent() makes of a command: nothing if it is of no  *)
(* known verb, one reply if its target cannot be resolved, if it is a ping, *)
(* or if one of the two positions is not known; the rotator otherwise.      *)
Verdicts == {"unknown", "bad target", "answer", "aim"}

Starts(c, verdict) ==
  /\ work' = [work EXCEPT ![c] = IF verdict = "aim" THEN "aiming" ELSE "replying"]
  /\ again' = [again EXCEPT ![c] = verdict = "bad target"]
  /\ done' = [done EXCEPT ![c] = @ + 1]
  /\ peak' = LET n == Cardinality(Busy(work')) IN IF n > peak THEN n ELSE peak

\* Every radio's copy is a command of its own.
Hear_everyCopy(c, verdict) ==
  /\ handled' = handled \cup {c}
  /\ IF enabled /\ ReplyBudgetLeft /\ verdict # "unknown" /\ c \notin Busy(work)
     THEN Starts(c, verdict)
     ELSE UNCHANGED <<work, again, done, peak>>
  /\ UNCHANGED <<enabled, configMax, replies, onAir>>

(* A copy of the packet, from any radio, also after a reconnection.         *)
Hear(c, verdict) ==
  /\ handled' = handled \cup {c}
  /\ IF c \notin handled /\ enabled /\ ReplyBudgetLeft /\ verdict # "unknown"
     THEN Starts(c, verdict)
     ELSE UNCHANGED <<work, again, done, peak>>
  /\ UNCHANGED <<enabled, configMax, replies, onAir>>

(* point() comes back with a bearing, busy, a timeout or a failure; or it   *)
(* throws, and the catch answers instead.                                   *)
Aimed(c, threw) ==
  /\ work[c] = "aiming"
  /\ work' = [work EXCEPT ![c] = "replying"]
  /\ again' = [again EXCEPT ![c] = threw]
  /\ UNCHANGED <<enabled, configMax, handled, replies, done, onAir, peak>>

(* sendMeshText(): the gateway takes the message, and answers.              *)
GatewayTakes(c) ==
  /\ work[c] = "replying"
  /\ work' = [work EXCEPT ![c] = "sent"]
  /\ onAir' = [onAir EXCEPT ![c] = @ + 1]
  /\ UNCHANGED <<enabled, configMax, handled, again, replies, done, peak>>

(* A reply counts once it has been sent.                                    *)
Replied(c) ==
  /\ work[c] = "sent"
  /\ replies' = replies + 1
  /\ work' = [work EXCEPT ![c] = "over"]
  /\ UNCHANGED <<enabled, configMax, handled, again, done, onAir, peak>>

(* It refuses, or its answer is lost: the catch replies, and what becomes   *)
(* of that reply is ignored.                                                *)
ReplyFails(c) ==
  /\ work[c] \in {"replying", "sent"}
  /\ work' = [work EXCEPT ![c] = IF again[c] THEN "over" ELSE "replying"]
  /\ again' = [again EXCEPT ![c] = TRUE]
  /\ UNCHANGED <<enabled, configMax, handled, replies, done, onAir, peak>>

(* An hour after a reply.                                                   *)
ReplyAges ==
  /\ replies > 0
  /\ replies' = replies - 1
  /\ UNCHANGED <<enabled, configMax, handled, work, again, done, onAir, peak>>

Configure(on, max) ==
  /\ enabled' = on /\ configMax' = max
  /\ UNCHANGED <<handled, work, again, replies, done, onAir, peak>>

Init ==
  /\ enabled \in BOOLEAN /\ configMax \in 0 .. MaxConfig
  /\ handled = {}
  /\ work = [c \in Command |-> "none"] /\ again = [c \in Command |-> FALSE]
  /\ replies = 0
  /\ done = [c \in Command |-> 0] /\ onAir = [c \in Command |-> 0] /\ peak = 0

Next ==
  \/ \E c \in Command :
       \/ \E verdict \in Verdicts : Hear(c, verdict)
       \/ \E threw \in BOOLEAN : Aimed(c, threw)
       \/ GatewayTakes(c) \/ Replied(c) \/ ReplyFails(c)
  \/ ReplyAges
  \/ \E on \in BOOLEAN, max \in 0 .. MaxConfig : Configure(on, max)

Spec == Init /\ [][Next]_vars

-----------------------------------------------------------------------------
(* The values every variable keeps to; only what was handled is worked on.  *)
TypeOK ==
  /\ enabled \in BOOLEAN /\ configMax \in Nat
  /\ handled \subseteq Command
  /\ work \in [Command -> Stage] /\ again \in [Command -> BOOLEAN]
  /\ \A c \in Command : work[c] # "none" => c \in handled
  /\ replies \in Nat /\ peak \in Nat
  /\ done \in [Command -> Nat] /\ onAir \in [Command -> Nat]

(* One @point moves the rotator once, and answers once, however many radios *)
(* hear it and however often the bridge reconnects; a reply whose outcome   *)
(* is unknown may be followed by one more (automation.js:236-243, 310-322). *)
OncePerCommand == \A c \in Command : done[c] <= 1 /\ onAir[c] <= 2

(* "config may only LOWER" the hourly ceiling (automation.js:30): what is   *)
(* sent above it is at most what was in work at once, for a reply counts    *)
(* only when it has been sent (automation.js:83-89, 120, 265).              *)
CeilingHolds == replies > 0 => replies + 1 <= HardMax + peak
=============================================================================
