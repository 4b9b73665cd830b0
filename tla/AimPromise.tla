----------------------------- MODULE AimPromise -----------------------------
(***************************************************************************)
(* What aim promises its callers (docs/modules/traceroute.md, src/aim.js): *)
(* an explicit via is pointed at or refused, never replaced; a request is  *)
(* closed once, with a verdict that rests on what the gateway said to this *)
(* request and with the last bearing it reported.  Nothing is said here of *)
(* routes, retries, queueing or time: Aim implements this module.          *)
(***************************************************************************)
EXTENDS Integers, Sequences

CONSTANTS
  Call,     \* the requests to point
  N,        \* the bearings of the compass
  Via,      \* what a caller may insist on: a node, a bearing, both or neither
  Target,   \* where a request may point
  Answer,   \* what the gateway may say to a request
  None      \* no node, no bearing, no outcome yet

VARIABLES
  aimed,    \* aimed[c]: None, or [via, target]
  heard,    \* heard[c]: the answers of the gateway c got, oldest first
  outcome   \* outcome[c]: None, or what c was told

Insists(v) == v.node # None \/ v.bearing # None

Obeys(t, v) ==
  Insists(v) => /\ t.node = v.node
                /\ v.bearing # None => t.az = v.bearing % N /\ v.node = None

Carriers(s) == {i \in DOMAIN s : s[i].az # None}

(* What was heard accounts for an outcome: settled rests on an acceptance,  *)
(* and the bearing is the last that was reported.                           *)
Accounts(s, o) ==
  /\ o.settled => \E i \in DOMAIN s : s[i].ok
  /\ o.got = None => Carriers(s) = {}
  /\ o.got # None =>
       \E i \in Carriers(s) : o.got = s[i].az /\ \A j \in Carriers(s) : j <= i

Init ==
  /\ aimed = [c \in Call |-> None]
  /\ heard = [c \in Call |-> << >>]
  /\ outcome = [c \in Call |-> None]

Begin(c) ==
  /\ aimed[c] = None /\ outcome[c] = None
  /\ \E v \in Via, t \in Target :
       Obeys(t, v) /\ aimed' = [aimed EXCEPT ![c] = [via |-> v, target |-> t]]
  /\ UNCHANGED <<heard, outcome>>

Close(c) == 
  /\ outcome' = [outcome EXCEPT ![c] = outcome'[c]]
  /\ outcome'[c] # None
  /\ Accounts(heard'[c], outcome'[c])

Hear(c) ==
  /\ aimed[c] # None /\ outcome[c] = None
  /\ \E a \in Answer : heard' = [heard EXCEPT ![c] = Append(@, a)]
  /\ outcome' = outcome \/ Close(c)
  /\ UNCHANGED aimed

(* What cannot be pointed at is closed with nothing heard.                  *)
Refuse(c) ==
  /\ aimed[c] = None /\ outcome[c] = None
  /\ UNCHANGED <<aimed, heard>>
  /\ Close(c)

Next == \E c \in Call : Begin(c) \/ Hear(c) \/ Refuse(c)

Spec == Init /\ [][Next]_<<aimed, heard, outcome>>

=============================================================================
