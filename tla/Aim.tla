-------------------------------- MODULE Aim --------------------------------
(***************************************************************************)
(* src/aim.js and src/aim-client.js: deciding where to point, pointing the *)
(* shared rotator through the gateway's aim plugin, and what the caller is *)
(* told.  An aim (traceroute) queues behind a holder and asks again when   *)
(* the beam came to rest outside the half beam; a verb (automation) queues *)
(* but does not correct; a step (scanner, tracker) does neither.           *)
(*                                                                         *)
(* A compass of N bearings stands for the 360 degrees.  The gateway may    *)
(* answer a request in any way it can, or leave it to the timeout.  The    *)
(* audit line of announce() and the length of a hold are left out.         *)
(***************************************************************************)
EXTENDS Integers, Sequences

CONSTANTS
  Call,       \* the requests to point
  Node,       \* the nodes
  N,          \* the bearings of the compass: 0 .. N - 1, 0 due north
  HalfBeam,   \* half the beam width of the radios, None where not configured
  Retries,    \* discovery.aim_retries
  Broadcast,  \* 0xffffffff
  None        \* null

ASSUME CompassAssumption ==
  /\ N \in Nat \ {0}
  /\ HalfBeam \subseteq Nat \cup {None}
  /\ Retries \in Nat
ASSUME NullAssumption ==
  None \notin Nat \cup Node \cup {Broadcast} /\ Broadcast \notin Node

VARIABLES
  call,      \* what each request is at
  outcome,   \* what it was told: None, or settled and the azimuth arrived at
  heard      \* the answers point() gave each request

vars == <<call, outcome, heard>>

Bearing == 0 .. N - 1
Kind    == {"aim", "verb", "step"}
Via     == [node : Node \cup {None}, bearing : (0 .. N) \cup {None}]
Target  == [az : Bearing, node : Node \cup {None}]

(* pointOnce(): refused, in error or timed out; or the plugin's own answer, *)
(* which on a busy beam may tell how long the holder has it.                *)
Answer == {a \in [ok : BOOLEAN, busy : BOOLEAN, told : BOOLEAN, az : Bearing \cup {None}] :
             (a.busy => ~a.ok) /\ (a.told => a.busy)}

(* How far two bearings are apart, the short way round.                     *)
Abs(i)      == IF i < 0 THEN -i ELSE i
Apart(a, b) == Abs(((a - b + N + N \div 2) % N) - N \div 2)

ASSUME RecordAssumption ==
  None \notin [settled : BOOLEAN, got : Bearing \cup {None}] \cup [via : Via, target : Target]

-----------------------------------------------------------------------------
(* Where to point: a target, or None.  It is decided in one turn, from what *)
(* is stored at that moment: place[n], the bearing of n's position or None, *)
(* and hop[n], the first hop of the latest trace to n or None.              *)

Place == [Node -> Bearing \cup {None}]
Hop   == [Node -> Node \cup {Broadcast, None}]

Towards(az, node) == [az |-> az, node |-> node]

AtNode(n, place) == IF place[n] = None THEN None ELSE Towards(place[n], n)

(* parseVia() and the via branch of decideAim(): both fields set is refused,*)
(* 360 is north, and a node without a position is not replaced by another.  *)
ViaTarget(v, place) ==
  CASE v.node # None /\ v.bearing # None -> None
    [] v.node = None                     -> Towards(v.bearing % N, None)
    [] OTHER                             -> AtNode(v.node, place)

HasVia(v) == v.node # None \/ v.bearing # None

(* lastKnownRoute(): the first hop, unless it is the broadcast sentinel.    *)
Relay(n, hop) == IF hop[n] = Broadcast THEN None ELSE hop[n]

(* The relay if there is one and we know where, otherwise the node itself.  *)
Derived(n, place, hop) ==
  LET relay == Relay(n, hop) IN
  IF relay # None /\ AtNode(relay, place) # None THEN AtNode(relay, place) ELSE AtNode(n, place)

\* A via that cannot be resolved falls back to the rule.
DecideAim_fallsBack(n, v, place, hop) ==
  IF HasVia(v) /\ ViaTarget(v, place) # None
  THEN ViaTarget(v, place) ELSE Derived(n, place, hop)

DecideAim(n, v, place, hop) ==
  IF HasVia(v) THEN ViaTarget(v, place) ELSE Derived(n, place, hop)

-----------------------------------------------------------------------------
(* Pointing.                                                                *)

Idle == [at |-> "idle"]

Asked(kind, v, target, half) ==
  [at |-> "asked", kind |-> kind, via |-> v, target |-> target, half |-> half,
   again |-> FALSE, asks |-> 1, left |-> IF kind = "aim" THEN Retries ELSE 0,
   first |-> TRUE, settled |-> FALSE, got |-> None]

Outcome(settled, got) == [settled |-> settled, got |-> got]

(* Nothing to point at is an outcome too.                                   *)
Request(c, kind, v, t, half) ==
  /\ IF t = None
     THEN /\ outcome' = [outcome EXCEPT ![c] = Outcome(FALSE, None)]
          /\ UNCHANGED call
     ELSE /\ call' = [call EXCEPT ![c] = Asked(kind, v, t, half)]
          /\ UNCHANGED outcome
  /\ UNCHANGED heard

(* aimForNode(): only a radio on a rotator is aimed.                        *)
AimForNode(c, n, v, half, steerable) ==
  \E place \in Place, hop \in Hop :
    Request(c, "aim", v, IF steerable THEN DecideAim(n, v, place, hop) ELSE None, half)

(* The point verb, move(), and a step of the scanner.                       *)
Point(c, kind, az) ==
  Request(c, kind, [node |-> None, bearing |-> az], Towards(az, None), None)

\* A retry is taken at its word, like the first answer.
Settled_unmeasured(k, a) == IF k.first \/ a.az # None THEN a.ok ELSE k.settled

(* The verdict of aimAt(): the first answer as it comes, a retry measured,  *)
(* and a retry that reports no bearing leaves the verdict as it was.        *)
Settled(k, a) ==
  CASE k.first                   -> a.ok
    [] ~k.first /\ a.az = None -> k.settled
    [] OTHER                   -> a.ok /\ Apart(a.az, k.target.az) <= k.half

Got(k, a) == IF a.az = None THEN k.got ELSE a.az

(* The beam came to rest outside the half beam and may be asked again.      *)
Missed(k, a) ==
  /\ k.left > 0
  /\ k.half # None /\ a.az # None /\ ~a.busy
  /\ Apart(a.az, k.target.az) > k.half

(* Busy, with a wait we may sit out; point() asks once more, no third time. *)
Queues(k, a) == a.busy /\ a.told /\ ~k.again /\ k.kind # "step"

Queue(c, a) ==
  /\ Queues(call[c], a)
  /\ call' = [call EXCEPT ![c].at = "queued"]
  /\ UNCHANGED <<outcome, heard>>

Delivered(k, a) ==
  [k EXCEPT !.first = FALSE, !.settled = Settled(k, a), !.got = Got(k, a)]

Correct(c, a) ==
  LET k == call[c] IN
  /\ ~Queues(k, a) /\ Missed(k, a)
  /\ heard' = [heard EXCEPT ![c] = Append(@, a)]
  /\ call' = [call EXCEPT ![c] = [Delivered(k, a) EXCEPT
                 !.left = k.left - 1, !.again = FALSE, !.asks = k.asks + 1]]
  /\ UNCHANGED outcome

Finish(c, a) ==
  LET k == call[c]
      r == Delivered(k, a) IN
  /\ ~Queues(k, a) /\ ~Missed(k, a)
  /\ heard' = [heard EXCEPT ![c] = Append(@, a)]
  /\ call' = [call EXCEPT ![c] = [r EXCEPT !.at = "done"]]
  /\ outcome' = [outcome EXCEPT ![c] = Outcome(r.settled, r.got)]

Answers(c) ==
  /\ call[c].at = "asked"
  /\ \E a \in Answer : Queue(c, a) \/ Correct(c, a) \/ Finish(c, a)

\* North, bearing 0, is taken for no bearing.
AskAgain_notNorth(c) ==
  /\ call[c].at = "queued" /\ call[c].target.az # 0
  /\ call' = [call EXCEPT ![c].at = "asked", ![c].again = TRUE, ![c].asks = @ + 1]
  /\ UNCHANGED <<outcome, heard>>

(* The wait the holder announced, and its margin, is over.                  *)
AskAgain(c) ==
  /\ call[c].at = "queued"
  /\ call' = [call EXCEPT ![c].at = "asked", ![c].again = TRUE, ![c].asks = @ + 1]
  /\ UNCHANGED <<outcome, heard>>

-----------------------------------------------------------------------------
Init ==
  /\ call = [c \in Call |-> Idle]
  /\ outcome = [c \in Call |-> None]
  /\ heard = [c \in Call |-> << >>]

Callers(c) ==
  /\ call[c] = Idle /\ outcome[c] = None
  /\ \/ \E n \in Node, v \in Via, half \in HalfBeam, steerable \in BOOLEAN :
            AimForNode(c, n, v, half, steerable)
     \/ \E kind \in {"verb", "step"}, az \in Bearing : Point(c, kind, az)

Next == \E c \in Call : Callers(c) \/ Answers(c) \/ AskAgain(c)

(* The gateway answers or the AbortController of pointOnce() does, and the  *)
(* timer of a queued request fires.  Callers owe nothing.                   *)
Fairness == \A c \in Call : WF_vars(Answers(c)) /\ WF_vars(AskAgain(c))

Spec == Init /\ [][Next]_vars /\ Fairness

-----------------------------------------------------------------------------
(* One retry of a busy beam, never a loop, and no more corrections than     *)
(* configured: how often a request may reach the rotator.                   *)
Limit(kind) ==
  CASE kind = "aim" -> 2 * (Retries + 1) [] kind = "verb" -> 2 [] kind = "step" -> 1

Live == [at : {"asked", "queued", "done"}, kind : Kind, via : Via, target : Target,
         half : HalfBeam \cup {None}, again : BOOLEAN, asks : Nat \ {0},
         left : 0 .. Retries, first : BOOLEAN, settled : BOOLEAN,
         got : Bearing \cup {None}]

(* Every variable keeps to its type, and no request asks the shared rotator *)
(* more often than its caller may (aim-client.js: one retry, never a loop). *)
TypeOK ==
  /\ \A c \in Call : call[c] # Idle =>
       call[c] \in Live /\ call[c].asks <= Limit(call[c].kind)
  /\ DOMAIN call = Call
  /\ outcome \in [Call -> [settled : BOOLEAN, got : Bearing \cup {None}] \cup {None}]
  /\ heard \in [Call -> Seq(Answer)]

(* traceroute transmits on settled alone.  Where corrections are configured *)
(* and the beam width is known, an aim that is settled off the beam is one  *)
(* whose only correction came back without a bearing (timeout, refusal).    *)
SettledOnBeam ==
  \A c \in Call :
    LET k == call[c] IN
    /\ k.at = "done" /\ k.kind = "aim" /\ k.half # None /\ Retries > 0
    /\ outcome[c].settled /\ outcome[c].got # None
    /\ Apart(outcome[c].got, k.target.az) > k.half
    => Len(heard[c]) = 2 /\ heard[c][2].az = None

(* Aim keeps the promise stated in AimPromise: an explicit via is obeyed or *)
(* refused, and the verdict is accounted for by this request's own answers. *)
Aimed == [c \in Call |->
            IF call[c] = Idle THEN None ELSE [via |-> call[c].via, target |-> call[c].target]]
Promise == INSTANCE AimPromise WITH aimed <- Aimed, heard <- heard, outcome <- outcome
KeepsPromise == Promise!Spec

(* A caller that pointed the beam hears an outcome, however busy the beam.  *)
EveryAimEnds == \A c \in Call : call[c] # Idle ~> outcome[c] # None

=============================================================================
