----------------------------- MODULE Traceroute -----------------------------
(***************************************************************************)
(* src/traceroute.js: the one owner of a traceroute's life.  A POST starts *)
(* a run; a run aims first when its radio is directional, then opens a     *)
(* pending entry for its target node, or joins the entry already open for  *)
(* that node.  An entry closes on a reply, on its timer, or on a refused   *)
(* post.  Between two awaits nothing else runs, so each action below is    *)
(* one turn of the event loop.                                             *)
(*                                                                         *)
(* The gateway and the mesh are external: a reply names the node it is     *)
(* from and nothing else the code reads, so it may be late, repeated (one  *)
(* copy per receiving radio), lost, or the reply to another station.       *)
(***************************************************************************)
EXTENDS Integers, Sequences, FiniteSets

CONSTANTS
  Node,         \* the nodes that can be traced
  Radio,        \* what resolveRadio() can return
  Directional,  \* the radios whose beam_deg is not 360
  Steerable,    \* the radios on a rotator
  MaxRuns,      \* bound on _nextRunId
  Foreign,      \* a traceroute request some other station sent
  None          \* the target and the radio of a run not yet called

ASSUME RadioAssumption == Steerable \subseteq Radio /\ Directional \subseteq Radio
ASSUME RunAssumption   == MaxRuns \in Nat /\ Foreign \notin Int
ASSUME NoneAssumption  == None \notin Node /\ None \notin Radio

Run     == 1 .. MaxRuns
NoRun   == 0                        \* no entry; also "not a run of ours"
Request == Run \cup {Foreign}       \* what a reply may be the reply to

Terminal == {"answered", "timeout", "send_failed", "aim_failed"}
Status   == {"ok", "timeout", "send_failed", "aim_failed"}

VARIABLES
  nextRunId,    \* _nextRunId
  live,         \* the keys of _runs
  target,       \* ctx.target.num of a run
  radio,        \* ctx.radio of a run
  pc,           \* where run() is: not called, awaiting the aim, awaiting the
                \* entry, or how its promise was settled
  pending,      \* _pending: the run that opened the entry of a node
  callbacks,    \* entry.callbacks: the runs waiting on the entry a run opened
  armed,        \* the entries whose setTimeout is set
  posting,      \* the entries whose bridge.post has not settled
  sent,         \* the requests the gateway transmitted
  feed,         \* the phases each run emitted on the status feed
  rows,         \* traceroute_history rows attributed to each run's dispatch
  repliedBy,    \* the request whose reply closed a run's entry
  stored        \* the last result stored for a node, and the run it names

vars == <<nextRunId, live, target, radio, pc, pending, callbacks, armed,
          posting, sent, feed, rows, repliedBy, stored>>

runVars   == <<nextRunId, target, radio>>
replyVars == <<repliedBy, stored>>

NoReply == [request |-> Foreign, run |-> NoRun]

Init ==
  /\ nextRunId = 1
  /\ live = {}
  /\ target = [r \in Run |-> None]
  /\ radio = [r \in Run |-> None]
  /\ pc = [r \in Run |-> "none"]
  /\ pending = [n \in Node |-> NoRun]
  /\ callbacks = [r \in Run |-> {}]
  /\ armed = {}
  /\ posting = {}
  /\ sent = {}
  /\ feed = [r \in Run |-> << >>]
  /\ rows = [r \in Run |-> << >>]
  /\ repliedBy = [r \in Run |-> {}]
  /\ stored = [n \in Node |-> NoReply]

-----------------------------------------------------------------------------
(* Faulty variants of the definitions below, one per property; each is what *)
(* a plausible slip in the code would make of the definition it follows.    *)

RowOf(p) == IF p = "answered" THEN "ok" ELSE p

(* _emitStatus, once per member of phases: a run no longer in _runs says    *)
(* nothing; a terminal phase drops the run.                                 *)
Tell(r, phases, runs) ==
  /\ feed' = [feed EXCEPT ![r] = IF r \in runs THEN @ \o phases ELSE @]
  /\ live' = IF phases[Len(phases)] \in Terminal THEN runs \ {r} ELSE runs

\* Only the caller that opened the entry is answered.
Settle_openerOnly(r, p) ==
  /\ pending' = [pending EXCEPT ![target[r]] = NoRun]
  /\ armed' = armed \ {r}
  /\ pc' = [pc EXCEPT ![r] = p]
  /\ callbacks' = [callbacks EXCEPT ![r] = {}]
  /\ rows' = [rows EXCEPT ![r] = Append(@, RowOf(p))]
  /\ Tell(r, <<p>>, live)

(* Closing the entry run r opened: delete it, stop its timer, settle every  *)
(* caller that waits on it, store one row, report the terminal phase.       *)
Settle(r, p) ==
  /\ pending' = [pending EXCEPT ![target[r]] = NoRun]
  /\ armed' = armed \ {r}
  /\ pc' = [c \in Run |-> IF c \in callbacks[r] THEN p ELSE pc[c]]
  /\ callbacks' = [callbacks EXCEPT ![r] = {}]
  /\ rows' = [rows EXCEPT ![r] = Append(@, RowOf(p))]
  /\ Tell(r, <<p>>, live)

-----------------------------------------------------------------------------
(* dispatch(): join the entry already pending for the node, or open one.    *)
(* phases are what run() emitted earlier in the same turn.                  *)

Join(r, n, phases, runs) ==
  /\ pending[n] # NoRun
  /\ callbacks' = [callbacks EXCEPT ![pending[n]] = @ \cup {r}]
  /\ Tell(r, phases, runs)
  /\ UNCHANGED <<pending, armed, posting>>

\* An entry opened while the node has one replaces it.
Open_replaces(r, n, phases, runs) ==
  /\ pending' = [pending EXCEPT ![n] = r]
  /\ callbacks' = [callbacks EXCEPT ![r] = {r}]
  /\ armed' = armed \cup {r}
  /\ posting' = posting \cup {r}
  /\ Tell(r, Append(phases, "dispatched"), runs)

Open(r, n, phases, runs) ==
  /\ pending[n] = NoRun
  /\ pending' = [pending EXCEPT ![n] = r]
  /\ callbacks' = [callbacks EXCEPT ![r] = {r}]
  /\ armed' = armed \cup {r}
  /\ posting' = posting \cup {r}
  /\ Tell(r, Append(phases, "dispatched"), runs)

Dispatch(r, n, phases, runs) ==
  /\ Join(r, n, phases, runs) \/ Open(r, n, phases, runs)
  /\ pc' = [pc EXCEPT ![r] = "waiting"]

(* run(), up to its first await: number the run, remember what it is about. *)
NewRun(n, d) ==
  /\ nextRunId <= MaxRuns
  /\ nextRunId' = nextRunId + 1
  /\ target' = [target EXCEPT ![nextRunId] = n]
  /\ radio' = [radio EXCEPT ![nextRunId] = d]

CallOmni(n, d) ==
  /\ d \notin Directional
  /\ NewRun(n, d)
  /\ Dispatch(nextRunId, n, <<"resolved">>, live \cup {nextRunId})
  /\ UNCHANGED <<rows, sent, replyVars>>

CallDirectional(n, d) ==
  /\ d \in Directional
  /\ NewRun(n, d)
  /\ pc' = [pc EXCEPT ![nextRunId] = "aiming"]
  /\ Tell(nextRunId, <<"resolved", "aiming">>, live \cup {nextRunId})
  /\ UNCHANGED <<pending, callbacks, armed, posting, sent, rows, replyVars>>

(* aimForNode() came back settled; only a radio on a rotator can.           *)
AimConfirmed(r) ==
  /\ pc[r] = "aiming"
  /\ radio[r] \in Steerable
  /\ Dispatch(r, target[r], <<"aimed">>, live)
  /\ UNCHANGED <<runVars, rows, sent, replyVars>>

\* The refused aim is reported and the request goes out all the same.
AimRefused_sendsAnyway(r) ==
  /\ pc[r] = "aiming"
  /\ Dispatch(r, target[r], <<"aim_failed">>, live)
  /\ rows' = [rows EXCEPT ![r] = Append(@, "aim_failed")]
  /\ UNCHANGED <<runVars, sent, replyVars>>

(* It did not settle (held by another user, missed, no bearing, no rotator):*)
(* one aim_failed row, the terminal phase, and nothing is dispatched.       *)
AimRefused(r) ==
  /\ pc[r] = "aiming"
  /\ pc' = [pc EXCEPT ![r] = "aim_failed"]
  /\ rows' = [rows EXCEPT ![r] = Append(@, "aim_failed")]
  /\ Tell(r, <<"aim_failed">>, live)
  /\ UNCHANGED <<runVars, pending, callbacks, armed, posting, sent, replyVars>>

(* The entry's setTimeout.                                                  *)
TimerFires(r) ==
  /\ r \in armed
  /\ IF pending[target[r]] = r
       THEN Settle(r, "timeout")
       ELSE /\ armed' = armed \ {r}
            /\ UNCHANGED <<live, pc, pending, callbacks, feed, rows>>
  /\ UNCHANGED <<runVars, posting, sent, replyVars>>

\* A rejected post closes whatever entry the node has.
PostFails_anyEntry(r) ==
  /\ r \in posting
  /\ posting' = posting \ {r}
  /\ Settle(r, "send_failed")
  /\ UNCHANGED <<runVars, sent, replyVars>>

(* bridge.post rejects.  By then the entry may be gone, and another run's   *)
(* entry may stand in its place.                                            *)
PostFails(r) ==
  /\ r \in posting
  /\ posting' = posting \ {r}
  /\ IF pending[target[r]] = r
       THEN Settle(r, "send_failed")
       ELSE UNCHANGED <<live, pc, pending, callbacks, armed, feed, rows>>
  /\ UNCHANGED <<runVars, sent, replyVars>>

(* handlePacket(): a traceroute reply from node n arrives.  The entry of n, *)
(* if there is one, is closed by it and the stored result names its run;    *)
(* otherwise the result is stored with no attribution.                      *)
HandlePacket(n, q) ==
  /\ stored' = [stored EXCEPT ![n] = [request |-> q, run |-> pending[n]]]
  /\ IF pending[n] # NoRun
       THEN /\ Settle(pending[n], "answered")
            /\ repliedBy' = [repliedBy EXCEPT ![pending[n]] = @ \cup {q}]
       ELSE UNCHANGED <<live, pc, pending, callbacks, armed, feed, rows, repliedBy>>
  /\ UNCHANGED <<runVars, posting, sent>>

-----------------------------------------------------------------------------
(* The gateway and the mesh.                                                *)

(* mesh-gw takes the post and its radio transmits the request ...           *)
Transmit(r) ==
  /\ r \in posting \ sent
  /\ sent' = sent \cup {r}
  /\ UNCHANGED <<runVars, live, pc, pending, callbacks, armed, posting, feed,
                 rows, replyVars>>

(* ... and says so.                                                         *)
PostSucceeds(r) ==
  /\ r \in posting \cap sent
  /\ posting' = posting \ {r}
  /\ UNCHANGED <<runVars, live, pc, pending, callbacks, armed, sent, feed,
                 rows, replyVars>>

(* What a reply from n may be a reply to.                                   *)
Replies(n) == {r \in sent : target[r] = n} \cup {Foreign}

Program ==
  \/ \E n \in Node, d \in Radio : CallOmni(n, d) \/ CallDirectional(n, d)
  \/ \E r \in Run : AimConfirmed(r) \/ AimRefused(r) \/ TimerFires(r) \/ PostFails(r)
  \/ \E n \in Node : \E q \in Replies(n) : HandlePacket(n, q)

Gateway == \E r \in Run : Transmit(r) \/ PostSucceeds(r)

Next == Program \/ Gateway

(* A set timer fires and an aim comes back (aim-client aborts the request   *)
(* at its timeout).  Nobody has to call, and the mesh owes no reply.        *)
Fairness ==
  \A r \in Run : WF_vars(TimerFires(r)) /\ WF_vars(AimConfirmed(r) \/ AimRefused(r))

Spec     == Init /\ [][Next]_vars
FairSpec == Spec /\ Fairness

-----------------------------------------------------------------------------
(* Types.                                                                   *)
Phase == Terminal \cup {"resolved", "aiming", "aimed", "dispatched"}

(* Every variable keeps to its set; in particular the status column holds   *)
(* only the four words its readers know (_recordFailure, setTraceroute).    *)
TypeOK ==
  /\ nextRunId \in 1 .. MaxRuns + 1
  /\ live \subseteq Run
  /\ target \in [Run -> Node \cup {None}]
  /\ radio \in [Run -> Radio \cup {None}]
  /\ pc \in [Run -> Terminal \cup {"none", "aiming", "waiting"}]
  /\ pending \in [Node -> Run \cup {NoRun}]
  /\ callbacks \in [Run -> SUBSET Run]
  /\ armed \subseteq Run
  /\ posting \subseteq Run
  /\ sent \subseteq Run
  /\ feed \in [Run -> Seq(Phase)]
  /\ rows \in [Run -> Seq(Status)]
  /\ repliedBy \in [Run -> SUBSET Request]
  /\ stored \in [Node -> [request : Request, run : Run \cup {NoRun}]]

-----------------------------------------------------------------------------
(* Safety.                                                                  *)

Said(r, p) == \E i \in 1 .. Len(feed[r]) : feed[r][i] = p
Opened(r)  == Said(r, "dispatched")     \* r opened an entry (never: joined one)
IsOpen(r)  == \E n \in Node : pending[n] = r

(* A dispatch has exactly one outcome, and the feed and the history agree   *)
(* on it: no row while its entry is open, one row once it is closed, of the *)
(* status the terminal phase reported.  A timer, a late rejection and a     *)
(* reply all race to close the entry (the identity tests of dispatch()).    *)
OneOutcomePerDispatch ==
  \A r \in Run :
    /\ Opened(r) /\ IsOpen(r) => rows[r] = << >>
    /\ Opened(r) /\ ~IsOpen(r) =>
         \E p \in Terminal \ {"aim_failed"} : Said(r, p) /\ rows[r] = <<RowOf(p)>>

(* An entry and its timer live and die together: no entry waits without a   *)
(* timer, no timer outlives its entry and acts on its successor.            *)
TimerPerEntry ==
  armed = {pending[n] : n \in Node} \ {NoRun}

(* A caller that waits is on the list of exactly one entry, an open one for *)
(* the node it asked about; nobody else is on a list.                       *)
CallersAreListed ==
  \A r \in Run :
    LET lists == {o \in Run : r \in callbacks[o]}
    IN  IF pc[r] = "waiting"
          THEN \E o \in Run : lists = {o} /\ pending[target[r]] = o
          ELSE lists = {}

(* "aim_failed is terminal and means NOTHING WAS TRANSMITTED", and nothing  *)
(* directional is transmitted before the rotator confirmed the aim.         *)
NothingSentUnaimed ==
  \A r \in posting \cup sent :
    /\ pc[r] # "aim_failed"
    /\ radio[r] \in Directional => Said(r, "aimed")

(* Among the runs that dispatched, the feed replays exactly those whose     *)
(* entry is still open: a client that connects sees no finished dispatch,   *)
(* and misses none in flight.                                               *)
ReplayedDispatchIsOpen ==
  \A r \in Run : Opened(r) => (r \in live <=> IsOpen(r))

(* A stored result that names a run is the outcome that run reported: a     *)
(* reply that came when no entry was open is attributed to nobody.          *)
AttributionIsTheOutcome ==
  \A n \in Node :
    LET r == stored[n].run
    IN  r # NoRun => rows[r] = <<"ok">> /\ stored[n].request \in repliedBy[r]

(* traceroute.js:128-129: a run is in _runs until its terminal phase, so    *)
(* "nothing in flight means nothing sent" to a connecting client            *)
(* (traceroute-status-feed.md:127).  A run that JOINED an entry has no  *)
(* terminal phase and stays for ever.                                       *)
NothingInFlightNothingReplayed ==
  (\A n \in Node : pending[n] = NoRun) /\ (\A r \in Run : pc[r] # "aiming")
    => live = {}

(* traceroute.js:680-682: answered is emitted only for a reply to a         *)
(* dispatch of OURS.  The entry is found by the sender alone.               *)
AnsweredByOurs ==
  \A r \in Run : Foreign \notin repliedBy[r]

-----------------------------------------------------------------------------
(* Steps and liveness.                                                      *)

(* An entry never changes hands: it is closed before its node gets another, *)
(* and closing it settles every caller on its list in the same turn.        *)
EntriesCloseWhole ==
  [][\A n \in Node : pending[n] # NoRun /\ pending'[n] # pending[n] =>
       /\ pending'[n] = NoRun
       /\ \A c \in callbacks[pending[n]] : pc'[c] \in Terminal]_vars

(* POST /traceroute always gets its answer, whatever the rotator, the       *)
(* gateway and the mesh do: the entry's timer bounds the wait.              *)
EveryCallerAnswered ==
  \A r \in Run : pc[r] \in {"aiming", "waiting"} ~> pc[r] \in Terminal

(* Each run reports its phases once, in order, and nothing after the last.  *)
Reports == INSTANCE StatusFeed WITH Run <- Run, feed <- feed
FeedIsLegal == Reports!Spec

-----------------------------------------------------------------------------
(* The inductive invariant behind the safety properties: what each run has  *)
(* said and stored at each point of its life, and how entries, callbacks,   *)
(* timers and requests hang together.                                       *)

HeadOf(d) ==
  IF d \in Directional THEN <<"resolved", "aiming", "aimed">> ELSE <<"resolved">>
OpenFeed(d) == Append(HeadOf(d), "dispatched")

Ending == {"answered", "timeout", "send_failed"}

JoinedRun(r) ==
  /\ feed[r] = HeadOf(radio[r])
  /\ rows[r] = << >>
  /\ r \in live
  /\ pc[r] \in Ending \cup {"waiting"}

OpenRun(r) ==
  /\ feed[r] = OpenFeed(radio[r])
  /\ rows[r] = << >>
  /\ r \in live
  /\ pc[r] = "waiting"
  /\ pending[target[r]] = r
  /\ r \in callbacks[r]

ClosedRun(r) ==
  /\ pc[r] \in Ending
  /\ feed[r] = Append(OpenFeed(radio[r]), pc[r])
  /\ rows[r] = <<RowOf(pc[r])>>
  /\ r \notin live

FreshRun(r) ==
  /\ pc[r] = "none"
  /\ r >= nextRunId
  /\ feed[r] = << >>
  /\ rows[r] = << >>
  /\ r \notin live

AimingRun(r) ==
  /\ pc[r] = "aiming"
  /\ feed[r] = <<"resolved", "aiming">>
  /\ rows[r] = << >>
  /\ r \in live
  /\ radio[r] \in Directional

RefusedRun(r) ==
  /\ pc[r] = "aim_failed"
  /\ feed[r] = <<"resolved", "aiming", "aim_failed">>
  /\ rows[r] = <<"aim_failed">>
  /\ r \notin live

CalledRun(r) == r < nextRunId /\ target[r] \in Node /\ radio[r] \in Radio

RunInv(r) ==
  \/ FreshRun(r)
  \/ /\ CalledRun(r)
     /\ AimingRun(r) \/ RefusedRun(r) \/ JoinedRun(r) \/ OpenRun(r) \/ ClosedRun(r)

EntryInv(n) ==
  pending[n] # NoRun => OpenRun(pending[n]) /\ target[pending[n]] = n

CallbackInv(o) ==
  \A c \in callbacks[o] :
    /\ pending[target[o]] = o /\ target[o] \in Node
    /\ pc[c] = "waiting" /\ target[c] = target[o]

WaitInv(c) == pc[c] = "waiting" =>
  /\ pending[target[c]] # NoRun
  /\ c \in callbacks[pending[target[c]]]

StoredInv(n) == stored[n].run # NoRun =>
  rows[stored[n].run] = <<"ok">> /\ stored[n].request \in repliedBy[stored[n].run]

IInv ==
  /\ TypeOK
  /\ \A r \in Run : RunInv(r)
  /\ \A n \in Node : EntryInv(n)
  /\ \A o \in Run : CallbackInv(o)
  /\ \A c \in Run : WaitInv(c)
  /\ TimerPerEntry
  /\ \A r \in posting \cup sent : OpenRun(r) \/ ClosedRun(r)
  /\ \A n \in Node : StoredInv(n)

=============================================================================
