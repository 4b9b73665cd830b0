------------------------------- MODULE Geocode -------------------------------
(***************************************************************************)
(* src/geocode.js with the page that asks it: names of places for nodes,   *)
(* fetched from a public service one at a time.                            *)
(*                                                                         *)
(* A look-up of the page (wsGeocode of public/app-ws.js) goes to the       *)
(* server, which answers from its cache or adds a job to the one chain     *)
(* that all look-ups share.  The backfill adds its own jobs to it.         *)
(***************************************************************************)
EXTENDS Naturals, Sequences, FiniteSets

CONSTANTS
  Node,
  Lookup,       \* look-ups the page makes, each once
  MaxFaults,    \* bound on restarts of the server and breaks of the socket
  None

VARIABLES
  placed,    \* the nodes that have a position
  address,   \* table geocode_cache
  queue,     \* the jobs on _geocodeQueue, the first one at work
  phase,     \* what that one does: it waits its gap, or has asked
  running,   \* _backfillRunning
  fill,      \* the backfill each timer started
  pending,   \* page: _geocodePending
  lookup,    \* page: the promise of each look-up
  timers,    \* page: look-ups whose 30 s timer is set, the oldest first
  open,      \* the WebSocket
  up, down,  \* requests and results on their way
  faults

server == <<placed, address, queue, phase, running, fill>>
page   == <<pending, lookup, timers>>
wire   == <<open, up, down>>
vars   == <<server, page, wire, faults>>

Timer  == {"boot", "daily"}
Job    == [num : Node, asker : Timer \cup {"page", "nobody"}]
Fill   == [phase : {"off", "lookup", "gap", "over"}, todo : SUBSET Node]
Named  == {"name", "coordinates"}
Result == [num : Node, address : Named \cup {None}]

Resting == [t \in Timer |-> [phase |-> "off", todo |-> {}]]

Init ==
  /\ placed = {}
  /\ address = [n \in Node |-> None]
  /\ queue = <<>> /\ phase = "gap"
  /\ running = FALSE /\ fill = Resting
  /\ pending = [n \in Node |-> None]
  /\ lookup = [i \in Lookup |-> [num |-> None, state |-> "new"]]
  /\ timers = <<>>
  /\ open = TRUE /\ up = <<>> /\ down = <<>>
  /\ faults = 0

(* A packet gives a position; nothing takes it away but DELETE /nodes.      *)
Place(n) ==
  /\ placed' = placed \cup {n}
  /\ UNCHANGED <<address, queue, phase, running, fill, page, wire, faults>>

ClearNodes ==
  /\ placed' = {}
  /\ UNCHANGED <<address, queue, phase, running, fill, page, wire, faults>>

-----------------------------------------------------------------------------
(* lookupGeocode(): from the cache, or nothing to ask for, or a job.        *)

Cached(n)   == address[n] # None
Askable(n)  == ~Cached(n) /\ n \in placed
Queued(n, asker) == queue' = Append(queue, [num |-> n, asker |-> asker])

\* The handler is registered twice.
Receive_twice ==
  /\ open /\ up # <<>>
  /\ LET n == Head(up)
         job == [num |-> n, asker |-> "page"]
         answer == [num |-> n, address |-> address[n]]
     IN  IF Askable(n)
         THEN queue' = queue \o <<job, job>> /\ UNCHANGED down
         ELSE down' = down \o <<answer, answer>> /\ UNCHANGED queue
  /\ up' = Tail(up)
  /\ UNCHANGED <<placed, address, phase, running, fill, page, open, faults>>

(* The message handler of the relay.                                        *)
Receive ==
  /\ open /\ up # <<>>
  /\ LET n == Head(up)
     IN  IF Askable(n)
         THEN Queued(n, "page") /\ UNCHANGED down
         ELSE down' = Append(down, [num |-> n, address |-> address[n]]) /\ UNCHANGED queue
  /\ up' = Tail(up)
  /\ UNCHANGED <<placed, address, phase, running, fill, page, open, faults>>

(* The job at the head of the chain has waited 1.1 s.                       *)
GapOver ==
  /\ queue # <<>> /\ phase = "gap"
  /\ phase' = "asking"
  /\ UNCHANGED <<placed, address, queue, running, fill, page, wire, faults>>

(* The service answers or fails; both are stored, the asker goes on, and    *)
(* the next job begins its gap.                                             *)
Fetched(a) ==
  /\ queue # <<>> /\ phase = "asking"
  /\ LET job == Head(queue)
     IN  /\ address' = [address EXCEPT ![job.num] = a]
         /\ down' = IF job.asker = "page" THEN Append(down, [num |-> job.num, address |-> a]) ELSE down
         /\ fill' = [t \in Timer |-> IF t = job.asker THEN [fill[t] EXCEPT !.phase = "gap"] ELSE fill[t]]
  /\ queue' = Tail(queue) /\ phase' = "gap"
  /\ UNCHANGED <<placed, running, page, open, up, faults>>

-----------------------------------------------------------------------------
(* runGeocodeBackfill().                                                    *)

(* geocodeBacklog()                                                         *)
Backlog == {n \in placed : ~Cached(n)}

(* One turn of the loop: a look-up, which may need a job, then the gap.     *)
LooksUp(t, n, todo) ==
  /\ fill' = [fill EXCEPT ![t] = [phase |-> IF Askable(n) THEN "lookup" ELSE "gap", todo |-> todo \ {n}]]
  /\ IF Askable(n) THEN Queued(n, t) ELSE UNCHANGED queue

Ends(t) ==
  /\ fill' = [fill EXCEPT ![t] = [phase |-> IF t = "boot" THEN "over" ELSE "off", todo |-> {}]]
  /\ running' = FALSE
  /\ UNCHANGED queue

(* The timer of boot fires once, the daily one again and again.             *)
Tick(t) ==
  /\ fill[t].phase = "off" /\ (t = "daily" => ~running)
  /\ IF running
     THEN fill' = [fill EXCEPT ![t].phase = "over"] /\ UNCHANGED <<running, queue>>
     ELSE IF Backlog = {}
     THEN Ends(t)
     ELSE running' = TRUE /\ \E n \in Backlog : LooksUp(t, n, Backlog)
  /\ UNCHANGED <<placed, address, phase, page, wire, faults>>

\* The flag is left up.
Proceeds_flagged(t) ==
  /\ fill[t].phase = "gap"
  /\ IF fill[t].todo = {}
     THEN fill' = [fill EXCEPT ![t].phase = "off"] /\ UNCHANGED <<queue, running>>
     ELSE UNCHANGED running /\ \E n \in fill[t].todo : LooksUp(t, n, fill[t].todo)
  /\ UNCHANGED <<placed, address, phase, page, wire, faults>>

(* The 3 s between two nodes are over.                                      *)
Proceeds(t) ==
  /\ fill[t].phase = "gap"
  /\ IF fill[t].todo = {}
     THEN Ends(t)
     ELSE UNCHANGED running /\ \E n \in fill[t].todo : LooksUp(t, n, fill[t].todo)
  /\ UNCHANGED <<placed, address, phase, page, wire, faults>>

-----------------------------------------------------------------------------
(* The page.                                                                *)

Waits(i) == lookup[i].state = "waiting"
Settled(i, state) == [lookup EXCEPT ![i].state = IF Waits(i) THEN state ELSE @]

(* wsGeocode(): the table keeps one resolver per node.                      *)
Ask(i, n) ==
  /\ open /\ lookup[i].state = "new"
  /\ lookup' = [lookup EXCEPT ![i] = [num |-> n, state |-> "waiting"]]
  /\ pending' = [pending EXCEPT ![n] = i]
  /\ timers' = Append(timers, i)
  /\ up' = Append(up, n)
  /\ UNCHANGED <<server, open, down, faults>>

(* geocode_result                                                           *)
Deliver ==
  /\ open /\ down # <<>>
  /\ LET n == Head(down).num
     IN  /\ lookup' = IF pending[n] = None THEN lookup
                      ELSE Settled(pending[n], IF Head(down).address = None THEN "null" ELSE "answered")
         /\ pending' = [pending EXCEPT ![n] = None]
  /\ down' = Tail(down)
  /\ UNCHANGED <<server, timers, open, up, faults>>

(* The timer of a look-up: whoever is in the table goes, and the look-up of *)
(* the timer is told null.                                                  *)
TimeOut ==
  /\ timers # <<>>
  /\ LET i == Head(timers)
         n == lookup[i].num
     IN  IF pending[n] = None
         THEN UNCHANGED <<lookup, pending>>
         ELSE lookup' = Settled(i, "null") /\ pending' = [pending EXCEPT ![n] = None]
  /\ timers' = Tail(timers)
  /\ UNCHANGED <<server, wire, faults>>

-----------------------------------------------------------------------------
(* Faults.                                                                  *)

Cut == open' = FALSE /\ up' = <<>> /\ down' = <<>>

Abandoned == [k \in DOMAIN queue |-> IF queue[k].asker = "page" THEN [queue[k] EXCEPT !.asker = "nobody"] ELSE queue[k]]

SocketBreaks ==
  /\ open /\ faults < MaxFaults
  /\ faults' = faults + 1
  /\ Cut
  /\ queue' = Abandoned
  /\ UNCHANGED <<placed, address, phase, running, fill, page>>

Reconnects ==
  /\ ~open
  /\ open' = TRUE
  /\ UNCHANGED <<server, page, up, down, faults>>

(* The chain and the backfill are in memory only.                           *)
Restart ==
  /\ faults < MaxFaults
  /\ faults' = faults + 1
  /\ Cut
  /\ queue' = <<>> /\ phase' = "gap"
  /\ running' = FALSE /\ fill' = Resting
  /\ UNCHANGED <<placed, address, page>>

Next ==
  \/ \E n \in Node : Place(n)
  \/ ClearNodes
  \/ Receive \/ GapOver
  \/ \E a \in Named : Fetched(a)
  \/ \E t \in Timer : Tick(t) \/ Proceeds(t)
  \/ \E i \in Lookup, n \in Node : Ask(i, n)
  \/ Deliver \/ TimeOut
  \/ SocketBreaks \/ Reconnects \/ Restart

(* Timers fire, and fetch() answers or gives up.                            *)
Fairness ==
  /\ WF_vars(GapOver)
  /\ WF_vars(\E a \in Named : Fetched(a))
  /\ \A t \in Timer : WF_vars(Tick(t)) /\ WF_vars(Proceeds(t))
  /\ WF_vars(TimeOut)

Spec == Init /\ [][Next]_vars /\ Fairness

-----------------------------------------------------------------------------

TypeOK ==
  /\ placed \subseteq Node
  /\ address \in [Node -> Named \cup {None}]
  /\ queue \in Seq(Job) /\ Len(queue) <= Cardinality(Lookup) + 1
  /\ phase \in {"gap", "asking"}
  /\ running \in BOOLEAN /\ fill \in [Timer -> Fill]
  /\ pending \in [Node -> Lookup \cup {None}]
  /\ lookup \in [Lookup -> [num : Node \cup {None}, state : {"new", "waiting", "answered", "null"}]]
  /\ timers \in Seq(Lookup)
  /\ open \in BOOLEAN /\ up \in Seq(Node) /\ down \in Seq(Result)
  /\ faults \in 0 .. MaxFaults

(* A person who asks waits behind one job of the backfill at most: "leaving *)
(* room between items lets an interactive lookup slot in" (geocode.js:50).  *)
BackfillYields ==
  Cardinality({k \in DOMAIN queue : queue[k].asker \in Timer}) <= 1

(* "A restart picks up exactly where it stopped" (geocode.js:55): a node    *)
(* with a position gets a name in the end, although chain and backlog are   *)
(* lost in a restart.                                                       *)
EveryNodeNamed ==
  \A n \in Node : n \in placed ~> (Cached(n) \/ n \notin placed)

(* What docs/modules/app-ws.md:147-149 says of wsGeocode(): it is resolved  *)
(* by the result or after 30 s.                                             *)
EveryLookupSettles == \A i \in Lookup : Waits(i) ~> ~Waits(i)

(* A name that was found is not lost again: two jobs for one node, of which *)
(* the second fails, store the coordinates over it.                         *)
NamesAreKept ==
  [][\A n \in Node : address[n] = "name" => address'[n] = "name"]_vars

=============================================================================
