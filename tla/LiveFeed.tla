------------------------------ MODULE LiveFeed ------------------------------
(***************************************************************************)
(* src/bridge.js, src/ws-relay.js and public/app-ws.js: what the server    *)
(* knows is pushed to the browser over a WebSocket.  A page that connects  *)
(* is replayed the whole state and follows the broadcasts from then on; a  *)
(* socket that closes loses what was under way, and the page connects      *)
(* again after three seconds, or at once when another radio is selected.   *)
(*                                                                         *)
(* Five topics are modelled, one for each way of being told: a flag (the   *)
(* bridge), a list composed of several sources (the radios), a value (the  *)
(* mode), a list announced late (the nodes), and two that are told step by *)
(* step (the sweep, the traceroutes).  The sweep and the runs themselves   *)
(* are ScanLifecycle and Traceroute.  The history rows, the settings, the  *)
(* snapshots and the sockets of one radio are not modelled.                *)
(***************************************************************************)
EXTENDS Integers, Sequences

CONSTANTS
  Radio,        \* the radios of the bridge
  Modes,        \* dashMode.value is one of 0 .. Modes
  Settings,     \* what a radio may be set to
  Run,          \* the traceroutes
  Socket,       \* the sockets a page can hold at once, a bound
  Steps,        \* the bearings of a sweep
  Levels,       \* 1 .. Levels: how strong a contact is
  MaxNews,      \* bounds what happens on the server
  MaxCuts,      \* bounds the sockets that close
  MaxQueue,     \* bounds the messages under way on a socket
  None

ASSUME FeedAssumption ==
  /\ Steps \in Nat \ {0} /\ Levels \in Nat /\ Modes \in Nat
  /\ MaxNews \in Nat /\ MaxCuts \in Nat /\ MaxQueue \in Nat \ {0, 1}
  /\ None \notin Int \cup Settings /\ Socket # {}

VARIABLES
  link,         \* bridge.connected
  device,       \* lastDeviceState[r].ble_state, None while unknown
  lora,         \* lastDeviceLora[r]: what was last read from the radio, or None
  reads,        \* reads[r]: the reads of the radio's settings under way
  mode,
  listed,       \* lastDeviceList, None before the first
  nodes,        \* the node list
  due,          \* nodeList._emitTimer is running
  scan,         \* the scanner: active, az, at (dwellAz), found (contacts)
  trace,        \* trace[r]: the phase of run r, None before it and over after
  sock,         \* sock[s]: none, connecting or open
  queue,        \* queue[s]: what was sent to the page and has not come
  cur,          \* this._ws
  timer,        \* the timer of onclose is running
  page,         \* what the browser shows
  torn,         \* a socket closed beside an open one, nothing replayed since
  news, cuts    \* what MaxNews and MaxCuts bound

server == <<link, device, lora, reads, mode, listed, nodes, due, scan, trace>>
wire   == <<sock, queue>>
client == <<cur, timer, page, torn>>
vars   == <<server, wire, client, news, cuts>>

Az       == 0 .. Steps - 1
Nothing  == [a \in Az |-> 0]
Idle     == [active |-> FALSE, az |-> 0, at |-> None, found |-> Nothing]
NotSwept == [on |-> FALSE, az |-> None, at |-> None, found |-> Nothing]

Sweep    == [active : BOOLEAN, az : Az \cup {None}, at : Az \cup {None}, found : [Az -> 0 .. Levels]]

ASSUME NullAssumption == None \notin Sweep \cup {"offline", "ready"}

Msg(topic, data) == [topic |-> topic, data |-> data]

(* broadcast(): to every client whose socket is open.                       *)
Broadcast(ms) ==
  /\ \A s \in Socket : Len(queue[s]) + Len(ms) <= MaxQueue
  /\ queue' = [s \in Socket |-> IF sock[s] = "open" THEN queue[s] \o ms ELSE queue[s]]

(* broadcastDeviceList(): what is known of each radio, and its role, which  *)
(* the mode decides.                                                        *)
DeviceList(dev, read, m) ==
  [r \in {q \in Radio : dev[q] # None} |-> [state |-> dev[r], lora |-> read[r], mode |-> m]]

BridgeFlag(l) == Msg("bridge", l)
NodeList      == Msg("nodes", nodes)
Traces(runs)  == Msg("traces", [r \in runs |-> trace[r]])
InFlight(r)   == trace[r] \notin {None, "over"}

\* A sweep under way is not replayed.
Replay_noScan ==
  Msg("replay", [bridge |-> link, radios |-> DeviceList(device, lora, mode), mode |-> mode,
                 scan   |-> None, nodes |-> nodes,
                 runs   |-> Traces({r \in Run : InFlight(r)}).data])

(* What a new connection is told, in one turn of the server: one message    *)
(* here, since no two of its parts change the same thing in the page.       *)
Replay ==
  Msg("replay", [bridge |-> link, radios |-> DeviceList(device, lora, mode), mode |-> mode,
                 scan   |-> IF scan.active THEN scan ELSE None, nodes |-> nodes,
                 runs   |-> Traces({r \in Run : InFlight(r)}).data])

News == news < MaxNews /\ news' = news + 1 /\ UNCHANGED cuts
Calm == UNCHANGED <<news, cuts>>

-----------------------------------------------------------------------------
(* The bridge.                                                              *)

(* _connect(), its open, and a first message that is a hello of version 2;  *)
(* until then, whatever else comes, it is not connected.                    *)
Hello ==
  /\ ~link
  /\ link' = TRUE
  /\ Broadcast(<<BridgeFlag(TRUE)>>)
  /\ UNCHANGED <<device, lora, reads, mode, listed, nodes, due, scan, trace, sock, client>>
  /\ Calm

(* Its close, also that of an attempt that failed; _reconnectTimer follows. *)
BridgeCloses ==
  /\ News
  /\ link' = FALSE
  /\ Broadcast(<<BridgeFlag(FALSE)>>)
  /\ UNCHANGED <<device, lora, reads, mode, listed, nodes, due, scan, trace, sock, client>>

(* Every change of the radios ends with a new list to everybody.            *)
ListDevices(dev, read, m) ==
  /\ listed' = DeviceList(dev, read, m)
  /\ Broadcast(<<Msg("radios", listed')>>)

(* device_state, or an entry of device_snapshot: a radio that is ready is   *)
(* asked for its settings, without waiting for them.                        *)
DeviceState(r, state) ==
  /\ link
  /\ News
  /\ device' = [device EXCEPT ![r] = state]
  /\ reads' = [reads EXCEPT ![r] = IF state = "ready" THEN @ + 1 ELSE @]
  /\ ListDevices(device', lora, mode)
  /\ UNCHANGED <<link, lora, mode, nodes, due, scan, trace, sock, client>>

(* refreshDeviceLora(), refreshDeviceChannels() once their await is over:   *)
(* two reads of a radio may come back in either order, or fail.             *)
DeviceRead(r, v) ==
  /\ reads[r] > 0
  /\ reads' = [reads EXCEPT ![r] = @ - 1]
  /\ lora' = [lora EXCEPT ![r] = v]
  /\ ListDevices(device, lora', mode)
  /\ UNCHANGED <<link, device, mode, nodes, due, scan, trace, sock, client>>
  /\ Calm

DeviceReadFails(r) ==
  /\ reads[r] > 0
  /\ reads' = [reads EXCEPT ![r] = @ - 1]
  /\ UNCHANGED <<link, device, lora, mode, listed, nodes, due, scan, trace, wire, client>>
  /\ Calm

-----------------------------------------------------------------------------
(* The other sources.                                                       *)

ModeChanges(m) ==
  /\ m # mode
  /\ News
  /\ mode' = m
  /\ listed' = DeviceList(device, lora, m)
  /\ Broadcast(<<Msg("mode", m), Msg("radios", listed')>>)
  /\ UNCHANGED <<link, device, lora, reads, nodes, due, scan, trace, sock, client>>

(* The list changes now and is announced when _emitTimer fires.             *)
NodesChange ==
  /\ News
  /\ nodes' = nodes + 1 /\ due' = TRUE
  /\ UNCHANGED <<link, device, lora, reads, mode, listed, scan, trace, wire, client>>

NodesAnnounced ==
  /\ due
  /\ due' = FALSE
  /\ Broadcast(<<NodeList>>)
  /\ UNCHANGED <<link, device, lora, reads, mode, listed, nodes, scan, trace, sock, client>>
  /\ Calm

(* start() and abort(), a dwell that begins, hears and ends: the lists of   *)
(* the page and of the server are emptied for the sweep, and come back.     *)
Progress(sc) == Msg("scan_progress", [az |-> sc.az, at |-> sc.at])
ScanEnd      == Msg("scan_end", None)

ScanStarts ==
  /\ ~scan.active
  /\ News
  /\ scan' = [Idle EXCEPT !.active = TRUE, !.az = 0]
  /\ nodes' = nodes + 1 /\ due' = TRUE
  /\ Broadcast(<<Msg("scan_start", None), Progress(scan')>>)
  /\ UNCHANGED <<link, device, lora, reads, mode, listed, trace, sock, client>>

ScanDwells ==
  /\ scan.active /\ scan.at = None
  /\ scan' = [scan EXCEPT !.at = scan.az]
  /\ Broadcast(<<Progress(scan')>>)
  /\ UNCHANGED <<link, device, lora, reads, mode, listed, nodes, due, trace, sock, client>>
  /\ Calm

ScanHears(snr) ==
  /\ scan.at # None /\ snr > scan.found[scan.at]
  /\ scan' = [scan EXCEPT !.found[scan.at] = snr]
  /\ Broadcast(<<Msg("scan_contact", [az |-> scan.at, snr |-> snr])>>)
  /\ UNCHANGED <<link, device, lora, reads, mode, listed, nodes, due, trace, sock, client>>
  /\ Calm

ScanStops ==
  /\ scan' = [scan EXCEPT !.active = FALSE, !.at = None]
  /\ nodes' = nodes + 1 /\ due' = TRUE
  /\ Broadcast(<<ScanEnd>>)
  /\ UNCHANGED <<link, device, lora, reads, mode, listed, trace, sock, client>>

ScanStepEnds ==
  /\ scan.active /\ scan.at # None
  /\ Calm
  /\ IF scan.az + 1 = Steps THEN ScanStops
     ELSE /\ scan' = [scan EXCEPT !.az = @ + 1, !.at = None]
          /\ Broadcast(<<Progress(scan')>>)
          /\ UNCHANGED <<link, device, lora, reads, mode, listed, nodes, due, trace, sock, client>>

ScanAborted == scan.active /\ News /\ ScanStops

(* A run reports its next phase, or its last one and is in flight no more.  *)
TraceReports(r, phase) ==
  /\ trace[r] # "over" /\ phase # trace[r]
  /\ News
  /\ trace' = [trace EXCEPT ![r] = phase]
  /\ Broadcast(<<Traces({r})'>>)
  /\ UNCHANGED <<link, device, lora, reads, mode, listed, nodes, due, scan, sock, client>>

-----------------------------------------------------------------------------
(* The page and its sockets.                                                *)

Open(s) == sock[s] = "open"

(* connectWS(): a new WebSocket becomes the page's own.                     *)
Dial(others) ==
  LET s == CHOOSE q \in Socket : others[q] = "none" IN
  /\ \E q \in Socket : others[q] = "none"
  /\ sock' = [others EXCEPT ![s] = "connecting"]
  /\ cur' = s

(* The upgrade is accepted: the relay replays, and the page is live.  A     *)
(* list nobody has composed yet is composed now, for every client.          *)
Connected(s) ==
  /\ sock[s] = "connecting"
  /\ sock' = [sock EXCEPT ![s] = "open"]
  /\ listed' = DeviceList(device, lora, mode)
  /\ queue' = [q \in Socket |->
       IF q = s THEN <<Replay>>
       ELSE IF Open(q) /\ listed = None THEN Append(queue[q], Msg("radios", listed')) ELSE queue[q]]
  /\ page' = [page EXCEPT !.live = TRUE]
  /\ torn' = (torn /\ \E q \in Socket \ {s} : Open(q))
  /\ UNCHANGED <<link, device, lora, reads, mode, nodes, due, scan, trace, cur, timer>>
  /\ Calm

\* Only a socket that had been open is replaced.
Closed_openOnly(s) ==
  /\ sock[s] # "none"
  /\ cuts < MaxCuts /\ cuts' = cuts + 1 /\ UNCHANGED news
  /\ sock' = [sock EXCEPT ![s] = "none"]
  /\ queue' = [queue EXCEPT ![s] = << >>]
  /\ page' = [page EXCEPT !.live = FALSE]
  /\ timer' = (timer \/ (s = cur /\ Open(s)))
  /\ torn' = (torn \/ \E q \in Socket \ {s} : Open(q))
  /\ UNCHANGED <<server, cur>>

(* onclose, also of an attempt that failed: only the socket the page holds  *)
(* as its own is replaced.                                                  *)
Closed(s) ==
  /\ sock[s] # "none"
  /\ cuts < MaxCuts /\ cuts' = cuts + 1 /\ UNCHANGED news
  /\ sock' = [sock EXCEPT ![s] = "none"]
  /\ queue' = [queue EXCEPT ![s] = << >>]
  /\ page' = [page EXCEPT !.live = FALSE]
  /\ timer' = (timer \/ s = cur)
  /\ torn' = (torn \/ \E q \in Socket \ {s} : Open(q))
  /\ UNCHANGED <<server, cur>>

(* Three seconds later: whatever the page holds by then.                    *)
Reconnects ==
  /\ timer
  /\ timer' = FALSE
  /\ Dial(sock)
  /\ UNCHANGED <<server, queue, page, torn>>
  /\ Calm

(* selectDevice(): the nodes shown are dropped, and reconnectWS() closes    *)
(* the socket it holds without its onclose; the timer is not cleared.       *)
(* A bound: not while a third socket could come of it.                      *)
SelectDevice ==
  /\ cuts < MaxCuts /\ cuts' = cuts + 1 /\ UNCHANGED news
  /\ timer => \A s \in Socket : sock[s] = "none"
  /\ page' = [page EXCEPT !.live = FALSE, !.nodes = None]
  /\ LET left == [sock EXCEPT ![cur] = "none"] IN
       /\ Dial(left)
       /\ torn' = (torn \/ \E q \in Socket : left[q] = "open")
  /\ queue' = [queue EXCEPT ![cur] = << >>]
  /\ UNCHANGED <<server, timer>>

(* handleEvent(): a sweep that starts empties what is shown, one that is    *)
(* found running is shown as it stands, and a contact as the strongest yet. *)
Swept(sc)       == [on |-> TRUE, az |-> sc.az, at |-> sc.at, found |-> sc.found]
Phases(runs, p) == [r \in Run |-> IF r \in DOMAIN runs THEN runs[r] ELSE p.trace[r]]

Shown(m, p) ==
  CASE m.topic = "replay" ->
         [p EXCEPT !.bridge = m.data.bridge, !.radios = m.data.radios, !.mode = m.data.mode,
                   !.sweep = IF m.data.scan = None THEN @ ELSE Swept(m.data.scan),
                   !.nodes = m.data.nodes, !.trace = Phases(m.data.runs, p)]
    [] m.topic = "bridge"        -> [p EXCEPT !.bridge = m.data]
    [] m.topic = "radios"        -> [p EXCEPT !.radios = m.data]
    [] m.topic = "mode"          -> [p EXCEPT !.mode = m.data]
    [] m.topic = "nodes"         -> [p EXCEPT !.nodes = m.data]
    [] m.topic = "traces"        -> [p EXCEPT !.trace = Phases(m.data, p)]
    [] m.topic = "scan_start"    -> [p EXCEPT !.sweep = Swept([Idle EXCEPT !.az = 0]), !.nodes = None]
    [] m.topic = "scan_progress" -> [p EXCEPT !.sweep = [@ EXCEPT !.az = m.data.az, !.at = m.data.at]]
    [] m.topic = "scan_contact"  ->
         [p EXCEPT !.sweep.found[m.data.az] = IF m.data.snr > @ THEN m.data.snr ELSE @]
    [] m.topic = "scan_end"      -> [p EXCEPT !.sweep = [@ EXCEPT !.on = FALSE, !.az = None, !.at = None]]

Deliver(s) ==
  /\ queue[s] # << >>
  /\ page' = Shown(Head(queue[s]), page)
  /\ queue' = [queue EXCEPT ![s] = Tail(@)]
  /\ UNCHANGED <<server, sock, cur, timer, torn>>
  /\ Calm

-----------------------------------------------------------------------------
(* The server has started, and a page connects.                             *)
Init ==
  /\ link = FALSE
  /\ device = [r \in Radio |-> None] /\ lora = [r \in Radio |-> None] /\ reads = [r \in Radio |-> 0]
  /\ mode = 0
  /\ listed = None
  /\ nodes = 0 /\ due = FALSE
  /\ scan = Idle
  /\ trace = [r \in Run |-> None]
  /\ cur = CHOOSE s \in Socket : TRUE
  /\ sock = [s \in Socket |-> IF s = cur THEN "connecting" ELSE "none"]
  /\ queue = [s \in Socket |-> << >>]
  /\ timer = FALSE /\ torn = FALSE
  /\ page = [live |-> FALSE, bridge |-> FALSE, radios |-> None, mode |-> None, nodes |-> None,
             sweep |-> NotSwept, trace |-> [r \in Run |-> None]]
  /\ news = 0 /\ cuts = 0

Next ==
  \/ Hello \/ BridgeCloses
  \/ \E r \in Radio :
       \/ \E state \in {"offline", "ready"} : DeviceState(r, state)
       \/ \E v \in Settings : DeviceRead(r, v)
       \/ DeviceReadFails(r)
  \/ \E m \in 0 .. Modes : ModeChanges(m)
  \/ NodesChange \/ NodesAnnounced
  \/ ScanStarts \/ ScanDwells \/ ScanStepEnds \/ ScanAborted
  \/ \E snr \in 1 .. Levels : ScanHears(snr)
  \/ \E r \in Run, phase \in {"aiming", "dispatched", "over"} : TraceReports(r, phase)
  \/ Reconnects \/ SelectDevice
  \/ \E s \in Socket : Connected(s) \/ Closed(s) \/ Deliver(s)

(* What the two event loops and their timers do; not what the bridge, the   *)
(* radios, the network or the user does.                                    *)
Fairness ==
  /\ WF_vars(NodesAnnounced)
  /\ WF_vars(Reconnects)
  /\ \A s \in Socket : WF_vars(Connected(s)) /\ WF_vars(Deliver(s))

Spec == Init /\ [][Next]_vars /\ Fairness

-----------------------------------------------------------------------------
(* The values every variable keeps to; a radio is only read while it is     *)
(* known, and no socket holds anything before the relay has accepted it.    *)
TypeOK ==
  /\ link \in BOOLEAN
  /\ device \in [Radio -> {None, "offline", "ready"}]
  /\ lora \in [Radio -> Settings \cup {None}]
  /\ reads \in [Radio -> Nat]
  /\ \A r \in Radio : reads[r] > 0 => device[r] # None
  /\ mode \in 0 .. Modes
  /\ nodes \in Nat /\ due \in BOOLEAN
  /\ scan \in Sweep
  /\ scan.active => scan.az \in Az /\ scan.at \in {None, scan.az}
  /\ trace \in [Run -> {None, "aiming", "dispatched", "over"}]
  /\ sock \in [Socket -> {"none", "connecting", "open"}]
  /\ \A s \in Socket : queue[s] # << >> => Open(s)
  /\ cur \in Socket /\ timer \in BOOLEAN /\ torn \in BOOLEAN

(* lastDeviceList, which a page that connects is given, is what the server  *)
(* knows now: no change of a radio, of its settings or of the mode comes    *)
(* without a new list (ws-relay.js:580-631).                                *)
ListIsCurrent == listed # None => listed = DeviceList(device, lora, mode)

(* A page with a socket of its own, none being opened and nothing on its    *)
(* way.                                                                     *)
Drained ==
  /\ Open(cur)
  /\ \A s \in Socket : sock[s] # "connecting" /\ queue[s] = << >>

Agrees ==
  /\ page.live
  /\ page.bridge = link
  /\ page.radios = DeviceList(device, lora, mode)
  /\ page.mode = mode
  /\ due \/ page.nodes = nodes
  /\ scan.active => page.sweep = Swept(scan)
  /\ \A r \in Run : InFlight(r) => page.trace[r] = trace[r]

(* Whatever was lost with a socket, and in whatever order the sockets of a  *)
(* page deliver, a page that has heard everything shows what the server     *)
(* knows: the replay at connect and the broadcasts after it leave no gap    *)
(* between them (ws-relay.js:1046-1305).                                    *)
Converges == Drained /\ ~torn => Agrees

(* A page whose sockets stop failing gets there: no close leaves it without *)
(* a socket and without a timer (app-ws.js:29-32, 60-64).                   *)
PageCatchesUp == <>[]Drained

(* "replays the full current state to every newly connected client so the   *)
(* browser is immediately consistent" (docs/modules/ws-relay.md:68): a      *)
(* sweep that is over is not shown as running.  The replay says nothing of  *)
(* a scanner at rest (ws-relay.js:1243), and only scan_end clears the flag  *)
(* (app-ws.js:513): FALSE of the code.                                      *)
ScanModeIsCurrent == Drained /\ ~torn => (page.sweep.on => scan.active)
=============================================================================
