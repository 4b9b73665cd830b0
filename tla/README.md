# A verification of mesh-radar

mesh-radar drives a rotating directional antenna and a few fixed LoRa radios
from one Node.js process: it points the beam, traces nodes of a Meshtastic
mesh, sweeps the horizon, calls out to strangers on the public channel, mails
alerts and serves a browser.  The process is single-threaded, keeps its state
in objects and in SQLite, and talks over HTTP to `mesh-gw`, the program that
owns radios and rotator.

This directory holds TLA+ models of the parts whose order of events matters,
TLC configurations that check them on small instances, and TLAPS proofs for
every instance.  An action of a model is one turn of the event loop: the code
between two awaits, with the listeners it calls synchronously.

## 1. Inventory

`src/src/*.js` is the back end (63 files, 17 000 lines), `src/public/*.js` the
browser (5 500 lines).  The status of each part is in `PROJECT.json`.

| component | state | operations | interacts with |
|---|---|---|---|
| Traceroute manager (`traceroute.js`, `traceroute-api.js`) | `_pending` by node, `_runs` by run, a timer per entry, rows of `traceroute_history` | `run` (resolve, aim, dispatch), timer, rejected post, `handlePacket`, `inFlight` | aiming (await), bridge (await), node list and WebSocket relay (events) |
| Scanner (`scanner.js`) | `_active`, `_aborted`, `_az`, `_dwellAz`, `_contacts`, one timer; `scan_state` in the database | `start`, `resume`, `abort`, `_doStep`, `handlePacket`, `_end` | aiming (await), lifecycle (events), database |
| Mode and its life cycle (`dash-mode.js`, `lifecycle.js`, `index.js`) | stored mode | `POST /mode`, `/scan/start`, `/scan/abort`, the change, start and end listeners, boot | scanner, tracker, node list |
| Active tracker (`active-tracker.js`) | one hold timer, the node targeted; when each node had its turn, in `nodeinfo` | `start`, `stop`, `advance`, `handlePacket` | aiming (fire and forget), node list |
| Callouts (`callout.js`, `callout-runner.js`) | `_inFlight`, `callout_log`, stored configuration | sweep, `evaluate`, `callout`, `noteInboundText`, `PUT /callout` | mesh-gw (await), database, inbound text |
| Aiming (`aim.js`, `aim-client.js`) | none across calls | `decideAim`, `aimAt` with retries, `point` with a patience retry | mesh-gw aim plugin: the rotator is shared with other programs |
| Node list (`node-list.js`, `node-filter.js`) | live cache, buffer, pre-scan cache, emit timer; `scan_nodes` and table `nodes` in the database | `handleNodeUpdate`, `touchLastHeard`, `confirmScanContact`, `setScanActive`, `seed`, `hydrateFromStore`, `clear` | bridge events, scanner, database, relay |
| Bridge (`bridge.js`, `bridge-events.js`, `startup.js`) | one event stream, reconnect timer, device states | connect, reconnect with backoff, dispatch of each event to its handlers | everything that listens |
| WebSocket relay (`ws-relay.js`) | clients and what each subscribed to | replay on connect, broadcast | node list, traceroute, scanner |
| Range test (`range-test-api.js`) | one auto-disable timer and its radio | start, stop, timer | bridge (await) |
| Automation verbs (`automation.js`) | ring of handled packets, hourly budget | match, budget, send | bridge, mesh-send |
| Operation manager (`op-manager.js`, `public/op-client.js`) | table of operations; in the page what is pending and the ends that came early | submit, write, read back, end, five-second and time-out timers | its own HTTP interface, relay, browser |
| Alerts and mail (`alerts.js`, `mailer.js`, `imap-receiver.js`) | cooldown per alert, reply tokens, seen flags | send, poll, consume token | SMTP, IMAP, mesh-send |
| Auto-purge (`auto-purge-api.js`) | last run, minute timer | tick, purge | bridge, node list |
| Geocoding (`geocode.js`, `wsGeocode` of the page) | chain of look-ups, flag of the backfill, two timers; `geocode_cache`; in the page a resolver per node | look up, fetch, backfill, time out | a public service, relay, page |
| Standing tasks, probe plan (`standing-tasks.js`, `probe-plan.js`) | task rows | schedule, run, record | traceroute |
| Storage (`db.js`, `persist.js`) | SQLite | statements, migrations, retention | everything |
| Configuration and reports (`config-api.js`, `snapshot-api.js`, `node-status.js`, ...) | configuration keys | validated writes, formatting | database |
| Doors and clusters (`node-kind.js`, `clusters.js`) | caches of doors, roles and clusters; `clusters` in the database | kind of a node, derived clusters, anchors and their seeding | history of traceroutes, relay |
| Radio analysis (`reach.js`, `link-budget.js`, `terrain.js`, `doors.js`, ...) | caches | numeric estimates | database |
| Browser (`public/`) | what one page shows, its socket and reconnect timer | connect, close, select a radio, handle events, render | relay |
| mesh-gw | radios, rotator | external | |

What is hard in this code is nearly always the same thing: a handler reads
some state, awaits mesh-gw, and writes afterwards; meanwhile the same handler,
a timer, a packet or a restart may run.  `PROJECT.json` lists each such place
under `hazards`, with the properties that watch it, or why none does.  For each component, what makes it correct:

- **Traceroute**: each dispatch has exactly one outcome, on which feed, history
  and HTTP answer agree; nothing directional is sent unaimed; every caller is
  answered; a reply is attributed to the request it answers.
- **Scanner and modes**: one sweep at a time; it always ends; the stored sweep
  is the one in memory; contacts carry the bearing the beam had; ACTV never
  falls silent and never moves the beam during a sweep.
- **Callouts**: one at a time; ceiling, cooldown and wording rest hold over
  what was sent although they are read before it is; an answer is credited to
  the callout it answers.
- **Aiming**: settled means within half a beam; the retries are bounded; an
  explicit via is obeyed or refused.
- **Node list**: `last_heard` never goes back; a sweep loses no node; hydration
  never overwrites a live value.
- **Range test**: a test that is on has somebody who will turn it off.
- **Automation**: a packet is handled once; no hour exceeds its budget.
- **Operations**: each ends in success or error, once, and the page is told so.
- **Alerts and mail**: a token is used once; neither a crash nor a poll that
  hangs repeats or loses a reply.
- **Doors and clusters**: no door is made up and none is lost; an edited anchor
  shows in the next answer.
- **Active tracker**: every node on the radar has its turn, none two in between.
- **Auto-purge**: once a day, every day.
- **Geocoding**: every placed node is named, every look-up answered.
- **Storage of packets**: times never go back, the two node tables agree, a
  signal was received straight from the node.
- **Bridge and relay**: a client that connects at any time sees the state a
  client that was there sees.

## 2. Modules

| module | models | lines of code |
|---|---|---|
| `StatusFeed` | what the status feed promises for one run | `traceroute.js` 170-187, 293-385 |
| `Traceroute` | the manager, its callers, the gateway and the mesh | `traceroute.js` 121-696, `traceroute-api.js` |
| `MCTraceroute` | two nodes, three radios | |
| `TracerouteProofs` | invariant, safety, refinement of `StatusFeed` | |
| `ScanLifecycle` | scanner, tracker timers, mode, listeners, boot | `scanner.js`, `active-tracker.js`, `lifecycle.js`, `dash-mode.js`, `index.js` |
| `Callout` | sweep, send, log, replies, configuration | `callout.js`, `callout-runner.js`, `config-api.js` |
| `MCCallout` | two nodes, two wordings | |
| `CalloutProofs` | invariant and safety of callouts; once per packet and once per token of `MailReplies` | |
| `NodeList` | the live list of nodes: reports, sweeps, seeds, restarts | `node-list.js`, `bridge-events.js`, `startup.js`, `index.js` |
| `MCNodeList` | two nodes, two radios | |
| `NodeListProofs` | invariant, safety and step properties | |
| `Aim` | where to point, pointing, corrections, the verdict | `aim.js`, `aim-client.js` |
| `AimPromise` | what aim promises its callers | `aim.js` 226-289, 370-424 |
| `MCAim` | one request, two nodes, four bearings | |
| `AimProofs` | invariant, the bound on asks, the verdict, refinement of `AimPromise` | |
| `RangeTest` | start, stop and auto-disable of a range test | `range-test-api.js` |
| `OpFlow` | operations in server and page; extends `RangeTest` | `op-manager.js`, `public/op-client.js` |
| `MCOpFlow` | two operations, two radios | |
| `OpFlowProofs` | invariants of both halves | |
| `LiveFeed` | broadcast, replay and the page that listens | `bridge.js`, `ws-relay.js`, `public/app-ws.js` |
| `MCLiveFeed` | one radio, one run, two sockets | |
| `LiveFeedProofs` | invariant, convergence of a page | |
| `MailReplies` | alerts, tokens, mails, the poll of the inbox | `alerts.js`, `mailer.js`, `imap-receiver.js`, `db.js`, `persist.js` |
| `MCMailReplies` | two packets, two mails | |
| `Automation` | commands heard on the mesh and their replies | `automation.js`, `mesh-send.js` |
| `Doors` | proven doors, kinds of nodes, anchors, clusters and their caches | `node-kind.js`, `clusters.js`, `db.js` |
| `MCDoors` | two nodes on a line | |
| `PacketStore` | what ingestion stores of a node | `persist.js`, `db.js`, `bridge-events.js` |
| `Geocode` | look-ups, their chain, the backfill and the page that asks | `geocode.js`, `ws-relay.js`, `public/app-ws.js` |
| `ActiveTracker` | the schedule of ACTV and its turns | `active-tracker.js`, `db.js` |
| `AutoPurge` | the daily purge of a radio's database | `auto-purge-api.js` |
| `MCHeard` | `Automation` and `PacketStore`, one at a time | |
| `HeardProofs` | invariants and safety of both | |
| `Apart` | `ActiveTracker`, `Geocode`, `AutoPurge` and `Traceroute`, one at a time | |
| `MCApart` | three targets, two sites, two days, one peer | |
| `ApartProofs` | invariants and safety of the first three, of `ScanLifecycle` and of `Doors` | |

`MailReplies`, `PacketStore` and `Doors` name their initial states, steps and
specification after themselves (`MailInit`, `StoreNext`, `DoorsSpec`), because a
proof module extends them beside another component.

Each definition that stands for code is listed with its lines under `map` in
`PROJECT.json`.  A definition `X_variant` above a definition `X` is `X` with a
plausible slip; exchanging the two must break the property it is paired with
under `mutants`.

### Traceroute

`pending[n]` is `_pending.get(n)`, named by the run that opened it;
`callbacks[r]` are the resolvers in that entry, `armed` the entries' timers,
`live` the keys of `_runs`, `posting` the awaited posts, `pc[r]` where the HTTP
caller of run `r` stands.  `feed`, `rows` and `stored` record what was told,
stored in `traceroute_history` and stored as a node's last result.

- `CallOmni`, `CallDirectional` are `run()` up to its first await;
  `AimConfirmed`, `AimRefused` what follows the await of the aim; `Dispatch` is
  `dispatch()`, which joins an open entry or opens one.
- `TimerFires`, `PostFails`, `HandlePacket` close an entry.  The first two look
  whether the entry of the node is still theirs, as the code does.
- `Transmit`, `PostSucceeds` are the gateway, `Replies` the mesh: a reply may
  be late, come more than once, or answer another station's request.

`StatusFeed` is the abstract specification of one subscriber's view: phases in
order, each at most once, nothing after a terminal one.  `FeedIsLegal` is its
`Spec` under an instance with equally named variables, so `Traceroute`
implements it without a mapping of its own.

### ScanLifecycle

A sweep is a chain of `_doStep()` calls; the scanner has one set of fields
however many chains live, so `chain[k]` and `aim[k]` are per chain and
everything else is not.  `Move` is the part of `_doStep()` before `point()`,
`PointReturns` the part after it, `DwellFires` the dwell timer.  `End` is
`_end()` with the end listener of `lifecycle.js`, which runs in the same turn.
`beam` is where the rotator really is: `point()` may be refused, and `_doStep()`
does not look.  `held` is the handle of the tracker, `orphans` the timers that
are set and that no handle names any more.  `Restart` is the boot order of
`index.js`: life cycle first, then the stored sweep.

### Callout

`Sweep(n, t)` is `sweepCallouts()` and `callout()` up to the await: `Clear` has
every guard of `evaluate()` that depends on state this module keeps, in the
code's terms; which nodes are heard on the air, placed and in range is left
open, so any node may be the best candidate.  `send[k]` is an awaited send: the
gateway may take it (`Transmit`), and afterwards answer (`SendReturns`) or not
(`SendFails`).  A restart leaves an orphan: a request nobody waits for, which
may still go out.  `NoteInboundText(n, rx)` credits a text received at `rx`,
possibly delivered later, and after a later one (`Received`).  Time counts in
ticks.  The list of wordings and
their times to live is fixed: editing it is not modelled.

### NodeList

`cache`, `pending`, `preScan` are `_cache`, `_pending`, `_preScanCache`;
`scanNodes` and `rows` what is stored.  An entry is reduced to when its node
was last heard, the radios it is attributed to and whether it is a contact.
`Packet` is one packet event with everything it reaches in its turn: `persist`,
the scanner's contact (`Confirm`) and `touchLastHeard()`; `NodeUpdate` a
replayed `node_info`; `Connected` and `PersistSeed` the two halves of the
handler that seeds at a reconnect, with an await between them; `Restart` the
boot order of `index.js`.  `heardBy` records which radios delivered packets of
a node, and `seeds` counts the seeds: a replay that does to the list what a
seed would is still a replay, and is held to what replays may do.  Whether
`persist` writes a row, the scanner takes a packet as a contact, or the store
knows a name is left open.

Read off the model, though no document promises otherwise: `DELETE /nodes` in a
sweep clears neither the list put aside nor the stored contacts, so the nodes
are back when it ends; and a contact laid over an entry replaces its
attribution, so the other radios that heard the node are forgotten.

### Aim and AimPromise

`call[c]` is one `aimAt()` from its first request to its outcome.  `DecideAim`
translates `decideAim()` (an explicit via, else the known relay, else the
node); `place` and `hop` are the positions and first hops stored at that
moment, any of them.  `Answers` is one return of `pointOnce()`: `Queue` waits
out a busy beam once, `Correct` asks again after a miss, `Finish` tells the
caller.  `Settled` keeps the code's order: the first answer is taken at its
word, a retry is measured, and a retry without a bearing changes nothing.  A
compass of `N` bearings stands for 360 degrees.

`AimPromise` is the abstract specification: begin on what the caller insists
on, hear answers, close once with a verdict they account for.  `KeepsPromise`
is its `Spec` under the mapping `Aimed`, which hides routes, retries and
queueing.  Requests share nothing: the beam is the gateway's, and `busy` stands
for every other user of it.

### RangeTest and OpFlow

`RangeTest` has the handlers of `range-test-api.js`, each in two halves around
the awaited PUT.  `put` are the requests under way, `timer[r]` the timer that
request `r` armed, `handle` and `shown` the two fields all of them share.
`abandoned` is history: the radios left on by a PUT that failed or was refused,
or by a start for another radio, which clears the one handle there is.
`OpFlow` extends it with `op-manager.js` and `op-client.js`: `op[o]` is the
operation in the server, `page[o]` the same one in the page, `wire` the ends on
their way, `early` those that came before the answer to the submission.

### LiveFeed

`server` is what the server knows, `queue[s]` what it has sent on socket `s`,
`page` what the browser shows.  `Replay` lists what a new connection is sent,
in the order of `wss.on('connection')`; every server action appends its
broadcast to all open sockets; `Deliver` is `handleEvent()` in the page.
`Closed` is `onclose`, which arms the reconnect timer, `SelectDevice` is
`reconnectWS()`, which can leave a page with two sockets.  `torn` is history: a
socket closed beside an open one.  The three parts of a replay that need the
radio's answers are sent as one message, and a socket is accepted in one step.

### MailReplies

`Hear` is a packet with everything it reaches in its turn: the relay's filter,
the alert (`Alert`) and `persistEvent()` (`Persisted`).  `poll` is the poll
under way and `Take`, `GatewayTakes`, `Answered`, `Flagged` are the parts of
`_handleMessage()` between its awaits; any of them may be the last before a
crash or a broken connection.  Mails are numbered as they come, and a poll takes
them in that order.  `mails`, `sent` and `doubts` are history.

The flag deserves its own word.  `imap-receiver.js:76` awaits
`messageFlagsAdd()` in the body of the loop over `client.fetch()`; the client
runs one command at a time, so the flag waits for the fetch to end and the fetch
for the loop to ask for more.  The library is not part of the repository, and what
it does with its queue is not the model's to promise: `Flagged` may happen and is not fair, and
`FlagHangs` is the other end, a connection that is given up as silent, which
ends the poll, or the process through an error event nobody listens to.  It may
come after every poll, without a bound, so one mail may be handled for ever:
that its token is used once (`OneAnswerPerToken`) is what keeps the mesh from
hearing it each time.

### Automation

`Hear` is `handleAutomationEvent()` up to the first await, `Aimed` the return of
`point()`, `GatewayTakes`, `Replied`, `ReplyFails` the two sides of the reply's
POST and the `catch` that replies once more.  `replies` counts the reply times
of the last hour, `peak` the most commands ever at work together.

### Doors

`carried` are the first hops of answered traceroutes, which nothing deletes;
`doors` and `roles` the caches of `node-kind.js`, `cache` that of `clusters.js`.
A cache may be refreshed, be used as it is, or have its query fail.  `kinds` is
what the last node list said.  The ground is a line, so that centres and
distances are integers.

### PacketStore

What is stored of one node: `row` in `nodes`, `info` in `nodeinfo`, `signals` in
`signal_history`.  A packet is named by the tick it is sent in, and so are the
name and position it carries.  `Store` is `handlePacket()` with the stamp of
`bridge-events.js`, reached by a reception (`Deliver`, any number of times, in
any order) or by a packet the firmware makes up (`ReplayPacket`); `TypedEvent`
is `handleEvent()`, `NodeInfo` what a radio remembers.  `Upserted`, `Stamped`
and `Cached` are the statements: the gate on `last_heard`, the `MAX` of the
stamp, the second table that follows the first.

### Geocode

`queue` is the one promise chain, its head in its gap or asking (`phase`);
`fill[t]` is the backfill that timer `t` started, which puts one job at a time
on the same chain.  `lookup[i]` is a promise of the page, `pending[n]` the one
resolver the page keeps for a node, `timers` its 30-second timers.  A restart
loses chain and backfill, a broken socket the messages.

### ActiveTracker

`stamped` is the column `yagi_last_targeted` as an order, which exists for
nodes with a row in `nodeinfo` only.  `PointAt` is one turn; `Advance` with
nobody to visit sets a timer and clears none (`orphans`).  `served[n][m]` is
history: how often `m` was stamped since `n` waits.  A stamp is a second
(`unixepoch()`, `db.js:987`), so two turns can have the same: `older` holds the
pairs of stamps of which one is earlier, and `Stamp` takes any choice of nobody
or of the latest (`Latest`) into the second of a new stamp.  A turn that the hold
timer begins is never in the second of the last one, because a dwell takes five
seconds or more (`config-api.js:339`); one of a lost timer, a mode change or a
restart may be.

### AutoPurge

`Tick` is the timer of 60 s; `Later` lets a minute pass with or without one,
since the timer drifts.  `asks` are the awaited purges, of the timer or the
button; `lastRun` is the stored day, that of the answer.  `StepBack` is the hour
the clock repeats.

## 3. Runs

All checked properties hold except that of the run marked *violated*, which
states what a document of the repository says and the code does not.

| run | what it shows |
|---|---|
| `traceroute_safety` | three runs, two nodes, a steered, a fixed and an omni radio: one outcome per dispatch, entries close whole, the feed legal (`StatusFeed` implemented) |
| `scan` | sweeps of two bearings, two chains, tracker, modes, restart: checkpoint current, ACTV keeps a timer, every sweep ends |
| `callout_safety` | log within the ceiling, cooldown, wording rest, under any configuration; answers delivered late or out of order credited in the order of the callouts |
| `nodes_safety` | a sweep lists and stores contacts only and gives the list back, attribution is earned, no report sets a node back |
| `aim` | one request of each kind, any positions, routes and vias, any answers: settled rests on the beam, a via is obeyed or refused (`AimPromise` implemented), the caller hears an outcome |
| `ops` | two operations, ends that overtake the answer to their submission, lost events and lost PUTs: the page is told the end, a range test that is on has somebody to turn it off, every submission settles |
| `feed` | a page that connects, loses its socket, dials again or holds two sockets while everything changes: once what was sent has come it shows what the server knows, and it gets there |
| `mail` | copies, replays, answers and two faults at any await, flags that never come back: one mail per message, one message per token unless an answer was lost, the oldest unseen mail always handled again |
| `doors` | routes answered, rows cleared, caches that age or fail, anchors edited and seeded: no door made up or lost, edits shown, seeding settles |
| `heard` | what a packet sets off besides the live list: four commands under a ceiling the configuration tries to raise, each carried out once, the excess bounded; receptions late, twice and out of order, replays, a node's wrong clock, `DELETE /nodes`: no time moves back, both node tables agree |
| `apart` | the tracker, geocoding, the purge and the callers of traceroutes: no node has two turns while another waits, every one has its turn if all have rows; every placed node is named; one purge a day and none forgotten; every caller answered |
| `actv_turns` | *violated*: every node on the radar has its turn, rows or not |

### Bounds

- `MaxRuns = 3`: the second run can join the first's entry and the third open
  an entry while the first's post is still out, which is what the identity
  tests of `dispatch()` are for.  Two nodes let an entry be confused with
  another's.  Symmetry is over the nodes, which the specification never
  distinguishes.
- `Steps = 2` bearings have a first and a last, and a third changes nothing a
  chain tests; `MaxChains = 2` is an
  aborted chain beside its successor; `MaxOrphans = 1` one lost timer;
  `MaxRestarts = 1` one restart, at any point.
- A day of two ticks, one callout a day, a cooldown of three ticks, a reply
  window of two, a text delivered up to one tick late, a clock to six: a
  callout may fall due again under each limit within the clock, and a text
  received in the window of one callout may come when the next one has its row.
  Stored values lie on either side of each hard limit.  Two slots let a restart
  leave a request behind while a new one is made.
- Two nodes and two radios, one of them the rotator's; times 0 (never told), 1
  and 2, so a report can be older and newer than an entry; three reports, one
  restart.  The actions of `NodeList` change one node at a time, except that a
  contact stores the whole list and a seed names several nodes: two nodes show
  both.
- `aim`: requests share nothing, so one is enough; four bearings have a right
  angle, an opposite and a wrap past north, half beams of zero and one tell
  on from off, and two retries the last correction from the one before.
- `ops`: two operations can start, stop and cross each other on two radios; a
  third would only repeat the cross with the first one's remains.
- `feed`: two sockets are what a page can hold by accident; two pieces of news
  and two cuts let one change fall before, into and after a replay; two
  messages under way let one be overtaken by a close.
- `mail`: two mails about one packet, or one about each of two under one rule;
  two faults let a crash hit the recovery from the first.
- `doors`: two nodes make the smallest group seeding accepts; two anchors fill
  the slugs.  Deadlock is checked in this run.
- `heard` and `apart` follow components that share no variable: what one feeds
  another is arbitrary in each, so a step of one is a stuttering step of the
  others, and what holds of each alone holds of all (`ApartStep`).  `part` says
  which one a behaviour follows.
- `heard`: four commands over a ceiling of two exceed it by more than one.  Two
  packets of any two of six kinds, each heard by any of two radios, of which
  one may know what the other missed; a clock off by two ticks is beyond the
  grace of one.  The symmetries are of commands and of radios.
- `apart`: of three nodes one can be served twice while another is passed over,
  with one lost timer beside the one the handle knows.  One look-up and both
  backfills fill the chain to its bound.  Two days of three minutes have one
  before, in and after the chosen one and a midnight; two requests are timer
  and button at once, and a tick that finds both out waits for an end.  Three
  runs of one node on a directional radio can join, and reopen an entry; a run
  on an omni radio is such a run without its aim.

The proofs do not depend on any of these.

### Fairness

Only what the code's timers bound is assumed to happen: an entry's timer
fires, and an aim comes back because `aim-client.js` aborts it at its timeout
(`Traceroute`); `point()` returns and a dwell timer fires (`ScanLifecycle`);
`pointOnce()` is answered or aborted, and the wait for a busy beam is over
(`Aim`); the timers of chain, backfill and look-ups fire and the service answers
or fails (`Geocode`); the hold timer fires (`ActiveTracker`); an awaited `fetch()` of the server to itself is
answered or breaks off, and the auto-disable and time-out timers fire (`OpFlow`); the emit and
reconnect timers fire, a listening server accepts, and what is under way on an
open socket comes or the socket closes (`LiveFeed`); the poll timer fires, and
IMAP server and gateway answer or the connection breaks (`MailReplies`): of a
flag, that it comes back or its silent connection is given up, never that it
comes back.  Nobody is assumed to press a button, the mesh to reply, the gateway to acknowledge or
to carry anything out, an event to reach the page, or a sweep to start.  All of
it is weak fairness: each action stays enabled until it is taken.

## 4. Proofs

Each proof module shows `Init => IInv`, that every action keeps `IInv`, and the
checked properties from `IInv`, for all values of the constants that satisfy
the named assumptions.

- **`TracerouteProofs`**.  No property is inductive alone: that an entry has one
  outcome needs to know what its run said and stored before.  `IInv` puts each
  run into one of a few shapes (fresh, aiming, refused, joined, open, closed)
  that fix its feed, its rows and its place in `live`, and ties `pending`,
  `callbacks` and `armed` together.  All safety properties, the step property
  `EntriesCloseWhole` and the refinement `Spec => Reports!Spec` follow.
- **`CalloutProofs`**.  The guards are read before the await and the row written
  after it.  `IInv` adds `StillClear`: what the guards found when a send began
  stays true while it is awaited, because the flag keeps others from writing a
  row and time only makes the guards easier to pass.
  `AnswersInOrder` has an induction of its own (`CreditsStep`): a text delivered
  at most `MaxDelay` late can reach back to a callout no older than the delay and
  the window together, and if the cooldown is at least that long no two of a
  node's callouts are in reach of one text, nor an older one of a later text.
  With the constants of the code, six hours and three days (`callout.js:50`,
  `:65`), that is a text up to 66 hours late; beyond that nothing is promised.
  In the same module, of `MailReplies`: a message is on the mesh before its
  token is consumed; `Tokens` counts how many there can be at each stage of the
  poll, with the mail in hand about one packet only.
- **`NodeListProofs`**.  `SweepListsContacts` and `ContactsSurviveRestart` need
  each other: a restart lists what is stored, a contact stores what is listed.
  `IInv` joins them by saying that everything stored is marked as a contact
  and attributed to the rotator.  `AttributionIsEarned` is inductive on top of
  it, under the assumption that a sweep listens to the rotator's radio only.
  That is what `MODE_DEFAULTS` says; a configuration that adds another
  listener credits its contacts to the rotator.  The three step properties
  (nothing forgotten, nothing set back, nothing changed in silence) follow
  from `IInv` action by action.  A seed is exempt from the second by its count
  alone, so a replay that happens to do what a seed would is not.
- **`AimProofs`**.  Requests are independent, so the invariant speaks of one:
  its corrections left pay for the asks it may still make, its verdict depends
  on how many answers it has had, and the promise's condition on verdicts holds
  from the first answer on.  `TypeOK` with its bound on asks, `SettledOnBeam`
  and the refinement `Spec => KeepsPromise` follow, for every compass and any
  number of retries.
- **`OpFlowProofs`**.  `OnIsWatched` is not inductive: a PUT that was carried out
  and turns off is still awaited but no help.  `Attended` leaves it out, and
  needs that a request owns one PUT and that the shared handle's timer is for
  the radio shown.  `PageIsToldTheEnd` follows from `Known`, which says where
  the end of an operation is at any time: on the wire, early, settled or lost.
- **`LiveFeedProofs`**.  `Converges` speaks of a page that has heard everything;
  on the way there the page, two queues and the server all differ.  What a page
  shows is cut into parts (the bridge, the radios, the mode, the list, one per
  run, and for a sweep its state, its place and what was found at each bearing).
  `IInv` says of each part: of the messages on the way to the live socket the
  last that writes it says what the server has now, and if none writes it the
  page shows it already.  That is one statement about a queue, kept by appending
  messages that tell the truth (`TellsConcat`), by a replay, which writes every
  part (`ReplayWrites`), and by delivering the head (`TellsTail`).  Contacts
  need more, for the page takes a contact only if it is better than the one it
  shows: nothing said since the sweep began promises more than the sweep has
  found.  A list still due at the emit timer is the one exception, as in the
  property itself.
- **`HeardProofs`**.  Of `Automation`: a reply is counted after it is sent, so
  `Budget` bounds replies and commands at work together; `Once` says how often a
  command can have been answered at each of its stages.  Of `PacketStore`:
  `nodeinfo` has no time of its own, so `TablesAgree` holds only because
  `_upsertCache()` asks the row of `nodes` after it was written; `StoreInv` adds
  that whatever is placed there has a row, placed too, as long as the rows were
  not deleted, and that the shown signal has its sample.  `RowMovesForward`
  follows from the same case analysis, with the lemmas about `Latest` that every
  case needs.
- **`ApartProofs`**, of five components.
  - `ScanLifecycle`: `IInv` says which chains may live while `aborted` or not, and
    that the one timer handle names a dwelling chain, so that a running sweep
    always has a step to take although `abort()` reaches one chain only.
  - `ActiveTracker`: `NobodyTwiceBefore` counts; `TurnsWait` says what the count
    means: who had a turn since `n` waits has the later stamp, so the head of the
    schedule is somebody else.
  - `Geocode`: the chain is bounded by counting: `QueueBounded` weighs jobs and
    requests against the look-ups made, with one more while a backfill waits
    (`OneJob`, which needs that one backfill runs at a time).  That one gives
    `BackfillYields` as well.
  - `AutoPurge`: `Ledger` ties the stored day to what has ended: a purge has ended
    well today exactly if the stored day is today.
  - `Doors`: the rows only grow, so what is held of them is a part of them, what
    was published is a part of what is held, and a query that fails takes nothing
    away.

Type correctness and a few invariants are proved and no longer in a run, such as
`CallersAreListed`, `NothingSentUnaimed`, `SweepIsAlive`, `ChangesAreAnnounced`,
`SignalsAreDirect`, `NoPositionIsStranded`, `BackfillYields`, `ListIsCurrent` and
the bound on the asks of a request in `Aim`.

Assumed is what the named assumptions of the modules say: bounds are natural
numbers, the marks for *nothing* are no values, the constants of the code have
the order they have there.  `NullAssumption` of `LiveFeed` says that `None` is no
sweep and no state of a radio, `StoreAssumption` that it is no row.

Model-checked only:

- the liveness properties (`EveryScanEnds`, `EveryAimEnds`, `EverySubmitSettles`,
  `PageCatchesUp`, `OldestIsHandled`, `EveryNodeHasItsTurn`, `EveryNodeNamed`,
  `EveryCallerAnswered`): fairness and `ENABLED` are beyond the prover;
- `SeedingSettles`, and in `Doors` the types: anchors are planted by recursion
  over a set of groups, and what that computes needs an induction over data;
- the violated ones.

## 5. Disagreements, and what is not modelled

### Where the code and its documents differ

One is a run:

| run | what the code does | what is said of it |
|---|---|---|
| `actv_turns` | a node without a row in `nodeinfo` gets no stamp (`db.js:987`), sorts first for ever, and the beam stays on it | "toward each in turn" (`docs/modules/active-tracker.md:12-13`) |

Fifteen more are stated in the modules; adding the
definition as an `INVARIANT` or `PROPERTY` to the configuration of its
component makes TLC print the behaviour.  Those of `Geocode` and `AutoPurge` are
first named in `Apart`, as the checked ones are; `EveryLookupSettles` needs a second look-up and the fairness of `TimeOut` there.

| definition | what the code does | what is said of it |
|---|---|---|
| `NothingInFlightNothingReplayed` (`Traceroute`) | a run that joins an open entry stays in `_runs` (`traceroute.js:462-467`) and is replayed for ever | "One entry per run(), removed when the run reaches a terminal phase" (`traceroute.js:128-129`), "Nothing in flight means nothing sent." (`traceroute-status-feed.md:127`) |
| `AnsweredByOurs` (`Traceroute`) | any reply from the node closes our entry (`traceroute.js:599`) | "Emitted only for a reply to a dispatch of OURS" (`traceroute.js:680-682`) |
| `SingleSweep` (`ScanLifecycle`) | abort during a move, then start: two chains step one sweep (`scanner.js:112`) | `docs/modules/scanner.md:152` |
| `ActvScanExclusive` (`ScanLifecycle`) | a timer the one handle has lost moves the beam in a sweep (`active-tracker.js:95`) | "ACTV and SCAN are mutually exclusive" (`lifecycle.js:16`) |
| `ContactsAtTheirBearing` (`ScanLifecycle`) | a refused move dwells all the same (`scanner.js:111`) | "every contact's azimuth is real" (`docs/modules/scanner.md:175`) |
| `TransmissionsWithinCeiling` (`Callout`) | a transmission whose answer is lost leaves no row (`callout.js:289`) | "A hard ceiling on transmissions per day, enforced in the transmit path itself" (`docs/modules/callout.md:37`) |
| `AnswersFollowCallouts` (`Callout`) | the receive time of a text is compared with a row on one side only (`callout.js:332`): one received before anything was transmitted, and delivered after the row is there, is credited | a reply "proves the packet arrived, a human read it, and their answer travelled the whole way home" (`callout.js:315-317`) |
| `EveryMailIsSeen` (`MailReplies`) | the flag is awaited in the loop over the fetch it has to wait for (`imap-receiver.js:69-76`): if it hangs, its mail stays unseen, every poll ends at it, and the mails behind it are not read | "Mark as seen regardless — avoid reprocessing on next poll" (`imap-receiver.js:75`), "Mark all processed messages as `\Seen`" (`docs/modules/imap-receiver.md:26`) |
| `SweepLeavesNothingOlder` (`NodeList`) | a contact promotes a stale buffered report (`node-list.js:354`) | "last_heard only ever moves forward" (`last-heard-is-king.md:50`) |
| `ScanModeIsCurrent` (`LiveFeed`) | the replay says that a sweep runs and never that none does (`ws-relay.js:1243`): a page whose socket was closed when one ended shows it as running | "replays the full current state to every newly connected client" (`docs/modules/ws-relay.md:68-69`) |
| `NamesMoveForward` (`PacketStore`) | the gate compares `last_heard` of a report, not the age of the name in it (`db.js:866`): a radio that missed a rename rolls it back | "Before this gate", "a resync could silently roll a node's short_name/long_name/hw_model/position/last_heard backward" (`docs/modules/db.md:273-276`) |
| `EveryLookupSettles` (`Geocode`) | one resolver per node: of two look-ups that overlap one is never resolved (`app-ws.js:52`) | "client->server RPC with 30 s timeout" (`docs/modules/app-ws.md:147-149`) |
| `FiresAtMatch` (`AutoPurge`) | the run is stored under the day of the answer (`auto-purge-api.js:38`), so one that crosses midnight takes the place of the next day's | "fire at match, guard against same-day re-run" (`docs/modules/auto-purge-api.md:22`) |
| `HeardIsKept` (`PacketStore`) | a text or a sealed packet that comes before the node has a row stamps nothing (`bridge-events.js:56`) | a reception is persisted, always (`last-heard-is-king.md:50`) |
| `NamesAreKept` (`Geocode`) | two jobs for one node, the second of which fails, leave coordinates in place of the name (`geocode.js:31-43`) | a name found is served from the cache from then on |

Read off the code while modelling it, without a definition of their own:

- `automation.js:212`, `alerts.js:148` and `bridge-events.js:32` compare
  `decoded.portnum` with a name, while mesh-gw sends a number
  (`ws-relay.js:781-790`, `tests/test_persist_portnum_shape.mjs:5-8`): with that
  gateway no command and no message alert is ever handled.  `Automation` and
  `MailReplies` take a packet that names its port, as those lines expect.
- "config may only LOWER" the hourly ceiling (`automation.js:28-34`): verbs in
  work together exceed it, by what `CeilingHolds` says.
- A slug is "never reused" (`docs/modules/clusters.md:26`); `nextSlug()`
  (`clusters.js:114-130`) reuses a deleted anchor's.
- A new door "appears immediately" (`docs/modules/node-kind.md:76`), but
  `invalidateDoors()` has no caller; a first query that fails is kept as an
  empty set until the cache ages (`node-kind.js:118-130`).
- The sentinel 0xffffffff of a hop nobody could name counts as a door in
  `provenDoorNums()` (`db.js:1189-1201`); `aim.js:110` and `reach.js:112` skip it.
- A start of a range test for another radio leaves the first one on
  (`range-test-api.js:50`), and an auto-disable resets the state of a newer
  start (`range-test-api.js:59`): both are in `OnIsWatched`.
- An aim settles off the beam when its only correction returns no bearing
  (`aim.js:413`): the exception in `SettledOnBeam`.
- A page can hold two sockets, and the close of the orphan marks it as
  disconnected while the other is open (`app-ws.js:31`, `60-64`): `torn`.
- A `node_list` event carries no favourites, and the page clears them
  (`app-ws.js:308`).
- `timeout_s` of the operation registry is never applied (`op-manager.js:32`).
- `POST /mode` starts and aborts no sweep (`scanner.md:156`); a stored
  `quiet_hours: false` lifts the night guard (`callout.js:66`).
- `DELETE /nodes` during a sweep is undone when the sweep ends; it also leaves
  `nodeinfo` alone, so positions are stranded there (`cleared` in `PacketStore`).
- `_backfillRunning` is set before the query of the backlog and outside the
  `try` (`geocode.js:62-66`): a query that throws stops the backfill until the
  next restart.
- Nothing sets the flag `_replay` that `persist.js:229` reads.
- The guard of `targetNum()` (`active-tracker.js:144-146`) never rejects a node
  without a position, `undefined / 1e7` being NaN; it has no caller.

### Not modelled, and why

- Numeric estimates over floating point (path loss, terrain, reach, signal
  verdicts); most of `doors.js` has no caller in the server.
- Standing tasks and the probe plan: reports computed from the history when
  asked for, with no state between two requests.
- SQL text, migrations and retention; a statement is atomic in SQLite, and what
  is stored is a variable of the component that depends on it.  A turn with two
  synchronous writes is atomic in the models; a crash between them is listed as
  a hazard.
- In `LiveFeed`: history rows, settings, snapshots, tilt and the sockets of one
  radio.
- Formatting, report building, generated schemas, logging, rendering.
- The emulator and the older copy of the program under `reference/`.
- The cooldown of `dispatch()`: no caller in the tree passes one.

## 6. Plan

In order of what a mistake would cost:

1. **`Traceroute` over `AimPromise`**: the manager takes the verdict of an aim as
   settled or not; composed with the promise it would also say on which bearing
   a trace went out.
2. **`NodeList`** with filters and own devices, composed with `ScanLifecycle`,
   whose sweeps it now takes as starting and ending at any time, and with
   `LiveFeed`, which takes the list as a value; abstract specification: a map
   from nodes to their latest report.
3. A finer grain for `lifecycle.js`: the two writes of a turn as two steps, with
   a crash between them.
4. **`Findings`**: the reports of `standing-tasks.js` against a ground truth, of
   which the recorded routes show a part.
5. **`Algorithms`**: wording and interval tables, probe planning, clustering
   against reference definitions over bounded inputs.

Bounds stay of the size above: two of everything that can be confused, three
of what can be joined, one restart.
