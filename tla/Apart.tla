------------------------------- MODULE Apart --------------------------------
(***************************************************************************)
(* Four components side by side: the tracker (ActiveTracker), the names of *)
(* places (Geocode), the purge (AutoPurge) and the traces (Traceroute).    *)
(* They share no variable: what one feeds another (the nodes on the radar, *)
(* those with a position, what is heard) each module takes as arbitrary.   *)
(* A step of the process is a step of one of them and leaves the others    *)
(* alone, so each is followed by itself, the others at rest: part says     *)
(* which.                                                                  *)
(***************************************************************************)
EXTENDS Naturals, FiniteSets

CONSTANTS
  Target, MaxLost,                                  \* of the tracker
  Site, Lookup, MaxBreaks,                          \* of the names
  Minutes, Days, MaxAsks, MaxFails,                 \* of the purge
  Peer, Radio, Directional, Steerable, MaxRuns, Foreign,
  Null

ASSUME ApartAssumption ==
  /\ MaxLost \in Nat
  /\ IsFiniteSet(Lookup) /\ MaxBreaks \in Nat
  /\ Minutes \in Nat \ {0} /\ Days \in Nat \ {0} /\ MaxFails \in Nat /\ Null \notin Nat

VARIABLES
  part,
  radar, home, known, stamped, older, contact, actv, holding, lost, fired, served,
  placed, address, queue, phase, running, fill, resolver, lookup, timers, open, up, down, breaks,
  day, minute, ticked, settings, lastRun, asks, faults, calm, seen, begun, ended,
  nextRunId, live, target, radio, pc, pending, callbacks, armed, posting, sent, feed, rows, repliedBy, stored

tracker == <<radar, home, known, stamped, older, contact, actv, holding, lost, fired, served>>
naming  == <<placed, address, queue, phase, running, fill, resolver, lookup, timers, open, up, down, breaks>>
purge   == <<day, minute, ticked, settings, lastRun, asks, faults, calm, seen, begun, ended>>
traces  == <<nextRunId, live, target, radio, pc, pending, callbacks, armed, posting, sent, feed, rows, repliedBy, stored>>

apartVars == <<part, tracker, naming, purge, traces>>

Tracker == INSTANCE ActiveTracker WITH
             Node <- Target, MaxOrphans <- MaxLost, None <- Null,
             row <- known, held <- holding, orphans <- lost
Naming  == INSTANCE Geocode WITH
             Node <- Site, MaxFaults <- MaxBreaks, None <- Null, pending <- resolver, faults <- breaks
Purge   == INSTANCE AutoPurge WITH MaxFaults <- MaxFails, None <- Null
Traces  == INSTANCE Traceroute WITH Node <- Peer, None <- Null

ApartInit ==
  /\ part \in {"tracker", "naming", "purge", "traces"}
  /\ Tracker!Init /\ Naming!Init /\ Purge!Init /\ Traces!Init
  /\ part = "purge" \/ settings = [enabled |-> FALSE, time |-> 0]

ApartNext ==
  \/ part = "tracker" /\ Tracker!Next /\ UNCHANGED <<part, naming, purge, traces>>
  \/ part = "naming"  /\ Naming!Next  /\ UNCHANGED <<part, tracker, purge, traces>>
  \/ part = "purge"   /\ Purge!Next   /\ UNCHANGED <<part, tracker, naming, traces>>
  \/ part = "traces"  /\ Traces!Next  /\ UNCHANGED <<part, tracker, naming, purge>>

(* The fairness of each.  Nothing of a component at rest is enabled but the *)
(* timers of the backfill, which are due while it is the one followed; the  *)
(* page's own timers are left to themselves.                                *)
ApartFairness ==
  /\ Tracker!Fairness /\ Traces!Fairness
  /\ WF_naming(part = "naming" /\ Naming!GapOver)
  /\ WF_naming(part = "naming" /\ \E n \in Naming!Named : Naming!Fetched(n))
  /\ \A t \in Naming!Timer :
       WF_naming(part = "naming" /\ Naming!Tick(t)) /\ WF_naming(part = "naming" /\ Naming!Proceeds(t))

ApartSpec == ApartInit /\ [][ApartNext]_apartVars /\ ApartFairness

(* Each variable keeps to its type: the tracker loses no more timers than   *)
(* an empty radar explains, the chain of look-ups is no longer than the     *)
(* page's and one job of the backfill, no purge is stored ahead of its day. *)
ApartTypeOK == Tracker!TypeOK /\ Naming!TypeOK /\ Purge!TypeOK

(* ActiveTracker: while a node waits no other is stamped twice, whatever    *)
(* mode changes, lost timers and restarts do.                               *)
NobodyTwiceBefore == Tracker!NobodyTwiceBefore

(* ActiveTracker: a node on the radar has its turn, if those on it have     *)
(* rows in nodeinfo.                                                        *)
EveryNodeHasItsTurn == Tracker!EveryNodeHasItsTurn

(* Geocode: a node with a position gets a name in the end, whatever chain   *)
(* and backlog lose in a restart.                                           *)
EveryNodeNamed == Naming!EveryNodeNamed

(* AutoPurge: the timer begins no purge on a day on which one has ended     *)
(* well, whatever settings, restarts and clock do.                          *)
OncePerDay == Purge!OncePerDay

(* AutoPurge: a day on which a tick fell into the minute has a purge.       *)
NoDayForgotten == Purge!NoDayForgotten

(* Traceroute: every caller is answered, though mesh and gateway owe        *)
(* nothing.                                                                 *)
EveryCallerAnswered == Traces!EveryCallerAnswered
=============================================================================
