------------------------------ MODULE AutoPurge ------------------------------
(***************************************************************************)
(* src/auto-purge-api.js: once a day, in a minute the user chose, the      *)
(* database of a radio is wiped; a button does the same at any time.       *)
(*                                                                         *)
(* A timer of 60 s compares the wall clock with that minute.  Its period   *)
(* is never shorter, so no minute sees two ticks and some see none.  The   *)
(* day of the last run is stored when the radio has answered, which may be *)
(* on another day.  The scheduler treats each radio by itself: one radio.   *)
(***************************************************************************)
EXTENDS Naturals, FiniteSets

CONSTANTS
  Minutes,      \* the minutes of a day: 0 .. Minutes - 1
  Days,         \* bound on the clock: days 1 .. Days
  MaxAsks,      \* bound on the purges under way
  MaxFaults,    \* bound on changes of the settings, restarts, steps of the clock
  None

VARIABLES
  day, minute,  \* the wall clock, which drives it
  ticked,       \* the timer has fired in this minute
  settings,     \* auto_purge_enabled_, auto_purge_time_
  lastRun,      \* the day of auto_purge_last_run_ts_
  asks,         \* the awaited POSTs: by the timer or by hand, and the day of it
  faults,
  calm,         \* history: nobody touched settings, clock or process today
  seen,         \* history: a tick of today fell into the minute
  begun,        \* history: purges the timer began today
  ended         \* history: the latest begin of those that ended well today

clock == <<day, minute, ticked>>
told  == <<calm, seen, begun, ended>>
vars  == <<clock, settings, lastRun, asks, faults, told>>

Minute == 0 .. Minutes - 1
Day    == 1 .. Days
Slot   == 1 .. MaxAsks
By     == {"timer", "hand"}
Free   == [by |-> None, day |-> None]

Init ==
  /\ day = 1 /\ minute = 0 /\ ticked = FALSE
  /\ settings \in [enabled : BOOLEAN, time : Minute]
  /\ lastRun = None
  /\ asks = [k \in Slot |-> Free]
  /\ faults = 0
  /\ calm = TRUE /\ seen = FALSE /\ begun = 0 /\ ended = None

-----------------------------------------------------------------------------

(* A minute passes, with a tick in it or without.                          *)
Later ==
  /\ ticked' = FALSE
  /\ IF minute + 1 < Minutes
     THEN minute' = minute + 1 /\ UNCHANGED <<day, told>>
     ELSE /\ day < Days
          /\ day' = day + 1 /\ minute' = 0
          /\ calm' = TRUE /\ seen' = FALSE /\ begun' = 0 /\ ended' = None
  /\ UNCHANGED <<settings, lastRun, asks, faults>>

Due == settings.enabled /\ minute = settings.time

\* Whoever ran once has run.
HasRun_ever == lastRun # None

(* lastRunDate === today                                                    *)
HasRun == lastRun = day

(* The scheduler's callback; runAutoPurge() up to its await.                *)
Tick ==
  /\ ~ticked /\ ticked' = TRUE
  /\ seen' = (seen \/ Due)
  /\ IF Due /\ ~HasRun
     THEN /\ \E k \in Slot : asks[k] = Free /\ asks' = [asks EXCEPT ![k] = [by |-> "timer", day |-> day]]
          /\ begun' = begun + 1
     ELSE UNCHANGED <<asks, begun>>
  /\ UNCHANGED <<day, minute, settings, lastRun, faults, calm, ended>>

(* POST /purge-nodedb                                                       *)
PurgeNow(k) ==
  /\ asks[k] = Free
  /\ asks' = [asks EXCEPT ![k] = [by |-> "hand", day |-> day]]
  /\ UNCHANGED <<clock, settings, lastRun, faults, told>>

\* Only the button stores when it was.
Done_byHand(k) ==
  /\ asks[k] # Free
  /\ lastRun' = IF asks[k].by = "hand" THEN day ELSE lastRun
  /\ ended' = asks[k].day
  /\ asks' = [asks EXCEPT ![k] = Free]
  /\ UNCHANGED <<clock, settings, faults, calm, seen, begun>>

(* The radio has answered the one or the other.                             *)
Done(k) ==
  /\ asks[k] # Free
  /\ lastRun' = day
  /\ ended' = asks[k].day
  /\ asks' = [asks EXCEPT ![k] = Free]
  /\ UNCHANGED <<clock, settings, faults, calm, seen, begun>>

Failed(k) ==
  /\ asks[k] # Free
  /\ asks' = [asks EXCEPT ![k] = Free]
  /\ UNCHANGED <<clock, settings, lastRun, faults, told>>

(* PUT /auto-purge                                                          *)
PutSettings(new) ==
  /\ faults < MaxFaults /\ faults' = faults + 1
  /\ settings' = new
  /\ calm' = FALSE
  /\ UNCHANGED <<clock, lastRun, asks, seen, begun, ended>>

(* The interval starts over: the next tick is in the next minute.           *)
Restart ==
  /\ faults < MaxFaults /\ faults' = faults + 1
  /\ asks' = [k \in Slot |-> Free]
  /\ ticked' = TRUE
  /\ calm' = FALSE
  /\ UNCHANGED <<day, minute, settings, lastRun, seen, begun, ended>>

(* The hour that the end of summer time repeats.                            *)
StepBack ==
  /\ faults < MaxFaults /\ faults' = faults + 1
  /\ minute > 0 /\ minute' = minute - 1 /\ ticked' = FALSE
  /\ UNCHANGED <<day, settings, lastRun, asks, told>>

Setting == [enabled : BOOLEAN, time : Minute]

Next ==
  \/ Later \/ Tick \/ Restart \/ StepBack
  \/ \E k \in Slot : PurgeNow(k) \/ Done(k) \/ Failed(k)
  \/ \E new \in Setting : PutSettings(new)

Spec == Init /\ [][Next]_vars

-----------------------------------------------------------------------------

TypeOK ==
  /\ day \in Day /\ minute \in Minute /\ ticked \in BOOLEAN
  /\ settings \in Setting
  /\ lastRun \in Day \cup {None} /\ (lastRun # None => lastRun <= day)
  /\ \A k \in Slot : asks[k] = Free \/ (asks[k].by \in By /\ asks[k].day \in 1 .. day)
  /\ faults \in 0 .. MaxFaults
  /\ calm \in BOOLEAN /\ seen \in BOOLEAN /\ begun \in Nat /\ ended \in Day \cup {None}

(* "Guard against same-day re-run" (docs/modules/auto-purge-api.md:22):     *)
(* once a purge has ended well, of the timer or by hand, the timer begins   *)
(* none on that day, whatever settings, restarts and clock do.              *)
OncePerDay == [][begun' > begun => ended = None]_vars

(* A day on which a tick fell into the minute has a purge: the timer's, or  *)
(* one that ended that day.                                                 *)
NoDayForgotten == (calm /\ seen) => (begun > 0 \/ ended # None)

(* "Fire at match" (auto-purge-api.md:22): the timer's, or one that began   *)
(* and ended that day.                                                      *)
FiresAtMatch == (calm /\ seen) => (begun > 0 \/ ended = day)

=============================================================================
