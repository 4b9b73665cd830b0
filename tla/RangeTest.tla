----------------------------- MODULE RangeTest -----------------------------
(***************************************************************************)
(* src/range-test-api.js: POST /range_test/start turns the range test of a *)
(* radio on and arms a timer that turns it off; POST /range_test/stop      *)
(* turns it off.  Both await the gateway between their two halves, and all *)
(* requests share one timer handle and one shown state.                    *)
(*                                                                         *)
(* The status of the gateway's answer is never looked at: an answered PUT  *)
(* counts as done even if the gateway refused it, and only a broken        *)
(* connection is a failure.  The length of a test is left open.            *)
(***************************************************************************)
EXTENDS Integers, FiniteSets

CONSTANTS
  Request,  \* the requests, each arming at most one timer
  Radio,    \* the radios
  None      \* null

ASSUME NoneAssumption == None \notin Radio /\ None \notin Request

VARIABLES
  request,    \* what each request is at: idle, waiting, done, failed
  put,        \* the PUTs to the gateway that are awaited
  timer,      \* timer[r]: the timer request r armed: none, armed, cleared, fired
  handle,     \* _rangeTimerHandle: the request whose timer it is, or None
  shown,      \* _rangeTimer: the radio it says is active, or None
  on,         \* the radios whose range test is on
  abandoned   \* the radios whose last turn to the worse is explained below

rangeVars == <<request, put, timer, handle, shown, on, abandoned>>

Put == [by : Request, auto : BOOLEAN, radio : Radio, enable : BOOLEAN, taken : BOOLEAN]

Sent(r, auto, n, enable) ==
  [by |-> r, auto |-> auto, radio |-> n, enable |-> enable, taken |-> FALSE]

(* clearTimeout(): a timer that has fired is past it.                       *)
Cleared ==
  IF handle # None /\ timer[handle].at = "armed"
  THEN [timer EXCEPT ![handle].at = "cleared"] ELSE timer

(* Range tests of other radios whose timer this clears run on.              *)
LeftOn(n) ==
  {m \in on \ {n} : handle # None /\ timer[handle] = [at |-> "armed", radio |-> m]}

Start(r, n) ==
  /\ request[r] = "idle"
  /\ request' = [request EXCEPT ![r] = "waiting"]
  /\ timer' = Cleared
  /\ handle' = None
  /\ put' = put \cup {Sent(r, FALSE, n, TRUE)}
  /\ abandoned' = abandoned \cup LeftOn(n)
  /\ UNCHANGED <<shown, on>>

\* The shown state is reset before it is read.
Stopped_bodyOnly(body) == body

(* The radio a stop is for: the shown one, else the one the caller names.   *)
Stopped(body) == IF shown # None THEN shown ELSE body

Stop(r, body) ==
  /\ request[r] = "idle"
  /\ request' = [request EXCEPT ![r] = IF Stopped(body) = None THEN "done" ELSE "waiting"]
  /\ timer' = Cleared
  /\ handle' = None
  /\ shown' = None
  /\ put' = IF Stopped(body) = None THEN put
            ELSE put \cup {Sent(r, FALSE, Stopped(body), FALSE)}
  /\ UNCHANGED <<on, abandoned>>

TimerFires(r) ==
  /\ timer[r].at = "armed"
  /\ timer' = [timer EXCEPT ![r].at = "fired"]
  /\ put' = put \cup {Sent(r, TRUE, timer[r].radio, FALSE)}
  /\ UNCHANGED <<request, handle, shown, on, abandoned>>

(* The gateway carries a PUT out.                                           *)
Take(p) ==
  /\ ~p.taken
  /\ put' = (put \ {p}) \cup {[p EXCEPT !.taken = TRUE]}
  /\ on' = IF p.enable THEN on \cup {p.radio} ELSE on \ {p.radio}
  /\ abandoned' = abandoned \ {p.radio}
  /\ UNCHANGED <<request, timer, handle, shown>>

(* A PUT that ends without having been carried out.                         *)
Missing(p) == IF p.taken THEN {} ELSE {p.radio}

Armed(p) == [timer EXCEPT ![p.by] = [at |-> "armed", radio |-> p.radio]]

StartReturns(p) ==
  /\ ~p.auto /\ p.enable
  /\ put' = put \ {p}
  /\ request' = [request EXCEPT ![p.by] = "done"]
  /\ timer' = Armed(p)
  /\ handle' = p.by
  /\ shown' = p.radio
  /\ abandoned' = abandoned \ {p.radio}
  /\ UNCHANGED on

StopReturns(p) ==
  /\ ~p.auto /\ ~p.enable
  /\ put' = put \ {p}
  /\ request' = [request EXCEPT ![p.by] = "done"]
  /\ abandoned' = abandoned \cup Missing(p)
  /\ UNCHANGED <<timer, handle, shown, on>>

\* The caller is answered on the good path only.
PutFails_unanswered(p) ==
  /\ ~p.auto
  /\ put' = put \ {p}
  /\ abandoned' = abandoned \cup {p.radio}
  /\ UNCHANGED <<request, timer, handle, shown, on>>

PutFails(p) ==
  /\ ~p.auto
  /\ put' = put \ {p}
  /\ request' = [request EXCEPT ![p.by] = "failed"]
  /\ abandoned' = abandoned \cup {p.radio}
  /\ UNCHANGED <<timer, handle, shown, on>>

(* The rest of the timer's callback, whoever owns handle and state by now.  *)
AutoReturns(p) ==
  /\ p.auto
  /\ put' = put \ {p}
  /\ handle' = None
  /\ shown' = None
  /\ abandoned' = abandoned \cup Missing(p)
  /\ UNCHANGED <<request, timer, on>>

RangeInit ==
  /\ request = [r \in Request |-> "idle"]
  /\ put = {}
  /\ timer = [r \in Request |-> [at |-> "none"]]
  /\ handle = None
  /\ shown = None
  /\ on = {}
  /\ abandoned = {}

Returns(p) == StartReturns(p) \/ StopReturns(p) \/ PutFails(p) \/ AutoReturns(p)

RangeNext ==
  \/ \E p \in put : Take(p) \/ Returns(p)
  \/ \E r \in Request : TimerFires(r)

RangeTypeOK ==
  /\ request \in [Request -> {"idle", "waiting", "done", "failed"}]
  /\ put \subseteq Put
  /\ \A r \in Request : timer[r].at # "none" =>
       timer[r] \in [at : {"armed", "cleared", "fired"}, radio : Radio]
  /\ DOMAIN timer = Request
  /\ handle \in Request \cup {None}
  /\ shown \in Radio \cup {None}
  /\ on \subseteq Radio
  /\ abandoned \subseteq Radio

-----------------------------------------------------------------------------
(* A radio whose range test is on has somebody who will turn it off: an     *)
(* armed timer, or a request still in flight.  The only ways to leave one   *)
(* on for good are a PUT that failed or was refused, and a start for        *)
(* another radio, which clears the one timer handle there is.               *)
Watched(n) ==
  \/ \E r \in Request : timer[r] = [at |-> "armed", radio |-> n]
  \/ \E p \in put : p.radio = n

OnIsWatched == on \subseteq {n \in Radio : Watched(n)} \cup abandoned

=============================================================================
