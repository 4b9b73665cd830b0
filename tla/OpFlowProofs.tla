----------------------------- MODULE OpFlowProofs -----------------------------
(***************************************************************************)
(* Proofs about OpFlow, in two halves that share no variable but request.  *)
(* Attended strengthens who will turn a range test off: a PUT that was     *)
(* carried out and turns off is no help any more, though it is still       *)
(* awaited.  Known says where the end of an operation is, at any time.     *)
(***************************************************************************)
EXTENDS OpFlow, TLAPS

ArmedFor(r, n) == timer[r].at = "armed" /\ timer[r].radio = n
Helps(p, n)    == p.radio = n /\ (p.enable \/ ~p.taken)
Attended(n)    == (\E r \in Request : ArmedFor(r, n)) \/ (\E p \in put : Helps(p, n))

(* A request is used once: it has one PUT of its own at most, and arms its  *)
(* timer when that one returns.                                             *)
OwnPuts ==
  /\ \A r \in Request : request[r] = "idle" => timer[r].at = "none"
  /\ \A p \in put : p.auto => ~p.enable
  /\ \A p \in put : ~p.auto => request[p.by] = "waiting" /\ timer[p.by].at = "none"
  /\ \A p, q \in put : ~p.auto /\ ~q.auto /\ p.by = q.by => p = q

HandleShown == handle # None => timer[handle].at # "none" /\ timer[handle].radio = shown

RangeInv ==
  /\ RangeTypeOK
  /\ timer = [r \in Request |-> timer[r]]
  /\ OwnPuts
  /\ HandleShown
  /\ \A n \in on \ abandoned : Attended(n)

Known ==
  \A o \in Request :
    /\ page[o] = "idle" => op[o] = NoJob
    /\ page[o] \in Ends => op[o].at = page[o]
    /\ page[o] = "pending" => \A t \in early : t.op # o
    /\ op[o].at \in Ends => \/ o \in lost
                            \/ \E t \in wire \cup early : t.op = o
                            \/ page[o] \in Settled

PageInv ==
  /\ op = [o \in Request |-> op[o]]
  /\ \A o \in Request : op[o] # NoJob => op[o] \in Job /\ op[o].arg \in Arguments(op[o].kind)
  /\ page \in [Request -> {"idle", "posting", "pending"} \cup Settled]
  /\ early \subseteq Told /\ wire \subseteq Told /\ lost \subseteq Request
  /\ \A t \in wire \cup early : op[t.op].at = t.end
  /\ Known

IInv == RangeInv /\ PageInv

Armable == [at : {"armed", "cleared", "fired"}, radio : Radio]

-----------------------------------------------------------------------------
(* PUTs and timers.                                                         *)

LEMMA PutParts ==
  ASSUME RangeInv, NEW p \in put
  PROVE  /\ p \in Put /\ p.by \in Request /\ p.radio \in Radio
         /\ p.auto \in BOOLEAN /\ p.enable \in BOOLEAN /\ p.taken \in BOOLEAN
  <1>1. p \in Put
    BY DEF RangeInv, RangeTypeOK
  <1> QED BY <1>1 DEF Put

LEMMA SentParts ==
  ASSUME NEW r \in Request, NEW auto \in BOOLEAN, NEW n \in Radio, NEW enable \in BOOLEAN
  PROVE  LET s == Sent(r, auto, n, enable) IN
         /\ s \in Put /\ s.by = r /\ s.auto = auto /\ s.radio = n /\ s.enable = enable /\ ~s.taken
  BY DEF Sent, Put

LEMMA TimerParts ==
  ASSUME RangeInv, NEW r \in Request, timer[r].at # "none"
  PROVE  timer[r] \in Armable
  BY DEF RangeInv, RangeTypeOK, Armable

LEMMA ClearedParts ==
  ASSUME RangeInv, timer' = Cleared
  PROVE  /\ timer' = [r \in Request |-> timer'[r]]
         /\ \A r \in Request :
              /\ (timer'[r].at = "none") = (timer[r].at = "none")
              /\ timer'[r].at # "none" => timer'[r] \in Armable
              /\ r # handle => timer'[r] = timer[r]
  <1>1. CASE handle # None /\ timer[handle].at = "armed"
    <2>1. PICK h \in Request : h = handle
      BY <1>1 DEF RangeInv, RangeTypeOK
    <2>2. timer[h] \in Armable
      BY <1>1, <2>1, TimerParts
    <2>3. PICK x : x = [timer[h] EXCEPT !.at = "cleared"]
      OBVIOUS
    <2>4. x \in Armable /\ x.at = "cleared"
      BY <2>2, <2>3 DEF Armable
    <2>5. timer' = [r \in Request |-> IF r = h THEN x ELSE timer[r]]
      BY <1>1, <2>1, <2>3 DEF Cleared, RangeInv
    <2> QED BY <1>1, <2>1, <2>4, <2>5, TimerParts
  <1>2. CASE ~(handle # None /\ timer[handle].at = "armed")
    <2>1. timer' = timer
      BY <1>2 DEF Cleared
    <2> QED BY <2>1, TimerParts DEF RangeInv
  <1> QED BY <1>1, <1>2

(* A request that has waited for nothing so far sends its PUT.              *)
LEMMA RequestSends ==
  ASSUME RangeInv, NEW r \in Request, NEW n \in Radio, NEW enable \in BOOLEAN,
         request[r] = "idle",
         request' = [request EXCEPT ![r] = "waiting"],
         timer' = Cleared,
         put' = put \cup {Sent(r, FALSE, n, enable)}
  PROVE  OwnPuts' /\ put' \subseteq Put
         /\ request' \in [Request -> {"idle", "waiting", "done", "failed"}]
  <1>1. PICK s \in Put : /\ s = Sent(r, FALSE, n, enable) /\ s.by = r /\ ~s.auto
                         /\ put' = put \cup {s}
    <2>1. /\ Sent(r, FALSE, n, enable) \in Put /\ Sent(r, FALSE, n, enable).by = r
          /\ ~Sent(r, FALSE, n, enable).auto
      BY SentParts
    <2> QED BY <2>1
  <1>2. /\ \A q \in Request : (timer'[q].at = "none") = (timer[q].at = "none")
        /\ timer[r].at = "none"
    BY ClearedParts DEF RangeInv, OwnPuts
  <1>3. /\ request' \in [Request -> {"idle", "waiting", "done", "failed"}]
        /\ request'[r] = "waiting" /\ \A q \in Request \ {r} : request'[q] = request[q]
    BY DEF RangeInv, RangeTypeOK
  <1>4. \A q \in Request : request'[q] = "idle" => timer'[q].at = "none"
    BY <1>2, <1>3 DEF RangeInv, OwnPuts
  <1>5. ASSUME NEW p \in put, ~p.auto
        PROVE  p.by \in Request \ {r} /\ request[p.by] = "waiting" /\ timer[p.by].at = "none"
    BY <1>5, PutParts DEF RangeInv, OwnPuts
  <1>6. \A p \in put' : p.auto => ~p.enable
    BY <1>1 DEF RangeInv, OwnPuts
  <1>7. \A p \in put' : ~p.auto => request'[p.by] = "waiting" /\ timer'[p.by].at = "none"
    BY <1>1, <1>2, <1>3, <1>5
  <1>8. \A p, q \in put' : ~p.auto /\ ~q.auto /\ p.by = q.by => p = q
    <2>1. \A p, q \in put : ~p.auto /\ ~q.auto /\ p.by = q.by => p = q
      BY DEF RangeInv, OwnPuts
    <2> QED BY <1>1, <1>5, <2>1
  <1>9. put' \subseteq Put
    BY <1>1, PutParts
  <1> QED BY <1>3, <1>4, <1>6, <1>7, <1>8, <1>9 DEF OwnPuts

LEMMA StartStep ==
  ASSUME RangeInv, NEW r \in Request, NEW n \in Radio, Start(r, n)
  PROVE  RangeInv'
  <1>1. /\ request[r] = "idle" /\ request' = [request EXCEPT ![r] = "waiting"]
        /\ timer' = Cleared /\ handle' = None /\ put' = put \cup {Sent(r, FALSE, n, TRUE)}
        /\ abandoned' = abandoned \cup LeftOn(n) /\ shown' = shown /\ on' = on
    BY DEF Start
  <1>2. OwnPuts' /\ put' \subseteq Put /\ request' \in [Request -> {"idle", "waiting", "done", "failed"}]
    BY <1>1, RequestSends
  <1>3. RangeTypeOK'
    <2>1. abandoned' \subseteq Radio
      BY <1>1 DEF RangeInv, RangeTypeOK, LeftOn
    <2>2. \A q \in Request : timer'[q].at # "none" => timer'[q] \in Armable
      BY <1>1, ClearedParts
    <2>3. DOMAIN timer' = Request
      BY <1>1, ClearedParts
    <2> QED BY <1>1, <1>2, <2>1, <2>2, <2>3 DEF RangeInv, RangeTypeOK, Armable
  <1>4. HandleShown'
    BY <1>1 DEF HandleShown
  <1>5. ASSUME NEW m \in on' \ abandoned'
        PROVE  Attended(m)'
    <2>1. Attended(m) /\ m \in on /\ m \notin LeftOn(n)
      BY <1>1 DEF RangeInv
    <2>2. CASE m = n
      <3>1. Sent(r, FALSE, n, TRUE) \in put' /\ Helps(Sent(r, FALSE, n, TRUE), m)
        BY <1>1, <2>2 DEF Sent, Helps
      <3> QED BY <3>1 DEF Attended
    <2>3. CASE m # n /\ \E p \in put : Helps(p, m)
      BY <1>1, <2>3 DEF Attended, Helps
    <2>4. ASSUME m # n, NEW q \in Request, ArmedFor(q, m)
          PROVE  Attended(m)'
      <3>1. timer[q] \in Armable
        BY <2>4, TimerParts DEF ArmedFor
      <3>2. timer[q] = [at |-> "armed", radio |-> m]
        BY <2>4, <3>1 DEF ArmedFor, Armable
      <3>3. q # handle
        BY <2>1, <2>4, <3>2, NoneAssumption DEF LeftOn
      <3>4. timer'[q] = timer[q]
        BY <1>1, <3>3, ClearedParts
      <3> QED BY <2>4, <3>4 DEF Attended, ArmedFor
    <2> QED BY <2>1, <2>2, <2>3, <2>4 DEF Attended
  <1> QED BY <1>1, <1>2, <1>3, <1>4, <1>5, ClearedParts DEF RangeInv

LEMMA StopStep ==
  ASSUME RangeInv, NEW r \in Request, NEW body \in Radio \cup {None}, Stop(r, body)
  PROVE  RangeInv'
  <1>1. /\ request[r] = "idle"
        /\ timer' = Cleared /\ handle' = None /\ shown' = None /\ on' = on /\ abandoned' = abandoned
    BY DEF Stop
  <1>2. Stopped(body) \in Radio \cup {None} /\ (shown # None => Stopped(body) = shown)
    BY DEF Stopped, RangeInv, RangeTypeOK
  <1>3. /\ OwnPuts' /\ put' \subseteq Put
        /\ request' \in [Request -> {"idle", "waiting", "done", "failed"}] /\ put \subseteq put'
    <2>1. CASE Stopped(body) = None
      <3>1. put' = put /\ request' = [request EXCEPT ![r] = "done"]
        BY <2>1 DEF Stop
      <3>2. \A q \in Request : (timer'[q].at = "none") = (timer[q].at = "none")
        BY <1>1, ClearedParts
      <3>3. ASSUME NEW p \in put, ~p.auto
            PROVE  p.by \in Request \ {r} /\ request[p.by] = "waiting" /\ timer[p.by].at = "none"
        BY <1>1, <3>3, PutParts DEF RangeInv, OwnPuts
      <3>4. request' \in [Request -> {"idle", "waiting", "done", "failed"}]
            /\ request'[r] = "done" /\ \A q \in Request \ {r} : request'[q] = request[q]
        BY <3>1 DEF RangeInv, RangeTypeOK
      <3>5. \A q \in Request : request'[q] = "idle" => timer'[q].at = "none"
        BY <3>2, <3>4 DEF RangeInv, OwnPuts
      <3>6. \A p \in put' : ~p.auto => request'[p.by] = "waiting" /\ timer'[p.by].at = "none"
        BY <3>1, <3>2, <3>3, <3>4
      <3>7. OwnPuts'
        BY <3>1, <3>5, <3>6 DEF RangeInv, OwnPuts
      <3> QED BY <3>1, <3>4, <3>7 DEF RangeInv, RangeTypeOK
    <2>2. CASE Stopped(body) # None
      <3>1. put' = put \cup {Sent(r, FALSE, Stopped(body), FALSE)}
            /\ request' = [request EXCEPT ![r] = "waiting"]
        BY <2>2 DEF Stop
      <3>2. Stopped(body) \in Radio
        BY <1>2, <2>2
      <3> QED BY <1>1, <3>1, <3>2, RequestSends
    <2> QED BY <2>1, <2>2
  <1>4. RangeTypeOK'
    <2>1. \A q \in Request : timer'[q].at # "none" => timer'[q] \in Armable
      BY <1>1, ClearedParts
    <2>2. DOMAIN timer' = Request
      BY <1>1, ClearedParts
    <2> QED BY <1>1, <1>3, <2>1, <2>2 DEF RangeInv, RangeTypeOK, Armable
  <1>5. HandleShown'
    BY <1>1 DEF HandleShown
  <1>6. ASSUME NEW m \in on' \ abandoned'
        PROVE  Attended(m)'
    <2>1. Attended(m)
      BY <1>1 DEF RangeInv
    <2>2. CASE \E p \in put : Helps(p, m)
      BY <1>3, <2>2 DEF Attended, Helps
    <2>3. ASSUME NEW q \in Request, ArmedFor(q, m)
          PROVE  Attended(m)'
      <3>1. CASE q # handle
        <4>1. timer'[q] = timer[q]
          BY <1>1, <3>1, ClearedParts
        <4> QED BY <2>3, <4>1 DEF Attended, ArmedFor
      <3>2. CASE q = handle
        <4>1. shown = m /\ m \in Radio
          BY <1>1, <2>3, <3>2, NoneAssumption DEF RangeInv, RangeTypeOK, HandleShown, ArmedFor
        <4>2. Stopped(body) = m /\ m # None
          BY <1>2, <4>1, NoneAssumption
        <4>3. Sent(r, FALSE, m, FALSE) \in put'
          BY <4>2 DEF Stop
        <4>4. Helps(Sent(r, FALSE, m, FALSE), m)
          BY DEF Sent, Helps
        <4> QED BY <4>3, <4>4 DEF Attended, Helps
      <3> QED BY <3>1, <3>2
    <2> QED BY <2>1, <2>2, <2>3 DEF Attended
  <1> QED BY <1>1, <1>3, <1>4, <1>5, <1>6, ClearedParts DEF RangeInv

LEMMA FiresStep ==
  ASSUME RangeInv, NEW r \in Request, TimerFires(r)
  PROVE  RangeInv'
  <1>1. /\ timer[r].at = "armed" /\ timer' = [timer EXCEPT ![r].at = "fired"]
        /\ put' = put \cup {Sent(r, TRUE, timer[r].radio, FALSE)}
        /\ UNCHANGED <<request, handle, shown, on, abandoned>>
    BY DEF TimerFires
  <1>2. timer[r] \in Armable
    BY <1>1, TimerParts
  <1>3. PICK n \in Radio : n = timer[r].radio
    BY <1>2 DEF Armable
  <1>4. PICK x : x = [timer[r] EXCEPT !.at = "fired"]
    OBVIOUS
  <1>5. x \in Armable /\ x.at = "fired" /\ x.radio = n
    BY <1>2, <1>3, <1>4 DEF Armable
  <1>6. timer' = [q \in Request |-> IF q = r THEN x ELSE timer[q]]
    BY <1>1, <1>4 DEF RangeInv
  <1>7. PICK s \in Put : /\ put' = put \cup {s} /\ s.auto /\ ~s.enable /\ ~s.taken /\ s.radio = n
    <2>1. /\ Sent(r, TRUE, n, FALSE) \in Put /\ Sent(r, TRUE, n, FALSE).auto
          /\ ~Sent(r, TRUE, n, FALSE).enable /\ ~Sent(r, TRUE, n, FALSE).taken
          /\ Sent(r, TRUE, n, FALSE).radio = n
      BY SentParts
    <2> QED BY <1>1, <1>3, <2>1
  <1>8. \A q \in Request : (timer'[q].at = "none") = (timer[q].at = "none")
                           /\ timer'[q].radio = timer[q].radio
    BY <1>1, <1>3, <1>5, <1>6
  <1>9. RangeTypeOK'
    <2>1. put' \subseteq Put
      BY <1>7 DEF RangeInv, RangeTypeOK
    <2>2. \A q \in Request : timer'[q].at # "none" => timer'[q] \in Armable
      BY <1>5, <1>6, TimerParts
    <2> QED BY <1>1, <1>6, <2>1, <2>2 DEF RangeInv, RangeTypeOK, Armable
  <1>10. OwnPuts'
    <2>1. ASSUME NEW p \in put, ~p.auto
          PROVE  p.by \in Request /\ request[p.by] = "waiting" /\ timer[p.by].at = "none"
      BY <2>1, PutParts DEF RangeInv, OwnPuts
    <2> QED BY <1>1, <1>7, <1>8, <2>1 DEF RangeInv, OwnPuts
  <1>11. HandleShown'
    BY <1>1, <1>8 DEF RangeInv, RangeTypeOK, HandleShown
  <1>12. ASSUME NEW m \in on' \ abandoned'
         PROVE  Attended(m)'
    <2>1. Attended(m)
      BY <1>1, <1>12 DEF RangeInv
    <2>2. CASE \E p \in put : Helps(p, m)
      BY <1>7, <2>2 DEF Attended, Helps
    <2>3. ASSUME NEW q \in Request, ArmedFor(q, m)
          PROVE  Attended(m)'
      <3>1. CASE q = r
        BY <1>3, <1>7, <2>3, <3>1 DEF Attended, ArmedFor, Helps
      <3>2. CASE q # r
        BY <1>6, <2>3, <3>2 DEF Attended, ArmedFor
      <3> QED BY <3>1, <3>2
    <2> QED BY <2>1, <2>2, <2>3 DEF Attended
  <1> QED BY <1>6, <1>9, <1>10, <1>11, <1>12 DEF RangeInv

LEMMA TakeStep ==
  ASSUME RangeInv, NEW p \in put, Take(p)
  PROVE  RangeInv'
  <1> DEFINE s == [p EXCEPT !.taken = TRUE]
  <1>1. /\ ~p.taken /\ put' = (put \ {p}) \cup {s}
        /\ on' = IF p.enable THEN on \cup {p.radio} ELSE on \ {p.radio}
        /\ abandoned' = abandoned \ {p.radio}
        /\ UNCHANGED <<request, timer, handle, shown>>
    BY DEF Take
  <1>2. p \in Put /\ p.radio \in Radio /\ p.by \in Request
    BY PutParts
  <1>3. /\ s \in Put /\ s.by = p.by /\ s.auto = p.auto /\ s.radio = p.radio
        /\ s.enable = p.enable
    BY <1>2 DEF Put
  <1> HIDE DEF s
  <1>4. RangeTypeOK'
    <2>1. put' \subseteq Put /\ on' \subseteq Radio /\ abandoned' \subseteq Radio
      BY <1>1, <1>2, <1>3 DEF RangeInv, RangeTypeOK
    <2> QED BY <1>1, <2>1 DEF RangeInv, RangeTypeOK
  <1>5. OwnPuts'
    BY <1>1, <1>3 DEF RangeInv, OwnPuts
  <1>6. HandleShown'
    BY <1>1 DEF RangeInv, HandleShown
  <1>7. ASSUME NEW m \in on' \ abandoned'
        PROVE  Attended(m)'
    <2>1. CASE m = p.radio
      <3>1. p.enable
        BY <1>1, <1>7, <2>1
      <3>2. s \in put' /\ Helps(s, m)
        BY <1>1, <1>3, <2>1, <3>1 DEF Helps
      <3> QED BY <3>2 DEF Attended
    <2>2. CASE m # p.radio
      <3>1. m \in on \ abandoned
        BY <1>1, <1>7, <2>2
      <3>2. Attended(m)
        BY <3>1 DEF RangeInv
      <3>3. \A q \in put : Helps(q, m) => q \in put'
        BY <1>1, <2>2 DEF Helps
      <3>4. \A q : Helps(q, m)' = Helps(q, m)
        BY DEF Helps
      <3> QED BY <1>1, <3>2, <3>3 DEF Attended, ArmedFor, Helps
    <2> QED BY <2>1, <2>2
  <1> QED BY <1>1, <1>4, <1>5, <1>6, <1>7 DEF RangeInv

(* A PUT that returns leaves those of the others.                           *)
LEMMA OthersRemain ==
  ASSUME RangeInv, NEW p \in put, ~p.auto, put' = put \ {p},
         request'[p.by] # "idle", \A q \in Request \ {p.by} : request'[q] = request[q],
         \A q \in Request \ {p.by} : timer'[q] = timer[q]
  PROVE  OwnPuts'
  <1>1. p.by \in Request
    BY PutParts
  <1>2. \A q \in Request : request'[q] = "idle" => timer'[q].at = "none"
    BY DEF RangeInv, OwnPuts
  <1>3. ASSUME NEW q \in put', ~q.auto
        PROVE  q.by \in Request \ {p.by} /\ request[q.by] = "waiting" /\ timer[q.by].at = "none"
    BY <1>3, PutParts DEF RangeInv, OwnPuts
  <1>4. \A q \in put' : ~q.auto => request'[q.by] = "waiting" /\ timer'[q.by].at = "none"
    BY <1>3
  <1> QED BY <1>2, <1>4 DEF RangeInv, OwnPuts

LEMMA StillAttended ==
  ASSUME RangeInv, NEW p \in put, put' = put \ {p}, NEW m, Attended(m),
         \A q \in Request : ArmedFor(q, m) => ArmedFor(q, m)', ~Helps(p, m)
  PROVE  Attended(m)'
  BY DEF Attended, Helps

LEMMA ReturnStep ==
  ASSUME RangeInv, NEW p \in put, Returns(p)
  PROVE  RangeInv'
  <1>0. p.by \in Request /\ p.radio \in Radio /\ p.enable \in BOOLEAN /\ p.taken \in BOOLEAN
    BY PutParts
  <1>1. CASE StartReturns(p)
    <2>1. /\ ~p.auto /\ p.enable /\ put' = put \ {p} /\ request' = [request EXCEPT ![p.by] = "done"]
          /\ timer' = Armed(p) /\ handle' = p.by /\ shown' = p.radio
          /\ abandoned' = abandoned \ {p.radio} /\ on' = on
      BY <1>1 DEF StartReturns
    <2> DEFINE x == [at |-> "armed", radio |-> p.radio]
    <2>2. timer' = [q \in Request |-> IF q = p.by THEN x ELSE timer[q]]
      BY <2>1 DEF Armed, RangeInv
    <2>3. x \in Armable /\ x.at = "armed" /\ x.radio = p.radio
      BY <1>0 DEF Armable
    <2> HIDE DEF x
    <2>4. timer[p.by].at = "none"
      BY <2>1 DEF RangeInv, OwnPuts
    <2>5. request' \in [Request -> {"idle", "waiting", "done", "failed"}]
          /\ request'[p.by] = "done" /\ \A q \in Request \ {p.by} : request'[q] = request[q]
      BY <1>0, <2>1 DEF RangeInv, RangeTypeOK
    <2>6. RangeTypeOK'
      <3>1. \A q \in Request : timer'[q].at # "none" => timer'[q] \in Armable
        BY <2>2, <2>3, TimerParts
      <3>2. put' \subseteq Put /\ abandoned' \subseteq Radio
        BY <2>1 DEF RangeInv, RangeTypeOK
      <3> QED BY <1>0, <2>1, <2>2, <2>5, <3>1, <3>2 DEF RangeInv, RangeTypeOK, Armable
    <2>7. OwnPuts'
      BY <2>1, <2>2, <2>5, OthersRemain
    <2>8. HandleShown'
      BY <1>0, <2>1, <2>2, <2>3 DEF HandleShown
    <2>9. ASSUME NEW m \in on' \ abandoned'
          PROVE  Attended(m)'
      <3>1. CASE m = p.radio
        BY <1>0, <2>2, <2>3, <3>1 DEF Attended, ArmedFor
      <3>2. CASE m # p.radio
        <4>1. Attended(m)
          BY <2>1, <2>9, <3>2 DEF RangeInv
        <4>2. \A q \in Request : ArmedFor(q, m) => ArmedFor(q, m)'
          BY <2>2, <2>4 DEF ArmedFor
        <4>3. ~Helps(p, m)
          BY <3>2 DEF Helps
        <4> QED BY <2>1, <4>1, <4>2, <4>3, StillAttended
      <3> QED BY <3>1, <3>2
    <2> QED BY <2>2, <2>6, <2>7, <2>8, <2>9 DEF RangeInv
  <1>2. CASE StopReturns(p) \/ PutFails(p)
    <2>1. /\ ~p.auto /\ put' = put \ {p} /\ UNCHANGED <<timer, handle, shown, on>>
      BY <1>2 DEF StopReturns, PutFails
    <2>2. PICK end \in {"done", "failed"} : request' = [request EXCEPT ![p.by] = end]
      BY <1>2 DEF StopReturns, PutFails
    <2>3. /\ abandoned \subseteq abandoned' /\ abandoned' \subseteq Radio
          /\ p.radio \in abandoned' \/ (p.taken /\ ~p.enable)
      BY <1>0, <1>2 DEF StopReturns, PutFails, Missing, RangeInv, RangeTypeOK
    <2>4. request' \in [Request -> {"idle", "waiting", "done", "failed"}]
          /\ request'[p.by] # "idle" /\ \A q \in Request \ {p.by} : request'[q] = request[q]
      BY <1>0, <2>2 DEF RangeInv, RangeTypeOK
    <2>5. RangeTypeOK'
      BY <2>1, <2>3, <2>4 DEF RangeInv, RangeTypeOK
    <2>6. OwnPuts'
      BY <2>1, <2>4, OthersRemain
    <2>7. HandleShown'
      BY <2>1 DEF RangeInv, HandleShown
    <2>8. ASSUME NEW m \in on' \ abandoned'
          PROVE  Attended(m)'
      <3>1. Attended(m)
        BY <2>1, <2>3, <2>8 DEF RangeInv
      <3>2. ~Helps(p, m)
        BY <2>3, <2>8 DEF Helps
      <3> QED BY <2>1, <3>1, <3>2, StillAttended DEF ArmedFor
    <2> QED BY <2>1, <2>5, <2>6, <2>7, <2>8 DEF RangeInv
  <1>3. CASE AutoReturns(p)
    <2>1. /\ p.auto /\ put' = put \ {p} /\ handle' = None /\ shown' = None
          /\ abandoned' = abandoned \cup Missing(p) /\ UNCHANGED <<request, timer, on>>
      BY <1>3 DEF AutoReturns
    <2>2. ~p.enable
      BY <2>1 DEF RangeInv, OwnPuts
    <2>3. RangeTypeOK'
      BY <1>0, <2>1 DEF RangeInv, RangeTypeOK, Missing
    <2>4. OwnPuts'
      BY <2>1 DEF RangeInv, OwnPuts
    <2>5. HandleShown'
      BY <2>1 DEF HandleShown
    <2>6. ASSUME NEW m \in on' \ abandoned'
          PROVE  Attended(m)'
      <3>1. Attended(m)
        BY <2>1, <2>6 DEF RangeInv
      <3>2. ~Helps(p, m)
        BY <2>1, <2>2, <2>6 DEF Helps, Missing
      <3> QED BY <2>1, <3>1, <3>2, StillAttended DEF ArmedFor
    <2> QED BY <2>1, <2>3, <2>4, <2>5, <2>6 DEF RangeInv
  <1> QED BY <1>1, <1>2, <1>3 DEF Returns

LEMMA RangeStepKeeps ==
  ASSUME RangeInv, RangeNext
  PROVE  RangeInv'
  BY TakeStep, ReturnStep, FiresStep DEF RangeNext

LEMMA RangeIdles ==
  ASSUME RangeInv, UNCHANGED rangeVars
  PROVE  RangeInv'
  BY DEF rangeVars, RangeInv, RangeTypeOK, OwnPuts, HandleShown, Attended, ArmedFor, Helps

-----------------------------------------------------------------------------
(* Operations and the page.                                                 *)

Stages == {"writing", "waiting", "reading"}

LEMMA RunningJob ==
  ASSUME PageInv, NEW o \in Request, op[o].at \in Stages
  PROVE  /\ op[o] \in Job /\ op[o].arg \in Arguments(op[o].kind) /\ op[o].kind \in Kind
         /\ op[o].at \notin Ends
         /\ page[o] # "idle" /\ page[o] \notin Ends /\ \A t \in wire \cup early : t.op # o
  <1>1. op[o] # NoJob /\ op[o].at \notin Ends
    BY DEF NoJob, Stages, Ends
  <1>2. op[o] \in Job /\ op[o].arg \in Arguments(op[o].kind) /\ op[o].kind \in Kind
    BY <1>1 DEF PageInv, Job
  <1>3. page[o] # "idle" /\ page[o] \notin Ends
    BY <1>1 DEF PageInv, Known
  <1>4. \A t \in wire \cup early : t.end \in Ends /\ op[t.op].at = t.end
    BY DEF PageInv, Told
  <1> QED BY <1>1, <1>2, <1>3, <1>4

LEMMA ToldParts ==
  ASSUME PageInv, NEW t \in wire \cup early
  PROVE  t \in Told /\ t.op \in Request /\ t.end \in Ends /\ op[t.op].at = t.end
  <1>1. t \in Told
    BY DEF PageInv
  <1> QED BY <1>1 DEF PageInv, Told

(* An operation moves on, and if that is its end the page is told or not.   *)
LEMMA JobMoves ==
  ASSUME PageInv, NEW o \in Request, NEW at \in Stages \cup Ends, op[o].at \in Stages,
         op' = [op EXCEPT ![o].at = at], UNCHANGED <<page, early>>,
         \/ wire' = wire /\ lost' = lost /\ at \in Stages
         \/ wire' = wire \cup {[op |-> o, end |-> at]} /\ lost' = lost /\ at \in Ends
         \/ wire' = wire /\ lost' = lost \cup {o} /\ at \in Ends
  PROVE  PageInv'
  <1>1. /\ op[o] \in Job /\ op[o].arg \in Arguments(op[o].kind)
        /\ page[o] # "idle" /\ page[o] \notin Ends /\ \A t \in wire \cup early : t.op # o
    BY RunningJob
  <1>2. PICK x : x = [op[o] EXCEPT !.at = at]
    OBVIOUS
  <1>3. x \in Job /\ x.at = at /\ x.arg = op[o].arg /\ x.kind = op[o].kind
    BY <1>1, <1>2 DEF Job, Stages
  <1>4. op' = [q \in Request |-> IF q = o THEN x ELSE op[q]]
    BY <1>2 DEF PageInv
  <1>5. \A q \in Request : op'[q] # NoJob => op'[q] \in Job /\ op'[q].arg \in Arguments(op'[q].kind)
    BY <1>1, <1>3, <1>4 DEF PageInv
  <1>6. wire' \subseteq Told /\ lost' \subseteq Request
    BY DEF PageInv, Told
  <1>7. \A t \in wire' \cup early' : op'[t.op].at = t.end
    <2>1. \A t \in wire \cup early : op'[t.op].at = t.end
      BY <1>1, <1>4, ToldParts
    <2>2. op'[o].at = at
      BY <1>3, <1>4
    <2> QED BY <2>1, <2>2
  <1>8. ASSUME NEW q \in Request
        PROVE  /\ page'[q] = "idle" => op'[q] = NoJob
               /\ page'[q] \in Ends => op'[q].at = page'[q]
               /\ page'[q] = "pending" => \A t \in early' : t.op # q
               /\ op'[q].at \in Ends => \/ q \in lost'
                                        \/ \E t \in wire' \cup early' : t.op = q
                                        \/ page'[q] \in Settled
    <2>1. CASE q = o
      <3>1. at \in Ends => o \in lost' \/ \E t \in wire' \cup early' : t.op = o
        <4>1. [op |-> o, end |-> at].op = o
          OBVIOUS
        <4>2. at \in Stages => at \notin Ends
          BY DEF Stages, Ends
        <4> QED BY <4>1, <4>2
      <3> QED BY <1>1, <1>3, <1>4, <2>1, <3>1
    <2>2. CASE q # o
      <3>1. op'[q] = op[q] /\ lost \subseteq lost' /\ wire \subseteq wire'
        BY <1>4, <2>2
      <3> QED BY <3>1 DEF PageInv, Known
    <2> QED BY <2>1, <2>2
  <1>9. Known'
    BY <1>8 DEF Known
  <1> QED BY <1>4, <1>5, <1>6, <1>7, <1>9 DEF PageInv

LEMMA EndedKeeps ==
  ASSUME PageInv, NEW o \in Request, NEW end \in Ends, op[o].at \in Stages,
         Ended(o, end), UNCHANGED <<page, early>>
  PROVE  PageInv'
  BY JobMoves DEF Ended

LEMMA ServerStep ==
  ASSUME IInv, NEW o \in Request, Server(o)
  PROVE  IInv'
  <1>0. RangeInv /\ PageInv
    BY DEF IInv
  <1>1. CASE Save(o)
    <2>1. op[o].at \in Stages /\ PageInv'
      BY <1>0, <1>1, JobMoves DEF Save, Stages
    <2> QED BY <1>0, <1>1, <2>1, RangeIdles DEF Save, IInv
  <1>2. CASE Break(o)
    <2>1. PageInv'
      BY <1>0, <1>2, EndedKeeps DEF Break, Stages, Ends
    <2> QED BY <1>0, <1>2, <2>1, RangeIdles DEF Break, IInv
  <1>3. CASE ReadBack(o)
    <2>1. PageInv'
      BY <1>0, <1>3, EndedKeeps DEF ReadBack, Stages, Ends
    <2> QED BY <1>0, <1>3, <2>1, RangeIdles DEF ReadBack, IInv
  <1>4. CASE Answered(o)
    <2>1. PageInv'
      BY <1>0, <1>4, EndedKeeps DEF Answered, Stages, Ends
    <2> QED BY <1>0, <1>4, <2>1, RangeIdles DEF Answered, IInv
  <1>5. CASE Call(o)
    <2>1. op[o].at = "writing" /\ op[o].kind \in {"start", "stop"}
      BY <1>5 DEF Call
    <2>2. PageInv'
      BY <1>0, <1>5, <2>1, JobMoves DEF Call, Stages
    <2>3. op[o].arg \in Arguments(op[o].kind)
      BY <1>0, <2>1, RunningJob DEF Stages
    <2>4. CASE op[o].kind = "start"
      <3>1. op[o].arg \in Radio /\ Start(o, op[o].arg)
        BY <1>5, <2>3, <2>4 DEF Call, Arguments
      <3> QED BY <1>0, <2>2, <3>1, StartStep DEF IInv
    <2>5. CASE op[o].kind = "stop"
      <3>1. op[o].arg \in Radio \cup {None} /\ Stop(o, op[o].arg)
        BY <1>5, <2>3, <2>5 DEF Call, Arguments
      <3> QED BY <1>0, <2>2, <3>1, StopStep DEF IInv
    <2> QED BY <2>1, <2>4, <2>5
  <1> QED BY <1>1, <1>2, <1>3, <1>4, <1>5 DEF Server

(* The page is at another stage; op, and what is on its way, are not.       *)
LEMMA PageMoves ==
  ASSUME PageInv, NEW o \in Request, NEW at \in {"posting", "pending"} \cup Settled,
         page' = [page EXCEPT ![o] = at],
         UNCHANGED op, early' \subseteq Told, wire' \subseteq Told, lost' \subseteq Request,
         early' \cup wire' \subseteq early \cup wire,
         at \in Ends => op[o].at = at,
         at = "pending" => \A t \in early' : t.op # o,
         \A q \in Request \ {o} : page[q] = "pending" => \A t \in early' : t.op # q,
         \A q \in Request : op[q].at \in Ends =>
            \/ q \in lost' \/ (\E t \in wire' \cup early' : t.op = q)
            \/ (IF q = o THEN at ELSE page[q]) \in Settled
  PROVE  PageInv'
  <1>1. /\ page' \in [Request -> {"idle", "posting", "pending"} \cup Settled]
        /\ page'[o] = at /\ \A q \in Request \ {o} : page'[q] = page[q]
    BY DEF PageInv
  <1>2. at # "idle"
    BY DEF Settled, Ends
  <1>3. Known'
    BY <1>1, <1>2 DEF PageInv, Known
  <1>4. \A t \in wire' \cup early' : op'[t.op].at = t.end
    BY DEF PageInv
  <1> QED BY <1>1, <1>3, <1>4 DEF PageInv

LEMMA SubmitStep ==
  ASSUME PageInv, NEW o \in Request, NEW kind \in Kind, NEW arg \in Arguments(kind),
         Submit(o, kind, arg)
  PROVE  PageInv'
  <1>1. /\ page[o] = "idle" /\ page' = [page EXCEPT ![o] = "posting"]
        /\ op' = [op EXCEPT ![o] = [at |-> "writing", kind |-> kind, arg |-> arg]]
        /\ UNCHANGED <<early, wire, lost>>
    BY DEF Submit
  <1> DEFINE x == [at |-> "writing", kind |-> kind, arg |-> arg]
  <1>2. arg \in Radio \cup {None}
    BY DEF Arguments, Kind
  <1>3. x \in Job /\ x.arg \in Arguments(x.kind) /\ x.at \notin Ends
    BY <1>2 DEF Job, Ends
  <1>4. op' = [q \in Request |-> IF q = o THEN x ELSE op[q]]
    BY <1>1 DEF PageInv
  <1> HIDE DEF x
  <1>5. \A q \in Request : op'[q] # NoJob => op'[q] \in Job /\ op'[q].arg \in Arguments(op'[q].kind)
    BY <1>3, <1>4 DEF PageInv
  <1>6. op[o] = NoJob
    BY <1>1 DEF PageInv, Known
  <1>7. \A t \in wire \cup early : t.op # o
    <2>1. ASSUME NEW t \in wire \cup early, t.op = o PROVE FALSE
      BY <1>6, <2>1, ToldParts DEF NoJob, Ends
    <2> QED BY <2>1
  <1>8. \A t \in wire' \cup early' : op'[t.op].at = t.end
    BY <1>1, <1>4, <1>7, ToldParts
  <1>9. /\ page' \in [Request -> {"idle", "posting", "pending"} \cup Settled]
        /\ page'[o] = "posting" /\ \A q \in Request \ {o} : page'[q] = page[q]
    BY <1>1 DEF PageInv
  <1>10. Known'
    BY <1>1, <1>3, <1>4, <1>9 DEF PageInv, Known, Ends
  <1> QED BY <1>1, <1>4, <1>5, <1>8, <1>9, <1>10 DEF PageInv

LEMMA SubmitFailsStep ==
  ASSUME PageInv, NEW o \in Request, SubmitFails(o)
  PROVE  PageInv'
  <1>1. page[o] = "idle" /\ page' = [page EXCEPT ![o] = "refused"] /\ UNCHANGED <<op, early, wire, lost>>
    BY DEF SubmitFails
  <1>2. "refused" \in Settled /\ "refused" \notin Ends
    BY DEF Settled, Ends
  <1> QED BY <1>1, <1>2, PageMoves DEF PageInv, Known

LEMMA GiveUpStep ==
  ASSUME PageInv, NEW o \in Request, GiveUp(o)
  PROVE  PageInv'
  <1>1. page' = [page EXCEPT ![o] = "timed out"] /\ UNCHANGED <<op, early, wire, lost>>
    BY DEF GiveUp
  <1>2. "timed out" \in Settled /\ "timed out" \notin Ends
    BY DEF Settled, Ends
  <1>3. \A q \in Request : page[q] = "pending" => \A t \in early : t.op # q
    BY DEF PageInv, Known
  <1>4. \A q \in Request : op[q].at \in Ends =>
          q \in lost \/ (\E t \in wire \cup early : t.op = q) \/ page[q] \in Settled
    BY DEF PageInv, Known
  <1>5. early \subseteq Told /\ wire \subseteq Told /\ lost \subseteq Request
    BY DEF PageInv
  <1> QED BY <1>1, <1>2, <1>3, <1>4, <1>5, PageMoves

LEMMA PostedStep ==
  ASSUME PageInv, NEW o \in Request, Posted(o)
  PROVE  PageInv'
  <1>0. UNCHANGED <<op, wire, lost>>
    BY DEF Posted
  <1>1. CASE page' = [page EXCEPT ![o] = "refused"] /\ early' = early
    <2>1. "refused" \in Settled /\ "refused" \notin Ends
      BY DEF Settled, Ends
    <2> QED BY <1>0, <1>1, <2>1, PageMoves DEF PageInv, Known
  <1>2. CASE page' = [page EXCEPT ![o] = Registered(o)] /\ early' = {t \in early : t.op # o}
    <2>0. /\ early' \subseteq Told /\ wire' \subseteq Told /\ lost' \subseteq Request
          /\ early' \cup wire' \subseteq early \cup wire /\ op' = op
      BY <1>0, <1>2 DEF PageInv
    <2>1. \A q \in Request \ {o} : page[q] = "pending" => \A t \in early' : t.op # q
      BY <1>2 DEF PageInv, Known
    <2>2. ASSUME NEW q \in Request \ {o}, op[q].at \in Ends
          PROVE  q \in lost' \/ (\E t \in wire' \cup early' : t.op = q) \/ page[q] \in Settled
      BY <1>0, <1>2, <2>2 DEF PageInv, Known
    <2>3. CASE \E t \in early : t.op = o
      <3>1. EndOf(o) \in early /\ EndOf(o).op = o /\ Registered(o) = EndOf(o).end
        BY <2>3 DEF EndOf, Registered
      <3>2. PICK end \in Ends : end = Registered(o) /\ op[o].at = end
        BY <3>1, ToldParts
      <3>3. end \in Settled /\ end # "pending"
        BY DEF Settled, Ends
      <3> QED BY <1>2, <2>0, <2>1, <2>2, <3>2, <3>3, PageMoves
    <2>4. CASE ~\E t \in early : t.op = o
      <3>1. Registered(o) = "pending" /\ early' = early /\ "pending" \notin Ends
        BY <1>2, <2>4 DEF Registered, Ends
      <3>2. page[o] = "posting"
        BY DEF Posted
      <3>3. op[o].at \in Ends => o \in lost' \/ \E t \in wire' \cup early' : t.op = o
        BY <1>0, <3>1, <3>2 DEF PageInv, Known, Settled, Ends
      <3> QED BY <1>2, <2>0, <2>1, <2>2, <2>4, <3>1, <3>3, PageMoves
    <2> QED BY <2>3, <2>4
  <1> QED BY <1>1, <1>2 DEF Posted

LEMMA ReceiveStep ==
  ASSUME PageInv, NEW t \in wire, Receive(t)
  PROVE  PageInv'
  <1>0. wire' = wire \ {t} /\ UNCHANGED <<op, lost>>
    BY DEF Receive
  <1>1. t \in Told /\ t.op \in Request /\ t.end \in Ends /\ op[t.op].at = t.end
    BY ToldParts
  <1>2. CASE page[t.op] = "pending"
    <2>1. page' = [page EXCEPT ![t.op] = t.end] /\ early' = early
      BY <1>2 DEF Receive
    <2>2. t.end \in Settled /\ t.end # "pending"
      BY <1>1 DEF Settled, Ends
    <2>3. ASSUME NEW q \in Request, op[q].at \in Ends
          PROVE  \/ q \in lost' \/ (\E u \in wire' \cup early' : u.op = q)
                 \/ (IF q = t.op THEN t.end ELSE page[q]) \in Settled
      BY <1>0, <2>1, <2>2, <2>3 DEF PageInv, Known
    <2>4. /\ early' \subseteq Told /\ wire' \subseteq Told /\ lost' \subseteq Request
          /\ early' \cup wire' \subseteq early \cup wire /\ op' = op
          /\ \A q \in Request \ {t.op} : page[q] = "pending" => \A u \in early' : u.op # q
      BY <1>0, <2>1 DEF PageInv, Known
    <2> QED BY <1>1, <2>1, <2>2, <2>3, <2>4, PageMoves
  <1>3. CASE page[t.op] # "pending"
    <2>1. early' = early \cup {t} /\ page' = page
      BY <1>3 DEF Receive
    <2>2. early' \subseteq Told /\ wire' \subseteq Told /\ wire' \cup early' = wire \cup early
      BY <1>0, <2>1 DEF PageInv
    <2>3. Known'
      BY <1>0, <1>3, <2>1, <2>2 DEF PageInv, Known
    <2> QED BY <1>0, <2>1, <2>2, <2>3 DEF PageInv
  <1> QED BY <1>2, <1>3

(* An end is lost on the way, or dropped after its five seconds.            *)
LEMMA EndIsLost ==
  ASSUME PageInv, NEW t \in wire \cup early, UNCHANGED <<op, page>>,
         lost' = lost \cup {t.op},
         \/ wire' = wire \ {t} /\ early' = early
         \/ wire' = wire /\ early' = early \ {t}
  PROVE  PageInv'
  <1>1. t.op \in Request
    BY ToldParts
  <1>2. /\ lost' \subseteq Request /\ wire' \subseteq Told /\ early' \subseteq Told
        /\ early' \subseteq early /\ wire' \cup early' \subseteq wire \cup early
    BY <1>1 DEF PageInv
  <1>3. ASSUME NEW q \in Request, op[q].at \in Ends
        PROVE  \/ q \in lost' \/ (\E u \in wire' \cup early' : u.op = q) \/ page[q] \in Settled
    <2>1. q \in lost \/ (\E u \in wire \cup early : u.op = q) \/ page[q] \in Settled
      BY <1>3 DEF PageInv, Known
    <2> QED BY <2>1
  <1>4. Known'
    BY <1>2, <1>3 DEF PageInv, Known
  <1> QED BY <1>2, <1>4 DEF PageInv

-----------------------------------------------------------------------------
LEMMA InvInit == Init => IInv
  <1> SUFFICES ASSUME Init PROVE IInv
    OBVIOUS
  <1>1. /\ request = [r \in Request |-> "idle"] /\ put = {}
        /\ timer = [r \in Request |-> [at |-> "none"]]
        /\ handle = None /\ shown = None /\ on = {} /\ abandoned = {}
    BY DEF Init, RangeInit
  <1>2. RangeInv
    BY <1>1 DEF RangeInv, RangeTypeOK, OwnPuts, HandleShown
  <1>3. /\ op = [o \in Request |-> NoJob] /\ page = [o \in Request |-> "idle"]
        /\ early = {} /\ wire = {} /\ lost = {}
    BY DEF Init
  <1>4. NoJob.at \notin Ends
    BY DEF NoJob, Ends
  <1>5. Known
    BY <1>3, <1>4 DEF Known, Ends
  <1>6. PageInv
    BY <1>3, <1>5 DEF PageInv
  <1> QED BY <1>2, <1>6 DEF IInv

LEMMA PageStep ==
  ASSUME IInv, UNCHANGED rangeVars, PageInv'
  PROVE  IInv'
  BY RangeIdles DEF IInv

LEMMA InvStep == IInv /\ [Next]_vars => IInv'
  <1> SUFFICES ASSUME IInv, [Next]_vars PROVE IInv'
    OBVIOUS
  <1>0. RangeInv /\ PageInv
    BY DEF IInv
  <1>1. ASSUME UNCHANGED opVars
        PROVE  PageInv'
    BY <1>0, <1>1 DEF opVars, PageInv, Known
  <1>2. CASE UNCHANGED vars
    BY <1>0, <1>1, <1>2, RangeIdles DEF vars, IInv
  <1>3. CASE RangeStep
    BY <1>0, <1>1, <1>3, RangeStepKeeps DEF RangeStep, IInv
  <1>4. ASSUME NEW o \in Request,
               \/ \E kind \in Kind : \E arg \in Arguments(kind) : Submit(o, kind, arg)
               \/ SubmitFails(o) \/ Posted(o) \/ GiveUp(o)
        PROVE  IInv'
    <2>1. UNCHANGED rangeVars
      BY <1>4 DEF Submit, SubmitFails, Posted, GiveUp
    <2>2. PageInv'
      BY <1>0, <1>4, SubmitStep, SubmitFailsStep, PostedStep, GiveUpStep
    <2> QED BY <2>1, <2>2, PageStep
  <1>5. ASSUME NEW o \in Request, Server(o) PROVE IInv'
    BY <1>5, ServerStep
  <1>6. ASSUME NEW t \in wire, Receive(t) \/ Lose(t) PROVE IInv'
    <2>1. UNCHANGED rangeVars
      BY <1>6 DEF Receive, Lose
    <2>2. CASE Receive(t)
      BY <1>0, <2>1, <2>2, ReceiveStep, PageStep
    <2>3. CASE Lose(t)
      <3>1. PageInv'
        BY <1>0, <2>3, EndIsLost DEF Lose
      <3> QED BY <2>1, <3>1, PageStep
    <2> QED BY <1>6, <2>2, <2>3
  <1>7. ASSUME NEW t \in early, Forget(t) PROVE IInv'
    <2>1. UNCHANGED rangeVars /\ PageInv'
      BY <1>0, <1>7, EndIsLost DEF Forget
    <2> QED BY <2>1, PageStep
  <1> QED BY <1>2, <1>3, <1>4, <1>5, <1>6, <1>7 DEF Next

(* The strengthening holds throughout.                                      *)
THEOREM Invariance == Spec => []IInv
  <1> QED BY InvInit, InvStep, PTL DEF Spec

(* Every variable keeps to its type.                                        *)
THEOREM TypeCorrect == Spec => []TypeOK
  <1>1. IInv => TypeOK
    BY DEF IInv, RangeInv, PageInv, TypeOK
  <1> QED BY <1>1, Invariance, PTL

(* A radio whose range test is on has an armed timer or a request in flight *)
(* that will turn it off, or was given up in one of the ways accounted for. *)
THEOREM SomebodyTurnsItOff == Spec => []OnIsWatched
  <1>1. ASSUME IInv, NEW n \in on \ abandoned
        PROVE  n \in Radio /\ Watched(n)
    <2>1. n \in Radio /\ Attended(n) /\ RangeInv
      BY <1>1 DEF IInv, RangeInv, RangeTypeOK
    <2>2. ASSUME NEW r \in Request, ArmedFor(r, n)
          PROVE  timer[r] = [at |-> "armed", radio |-> n]
      <3>1. timer[r] \in Armable
        BY <2>1, <2>2, TimerParts DEF ArmedFor
      <3> QED BY <2>2, <3>1 DEF ArmedFor, Armable
    <2> QED BY <2>1, <2>2 DEF Attended, Watched, Helps
  <1>2. IInv => OnIsWatched
    BY <1>1 DEF OnIsWatched
  <1> QED BY <1>2, Invariance, PTL

(* A page is told how its operation ended, and an end that is waited for is *)
(* on its way to it unless it was lost.                                     *)
THEOREM ToldTheEnd == Spec => []PageIsToldTheEnd
  <1>1. IInv => PageIsToldTheEnd
    BY DEF IInv, PageInv, Known, PageIsToldTheEnd, Settled, Ends
  <1> QED BY <1>1, Invariance, PTL
=============================================================================
