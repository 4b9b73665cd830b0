------------------------------ MODULE AimProofs ------------------------------
(***************************************************************************)
(* Proofs about Aim.  Requests share nothing, so the invariant is one of a *)
(* single request: Sound(k, o, s) of its state k, its outcome o and the    *)
(* answers s it got.  Quota says how far the corrections left pay for the  *)
(* asks still possible, Judged how the verdict depends on how many answers *)
(* there were, and Accounts is the promise's own condition, kept from the  *)
(* first answer on and not only when the request is closed.                *)
(***************************************************************************)
EXTENDS Aim, TLAPS

Corrections(kind) == IF kind = "aim" THEN Retries ELSE 0

Quota(k) ==
  /\ k.left <= Corrections(k.kind)
  /\ ~k.again => k.asks <= 2 * (Corrections(k.kind) - k.left) + 1
  /\ k.again => k.asks <= 2 * (Corrections(k.kind) - k.left) + 2
  /\ k.kind = "step" => ~k.again /\ k.at # "queued"
  /\ k.at = "queued" => ~k.again

Judged(k, s) ==
  /\ k.first => s = << >> /\ k.got = None /\ k.left = Corrections(k.kind)
  /\ ~k.first => Len(s) >= 1
  /\ k.settled => Len(s) < 2

OnBeam(k, o, s) ==
  /\ k.kind = "aim" /\ k.half # None /\ Retries > 0
  /\ o.settled /\ o.got # None /\ Apart(o.got, k.target.az) > k.half
  => Len(s) = 2 /\ s[2].az = None

Outcomes == [settled : BOOLEAN, got : Bearing \cup {None}]

Sound(k, o, s) ==
  /\ o \in Outcomes \cup {None}
  /\ s \in Seq(Answer)
  /\ k = Idle => s = << >>
  /\ k # Idle =>
       /\ k \in Live
       /\ Quota(k)
       /\ k.at # "done" => o = None /\ Judged(k, s)
                           /\ Promise!Accounts(s, Outcome(k.settled, k.got))
       /\ k.at = "done" => o # None /\ OnBeam(k, o, s)

IInv ==
  /\ call = [c \in Call |-> call[c]]
  /\ outcome = [c \in Call |-> outcome[c]]
  /\ heard = [c \in Call |-> heard[c]]
  /\ \A c \in Call : Sound(call[c], outcome[c], heard[c])

-----------------------------------------------------------------------------
(* Bearings.                                                                *)

LEMMA BearingIsInt ==
  /\ Bearing \subseteq Int /\ None \notin Bearing
  /\ \A a \in Bearing : a % N = a
  /\ \A a \in 0 .. N : a % N \in Bearing
  <1>1. N \in Nat \ {0}
    BY CompassAssumption
  <1>2. Bearing \subseteq Int /\ None \notin Bearing
    BY <1>1, NullAssumption DEF Bearing
  <1>3. \A a \in 0 .. N - 1 : a % N = a
    BY <1>1
  <1>4. \A a \in 0 .. N : a % N \in 0 .. N - 1
    BY <1>1
  <1> QED BY <1>2, <1>3, <1>4 DEF Bearing

LEMMA ApartIsInt ==
  ASSUME NEW a \in Bearing, NEW b \in Bearing
  PROVE  Apart(a, b) \in Int
  BY CompassAssumption DEF Apart, Abs, Bearing

LEMMA HalfIsInt ==
  ASSUME NEW h \in HalfBeam \cup {None}, h # None
  PROVE  h \in Int
  BY CompassAssumption

(* Whatever is decided is a target, and obeys a via that was given.         *)
LEMMA Decided ==
  ASSUME NEW n \in Node, NEW v \in Via, NEW place \in Place, NEW hop \in Hop,
         DecideAim(n, v, place, hop) # None
  PROVE  /\ DecideAim(n, v, place, hop) \in Target
         /\ Promise!Obeys(DecideAim(n, v, place, hop), v)
  <1>1. \A m \in Node : AtNode(m, place) # None =>
          AtNode(m, place) \in Target /\ AtNode(m, place).node = m
    BY DEF AtNode, Towards, Target, Place
  <1>2. CASE HasVia(v)
    <2>1. DecideAim(n, v, place, hop) = ViaTarget(v, place)
      BY <1>2 DEF DecideAim
    <2>2. ~(v.node # None /\ v.bearing # None)
      BY <2>1 DEF ViaTarget
    <2>3. CASE v.node = None
      <3>1. v.bearing \in 0 .. N
        BY <1>2, <2>3 DEF HasVia, Via
      <3>2. ViaTarget(v, place) = [az |-> v.bearing % N, node |-> None]
        BY <2>2, <2>3 DEF ViaTarget, Towards
      <3>3. v.bearing % N \in Bearing
        BY <3>1, BearingIsInt
      <3> QED BY <2>1, <2>3, <3>2, <3>3 DEF Target, Promise!Obeys
    <2>4. CASE v.node # None
      <3>1. ViaTarget(v, place) = AtNode(v.node, place) /\ v.node \in Node /\ v.bearing = None
        BY <2>2, <2>4 DEF ViaTarget, Via
      <3> QED BY <1>1, <2>1, <3>1 DEF Promise!Obeys
    <2> QED BY <2>3, <2>4
  <1>3. CASE ~HasVia(v)
    <2>1. DecideAim(n, v, place, hop) = Derived(n, place, hop)
      BY <1>3 DEF DecideAim
    <2>2. Relay(n, hop) \in Node \cup {None}
      BY DEF Relay, Hop
    <2>3. Derived(n, place, hop) \in Target
      BY <1>1, <2>1, <2>2 DEF Derived
    <2> QED BY <1>3, <2>1, <2>3 DEF Promise!Obeys, Promise!Insists, HasVia
  <1> QED BY <1>2, <1>3

-----------------------------------------------------------------------------
(* The fields of a request, through each of its steps.                      *)

LEMMA LiveIsNotIdle ==
  ASSUME NEW k \in Live
  PROVE  k # Idle
  BY DEF Live, Idle

LEMMA AskedSound ==
  ASSUME NEW kind \in Kind, NEW v \in Via, NEW t \in Target, NEW half \in HalfBeam \cup {None}
  PROVE  /\ Asked(kind, v, t, half) \in Live
         /\ Sound(Asked(kind, v, t, half), None, << >>)
  <1> DEFINE k == Asked(kind, v, t, half)
  <1>0. Retries \in Nat
    BY CompassAssumption
  <1>1. /\ k.at = "asked" /\ k.kind = kind /\ k.left = Corrections(kind) /\ k.asks = 1
        /\ ~k.again /\ k.first /\ ~k.settled /\ k.got = None
    BY DEF Asked, Corrections
  <1>2. k \in Live
    BY <1>0 DEF Asked, Live
  <1>3. Corrections(kind) \in Nat
    BY <1>0 DEF Corrections
  <1>4. Promise!Accounts(<< >>, Outcome(FALSE, None))
    BY DEF Promise!Accounts, Promise!Carriers, Outcome
  <1> HIDE DEF k
  <1>5. Quota(k) /\ Judged(k, << >>)
    BY <1>1, <1>3 DEF Quota, Judged
  <1>6. Outcome(k.settled, k.got) = Outcome(FALSE, None)
    BY <1>1, <1>2 DEF Live
  <1>7. Sound(k, None, << >>)
    <2>1. << >> \in Seq(Answer)
      OBVIOUS
    <2>2. k # Idle
      BY <1>2, LiveIsNotIdle
    <2>3. Promise!Accounts(<< >>, Outcome(k.settled, k.got))
      BY <1>4, <1>6
    <2> QED BY <1>1, <1>2, <1>5, <2>1, <2>2, <2>3 DEF Sound
  <1> QED BY <1>2, <1>7 DEF k

LEMMA QueueSound ==
  ASSUME NEW k \in Live, NEW o, NEW s, Sound(k, o, s), k.at = "asked",
         NEW a \in Answer, Queues(k, a)
  PROVE  Sound([k EXCEPT !.at = "queued"], o, s)
  <1> DEFINE r == [k EXCEPT !.at = "queued"]
  <1>1. r \in Live
    BY DEF Live
  <1>2. /\ r.at = "queued" /\ r.kind = k.kind /\ r.left = k.left /\ r.asks = k.asks
        /\ r.again = k.again /\ r.first = k.first /\ r.settled = k.settled /\ r.got = k.got
    BY DEF Live
  <1>3. /\ Quota(k) /\ o = None /\ Judged(k, s) /\ s \in Seq(Answer)
        /\ Promise!Accounts(s, Outcome(k.settled, k.got))
    BY LiveIsNotIdle DEF Sound
  <1> HIDE DEF r
  <1>4. Quota(r) /\ Judged(r, s)
    BY <1>2, <1>3 DEF Quota, Judged, Queues
  <1>5. Sound(r, o, s)
    BY <1>1, <1>2, <1>3, <1>4, LiveIsNotIdle DEF Sound
  <1> QED BY <1>5 DEF r

LEMMA AskAgainSound ==
  ASSUME NEW k \in Live, NEW o, NEW s, Sound(k, o, s), k.at = "queued"
  PROVE  Sound([k EXCEPT !.at = "asked", !.again = TRUE, !.asks = k.asks + 1], o, s)
  <1> DEFINE r == [k EXCEPT !.at = "asked", !.again = TRUE, !.asks = k.asks + 1]
  <1>0. k.asks + 1 \in Nat \ {0}
    BY DEF Live
  <1>1. r \in Live
    BY <1>0 DEF Live
  <1>2. /\ r.at = "asked" /\ r.kind = k.kind /\ r.left = k.left /\ r.asks = k.asks + 1
        /\ r.again /\ r.first = k.first /\ r.settled = k.settled /\ r.got = k.got
    BY DEF Live
  <1>3. /\ Quota(k) /\ o = None /\ Judged(k, s) /\ s \in Seq(Answer)
        /\ Promise!Accounts(s, Outcome(k.settled, k.got))
    BY LiveIsNotIdle DEF Sound
  <1>4. k.asks \in Nat /\ k.left \in Nat /\ Corrections(k.kind) \in Nat
    BY CompassAssumption DEF Live, Corrections
  <1> HIDE DEF r
  <1>5. Quota(r) /\ Judged(r, s)
    BY <1>2, <1>3, <1>4 DEF Quota, Judged
  <1>6. Sound(r, o, s)
    BY <1>1, <1>2, <1>3, <1>5, LiveIsNotIdle DEF Sound
  <1> QED BY <1>6 DEF r

LEMMA AnswerParts ==
  ASSUME NEW a \in Answer
  PROVE  a.ok \in BOOLEAN /\ a.busy \in BOOLEAN /\ a.az \in Bearing \cup {None} /\ (a.busy => ~a.ok)
  BY DEF Answer

LEMMA DeliveredParts ==
  ASSUME NEW k \in Live, NEW a \in Answer
  PROVE  /\ Delivered(k, a) \in Live
         /\ Delivered(k, a) = [k EXCEPT !.first = FALSE, !.settled = Settled(k, a), !.got = Got(k, a)]
         /\ Settled(k, a) \in BOOLEAN /\ Got(k, a) \in Bearing \cup {None}
  <1>1. Settled(k, a) \in BOOLEAN
    BY AnswerParts DEF Settled, Live
  <1>2. Got(k, a) \in Bearing \cup {None}
    BY AnswerParts DEF Got, Live
  <1>3. PICK x \in BOOLEAN : x = Settled(k, a)
    BY <1>1
  <1>4. PICK y \in Bearing \cup {None} : y = Got(k, a)
    BY <1>2
  <1>5. Delivered(k, a) = [k EXCEPT !.first = FALSE, !.settled = x, !.got = y]
    BY <1>3, <1>4 DEF Delivered
  <1>6. [k EXCEPT !.first = FALSE, !.settled = x, !.got = y] \in Live
    BY DEF Live
  <1> QED BY <1>1, <1>2, <1>3, <1>4, <1>5, <1>6

LEMMA DeliveredFields ==
  ASSUME NEW k \in Live, NEW a \in Answer
  PROVE  LET r == Delivered(k, a) IN
         /\ r.at = k.at /\ r.kind = k.kind /\ r.via = k.via /\ r.target = k.target
         /\ r.half = k.half /\ r.again = k.again /\ r.asks = k.asks /\ r.left = k.left
         /\ ~r.first /\ r.settled = Settled(k, a) /\ r.got = Got(k, a)
  <1>1. PICK x \in BOOLEAN : x = Settled(k, a)
    BY DeliveredParts
  <1>2. PICK y \in Bearing \cup {None} : y = Got(k, a)
    BY DeliveredParts
  <1>3. Delivered(k, a) = [k EXCEPT !.first = FALSE, !.settled = x, !.got = y]
    BY <1>1, <1>2 DEF Delivered
  <1> QED BY <1>1, <1>2, <1>3 DEF Live

(* One more answer: the verdict and the bearing it leads to are accounted   *)
(* for by the answers up to and including it.                               *)
LEMMA OneMoreAnswer ==
  ASSUME NEW k \in Live, NEW s \in Seq(Answer), NEW a \in Answer,
         Promise!Accounts(s, Outcome(k.settled, k.got))
  PROVE  Promise!Accounts(Append(s, a), Outcome(Settled(k, a), Got(k, a)))
  <1> DEFINE t == Append(s, a)
             n == Len(s) + 1
  <1>1. /\ t \in Seq(Answer) /\ Len(s) \in Nat /\ DOMAIN s = 1 .. Len(s) /\ DOMAIN t = 1 .. n
        /\ t[n] = a /\ \A i \in DOMAIN s : t[i] = s[i]
    OBVIOUS
  <1>2. /\ k.settled => \E i \in DOMAIN s : s[i].ok
        /\ k.got = None => \A i \in DOMAIN s : s[i].az = None
        /\ k.got # None => \E i \in DOMAIN s : s[i].az # None /\ k.got = s[i].az
                             /\ \A j \in DOMAIN s : s[j].az # None => j <= i
    BY DEF Promise!Accounts, Promise!Carriers, Outcome
  <1> HIDE DEF t
  <1>3. Settled(k, a) => \E i \in DOMAIN t : t[i].ok
    <2>1. CASE a.ok
      BY <1>1, <2>1
    <2>2. CASE ~a.ok
      BY <1>1, <1>2, <2>2 DEF Settled
    <2> QED BY <2>1, <2>2
  <1>4. Got(k, a) = None => \A i \in DOMAIN t : t[i].az = None
    BY <1>1, <1>2 DEF Got
  <1>5. Got(k, a) # None => \E i \in DOMAIN t : t[i].az # None /\ Got(k, a) = t[i].az
                              /\ \A j \in DOMAIN t : t[j].az # None => j <= i
    <2>1. CASE a.az # None
      BY <1>1, <2>1 DEF Got
    <2>2. CASE a.az = None
      <3>1. Got(k, a) = k.got
        BY <2>2 DEF Got
      <3> QED BY <1>1, <1>2, <2>2, <3>1
    <2> QED BY <2>1, <2>2
  <1>6. Outcome(Settled(k, a), Got(k, a)).settled = Settled(k, a)
        /\ Outcome(Settled(k, a), Got(k, a)).got = Got(k, a)
    BY DEF Outcome
  <1> QED BY <1>3, <1>4, <1>5, <1>6 DEF Promise!Accounts, Promise!Carriers, t

Corrected(k, a) ==
  [Delivered(k, a) EXCEPT !.left = k.left - 1, !.again = FALSE, !.asks = k.asks + 1]

LEMMA CorrectSound ==
  ASSUME NEW k \in Live, NEW o, NEW s, Sound(k, o, s), k.at = "asked",
         NEW a \in Answer, Missed(k, a)
  PROVE  /\ Sound(Corrected(k, a), o, Append(s, a))
         /\ Corrected(k, a).via = k.via /\ Corrected(k, a).target = k.target
  <1> DEFINE d == Delivered(k, a)
             r == Corrected(k, a)
  <1>1. /\ Quota(k) /\ o = None /\ Judged(k, s) /\ s \in Seq(Answer)
        /\ Promise!Accounts(s, Outcome(k.settled, k.got))
    BY LiveIsNotIdle DEF Sound
  <1>2. /\ k.asks \in Nat /\ k.left \in Nat /\ k.left > 0 /\ Corrections(k.kind) \in Nat
        /\ k.left - 1 \in 0 .. Retries /\ k.asks + 1 \in Nat \ {0}
    BY CompassAssumption DEF Live, Corrections, Missed
  <1>3. /\ d \in Live /\ d.at = k.at /\ d.kind = k.kind /\ d.via = k.via /\ d.target = k.target
        /\ ~d.first /\ d.settled = Settled(k, a) /\ d.got = Got(k, a)
    BY DeliveredParts, DeliveredFields
  <1> HIDE DEF d
  <1>4. r = [d EXCEPT !.left = k.left - 1, !.again = FALSE, !.asks = k.asks + 1]
    BY DEF Corrected, d
  <1> HIDE DEF r
  <1>5. /\ r \in Live /\ r.at = d.at /\ r.kind = d.kind /\ r.via = d.via /\ r.target = d.target
        /\ r.first = d.first /\ r.settled = d.settled /\ r.got = d.got
        /\ r.left = k.left - 1 /\ ~r.again /\ r.asks = k.asks + 1
    BY <1>2, <1>3, <1>4 DEF Live
  <1>6. Quota(r)
    <2>1. k.left <= Corrections(k.kind) /\ k.asks <= 2 * (Corrections(k.kind) - k.left) + 2
      BY <1>1, <1>2 DEF Quota
    <2>2. r.left <= Corrections(k.kind) /\ r.asks <= 2 * (Corrections(k.kind) - r.left) + 1
      BY <1>2, <1>5, <2>1
    <2>3. r.kind = k.kind /\ r.at = "asked" /\ ~r.again
      BY <1>3, <1>5
    <2> QED BY <2>2, <2>3 DEF Quota
  <1>7. Len(Append(s, a)) = Len(s) + 1 /\ Append(s, a) \in Seq(Answer) /\ Len(s) \in Nat
    BY <1>1
  <1>8. ~k.first => ~Settled(k, a)
    <2> SUFFICES ASSUME ~k.first PROVE ~Settled(k, a)
      OBVIOUS
    <2>1. a.az # None /\ k.half # None /\ Apart(a.az, k.target.az) > k.half
      BY DEF Missed
    <2>2. a.az \in Bearing /\ k.target.az \in Bearing /\ k.half \in HalfBeam \cup {None}
      BY <2>1, AnswerParts DEF Live, Target
    <2>3. ~(Apart(a.az, k.target.az) <= k.half)
      BY <2>1, <2>2, ApartIsInt, HalfIsInt
    <2> QED BY <2>1, <2>3 DEF Settled
  <1>9. Judged(r, Append(s, a))
    BY <1>1, <1>3, <1>5, <1>7, <1>8 DEF Judged
  <1>10. Promise!Accounts(Append(s, a), Outcome(r.settled, r.got))
    BY <1>1, <1>3, <1>5, OneMoreAnswer
  <1>11. Sound(r, o, Append(s, a))
    BY <1>1, <1>3, <1>5, <1>6, <1>7, <1>9, <1>10, LiveIsNotIdle DEF Sound
  <1> QED BY <1>3, <1>5, <1>11 DEF r

LEMMA OnlyOne ==
  ASSUME NEW n \in Nat, n >= 1, n < 2
  PROVE  n = 1
  OBVIOUS

LEMMA FinishSound ==
  ASSUME NEW k \in Live, NEW o, NEW s, Sound(k, o, s), k.at = "asked",
         NEW a \in Answer, ~Missed(k, a)
  PROVE  LET r == [Delivered(k, a) EXCEPT !.at = "done"]
             e == Outcome(Delivered(k, a).settled, Delivered(k, a).got)
         IN  /\ Sound(r, e, Append(s, a))
             /\ e \in Outcomes /\ Promise!Accounts(Append(s, a), e)
             /\ r.via = k.via /\ r.target = k.target /\ r # Idle
  <1> DEFINE d == Delivered(k, a)
             r == [d EXCEPT !.at = "done"]
             e == Outcome(d.settled, d.got)
  <1>1. /\ Quota(k) /\ Judged(k, s) /\ s \in Seq(Answer)
        /\ Promise!Accounts(s, Outcome(k.settled, k.got))
    BY LiveIsNotIdle DEF Sound
  <1>2. /\ d \in Live /\ d.at = k.at /\ d.kind = k.kind /\ d.via = k.via /\ d.target = k.target
        /\ d.half = k.half /\ d.again = k.again /\ d.asks = k.asks /\ d.left = k.left
        /\ d.settled = Settled(k, a) /\ d.got = Got(k, a)
        /\ Settled(k, a) \in BOOLEAN /\ Got(k, a) \in Bearing \cup {None}
    BY DeliveredParts, DeliveredFields
  <1> HIDE DEF d
  <1>3. /\ r \in Live /\ r.at = "done" /\ r.kind = d.kind /\ r.via = d.via /\ r.target = d.target
        /\ r.half = d.half /\ r.again = d.again /\ r.asks = d.asks /\ r.left = d.left
    BY <1>2 DEF Live
  <1>4. e \in Outcomes /\ e.settled = Settled(k, a) /\ e.got = Got(k, a)
    BY <1>2 DEF Outcome, Outcomes
  <1>5. Promise!Accounts(Append(s, a), e)
    BY <1>1, <1>2, OneMoreAnswer
  <1> HIDE DEF r, e
  <1>6. Quota(r)
    BY <1>1, <1>2, <1>3 DEF Quota
  <1>7. e # None
    BY <1>4, RecordAssumption DEF Outcomes
  <1>8. Append(s, a) \in Seq(Answer) /\ Len(Append(s, a)) = Len(s) + 1 /\ Len(s) \in Nat
        /\ Append(s, a)[Len(s) + 1] = a
    BY <1>1
  <1>9. OnBeam(r, e, Append(s, a))
    <2> SUFFICES ASSUME k.kind = "aim", k.half # None, Retries > 0, Settled(k, a),
                        Got(k, a) # None, Apart(Got(k, a), k.target.az) > k.half
                 PROVE  Len(s) = 1 /\ a.az = None
      <3>1. Len(s) = 1 /\ a.az = None => Len(Append(s, a)) = 2 /\ Append(s, a)[2].az = None
        BY <1>8
      <3>2. r.kind = k.kind /\ r.half = k.half /\ r.target.az = k.target.az
        BY <1>2, <1>3
      <3> QED BY <1>4, <3>1, <3>2 DEF OnBeam
    <2>1. k.target.az \in Bearing /\ k.half \in HalfBeam \cup {None}
      BY DEF Live, Target
    <2>2. ASSUME a.az # None PROVE FALSE
      <3>1. Got(k, a) = a.az /\ a.az \in Bearing
        BY <2>2, AnswerParts DEF Got
      <3>2. ~(Apart(a.az, k.target.az) <= k.half)
        BY <2>1, <3>1, ApartIsInt, HalfIsInt
      <3>3. CASE k.first
        <4>1. a.ok /\ k.left = Retries
          BY <1>1, <3>3 DEF Settled, Judged, Corrections
        <4>2. ~a.busy
          BY <4>1, AnswerParts
        <4> QED BY <2>2, <3>1, <4>1, <4>2 DEF Missed
      <3>4. CASE ~k.first
        BY <2>2, <3>2, <3>4 DEF Settled
      <3> QED BY <3>3, <3>4
    <2>3. ~k.first
      BY <1>1, <2>2 DEF Got, Judged
    <2>4. k.settled
      BY <2>2, <2>3 DEF Settled
    <2>5. Len(s) >= 1 /\ Len(s) < 2
      BY <1>1, <2>3, <2>4 DEF Judged
    <2>6. Len(s) = 1
      BY <1>8, <2>5, OnlyOne
    <2> QED BY <2>2, <2>6
  <1>10. Sound(r, e, Append(s, a))
    BY <1>3, <1>4, <1>6, <1>7, <1>8, <1>9, LiveIsNotIdle DEF Sound
  <1> QED BY <1>2, <1>3, <1>4, <1>5, <1>10, LiveIsNotIdle DEF d, r, e

-----------------------------------------------------------------------------
(* A step changes the request it is about, and of the promise the same one. *)

LEMMA OneCallChanges ==
  ASSUME IInv, NEW c \in Call, NEW k, NEW o, NEW s,
         call' = [call EXCEPT ![c] = k],
         outcome' = [outcome EXCEPT ![c] = o],
         heard' = [heard EXCEPT ![c] = s],
         Sound(k, o, s)
  PROVE  IInv'
  <1>1. /\ call' = [d \in Call |-> IF d = c THEN k ELSE call[d]]
        /\ outcome' = [d \in Call |-> IF d = c THEN o ELSE outcome[d]]
        /\ heard' = [d \in Call |-> IF d = c THEN s ELSE heard[d]]
    BY DEF IInv
  <1>2. /\ call' = [d \in Call |-> call'[d]]
        /\ outcome' = [d \in Call |-> outcome'[d]]
        /\ heard' = [d \in Call |-> heard'[d]]
    BY <1>1
  <1>3. \A d \in Call : Sound(call'[d], outcome'[d], heard'[d])
    BY <1>1 DEF IInv
  <1> QED BY <1>2, <1>3 DEF IInv

LEMMA AimedChanges ==
  ASSUME IInv, NEW c \in Call, NEW k, call' = [call EXCEPT ![c] = k]
  PROVE  /\ k # Idle => Aimed' = [Aimed EXCEPT ![c] = [via |-> k.via, target |-> k.target]]
         /\ k # Idle /\ call[c] # Idle /\ k.via = call[c].via /\ k.target = call[c].target
              => Aimed' = Aimed
  <1>1. call' = [d \in Call |-> IF d = c THEN k ELSE call[d]]
    BY DEF IInv
  <1>2. Aimed' = [d \in Call |-> IF call'[d] = Idle THEN None
                                 ELSE [via |-> call'[d].via, target |-> call'[d].target]]
    BY DEF Aimed
  <1>3. ASSUME k # Idle
        PROVE  Aimed' = [d \in Call |-> IF d = c THEN [via |-> k.via, target |-> k.target]
                                        ELSE Aimed[d]]
    BY <1>1, <1>2, <1>3 DEF Aimed
  <1>4. Aimed = [d \in Call |-> Aimed[d]]
    BY DEF Aimed
  <1>5. ASSUME k # Idle
        PROVE  Aimed' = [Aimed EXCEPT ![c] = [via |-> k.via, target |-> k.target]]
    BY <1>3, <1>4, <1>5
  <1>6. ASSUME k # Idle, call[c] # Idle, k.via = call[c].via, k.target = call[c].target
        PROVE  Aimed' = Aimed
    <2>1. Aimed[c] = [via |-> k.via, target |-> k.target]
      BY <1>6 DEF Aimed
    <2> QED BY <1>3, <1>4, <1>6, <2>1
  <1> QED BY <1>5, <1>6

PromiseStep == [Promise!Next]_<<Aimed, heard, outcome>>

LEMMA RequestStep ==
  ASSUME IInv, NEW c \in Call, NEW kind \in Kind, NEW v \in Via, NEW t \in Target \cup {None},
         NEW half \in HalfBeam \cup {None}, call[c] = Idle, outcome[c] = None,
         t # None => t \in Target /\ Promise!Obeys(t, v),
         Request(c, kind, v, t, half)
  PROVE  IInv' /\ PromiseStep
  <1>1. heard[c] = << >> /\ heard' = heard /\ Aimed[c] = None
    BY DEF IInv, Sound, Request, Aimed
  <1>2. CASE t = None
    <2>1. outcome' = [outcome EXCEPT ![c] = Outcome(FALSE, None)] /\ call' = call
      BY <1>2 DEF Request
    <2>2. Outcome(FALSE, None) \in Outcomes /\ << >> \in Seq(Answer)
          /\ Idle.at # "done"
      BY DEF Outcome, Outcomes, Idle
    <2>3. Sound(Idle, Outcome(FALSE, None), << >>)
      BY <2>2 DEF Sound
    <2>4. call' = [call EXCEPT ![c] = Idle] /\ heard' = [heard EXCEPT ![c] = << >>]
      BY <1>1, <2>1 DEF IInv
    <2>5. IInv'
      BY <2>1, <2>3, <2>4, OneCallChanges
    <2>6. outcome'[c] = Outcome(FALSE, None) /\ outcome'[c] # None
      BY <2>1, <2>2, RecordAssumption DEF IInv, Outcomes
    <2>7. Promise!Accounts(heard'[c], outcome'[c])
      BY <1>1, <2>6 DEF Promise!Accounts, Promise!Carriers, Outcome
    <2>8. Promise!Close(c)
      BY <2>1, <2>6, <2>7 DEF Promise!Close
    <2>9. Aimed' = Aimed
      BY <2>1 DEF Aimed
    <2>10. Promise!Refuse(c)
      BY <1>1, <2>8, <2>9 DEF Promise!Refuse
    <2> QED BY <2>5, <2>10 DEF PromiseStep, Promise!Next
  <1>3. CASE t # None
    <2> DEFINE k == Asked(kind, v, t, half)
    <2>1. call' = [call EXCEPT ![c] = k] /\ outcome' = outcome
      BY <1>3 DEF Request
    <2>2. k \in Live /\ Sound(k, None, << >>)
      BY <1>3, AskedSound
    <2>3. outcome' = [outcome EXCEPT ![c] = None] /\ heard' = [heard EXCEPT ![c] = << >>]
      BY <1>1, <2>1 DEF IInv
    <2>4. k.via = v /\ k.target = t
      BY DEF Asked
    <2> HIDE DEF k
    <2>5. IInv'
      BY <2>1, <2>2, <2>3, OneCallChanges
    <2>6. Aimed' = [Aimed EXCEPT ![c] = [via |-> v, target |-> t]]
      BY <2>1, <2>2, <2>4, AimedChanges, LiveIsNotIdle
    <2>7. Promise!Begin(c)
      BY <1>1, <1>3, <2>1, <2>6 DEF Promise!Begin
    <2> QED BY <2>5, <2>7 DEF PromiseStep, Promise!Next
  <1> QED BY <1>2, <1>3

LEMMA CallersStep ==
  ASSUME IInv, NEW c \in Call, Callers(c)
  PROVE  IInv' /\ PromiseStep
  <1>0. call[c] = Idle /\ outcome[c] = None
    BY DEF Callers
  <1>1. ASSUME NEW n \in Node, NEW v \in Via, NEW half \in HalfBeam, NEW steerable \in BOOLEAN,
               AimForNode(c, n, v, half, steerable)
        PROVE  IInv' /\ PromiseStep
    <2>1. PICK place \in Place, hop \in Hop :
            Request(c, "aim", v, IF steerable THEN DecideAim(n, v, place, hop) ELSE None, half)
      BY <1>1 DEF AimForNode
    <2>2. PICK t : t = IF steerable THEN DecideAim(n, v, place, hop) ELSE None
      OBVIOUS
    <2>3. t # None => t \in Target /\ Promise!Obeys(t, v)
      BY <2>2, Decided
    <2>4. Request(c, "aim", v, t, half)
      BY <2>1, <2>2
    <2> QED BY <1>0, <2>3, <2>4, RequestStep DEF Kind
  <1>2. ASSUME NEW kind \in {"verb", "step"}, NEW az \in Bearing, Point(c, kind, az)
        PROVE  IInv' /\ PromiseStep
    <2> DEFINE v == [node |-> None, bearing |-> az]
               t == Towards(az, None)
    <2>1. Request(c, kind, v, t, None)
      BY <1>2 DEF Point
    <2>2. v \in Via /\ t \in Target
      BY CompassAssumption DEF Via, Target, Towards, Bearing
    <2>3. Promise!Obeys(t, v)
      BY BearingIsInt DEF Promise!Obeys, Towards
    <2> HIDE DEF v, t
    <2> QED BY <1>0, <2>1, <2>2, <2>3, RequestStep DEF Kind
  <1> QED BY <1>0, <1>1, <1>2 DEF Callers

LEMMA AskedIsLive ==
  ASSUME IInv, NEW c \in Call, call[c].at \in {"asked", "queued"}
  PROVE  /\ call[c] \in Live /\ call[c] # Idle /\ outcome[c] = None
         /\ Sound(call[c], outcome[c], heard[c])
         /\ heard[c] \in Seq(Answer) /\ Aimed[c] # None
  <1>1. call[c] # Idle
    BY DEF Idle
  <1>2. Sound(call[c], outcome[c], heard[c])
    BY DEF IInv
  <1>3. call[c] \in Live /\ outcome[c] = None /\ heard[c] \in Seq(Answer)
    BY <1>1, <1>2 DEF Sound
  <1>4. [via |-> call[c].via, target |-> call[c].target] \in [via : Via, target : Target]
    BY <1>3 DEF Live
  <1>5. Aimed[c] # None
    BY <1>1, <1>4, RecordAssumption DEF Aimed
  <1> QED BY <1>1, <1>2, <1>3, <1>5

LEMMA AnswersStep ==
  ASSUME IInv, NEW c \in Call, Answers(c)
  PROVE  IInv' /\ PromiseStep
  <1>1. call[c].at = "asked" /\ \E a \in Answer : Queue(c, a) \/ Correct(c, a) \/ Finish(c, a)
    BY DEF Answers
  <1>2. PICK a \in Answer : Queue(c, a) \/ Correct(c, a) \/ Finish(c, a)
    BY <1>1
  <1>3. PICK k \in Live : k = call[c]
    BY <1>1, AskedIsLive
  <1>4. /\ k # Idle /\ outcome[c] = None /\ Sound(k, None, heard[c]) /\ k.at = "asked"
        /\ heard[c] \in Seq(Answer) /\ Aimed[c] # None
    BY <1>1, <1>3, AskedIsLive
  <1>5. /\ outcome = [outcome EXCEPT ![c] = None]
        /\ heard = [heard EXCEPT ![c] = heard[c]]
    BY <1>4 DEF IInv
  <1>6. CASE Queue(c, a)
    <2> DEFINE r == [k EXCEPT !.at = "queued"]
    <2>1. Queues(k, a) /\ call' = [call EXCEPT ![c] = r] /\ outcome' = outcome /\ heard' = heard
      BY <1>3, <1>6 DEF Queue
    <2>2. Sound(r, None, heard[c])
      BY <1>4, <2>1, QueueSound
    <2>3. r.via = k.via /\ r.target = k.target /\ r # Idle
      BY DEF Live, Idle
    <2> HIDE DEF r
    <2>4. IInv'
      BY <1>5, <2>1, <2>2, OneCallChanges
    <2>5. Aimed' = Aimed
      BY <1>3, <1>4, <2>1, <2>3, AimedChanges
    <2> QED BY <2>1, <2>4, <2>5 DEF PromiseStep
  <1>7. CASE Correct(c, a)
    <2> DEFINE r == Corrected(k, a)
    <2>1. /\ Missed(k, a) /\ call' = [call EXCEPT ![c] = r] /\ outcome' = outcome
          /\ heard' = [heard EXCEPT ![c] = Append(heard[c], a)]
      BY <1>3, <1>7 DEF Correct, Corrected
    <2>2. Sound(r, None, Append(heard[c], a)) /\ r.via = k.via /\ r.target = k.target
      BY <1>4, <2>1, CorrectSound
    <2>3. Append(heard[c], a) # << >>
      BY <1>4
    <2>4. r # Idle
      BY <2>2, <2>3 DEF Sound
    <2> HIDE DEF r
    <2>5. IInv'
      BY <1>5, <2>1, <2>2, OneCallChanges
    <2>6. Aimed' = Aimed
      BY <1>3, <1>4, <2>1, <2>2, <2>4, AimedChanges
    <2>7. Promise!Hear(c)
      BY <1>4, <2>1, <2>6 DEF Promise!Hear
    <2> QED BY <2>5, <2>7 DEF PromiseStep, Promise!Next
  <1>8. CASE Finish(c, a)
    <2> DEFINE r == [Delivered(k, a) EXCEPT !.at = "done"]
               e == Outcome(Delivered(k, a).settled, Delivered(k, a).got)
    <2>1. /\ ~Missed(k, a) /\ call' = [call EXCEPT ![c] = r] /\ outcome' = [outcome EXCEPT ![c] = e]
          /\ heard' = [heard EXCEPT ![c] = Append(heard[c], a)]
      BY <1>3, <1>8 DEF Finish
    <2>2. /\ Sound(r, e, Append(heard[c], a))
          /\ e \in Outcomes /\ Promise!Accounts(Append(heard[c], a), e)
          /\ r.via = k.via /\ r.target = k.target /\ r # Idle
      BY <1>4, <2>1, FinishSound
    <2> HIDE DEF r, e
    <2>3. IInv'
      BY <2>1, <2>2, OneCallChanges
    <2>4. Aimed' = Aimed
      BY <1>3, <1>4, <2>1, <2>2, AimedChanges
    <2>5. outcome'[c] = e /\ e # None /\ heard'[c] = Append(heard[c], a)
      BY <2>1, <2>2, RecordAssumption DEF Outcomes, IInv
    <2>6. Promise!Close(c)
      BY <2>1, <2>2, <2>5 DEF Promise!Close
    <2>7. Promise!Hear(c)
      BY <1>4, <2>1, <2>4, <2>6 DEF Promise!Hear
    <2> QED BY <2>3, <2>7 DEF PromiseStep, Promise!Next
  <1> QED BY <1>2, <1>6, <1>7, <1>8

LEMMA AskAgainStep ==
  ASSUME IInv, NEW c \in Call, AskAgain(c)
  PROVE  IInv' /\ PromiseStep
  <1>1. call[c].at = "queued" /\ outcome' = outcome /\ heard' = heard
    BY DEF AskAgain
  <1>2. PICK k \in Live : k = call[c]
    BY <1>1, AskedIsLive
  <1>3. k # Idle /\ outcome[c] = None /\ Sound(k, None, heard[c])
    BY <1>1, <1>2, AskedIsLive
  <1> DEFINE r == [k EXCEPT !.at = "asked", !.again = TRUE, !.asks = k.asks + 1]
  <1>4. call' = [call EXCEPT ![c] = r]
    BY <1>2 DEF AskAgain, IInv
  <1>5. r.via = k.via /\ r.target = k.target /\ r # Idle
    BY DEF Live, Idle
  <1>6. Sound(r, None, heard[c])
    BY <1>1, <1>2, <1>3, AskAgainSound
  <1>7. /\ outcome' = [outcome EXCEPT ![c] = None]
        /\ heard' = [heard EXCEPT ![c] = heard[c]]
    BY <1>1, <1>3 DEF IInv
  <1> HIDE DEF r
  <1>8. IInv'
    BY <1>4, <1>6, <1>7, OneCallChanges
  <1>9. Aimed' = Aimed
    BY <1>2, <1>3, <1>4, <1>5, AimedChanges
  <1> QED BY <1>1, <1>8, <1>9 DEF PromiseStep

-----------------------------------------------------------------------------
LEMMA InvInit == Init => IInv /\ Promise!Init
  <1> SUFFICES ASSUME Init PROVE IInv /\ Promise!Init
    OBVIOUS
  <1>1. /\ call = [c \in Call |-> Idle] /\ outcome = [c \in Call |-> None]
        /\ heard = [c \in Call |-> << >>]
    BY DEF Init
  <1>2. << >> \in Seq(Answer)
    OBVIOUS
  <1>3. Sound(Idle, None, << >>)
    BY <1>2 DEF Sound
  <1>4. IInv
    BY <1>1, <1>3 DEF IInv
  <1>5. Aimed = [c \in Call |-> None]
    BY <1>1 DEF Aimed
  <1> QED BY <1>1, <1>4, <1>5 DEF Promise!Init

LEMMA InvStep == IInv /\ [Next]_vars => IInv' /\ PromiseStep
  <1> SUFFICES ASSUME IInv, [Next]_vars PROVE IInv' /\ PromiseStep
    OBVIOUS
  <1>1. CASE UNCHANGED vars
    BY <1>1 DEF vars, IInv, PromiseStep, Aimed
  <1>2. CASE Next
    BY <1>2, CallersStep, AnswersStep, AskAgainStep DEF Next
  <1> QED BY <1>1, <1>2

LEMMA SoundIsTyped ==
  ASSUME NEW k \in Live, Quota(k)
  PROVE  k.asks <= Limit(k.kind)
  <1>1. k.asks \in Nat /\ k.left \in Nat /\ k.kind \in Kind /\ Retries \in Nat
    BY CompassAssumption DEF Live
  <1>2. k.asks <= 2 * (Corrections(k.kind) - k.left) + 2 /\ Corrections(k.kind) \in Nat
    BY <1>1 DEF Quota, Corrections
  <1>3. CASE k.kind = "aim"
    BY <1>1, <1>2, <1>3 DEF Corrections, Limit
  <1>4. CASE k.kind = "verb"
    BY <1>1, <1>2, <1>4 DEF Corrections, Limit
  <1>5. CASE k.kind = "step"
    BY <1>1, <1>5 DEF Quota, Corrections, Limit
  <1> QED BY <1>1, <1>3, <1>4, <1>5 DEF Kind

LEMMA InvImplies ==
  ASSUME IInv
  PROVE  TypeOK /\ SettledOnBeam
  <1>1. \A c \in Call : Sound(call[c], outcome[c], heard[c])
    BY DEF IInv
  <1>2. outcome \in [Call -> Outcomes \cup {None}] /\ heard \in [Call -> Seq(Answer)]
        /\ DOMAIN call = Call
    BY <1>1 DEF IInv, Sound
  <1>3. ASSUME NEW c \in Call, call[c] # Idle
        PROVE  call[c] \in Live /\ call[c].asks <= Limit(call[c].kind)
    BY <1>1, <1>3, SoundIsTyped DEF Sound
  <1>4. TypeOK
    BY <1>2, <1>3 DEF TypeOK, Outcomes
  <1>5. ASSUME NEW c \in Call, call[c].at = "done"
        PROVE  OnBeam(call[c], outcome[c], heard[c])
    BY <1>1, <1>5 DEF Sound, Idle
  <1>6. SettledOnBeam
    BY <1>5 DEF SettledOnBeam, OnBeam
  <1> QED BY <1>4, <1>6

(* The strengthening holds throughout.                                      *)
THEOREM Invariance == Spec => []IInv
  <1> QED BY InvInit, InvStep, PTL DEF Spec

(* Every variable keeps to its type, and no request asks the shared rotator *)
(* more often than its caller may, however often it is told to wait.        *)
THEOREM TypeCorrect == Spec => []TypeOK
  <1>1. IInv => TypeOK
    BY InvImplies
  <1> QED BY <1>1, Invariance, PTL

(* An aim that counts as settled though the beam rests off the target is    *)
(* one whose only correction came back without a bearing.                   *)
THEOREM SettledIsOnBeam == Spec => []SettledOnBeam
  <1>1. IInv => SettledOnBeam
    BY InvImplies
  <1> QED BY <1>1, Invariance, PTL

(* Aim implements its promise: every request begins on what it was told to, *)
(* hears answers, and is closed once with a verdict they account for.       *)
THEOREM Refinement == Spec => KeepsPromise
  <1>1. Init => IInv /\ Promise!Init
    BY InvInit
  <1>2. IInv /\ [Next]_vars => IInv' /\ [Promise!Next]_<<Aimed, heard, outcome>>
    BY InvStep DEF PromiseStep
  <1> QED BY <1>1, <1>2, PTL DEF Spec, KeepsPromise, Promise!Spec
=============================================================================
