--------------------------- MODULE LiveFeedProofs ---------------------------
(***************************************************************************)
(* Proofs about LiveFeed: a page that got all that was sent to it shows    *)
(* what the server has.                                                    *)
(*                                                                         *)
(* What a page shows is cut into Parts.  A message writes some of them and *)
(* leaves the others alone (Writes); what it says of a part it writes is   *)
(* Says.  The strengthening speaks of one part at a time: of the messages  *)
(* on the way to a socket, the last one that writes a part says what the   *)
(* server has now (QueuesTell), and a part that none of them writes is     *)
(* shown as it is (PageTells).  The parts of a sweep hang together, for    *)
(* the page takes a contact only if it is better than the one it has:      *)
(* nothing sent since the sweep began promises more than the sweep found   *)
(* (QueuesFit, PageFits).                                                  *)
(***************************************************************************)
EXTENDS LiveFeed, TLAPS

-----------------------------------------------------------------------------
(* The shape of the messages and of the page.                               *)

Phase     == {None, "aiming", "dispatched", "over"}
RadioList == UNION {[D -> [state : {None, "offline", "ready"}, lora : Settings \cup {None}, mode : 0 .. Modes]]
                      : D \in SUBSET Radio}
RunList   == UNION {[D -> Phase] : D \in SUBSET Run}
Message   ==
  [topic : {"bridge"}, data : BOOLEAN] \cup [topic : {"radios"}, data : RadioList]
    \cup [topic : {"mode"}, data : 0 .. Modes] \cup [topic : {"nodes"}, data : Nat]
    \cup [topic : {"traces"}, data : RunList]
    \cup [topic : {"scan_start", "scan_end"}, data : {None}]
    \cup [topic : {"scan_progress"}, data : [az : Az \cup {None}, at : Az \cup {None}]]
    \cup [topic : {"scan_contact"}, data : [az : Az, snr : 1 .. Levels]]
    \cup [topic : {"replay"}, data : [bridge : BOOLEAN, radios : RadioList, mode : 0 .. Modes,
                                      scan : Sweep \cup {None}, nodes : Nat, runs : RunList]]

PageShape ==
  /\ DOMAIN page = {"live", "bridge", "radios", "mode", "nodes", "sweep", "trace"}
  /\ page.sweep \in [on : BOOLEAN, az : Az \cup {None}, at : Az \cup {None}, found : [Az -> 0 .. Levels]]
  /\ page.trace \in [Run -> Phase]
Shape == queue \in [Socket -> Seq(Message)] /\ PageShape

-----------------------------------------------------------------------------
(* The parts of what a page shows: one for each run, and one for what was   *)
(* found at each azimuth.                                                   *)
Part ==
  [of : {"bridge", "radios", "mode", "nodes", "on", "where"}, at : {None}]
    \cup [of : {"run"}, at : Run] \cup [of : {"found"}, at : Az]

(* It tells of a sweep from its beginning.                                  *)
Base(m) == m.topic = "scan_start" \/ (m.topic = "replay" /\ m.data.scan # None)

(* Message m makes the page forget what it showed of part f.                *)
Writes(m, f) ==
  \/ f.of \in {"bridge", "radios", "mode", "nodes"} /\ m.topic \in {f.of, "replay"}
  \/ f.of = "nodes" /\ m.topic = "scan_start"
  \/ f.of = "run" /\ m.topic = "traces" /\ f.at \in DOMAIN m.data
  \/ f.of = "run" /\ m.topic = "replay" /\ f.at \in DOMAIN m.data.runs
  \/ f.of \in {"base", "on", "where", "found"} /\ Base(m)
  \/ f.of \in {"on", "where"} /\ m.topic = "scan_end"
  \/ f.of = "where" /\ m.topic = "scan_progress"
  \/ f.of = "found" /\ m.topic = "scan_contact" /\ m.data.az = f.at

(* What a replay says of part f.                                            *)
Told(m, f) ==
  IF f.of = "bridge" THEN m.data.bridge
  ELSE IF f.of = "radios" THEN m.data.radios
  ELSE IF f.of = "mode" THEN m.data.mode
  ELSE IF f.of = "nodes" THEN m.data.nodes
  ELSE IF f.of = "run" THEN m.data.runs[f.at]
  ELSE IF f.of = "where" THEN <<m.data.scan.az, m.data.scan.at>>
  ELSE IF f.of = "found" THEN m.data.scan.found[f.at]
  ELSE TRUE

(* What any message says of a part it writes.                               *)
Says(m, f) ==
  IF m.topic = "replay" THEN Told(m, f)
  ELSE IF m.topic \in {"bridge", "radios", "mode", "nodes"} THEN m.data
  ELSE IF m.topic = "traces" THEN m.data[f.at]
  ELSE IF m.topic = "scan_progress" THEN <<m.data.az, m.data.at>>
  ELSE IF m.topic = "scan_contact" THEN m.data.snr
  ELSE IF f.of = "nodes" THEN None
  ELSE IF f.of = "on" THEN m.topic = "scan_start"
  ELSE IF f.of = "where" THEN (IF m.topic = "scan_start" THEN <<0, None>> ELSE <<None, None>>)
  ELSE 0

(* What the server has of part f, and what the page shows of it.            *)
Current(f) ==
  IF f.of = "bridge" THEN link
  ELSE IF f.of = "radios" THEN DeviceList(device, lora, mode)
  ELSE IF f.of = "mode" THEN mode
  ELSE IF f.of = "nodes" THEN nodes
  ELSE IF f.of = "run" THEN trace[f.at]
  ELSE IF f.of = "where" THEN <<scan.az, scan.at>>
  ELSE IF f.of = "found" THEN scan.found[f.at]
  ELSE scan.active

PageHas(f) ==
  IF f.of = "bridge" THEN page.bridge
  ELSE IF f.of = "radios" THEN page.radios
  ELSE IF f.of = "mode" THEN page.mode
  ELSE IF f.of = "nodes" THEN page.nodes
  ELSE IF f.of = "run" THEN page.trace[f.at]
  ELSE IF f.of = "where" THEN <<page.sweep.az, page.sweep.at>>
  ELSE IF f.of = "found" THEN page.sweep.found[f.at]
  ELSE page.sweep.on

(* The parts the page is owed: not a list whose timer is running, nor runs  *)
(* and sweeps that are over.                                                *)
Owed(f) ==
  /\ f.of = "nodes" => ~due
  /\ f.of = "run" => InFlight(f.at)
  /\ f.of \in {"on", "where", "found"} => scan.active

-----------------------------------------------------------------------------
(* The strengthening.                                                       *)

Silent(q, f) == \A i \in 1 .. Len(q) : ~Writes(q[i], f)
(* The last message of q that writes f says v.                              *)
Tells(q, f, v) ==
  \A i \in 1 .. Len(q) :
    Writes(q[i], f) /\ (\A j \in i + 1 .. Len(q) : ~Writes(q[j], f)) => Says(q[i], f) = v

(* The server has a socket of the page, and the page knows of no cut.       *)
Followed == ~torn /\ \E s \in Socket : Open(s)

QueuesTell ==
  \A f \in Part : Owed(f) => \A s \in Socket : Open(s) => Tells(queue[s], f, Current(f))
PageTells ==
  Followed => \A f \in Part :
    Owed(f) /\ (\A s \in Socket : Open(s) => Silent(queue[s], f)) => PageHas(f) = Current(f)

(* What m says of a sweep is no better than found.                          *)
Fits(m, found) ==
  /\ m.topic = "scan_contact" => m.data.snr <= found[m.data.az]
  /\ m.topic = "replay" /\ m.data.scan # None => \A z \in Az : m.data.scan.found[z] <= found[z]
TheBase == [of |-> "base", at |-> None]
NoBase(q) == Silent(q, TheBase)
Bounded(q, found) ==
  \A i \in 1 .. Len(q) : (\A j \in i + 1 .. Len(q) : ~Writes(q[j], TheBase)) => Fits(q[i], found)
QueuesFit == scan.active => \A s \in Socket : Open(s) => Bounded(queue[s], scan.found)
PageFits ==
  scan.active /\ Followed /\ (\A s \in Socket : Open(s) => NoBase(queue[s]))
    => \A z \in Az : page.sweep.found[z] <= scan.found[z]

Live == Followed => page.live

Sound == QueuesTell /\ PageTells /\ QueuesFit /\ PageFits /\ Live
IInv == TypeOK /\ Shape /\ Sound /\ ListIsCurrent

-----------------------------------------------------------------------------
(* Appending to a queue, and taking its head.                               *)

LEMMA QueueConcat ==
  ASSUME NEW q \in Seq(Message), NEW ms \in Seq(Message)
  PROVE  /\ q \o ms \in Seq(Message) /\ Len(q \o ms) = Len(q) + Len(ms)
         /\ Len(q) \in Nat /\ Len(ms) \in Nat
         /\ \A i \in 1 .. Len(q) : (q \o ms)[i] = q[i]
         /\ \A i \in 1 .. Len(ms) : (q \o ms)[Len(q) + i] = ms[i]
  OBVIOUS

LEMMA SilentConcat ==
  ASSUME NEW q \in Seq(Message), NEW ms \in Seq(Message), NEW f
  PROVE  Silent(q \o ms, f) <=> Silent(q, f) /\ Silent(ms, f)
  <1> DEFINE qm == q \o ms
  <1>0. /\ Len(qm) = Len(q) + Len(ms) /\ Len(q) \in Nat /\ Len(ms) \in Nat
        /\ \A i \in 1 .. Len(q) : qm[i] = q[i]
        /\ \A i \in 1 .. Len(ms) : qm[Len(q) + i] = ms[i]
    BY QueueConcat
  <1> HIDE DEF qm
  <1>1. ASSUME Silent(q, f), Silent(ms, f), NEW i \in 1 .. Len(qm)
        PROVE  ~Writes(qm[i], f)
    <2>1. CASE i <= Len(q)
      BY <1>0, <1>1, <2>1 DEF Silent
    <2>2. CASE i > Len(q)
      <3>1. i - Len(q) \in 1 .. Len(ms) /\ Len(q) + (i - Len(q)) = i
        BY <1>0, <2>2
      <3> QED BY <1>0, <1>1, <3>1 DEF Silent
    <2> QED BY <2>1, <2>2, <1>0
  <1>2. ASSUME Silent(qm, f) PROVE Silent(q, f)
    BY <1>0, <1>2 DEF Silent
  <1>3. ASSUME Silent(qm, f), NEW i \in 1 .. Len(ms) PROVE ~Writes(ms[i], f)
    <2>1. Len(q) + i \in 1 .. Len(qm)
      BY <1>0
    <2> QED BY <1>0, <1>3, <2>1 DEF Silent
  <1> QED BY <1>1, <1>2, <1>3 DEF Silent, qm

LEMMA TellsConcat ==
  ASSUME NEW q \in Seq(Message), NEW ms \in Seq(Message), NEW f, NEW v
  PROVE  /\ Tells(q, f, v) /\ Silent(ms, f) => Tells(q \o ms, f, v)
         /\ Tells(ms, f, v) /\ ~Silent(ms, f) => Tells(q \o ms, f, v)
  <1> DEFINE qm == q \o ms
  <1>0. /\ Len(qm) = Len(q) + Len(ms) /\ Len(q) \in Nat /\ Len(ms) \in Nat
        /\ \A i \in 1 .. Len(q) : qm[i] = q[i]
        /\ \A i \in 1 .. Len(ms) : qm[Len(q) + i] = ms[i]
    BY QueueConcat
  <1> HIDE DEF qm
  <1> SUFFICES ASSUME (Tells(q, f, v) /\ Silent(ms, f)) \/ (Tells(ms, f, v) /\ ~Silent(ms, f)),
                      NEW i \in 1 .. Len(qm),
                      Writes(qm[i], f), \A j \in i + 1 .. Len(qm) : ~Writes(qm[j], f)
               PROVE  Says(qm[i], f) = v
    BY DEF Tells, qm
  <1>1. CASE i <= Len(q)
    <2>1. qm[i] = q[i] /\ i \in 1 .. Len(q)
      BY <1>0, <1>1
    <2>2. \A j \in 1 .. Len(ms) : Len(q) + j \in i + 1 .. Len(qm)
      BY <1>0, <1>1
    <2>3. Silent(ms, f)
      BY <1>0, <2>2 DEF Silent
    <2>4. \A j \in i + 1 .. Len(q) : j \in i + 1 .. Len(qm) /\ j \in 1 .. Len(q)
      BY <1>0, <1>1
    <2>5. \A j \in i + 1 .. Len(q) : ~Writes(q[j], f)
      BY <1>0, <2>4
    <2> QED BY <2>1, <2>3, <2>5 DEF Tells
  <1>2. CASE i > Len(q)
    <2> DEFINE k == i - Len(q)
    <2>1. k \in 1 .. Len(ms) /\ Len(q) + k = i
      BY <1>0, <1>2
    <2>2. qm[i] = ms[k] /\ ~Silent(ms, f)
      BY <1>0, <2>1 DEF Silent
    <2>3. \A j \in k + 1 .. Len(ms) : Len(q) + j \in i + 1 .. Len(qm) /\ j \in 1 .. Len(ms)
      BY <1>0, <2>1
    <2>4. \A j \in k + 1 .. Len(ms) : ~Writes(ms[j], f)
      BY <1>0, <2>3
    <2> HIDE DEF k
    <2> QED BY <2>1, <2>2, <2>4 DEF Tells
  <1> QED BY <1>0, <1>1, <1>2

LEMMA QueueTail ==
  ASSUME NEW q \in Seq(Message), q # << >>
  PROVE  /\ Tail(q) \in Seq(Message) /\ Head(q) \in Message /\ Head(q) = q[1]
         /\ Len(q) \in Nat \ {0} /\ Len(Tail(q)) = Len(q) - 1
         /\ \A i \in 1 .. Len(q) - 1 : Tail(q)[i] = q[i + 1]
  OBVIOUS

LEMMA SilentTail ==
  ASSUME NEW q \in Seq(Message), q # << >>, NEW f
  PROVE  Silent(q, f) <=> ~Writes(Head(q), f) /\ Silent(Tail(q), f)
  <1> DEFINE t == Tail(q)
  <1>0. /\ Head(q) = q[1] /\ Len(q) \in Nat \ {0} /\ Len(t) = Len(q) - 1
        /\ \A i \in 1 .. Len(q) - 1 : t[i] = q[i + 1]
    BY QueueTail
  <1> HIDE DEF t
  <1>1. ASSUME ~Writes(q[1], f), Silent(t, f), NEW i \in 1 .. Len(q)
        PROVE  ~Writes(q[i], f)
    <2>1. CASE i = 1
      BY <2>1, <1>1
    <2>2. CASE i # 1
      <3>1. i - 1 \in 1 .. Len(t) /\ t[i - 1] = q[i]
        BY <1>0, <2>2
      <3> QED BY <1>1, <3>1 DEF Silent
    <2> QED BY <2>1, <2>2
  <1>2. ASSUME Silent(q, f), NEW i \in 1 .. Len(t)
        PROVE  ~Writes(t[i], f)
    <2>1. i + 1 \in 1 .. Len(q) /\ t[i] = q[i + 1]
      BY <1>0
    <2> QED BY <1>2, <2>1 DEF Silent
  <1>3. ASSUME Silent(q, f) PROVE ~Writes(q[1], f)
    BY <1>0, <1>3 DEF Silent
  <1> QED BY <1>0, <1>1, <1>2, <1>3 DEF Silent, t

LEMMA TellsTail ==
  ASSUME NEW q \in Seq(Message), q # << >>, NEW f, NEW v, Tells(q, f, v)
  PROVE  /\ Tells(Tail(q), f, v)
         /\ Writes(Head(q), f) /\ Silent(Tail(q), f) => Says(Head(q), f) = v
  <1> DEFINE t == Tail(q)
  <1>0. /\ Head(q) = q[1] /\ Len(q) \in Nat \ {0} /\ Len(t) = Len(q) - 1
        /\ \A i \in 1 .. Len(q) - 1 : t[i] = q[i + 1]
    BY QueueTail
  <1> HIDE DEF t
  <1>1. ASSUME NEW i \in 1 .. Len(t), Writes(t[i], f), \A j \in i + 1 .. Len(t) : ~Writes(t[j], f)
        PROVE  Says(t[i], f) = v
    <2>1. i + 1 \in 1 .. Len(q) /\ t[i] = q[i + 1]
      BY <1>0
    <2>2. \A j \in (i + 1) + 1 .. Len(q) : j - 1 \in i + 1 .. Len(t) /\ q[j] = t[j - 1]
      BY <1>0
    <2> QED BY <1>1, <2>1, <2>2 DEF Tells
  <1>2. ASSUME Writes(q[1], f), Silent(t, f) PROVE Says(q[1], f) = v
    <2>1. \A j \in 1 + 1 .. Len(q) : j - 1 \in 1 .. Len(t) /\ q[j] = t[j - 1]
      BY <1>0
    <2> QED BY <1>0, <1>2, <2>1 DEF Tells, Silent
  <1> QED BY <1>0, <1>1, <1>2 DEF Tells, t

LEMMA BoundedConcat ==
  ASSUME NEW q \in Seq(Message), NEW ms \in Seq(Message), NEW found,
         Bounded(ms, found), NoBase(ms) => Bounded(q, found)
  PROVE  Bounded(q \o ms, found)
  <1> DEFINE qm == q \o ms
  <1>0. /\ Len(qm) = Len(q) + Len(ms) /\ Len(q) \in Nat /\ Len(ms) \in Nat
        /\ \A i \in 1 .. Len(q) : qm[i] = q[i]
        /\ \A i \in 1 .. Len(ms) : qm[Len(q) + i] = ms[i]
    BY QueueConcat
  <1> HIDE DEF qm
  <1> SUFFICES ASSUME NEW i \in 1 .. Len(qm), \A j \in i + 1 .. Len(qm) : ~Writes(qm[j], TheBase)
               PROVE  Fits(qm[i], found)
    BY DEF Bounded, qm
  <1>1. CASE i <= Len(q)
    <2>1. qm[i] = q[i] /\ i \in 1 .. Len(q)
      BY <1>0, <1>1
    <2>2. \A j \in 1 .. Len(ms) : Len(q) + j \in i + 1 .. Len(qm)
      BY <1>0, <1>1
    <2>3. NoBase(ms)
      BY <1>0, <2>2 DEF Silent, NoBase
    <2>4. \A j \in i + 1 .. Len(q) : j \in i + 1 .. Len(qm) /\ j \in 1 .. Len(q)
      BY <1>0, <1>1
    <2>5. \A j \in i + 1 .. Len(q) : ~Writes(q[j], TheBase)
      BY <1>0, <2>4
    <2> QED BY <2>1, <2>3, <2>5 DEF Bounded
  <1>2. CASE i > Len(q)
    <2> DEFINE k == i - Len(q)
    <2>1. k \in 1 .. Len(ms) /\ Len(q) + k = i
      BY <1>0, <1>2
    <2>2. qm[i] = ms[k]
      BY <1>0, <2>1
    <2>3. \A j \in k + 1 .. Len(ms) : Len(q) + j \in i + 1 .. Len(qm) /\ j \in 1 .. Len(ms)
      BY <1>0, <2>1
    <2>4. \A j \in k + 1 .. Len(ms) : ~Writes(ms[j], TheBase)
      BY <1>0, <2>3
    <2> HIDE DEF k
    <2> QED BY <2>1, <2>2, <2>4 DEF Bounded
  <1> QED BY <1>0, <1>1, <1>2

LEMMA BoundedTail ==
  ASSUME NEW q \in Seq(Message), q # << >>, NEW found, Bounded(q, found)
  PROVE  Bounded(Tail(q), found) /\ (NoBase(Tail(q)) => Fits(Head(q), found))
  <1> DEFINE t == Tail(q)
  <1>0. /\ Head(q) = q[1] /\ Len(q) \in Nat \ {0} /\ Len(t) = Len(q) - 1
        /\ \A i \in 1 .. Len(q) - 1 : t[i] = q[i + 1]
    BY QueueTail
  <1> HIDE DEF t
  <1>1. ASSUME NEW i \in 1 .. Len(t), \A j \in i + 1 .. Len(t) : ~Writes(t[j], TheBase)
        PROVE  Fits(t[i], found)
    <2>1. i + 1 \in 1 .. Len(q) /\ t[i] = q[i + 1]
      BY <1>0
    <2>2. \A j \in (i + 1) + 1 .. Len(q) : j - 1 \in i + 1 .. Len(t) /\ q[j] = t[j - 1]
      BY <1>0
    <2> QED BY <1>1, <2>1, <2>2 DEF Bounded
  <1>2. ASSUME NoBase(t) PROVE Fits(q[1], found)
    <2>1. \A j \in 1 + 1 .. Len(q) : j - 1 \in 1 .. Len(t) /\ q[j] = t[j - 1]
      BY <1>0
    <2> QED BY <1>0, <1>2, <2>1 DEF Bounded, NoBase, Silent
  <1> QED BY <1>0, <1>1, <1>2 DEF Bounded, t

-----------------------------------------------------------------------------
(* What is said of a broadcast of one message, or of two.                   *)

LEMMA OneMessage ==
  ASSUME NEW m \in Message, NEW f, NEW v, NEW found
  PROVE  /\ <<m>> \in Seq(Message) /\ <<m>> # << >>
         /\ Silent(<<m>>, f) <=> ~Writes(m, f)
         /\ Tells(<<m>>, f, v) <=> (Writes(m, f) => Says(m, f) = v)
         /\ Fits(m, found) => Bounded(<<m>>, found)
  <1>1. Len(<<m>>) = 1 /\ <<m>>[1] = m
    OBVIOUS
  <1>2. Silent(<<m>>, f) <=> ~Writes(m, f)
    BY <1>1 DEF Silent
  <1>3. Tells(<<m>>, f, v) <=> (Writes(m, f) => Says(m, f) = v)
    BY <1>1 DEF Tells
  <1>4. Fits(m, found) => Bounded(<<m>>, found)
    BY <1>1 DEF Bounded
  <1> QED BY <1>2, <1>3, <1>4

LEMMA TwoMessages ==
  ASSUME NEW m \in Message, NEW n \in Message, NEW f, NEW v, NEW found
  PROVE  /\ <<m, n>> \in Seq(Message) /\ <<m, n>> # << >>
         /\ Silent(<<m, n>>, f) <=> ~Writes(m, f) /\ ~Writes(n, f)
         /\ Tells(<<m, n>>, f, v) <=>
              (IF Writes(n, f) THEN Says(n, f) = v ELSE Writes(m, f) => Says(m, f) = v)
         /\ Fits(m, found) /\ Fits(n, found) => Bounded(<<m, n>>, found)
  <1>1. Len(<<m, n>>) = 2 /\ <<m, n>>[1] = m /\ <<m, n>>[2] = n
    OBVIOUS
  <1>2. Silent(<<m, n>>, f) <=> ~Writes(m, f) /\ ~Writes(n, f)
    BY <1>1 DEF Silent
  <1>3. Tells(<<m, n>>, f, v) <=>
          (IF Writes(n, f) THEN Says(n, f) = v ELSE Writes(m, f) => Says(m, f) = v)
    BY <1>1 DEF Tells
  <1>4. Fits(m, found) /\ Fits(n, found) => Bounded(<<m, n>>, found)
    BY <1>1 DEF Bounded
  <1> QED BY <1>2, <1>3, <1>4

-----------------------------------------------------------------------------
LEMMA Announced ==
  ASSUME TypeOK, Shape, QueuesTell, PageTells, Live,
         NEW ms \in Seq(Message), Broadcast(ms), UNCHANGED <<sock, page, torn>>,
         \A f \in Part :
           \/ Silent(ms, f) /\ (Owed(f)' => Owed(f) /\ Current(f)' = Current(f))
           \/ Owed(f)' => ~Silent(ms, f) /\ Tells(ms, f, Current(f)')
  PROVE  Shape' /\ QueuesTell' /\ PageTells' /\ Live'
  <1>1. \A s \in Socket : Open(s) => queue'[s] = queue[s] \o ms
    BY DEF Broadcast, Open
  <1>2. \A s \in Socket : queue[s] \in Seq(Message) /\ (Open(s)' <=> Open(s))
    BY DEF Shape, PageShape, Open
  <1>3. Shape'
    <2>1. queue' \in [Socket -> Seq(Message)]
      BY <1>2, QueueConcat DEF Broadcast
    <2> QED BY <2>1 DEF Shape, PageShape
  <1>4. ASSUME NEW f \in Part, Owed(f)', NEW s \in Socket, Open(s)
        PROVE  Tells(queue'[s], f, Current(f)')
    <2>1. CASE Silent(ms, f) /\ Owed(f) /\ Current(f)' = Current(f)
      <3>1. Tells(queue[s], f, Current(f)')
        BY <2>1, <1>4 DEF QueuesTell
      <3> QED BY <2>1, <3>1, <1>1, <1>2, <1>4, TellsConcat
    <2>2. CASE ~Silent(ms, f) /\ Tells(ms, f, Current(f)')
      BY <2>2, <1>1, <1>2, <1>4, TellsConcat
    <2> QED BY <2>1, <2>2, <1>4
  <1>5. QueuesTell'
    BY <1>2, <1>4 DEF QueuesTell, Tells
  <1>6. ASSUME Followed', NEW f \in Part, Owed(f)', \A s \in Socket : Open(s) => Silent(queue'[s], f)
        PROVE  PageHas(f)' = Current(f)'
    <2>1. Followed
      BY <1>2, <1>6 DEF Followed
    <2>2. PICK s \in Socket : Open(s)
      BY <2>1 DEF Followed
    <2>3. ASSUME NEW q \in Socket, Open(q) PROVE Silent(queue[q], f) /\ Silent(ms, f)
      <3>1. queue[q] \in Seq(Message) /\ queue'[q] = queue[q] \o ms
        BY <1>1, <1>2, <2>3
      <3>2. Silent(queue[q] \o ms, f)
        BY <1>6, <2>3, <3>1
      <3> QED BY <3>1, <3>2, SilentConcat
    <2>4. Owed(f) /\ Current(f)' = Current(f)
      BY <2>2, <2>3, <1>6
    <2>5. PageHas(f) = Current(f)
      BY <2>1, <2>3, <2>4 DEF PageTells
    <2>6. PageHas(f)' = PageHas(f)
      BY DEF PageHas
    <2> QED BY <2>4, <2>5, <2>6
  <1>7. PageTells'
    BY <1>2, <1>6 DEF PageTells, Silent
  <1>8. Live'
    BY <1>2 DEF Live, Followed
  <1> QED BY <1>3, <1>5, <1>7, <1>8

LEMMA AnnouncedOne ==
  ASSUME TypeOK, Shape, Sound, NEW m \in Message, Broadcast(<<m>>), UNCHANGED <<sock, page, torn>>,
         \A f \in Part : Owed(f)' =>
           IF Writes(m, f) THEN Says(m, f) = Current(f)' ELSE Owed(f) /\ Current(f)' = Current(f)
  PROVE  Shape' /\ QueuesTell' /\ PageTells' /\ Live'
  <1>1. \A f \in Part :
          \/ Silent(<<m>>, f) /\ (Owed(f)' => Owed(f) /\ Current(f)' = Current(f))
          \/ Owed(f)' => ~Silent(<<m>>, f) /\ Tells(<<m>>, f, Current(f)')
    BY OneMessage
  <1>2. <<m>> \in Seq(Message)
    OBVIOUS
  <1> QED BY <1>1, <1>2, Announced DEF Sound

LEMMA AnnouncedTwo ==
  ASSUME TypeOK, Shape, Sound, NEW m \in Message, NEW n \in Message,
         Broadcast(<<m, n>>), UNCHANGED <<sock, page, torn>>,
         \A f \in Part : Owed(f)' =>
           IF Writes(n, f) THEN Says(n, f) = Current(f)'
           ELSE IF Writes(m, f) THEN Says(m, f) = Current(f)'
           ELSE Owed(f) /\ Current(f)' = Current(f)
  PROVE  Shape' /\ QueuesTell' /\ PageTells' /\ Live'
  <1>1. \A f \in Part :
          \/ Silent(<<m, n>>, f) /\ (Owed(f)' => Owed(f) /\ Current(f)' = Current(f))
          \/ Owed(f)' => ~Silent(<<m, n>>, f) /\ Tells(<<m, n>>, f, Current(f)')
    BY TwoMessages
  <1>2. <<m, n>> \in Seq(Message)
    OBVIOUS
  <1> QED BY <1>1, <1>2, Announced DEF Sound

LEMMA FitsGrows ==
  ASSUME NEW found \in [Az -> 0 .. Levels], NEW more \in [Az -> 0 .. Levels],
         \A z \in Az : found[z] <= more[z],
         NEW m \in Message, Fits(m, found)
  PROVE  Fits(m, more)
  <1>1. \A z \in Az : found[z] \in Int /\ more[z] \in Int
    BY FeedAssumption
  <1>2. ASSUME m.topic = "scan_contact" PROVE m.data.snr <= more[m.data.az]
    <2>1. m.data.az \in Az /\ m.data.snr \in Int
      BY <1>2, FeedAssumption DEF Message
    <2> QED BY <1>1, <1>2, <2>1 DEF Fits
  <1>3. ASSUME m.topic = "replay", m.data.scan # None, NEW z \in Az
        PROVE  m.data.scan.found[z] <= more[z]
    <2>1. m.data.scan \in Sweep
      BY <1>3 DEF Message
    <2>2. m.data.scan.found[z] \in Int
      BY <2>1, FeedAssumption DEF Sweep
    <2> QED BY <1>1, <1>3, <2>2 DEF Fits
  <1> QED BY <1>2, <1>3 DEF Fits

LEMMA BoundedGrows ==
  ASSUME NEW found \in [Az -> 0 .. Levels], NEW more \in [Az -> 0 .. Levels],
         \A z \in Az : found[z] <= more[z],
         NEW q \in Seq(Message), Bounded(q, found)
  PROVE  Bounded(q, more)
  <1>1. \A i \in 1 .. Len(q) : q[i] \in Message
    OBVIOUS
  <1> QED BY <1>1, FitsGrows DEF Bounded

LEMMA SweepFollows ==
  ASSUME TypeOK, TypeOK', Shape, QueuesFit, PageFits,
         NEW ms \in Seq(Message), Broadcast(ms), UNCHANGED <<sock, page, torn>>,
         scan'.active => scan.active /\ \A z \in Az : scan.found[z] <= scan'.found[z],
         NoBase(ms), Bounded(ms, scan'.found)
  PROVE  QueuesFit' /\ PageFits'
  <1>0. /\ scan.found \in [Az -> 0 .. Levels] /\ scan'.found \in [Az -> 0 .. Levels]
        /\ \A s \in Socket : queue[s] \in Seq(Message) /\ (Open(s)' <=> Open(s))
        /\ \A s \in Socket : Open(s) => queue'[s] = queue[s] \o ms
    BY DEF TypeOK, Sweep, Shape, PageShape, Broadcast, Open
  <1>1. ASSUME scan'.active, NEW s \in Socket, Open(s) PROVE Bounded(queue'[s], scan'.found)
    <2>1. Bounded(queue[s], scan.found) /\ \A z \in Az : scan.found[z] <= scan'.found[z]
      BY <1>1 DEF QueuesFit
    <2>2. Bounded(queue[s], scan'.found)
      BY <1>0, <2>1, BoundedGrows
    <2> QED BY <1>0, <1>1, <2>2, BoundedConcat
  <1>2. ASSUME scan'.active, Followed', \A s \in Socket : Open(s) => NoBase(queue'[s]), NEW z \in Az
        PROVE  page'.sweep.found[z] <= scan'.found[z]
    <2>1. Followed
      BY <1>0, <1>2 DEF Followed
    <2>2. ASSUME NEW s \in Socket, Open(s) PROVE NoBase(queue[s])
      <3>1. queue[s] \in Seq(Message) /\ queue'[s] = queue[s] \o ms
        BY <1>0, <2>2
      <3>2. NoBase(queue[s] \o ms)
        BY <1>2, <2>2, <3>1
      <3> QED BY <3>1, <3>2, SilentConcat DEF NoBase
    <2>3. page.sweep.found[z] <= scan.found[z] /\ scan.found[z] <= scan'.found[z]
      BY <1>2, <2>1, <2>2 DEF PageFits
    <2>4. /\ page.sweep.found[z] \in Int /\ scan.found[z] \in Int /\ scan'.found[z] \in Int
          /\ page' = page
      BY <1>0, FeedAssumption DEF Shape, PageShape
    <2> QED BY <2>3, <2>4
  <1>3. QueuesFit'
    BY <1>0, <1>1 DEF QueuesFit
  <1>4. PageFits'
    BY <1>0, <1>2 DEF PageFits, NoBase, Silent
  <1> QED BY <1>3, <1>4

(* A step that nothing on the wire or in the page takes part in.            *)
LEMMA Unannounced ==
  ASSUME Shape, Sound, UNCHANGED <<queue, page, torn, scan>>,
         \A s \in Socket : Open(s)' <=> Open(s),
         \A f \in Part : Owed(f)' => Owed(f) /\ Current(f)' = Current(f)
  PROVE  Shape' /\ Sound'
  <1>1. \A f \in Part : PageHas(f)' = PageHas(f)
    BY DEF PageHas
  <1>2. \A s \in Socket : Open(s)' <=> Open(s)
    OBVIOUS
  <1>3. QueuesTell'
    BY <1>2 DEF Sound, QueuesTell
  <1>4. PageTells'
    BY <1>1, <1>2 DEF Sound, PageTells, Followed
  <1>5. QueuesFit' /\ PageFits' /\ Live'
    BY <1>2 DEF Sound, QueuesFit, PageFits, Live, Followed
  <1> QED BY <1>3, <1>4, <1>5 DEF Sound, Shape, PageShape

-----------------------------------------------------------------------------
LEMMA ListInRange ==
  ASSUME NEW dev \in [Radio -> {None, "offline", "ready"}], NEW read \in [Radio -> Settings \cup {None}],
         NEW m \in 0 .. Modes
  PROVE  DeviceList(dev, read, m) \in RadioList
  <1> DEFINE D == {q \in Radio : dev[q] # None}
  <1> DEFINE E == [state : {None, "offline", "ready"}, lora : Settings \cup {None}, mode : 0 .. Modes]
  <1>1. DeviceList(dev, read, m) \in [D -> E]
    BY DEF DeviceList
  <1>2. D \in SUBSET Radio
    OBVIOUS
  <1> HIDE DEF D, E
  <1>3. [D -> E] \in {[F -> E] : F \in SUBSET Radio}
    BY <1>2
  <1> QED BY <1>1, <1>3 DEF RadioList, E

LEMMA Harmless ==
  ASSUME NEW m \in Message, m.topic \notin {"scan_start", "scan_contact", "replay"}, NEW found
  PROVE  ~Base(m) /\ Fits(m, found)
  BY DEF Base, Fits

LEMMA TheBaseIsBase ==
  ASSUME NEW m PROVE Writes(m, TheBase) <=> Base(m)
  BY DEF Writes, TheBase

(* A broadcast of one message that is not about what a sweep found.         *)
LEMMA PlainTurn ==
  ASSUME TypeOK, TypeOK', Shape, Sound, NEW m \in Message, Broadcast(<<m>>), UNCHANGED <<sock, page, torn>>,
         m.topic \notin {"scan_start", "scan_contact", "replay"},
         scan'.active => scan.active /\ scan'.found = scan.found,
         \A f \in Part : Owed(f)' =>
           IF Writes(m, f) THEN Says(m, f) = Current(f)' ELSE Owed(f) /\ Current(f)' = Current(f)
  PROVE  Shape' /\ Sound'
  <1>1. NoBase(<<m>>) /\ Bounded(<<m>>, scan'.found)
    BY Harmless, OneMessage, TheBaseIsBase DEF NoBase
  <1>2. \A z \in Az : scan.found[z] \in Int
    BY FeedAssumption DEF TypeOK, Sweep
  <1>3. scan'.active => scan.active /\ \A z \in Az : scan.found[z] <= scan'.found[z]
    BY <1>2
  <1>4. <<m>> \in Seq(Message)
    OBVIOUS
  <1>5. QueuesFit' /\ PageFits'
    BY <1>1, <1>3, <1>4, SweepFollows DEF Sound
  <1>6. Shape' /\ QueuesTell' /\ PageTells' /\ Live'
    BY AnnouncedOne
  <1> QED BY <1>5, <1>6 DEF Sound

LEMMA BridgeTurns ==
  ASSUME TypeOK, TypeOK', Shape, Sound, Hello \/ BridgeCloses
  PROVE  Shape' /\ Sound'
  <1>1. PICK l \in BOOLEAN : /\ link' = l /\ Broadcast(<<BridgeFlag(l)>>)
                             /\ UNCHANGED <<device, lora, mode, nodes, due, scan, trace, sock, page, torn>>
    BY DEF Hello, BridgeCloses, client
  <1>2. BridgeFlag(l) \in Message /\ BridgeFlag(l).topic = "bridge" /\ BridgeFlag(l).data = l
    BY DEF BridgeFlag, Msg, Message
  <1>3. \A f \in Part : Owed(f)' =>
          IF Writes(BridgeFlag(l), f) THEN Says(BridgeFlag(l), f) = Current(f)'
          ELSE Owed(f) /\ Current(f)' = Current(f)
    BY <1>1, <1>2 DEF Part, Owed, Writes, Says, Current, InFlight, Base
  <1> QED BY <1>1, <1>2, <1>3, PlainTurn

LEMMA RadioTurns ==
  ASSUME TypeOK, TypeOK', Shape, Sound,
         NEW r \in Radio, (\E state \in {"offline", "ready"} : DeviceState(r, state))
                            \/ (\E v \in Settings : DeviceRead(r, v))
  PROVE  Shape' /\ Sound'
  <1> DEFINE list == DeviceList(device, lora, mode)'
  <1> DEFINE m == Msg("radios", list)
  <1>1. /\ list = listed' /\ Broadcast(<<m>>)
        /\ UNCHANGED <<link, mode, nodes, due, scan, trace, sock, page, torn>>
    BY DEF DeviceState, DeviceRead, ListDevices, client
  <1>2. list \in RadioList
    BY ListInRange DEF TypeOK
  <1>3. m \in Message /\ m.topic = "radios" /\ m.data = list
    BY <1>2 DEF Msg, Message
  <1> HIDE DEF m
  <1>4. \A f \in Part : Owed(f)' =>
          IF Writes(m, f) THEN Says(m, f) = Current(f)' ELSE Owed(f) /\ Current(f)' = Current(f)
    BY <1>1, <1>3 DEF Part, Owed, Writes, Says, Current, InFlight, Base
  <1> QED BY <1>1, <1>3, <1>4, PlainTurn

LEMMA QuietTurns ==
  ASSUME TypeOK, Shape, Sound, NodesChange \/ \E r \in Radio : DeviceReadFails(r)
  PROVE  Shape' /\ Sound'
  <1>1. /\ UNCHANGED <<queue, sock, page, torn, scan, link, device, lora, mode, trace>>
        /\ due' \/ (due' = due /\ nodes' = nodes)
    BY DEF NodesChange, DeviceReadFails, wire, client
  <1>2. \A f \in Part : Owed(f)' => Owed(f) /\ Current(f)' = Current(f)
    BY <1>1 DEF Part, Owed, Current, InFlight
  <1> QED BY <1>1, <1>2, Unannounced DEF Open

LEMMA NodesTurns ==
  ASSUME TypeOK, TypeOK', Shape, Sound, NodesAnnounced
  PROVE  Shape' /\ Sound'
  <1> DEFINE m == NodeList
  <1>1. /\ Broadcast(<<m>>)
        /\ UNCHANGED <<link, device, lora, mode, nodes, scan, trace, sock, page, torn>>
    BY DEF NodesAnnounced, client
  <1>2. m \in Message /\ m.topic = "nodes" /\ m.data = nodes'
    BY <1>1 DEF NodeList, Msg, Message, TypeOK
  <1> HIDE DEF m
  <1>3. \A f \in Part : Owed(f)' =>
          IF Writes(m, f) THEN Says(m, f) = Current(f)' ELSE Owed(f) /\ Current(f)' = Current(f)
    BY <1>1, <1>2 DEF Part, Owed, Writes, Says, Current, InFlight, Base
  <1> QED BY <1>1, <1>2, <1>3, PlainTurn

LEMMA TraceTurns ==
  ASSUME TypeOK, TypeOK', Shape, Sound,
         NEW r \in Run, NEW phase \in {"aiming", "dispatched", "over"}, TraceReports(r, phase)
  PROVE  Shape' /\ Sound'
  <1> DEFINE m == Msg("traces", [q \in {r} |-> trace'[q]])
  <1>1. /\ Broadcast(<<m>>)
        /\ \A q \in Run : q # r => trace'[q] = trace[q]
        /\ UNCHANGED <<link, device, lora, mode, nodes, due, scan, sock, page, torn>>
    BY DEF TraceReports, client, Traces, TypeOK
  <1>2. m.topic = "traces" /\ m.data = [q \in {r} |-> trace'[q]] /\ DOMAIN m.data = {r}
    BY DEF Msg
  <1>3. m \in Message
    <2>1. [q \in {r} |-> trace'[q]] \in [{r} -> Phase]
      BY DEF TypeOK, Phase
    <2>2. [{r} -> Phase] \in {[D -> Phase] : D \in SUBSET Run}
      OBVIOUS
    <2>3. m.data \in RunList
      BY <1>2, <2>1, <2>2 DEF RunList
    <2> QED BY <2>3 DEF Msg, Message
  <1> HIDE DEF m
  <1>4. \A f \in Part : Owed(f)' =>
          IF Writes(m, f) THEN Says(m, f) = Current(f)' ELSE Owed(f) /\ Current(f)' = Current(f)
    BY <1>1, <1>2 DEF Part, Owed, Writes, Says, Current, InFlight, Base
  <1> QED BY <1>1, <1>2, <1>3, <1>4, PlainTurn

LEMMA ModeTurns ==
  ASSUME TypeOK, TypeOK', Shape, Sound, NEW v \in 0 .. Modes, ModeChanges(v)
  PROVE  Shape' /\ Sound'
  <1> DEFINE m == Msg("mode", v)
             n == Msg("radios", listed')
  <1>1. /\ Broadcast(<<m, n>>) /\ mode' = v /\ listed' = DeviceList(device, lora, mode)'
        /\ UNCHANGED <<link, device, lora, nodes, due, scan, trace, sock, page, torn>>
    BY DEF ModeChanges, client
  <1>2. listed' \in RadioList
    BY <1>1, ListInRange DEF TypeOK
  <1>3. /\ m \in Message /\ m.topic = "mode" /\ m.data = v
        /\ n \in Message /\ n.topic = "radios" /\ n.data = listed'
    BY <1>2 DEF Msg, Message
  <1> HIDE DEF m, n
  <1>4. \A f \in Part : Owed(f)' =>
          IF Writes(n, f) THEN Says(n, f) = Current(f)'
          ELSE IF Writes(m, f) THEN Says(m, f) = Current(f)'
          ELSE Owed(f) /\ Current(f)' = Current(f)
    BY <1>1, <1>3 DEF Part, Owed, Writes, Says, Current, InFlight, Base
  <1>5. Shape' /\ QueuesTell' /\ PageTells' /\ Live'
    BY <1>1, <1>3, <1>4, AnnouncedTwo
  <1>6. NoBase(<<m, n>>) /\ Bounded(<<m, n>>, scan'.found)
    BY <1>3, Harmless, TwoMessages, TheBaseIsBase DEF NoBase
  <1>7. scan'.active => scan.active /\ \A z \in Az : scan.found[z] <= scan'.found[z]
    BY <1>1, FeedAssumption DEF TypeOK, Sweep
  <1>8. <<m, n>> \in Seq(Message)
    BY <1>3
  <1>9. QueuesFit' /\ PageFits'
    BY <1>1, <1>6, <1>7, <1>8, SweepFollows DEF Sound
  <1> QED BY <1>5, <1>9 DEF Sound

-----------------------------------------------------------------------------
LEMMA SweepAdvances ==
  ASSUME TypeOK, TypeOK', Shape, Sound,
         ScanDwells \/ (ScanStepEnds /\ scan.az + 1 # Steps)
  PROVE  Shape' /\ Sound'
  <1> DEFINE m == Msg("scan_progress", [az |-> scan'.az, at |-> scan'.at])
  <1>1. /\ Broadcast(<<m>>)
        /\ scan'.active = scan.active /\ scan'.found = scan.found
        /\ UNCHANGED <<link, device, lora, mode, nodes, due, trace, sock, page, torn>>
    <2>1. scan \in Sweep /\ Progress(scan') = m
      BY DEF TypeOK, Progress
    <2> HIDE DEF m
    <2>2. CASE ScanDwells
      BY <2>1, <2>2 DEF ScanDwells, client, Sweep
    <2>3. CASE ScanStepEnds /\ scan.az + 1 # Steps
      BY <2>1, <2>3 DEF ScanStepEnds, client, Sweep
    <2> QED BY <2>2, <2>3
  <1>2. /\ m \in Message /\ m.topic = "scan_progress"
        /\ m.data.az = scan'.az /\ m.data.at = scan'.at
    BY DEF Msg, Message, TypeOK, Sweep
  <1> HIDE DEF m
  <1>3. \A f \in Part : Owed(f)' =>
          IF Writes(m, f) THEN Says(m, f) = Current(f)' ELSE Owed(f) /\ Current(f)' = Current(f)
    <2> SUFFICES ASSUME NEW f \in Part, Owed(f)'
                 PROVE  IF Writes(m, f) THEN Says(m, f) = Current(f)' ELSE Owed(f) /\ Current(f)' = Current(f)
      OBVIOUS
    <2>1. CASE f.of = "where"
      BY <1>1, <1>2, <2>1 DEF Writes, Says, Current
    <2>2. CASE f.of # "where"
      <3>1. ~Writes(m, f)
        BY <1>2, <2>2 DEF Part, Writes, Base
      <3>2. Owed(f) /\ Current(f)' = Current(f)
        BY <1>1, <2>2 DEF Owed, Current, InFlight
      <3> QED BY <3>1, <3>2
    <2> QED BY <2>1, <2>2
  <1> QED BY <1>1, <1>2, <1>3, PlainTurn

LEMMA SweepStops ==
  ASSUME TypeOK, TypeOK', Shape, Sound, ScanStops
  PROVE  Shape' /\ Sound'
  <1> DEFINE m == ScanEnd
  <1>1. /\ Broadcast(<<m>>) /\ ~scan'.active /\ due'
        /\ UNCHANGED <<link, device, lora, mode, trace, sock, page, torn>>
    BY DEF ScanStops, client, TypeOK, Sweep
  <1>2. m \in Message /\ m.topic = "scan_end"
    BY DEF ScanEnd, Msg, Message
  <1> HIDE DEF m
  <1>3. \A f \in Part : Owed(f)' =>
          IF Writes(m, f) THEN Says(m, f) = Current(f)' ELSE Owed(f) /\ Current(f)' = Current(f)
    BY <1>1, <1>2 DEF Part, Owed, Writes, Says, Current, InFlight, Base
  <1> QED BY <1>1, <1>2, <1>3, PlainTurn

LEMMA SweepHears ==
  ASSUME TypeOK, TypeOK', Shape, Sound, NEW snr \in 1 .. Levels, ScanHears(snr)
  PROVE  Shape' /\ Sound'
  <1> DEFINE m == Msg("scan_contact", [az |-> scan.at, snr |-> snr])
  <1>0. scan.at \in Az /\ scan.found \in [Az -> 0 .. Levels] /\ scan \in Sweep
    BY DEF ScanHears, TypeOK, Sweep
  <1>1. /\ Broadcast(<<m>>)
        /\ scan'.active = scan.active /\ scan'.az = scan.az /\ scan'.at = scan.at
        /\ scan'.found = [scan.found EXCEPT ![scan.at] = snr]
        /\ UNCHANGED <<link, device, lora, mode, nodes, due, trace, sock, page, torn>>
    BY <1>0 DEF ScanHears, client, Sweep
  <1>2. /\ m \in Message /\ m.topic = "scan_contact"
        /\ m.data.az = scan.at /\ m.data.snr = snr
    BY <1>0 DEF Msg, Message
  <1> HIDE DEF m
  <1>3. \A f \in Part : Owed(f)' =>
          IF Writes(m, f) THEN Says(m, f) = Current(f)' ELSE Owed(f) /\ Current(f)' = Current(f)
    BY <1>0, <1>1, <1>2 DEF Part, Owed, Writes, Says, Current, InFlight, Base
  <1>4. Shape' /\ QueuesTell' /\ PageTells' /\ Live'
    BY <1>1, <1>2, <1>3, AnnouncedOne
  <1>5. \A z \in Az : scan.found[z] \in Int /\ scan.found[z] <= scan'.found[z]
    BY <1>0, <1>1, FeedAssumption DEF ScanHears
  <1>6. ~Base(m) /\ Fits(m, scan'.found)
    BY <1>0, <1>1, <1>2, FeedAssumption DEF Base, Fits
  <1>7. NoBase(<<m>>) /\ Bounded(<<m>>, scan'.found) /\ <<m>> \in Seq(Message)
    BY <1>2, <1>6, OneMessage, TheBaseIsBase DEF NoBase
  <1>8. QueuesFit' /\ PageFits'
    BY <1>1, <1>5, <1>7, SweepFollows DEF Sound
  <1> QED BY <1>4, <1>8 DEF Sound

(* A sweep that starts empties what every page shows.                       *)
LEMMA SweepStarts ==
  ASSUME TypeOK, TypeOK', Shape, Sound, ScanStarts
  PROVE  Shape' /\ Sound'
  <1> DEFINE m == Msg("scan_start", None)
             n == Msg("scan_progress", [az |-> scan'.az, at |-> scan'.at])
  <1>0. 0 \in Az
    BY FeedAssumption DEF Az
  <1>1. /\ Broadcast(<<m, n>>) /\ due'
        /\ scan'.active /\ scan'.az = 0 /\ scan'.at = None /\ scan'.found = Nothing
        /\ UNCHANGED <<link, device, lora, mode, trace, sock, page, torn>>
    BY DEF ScanStarts, Progress, Idle, client
  <1>2. /\ m \in Message /\ m.topic = "scan_start"
        /\ n \in Message /\ n.topic = "scan_progress"
        /\ n.data.az = scan'.az /\ n.data.at = scan'.at
    BY <1>0, <1>1 DEF Msg, Message
  <1> HIDE DEF m, n
  <1>3. \A f \in Part : Owed(f)' =>
          IF Writes(n, f) THEN Says(n, f) = Current(f)'
          ELSE IF Writes(m, f) THEN Says(m, f) = Current(f)'
          ELSE Owed(f) /\ Current(f)' = Current(f)
    <2> SUFFICES ASSUME NEW f \in Part, Owed(f)'
                 PROVE  IF Writes(n, f) THEN Says(n, f) = Current(f)'
                        ELSE IF Writes(m, f) THEN Says(m, f) = Current(f)'
                        ELSE Owed(f) /\ Current(f)' = Current(f)
      OBVIOUS
    <2>1. CASE f.of = "where"
      BY <1>1, <1>2, <2>1 DEF Writes, Says, Current
    <2>2. CASE f.of = "found"
      <3>1. f.at \in Az /\ scan'.found[f.at] = 0
        BY <1>1, <2>2 DEF Part, Nothing
      <3> QED BY <1>1, <1>2, <2>2, <3>1 DEF Writes, Says, Current, Base
    <2>3. CASE f.of = "on"
      BY <1>1, <1>2, <2>3 DEF Writes, Says, Current, Base
    <2>4. CASE f.of \in {"bridge", "radios", "mode", "run"}
      BY <1>1, <1>2, <2>4 DEF Owed, Writes, Says, Current, InFlight, Base
    <2>5. f.of # "nodes"
      BY <1>1 DEF Owed
    <2> QED BY <2>1, <2>2, <2>3, <2>4, <2>5 DEF Part
  <1>4. Shape' /\ QueuesTell' /\ PageTells' /\ Live'
    BY <1>1, <1>2, <1>3, AnnouncedTwo
  <1>5. /\ <<m, n>> \in Seq(Message) /\ ~NoBase(<<m, n>>)
        /\ Bounded(<<m, n>>, scan'.found)
    BY <1>2, TwoMessages, TheBaseIsBase DEF NoBase, Base, Fits
  <1>6. /\ \A s \in Socket : queue[s] \in Seq(Message) /\ (Open(s)' <=> Open(s))
        /\ \A s \in Socket : Open(s) => queue'[s] = queue[s] \o <<m, n>>
    BY <1>1 DEF Shape, PageShape, Broadcast, Open
  <1>7. \A s \in Socket : Open(s) => Bounded(queue'[s], scan'.found) /\ ~NoBase(queue'[s])
    <2> SUFFICES ASSUME NEW s \in Socket, Open(s)
                 PROVE  Bounded(queue'[s], scan'.found) /\ ~NoBase(queue'[s])
      OBVIOUS
    <2>1. queue[s] \in Seq(Message) /\ queue'[s] = queue[s] \o <<m, n>>
      BY <1>6
    <2>2. Bounded(queue[s] \o <<m, n>>, scan'.found)
      BY <1>5, <2>1, BoundedConcat
    <2>3. ~NoBase(queue[s] \o <<m, n>>)
      BY <1>5, <2>1, SilentConcat DEF NoBase
    <2> QED BY <2>1, <2>2, <2>3
  <1>8. QueuesFit'
    BY <1>6, <1>7 DEF QueuesFit
  <1>9. PageFits'
    BY <1>6, <1>7 DEF PageFits, Followed, NoBase, Silent
  <1> QED BY <1>4, <1>8, <1>9 DEF Sound

-----------------------------------------------------------------------------
(* What a message changes in the page: the parts it writes, and no other.   *)
Takes(m, f) == Writes(m, f) /\ ~(m.topic = "scan_contact" /\ page.sweep.found[f.at] >= m.data.snr)
ShownAs(m) ==
  /\ PageShape' /\ page'.live = page.live
  /\ \A f \in Part : PageHas(f)' = IF Takes(m, f) THEN Says(m, f) ELSE PageHas(f)

LEMMA ShownPlain ==
  ASSUME PageShape, NEW m \in Message, page' = Shown(m, page), m.topic \in {"bridge", "radios", "mode", "nodes"}
  PROVE  ShownAs(m)
  <1>1. \/ m.topic = "bridge" /\ page' = [page EXCEPT !.bridge = m.data]
        \/ m.topic = "radios" /\ page' = [page EXCEPT !.radios = m.data]
        \/ m.topic = "mode" /\ page' = [page EXCEPT !.mode = m.data]
        \/ m.topic = "nodes" /\ page' = [page EXCEPT !.nodes = m.data]
    BY DEF Shown
  <1>2. PageShape' /\ page'.live = page.live
    BY <1>1 DEF PageShape
  <1>3. \A f \in Part : PageHas(f)' = IF Takes(m, f) THEN Says(m, f) ELSE PageHas(f)
    BY <1>1 DEF PageShape, PageHas, Takes, Writes, Says, Base, Part
  <1> QED BY <1>2, <1>3 DEF ShownAs

LEMMA ShownRuns ==
  ASSUME PageShape, NEW m \in Message, page' = Shown(m, page), m.topic = "traces"
  PROVE  ShownAs(m)
  <1>1. page' = [page EXCEPT !.trace = Phases(m.data, page)]
    BY DEF Shown
  <1>2. PICK D \in SUBSET Run : m.data \in [D -> Phase]
    BY DEF Message, RunList
  <1>3. Phases(m.data, page) \in [Run -> Phase]
    BY <1>2 DEF Phases, PageShape
  <1>4. PageShape' /\ page'.live = page.live
    BY <1>1, <1>3 DEF PageShape
  <1>5. \A r \in Run : page'.trace[r] = IF r \in DOMAIN m.data THEN m.data[r] ELSE page.trace[r]
    BY <1>1 DEF PageShape, Phases
  <1>6. \A f \in Part : PageHas(f)' = IF Takes(m, f) THEN Says(m, f) ELSE PageHas(f)
    BY <1>1, <1>5 DEF PageShape, PageHas, Takes, Writes, Says, Base, Part
  <1> QED BY <1>4, <1>6 DEF ShownAs

LEMMA ShownReplay ==
  ASSUME PageShape, NEW m \in Message, page' = Shown(m, page), m.topic = "replay"
  PROVE  ShownAs(m)
  <1> DEFINE d == m.data
  <1>1. page' = [page EXCEPT !.bridge = d.bridge, !.radios = d.radios, !.mode = d.mode,
                       !.sweep = IF d.scan = None THEN @ ELSE Swept(d.scan),
                       !.nodes = d.nodes, !.trace = Phases(d.runs, page)]
    BY DEF Shown
  <1>2. d.scan \in Sweep \cup {None} /\ d.runs \in RunList
    BY DEF Message
  <1>3. PICK D \in SUBSET Run : d.runs \in [D -> Phase]
    BY <1>2 DEF RunList
  <1> HIDE DEF d
  <1>4. Phases(d.runs, page) \in [Run -> Phase]
    BY <1>3 DEF Phases, PageShape
  <1>5. page'.sweep = IF d.scan = None THEN page.sweep ELSE Swept(d.scan)
    BY <1>1 DEF PageShape
  <1>6. PageShape' /\ page'.live = page.live
    BY <1>1, <1>2, <1>4, <1>5 DEF PageShape, Swept, Sweep
  <1>7. \A r \in Run : page'.trace[r] = IF r \in DOMAIN d.runs THEN d.runs[r] ELSE page.trace[r]
    BY <1>1 DEF PageShape, Phases
  <1>8. \A f \in Part : PageHas(f)' = IF Takes(m, f) THEN Says(m, f) ELSE PageHas(f)
    <2> SUFFICES ASSUME NEW f \in Part
                 PROVE  PageHas(f)' = IF Takes(m, f) THEN Says(m, f) ELSE PageHas(f)
      OBVIOUS
    <2>1. CASE f.of \in {"bridge", "radios", "mode", "nodes"}
      BY <1>1, <2>1 DEF PageShape, PageHas, Takes, Writes, Says, Told, d
    <2>2. CASE f.of = "run"
      BY <1>1, <1>7, <2>2 DEF PageHas, Takes, Writes, Says, Told, d, Part
    <2>3. CASE f.of \in {"on", "where", "found"}
      <3>1. CASE d.scan = None
        BY <1>5, <2>3, <3>1 DEF PageHas, Takes, Writes, d, Base
      <3>2. CASE d.scan # None
        <4>1. CASE f.of = "on"
          BY <1>5, <3>2, <4>1 DEF PageHas, Takes, Writes, Says, Told, d, Base, Swept
        <4>2. CASE f.of = "where"
          BY <1>5, <3>2, <4>2 DEF PageHas, Takes, Writes, Says, Told, d, Base, Swept
        <4>3. CASE f.of = "found"
          BY <1>5, <3>2, <4>3 DEF PageHas, Takes, Writes, Says, Told, d, Base, Swept
        <4> QED BY <2>3, <4>1, <4>2, <4>3
      <3> QED BY <3>1, <3>2
    <2> QED BY <2>1, <2>2, <2>3 DEF Part
  <1> QED BY <1>6, <1>8 DEF ShownAs

LEMMA ShownSweep ==
  ASSUME PageShape, NEW m \in Message, page' = Shown(m, page),
         m.topic \in {"scan_start", "scan_progress", "scan_end"}
  PROVE  ShownAs(m)
  <1>0. 0 \in Az /\ 0 \in 0 .. Levels
    BY FeedAssumption DEF Az
  <1>1. CASE m.topic = "scan_start"
    <2>1. page' = [page EXCEPT !.sweep = Swept([Idle EXCEPT !.az = 0]), !.nodes = None]
      BY <1>1 DEF Shown
    <2>2. page'.sweep = [on |-> TRUE, az |-> 0, at |-> None, found |-> Nothing] /\ page'.nodes = None
      BY <2>1 DEF PageShape, Swept, Idle
    <2>3. PageShape' /\ page'.live = page.live
      <3>1. Nothing \in [Az -> 0 .. Levels]
        BY <1>0 DEF Nothing
      <3>2. page'.sweep \in [on : BOOLEAN, az : Az \cup {None}, at : Az \cup {None}, found : [Az -> 0 .. Levels]]
        BY <1>0, <2>2, <3>1
      <3> QED BY <2>1, <3>2 DEF PageShape
    <2>4. ASSUME NEW f \in Part PROVE PageHas(f)' = IF Takes(m, f) THEN Says(m, f) ELSE PageHas(f)
      <3>1. CASE f.of = "found"
        <4>1. PageHas(f)' = 0
          BY <2>2, <3>1 DEF PageHas, Nothing, Part
        <4> QED BY <1>1, <3>1, <4>1 DEF Takes, Writes, Says, Base
      <3>2. CASE f.of \in {"on", "where", "nodes"}
        <4>1. CASE f.of = "on"
          <5>1. Takes(m, f)
            BY <1>1, <4>1 DEF Takes, Writes, Base
          <5>2. PageHas(f)' = TRUE
            <6>1. page'.sweep.on = TRUE
              BY <2>2
            <6>2. PageHas(f)' = page'.sweep.on
              BY <4>1 DEF PageHas
            <6> QED BY <6>1, <6>2
          <5>3. Says(m, f) = TRUE
            BY <1>1, <4>1 DEF Says
          <5> QED BY <5>1, <5>2, <5>3
        <4>2. CASE f.of = "where"
          BY <1>1, <2>2, <4>2 DEF PageHas, Takes, Writes, Says, Base
        <4>3. CASE f.of = "nodes"
          BY <1>1, <2>2, <4>3 DEF PageHas, Takes, Writes, Says
        <4> QED BY <3>2, <4>1, <4>2, <4>3
      <3>3. CASE f.of \in {"bridge", "radios", "mode", "run"}
        BY <1>1, <2>1, <3>3 DEF PageShape, PageHas, Takes, Writes, Base
      <3> QED BY <3>1, <3>2, <3>3 DEF Part
    <2> QED BY <2>3, <2>4 DEF ShownAs
  <1>2. CASE m.topic = "scan_progress"
    <2>1. page' = [page EXCEPT !.sweep = [@ EXCEPT !.az = m.data.az, !.at = m.data.at]]
      BY <1>2 DEF Shown
    <2>2. m.data.az \in Az \cup {None} /\ m.data.at \in Az \cup {None}
      BY <1>2 DEF Message
    <2>3. /\ page'.sweep.az = m.data.az /\ page'.sweep.at = m.data.at
          /\ page'.sweep.on = page.sweep.on /\ page'.sweep.found = page.sweep.found
      BY <2>1 DEF PageShape
    <2>4. PageShape' /\ page'.live = page.live
      <3>1. page'.sweep = [page.sweep EXCEPT !.az = m.data.az, !.at = m.data.at]
        BY <2>1 DEF PageShape
      <3>2. page'.sweep \in [on : BOOLEAN, az : Az \cup {None}, at : Az \cup {None}, found : [Az -> 0 .. Levels]]
        BY <2>2, <3>1 DEF PageShape
      <3> QED BY <2>1, <3>2 DEF PageShape
    <2>5. ASSUME NEW f \in Part PROVE PageHas(f)' = IF Takes(m, f) THEN Says(m, f) ELSE PageHas(f)
      <3>1. CASE f.of \in {"on", "where", "found"}
        BY <1>2, <2>3, <3>1 DEF PageHas, Takes, Writes, Says, Base
      <3>2. CASE f.of \in {"bridge", "radios", "mode", "nodes", "run"}
        BY <1>2, <2>1, <3>2 DEF PageShape, PageHas, Takes, Writes, Base
      <3> QED BY <3>1, <3>2 DEF Part
    <2> QED BY <2>4, <2>5 DEF ShownAs
  <1>3. CASE m.topic = "scan_end"
    <2>1. page' = [page EXCEPT !.sweep = [@ EXCEPT !.on = FALSE, !.az = None, !.at = None]]
      BY <1>3 DEF Shown
    <2>2. /\ page'.sweep.az = None /\ page'.sweep.at = None
          /\ page'.sweep.on = FALSE /\ page'.sweep.found = page.sweep.found
      BY <2>1 DEF PageShape
    <2>3. PageShape' /\ page'.live = page.live
      <3>1. page'.sweep = [page.sweep EXCEPT !.on = FALSE, !.az = None, !.at = None]
        BY <2>1 DEF PageShape
      <3>2. page'.sweep \in [on : BOOLEAN, az : Az \cup {None}, at : Az \cup {None}, found : [Az -> 0 .. Levels]]
        BY <3>1 DEF PageShape
      <3> QED BY <2>1, <3>2 DEF PageShape
    <2>4. ASSUME NEW f \in Part PROVE PageHas(f)' = IF Takes(m, f) THEN Says(m, f) ELSE PageHas(f)
      <3>1. CASE f.of \in {"on", "where", "found"}
        BY <1>3, <2>2, <3>1 DEF PageHas, Takes, Writes, Says, Base
      <3>2. CASE f.of \in {"bridge", "radios", "mode", "nodes", "run"}
        BY <1>3, <2>1, <3>2 DEF PageShape, PageHas, Takes, Writes, Base
      <3> QED BY <3>1, <3>2 DEF Part
    <2> QED BY <2>3, <2>4 DEF ShownAs
  <1> QED BY <1>1, <1>2, <1>3

LEMMA ShownContact ==
  ASSUME PageShape, NEW m \in Message, page' = Shown(m, page), m.topic = "scan_contact"
  PROVE  ShownAs(m)
  <1>1. page' = [page EXCEPT !.sweep.found[m.data.az] = IF m.data.snr > @ THEN m.data.snr ELSE @]
    BY DEF Shown
  <1>2. m.data.az \in Az /\ m.data.snr \in 0 .. Levels
    BY FeedAssumption DEF Message
  <1>3. page.sweep.found \in [Az -> 0 .. Levels] /\ \A z \in Az : page.sweep.found[z] \in Int
    BY FeedAssumption DEF PageShape
  <1>4. /\ page'.sweep.az = page.sweep.az /\ page'.sweep.at = page.sweep.at /\ page'.sweep.on = page.sweep.on
        /\ page'.sweep.found = [page.sweep.found EXCEPT ![m.data.az] = IF m.data.snr > @ THEN m.data.snr ELSE @]
    BY <1>1 DEF PageShape
  <1>5. PageShape' /\ page'.live = page.live
    <2>1. page'.sweep.found \in [Az -> 0 .. Levels]
      BY <1>2, <1>3, <1>4
    <2> QED BY <1>1, <2>1 DEF PageShape
  <1>6. ASSUME NEW f \in Part PROVE PageHas(f)' = IF Takes(m, f) THEN Says(m, f) ELSE PageHas(f)
    <2>1. CASE f.of = "found"
      <3>1. f.at \in Az
        BY <2>1 DEF Part
      <3>2. page'.sweep.found[f.at] = IF f.at = m.data.az /\ ~(page.sweep.found[f.at] >= m.data.snr)
                                      THEN m.data.snr ELSE page.sweep.found[f.at]
        BY <1>2, <1>3, <1>4, <3>1, FeedAssumption
      <3> QED BY <2>1, <3>2 DEF PageHas, Takes, Writes, Says, Base
    <2>2. CASE f.of \in {"on", "where"}
      BY <1>4, <2>2 DEF PageHas, Takes, Writes, Base
    <2>3. CASE f.of \in {"bridge", "radios", "mode", "nodes", "run"}
      BY <1>1, <2>3 DEF PageShape, PageHas, Takes, Writes, Base
    <2> QED BY <2>1, <2>2, <2>3 DEF Part
  <1> QED BY <1>5, <1>6 DEF ShownAs

LEMMA ShownParts ==
  ASSUME PageShape, NEW m \in Message, page' = Shown(m, page)
  PROVE  ShownAs(m)
  BY ShownPlain, ShownRuns, ShownReplay, ShownSweep, ShownContact DEF Message

-----------------------------------------------------------------------------
(* Whatever is silent on what was found says nothing of a sweep that starts. *)
LEMMA SilentOnBase ==
  ASSUME NEW q, NEW f, f.of = "found", Silent(q, f)
  PROVE  NoBase(q)
  BY DEF Silent, NoBase, Writes, TheBase

(* A message reaches the page.                                              *)
LEMMA DeliverTurns ==
  ASSUME TypeOK, Shape, Sound, NEW s \in Socket, Deliver(s)
  PROVE  Shape' /\ Sound'
  <1> DEFINE m == Head(queue[s])
             t == Tail(queue[s])
  <1>0. /\ queue[s] # << >> /\ Open(s) /\ page' = Shown(m, page)
        /\ queue' = [queue EXCEPT ![s] = t]
        /\ UNCHANGED <<link, device, lora, mode, nodes, due, scan, trace, sock, torn>>
    BY DEF Deliver, TypeOK, server
  <1>1. /\ queue \in [Socket -> Seq(Message)] /\ PageShape
        /\ \A q \in Socket : Open(q)' <=> Open(q)
        /\ queue'[s] = t /\ \A q \in Socket : q # s => queue'[q] = queue[q]
    BY <1>0 DEF Shape, PageShape, Open
  <1>2. queue[s] \in Seq(Message) /\ t \in Seq(Message) /\ m \in Message
    BY <1>0, <1>1, QueueTail
  <1>3. ShownAs(m)
    BY <1>0, <1>1, <1>2, ShownParts
  <1>4. Shape'
    BY <1>0, <1>1, <1>2, <1>3 DEF Shape, ShownAs, PageShape
  <1>5. \A f : Silent(queue[s], f) <=> ~Writes(m, f) /\ Silent(t, f)
    BY <1>0, <1>2, SilentTail
  <1>6. \A f \in Part : (Owed(f)' <=> Owed(f)) /\ Current(f)' = Current(f)
    BY <1>0 DEF Owed, Current, InFlight
  <1> HIDE DEF m, t
  <1>7. ASSUME NEW f \in Part, Owed(f), NEW q \in Socket, Open(q)
        PROVE  Tells(queue'[q], f, Current(f))
    <2>1. Tells(queue[q], f, Current(f))
      BY <1>7 DEF Sound, QueuesTell
    <2>2. CASE q = s
      BY <1>0, <1>1, <1>2, <2>1, <2>2, TellsTail DEF t
    <2> QED BY <1>1, <2>1, <2>2
  <1>8. QueuesTell'
    BY <1>1, <1>6, <1>7 DEF QueuesTell, Tells
  <1>9. Live'
    BY <1>0, <1>1, <1>3 DEF Sound, Live, Followed, ShownAs
  <1>10. ASSUME scan.active, NEW q \in Socket, Open(q)
         PROVE  Bounded(queue'[q], scan.found)
    <2>1. Bounded(queue[q], scan.found)
      BY <1>10 DEF Sound, QueuesFit
    <2>2. CASE q = s
      BY <1>0, <1>1, <1>2, <2>1, <2>2, BoundedTail DEF t
    <2> QED BY <1>1, <2>1, <2>2
  <1>11. QueuesFit'
    BY <1>0, <1>1, <1>10 DEF QueuesFit
  <1>12. Followed' <=> Followed
    BY <1>0, <1>1 DEF Followed
  <1>13. \A z \in Az : page.sweep.found[z] \in Int /\ page'.sweep.found[z] \in Int /\ scan.found[z] \in Int
    <2>1. \A z \in Az : page.sweep.found[z] \in 0 .. Levels
      BY <1>1 DEF PageShape
    <2>2. page'.sweep.found \in [Az -> 0 .. Levels]
      BY <1>3 DEF PageShape, ShownAs
    <2>3. \A z \in Az : scan.found[z] \in 0 .. Levels
      BY DEF TypeOK, Sweep
    <2> QED BY <2>1, <2>2, <2>3, FeedAssumption
  <1>14. ASSUME scan.active, Followed, \A q \in Socket : Open(q) => NoBase(queue'[q]), NEW z \in Az
         PROVE  page'.sweep.found[z] <= scan.found[z]
    <2> DEFINE f == [of |-> "found", at |-> z]
    <2>1. f \in Part /\ f.of = "found" /\ f.at = z
      BY DEF Part
    <2>2. Fits(m, scan.found)
      <3>1. NoBase(t) /\ Bounded(queue[s], scan.found)
        BY <1>0, <1>1, <1>14 DEF Sound, QueuesFit
      <3> QED BY <1>0, <1>2, <3>1, BoundedTail DEF t, m
    <2> HIDE DEF f
    <2>3. PageHas(f)' = page'.sweep.found[z] /\ PageHas(f) = page.sweep.found[z]
      BY <2>1 DEF PageHas
    <2>4. CASE Base(m)
      <3>1. page'.sweep.found[z] = Says(m, f)
        BY <1>3, <2>1, <2>3, <2>4 DEF ShownAs, Takes, Writes, Base
      <3>2. CASE m.topic = "scan_start"
        <4>1. Says(m, f) = 0
          BY <3>2, <2>1 DEF Says
        <4>2. scan.found[z] \in Nat
          BY FeedAssumption DEF TypeOK, Sweep
        <4> QED BY <3>1, <4>1, <4>2
      <3>3. CASE m.topic = "replay" /\ m.data.scan # None
        <4>1. Says(m, f) = m.data.scan.found[z]
          BY <3>3, <2>1 DEF Says, Told
        <4> QED BY <3>1, <3>3, <4>1, <2>2 DEF Fits
      <3> QED BY <2>4, <3>2, <3>3 DEF Base
    <2>5. CASE ~Base(m)
      <3>1. ASSUME NEW q \in Socket, Open(q) PROVE NoBase(queue[q])
        <4>1. CASE q = s
          BY <1>1, <1>5, <1>14, <2>5, <3>1, <4>1, TheBaseIsBase DEF NoBase
        <4> QED BY <1>1, <1>14, <3>1, <4>1
      <3>2. page.sweep.found[z] <= scan.found[z]
        BY <1>14, <3>1 DEF Sound, PageFits
      <3>3. CASE Takes(m, f)
        <4>1. m.topic = "scan_contact" /\ m.data.az = z
          BY <2>1, <2>5, <3>3 DEF Takes, Writes
        <4>2. Says(m, f) = m.data.snr
          BY <4>1 DEF Says
        <4> QED BY <1>3, <2>1, <2>2, <2>3, <3>3, <4>1, <4>2 DEF ShownAs, Fits
      <3>4. CASE ~Takes(m, f)
        BY <1>3, <2>1, <2>3, <3>2, <3>4 DEF ShownAs
      <3> QED BY <3>3, <3>4
    <2> QED BY <2>4, <2>5
  <1>15. PageFits'
    BY <1>0, <1>1, <1>12, <1>14 DEF PageFits, NoBase, Silent
  <1>16. ASSUME Followed, NEW f \in Part, Owed(f), \A q \in Socket : Open(q) => Silent(queue'[q], f)
         PROVE  PageHas(f)' = Current(f)
    <2>1. \A q \in Socket : Open(q) /\ q # s => Silent(queue[q], f)
      BY <1>1, <1>16
    <2>2. Silent(t, f)
      BY <1>0, <1>1, <1>16
    <2>3. CASE ~Writes(m, f)
      <3>1. PageHas(f) = Current(f)
        BY <1>5, <1>16, <2>1, <2>2, <2>3 DEF Sound, PageTells
      <3> QED BY <1>3, <2>3, <3>1 DEF ShownAs, Takes
    <2>4. CASE Writes(m, f)
      <3>1. Tells(queue[s], f, Current(f))
        BY <1>0, <1>16 DEF Sound, QueuesTell
      <3>2. Says(m, f) = Current(f)
        BY <1>0, <1>2, <2>2, <2>4, <3>1, TellsTail DEF m, t
      <3>3. CASE Takes(m, f)
        BY <1>3, <3>2, <3>3 DEF ShownAs
      <3>4. CASE ~Takes(m, f)
        <4>1. m.topic = "scan_contact" /\ page.sweep.found[f.at] >= m.data.snr
          BY <2>4, <3>4 DEF Takes
        <4>2. f.of = "found" /\ m.data.az = f.at /\ ~Base(m) /\ f.at \in Az
          BY <2>4, <4>1 DEF Writes, Base, Part
        <4>3. scan.active /\ Current(f) = scan.found[f.at] /\ Says(m, f) = m.data.snr
              /\ PageHas(f)' = PageHas(f) /\ PageHas(f) = page.sweep.found[f.at]
          BY <1>3, <1>16, <3>4, <4>1, <4>2 DEF Owed, Current, Says, ShownAs, PageHas
        <4>4. ASSUME NEW q \in Socket, Open(q) PROVE NoBase(queue[q])
          <5>1. Silent(queue'[q], f)
            BY <1>16, <4>4
          <5>2. NoBase(queue'[q])
            BY <4>2, <5>1, SilentOnBase
          <5>3. CASE q = s
            BY <1>1, <1>5, <4>2, <5>2, <5>3, TheBaseIsBase DEF NoBase
          <5> QED BY <1>1, <5>2, <5>3
        <4>5. page.sweep.found[f.at] <= scan.found[f.at]
          BY <1>16, <4>2, <4>3, <4>4 DEF Sound, PageFits
        <4>6. page.sweep.found[f.at] \in Int /\ scan.found[f.at] \in Int
          BY <1>13, <4>2
        <4> QED BY <3>2, <4>1, <4>3, <4>5, <4>6
      <3> QED BY <3>3, <3>4
    <2> QED BY <2>3, <2>4
  <1>17. PageTells'
    BY <1>1, <1>6, <1>12, <1>16 DEF PageTells, Silent
  <1> QED BY <1>4, <1>8, <1>9, <1>11, <1>15, <1>17 DEF Sound

-----------------------------------------------------------------------------
(* The relay accepts a socket: the replay says everything that is owed.     *)
LEMMA ReplayWrites ==
  ASSUME TypeOK
  PROVE  /\ Replay \in Message /\ Replay.topic = "replay"
         /\ \A f \in Part : Owed(f) => Writes(Replay, f) /\ Says(Replay, f) = Current(f)
         /\ scan.active => Base(Replay)
         /\ Fits(Replay, scan.found)
  <1> DEFINE d == Replay.data
             runs == {r \in Run : InFlight(r)}
  <1>0. /\ Replay.topic = "replay" /\ d.bridge = link /\ d.mode = mode /\ d.nodes = nodes
        /\ d.radios = DeviceList(device, lora, mode)
        /\ d.scan = (IF scan.active THEN scan ELSE None)
        /\ d.runs = [r \in runs |-> trace[r]]
        /\ Replay = [topic |-> "replay", data |-> d]
        /\ d = [bridge |-> d.bridge, radios |-> d.radios, mode |-> d.mode, scan |-> d.scan,
                nodes |-> d.nodes, runs |-> d.runs]
    BY DEF Replay, Msg, Traces
  <1>1. d.runs \in RunList
    <2>1. runs \in SUBSET Run /\ d.runs \in [runs -> Phase]
      BY <1>0 DEF TypeOK, Phase
    <2> HIDE DEF runs
    <2>2. [runs -> Phase] \in {[D -> Phase] : D \in SUBSET Run}
      BY <2>1
    <2> QED BY <2>1, <2>2 DEF RunList
  <1>2. d.radios \in RadioList /\ d.scan \in Sweep \cup {None}
    <2>1. d.radios \in RadioList
      <3>1. DeviceList(device, lora, mode) \in RadioList
        BY ListInRange DEF TypeOK
      <3> QED BY <1>0, <3>1
    <2>2. d.scan \in Sweep \cup {None}
      <3>1. scan \in Sweep
        BY DEF TypeOK
      <3> QED BY <1>0, <3>1
    <2> QED BY <2>1, <2>2
  <1>3. scan.active => d.scan = scan /\ d.scan # None
    BY <1>0, NullAssumption DEF TypeOK
  <1>4. \A r \in Run : InFlight(r) => r \in DOMAIN d.runs /\ d.runs[r] = trace[r]
    BY <1>0
  <1> HIDE DEF d
  <1>5. Replay \in Message
    <2>1. link \in BOOLEAN /\ mode \in 0 .. Modes /\ nodes \in Nat
      BY DEF TypeOK
    <2>2. d \in [bridge : BOOLEAN, radios : RadioList, mode : 0 .. Modes,
                 scan : Sweep \cup {None}, nodes : Nat, runs : RunList]
      BY <1>0, <1>1, <1>2, <2>1
    <2> QED BY <1>0, <2>2 DEF Message
  <1>6. scan.active => Base(Replay)
    BY <1>0, <1>3 DEF Base, d
  <1>7. Fits(Replay, scan.found)
    <2>1. ASSUME d.scan # None, NEW z \in Az PROVE d.scan.found[z] <= scan.found[z]
      <3>1. d.scan = scan /\ scan.found[z] \in 0 .. Levels
        BY <1>0, <2>1 DEF TypeOK, Sweep
      <3> QED BY <3>1, FeedAssumption
    <2> QED BY <1>0, <2>1 DEF Fits, d
  <1>8. ASSUME NEW f \in Part, Owed(f) PROVE Writes(Replay, f) /\ Says(Replay, f) = Current(f)
    <2>1. Says(Replay, f) = Told(Replay, f)
      BY <1>0 DEF Says
    <2>2. CASE f.of \in {"bridge", "radios", "mode", "nodes"}
      BY <1>0, <2>1, <2>2 DEF Writes, Told, Current, d
    <2>3. CASE f.of = "run"
      BY <1>0, <1>4, <1>8, <2>1, <2>3 DEF Writes, Told, Current, d, Part, Owed
    <2>4. CASE f.of \in {"on", "where", "found"}
      <3>1. scan.active /\ Base(Replay) /\ d.scan = scan
        BY <1>3, <1>6, <1>8, <2>4 DEF Owed
      <3>2. Writes(Replay, f)
        BY <2>4, <3>1 DEF Writes
      <3>3. CASE f.of = "on"
        <4>1. Told(Replay, f) = TRUE
          BY <3>3 DEF Told
        <4>2. Current(f) = TRUE
          <5>1. Current(f) = scan.active
            BY <3>3 DEF Current
          <5>2. scan.active = TRUE
            BY <3>1 DEF TypeOK, Sweep
          <5> QED BY <5>1, <5>2
        <4> QED BY <2>1, <3>2, <4>1, <4>2
      <3>4. CASE f.of = "where"
        BY <2>1, <3>1, <3>2, <3>4 DEF Told, Current, d
      <3>5. CASE f.of = "found"
        BY <2>1, <3>1, <3>2, <3>5 DEF Told, Current, d
      <3> QED BY <2>4, <3>3, <3>4, <3>5
    <2> QED BY <2>2, <2>3, <2>4 DEF Part
  <1> QED BY <1>0, <1>5, <1>6, <1>7, <1>8

LEMMA ConnectedTurns ==
  ASSUME TypeOK, Shape, Sound, NEW s \in Socket, Connected(s)
  PROVE  Shape' /\ Sound'
  <1> DEFINE list == DeviceList(device, lora, mode)
             m == Msg("radios", list)
  <1>0. /\ sock[s] = "connecting" /\ sock' = [sock EXCEPT ![s] = "open"]
        /\ page' = [page EXCEPT !.live = TRUE]
        /\ torn' = (torn /\ \E q \in Socket \ {s} : Open(q))
        /\ UNCHANGED <<link, device, lora, mode, nodes, due, scan, trace>>
    BY DEF Connected
  <1>1. /\ queue \in [Socket -> Seq(Message)]
        /\ \A q \in Socket : q # s => (Open(q)' <=> Open(q))
        /\ Open(s)' /\ ~Open(s)
    BY <1>0 DEF Shape, PageShape, Open, TypeOK
  <1>2. list \in RadioList /\ m \in Message /\ m.topic = "radios" /\ m.data = list
    <2>1. list \in RadioList
      BY ListInRange DEF TypeOK
    <2> QED BY <2>1 DEF Msg, Message
  <1> HIDE DEF m
  <1>3. /\ queue' \in [Socket -> Seq(Message)]
        /\ queue'[s] = <<Replay>>
        /\ \A q \in Socket : q # s =>
             queue'[q] = queue[q] \/ queue'[q] = queue[q] \o <<m>>
    <2>1. queue' = [q \in Socket |->
            IF q = s THEN <<Replay>>
            ELSE IF Open(q) /\ listed = None THEN Append(queue[q], m) ELSE queue[q]]
      BY DEF Connected, m
    <2>2. <<Replay>> \in Seq(Message)
      BY ReplayWrites
    <2>3. \A q \in Socket : Append(queue[q], m) = queue[q] \o <<m>> /\ Append(queue[q], m) \in Seq(Message)
      <3> SUFFICES ASSUME NEW q \in Socket
                   PROVE  Append(queue[q], m) = queue[q] \o <<m>> /\ Append(queue[q], m) \in Seq(Message)
        OBVIOUS
      <3>1. queue[q] \in Seq(Message) /\ m \in Message
        BY <1>1, <1>2
      <3>2. \A Q : \A u \in Seq(Q), x \in Q : Append(u, x) = u \o <<x>> /\ Append(u, x) \in Seq(Q)
        OBVIOUS
      <3> QED BY <3>1, <3>2
    <2> QED BY <1>1, <2>1, <2>2, <2>3
  <1>4. Shape' /\ page'.live = TRUE /\ page'.sweep = page.sweep
    <2>1. /\ DOMAIN page' = DOMAIN page /\ page'.sweep = page.sweep
          /\ page'.trace = page.trace /\ page'.live = TRUE
      BY <1>0 DEF Shape, PageShape
    <2> QED BY <1>3, <2>1 DEF Shape, PageShape
  <1>5. \A f \in Part : (Owed(f)' <=> Owed(f)) /\ Current(f)' = Current(f)
    BY <1>0 DEF Owed, Current, InFlight
  <1>6. ASSUME NEW f \in Part, Owed(f), NEW q \in Socket, Open(q)'
        PROVE  Tells(queue'[q], f, Current(f))
    <2>1. CASE q = s
      BY <1>3, <1>6, <2>1, ReplayWrites, OneMessage
    <2>2. CASE q # s
      <3>1. Tells(queue[q], f, Current(f)) /\ queue[q] \in Seq(Message)
        BY <1>1, <1>6, <2>2 DEF Sound, QueuesTell
      <3>2. Writes(m, f) => Says(m, f) = Current(f)
        BY <1>2 DEF Part, Writes, Says, Current, Base
      <3>3. <<m>> \in Seq(Message) /\ (Silent(<<m>>, f) \/ (Tells(<<m>>, f, Current(f)) /\ ~Silent(<<m>>, f)))
        BY <1>2, <3>2, OneMessage
      <3>4. Tells(queue[q] \o <<m>>, f, Current(f))
        BY <3>1, <3>3, TellsConcat
      <3> QED BY <1>3, <2>2, <3>1, <3>4
    <2> QED BY <2>1, <2>2
  <1>7. QueuesTell'
    BY <1>5, <1>6 DEF QueuesTell, Tells
  <1>8. Live'
    BY <1>4 DEF Live
  <1>9. ASSUME scan.active, NEW q \in Socket, Open(q)'
        PROVE  Bounded(queue'[q], scan.found)
    <2>1. CASE q = s
      BY <1>3, <2>1, ReplayWrites, OneMessage
    <2>2. CASE q # s
      <3>1. Bounded(queue[q], scan.found) /\ queue[q] \in Seq(Message)
        BY <1>1, <1>9, <2>2 DEF Sound, QueuesFit
      <3>2. Fits(m, scan.found)
        BY <1>2, Harmless
      <3>3. <<m>> \in Seq(Message) /\ Bounded(<<m>>, scan.found)
        BY <1>2, <3>2, OneMessage
      <3>4. Bounded(queue[q] \o <<m>>, scan.found)
        BY <3>1, <3>3, BoundedConcat
      <3> QED BY <1>3, <2>2, <3>1, <3>4
    <2> QED BY <2>1, <2>2
  <1>10. QueuesFit'
    BY <1>0, <1>9 DEF QueuesFit
  <1>11. scan.active => ~NoBase(queue'[s])
    BY <1>3, ReplayWrites, OneMessage, TheBaseIsBase DEF NoBase
  <1>12. PageFits'
    BY <1>0, <1>1, <1>11 DEF PageFits, NoBase, Silent
  <1>13. \A f \in Part : Owed(f) => ~Silent(queue'[s], f)
    BY <1>3, ReplayWrites, OneMessage
  <1>14. PageTells'
    BY <1>1, <1>5, <1>13 DEF PageTells, Silent
  <1> QED BY <1>4, <1>7, <1>8, <1>10, <1>12, <1>14 DEF Sound

(* A socket is gone, and nothing follows the server until a replay.         *)
LEMMA ClosedTurns ==
  ASSUME TypeOK, Shape, Sound, (\E s \in Socket : Closed(s)) \/ SelectDevice
  PROVE  Shape' /\ Sound'
  <1>1. PICK s \in Socket :
          /\ queue' = [queue EXCEPT ![s] = << >>]
          /\ UNCHANGED <<link, device, lora, mode, nodes, due, scan, trace>>
          /\ \/ page' = [page EXCEPT !.live = FALSE]
             \/ page' = [page EXCEPT !.live = FALSE, !.nodes = None]
          /\ \A q \in Socket : Open(q)' => q # s /\ Open(q)
          /\ (\E q \in Socket : Open(q)') => torn'
    <2>1. ASSUME NEW s \in Socket, Closed(s)
          PROVE  /\ queue' = [queue EXCEPT ![s] = << >>]
                 /\ UNCHANGED <<link, device, lora, mode, nodes, due, scan, trace>>
                 /\ page' = [page EXCEPT !.live = FALSE]
                 /\ \A q \in Socket : Open(q)' => q # s /\ Open(q)
                 /\ (\E q \in Socket : Open(q)') => torn'
      BY <2>1 DEF Closed, server, TypeOK, Open
    <2>2. ASSUME SelectDevice
          PROVE  /\ queue' = [queue EXCEPT ![cur] = << >>]
                 /\ UNCHANGED <<link, device, lora, mode, nodes, due, scan, trace>>
                 /\ page' = [page EXCEPT !.live = FALSE, !.nodes = None]
                 /\ \A q \in Socket : Open(q)' => q # cur /\ Open(q)
                 /\ (\E q \in Socket : Open(q)') => torn'
      <3> DEFINE left == [sock EXCEPT ![cur] = "none"]
                 d == CHOOSE q \in Socket : left[q] = "none"
      <3>1. sock' = [left EXCEPT ![d] = "connecting"] /\ torn' = (torn \/ \E q \in Socket : left[q] = "open")
        BY <2>2 DEF SelectDevice, Dial
      <3>2. left \in [Socket -> {"none", "connecting", "open"}]
            /\ \A q \in Socket : left[q] = "open" => q # cur /\ sock[q] = "open"
        BY DEF TypeOK
      <3> HIDE DEF left, d
      <3>3. \A q \in Socket : sock'[q] = "open" => left[q] = "open"
        BY <3>1, <3>2
      <3> QED BY <2>2, <3>1, <3>2, <3>3 DEF SelectDevice, server, Open
    <2>3. cur \in Socket
      BY DEF TypeOK
    <2> QED BY <2>1, <2>2, <2>3
  <1>2. \A q \in Socket : Open(q)' => Open(q) /\ queue'[q] = queue[q]
    BY <1>1 DEF Shape, PageShape
  <1>3. ~Followed'
    BY <1>1 DEF Followed
  <1>4. Shape'
    <2>1. queue' \in [Socket -> Seq(Message)]
      <3>1. queue \in [Socket -> Seq(Message)] /\ << >> \in Seq(Message)
        BY DEF Shape, PageShape
      <3> QED BY <1>1, <3>1
    <2>2. DOMAIN page' = DOMAIN page /\ page'.sweep = page.sweep /\ page'.trace = page.trace
      BY <1>1 DEF Shape, PageShape
    <2> QED BY <2>1, <2>2 DEF Shape, PageShape
  <1>5. \A f \in Part : (Owed(f)' <=> Owed(f)) /\ Current(f)' = Current(f)
    BY <1>1 DEF Owed, Current, InFlight
  <1>6. QueuesTell'
    BY <1>2, <1>5 DEF Sound, QueuesTell
  <1>7. QueuesFit'
    BY <1>1, <1>2 DEF Sound, QueuesFit
  <1>8. PageTells' /\ PageFits' /\ Live'
    BY <1>3 DEF PageTells, PageFits, Live
  <1> QED BY <1>4, <1>6, <1>7, <1>8 DEF Sound

LEMMA DialTurns ==
  ASSUME TypeOK, Shape, Sound, Reconnects
  PROVE  Shape' /\ Sound'
  <1> DEFINE d == CHOOSE q \in Socket : sock[q] = "none"
  <1>1. /\ d \in Socket /\ sock[d] = "none" /\ sock' = [sock EXCEPT ![d] = "connecting"]
        /\ UNCHANGED <<queue, page, torn, scan, link, device, lora, mode, nodes, due, trace>>
    BY DEF Reconnects, Dial, server
  <1> HIDE DEF d
  <1>2. \A s \in Socket : Open(s)' <=> Open(s)
    BY <1>1 DEF Open, TypeOK
  <1>3. \A f \in Part : Owed(f)' => Owed(f) /\ Current(f)' = Current(f)
    BY <1>1 DEF Owed, Current, InFlight
  <1> QED BY <1>1, <1>2, <1>3, Unannounced

-----------------------------------------------------------------------------
LEMMA InitHolds == Init => TypeOK /\ Shape /\ Sound /\ ListIsCurrent
  <1> SUFFICES ASSUME Init PROVE TypeOK /\ Shape /\ Sound /\ ListIsCurrent
    OBVIOUS
  <1>0. 0 \in Az /\ 0 \in 0 .. Levels /\ 0 \in 0 .. Modes /\ cur \in Socket
    BY FeedAssumption DEF Init, Az
  <1>1. Idle \in Sweep /\ Nothing \in [Az -> 0 .. Levels] /\ scan = Idle /\ ~scan.active
    BY <1>0 DEF Init, Idle, Nothing, Sweep
  <1>2. \A s \in Socket : ~Open(s)
    BY DEF Init, Open
  <1>3. TypeOK
    <2>1. \A r \in Radio : reads[r] = 0
      BY DEF Init
    <2>2. reads \in [Radio -> Nat] /\ \A r \in Radio : ~(reads[r] > 0)
      BY <2>1 DEF Init
    <2>3. sock \in [Socket -> {"none", "connecting", "open"}] /\ \A s \in Socket : queue[s] = << >>
      BY DEF Init
    <2> QED BY <1>0, <1>1, <2>2, <2>3 DEF Init, TypeOK
  <1>4. Shape
    <2>1. << >> \in Seq(Message)
      OBVIOUS
    <2> QED BY <1>1, <2>1 DEF Init, Shape, PageShape, NotSwept, Phase
  <1>5. Sound
    BY <1>2 DEF Sound, QueuesTell, PageTells, QueuesFit, PageFits, Live, Followed
  <1>6. ListIsCurrent
    BY DEF Init, ListIsCurrent
  <1> QED BY <1>3, <1>4, <1>5, <1>6

(* What no step but its own changes, and what each may become.              *)
LEMMA SweepTyped ==
  ASSUME TypeOK, Next
  PROVE  /\ scan' \in Sweep
         /\ scan'.active => scan'.az \in Az /\ scan'.at \in {None, scan'.az}
  <1>0. 0 \in Az /\ 0 \in 0 .. Levels /\ scan \in Sweep
        /\ (scan.active => scan.az \in Az /\ scan.at \in {None, scan.az})
    BY FeedAssumption DEF Az, TypeOK
  <1>1. CASE UNCHANGED scan
    BY <1>0, <1>1
  <1>2. CASE ScanStarts
    <2>1. scan' = [active |-> TRUE, az |-> 0, at |-> None, found |-> Nothing]
      BY <1>2 DEF ScanStarts, Idle
    <2> QED BY <1>0, <2>1 DEF Sweep, Nothing
  <1>3. CASE ScanDwells
    BY <1>0, <1>3 DEF ScanDwells, Sweep
  <1>4. CASE ScanStops
    BY <1>0, <1>4 DEF ScanStops, Sweep
  <1>5. CASE ScanStepEnds /\ ~ScanStops
    <2>1. scan.active /\ scan.az + 1 # Steps /\ scan' = [scan EXCEPT !.az = @ + 1, !.at = None]
      BY <1>5 DEF ScanStepEnds
    <2>2. scan.az + 1 \in Az
      BY <1>0, <2>1, FeedAssumption DEF Az
    <2> QED BY <1>0, <2>1, <2>2 DEF Sweep
  <1>6. ASSUME NEW snr \in 1 .. Levels, ScanHears(snr)
        PROVE  /\ scan' \in Sweep
               /\ scan'.active => scan'.az \in Az /\ scan'.at \in {None, scan'.az}
    <2>1. snr \in 0 .. Levels /\ scan.at \in Az
      BY <1>0, <1>6, FeedAssumption DEF ScanHears, Sweep
    <2> QED BY <1>0, <1>6, <2>1 DEF ScanHears, Sweep
  <1> QED BY <1>1, <1>2, <1>3, <1>4, <1>5, <1>6
          DEF Next, Hello, BridgeCloses, DeviceState, DeviceRead, DeviceReadFails, ModeChanges, NodesChange,
              NodesAnnounced, ScanStepEnds, ScanAborted, TraceReports, Reconnects, SelectDevice, Connected,
              Closed, Deliver, server

(* A broadcast reaches the sockets that are open, and no other.             *)
LEMMA NothingEarly ==
  ASSUME TypeOK, NEW ms, Broadcast(ms), UNCHANGED sock
  PROVE  \A s \in Socket : queue'[s] # << >> => Open(s)'
  BY DEF TypeOK, Broadcast, Open

LEMMA TypeStep ==
  ASSUME TypeOK, Shape, Next
  PROVE  TypeOK'
  <1> DEFINE Early == \A s \in Socket : queue'[s] # << >> => Open(s)'
  <1>0. /\ scan' \in Sweep
        /\ scan'.active => scan'.az \in Az /\ scan'.at \in {None, scan'.az}
    BY SweepTyped
  <1>1. CASE Hello \/ BridgeCloses
    <2>1. Early
      BY <1>1, NothingEarly DEF Hello, BridgeCloses
    <2> QED BY <1>0, <1>1, <2>1 DEF TypeOK, Hello, BridgeCloses, client
  <1>2. ASSUME NEW r \in Radio, NEW state \in {"offline", "ready"}, DeviceState(r, state) PROVE TypeOK'
    <2>1. Early
      BY <1>2, NothingEarly DEF DeviceState, ListDevices
    <2>2. device' \in [Radio -> {None, "offline", "ready"}] /\ device'[r] = state /\ state # None
          /\ \A q \in Radio : q # r => device'[q] = device[q]
      BY <1>2, NullAssumption DEF DeviceState, TypeOK
    <2>3. reads' \in [Radio -> Nat] /\ \A q \in Radio : q # r => reads'[q] = reads[q]
      BY <1>2 DEF DeviceState, TypeOK
    <2>4. \A q \in Radio : reads'[q] > 0 => device'[q] # None
      BY <2>2, <2>3 DEF TypeOK
    <2> QED BY <1>0, <1>2, <2>1, <2>2, <2>3, <2>4 DEF TypeOK, DeviceState, client
  <1>3. ASSUME NEW r \in Radio, (\E v \in Settings : DeviceRead(r, v)) \/ DeviceReadFails(r) PROVE TypeOK'
    <2>1. Early
      BY <1>3, NothingEarly DEF DeviceRead, DeviceReadFails, ListDevices, wire, TypeOK, Open
    <2>2. /\ reads' = [reads EXCEPT ![r] = @ - 1] /\ reads[r] > 0
          /\ UNCHANGED <<link, device, mode, nodes, due, scan, trace, sock, cur, timer, torn>>
          /\ lora' = lora \/ \E v \in Settings : lora' = [lora EXCEPT ![r] = v]
      BY <1>3 DEF DeviceRead, DeviceReadFails, client, wire
    <2>3. reads' \in [Radio -> Nat] /\ \A q \in Radio : reads'[q] > 0 => reads[q] > 0
      BY <2>2 DEF TypeOK
    <2> QED BY <1>0, <2>1, <2>2, <2>3 DEF TypeOK
  <1>4. ASSUME NEW m \in 0 .. Modes, ModeChanges(m) PROVE TypeOK'
    <2>1. Early
      BY <1>4, NothingEarly DEF ModeChanges
    <2> QED BY <1>0, <1>4, <2>1 DEF TypeOK, ModeChanges, client
  <1>5. CASE NodesChange \/ NodesAnnounced
    <2>1. Early
      BY <1>5, NothingEarly DEF NodesChange, NodesAnnounced, wire, TypeOK, Open
    <2>2. /\ UNCHANGED <<link, device, lora, reads, mode, trace, scan, sock, cur, timer, torn>>
          /\ nodes' \in {nodes, nodes + 1} /\ due' \in BOOLEAN
      BY <1>5 DEF NodesChange, NodesAnnounced, client, wire
    <2>3. nodes' \in Nat
      BY <2>2 DEF TypeOK
    <2> QED BY <1>0, <2>1, <2>2, <2>3 DEF TypeOK
  <1>6. CASE ScanStarts \/ ScanDwells \/ ScanStepEnds \/ ScanAborted \/ \E snr \in 1 .. Levels : ScanHears(snr)
    <2>1. Early
      BY <1>6, NothingEarly DEF ScanStarts, ScanDwells, ScanStepEnds, ScanAborted, ScanStops, ScanHears
    <2>2. /\ UNCHANGED <<link, device, lora, reads, mode, trace, sock, cur, timer, torn>>
          /\ (nodes' = nodes /\ due' = due) \/ (nodes' = nodes + 1 /\ due' = TRUE)
      BY <1>6 DEF ScanStarts, ScanDwells, ScanStepEnds, ScanAborted, ScanStops, ScanHears, client
    <2>3. nodes' \in Nat /\ due' \in BOOLEAN
      <3>1. nodes \in Nat /\ due \in BOOLEAN
        BY DEF TypeOK
      <3>2. nodes' \in {nodes, nodes + 1} /\ due' \in {due, TRUE}
        BY <2>2
      <3>3. nodes' \in Nat
        BY <3>1, <3>2
      <3>4. due' \in BOOLEAN
        BY <3>1, <3>2, Zenon
      <3> QED BY <3>3, <3>4
    <2> QED BY <1>0, <2>1, <2>2, <2>3 DEF TypeOK
  <1>7. ASSUME NEW r \in Run, NEW phase \in {"aiming", "dispatched", "over"}, TraceReports(r, phase) PROVE TypeOK'
    <2>1. Early
      BY <1>7, NothingEarly DEF TraceReports
    <2> QED BY <1>0, <1>7, <2>1 DEF TypeOK, TraceReports, client
  <1>8. CASE Reconnects
    <2> DEFINE d == CHOOSE q \in Socket : sock[q] = "none"
    <2>1. d \in Socket /\ sock[d] = "none" /\ sock' = [sock EXCEPT ![d] = "connecting"] /\ cur' = d
      BY <1>8 DEF Reconnects, Dial
    <2> HIDE DEF d
    <2>2. /\ UNCHANGED <<queue, torn, link, device, lora, reads, mode, nodes, due, scan, trace>>
          /\ timer' = FALSE
      BY <1>8 DEF Reconnects, server
    <2>3. Early
      BY <2>1, <2>2 DEF TypeOK, Open
    <2> QED BY <1>0, <2>1, <2>2, <2>3 DEF TypeOK
  <1>9. CASE SelectDevice
    <2> DEFINE left == [sock EXCEPT ![cur] = "none"]
               d == CHOOSE q \in Socket : left[q] = "none"
    <2>1. /\ sock' = [left EXCEPT ![d] = "connecting"] /\ cur' = d /\ d \in Socket /\ left[d] = "none"
          /\ torn' = (torn \/ \E q \in Socket : left[q] = "open")
      BY <1>9 DEF SelectDevice, Dial
    <2>2. /\ left \in [Socket -> {"none", "connecting", "open"}]
          /\ \A q \in Socket : q # cur => left[q] = sock[q]
      BY DEF TypeOK
    <2> HIDE DEF left, d
    <2>3. /\ queue' = [queue EXCEPT ![cur] = << >>]
          /\ UNCHANGED <<timer, link, device, lora, reads, mode, nodes, due, scan, trace>>
      BY <1>9 DEF SelectDevice, server
    <2>4. \A q \in Socket : q # cur /\ Open(q) => Open(q)'
      BY <2>1, <2>2 DEF Open
    <2>5. \A q \in Socket : queue'[q] # << >> => Open(q) /\ q # cur
      <3>1. cur \in Socket /\ \A q \in Socket : queue[q] # << >> => Open(q)
        BY DEF TypeOK
      <3>2. ASSUME NEW q \in Socket, queue'[q] # << >> PROVE queue'[q] = queue[q] /\ q # cur
        <4>1. DOMAIN queue = Socket
          BY DEF Shape
        <4> QED BY <2>3, <3>1, <3>2, <4>1
      <3> QED BY <3>1, <3>2
    <2>6. Early
      BY <2>4, <2>5
    <2> QED BY <1>0, <2>1, <2>2, <2>3, <2>6 DEF TypeOK
  <1>10. ASSUME NEW s \in Socket, Connected(s) PROVE TypeOK'
    <2>1. /\ sock' = [sock EXCEPT ![s] = "open"]
          /\ torn' \in BOOLEAN
          /\ UNCHANGED <<link, device, lora, reads, mode, nodes, due, scan, trace, cur, timer>>
      BY <1>10 DEF Connected
    <2>2. \A q \in Socket : queue'[q] # << >> => q = s \/ Open(q)
      BY <1>10 DEF Connected, TypeOK
    <2>3. Early
      BY <2>1, <2>2 DEF TypeOK, Open
    <2> QED BY <1>0, <2>1, <2>3 DEF TypeOK
  <1>11. ASSUME NEW s \in Socket, Closed(s) PROVE TypeOK'
    <2>1. /\ queue \in [Socket -> Seq(Message)] /\ queue' = [queue EXCEPT ![s] = << >>]
          /\ sock' = [sock EXCEPT ![s] = "none"]
          /\ timer' = (timer \/ s = cur) /\ torn' \in BOOLEAN
          /\ UNCHANGED <<link, device, lora, reads, mode, nodes, due, scan, trace, cur>>
      BY <1>11 DEF Closed, server, Shape
    <2>2. Early
      BY <2>1 DEF TypeOK, Open
    <2> QED BY <1>0, <2>1, <2>2 DEF TypeOK
  <1>12. ASSUME NEW s \in Socket, Deliver(s) PROVE TypeOK'
    <2>1. /\ queue \in [Socket -> Seq(Message)] /\ queue' = [queue EXCEPT ![s] = Tail(@)] /\ queue[s] # << >>
          /\ UNCHANGED <<link, device, lora, reads, mode, nodes, due, scan, trace, sock, cur, timer, torn>>
      BY <1>12 DEF Deliver, server, Shape
    <2>2. Early
      BY <2>1 DEF TypeOK, Open
    <2> QED BY <1>0, <2>1, <2>2 DEF TypeOK

  <1> QED BY <1>1, <1>2, <1>3, <1>4, <1>5, <1>6, <1>7, <1>8, <1>9, <1>10, <1>11, <1>12 DEF Next

LEMMA ListStep ==
  ASSUME ListIsCurrent, Next
  PROVE  ListIsCurrent'
  BY DEF Next, ListIsCurrent, Hello, BridgeCloses, DeviceState, DeviceRead, DeviceReadFails, ListDevices, ModeChanges,
         NodesChange, NodesAnnounced, ScanStarts, ScanDwells, ScanHears, ScanStepEnds, ScanAborted, ScanStops,
         TraceReports, Reconnects, SelectDevice, Connected, Closed, Deliver, server

LEMMA SoundStep ==
  ASSUME TypeOK, TypeOK', Shape, Sound, Next
  PROVE  Shape' /\ Sound'
  <1>1. CASE ScanStepEnds
    BY <1>1, SweepAdvances, SweepStops DEF ScanStepEnds
  <1>2. CASE ScanAborted
    BY <1>2, SweepStops DEF ScanAborted
  <1> QED BY <1>1, <1>2, BridgeTurns, RadioTurns, QuietTurns, ModeTurns, NodesTurns, SweepStarts, SweepAdvances,
             SweepHears, TraceTurns, DialTurns, ClosedTurns, ConnectedTurns, DeliverTurns DEF Next

LEMMA Stutters ==
  ASSUME IInv, UNCHANGED vars
  PROVE  IInv'
  <1> USE DEF vars, server, wire, client
  <1>1. TypeOK'
    BY DEF IInv, TypeOK, Open
  <1>2. Shape' /\ Sound'
    <2>1. /\ \A s \in Socket : Open(s)' <=> Open(s)
          /\ \A f \in Part : Owed(f)' => Owed(f) /\ Current(f)' = Current(f)
      BY DEF Open, Owed, Current, InFlight
    <2> QED BY <2>1, Unannounced DEF IInv
  <1>3. ListIsCurrent'
    BY DEF IInv, ListIsCurrent
  <1> QED BY <1>1, <1>2, <1>3 DEF IInv

-----------------------------------------------------------------------------
(* Every turn of the server, the wire and the page keeps the strengthening. *)
THEOREM Invariant == Spec => []IInv
  <1>1. Init => IInv
    BY InitHolds DEF IInv
  <1>2. IInv /\ [Next]_vars => IInv'
    <2> SUFFICES ASSUME IInv, [Next]_vars PROVE IInv'
      OBVIOUS
    <2>1. CASE Next
      BY <2>1, TypeStep, SoundStep, ListStep DEF IInv
    <2>2. CASE UNCHANGED vars
      BY <2>2, Stutters
    <2> QED BY <2>1, <2>2
  <1> QED BY <1>1, <1>2, PTL DEF Spec

(* Every variable keeps to its type, and a queue is empty unless its socket *)
(* is open.                                                                 *)
THEOREM TypeCorrect == Spec => []TypeOK
  <1>1. IInv => TypeOK
    BY DEF IInv
  <1> QED BY <1>1, Invariant, PTL

(* The list of radios kept for a page that connects (lastDeviceList) is     *)
(* what the server knows now, if there is one (ws-relay.js:580-631).        *)
THEOREM KnownListIsCurrent == Spec => []ListIsCurrent
  <1>1. IInv => ListIsCurrent
    BY DEF IInv
  <1> QED BY <1>1, Invariant, PTL

(* Whatever was lost with a socket, and however many there were, a page     *)
(* that has heard everything shows what the server knows: replay and        *)
(* broadcasts leave no gap between them (ws-relay.js:1046-1305).            *)
THEOREM Convergence == Spec => []Converges
  <1>1. ASSUME IInv, Drained, ~torn PROVE Agrees
    <2>1. cur \in Socket /\ Open(cur) /\ \A s \in Socket : queue[s] = << >>
      BY <1>1 DEF IInv, TypeOK, Drained
    <2>2. Followed
      BY <1>1, <2>1 DEF Followed
    <2>3. ASSUME NEW f \in Part, Owed(f) PROVE PageHas(f) = Current(f)
      BY <1>1, <2>1, <2>2, <2>3 DEF IInv, Sound, PageTells, Silent
    <2>4. /\ page.bridge = link /\ page.radios = DeviceList(device, lora, mode) /\ page.mode = mode
          /\ due \/ page.nodes = nodes
      <3> DEFINE f(k) == [of |-> k, at |-> None]
      <3>1. \A k \in {"bridge", "radios", "mode", "nodes"} : f(k) \in Part /\ f(k).of = k
        BY DEF Part
      <3> HIDE DEF f
      <3>2. \A k \in {"bridge", "radios", "mode"} : PageHas(f(k)) = Current(f(k))
        BY <2>3, <3>1 DEF Owed
      <3>3. ~due => PageHas(f("nodes")) = Current(f("nodes"))
        BY <2>3, <3>1 DEF Owed
      <3> QED BY <3>1, <3>2, <3>3 DEF PageHas, Current
    <2>5. ASSUME NEW r \in Run, InFlight(r) PROVE page.trace[r] = trace[r]
      <3> DEFINE f == [of |-> "run", at |-> r]
      <3>1. f \in Part /\ f.of = "run" /\ f.at = r
        BY DEF Part
      <3> HIDE DEF f
      <3> QED BY <2>3, <2>5, <3>1 DEF Owed, PageHas, Current
    <2>6. ASSUME scan.active PROVE page.sweep = Swept(scan)
      <3> DEFINE f(k) == [of |-> k, at |-> None]
                 g(z) == [of |-> "found", at |-> z]
      <3>1. /\ \A k \in {"on", "where"} : f(k) \in Part /\ f(k).of = k
            /\ \A z \in Az : g(z) \in Part /\ g(z).of = "found" /\ g(z).at = z
        BY DEF Part
      <3> HIDE DEF f, g
      <3>2. PageHas(f("on")) = Current(f("on")) /\ PageHas(f("where")) = Current(f("where"))
        BY <2>3, <2>6, <3>1 DEF Owed
      <3>3. \A z \in Az : PageHas(g(z)) = Current(g(z))
        BY <2>3, <2>6, <3>1 DEF Owed
      <3>4. page.sweep.on = scan.active
        BY <3>1, <3>2 DEF PageHas, Current
      <3>5. page.sweep.az = scan.az /\ page.sweep.at = scan.at
        BY <3>1, <3>2 DEF PageHas, Current
      <3>6. \A z \in Az : page.sweep.found[z] = scan.found[z]
        BY <3>1, <3>3 DEF PageHas, Current
      <3>7. scan.found \in [Az -> 0 .. Levels] /\ scan.active = TRUE
        BY <1>1, <2>6 DEF IInv, TypeOK, Sweep
      <3>8. page.sweep \in [on : BOOLEAN, az : Az \cup {None}, at : Az \cup {None}, found : [Az -> 0 .. Levels]]
        BY <1>1 DEF IInv, Shape, PageShape
      <3>9. page.sweep.found = scan.found
        BY <3>6, <3>7, <3>8
      <3> QED BY <3>4, <3>5, <3>7, <3>8, <3>9 DEF Swept
    <2>7. page.live
      BY <1>1, <2>2 DEF IInv, Sound, Live
    <2> QED BY <2>4, <2>5, <2>6, <2>7 DEF Agrees
  <1>2. IInv => Converges
    BY <1>1 DEF Converges
  <1> QED BY <1>2, Invariant, PTL
=============================================================================
