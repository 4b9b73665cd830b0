-------------------------- MODULE TracerouteProofs --------------------------
(***************************************************************************)
(* The safety properties of Traceroute, for every set of nodes and radios  *)
(* and every number of runs.  IInv (Traceroute) is inductive; the          *)
(* properties follow from it.                                              *)
(***************************************************************************)
EXTENDS Traceroute, SequenceTheorems, TLAPS

-----------------------------------------------------------------------------
(* The sequences of phases a run can have said.                             *)

LEMMA HeadFacts ==
  ASSUME NEW d
  PROVE  /\ HeadOf(d) \in Seq(Phase)
         /\ Len(HeadOf(d)) = IF d \in Directional THEN 3 ELSE 1
         /\ \A i \in 1 .. Len(HeadOf(d)) : HeadOf(d)[i] # "dispatched"
         /\ d \in Directional => HeadOf(d)[3] = "aimed"
  <1>1. CASE d \in Directional
    BY <1>1 DEF HeadOf, Phase, Terminal
  <1>2. CASE d \notin Directional
    BY <1>2 DEF HeadOf, Phase, Terminal
  <1> QED BY <1>1, <1>2

LEMMA OpenFacts ==
  ASSUME NEW d
  PROVE  /\ OpenFeed(d) \in Seq(Phase)
         /\ Len(OpenFeed(d)) = Len(HeadOf(d)) + 1
         /\ OpenFeed(d)[Len(OpenFeed(d))] = "dispatched"
         /\ \A i \in 1 .. Len(HeadOf(d)) : OpenFeed(d)[i] = HeadOf(d)[i]
  <1>1. "dispatched" \in Phase
    BY DEF Phase
  <1> QED BY <1>1, HeadFacts, AppendProperties DEF OpenFeed

LEMMA ClosedFacts ==
  ASSUME NEW d, NEW p \in Ending
  PROVE  /\ Append(OpenFeed(d), p) \in Seq(Phase)
         /\ Len(Append(OpenFeed(d), p)) = Len(OpenFeed(d)) + 1
         /\ Append(OpenFeed(d), p)[Len(OpenFeed(d)) + 1] = p
         /\ \A i \in 1 .. Len(OpenFeed(d)) : Append(OpenFeed(d), p)[i] = OpenFeed(d)[i]
         /\ OpenFeed(d) \o <<p>> = Append(OpenFeed(d), p)
  <1>1. p \in Phase
    BY DEF Phase, Ending, Terminal
  <1>2. OpenFeed(d) \in Seq(Phase)
    BY OpenFacts
  <1>3. OpenFeed(d) \o <<p>> = Append(OpenFeed(d), p)
    BY <1>1, <1>2, AppendIsConcat
  <1> QED BY <1>1, <1>2, <1>3, AppendProperties

LEMMA AimingFacts ==
  /\ <<"resolved", "aiming">> \in Seq(Phase)
  /\ <<"resolved", "aiming">> \o <<"aim_failed">> = <<"resolved", "aiming", "aim_failed">>
  /\ <<"resolved", "aiming", "aim_failed">> \in Seq(Phase)
  /\ \A d \in Directional : <<"resolved", "aiming">> \o <<"aimed">> = HeadOf(d)
  /\ \A d \in Directional :
       <<"resolved", "aiming">> \o Append(<<"aimed">>, "dispatched") = OpenFeed(d)
  <1> DEFINE s == <<"resolved", "aiming">>
  <1>1. /\ s \in Seq(Phase) /\ Len(s) = 2 /\ s[1] = "resolved" /\ s[2] = "aiming"
        /\ <<"resolved", "aiming", "aim_failed">> \in Seq(Phase)
        /\ <<"resolved", "aiming", "aimed">> \in Seq(Phase)
        /\ <<"aim_failed">> \in Seq(Phase) /\ <<"aimed">> \in Seq(Phase)
        /\ <<"dispatched">> \in Seq(Phase)
    BY DEF Phase, Terminal
  <1>2. ASSUME NEW x \in {"aim_failed", "aimed"}
        PROVE  s \o <<x>> = <<"resolved", "aiming", x>>
    <2> DEFINE t == <<"resolved", "aiming", x>>
    <2>1. <<x>> \in Seq(Phase) /\ Len(<<x>>) = 1 /\ <<x>>[1] = x
      BY <1>1
    <2>2. t \in Seq(Phase) /\ Len(t) = 3 /\ t[1] = "resolved" /\ t[2] = "aiming" /\ t[3] = x
      BY <1>1
    <2>3. /\ s \o <<x>> \in Seq(Phase)
          /\ Len(s \o <<x>>) = 3
          /\ \A i \in 1 .. 3 : (s \o <<x>>)[i] = IF i <= 2 THEN s[i] ELSE <<x>>[i - 2]
      BY <1>1, <2>1, ConcatProperties
    <2>4. \A i \in 1 .. 3 : (s \o <<x>>)[i] = t[i]
      BY <1>1, <2>1, <2>2, <2>3
    <2> QED BY <2>2, <2>3, <2>4, SeqEqual
  <1>3. \A d \in Directional : s \o <<"aimed">> = HeadOf(d)
    BY <1>2 DEF HeadOf
  <1>4. s \o Append(<<"aimed">>, "dispatched") = Append(s \o <<"aimed">>, "dispatched")
    <2>1. Append(<<"aimed">>, "dispatched") = <<"aimed">> \o <<"dispatched">>
      BY <1>1, AppendIsConcat DEF Phase
    <2>2. s \o (<<"aimed">> \o <<"dispatched">>) = (s \o <<"aimed">>) \o <<"dispatched">>
      BY <1>1, ConcatAssociative
    <2>3. s \o <<"aimed">> \in Seq(Phase)
      BY <1>1, ConcatProperties
    <2>4. Append(s \o <<"aimed">>, "dispatched") = (s \o <<"aimed">>) \o <<"dispatched">>
      BY <2>3, AppendIsConcat DEF Phase
    <2> QED BY <2>1, <2>2, <2>4
  <1> QED BY <1>1, <1>2, <1>3, <1>4 DEF OpenFeed

LEMMA FirstFacts ==
  /\ << >> \o <<"resolved", "aiming">> = <<"resolved", "aiming">>
  /\ \A d : d \notin Directional =>
       /\ << >> \o <<"resolved">> = HeadOf(d)
       /\ << >> \o Append(<<"resolved">>, "dispatched") = OpenFeed(d)
  <1>1. <<"resolved", "aiming">> \in Seq(Phase) /\ <<"resolved">> \in Seq(Phase)
    BY DEF Phase
  <1>2. Append(<<"resolved">>, "dispatched") \in Seq(Phase)
    BY <1>1, AppendProperties DEF Phase
  <1> QED BY <1>1, <1>2, ConcatEmptySeq DEF HeadOf, OpenFeed

-----------------------------------------------------------------------------
(* Consequences of the invariant that several actions use.                  *)

LEMMA RunCases ==
  ASSUME IInv, NEW r \in Run
  PROVE  /\ pc[r] = "none" <=> FreshRun(r)
         /\ pc[r] = "aiming" <=> AimingRun(r)
         /\ pc[r] = "aim_failed" <=> RefusedRun(r)
         /\ pc[r] \in Ending \cup {"waiting"} <=> JoinedRun(r) \/ OpenRun(r) \/ ClosedRun(r)
         /\ pc[r] # "none" => CalledRun(r)
  <1>1. RunInv(r)
    BY DEF IInv
  <1> QED BY <1>1 DEF RunInv, FreshRun, AimingRun, RefusedRun, JoinedRun, OpenRun,
                      ClosedRun, Ending

LEMMA OpenIsNotClosed ==
  ASSUME NEW r \in Run
  PROVE  ~(OpenRun(r) /\ ClosedRun(r))
  BY DEF OpenRun, ClosedRun, Ending

(* Closing an entry keeps everything but what is said of requests and       *)
(* stored results.                                                          *)
CoreInv ==
  /\ live \subseteq Run
  /\ pc \in [Run -> Terminal \cup {"none", "aiming", "waiting"}]
  /\ pending \in [Node -> Run \cup {NoRun}]
  /\ callbacks \in [Run -> SUBSET Run]
  /\ armed \subseteq Run
  /\ feed \in [Run -> Seq(Phase)]
  /\ rows \in [Run -> Seq(Status)]
  /\ \A r \in Run : RunInv(r)
  /\ \A n \in Node : EntryInv(n)
  /\ \A o \in Run : CallbackInv(o)
  /\ \A c \in Run : WaitInv(c)
  /\ TimerPerEntry

LEMMA SettleKeepsCore ==
  ASSUME IInv, NEW r \in Run, NEW p \in Ending, OpenRun(r), Settle(r, p),
         UNCHANGED runVars
  PROVE  /\ CoreInv'
         /\ ClosedRun(r)'
         /\ \A q \in Run : OpenRun(q) \/ ClosedRun(q) => (OpenRun(q) \/ ClosedRun(q))'
         /\ \A q \in Run : rows[q] # << >> => rows'[q] = rows[q]
         /\ rows'[r] = <<RowOf(p)>>
  <1> DEFINE n == target[r]
  <1>t. TypeOK
    BY DEF IInv
  <1>1. n \in Node /\ radio[r] \in Radio /\ pending[n] = r /\ CalledRun(r)
    BY RunCases DEF OpenRun, CalledRun
  <1>p. p \in Terminal /\ p # "aim_failed" /\ RowOf(p) \in Status
    BY DEF Ending, Terminal, Status, RowOf
  <1>2. /\ feed' = [feed EXCEPT ![r] = Append(OpenFeed(radio[r]), p)]
        /\ live' = live \ {r}
    <2>1. <<p>>[Len(<<p>>)] = p
      OBVIOUS
    <2>2. r \in live /\ feed[r] = OpenFeed(radio[r])
      BY DEF OpenRun
    <2>3. feed' = [feed EXCEPT ![r] = feed[r] \o <<p>>]
      BY <2>2 DEF Settle, Tell
    <2>4. feed[r] \o <<p>> = Append(OpenFeed(radio[r]), p)
      BY <2>2, ClosedFacts
    <2> QED BY <1>p, <2>1, <2>3, <2>4 DEF Settle, Tell
  <1>3. /\ rows' = [rows EXCEPT ![r] = <<RowOf(p)>>]
        /\ rows[r] = << >>
    <2>1. rows[r] = << >>
      BY DEF OpenRun
    <2>2. Append(<< >>, RowOf(p)) = <<RowOf(p)>>
      BY <1>p
    <2> QED BY <2>1, <2>2 DEF Settle
  <1>4. /\ pending' = [pending EXCEPT ![n] = NoRun]
        /\ armed' = armed \ {r}
        /\ pc' = [c \in Run |-> IF c \in callbacks[r] THEN p ELSE pc[c]]
        /\ callbacks' = [callbacks EXCEPT ![r] = {}]
        /\ target' = target /\ radio' = radio /\ nextRunId' = nextRunId
    BY DEF Settle, runVars
  <1>5. \A c \in callbacks[r] : pc[c] = "waiting" /\ target[c] = n
    BY DEF IInv, CallbackInv
  <1>6. \A c \in Run : pc[c] = "waiting" /\ target[c] = n => c \in callbacks[r]
    BY <1>1 DEF IInv, WaitInv
  <1>7. r \in callbacks[r]
    BY DEF OpenRun
  <1>8. ClosedRun(r)'
    BY <1>t, <1>2, <1>3, <1>4, <1>7 DEF ClosedRun, TypeOK
  <1>9. ASSUME NEW q \in Run, q # r
        PROVE  /\ RunInv(q)'
               /\ OpenRun(q) => OpenRun(q)'
               /\ ClosedRun(q) => ClosedRun(q)'
    <2>1. /\ feed'[q] = feed[q] /\ rows'[q] = rows[q] /\ (q \in live' <=> q \in live)
          /\ callbacks'[q] = callbacks[q]
          /\ pc'[q] = IF q \in callbacks[r] THEN p ELSE pc[q]
      BY <1>t, <1>2, <1>3, <1>4, <1>9 DEF TypeOK
    <2>2. OpenRun(q) => target[q] # n /\ q \notin callbacks[r] /\ target[q] \in Node
      BY <1>1, <1>5, <1>9, RunCases DEF OpenRun, CalledRun
    <2>3. OpenRun(q) => OpenRun(q)'
      BY <1>t, <1>4, <2>1, <2>2 DEF OpenRun, TypeOK
    <2>4. ClosedRun(q) => ClosedRun(q)'
      BY <1>5, <1>4, <2>1 DEF ClosedRun, Ending
    <2>5. JoinedRun(q) => JoinedRun(q)'
      BY <1>4, <2>1 DEF JoinedRun, Ending
    <2>6. /\ FreshRun(q) => FreshRun(q)'
          /\ AimingRun(q) => AimingRun(q)'
          /\ RefusedRun(q) => RefusedRun(q)'
          /\ CalledRun(q) => CalledRun(q)'
      BY <1>4, <1>5, <2>1 DEF FreshRun, AimingRun, RefusedRun, CalledRun
    <2>7. RunInv(q)
      BY DEF IInv
    <2> QED BY <2>3, <2>4, <2>5, <2>6, <2>7 DEF RunInv
  <1>10. RunInv(r)'
    BY <1>1, <1>4, <1>8 DEF RunInv, CalledRun
  <1>11. ASSUME NEW m \in Node
         PROVE  EntryInv(m)'
    <2>1. m # n => pending'[m] = pending[m]
      BY <1>t, <1>4 DEF TypeOK
    <2>2. pending'[n] = NoRun
      BY <1>t, <1>1, <1>4 DEF TypeOK
    <2>3. pending[m] # NoRun => pending[m] \in Run /\ OpenRun(pending[m]) /\ target[pending[m]] = m
      BY <1>t DEF IInv, EntryInv, TypeOK
    <2>4. m # n /\ pending[m] # NoRun => pending[m] # r
      BY <2>3
    <2> QED BY <1>4, <1>9, <2>1, <2>2, <2>3, <2>4 DEF EntryInv
  <1>12. ASSUME NEW o \in Run
         PROVE  CallbackInv(o)'
    <2>1. o = r => callbacks'[o] = {}
      BY <1>t, <1>4 DEF TypeOK
    <2>2. o # r => callbacks'[o] = callbacks[o]
      BY <1>t, <1>4 DEF TypeOK
    <2>3. ASSUME o # r, NEW c \in callbacks[o]
          PROVE  /\ pending'[target[o]] = o /\ target[o] \in Node
                 /\ pc'[c] = "waiting" /\ target[c] = target[o]
      <3>1. pending[target[o]] = o /\ target[o] \in Node /\ pc[c] = "waiting" /\ target[c] = target[o]
        BY <2>3 DEF IInv, CallbackInv
      <3>2. target[o] # n
        BY <1>1, <2>3, <3>1
      <3>3. c \notin callbacks[r] /\ c \in Run
        BY <1>t, <1>5, <2>3, <3>1, <3>2 DEF TypeOK
      <3> QED BY <1>t, <1>4, <3>1, <3>2, <3>3 DEF TypeOK
    <2> QED BY <1>4, <2>1, <2>2, <2>3 DEF CallbackInv
  <1>13. ASSUME NEW c \in Run
         PROVE  WaitInv(c)'
    <2> SUFFICES ASSUME pc'[c] = "waiting"
                 PROVE  pending'[target[c]] # NoRun /\ c \in callbacks'[pending'[target[c]]]
      BY <1>4 DEF WaitInv
    <2>1. c \notin callbacks[r] /\ pc[c] = "waiting"
      BY <1>4 DEF Ending
    <2>2. target[c] # n /\ target[c] \in Node
      BY <1>6, <2>1, RunCases DEF CalledRun
    <2>3. pending[target[c]] # NoRun /\ c \in callbacks[pending[target[c]]]
      BY <2>1 DEF IInv, WaitInv
    <2>4. pending'[target[c]] = pending[target[c]] /\ pending[target[c]] # r
      BY <1>t, <1>4, <2>1, <2>2, <2>3 DEF TypeOK
    <2> QED BY <1>t, <1>4, <2>2, <2>3, <2>4 DEF TypeOK
  <1>14. TimerPerEntry'
    <2>1. armed = {pending[m] : m \in Node} \ {NoRun}
      BY DEF IInv, TimerPerEntry
    <2>2. \A m \in Node : pending[m] = r => m = n
      BY DEF IInv, EntryInv, NoRun, Run
    <2>3. \A m \in Node : pending'[m] = IF m = n THEN NoRun ELSE pending[m]
      BY <1>t, <1>4 DEF TypeOK
    <2>4. r # NoRun
      BY DEF Run, NoRun
    <2>5. ASSUME NEW x
          PROVE  x \in armed' <=> x \in {pending'[m] : m \in Node} \ {NoRun}
      BY <1>1, <1>4, <2>1, <2>2, <2>3, <2>4
    <2> QED BY <2>5 DEF TimerPerEntry
  <1>15. /\ live' \subseteq Run
         /\ pc' \in [Run -> Terminal \cup {"none", "aiming", "waiting"}]
         /\ pending' \in [Node -> Run \cup {NoRun}]
         /\ callbacks' \in [Run -> SUBSET Run]
         /\ armed' \subseteq Run
    BY <1>t, <1>p, <1>2, <1>4 DEF TypeOK
  <1>16. feed' \in [Run -> Seq(Phase)] /\ rows' \in [Run -> Seq(Status)]
    <2>1. Append(OpenFeed(radio[r]), p) \in Seq(Phase)
      BY ClosedFacts
    <2>2. <<RowOf(p)>> \in Seq(Status)
      BY <1>p
    <2> QED BY <1>t, <1>2, <1>3, <2>1, <2>2 DEF TypeOK
  <1>17. CoreInv'
    BY <1>9, <1>10, <1>11, <1>12, <1>13, <1>14, <1>15, <1>16 DEF CoreInv
  <1>18. \A q \in Run : rows[q] # << >> => rows'[q] = rows[q]
    BY <1>t, <1>3 DEF TypeOK
  <1>19. rows'[r] = <<RowOf(p)>>
    BY <1>t, <1>3 DEF TypeOK
  <1> QED BY <1>8, <1>9, <1>17, <1>18, <1>19

-----------------------------------------------------------------------------
(* Opening an entry and joining one.  r is a run that waits on no entry yet:*)
(* a run being called, or one whose aim has just been confirmed.            *)
Dispatching(r, n, phases, runs) ==
  /\ Dispatch(r, n, phases, runs)
  /\ pc[r] \in {"none", "aiming"}
  /\ target'[r] = n /\ radio'[r] \in Radio /\ r < nextRunId'
  /\ nextRunId' \in 1 .. MaxRuns + 1 /\ nextRunId <= nextRunId'
  /\ \A q \in Run \ {r} : q >= nextRunId => q >= nextRunId'
  /\ \A q \in Run \ {r} : target'[q] = target[q] /\ radio'[q] = radio[q]
  /\ runs \subseteq Run /\ r \in runs
  /\ \A q \in Run \ {r} : q \in runs <=> q \in live
  /\ phases[Len(phases)] \notin Terminal
  /\ Append(phases, "dispatched")[Len(Append(phases, "dispatched"))] = "dispatched"
  /\ feed[r] \o phases = HeadOf(radio'[r])
  /\ feed[r] \o Append(phases, "dispatched") = OpenFeed(radio'[r])
  /\ rows' = rows

LEMMA DispatchKeepsCore ==
  ASSUME IInv, NEW r \in Run, NEW n \in Node, NEW phases, NEW runs,
         Dispatching(r, n, phases, runs)
  PROVE  /\ CoreInv'
         /\ \A q \in Run \ {r} : OpenRun(q) \/ ClosedRun(q) => (OpenRun(q) \/ ClosedRun(q))'
         /\ Open(r, n, phases, runs) => OpenRun(r)'
  <1>h. /\ Dispatch(r, n, phases, runs)
        /\ pc[r] \in {"none", "aiming"}
        /\ target'[r] = n /\ radio'[r] \in Radio /\ r < nextRunId'
        /\ nextRunId' \in 1 .. MaxRuns + 1 /\ nextRunId <= nextRunId'
        /\ \A q \in Run \ {r} : q >= nextRunId => q >= nextRunId'
        /\ \A q \in Run \ {r} : target'[q] = target[q] /\ radio'[q] = radio[q]
        /\ runs \subseteq Run /\ r \in runs
        /\ \A q \in Run \ {r} : q \in runs <=> q \in live
        /\ phases[Len(phases)] \notin Terminal
        /\ Append(phases, "dispatched")[Len(Append(phases, "dispatched"))] = "dispatched"
        /\ feed[r] \o phases = HeadOf(radio'[r])
        /\ feed[r] \o Append(phases, "dispatched") = OpenFeed(radio'[r])
        /\ rows' = rows
    BY DEF Dispatching
  <1> USE <1>h
  <1>t. TypeOK
    BY DEF IInv
  <1>1. /\ pc' = [pc EXCEPT ![r] = "waiting"]
        /\ r \notin armed
        /\ \A o \in Run : r \notin callbacks[o]
        /\ callbacks[r] = {}
        /\ \A m \in Node : pending[m] # r
        /\ rows[r] = << >>
    <2>1. pc' = [pc EXCEPT ![r] = "waiting"] /\ pc[r] # "waiting"
      BY DEF Dispatch
    <2>2. \A o \in Run : r \notin callbacks[o]
      BY <2>1 DEF IInv, CallbackInv
    <2>3. \A m \in Node : pending[m] # r
      BY <2>1 DEF IInv, EntryInv, OpenRun, Run, NoRun
    <2>4. r \notin armed
      BY <2>3 DEF IInv, TimerPerEntry
    <2>5. callbacks[r] = {}
      <3>1. \A c \in callbacks[r] : pending[target[r]] = r /\ target[r] \in Node
        BY DEF IInv, CallbackInv
      <3> QED BY <2>3, <3>1
    <2>6. rows[r] = << >>
      BY <2>1, RunCases DEF FreshRun, AimingRun
    <2> QED BY <2>1, <2>2, <2>3, <2>4, <2>5, <2>6
  <1>2. \A q \in Run \ {r} : /\ pc'[q] = pc[q] /\ rows'[q] = rows[q]
                            /\ target'[q] = target[q] /\ radio'[q] = radio[q]
    BY <1>t, <1>1 DEF TypeOK
  <1>3. pc'[r] = "waiting" /\ rows'[r] = << >>
    BY <1>t, <1>1 DEF TypeOK
  <1>u. \A q \in Run \ {r} : CalledRun(q) => CalledRun(q)'
    BY <1>t, <1>2 DEF CalledRun, TypeOK, Run
  <1>v. CalledRun(r)'
    BY DEF CalledRun
  <1>w. \A q \in Run : pc[q] = "waiting" => target[q] \in Node /\ q # r
    BY RunCases DEF CalledRun
  <1>4. CASE Join(r, n, phases, runs)
    <2> DEFINE o == pending[n]
    <2>1. /\ o \in Run /\ o # r /\ o # NoRun /\ OpenRun(o) /\ target[o] = n
          /\ callbacks' = [callbacks EXCEPT ![o] = @ \cup {r}]
          /\ pending' = pending /\ armed' = armed
      BY <1>t, <1>1, <1>4 DEF Join, IInv, EntryInv, TypeOK
    <2>2. /\ feed' = [feed EXCEPT ![r] = HeadOf(radio'[r])]
          /\ live' = runs
      BY <1>4 DEF Join, Tell
    <2>3. JoinedRun(r)'
      BY <1>t, <1>3, <2>2, HeadFacts DEF JoinedRun, TypeOK
    <2>4. ASSUME NEW q \in Run \ {r}
          PROVE  /\ RunInv(q)'
                 /\ OpenRun(q) => OpenRun(q)'
                 /\ ClosedRun(q) => ClosedRun(q)'
      <3>1. /\ feed'[q] = feed[q] /\ (q \in live' <=> q \in live)
            /\ callbacks[q] \subseteq callbacks'[q]
        BY <1>t, <2>1, <2>2 DEF TypeOK
      <3>2. /\ OpenRun(q) => OpenRun(q)'
            /\ ClosedRun(q) => ClosedRun(q)'
            /\ JoinedRun(q) => JoinedRun(q)'
            /\ AimingRun(q) => AimingRun(q)'
            /\ RefusedRun(q) => RefusedRun(q)'
            /\ FreshRun(q) => FreshRun(q)'
        BY <1>2, <2>1, <3>1 DEF OpenRun, ClosedRun, JoinedRun, AimingRun, RefusedRun, FreshRun
      <3>3. RunInv(q)
        BY DEF IInv
      <3> QED BY <1>u, <3>2, <3>3 DEF RunInv
    <2>5. RunInv(r)'
      BY <1>v, <2>3 DEF RunInv
    <2>6. ASSUME NEW m \in Node
          PROVE  EntryInv(m)'
      <3>1. pending[m] # NoRun => /\ pending[m] \in Run \ {r}
                                  /\ OpenRun(pending[m]) /\ target[pending[m]] = m
        BY <1>t, <1>1 DEF IInv, EntryInv, TypeOK
      <3> QED BY <1>2, <2>1, <2>4, <3>1 DEF EntryInv
    <2>7. ASSUME NEW q \in Run
          PROVE  CallbackInv(q)'
      <3> SUFFICES ASSUME NEW c \in callbacks'[q]
                   PROVE  /\ pending'[target'[q]] = q /\ target'[q] \in Node
                          /\ pc'[c] = "waiting" /\ target'[c] = target'[q]
        BY DEF CallbackInv
      <3>1. CASE c = r
        <4>1. q = o
          BY <1>t, <1>1, <2>1, <3>1 DEF TypeOK
        <4> QED BY <1>2, <1>3, <2>1, <3>1, <4>1
      <3>2. CASE c # r
        <4>1. c \in callbacks[q] /\ c \in Run
          BY <1>t, <2>1, <3>2 DEF TypeOK
        <4>2. q # r
          BY <1>1, <4>1
        <4>3. pending[target[q]] = q /\ target[q] \in Node /\ pc[c] = "waiting" /\ target[c] = target[q]
          BY <4>1 DEF IInv, CallbackInv
        <4> QED BY <1>2, <2>1, <3>2, <4>1, <4>2, <4>3
      <3> QED BY <3>1, <3>2
    <2>8. ASSUME NEW c \in Run
          PROVE  WaitInv(c)'
      <3>1. CASE c = r
        BY <1>t, <2>1, <3>1 DEF WaitInv, TypeOK
      <3>2. CASE c # r
        <4>1. pc[c] = "waiting" => /\ pending[target[c]] # NoRun
                                   /\ c \in callbacks[pending[target[c]]]
          BY DEF IInv, WaitInv
        <4>2. pc[c] = "waiting" => pending[target[c]] \in Run
          BY <1>t, <1>w, <4>1 DEF TypeOK
        <4> QED BY <1>t, <1>2, <2>1, <3>2, <4>1, <4>2 DEF WaitInv, TypeOK
      <3> QED BY <3>1, <3>2
    <2>9. TimerPerEntry'
      BY <2>1 DEF IInv, TimerPerEntry
    <2>10. /\ live' \subseteq Run
           /\ pc' \in [Run -> Terminal \cup {"none", "aiming", "waiting"}]
           /\ pending' \in [Node -> Run \cup {NoRun}]
           /\ callbacks' \in [Run -> SUBSET Run]
           /\ armed' \subseteq Run
           /\ feed' \in [Run -> Seq(Phase)]
           /\ rows' \in [Run -> Seq(Status)]
      BY <1>t, <1>1, <2>1, <2>2, HeadFacts DEF TypeOK
    <2>11. ~Open(r, n, phases, runs)
      BY <1>4 DEF Open, Join
    <2> QED BY <2>4, <2>5, <2>6, <2>7, <2>8, <2>9, <2>10, <2>11 DEF CoreInv
  <1>5. CASE Open(r, n, phases, runs)
    <2>1. /\ pending[n] = NoRun
          /\ pending' = [pending EXCEPT ![n] = r]
          /\ callbacks' = [callbacks EXCEPT ![r] = {r}]
          /\ armed' = armed \cup {r}
      BY <1>5 DEF Open
    <2>2. /\ feed' = [feed EXCEPT ![r] = OpenFeed(radio'[r])]
          /\ live' = runs
      BY <1>5 DEF Open, Tell, Terminal
    <2>3. OpenRun(r)'
      BY <1>t, <1>3, <2>1, <2>2 DEF OpenRun, TypeOK
    <2>n. \A o \in Run : OpenRun(o) \/ callbacks[o] # {} =>
             pending[target[o]] = o /\ target[o] \in Node /\ target[o] # n
      <3>1. \A o \in Run : OpenRun(o) => pending[target[o]] = o /\ target[o] \in Node
        BY <1>w DEF OpenRun
      <3>2. \A o \in Run : callbacks[o] # {} => pending[target[o]] = o /\ target[o] \in Node
        BY DEF IInv, CallbackInv
      <3> QED BY <2>1, <3>1, <3>2 DEF NoRun, Run
    <2>4. ASSUME NEW q \in Run \ {r}
          PROVE  /\ RunInv(q)'
                 /\ OpenRun(q) => OpenRun(q)'
                 /\ ClosedRun(q) => ClosedRun(q)'
      <3>1. /\ feed'[q] = feed[q] /\ (q \in live' <=> q \in live)
            /\ callbacks[q] = callbacks'[q]
        BY <1>t, <2>1, <2>2 DEF TypeOK
      <3>2. OpenRun(q) => OpenRun(q)'
        BY <1>t, <1>2, <2>1, <2>n, <3>1 DEF OpenRun, TypeOK
      <3>3. /\ ClosedRun(q) => ClosedRun(q)'
            /\ JoinedRun(q) => JoinedRun(q)'
            /\ AimingRun(q) => AimingRun(q)'
            /\ RefusedRun(q) => RefusedRun(q)'
            /\ FreshRun(q) => FreshRun(q)'
        BY <1>2, <3>1 DEF ClosedRun, JoinedRun, AimingRun, RefusedRun, FreshRun
      <3>4. RunInv(q)
        BY DEF IInv
      <3> QED BY <1>u, <3>2, <3>3, <3>4 DEF RunInv
    <2>5. RunInv(r)'
      BY <1>v, <2>3 DEF RunInv
    <2>6. ASSUME NEW m \in Node
          PROVE  EntryInv(m)'
      <3>1. pending'[m] = IF m = n THEN r ELSE pending[m]
        BY <1>t, <2>1 DEF TypeOK
      <3>2. pending[m] # NoRun => /\ pending[m] \in Run \ {r}
                                  /\ OpenRun(pending[m]) /\ target[pending[m]] = m
        BY <1>t, <1>1 DEF IInv, EntryInv, TypeOK
      <3> QED BY <1>2, <2>3, <2>4, <3>1, <3>2 DEF EntryInv
    <2>7. ASSUME NEW q \in Run
          PROVE  CallbackInv(q)'
      <3> SUFFICES ASSUME NEW c \in callbacks'[q]
                   PROVE  /\ pending'[target'[q]] = q /\ target'[q] \in Node
                          /\ pc'[c] = "waiting" /\ target'[c] = target'[q]
        BY DEF CallbackInv
      <3>1. CASE q = r
        <4>1. c = r
          BY <1>t, <2>1, <3>1 DEF TypeOK
        <4> QED BY <1>t, <1>3, <2>1, <3>1, <4>1 DEF TypeOK
      <3>2. CASE q # r
        <4>1. c \in callbacks[q] /\ c \in Run
          BY <1>t, <2>1, <3>2 DEF TypeOK
        <4>2. c # r
          BY <1>1, <4>1
        <4>3. pc[c] = "waiting" /\ target[c] = target[q]
          BY <4>1 DEF IInv, CallbackInv
        <4>4. pending[target[q]] = q /\ target[q] \in Node /\ target[q] # n
          BY <2>n, <4>1
        <4> QED BY <1>t, <1>2, <2>1, <3>2, <4>1, <4>2, <4>3, <4>4 DEF TypeOK
      <3> QED BY <3>1, <3>2
    <2>8. ASSUME NEW c \in Run
          PROVE  WaitInv(c)'
      <3>1. CASE c = r
        BY <1>t, <2>1, <3>1 DEF WaitInv, TypeOK, NoRun, Run
      <3>2. CASE c # r
        <4>1. pc[c] = "waiting" => /\ pending[target[c]] # NoRun
                                   /\ c \in callbacks[pending[target[c]]]
                                   /\ target[c] \in Node /\ target[c] # n
          BY <1>w, <2>1 DEF IInv, WaitInv
        <4>2. pc[c] = "waiting" => pending[target[c]] \in Run /\ pending[target[c]] # r
          BY <1>t, <1>1, <4>1 DEF TypeOK
        <4> QED BY <1>t, <1>2, <2>1, <3>2, <4>1, <4>2 DEF WaitInv, TypeOK
      <3> QED BY <3>1, <3>2
    <2>9. TimerPerEntry'
      <3>1. armed = {pending[m] : m \in Node} \ {NoRun}
        BY DEF IInv, TimerPerEntry
      <3>2. \A m \in Node : pending'[m] = IF m = n THEN r ELSE pending[m]
        BY <1>t, <2>1 DEF TypeOK
      <3>3. r # NoRun
        BY DEF Run, NoRun
      <3>4. ASSUME NEW x
            PROVE  x \in armed' <=> x \in {pending'[m] : m \in Node} \ {NoRun}
        BY <2>1, <3>1, <3>2, <3>3
      <3> QED BY <3>4 DEF TimerPerEntry
    <2>10. /\ live' \subseteq Run
           /\ pc' \in [Run -> Terminal \cup {"none", "aiming", "waiting"}]
           /\ pending' \in [Node -> Run \cup {NoRun}]
           /\ callbacks' \in [Run -> SUBSET Run]
           /\ armed' \subseteq Run
           /\ feed' \in [Run -> Seq(Phase)]
           /\ rows' \in [Run -> Seq(Status)]
      BY <1>t, <1>1, <2>1, <2>2, OpenFacts DEF TypeOK
    <2> QED BY <2>3, <2>4, <2>5, <2>6, <2>7, <2>8, <2>9, <2>10 DEF CoreInv
  <1> QED BY <1>4, <1>5 DEF Dispatch

-----------------------------------------------------------------------------
(* Every step keeps the invariant.                                          *)

(* What Settle does not touch, once an entry is closed with p.              *)
LEMMA SettleKeepsInv ==
  ASSUME IInv, NEW r \in Run, NEW p \in Ending, OpenRun(r), Settle(r, p),
         UNCHANGED <<runVars, sent>>,
         posting' \subseteq posting,
         \/ UNCHANGED replyVars
         \/ /\ p = "answered"
            /\ \E q \in Request :
                 /\ repliedBy' = [repliedBy EXCEPT ![r] = @ \cup {q}]
                 /\ stored' = [stored EXCEPT ![target[r]] = [request |-> q, run |-> r]]
  PROVE  IInv'
  <1>t. TypeOK
    BY DEF IInv
  <1>1. /\ CoreInv' /\ ClosedRun(r)'
        /\ \A q \in Run : OpenRun(q) \/ ClosedRun(q) => (OpenRun(q) \/ ClosedRun(q))'
        /\ \A q \in Run : rows[q] # << >> => rows'[q] = rows[q]
        /\ rows'[r] = <<RowOf(p)>>
    BY SettleKeepsCore
  <1>2. /\ repliedBy' \in [Run -> SUBSET Request]
        /\ stored' \in [Node -> [request : Request, run : Run \cup {NoRun}]]
        /\ \A q \in Run : repliedBy[q] \subseteq repliedBy'[q]
    <2>1. CASE UNCHANGED replyVars
      BY <1>t, <2>1 DEF TypeOK, replyVars
    <2>2. CASE ~UNCHANGED replyVars
      <3>1. PICK q \in Request :
              /\ repliedBy' = [repliedBy EXCEPT ![r] = @ \cup {q}]
              /\ stored' = [stored EXCEPT ![target[r]] = [request |-> q, run |-> r]]
        BY <2>2
      <3>2. [request |-> q, run |-> r] \in [request : Request, run : Run \cup {NoRun}]
        OBVIOUS
      <3>3. stored' \in [Node -> [request : Request, run : Run \cup {NoRun}]]
        BY <1>t, <3>1, <3>2 DEF TypeOK
      <3>4. repliedBy' \in [Run -> SUBSET Request]
        BY <1>t, <3>1 DEF TypeOK
      <3>5. \A o \in Run : repliedBy[o] \subseteq repliedBy'[o]
        BY <1>t, <3>1 DEF TypeOK
      <3> QED BY <3>3, <3>4, <3>5
    <2> QED BY <2>1, <2>2
  <1>3. TypeOK'
    BY <1>t, <1>1, <1>2 DEF TypeOK, CoreInv, runVars
  <1>4. \A q \in (posting \cup sent)' : (OpenRun(q) \/ ClosedRun(q))'
    BY <1>t, <1>1 DEF IInv, TypeOK
  <1>5. ASSUME NEW n \in Node
        PROVE  StoredInv(n)'
    <2>1. CASE stored'[n] = stored[n]
      <3>1. stored[n].run # NoRun => /\ stored[n].run \in Run
                                     /\ rows[stored[n].run] = <<"ok">>
                                     /\ stored[n].request \in repliedBy[stored[n].run]
        BY <1>t DEF IInv, StoredInv, TypeOK
      <3>2. <<"ok">> # << >>
        OBVIOUS
      <3> QED BY <1>1, <1>2, <2>1, <3>1, <3>2 DEF StoredInv
    <2>2. CASE stored'[n] # stored[n]
      <3>1. PICK q \in Request :
              /\ p = "answered"
              /\ repliedBy' = [repliedBy EXCEPT ![r] = @ \cup {q}]
              /\ stored' = [stored EXCEPT ![target[r]] = [request |-> q, run |-> r]]
        BY <2>2 DEF replyVars
      <3>2. stored'[n] = [request |-> q, run |-> r]
        BY <1>t, <2>2, <3>1 DEF TypeOK
      <3>3. rows'[r] = <<"ok">> /\ q \in repliedBy'[r]
        BY <1>t, <1>1, <3>1 DEF RowOf, TypeOK
      <3> QED BY <3>2, <3>3 DEF StoredInv
    <2> QED BY <2>1, <2>2
  <1> QED BY <1>1, <1>3, <1>4, <1>5 DEF IInv, CoreInv

(* What a dispatch does not touch, and the request it may have posted.      *)
LEMMA DispatchKeepsInv ==
  ASSUME IInv, NEW r \in Run, NEW n, NEW phases, NEW runs,
         Dispatch(r, n, phases, runs),
         CoreInv',
         \A q \in Run \ {r} : OpenRun(q) \/ ClosedRun(q) => (OpenRun(q) \/ ClosedRun(q))',
         Open(r, n, phases, runs) => OpenRun(r)',
         pc[r] \in {"none", "aiming"},
         nextRunId' \in 1 .. MaxRuns + 1,
         target' \in [Run -> Node \cup {None}],
         radio' \in [Run -> Radio \cup {None}],
         UNCHANGED <<rows, sent, replyVars>>
  PROVE  IInv'
  <1>t. TypeOK
    BY DEF IInv
  <1>1. ~(OpenRun(r) \/ ClosedRun(r))
    BY DEF OpenRun, ClosedRun, Ending
  <1>2. \/ posting' = posting
        \/ posting' = posting \cup {r} /\ OpenRun(r)'
    BY DEF Dispatch, Join, Open
  <1>3. TypeOK'
    BY <1>t, <1>2 DEF TypeOK, CoreInv, replyVars
  <1>4. \A q \in (posting \cup sent)' : (OpenRun(q) \/ ClosedRun(q))'
    <2>1. \A q \in posting \cup sent : q \in Run \ {r} /\ (OpenRun(q) \/ ClosedRun(q))
      BY <1>t, <1>1 DEF IInv, TypeOK
    <2> QED BY <1>2, <2>1
  <1>5. \A m \in Node : StoredInv(m)'
    BY DEF IInv, StoredInv, replyVars
  <1> QED BY <1>3, <1>4, <1>5 DEF IInv, CoreInv

LEMMA NextRunIsFresh ==
  ASSUME IInv, NEW n \in Node, NEW d \in Radio, NewRun(n, d)
  PROVE  /\ nextRunId \in Run
         /\ FreshRun(nextRunId) /\ pc[nextRunId] = "none"
         /\ nextRunId' \in 1 .. MaxRuns + 1
         /\ nextRunId' = nextRunId + 1
         /\ target' \in [Run -> Node \cup {None}]
         /\ radio' \in [Run -> Radio \cup {None}]
         /\ target'[nextRunId] = n /\ radio'[nextRunId] = d
         /\ \A q \in Run \ {nextRunId} : target'[q] = target[q] /\ radio'[q] = radio[q]
  <1>1. TypeOK
    BY DEF IInv
  <1>2. nextRunId \in Run
    BY <1>1, RunAssumption DEF TypeOK, NewRun, Run
  <1>3. ~CalledRun(nextRunId)
    BY <1>1 DEF CalledRun, TypeOK
  <1>4. FreshRun(nextRunId)
    BY <1>2, <1>3 DEF IInv, RunInv
  <1>5. nextRunId' = nextRunId + 1 /\ nextRunId' \in 1 .. MaxRuns + 1
    BY <1>1, RunAssumption DEF TypeOK, NewRun
  <1>6. /\ target' = [target EXCEPT ![nextRunId] = n]
        /\ radio' = [radio EXCEPT ![nextRunId] = d]
        /\ target \in [Run -> Node \cup {None}]
        /\ radio \in [Run -> Radio \cup {None}]
    BY <1>1 DEF TypeOK, NewRun
  <1>7. pc[nextRunId] = "none"
    BY <1>4 DEF FreshRun
  <1> QED BY <1>2, <1>4, <1>5, <1>6, <1>7

LEMMA InitHolds ==
  Init => IInv
  <1> SUFFICES ASSUME Init PROVE IInv
    OBVIOUS
  <1>1. TypeOK
    BY RunAssumption DEF Init, TypeOK, NoReply, Request, Run
  <1>2. \A r \in Run : RunInv(r)
    BY DEF Init, RunInv, FreshRun, Run
  <1>3. \A n \in Node : EntryInv(n) /\ StoredInv(n)
    BY DEF Init, EntryInv, StoredInv, NoReply
  <1>4. \A r \in Run : CallbackInv(r) /\ WaitInv(r)
    BY DEF Init, CallbackInv, WaitInv
  <1>5. TimerPerEntry
    BY DEF Init, TimerPerEntry
  <1>6. \A r \in posting \cup sent : OpenRun(r) \/ ClosedRun(r)
    BY DEF Init
  <1> QED BY <1>1, <1>2, <1>3, <1>4, <1>5, <1>6 DEF IInv

LEMMA CallOmniKeepsInv ==
  ASSUME IInv, NEW n \in Node, NEW d \in Radio, CallOmni(n, d)
  PROVE  IInv'
  <1>0. nextRunId \in Run
    BY NextRunIsFresh DEF CallOmni
  <1>r. PICK r \in Run : r = nextRunId
    BY <1>0
  <1>s. PICK runs : runs = live \cup {r}
    OBVIOUS
  <1>p. PICK phases : phases = <<"resolved">>
    OBVIOUS
  <1>1. /\ d \notin Directional /\ NewRun(n, d)
        /\ Dispatch(r, n, phases, runs)
        /\ rows' = rows /\ UNCHANGED <<rows, sent, replyVars>>
    BY <1>r, <1>s, <1>p DEF CallOmni
  <1>2. /\ r \in Run /\ FreshRun(r) /\ pc[r] = "none"
        /\ nextRunId' \in 1 .. MaxRuns + 1 /\ nextRunId' = r + 1
        /\ target' \in [Run -> Node \cup {None}] /\ radio' \in [Run -> Radio \cup {None}]
        /\ target'[r] = n /\ radio'[r] = d
        /\ \A q \in Run \ {r} : target'[q] = target[q] /\ radio'[q] = radio[q]
    BY <1>1, <1>r, NextRunIsFresh
  <1>3. /\ runs \subseteq Run /\ r \in runs
        /\ \A q \in Run \ {r} : q \in runs <=> q \in live
    BY <1>s DEF IInv, TypeOK
  <1>4. /\ r < nextRunId' /\ nextRunId <= nextRunId'
        /\ \A q \in Run \ {r} : q >= nextRunId => q >= nextRunId'
    BY <1>2, <1>r DEF Run
  <1>5. feed[r] = << >>
    BY <1>2 DEF FreshRun
  <1>6. /\ feed[r] \o phases = HeadOf(radio'[r])
        /\ feed[r] \o Append(phases, "dispatched") = OpenFeed(radio'[r])
    BY <1>1, <1>2, <1>5, <1>p, FirstFacts
  <1>7. /\ phases[Len(phases)] \notin Terminal
        /\ Append(phases, "dispatched")[Len(Append(phases, "dispatched"))] = "dispatched"
    BY <1>p DEF Terminal
  <1>h. Dispatching(r, n, phases, runs)
    BY <1>1, <1>2, <1>3, <1>4, <1>6, <1>7 DEF Dispatching
  <1>8. /\ CoreInv'
        /\ \A q \in Run \ {r} : OpenRun(q) \/ ClosedRun(q) => (OpenRun(q) \/ ClosedRun(q))'
        /\ Open(r, n, phases, runs) => OpenRun(r)'
    BY <1>h, DispatchKeepsCore
  <1> QED BY <1>1, <1>2, <1>8, DispatchKeepsInv

LEMMA AimConfirmedKeepsInv ==
  ASSUME IInv, NEW r \in Run, AimConfirmed(r)
  PROVE  IInv'
  <1>t. TypeOK
    BY DEF IInv
  <1>0. target[r] \in Node
    BY RunCases DEF AimConfirmed, CalledRun
  <1>n. PICK n \in Node : n = target[r]
    BY <1>0
  <1>s. PICK runs : runs = live
    OBVIOUS
  <1>p. PICK phases : phases = <<"aimed">>
    OBVIOUS
  <1>1. /\ pc[r] = "aiming"
        /\ Dispatch(r, n, phases, runs)
        /\ UNCHANGED <<runVars, rows, sent, replyVars>>
    BY <1>n, <1>s, <1>p DEF AimConfirmed
  <1>2. /\ AimingRun(r) /\ CalledRun(r)
        /\ radio[r] \in Radio /\ r < nextRunId
    BY <1>1, RunCases DEF CalledRun
  <1>3. /\ feed[r] \o phases = HeadOf(radio[r])
        /\ feed[r] \o Append(phases, "dispatched") = OpenFeed(radio[r])
        /\ r \in runs /\ runs \subseteq Run
    BY <1>t, <1>2, <1>s, <1>p, AimingFacts DEF AimingRun, TypeOK
  <1>4. /\ phases[Len(phases)] \notin Terminal
        /\ Append(phases, "dispatched")[Len(Append(phases, "dispatched"))] = "dispatched"
    BY <1>p DEF Terminal
  <1>5. /\ target' = target /\ radio' = radio /\ nextRunId' = nextRunId /\ rows' = rows
        /\ nextRunId \in 1 .. MaxRuns + 1
        /\ target' \in [Run -> Node \cup {None}] /\ radio' \in [Run -> Radio \cup {None}]
    BY <1>t, <1>1 DEF runVars, TypeOK
  <1>6. nextRunId <= nextRunId
    BY <1>5
  <1>h. Dispatching(r, n, phases, runs)
    BY <1>1, <1>2, <1>3, <1>4, <1>5, <1>6, <1>n, <1>s DEF Dispatching
  <1>7. /\ CoreInv'
        /\ \A q \in Run \ {r} : OpenRun(q) \/ ClosedRun(q) => (OpenRun(q) \/ ClosedRun(q))'
        /\ Open(r, n, phases, runs) => OpenRun(r)'
    BY <1>h, DispatchKeepsCore
  <1> QED BY <1>1, <1>5, <1>7, DispatchKeepsInv

(* A step of one run that waits on no entry, before it and after it.        *)
Alone(r) ==
  /\ pc[r] \in {"none", "aiming"}
  /\ CalledRun(r)' /\ (AimingRun(r) \/ RefusedRun(r))'
  /\ nextRunId' \in 1 .. MaxRuns + 1
  /\ \A q \in Run \ {r} : /\ q >= nextRunId => q >= nextRunId'
                          /\ q < nextRunId => q < nextRunId'
                          /\ target'[q] = target[q] /\ radio'[q] = radio[q]
                          /\ pc'[q] = pc[q] /\ feed'[q] = feed[q] /\ rows'[q] = rows[q]
                          /\ q \in live' <=> q \in live
  /\ live' \subseteq Run
  /\ target' \in [Run -> Node \cup {None}] /\ radio' \in [Run -> Radio \cup {None}]
  /\ pc' \in [Run -> Terminal \cup {"none", "aiming", "waiting"}]
  /\ feed' \in [Run -> Seq(Phase)] /\ rows' \in [Run -> Seq(Status)]
  /\ UNCHANGED <<pending, callbacks, armed, posting, sent, replyVars>>

LEMMA AloneKeepsInv ==
  ASSUME IInv, NEW r \in Run, Alone(r)
  PROVE  IInv'
  <1>t. TypeOK
    BY DEF IInv
  <1>1. TypeOK'
    BY <1>t DEF Alone, TypeOK, replyVars
  <1>2. ASSUME NEW q \in Run \ {r}
        PROVE  /\ RunInv(q)'
               /\ OpenRun(q) => OpenRun(q)'
               /\ ClosedRun(q) => ClosedRun(q)'
    <2>1. /\ OpenRun(q) => OpenRun(q)'
          /\ ClosedRun(q) => ClosedRun(q)'
          /\ JoinedRun(q) => JoinedRun(q)'
          /\ AimingRun(q) => AimingRun(q)'
          /\ RefusedRun(q) => RefusedRun(q)'
          /\ FreshRun(q) => FreshRun(q)'
          /\ CalledRun(q) => CalledRun(q)'
      BY DEF Alone, OpenRun, ClosedRun, JoinedRun, AimingRun, RefusedRun, FreshRun, CalledRun
    <2>2. RunInv(q)
      BY DEF IInv
    <2> QED BY <2>1, <2>2 DEF RunInv
  <1>3. RunInv(r)'
    BY DEF Alone, RunInv
  <1>4. ~OpenRun(r) /\ ~ClosedRun(r) /\ rows[r] = << >>
    BY RunCases DEF Alone, OpenRun, ClosedRun, Ending, FreshRun, AimingRun
  <1>5. ASSUME NEW n \in Node
        PROVE  EntryInv(n)'
    <2>1. pending[n] # NoRun => /\ pending[n] \in Run \ {r}
                                /\ OpenRun(pending[n]) /\ target[pending[n]] = n
      BY <1>t, <1>4 DEF IInv, EntryInv, TypeOK
    <2> QED BY <1>2, <2>1 DEF EntryInv, Alone
  <1>6. \A c \in Run : pc[c] = "waiting" => c # r /\ target[c] \in Node
    BY RunCases DEF Alone, CalledRun
  <1>7. ASSUME NEW o \in Run
        PROVE  CallbackInv(o)'
    <2> SUFFICES ASSUME NEW c \in callbacks[o]
                 PROVE  /\ pending[target'[o]] = o /\ target'[o] \in Node
                        /\ pc'[c] = "waiting" /\ target'[c] = target'[o]
      BY DEF CallbackInv, Alone
    <2>1. /\ pending[target[o]] = o /\ target[o] \in Node
          /\ pc[c] = "waiting" /\ target[c] = target[o] /\ c \in Run \ {r}
      BY <1>t, <1>6 DEF IInv, CallbackInv, TypeOK
    <2>2. o # r /\ o # NoRun
      BY <1>4, <2>1 DEF IInv, EntryInv, Run, NoRun
    <2> QED BY <2>1, <2>2 DEF Alone
  <1>8. ASSUME NEW c \in Run
        PROVE  WaitInv(c)'
    <2>1. pc'[c] = "waiting" => c # r
      BY DEF Alone, AimingRun, RefusedRun
    <2>2. WaitInv(c)
      BY DEF IInv
    <2> QED BY <2>1, <2>2 DEF WaitInv, Alone
  <1>9. TimerPerEntry'
    BY DEF IInv, TimerPerEntry, Alone
  <1>10. \A q \in (posting \cup sent)' : (OpenRun(q) \/ ClosedRun(q))'
    <2>1. \A q \in posting \cup sent : q \in Run \ {r} /\ (OpenRun(q) \/ ClosedRun(q))
      BY <1>t, <1>4 DEF IInv, TypeOK
    <2> QED BY <1>2, <2>1 DEF Alone
  <1>11. ASSUME NEW n \in Node
         PROVE  StoredInv(n)'
    <2>1. stored[n].run # NoRun =>
            /\ stored[n].run \in Run
            /\ rows[stored[n].run] = <<"ok">>
            /\ stored[n].request \in repliedBy[stored[n].run]
      BY <1>t DEF IInv, StoredInv, TypeOK
    <2>2. <<"ok">> # << >>
      OBVIOUS
    <2>3. stored[n].run # NoRun => stored[n].run # r
      BY <1>4, <2>1, <2>2
    <2> QED BY <2>1, <2>3 DEF StoredInv, Alone, replyVars
  <1> QED BY <1>1, <1>2, <1>3, <1>5, <1>7, <1>8, <1>9, <1>10, <1>11 DEF IInv

(* A step of the gateway alone.                                             *)
LEMMA OthersKeepInv ==
  ASSUME IInv,
         UNCHANGED <<nextRunId, live, target, radio, pc, pending, callbacks, armed,
                     feed, rows, repliedBy, stored>>,
         posting' \cup sent' \subseteq posting \cup sent
  PROVE  IInv'
  <1>1. TypeOK'
    BY DEF IInv, TypeOK
  <1>2. /\ \A r \in Run : RunInv(r)'
        /\ \A r \in Run : OpenRun(r) \/ ClosedRun(r) => (OpenRun(r) \/ ClosedRun(r))'
    BY DEF IInv, RunInv, OpenRun, ClosedRun, FreshRun, AimingRun, RefusedRun, JoinedRun,
           CalledRun
  <1>3. /\ \A r \in Run : CallbackInv(r)' /\ WaitInv(r)'
        /\ \A n \in Node : EntryInv(n)' /\ StoredInv(n)'
        /\ TimerPerEntry'
    BY DEF IInv, CallbackInv, WaitInv, EntryInv, StoredInv, TimerPerEntry, OpenRun
  <1>4. \A r \in (posting \cup sent)' : (OpenRun(r) \/ ClosedRun(r))'
    BY <1>2 DEF IInv, TypeOK
  <1> QED BY <1>1, <1>2, <1>3, <1>4 DEF IInv

LEMMA CallDirectionalIsAlone ==
  ASSUME IInv, NEW n \in Node, NEW d \in Radio, CallDirectional(n, d),
         NEW r \in Run, r = nextRunId
  PROVE  Alone(r)
  <1>t. TypeOK
    BY DEF IInv
  <1>1. /\ d \in Directional /\ NewRun(n, d)
        /\ pc' = [pc EXCEPT ![r] = "aiming"]
        /\ Tell(r, <<"resolved", "aiming">>, live \cup {r})
        /\ UNCHANGED <<pending, callbacks, armed, posting, sent, rows, replyVars>>
    BY DEF CallDirectional
  <1>2. /\ FreshRun(r) /\ pc[r] = "none"
        /\ nextRunId' \in 1 .. MaxRuns + 1 /\ nextRunId' = r + 1
        /\ target' \in [Run -> Node \cup {None}] /\ radio' \in [Run -> Radio \cup {None}]
        /\ target'[r] = n /\ radio'[r] = d
        /\ \A q \in Run \ {r} : target'[q] = target[q] /\ radio'[q] = radio[q]
    BY <1>1, NextRunIsFresh
  <1>3. /\ feed' = [feed EXCEPT ![r] = <<"resolved", "aiming">>]
        /\ live' = live \cup {r}
    <2>1. feed[r] \o <<"resolved", "aiming">> = <<"resolved", "aiming">>
      BY <1>2, FirstFacts DEF FreshRun
    <2>2. <<"resolved", "aiming">>[Len(<<"resolved", "aiming">>)] \notin Terminal
      BY DEF Terminal
    <2>3. r \in live \cup {r}
      OBVIOUS
    <2>4. feed' = [feed EXCEPT ![r] = feed[r] \o <<"resolved", "aiming">>]
      BY <1>1, <2>3 DEF Tell
    <2> QED BY <1>1, <2>1, <2>2, <2>4 DEF Tell
  <1>4. AimingRun(r)' /\ CalledRun(r)'
    <2>1. rows[r] = << >>
      BY <1>2 DEF FreshRun
    <2> QED BY <1>t, <1>1, <1>2, <1>3, <2>1 DEF AimingRun, CalledRun, TypeOK, Run
  <1>5. \A q \in Run \ {r} : /\ q >= nextRunId => q >= nextRunId'
                            /\ q < nextRunId => q < nextRunId'
    BY <1>2 DEF Run
  <1>6. feed' \in [Run -> Seq(Phase)]
    BY <1>t, <1>3, AimingFacts DEF TypeOK
  <1> QED BY <1>t, <1>1, <1>2, <1>3, <1>4, <1>5, <1>6 DEF Alone, TypeOK

LEMMA CallDirectionalKeepsInv ==
  ASSUME IInv, NEW n \in Node, NEW d \in Radio, CallDirectional(n, d)
  PROVE  IInv'
  <1>1. PICK r \in Run : r = nextRunId
    BY NextRunIsFresh DEF CallDirectional
  <1> QED BY <1>1, CallDirectionalIsAlone, AloneKeepsInv

LEMMA AimRefusedKeepsInv ==
  ASSUME IInv, NEW r \in Run, AimRefused(r)
  PROVE  IInv'
  <1>t. TypeOK
    BY DEF IInv
  <1>1. /\ pc[r] = "aiming"
        /\ pc' = [pc EXCEPT ![r] = "aim_failed"]
        /\ UNCHANGED <<runVars, pending, callbacks, armed, posting, sent, replyVars>>
    BY DEF AimRefused
  <1>2. AimingRun(r) /\ CalledRun(r)
    BY <1>1, RunCases
  <1>3. /\ feed' = [feed EXCEPT ![r] = <<"resolved", "aiming", "aim_failed">>]
        /\ live' = live \ {r}
    <2>1. feed[r] \o <<"aim_failed">> = <<"resolved", "aiming", "aim_failed">> /\ r \in live
      BY <1>2, AimingFacts DEF AimingRun
    <2>2. <<"aim_failed">>[Len(<<"aim_failed">>)] \in Terminal
      BY DEF Terminal
    <2> QED BY <2>1, <2>2 DEF Tell, AimRefused
  <1>4. rows' = [rows EXCEPT ![r] = <<"aim_failed">>]
    <2>1. rows[r] = << >> /\ Append(<< >>, "aim_failed") = <<"aim_failed">>
      BY <1>2 DEF AimingRun
    <2> QED BY <2>1 DEF AimRefused
  <1>5. RefusedRun(r)' /\ CalledRun(r)'
    BY <1>t, <1>1, <1>2, <1>3, <1>4 DEF RefusedRun, CalledRun, runVars, TypeOK
  <1>6. feed' \in [Run -> Seq(Phase)] /\ rows' \in [Run -> Seq(Status)]
    <2>1. <<"aim_failed">> \in Seq(Status)
      BY DEF Status
    <2> QED BY <1>t, <1>3, <1>4, <2>1, AimingFacts DEF TypeOK
  <1>7. Alone(r)
    BY <1>t, <1>1, <1>3, <1>4, <1>5, <1>6 DEF Alone, TypeOK, Terminal, runVars
  <1> QED BY <1>7, AloneKeepsInv

LEMMA TimerFiresKeepsInv ==
  ASSUME IInv, NEW r \in Run, TimerFires(r)
  PROVE  IInv'
  <1>1. pending[target[r]] = r
    <2>1. PICK n \in Node : pending[n] = r /\ r # NoRun
      BY DEF TimerFires, IInv, TimerPerEntry
    <2> QED BY <2>1 DEF IInv, EntryInv
  <1>2. OpenRun(r)
    <2>1. PICK n \in Node : pending[n] = r /\ r # NoRun
      BY DEF TimerFires, IInv, TimerPerEntry
    <2> QED BY <2>1 DEF IInv, EntryInv
  <1>3. Settle(r, "timeout") /\ UNCHANGED <<runVars, posting, sent, replyVars>>
    BY <1>1 DEF TimerFires
  <1> QED BY <1>2, <1>3, SettleKeepsInv DEF Ending

LEMMA PostFailsKeepsInv ==
  ASSUME IInv, NEW r \in Run, PostFails(r)
  PROVE  IInv'
  <1>t. TypeOK
    BY DEF IInv
  <1>0. OpenRun(r) \/ ClosedRun(r)
    BY DEF PostFails, IInv
  <1>1. CASE pending[target[r]] = r
    <2>1. Settle(r, "send_failed") /\ UNCHANGED <<runVars, sent, replyVars>>
          /\ posting' \subseteq posting
      BY <1>1 DEF PostFails
    <2>2. target[r] \in Node
      BY <1>0, RunCases DEF OpenRun, ClosedRun, Ending, CalledRun
    <2>3. OpenRun(r)
      BY <1>1, <2>2 DEF IInv, EntryInv, Run, NoRun
    <2> QED BY <2>1, <2>3, SettleKeepsInv DEF Ending
  <1>2. CASE pending[target[r]] # r
    <2>1. /\ posting' = posting \ {r}
          /\ UNCHANGED <<nextRunId, live, target, radio, pc, pending, callbacks, armed,
                         sent, feed, rows, repliedBy, stored>>
      BY <1>2 DEF PostFails, runVars, replyVars
    <2> QED BY <2>1, OthersKeepInv
  <1> QED BY <1>1, <1>2

LEMMA HandlePacketKeepsInv ==
  ASSUME IInv, NEW n \in Node, NEW q \in Request, HandlePacket(n, q)
  PROVE  IInv'
  <1>t. TypeOK
    BY DEF IInv
  <1>1. CASE pending[n] # NoRun
    <2>0. pending[n] \in Run
      BY <1>t, <1>1 DEF TypeOK
    <2>r. PICK r \in Run : r = pending[n]
      BY <2>0
    <2>1. OpenRun(r) /\ target[r] = n
      BY <1>1, <2>r DEF IInv, EntryInv
    <2>2. /\ Settle(r, "answered")
          /\ repliedBy' = [repliedBy EXCEPT ![r] = @ \cup {q}]
          /\ stored' = [stored EXCEPT ![target[r]] = [request |-> q, run |-> r]]
          /\ UNCHANGED <<runVars, sent>>
          /\ posting' = posting
      BY <1>1, <2>r, <2>1 DEF HandlePacket
    <2> QED BY <2>1, <2>2, SettleKeepsInv DEF Ending
  <1>2. CASE pending[n] = NoRun
    <2>1. /\ stored' = [stored EXCEPT ![n] = [request |-> q, run |-> NoRun]]
          /\ UNCHANGED <<nextRunId, live, target, radio, pc, pending, callbacks, armed,
                         posting, sent, feed, rows, repliedBy>>
      BY <1>2 DEF HandlePacket, runVars
    <2>2. TypeOK'
      BY <1>t, <2>1 DEF TypeOK
    <2>3. \A m \in Node : StoredInv(m)'
      BY <1>t, <2>1 DEF IInv, StoredInv, TypeOK
    <2>4. /\ \A o \in Run : RunInv(o)' /\ CallbackInv(o)' /\ WaitInv(o)'
          /\ \A m \in Node : EntryInv(m)'
          /\ TimerPerEntry'
          /\ \A o \in (posting \cup sent)' : (OpenRun(o) \/ ClosedRun(o))'
      BY <2>1 DEF IInv, RunInv, CallbackInv, WaitInv, EntryInv, TimerPerEntry, OpenRun,
                  ClosedRun, FreshRun, AimingRun, RefusedRun, JoinedRun, CalledRun
    <2> QED BY <2>2, <2>3, <2>4 DEF IInv
  <1> QED BY <1>1, <1>2

THEOREM StepKeepsInv ==
  IInv /\ [Next]_vars => IInv'
  <1> SUFFICES ASSUME IInv, [Next]_vars PROVE IInv'
    OBVIOUS
  <1>1. ASSUME NEW n \in Node, NEW d \in Radio, CallOmni(n, d) PROVE IInv'
    BY <1>1, CallOmniKeepsInv
  <1>2. ASSUME NEW n \in Node, NEW d \in Radio, CallDirectional(n, d) PROVE IInv'
    BY <1>2, CallDirectionalKeepsInv
  <1>3. ASSUME NEW r \in Run, AimConfirmed(r) PROVE IInv'
    BY <1>3, AimConfirmedKeepsInv
  <1>4. ASSUME NEW r \in Run, AimRefused(r) PROVE IInv'
    BY <1>4, AimRefusedKeepsInv
  <1>5. ASSUME NEW r \in Run, TimerFires(r) PROVE IInv'
    BY <1>5, TimerFiresKeepsInv
  <1>6. ASSUME NEW r \in Run, PostFails(r) PROVE IInv'
    BY <1>6, PostFailsKeepsInv
  <1>7. ASSUME NEW n \in Node, NEW q \in Replies(n), HandlePacket(n, q) PROVE IInv'
    <2>1. q \in Request
      BY DEF IInv, TypeOK, Replies, Request
    <2> QED BY <1>7, <2>1, HandlePacketKeepsInv
  <1>8. ASSUME NEW r \in Run, Transmit(r) PROVE IInv'
    <2>1. /\ sent' = sent \cup {r} /\ r \in posting
          /\ UNCHANGED <<nextRunId, live, target, radio, pc, pending, callbacks, armed,
                         posting, feed, rows, repliedBy, stored>>
      BY <1>8 DEF Transmit, runVars, replyVars
    <2> QED BY <2>1, OthersKeepInv
  <1>9. ASSUME NEW r \in Run, PostSucceeds(r) PROVE IInv'
    <2>1. /\ posting' = posting \ {r}
          /\ UNCHANGED <<nextRunId, live, target, radio, pc, pending, callbacks, armed,
                         sent, feed, rows, repliedBy, stored>>
      BY <1>9 DEF PostSucceeds, runVars, replyVars
    <2> QED BY <2>1, OthersKeepInv
  <1>10. CASE UNCHANGED vars
    <2>1. UNCHANGED <<nextRunId, live, target, radio, pc, pending, callbacks, armed,
                      posting, sent, feed, rows, repliedBy, stored>>
      BY <1>10 DEF vars
    <2> QED BY <2>1, OthersKeepInv
  <1> QED BY <1>1, <1>2, <1>3, <1>4, <1>5, <1>6, <1>7, <1>8, <1>9, <1>10
          DEF Next, Program, Gateway

(* The inductive invariant holds in every reachable state: what each run    *)
(* has reported and stored, the entries, timers, waiting callers and posted *)
(* requests of traceroute.js always fit together.                           *)
THEOREM InvariantHolds ==
  Spec => []IInv
  BY InitHolds, StepKeepsInv, PTL DEF Spec

(* Every variable keeps to its type; the status column holds only the four  *)
(* words its readers know.                                                  *)
THEOREM TypesHold ==
  Spec => []TypeOK
  <1>1. IInv => TypeOK
    BY DEF IInv
  <1> QED BY <1>1, InvariantHolds, PTL

-----------------------------------------------------------------------------
(* The safety properties, from the invariant.                               *)

LEMMA SaidDispatched ==
  ASSUME IInv, NEW r \in Run
  PROVE  /\ Opened(r) <=> OpenRun(r) \/ ClosedRun(r)
         /\ IsOpen(r) <=> OpenRun(r)
  <1>1. OpenRun(r) => Opened(r)
    BY OpenFacts, HeadFacts DEF OpenRun, Opened, Said
  <1>2. ClosedRun(r) => Opened(r)
    <2> SUFFICES ASSUME ClosedRun(r) PROVE Opened(r)
      OBVIOUS
    <2> DEFINE k == Len(OpenFeed(radio[r]))
    <2>1. /\ k \in Nat /\ k >= 1
          /\ OpenFeed(radio[r])[k] = "dispatched"
      BY OpenFacts, HeadFacts
    <2>2. /\ feed[r] = Append(OpenFeed(radio[r]), pc[r])
          /\ pc[r] \in Ending
      BY DEF ClosedRun
    <2>3. Len(feed[r]) = k + 1 /\ feed[r][k] = "dispatched"
      BY <2>1, <2>2, ClosedFacts
    <2> QED BY <2>1, <2>3 DEF Opened, Said
  <1>3. JoinedRun(r) => ~Opened(r)
    BY HeadFacts DEF JoinedRun, Opened, Said
  <1>4. FreshRun(r) \/ AimingRun(r) \/ RefusedRun(r) => ~Opened(r)
    BY DEF FreshRun, AimingRun, RefusedRun, Opened, Said
  <1>5. RunInv(r)
    BY DEF IInv
  <1>6. OpenRun(r) => IsOpen(r)
    BY RunCases DEF OpenRun, IsOpen, CalledRun, Ending
  <1>7. IsOpen(r) => OpenRun(r)
    BY DEF IsOpen, IInv, EntryInv, Run, NoRun
  <1> QED BY <1>1, <1>2, <1>3, <1>4, <1>5, <1>6, <1>7 DEF RunInv

(* A reply, the timer and a late rejection of the post race to close an     *)
(* entry: whichever wins, there is one outcome, and feed and history agree. *)
THEOREM OneOutcome ==
  Spec => []OneOutcomePerDispatch
  <1>1. IInv => OneOutcomePerDispatch
    <2> SUFFICES ASSUME IInv, NEW r \in Run, Opened(r)
                 PROVE  /\ IsOpen(r) => rows[r] = << >>
                        /\ ~IsOpen(r) => \E p \in Terminal \ {"aim_failed"} :
                                            Said(r, p) /\ rows[r] = <<RowOf(p)>>
      BY DEF OneOutcomePerDispatch
    <2>1. IsOpen(r) => rows[r] = << >>
      BY SaidDispatched DEF OpenRun
    <2>2. ASSUME ClosedRun(r)
          PROVE  \E p \in Terminal \ {"aim_failed"} : Said(r, p) /\ rows[r] = <<RowOf(p)>>
      <3> DEFINE k == Len(OpenFeed(radio[r]))
      <3>1. k \in Nat
        BY OpenFacts, HeadFacts
      <3>2. /\ feed[r] = Append(OpenFeed(radio[r]), pc[r])
            /\ pc[r] \in Ending /\ rows[r] = <<RowOf(pc[r])>>
        BY <2>2 DEF ClosedRun
      <3>3. Len(feed[r]) = k + 1 /\ feed[r][k + 1] = pc[r]
        BY <3>2, ClosedFacts
      <3>4. Said(r, pc[r])
        BY <3>1, <3>3 DEF Said
      <3>5. pc[r] \in Terminal \ {"aim_failed"}
        BY <3>2 DEF Ending, Terminal
      <3> QED BY <3>2, <3>4, <3>5
    <2> QED BY <2>1, <2>2, SaidDispatched
  <1> QED BY <1>1, InvariantHolds, PTL

(* No entry waits without its timer and no timer outlives its entry.        *)
THEOREM TimersMatchEntries ==
  Spec => []TimerPerEntry
  <1>1. IInv => TimerPerEntry
    BY DEF IInv
  <1> QED BY <1>1, InvariantHolds, PTL

(* Every caller that waits is on the list of one open entry for its node.   *)
THEOREM WaitersAreListed ==
  Spec => []CallersAreListed
  <1>1. IInv => CallersAreListed
    <2> SUFFICES ASSUME IInv, NEW r \in Run
                 PROVE  IF pc[r] = "waiting"
                          THEN \E o \in Run : /\ {x \in Run : r \in callbacks[x]} = {o}
                                              /\ pending[target[r]] = o
                          ELSE {x \in Run : r \in callbacks[x]} = {}
      BY DEF CallersAreListed
    <2>1. \A x \in Run : r \in callbacks[x] =>
             pending[target[x]] = x /\ pc[r] = "waiting" /\ target[r] = target[x]
      BY DEF IInv, CallbackInv
    <2>2. CASE pc[r] = "waiting"
      <3>1. target[r] \in Node
        BY <2>2, RunCases DEF CalledRun
      <3>2. pending[target[r]] \in Run /\ r \in callbacks[pending[target[r]]]
        BY <2>2, <3>1 DEF IInv, WaitInv, TypeOK
      <3>3. {x \in Run : r \in callbacks[x]} = {pending[target[r]]}
        BY <2>1, <3>2
      <3> QED BY <2>2, <3>2, <3>3
    <2>3. CASE pc[r] # "waiting"
      BY <2>1, <2>3
    <2> QED BY <2>2, <2>3
  <1> QED BY <1>1, InvariantHolds, PTL

(* A request of a directional radio goes out only after its aim was         *)
(* confirmed, and a refused aim transmits nothing.                          *)
THEOREM NothingUnaimedIsSent ==
  Spec => []NothingSentUnaimed
  <1>1. IInv => NothingSentUnaimed
    <2> SUFFICES ASSUME IInv, NEW r \in posting \cup sent
                 PROVE  /\ pc[r] # "aim_failed"
                        /\ radio[r] \in Directional => Said(r, "aimed")
      BY DEF NothingSentUnaimed
    <2>1. r \in Run /\ (OpenRun(r) \/ ClosedRun(r))
      BY DEF IInv, TypeOK
    <2>2. pc[r] # "aim_failed"
      BY <2>1 DEF OpenRun, ClosedRun, Ending
    <2>3. ASSUME radio[r] \in Directional
          PROVE  Said(r, "aimed")
      <3>1. /\ Len(OpenFeed(radio[r])) = 4
            /\ OpenFeed(radio[r])[3] = "aimed"
        <4>1. Len(HeadOf(radio[r])) = 3 /\ HeadOf(radio[r])[3] = "aimed"
          BY <2>3, HeadFacts
        <4>2. /\ Len(OpenFeed(radio[r])) = Len(HeadOf(radio[r])) + 1
              /\ \A i \in 1 .. Len(HeadOf(radio[r])) :
                   OpenFeed(radio[r])[i] = HeadOf(radio[r])[i]
          BY OpenFacts
        <4>3. OpenFeed(radio[r])[3] = HeadOf(radio[r])[3]
          BY <4>1, <4>2
        <4> QED BY <4>1, <4>2, <4>3
      <3>2. OpenRun(r) => feed[r][3] = "aimed" /\ Len(feed[r]) = 4
        BY <3>1 DEF OpenRun
      <3>3. ClosedRun(r) => feed[r][3] = "aimed" /\ Len(feed[r]) = 5
        <4>1. ClosedRun(r) => /\ pc[r] \in Ending
                              /\ feed[r] = Append(OpenFeed(radio[r]), pc[r])
          BY DEF ClosedRun
        <4>2. ASSUME NEW p \in Ending
              PROVE  /\ Append(OpenFeed(radio[r]), p)[3] = "aimed"
                     /\ Len(Append(OpenFeed(radio[r]), p)) = 5
          <5>1. /\ Len(Append(OpenFeed(radio[r]), p)) = Len(OpenFeed(radio[r])) + 1
                /\ \A i \in 1 .. Len(OpenFeed(radio[r])) :
                     Append(OpenFeed(radio[r]), p)[i] = OpenFeed(radio[r])[i]
            BY ClosedFacts
          <5>2. Append(OpenFeed(radio[r]), p)[3] = OpenFeed(radio[r])[3]
            BY <3>1, <5>1
          <5> QED BY <3>1, <5>1, <5>2
        <4> QED BY <4>1, <4>2
      <3> QED BY <2>1, <3>2, <3>3 DEF Said
    <2> QED BY <2>2, <2>3
  <1> QED BY <1>1, InvariantHolds, PTL

(* A connecting client is told of every dispatch in flight and of none that *)
(* is over.                                                                 *)
THEOREM ReplayIsCurrent ==
  Spec => []ReplayedDispatchIsOpen
  <1>1. IInv => ReplayedDispatchIsOpen
    BY SaidDispatched DEF ReplayedDispatchIsOpen, OpenRun, ClosedRun
  <1> QED BY <1>1, InvariantHolds, PTL

(* A stored result that names a run is the outcome that run reported.       *)
THEOREM AttributionHolds ==
  Spec => []AttributionIsTheOutcome
  <1>1. IInv => AttributionIsTheOutcome
    BY DEF IInv, StoredInv, AttributionIsTheOutcome
  <1> QED BY <1>1, InvariantHolds, PTL

-----------------------------------------------------------------------------
(* What a step may do.                                                      *)

LEMMA SettleClosesWhole ==
  ASSUME IInv, NEW r \in Run, NEW p \in Ending, OpenRun(r), Settle(r, p),
         NEW n \in Node, pending'[n] # pending[n]
  PROVE  /\ pending'[n] = NoRun
         /\ \A c \in callbacks[pending[n]] : pc'[c] \in Terminal
  <1>t. TypeOK
    BY DEF IInv
  <1>1. n = target[r] /\ pending'[n] = NoRun
    BY <1>t DEF Settle, TypeOK
  <1>2. pending[n] = r
    BY <1>1 DEF OpenRun
  <1>3. callbacks[r] \subseteq Run /\ p \in Terminal
    BY <1>t DEF TypeOK, Ending, Terminal
  <1> QED BY <1>1, <1>2, <1>3 DEF Settle

(* Which steps close an entry, which open one, and that no other touches    *)
(* either.                                                                  *)
LEMMA StepOnEntries ==
  ASSUME IInv, [Next]_vars
  PROVE  \/ \E r \in Run, p \in Ending : OpenRun(r) /\ Settle(r, p)
         \/ \E r \in Run, n \in Node : \E phases, runs :
              /\ Dispatch(r, n, phases, runs)
              /\ phases \in Seq(Phase) /\ Len(phases) > 0 /\ r \in runs
         \/ \E r \in Run : \E phases, runs :
              /\ Tell(r, phases, runs)
              /\ phases \in Seq(Phase) /\ Len(phases) > 0 /\ r \in runs
              /\ UNCHANGED pending
         \/ UNCHANGED <<pending, feed>>
  <1> DEFINE Closes == \E r \in Run, p \in Ending : OpenRun(r) /\ Settle(r, p)
             Dispatches == \E r \in Run, n \in Node : \E phases, runs :
                              /\ Dispatch(r, n, phases, runs)
                              /\ phases \in Seq(Phase) /\ Len(phases) > 0 /\ r \in runs
             Tells == \E r \in Run : \E phases, runs :
                         /\ Tell(r, phases, runs)
                         /\ phases \in Seq(Phase) /\ Len(phases) > 0 /\ r \in runs
                         /\ UNCHANGED pending
             Neither == UNCHANGED <<pending, feed>>
  <1>0. /\ <<"resolved">> \in Seq(Phase) /\ Len(<<"resolved">>) > 0
        /\ <<"aimed">> \in Seq(Phase) /\ Len(<<"aimed">>) > 0
        /\ <<"aim_failed">> \in Seq(Phase) /\ Len(<<"aim_failed">>) > 0
        /\ <<"resolved", "aiming">> \in Seq(Phase) /\ Len(<<"resolved", "aiming">>) > 0
    BY DEF Phase, Terminal
  <1>1. ASSUME NEW n \in Node, NEW d \in Radio, CallOmni(n, d)
        PROVE  Dispatches
    <2>1. /\ Dispatch(nextRunId, n, <<"resolved">>, live \cup {nextRunId})
          /\ nextRunId \in live \cup {nextRunId}
      BY <1>1 DEF CallOmni
    <2>2. nextRunId \in Run
      BY <1>1, NextRunIsFresh DEF CallOmni
    <2> QED BY <1>0, <2>1, <2>2
  <1>2. ASSUME NEW n \in Node, NEW d \in Radio, CallDirectional(n, d)
        PROVE  Tells
    <2>1. /\ Tell(nextRunId, <<"resolved", "aiming">>, live \cup {nextRunId})
          /\ nextRunId \in live \cup {nextRunId} /\ UNCHANGED pending
      BY <1>2 DEF CallDirectional
    <2>2. nextRunId \in Run
      BY <1>2, NextRunIsFresh DEF CallDirectional
    <2> QED BY <1>0, <2>1, <2>2
  <1>3. ASSUME NEW r \in Run, AimConfirmed(r)
        PROVE  Dispatches
    <2>1. Dispatch(r, target[r], <<"aimed">>, live) /\ r \in live /\ target[r] \in Node
      BY <1>3, RunCases DEF AimConfirmed, AimingRun, CalledRun
    <2> QED BY <1>0, <2>1
  <1>4. ASSUME NEW r \in Run, AimRefused(r)
        PROVE  Tells
    <2>1. Tell(r, <<"aim_failed">>, live) /\ r \in live /\ UNCHANGED pending
      BY <1>4, RunCases DEF AimRefused, AimingRun
    <2> QED BY <1>0, <2>1
  <1>5. ASSUME NEW r \in Run, TimerFires(r)
        PROVE  Closes \/ Neither
    <2>1. pending[target[r]] = r => OpenRun(r)
      <3>1. PICK n \in Node : pending[n] = r /\ r # NoRun
        BY <1>5 DEF TimerFires, IInv, TimerPerEntry
      <3> QED BY <3>1 DEF IInv, EntryInv
    <2> QED BY <1>5, <2>1 DEF TimerFires, Ending
  <1>6. ASSUME NEW r \in Run, PostFails(r)
        PROVE  Closes \/ Neither
    <2>1. OpenRun(r) \/ ClosedRun(r)
      BY <1>6 DEF PostFails, IInv
    <2>2. target[r] \in Node
      BY <2>1, RunCases DEF OpenRun, ClosedRun, Ending, CalledRun
    <2>3. pending[target[r]] = r => OpenRun(r)
      BY <2>2 DEF IInv, EntryInv, Run, NoRun
    <2> QED BY <1>6, <2>3 DEF PostFails, Ending
  <1>7. ASSUME NEW n \in Node, NEW q, HandlePacket(n, q)
        PROVE  Closes \/ Neither
    <2>1. CASE pending[n] # NoRun
      <3>1. pending[n] \in Run
        BY <2>1 DEF IInv, TypeOK
      <3>2. Settle(pending[n], "answered") /\ OpenRun(pending[n])
        BY <1>7, <2>1 DEF HandlePacket, IInv, EntryInv
      <3> QED BY <3>1, <3>2 DEF Ending
    <2>2. CASE pending[n] = NoRun
      BY <1>7, <2>2 DEF HandlePacket
    <2> QED BY <2>1, <2>2
  <1>8. ASSUME NEW r \in Run, Transmit(r) \/ PostSucceeds(r)
        PROVE  Neither
    BY <1>8 DEF Transmit, PostSucceeds
  <1>9. UNCHANGED vars => Neither
    BY DEF vars
  <1>10. Closes \/ Dispatches \/ Tells \/ Neither
    <2> HIDE DEF Closes, Dispatches, Tells, Neither
    <2>1. CASE \E n \in Node, d \in Radio : CallOmni(n, d) \/ CallDirectional(n, d)
      BY <2>1, <1>1, <1>2
    <2>2. CASE \E r \in Run : AimConfirmed(r) \/ AimRefused(r) \/ TimerFires(r) \/ PostFails(r)
      BY <2>2, <1>3, <1>4, <1>5, <1>6
    <2>3. CASE \E n \in Node : \E q \in Replies(n) : HandlePacket(n, q)
      BY <2>3, <1>7
    <2>4. CASE Gateway
      BY <2>4, <1>8 DEF Gateway
    <2> QED BY <2>1, <2>2, <2>3, <2>4, <1>9 DEF Next, Program
  <1> QED BY <1>10

(* An entry is closed before its node gets another, and every caller on its *)
(* list is settled in the turn that closes it.                              *)
THEOREM EntriesCloseWholly ==
  Spec => EntriesCloseWhole
  <1>1. IInv /\ [Next]_vars =>
          [\A n \in Node : pending[n] # NoRun /\ pending'[n] # pending[n] =>
             /\ pending'[n] = NoRun
             /\ \A c \in callbacks[pending[n]] : pc'[c] \in Terminal]_vars
    <2> SUFFICES ASSUME IInv, [Next]_vars,
                        NEW n \in Node, pending[n] # NoRun, pending'[n] # pending[n]
                 PROVE  /\ pending'[n] = NoRun
                        /\ \A c \in callbacks[pending[n]] : pc'[c] \in Terminal
      OBVIOUS
    <2>1. ASSUME NEW r \in Run, NEW m \in Node, NEW phases, NEW runs,
                 Dispatch(r, m, phases, runs)
          PROVE  FALSE
      BY <2>1 DEF Dispatch, Join, Open, IInv, TypeOK
    <2>2. UNCHANGED pending => FALSE
      OBVIOUS
    <2>3. PICK r \in Run, p \in Ending : OpenRun(r) /\ Settle(r, p)
      BY <2>1, <2>2, StepOnEntries
    <2>4. pending'[n] = NoRun
      BY <2>3, SettleClosesWhole
    <2>5. \A c \in callbacks[pending[n]] : pc'[c] \in Terminal
      BY <2>3, SettleClosesWhole
    <2> QED BY <2>4, <2>5
  <1> QED BY <1>1, InvariantHolds, PTL DEF EntriesCloseWhole, Spec

-----------------------------------------------------------------------------
(* Traceroute implements StatusFeed.                                        *)

LEMMA FeedsAreLegal ==
  ASSUME IInv, NEW r \in Run
  PROVE  Reports!Legal(feed[r])
  <1>0. Reports!Phase = Phase
    BY DEF Reports!Phase, Reports!Terminal, Phase, Terminal
  <1>1. feed[r] \in Seq(Reports!Phase)
    BY <1>0 DEF IInv, TypeOK
  <1>h. ASSUME NEW d
        PROVE  /\ HeadOf(d)[1] = "resolved"
               /\ \A i \in 1 .. Len(HeadOf(d)) - 1 : Reports!Follows(HeadOf(d)[i], HeadOf(d)[i + 1])
               /\ Reports!Follows(HeadOf(d)[Len(HeadOf(d))], "dispatched")
    <2>1. CASE d \in Directional
      BY <2>1 DEF HeadOf, Reports!Follows
    <2>2. CASE d \notin Directional
      BY <2>2 DEF HeadOf, Reports!Follows
    <2> QED BY <2>1, <2>2
  <1>o. ASSUME NEW d
        PROVE  /\ OpenFeed(d)[1] = "resolved"
               /\ \A i \in 1 .. Len(OpenFeed(d)) - 1 : Reports!Follows(OpenFeed(d)[i], OpenFeed(d)[i + 1])
    <2> DEFINE k == Len(HeadOf(d))
    <2>1. /\ k \in Nat /\ k >= 1 /\ Len(OpenFeed(d)) = k + 1
          /\ OpenFeed(d)[k + 1] = "dispatched"
          /\ \A i \in 1 .. k : OpenFeed(d)[i] = HeadOf(d)[i]
      BY OpenFacts, HeadFacts
    <2>2. ASSUME NEW i \in 1 .. k - 1
          PROVE  Reports!Follows(OpenFeed(d)[i], OpenFeed(d)[i + 1])
      BY <1>h, <2>1
    <2>3. Reports!Follows(OpenFeed(d)[k], OpenFeed(d)[k + 1])
      BY <1>h, <2>1
    <2>4. OpenFeed(d)[1] = "resolved"
      BY <1>h, <2>1
    <2>5. ASSUME NEW i \in 1 .. k, i # k
          PROVE  i \in 1 .. k - 1
      BY <2>1, <2>5
    <2> QED BY <2>1, <2>2, <2>3, <2>4, <2>5
  <1>c. ASSUME NEW d, NEW p \in Ending
        PROVE  /\ Append(OpenFeed(d), p)[1] = "resolved"
               /\ \A i \in 1 .. Len(Append(OpenFeed(d), p)) - 1 :
                    Reports!Follows(Append(OpenFeed(d), p)[i], Append(OpenFeed(d), p)[i + 1])
    <2> DEFINE s == Append(OpenFeed(d), p)
               k == Len(OpenFeed(d))
    <2>1. /\ k \in Nat /\ k >= 1 /\ OpenFeed(d)[k] = "dispatched"
      BY OpenFacts, HeadFacts
    <2>2. /\ Len(s) = k + 1 /\ s[k + 1] = p
          /\ \A i \in 1 .. k : s[i] = OpenFeed(d)[i]
      BY ClosedFacts
    <2>3. ASSUME NEW i \in 1 .. k - 1
          PROVE  Reports!Follows(s[i], s[i + 1])
      BY <1>o, <2>1, <2>2
    <2>4. Reports!Follows(s[k], s[k + 1])
      BY <2>1, <2>2 DEF Reports!Follows, Ending
    <2>5. s[1] = "resolved"
      BY <1>o, <2>1, <2>2
    <2>6. ASSUME NEW i \in 1 .. k, i # k
          PROVE  i \in 1 .. k - 1
      BY <2>1, <2>6
    <2> HIDE DEF s
    <2> QED BY <2>1, <2>2, <2>3, <2>4, <2>5, <2>6 DEF s
  <1>2. FreshRun(r) => Reports!Legal(feed[r])
    BY <1>1 DEF FreshRun, Reports!Legal
  <1>3. AimingRun(r) => Reports!Legal(feed[r])
    BY <1>1 DEF AimingRun, Reports!Legal, Reports!Follows
  <1>4. RefusedRun(r) => Reports!Legal(feed[r])
    BY <1>1 DEF RefusedRun, Reports!Legal, Reports!Follows
  <1>5. JoinedRun(r) => Reports!Legal(feed[r])
    BY <1>1, <1>h DEF JoinedRun, Reports!Legal
  <1>6. OpenRun(r) => Reports!Legal(feed[r])
    BY <1>1, <1>o DEF OpenRun, Reports!Legal
  <1>7. ClosedRun(r) => Reports!Legal(feed[r])
    BY <1>1, <1>c DEF ClosedRun, Reports!Legal
  <1> QED BY <1>2, <1>3, <1>4, <1>5, <1>6, <1>7 DEF IInv, RunInv

LEMMA TellReports ==
  ASSUME IInv, IInv', NEW r \in Run, NEW phases \in Seq(Phase), Len(phases) > 0,
         feed' = [feed EXCEPT ![r] = @ \o phases]
  PROVE  Reports!Report(r)
  <1>1. feed \in [Run -> Seq(Phase)] /\ feed[r] \in Seq(Phase)
    BY DEF IInv, TypeOK
  <1>2. feed'[r] = feed[r] \o phases
    BY <1>1
  <1>3. feed' = [feed EXCEPT ![r] = feed'[r]]
    BY <1>1, <1>2
  <1>4. /\ Len(feed'[r]) = Len(feed[r]) + Len(phases)
        /\ \A i \in 1 .. Len(feed[r]) : feed'[r][i] = feed[r][i]
    BY <1>1, <1>2, ConcatProperties
  <1>5. Reports!Extends(feed[r], feed'[r])
    BY <1>1, <1>4 DEF Reports!Extends
  <1>6. Reports!Legal(feed[r])'
    BY FeedsAreLegal, PTL
  <1> QED BY <1>3, <1>5, <1>6 DEF Reports!Report

(* Every run of traceroute.js reports its phases once each, in the          *)
(* documented order, and nothing after a terminal phase.                    *)
THEOREM ImplementsStatusFeed ==
  Spec => FeedIsLegal
  <1>1. Init => Reports!Init
    BY DEF Init, Reports!Init
  <1>2. IInv /\ IInv' /\ [Next]_vars => [Reports!Next]_feed
    <2> SUFFICES ASSUME IInv, IInv', [Next]_vars
                 PROVE  \/ \E r \in Run : Reports!Report(r)
                        \/ UNCHANGED feed
      BY DEF Reports!Next
    <2>1. ASSUME NEW r \in Run, NEW p \in Ending, OpenRun(r), Settle(r, p)
          PROVE  Reports!Report(r)
      <3>1. <<p>> \in Seq(Phase) /\ Len(<<p>>) > 0
        BY DEF Phase, Ending, Terminal
      <3>2. feed' = [feed EXCEPT ![r] = @ \o <<p>>]
        BY <2>1 DEF Settle, Tell, OpenRun
      <3> QED BY <3>1, <3>2, TellReports
    <2>2. ASSUME NEW r \in Run, NEW n \in Node, NEW phases \in Seq(Phase), NEW runs,
                 Dispatch(r, n, phases, runs), Len(phases) > 0, r \in runs
          PROVE  Reports!Report(r)
      <3>1. Append(phases, "dispatched") \in Seq(Phase) /\ Len(Append(phases, "dispatched")) > 0
        BY <2>2 DEF Phase
      <3>2. \/ feed' = [feed EXCEPT ![r] = @ \o phases]
            \/ feed' = [feed EXCEPT ![r] = @ \o Append(phases, "dispatched")]
        BY <2>2 DEF Dispatch, Join, Open, Tell
      <3> QED BY <2>2, <3>1, <3>2, TellReports
    <2>3. ASSUME NEW r \in Run, NEW phases \in Seq(Phase), NEW runs,
                 Tell(r, phases, runs), Len(phases) > 0, r \in runs
          PROVE  Reports!Report(r)
      <3>1. feed' = [feed EXCEPT ![r] = @ \o phases]
        BY <2>3 DEF Tell
      <3> QED BY <2>3, <3>1, TellReports
    <2> QED BY <2>1, <2>2, <2>3, StepOnEntries
  <1>3. Spec => Reports!Init /\ [][Reports!Next]_feed
    BY <1>1, <1>2, InvariantHolds, PTL DEF Spec
  <1> QED BY <1>3 DEF FeedIsLegal, Reports!Spec

=============================================================================
