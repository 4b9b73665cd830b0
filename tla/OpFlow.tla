------------------------------- MODULE OpFlow -------------------------------
(***************************************************************************)
(* src/op-manager.js and public/op-client.js: a page submits an operation, *)
(* the server carries it out through its own HTTP interface in the         *)
(* background, and the outcome reaches the page as a config_op event on    *)
(* the WebSocket, which may come before the answer to the submission, or   *)
(* not at all.  A range test is started and stopped this way, so this      *)
(* module extends RangeTest; a save stands for any write of a setting that *)
(* is read back.                                                           *)
(*                                                                         *)
(* Progress events (saving, validating) change nothing in the page and are *)
(* left out, as is the table GET /ops/:op_id reads, which drops an         *)
(* operation five minutes after its end.  No registered operation uses the *)
(* read-back retries of the radio runner or the wait for a device state.   *)
(***************************************************************************)
EXTENDS RangeTest

VARIABLES
  op,       \* op[o]: the operation of request o, see Job
  page,     \* page[o]: idle, posting, pending, or what submitOp() ended with
  early,    \* _earlyTerminal: the ends that came before the answer of POST /ops
  wire,     \* the ends on their way to the page over the WebSocket
  lost      \* the operations whose end never reached the page in time

opVars == <<op, page, early, wire, lost>>
vars   == <<rangeVars, opVars>>

Kind    == {"save", "start", "stop"}
Ends    == {"success", "error"}
Settled == Ends \cup {"timed out", "refused"}
Told    == [op : Request, end : Ends]

NoJob == [at |-> "none"]
Job   == [at : {"writing", "waiting", "reading"} \cup Ends, kind : Kind,
          arg : Radio \cup {None}]

Arguments(kind) ==
  CASE kind = "save" -> {None} [] kind = "start" -> Radio [] kind = "stop" -> Radio \cup {None}

(* _transition() to an end: broadcast, and gone if nobody is connected.     *)
Ended(o, end) ==
  /\ op' = [op EXCEPT ![o].at = end]
  /\ \/ wire' = wire \cup {[op |-> o, end |-> end]} /\ UNCHANGED lost
     \/ lost' = lost \cup {o} /\ UNCHANGED wire

-----------------------------------------------------------------------------
(* The server.                                                              *)

(* POST /ops: the operation runs up to its first await and the id is sent.  *)
Submit(o, kind, arg) ==
  /\ page[o] = "idle"
  /\ op' = [op EXCEPT ![o] = [at |-> "writing", kind |-> kind, arg |-> arg]]
  /\ page' = [page EXCEPT ![o] = "posting"]
  /\ UNCHANGED <<rangeVars, early, wire, lost>>

(* A POST the server never saw, or refused.                                 *)
SubmitFails(o) ==
  /\ page[o] = "idle"
  /\ page' = [page EXCEPT ![o] = "refused"]
  /\ UNCHANGED <<rangeVars, op, early, wire, lost>>

(* The write of a save is answered; its read-back follows.                 *)
Save(o) ==
  /\ op[o].at = "writing" /\ op[o].kind = "save"
  /\ op' = [op EXCEPT ![o].at = "reading"]
  /\ UNCHANGED <<rangeVars, page, early, wire, lost>>

(* Any of the requests to our own server may be answered with an error, and *)
(* what is read back may differ from what was written.                      *)
Break(o) ==
  /\ op[o].at \in {"writing", "reading"}
  /\ Ended(o, "error")
  /\ UNCHANGED <<rangeVars, page, early>>

ReadBack(o) ==
  /\ op[o].at = "reading"
  /\ Ended(o, "success")
  /\ UNCHANGED <<rangeVars, page, early>>

(* The write of a range test operation reaches its handler.                 *)
Call(o) ==
  /\ op[o].at = "writing" /\ op[o].kind \in {"start", "stop"}
  /\ IF op[o].kind = "start" THEN Start(o, op[o].arg) ELSE Stop(o, op[o].arg)
  /\ op' = [op EXCEPT ![o].at = "waiting"]
  /\ UNCHANGED <<page, early, wire, lost>>

(* The handler answered: the mode runner reads nothing back.                *)
Answered(o) ==
  /\ op[o].at = "waiting"
  /\ \/ request[o] = "done" /\ Ended(o, "success")
     \/ request[o] = "failed" /\ Ended(o, "error")
  /\ UNCHANGED <<rangeVars, page, early>>

-----------------------------------------------------------------------------
(* The page.                                                                *)

\* The end that came early is not looked for.
Registered_lateOnly(o) == "pending"

EndOf(o) == CHOOSE t \in early : t.op = o

Registered(o) == IF \E t \in early : t.op = o THEN EndOf(o).end ELSE "pending"

(* The answer of POST /ops arrives, or does not.                            *)
Posted(o) ==
  /\ page[o] = "posting"
  /\ \/ /\ page' = [page EXCEPT ![o] = Registered(o)]
        /\ early' = {t \in early : t.op # o}
     \/ /\ page' = [page EXCEPT ![o] = "refused"]
        /\ UNCHANGED early
  /\ UNCHANGED <<rangeVars, op, wire, lost>>

(* handleConfigOp(): settles what is pending, keeps what is not yet.        *)
Receive(t) ==
  /\ IF page[t.op] = "pending"
     THEN page' = [page EXCEPT ![t.op] = t.end] /\ UNCHANGED early
     ELSE early' = early \cup {t} /\ UNCHANGED page
  /\ wire' = wire \ {t}
  /\ UNCHANGED <<rangeVars, op, lost>>

(* After five seconds an early end is dropped, found or not.                *)
Forget(t) ==
  /\ early' = early \ {t}
  /\ lost' = lost \cup {t.op}
  /\ UNCHANGED <<rangeVars, op, page, wire>>

(* OP_TIMEOUT_MS, longer than any of the requests above may take.           *)
GiveUp(o) ==
  /\ page[o] = "pending"
  /\ page' = [page EXCEPT ![o] = "timed out"]
  /\ UNCHANGED <<rangeVars, op, early, wire, lost>>

(* The connection breaks under it; the page reconnects and is not told again.*)
Lose(t) ==
  /\ wire' = wire \ {t}
  /\ lost' = lost \cup {t.op}
  /\ UNCHANGED <<rangeVars, op, page, early>>

-----------------------------------------------------------------------------
Init ==
  /\ RangeInit
  /\ op = [o \in Request |-> NoJob]
  /\ page = [o \in Request |-> "idle"]
  /\ early = {}
  /\ wire = {}
  /\ lost = {}

RangeStep == RangeNext /\ UNCHANGED opVars

Server(o) == Save(o) \/ Break(o) \/ ReadBack(o) \/ Call(o) \/ Answered(o)

Next ==
  \/ RangeStep
  \/ \E o \in Request :
       \/ \E kind \in Kind : \E arg \in Arguments(kind) : Submit(o, kind, arg)
       \/ SubmitFails(o) \/ Server(o) \/ Posted(o) \/ GiveUp(o)
  \/ \E t \in wire : Receive(t) \/ Lose(t)
  \/ \E t \in early : Forget(t)

(* fetch() answers or breaks off, and timers fire.  No event needs to reach *)
(* the page, and the gateway need not carry anything out.                   *)
Fairness ==
  /\ \A o \in Request : WF_vars(Server(o)) /\ WF_vars(Posted(o)) /\ WF_vars(GiveUp(o))
  /\ \A o \in Request :
       /\ WF_vars(UNCHANGED opVars /\ \E p \in put : p.by = o /\ Returns(p))
       /\ WF_vars(UNCHANGED opVars /\ TimerFires(o))

Spec == Init /\ [][Next]_vars /\ Fairness

-----------------------------------------------------------------------------
(* Every variable keeps to its type.                                        *)
TypeOK ==
  /\ RangeTypeOK
  /\ DOMAIN op = Request
  /\ \A o \in Request : op[o] # NoJob => op[o] \in Job /\ op[o].arg \in Arguments(op[o].kind)
  /\ page \in [Request -> {"idle", "posting", "pending"} \cup Settled]
  /\ early \subseteq Told
  /\ wire \subseteq Told
  /\ lost \subseteq Request

(* What a page is told is how the operation ended.  Ends overtake the       *)
(* answer that names their operation: one that is waited for is on its way, *)
(* unless the connection broke or it came more than five seconds early.     *)
PageIsToldTheEnd ==
  \A o \in Request :
    /\ page[o] \in Ends => op[o].at = page[o]
    /\ page[o] = "pending" /\ op[o].at \in Ends
         => o \in lost \/ \E t \in wire : t.op = o

(* Every operation comes to an end on the server, and every submission is   *)
(* settled in the page, whatever is lost on the way.                        *)
EverySubmitSettles ==
  \A o \in Request : page[o] = "posting" ~> page[o] \in Settled /\ op[o].at \in Ends

=============================================================================
