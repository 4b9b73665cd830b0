----------------------------- MODULE StatusFeed -----------------------------
(***************************************************************************)
(* What the traceroute status feed promises its consumers                  *)
(* (docs/modules/traceroute-status-feed.md, emitted by src/traceroute.js): *)
(* every run reports its phases once each, in the documented order, and    *)
(* says nothing after a terminal phase.  Nothing is said here of pending   *)
(* entries, timers, posts or replies: Traceroute implements this module.   *)
(***************************************************************************)
EXTENDS Naturals, Sequences

CONSTANT Run            \* the runs a feed may report on

VARIABLE feed           \* feed[r]: the phases run r has emitted, oldest first

Terminal == {"answered", "timeout", "send_failed", "aim_failed"}
Phase    == Terminal \cup {"resolved", "aiming", "aimed", "dispatched"}

(* resolved -> aiming -> aimed -> dispatched -> answered                    *)
(*               \-> aim_failed              \-> timeout | send_failed      *)
(* and an omni goes resolved -> dispatched.                                 *)
Follows(p, q) ==
  \/ p = "resolved"   /\ q \in {"aiming", "dispatched"}
  \/ p = "aiming"     /\ q \in {"aimed", "aim_failed"}
  \/ p = "aimed"      /\ q = "dispatched"
  \/ p = "dispatched" /\ q \in {"answered", "timeout", "send_failed"}

(* A report is a path of that graph, from its root.                         *)
Legal(s) ==
  /\ s \in Seq(Phase)
  /\ Len(s) > 0 => s[1] = "resolved"
  /\ \A i \in 1 .. Len(s) - 1 : Follows(s[i], s[i + 1])

Extends(s, t) ==
  /\ Len(s) < Len(t)
  /\ \A i \in 1 .. Len(s) : t[i] = s[i]

Init == feed = [r \in Run |-> << >>]

(* One handler of the program reports for one run, and may report several   *)
(* phases before it returns to the event loop.                              *)
Report(r) ==
  /\ feed' = [feed EXCEPT ![r] = feed'[r]]
  /\ Extends(feed[r], feed'[r])
  /\ Legal(feed'[r])

Next == \E r \in Run : Report(r)

Spec == Init /\ [][Next]_feed

=============================================================================
