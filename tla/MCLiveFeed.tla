----------------------------- MODULE MCLiveFeed -----------------------------
(* One page that may hold two sockets; one radio, one run, a sweep of one   *)
(* bearing or two.                                                          *)
EXTENDS LiveFeed

CONSTANTS d1, t1, lora1

MCRadio  == {d1}
MCSettings == {lora1}
MCRun    == {t1}
MCSocket == {1, 2}
=============================================================================
