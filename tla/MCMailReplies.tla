---------------------------- MODULE MCMailReplies ----------------------------
(* Two packets under one rule, and two mails.                               *)
EXTENDS MailReplies

CONSTANTS p1, p2, dm

MCPacket == {p1, p2}
MCRule   == {dm}
MCRuleOf == [p \in MCPacket |-> dm]
MCReply  == {1, 2}
=============================================================================
