CONSTANTS
  p1 = p1
  p2 = p2
  dm = dm
  Packet <- MCPacket
  Rule <- MCRule
  RuleOf <- MCRuleOf
  Reply <- MCReply
  MaxFaults = 2
SPECIFICATION MailSpec
CHECK_DEADLOCK FALSE
INVARIANTS
  OneMailPerPacket
  OneAnswerPerToken
PROPERTIES
  OldestIsHandled
