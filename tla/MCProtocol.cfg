CONSTANTS
  Clients = {c1, c2}
  Devices = {tstat}
  Tables = {t1, t2}
  NoClient = NoClient
  responseRetries = 2
  RespCap = 1
  InboxCap = 2
  WireCap = 1
  MaxCalls = 2
  MaxVersion = 1
SPECIFICATION Spec
SYMMETRY ClientAndTableSymmetry
INVARIANTS TypeOK Handover CleanCallsAreExact QuietUntilRetransmission AnswerIsOurs
PROPERTIES WritesApplyInOrder ServedInOrder
