CONSTANTS
  Clients = {c1, c2}
  Devices = {tstat}
  Tables = {t1}
  NoClient = NoClient
  responseRetries = 2
  RespCap = 1
  InboxCap = 2
  WireCap = 1
  MaxCalls = 3
  MaxVersion = 1
SPECIFICATION Spec
INVARIANT OkMeansProcessed
