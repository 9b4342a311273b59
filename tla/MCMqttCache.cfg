CONSTANTS
  Topics = {mode, hold}
  Values = {v1, v2}
  Absent = Absent
  NoTopic = NoTopic
  OutboxCap = 2
  MaxHandlers = 2
  MaxChanges = 4
SPECIFICATION FairSpec
INVARIANTS TypeOK CachedIsRetained
PROPERTY BrokerCatchesUp
