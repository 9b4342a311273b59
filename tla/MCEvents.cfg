CONSTANTS
  Keys = {tstat, blower}
  Values = {v1, v2}
  Listeners = {l1}
  Absent = Absent
  NoKey = NoKey
  BroadcastCap = 1
  ListenerCap = 2
  MaxEvents = 4
SPECIFICATION FairSpec
INVARIANTS TypeOK ClosedOnce SettledViewsAreCached
PROPERTIES StreamSpec UpdatesEnd DroppedHandlersLeave
CHECK_DEADLOCK FALSE
