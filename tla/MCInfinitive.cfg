CONSTANTS
  Requests = {get}
  Sockets = {ws}
  None = None
  responseRetries = 2
  ResponseCapacity = 1
  BroadcastCapacity = 1
  ListenerCapacity = 1
SPECIFICATION Spec
INVARIANT NoCircularWait
PROPERTY EveryTaskEnds
