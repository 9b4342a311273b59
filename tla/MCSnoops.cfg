CONSTANTS
  NZones = 3
  zoneWeight <- ZoneWeights
  Responses <- AllResponses
  None = None
SPECIFICATION Spec
INVARIANTS TypeOK RecordsAreLatest CachesAgree FlowIsShared
CHECK_DEADLOCK FALSE
