CONSTANTS
  MqttHandler = mqtt
  RestHandlers = {put}
  Zones = {1, 2}
  Commands <- AllCommands
  Changes <- AtPanel
  Registers0 <- Found
  MaxCommands = 2
  MaxChanges = 1
  MaxCopies = 1
  MaxFailures = 1
SPECIFICATION FairSpec
INVARIANT DaysShownCoverHours
PROPERTIES ChangesAreShown CommandsHaveTheirEffect
CHECK_DEADLOCK FALSE
