CONSTANTS
  Handles = {h1, h2, h3}
  NoPort = NoPort
  Nobody = Nobody
SPECIFICATION PortSpec
INVARIANT NeverExits
CHECK_DEADLOCK FALSE
