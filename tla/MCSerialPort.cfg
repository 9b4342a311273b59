CONSTANTS
  Handles = {h1, h2, h3}
  NoPort = NoPort
  Nobody = Nobody
SPECIFICATION FairPortSpec
INVARIANTS PortTypeOK ReaderOutlivesTimeouts OneHandle
PROPERTY PortComesBack
CHECK_DEADLOCK FALSE
