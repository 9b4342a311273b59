CONSTANTS
  Hours = {1, 2}
  MaxFrames = 4
  MaxOpens = 4
SPECIFICATION LogSpec
INVARIANTS OneFileIsOpen FramesAreLogged
PROPERTIES LinesAreInTheirHour FilesOnlyGrow
CHECK_DEADLOCK FALSE
