CONSTANTS
  N = 6
  MinFrame = 2
  MaxFrame = 4
SPECIFICATION Spec
INVARIANTS TypeOK FramesAreDisjoint NoFrameIsOverlooked PiecesDoNotMatter
PROPERTY FramesAreHandledInTime
