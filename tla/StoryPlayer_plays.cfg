CONSTANTS
  Total = 3
  Kinds = {"IMAGE", "VIDEO"}
  MaxGestures = 5
  MaxFailures = 1
SPECIFICATION FairSpec
INVARIANTS
  TypeOK
  NoStorySkipped
  OneTimer
  VideosObeyGestures
PROPERTIES
  DismissedVideosStop
  PlayerMovesOn
CHECK_DEADLOCK FALSE
