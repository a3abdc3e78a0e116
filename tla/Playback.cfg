SPECIFICATION FairSpec
CONSTANTS
  Length = 1
  MaxTrack = 2
  Title <- OneTitle
  QueueCap = 2
  MaxSession = 1
  MaxInput = 2
INVARIANTS ListenersTold
PROPERTIES OverlayFollows CatchUp
CHECK_DEADLOCK FALSE
