SPECIFICATION FairSpec
CONSTANTS
  p1 = p1
  p2 = p2
  Path = {p1, p2}
  Sidecar <- Beside
  None = None
  MaxGen = 4
  Gui = FALSE
INVARIANTS SurfaceTrue NothingFlashesUnasked
PROPERTIES LoadingEnds
CHECK_DEADLOCK FALSE
