SPECIFICATION Spec
CONSTANTS
  Nil = Nil
  MaxGen = 3
  MaxSession = 0
  Request = {}
  HasPath = TRUE
  HasSeek = TRUE
  Immediate = FALSE
INVARIANTS PlayerOwned OneVoice GenerationNamesTrack LoadingIsNewest SeekInitialOnly
PROPERTIES DeferredKeepsTrack LifetimeSafety
CHECK_DEADLOCK FALSE
