SPECIFICATION FairSpec
CONSTANTS
  MaxPick = 2
  MaxSession = 2
  MaxRequest = 2
  MaxQueue = 1
  MaxDrop = 1
  MaxSave = 1
INVARIANTS WindowInStep ControllerReleased
CHECK_DEADLOCK FALSE
PROPERTIES StartupMoves
