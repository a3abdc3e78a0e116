SPECIFICATION Spec
CONSTANTS
  MaxPick = 0
  MaxSession = 0
  MaxRequest = 0
  MaxQueue = 0
  MaxDrop = 0
  MaxSave = 2
INVARIANTS PlayersReleased
CHECK_DEADLOCK FALSE
