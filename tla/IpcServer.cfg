SPECIFICATION FairSpec
CONSTANTS
  InCap = 1
  ControlCap = 1
  Display = {"state"}
  MaxSession = 2
  MaxConn = 2
  MaxMessage = 2
INVARIANTS WireTrue EventOrder
PROPERTIES NoSendAfterClose CloseTerminates NewsArrives
CHECK_DEADLOCK FALSE
