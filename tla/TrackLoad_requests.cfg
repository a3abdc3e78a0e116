SPECIFICATION FairSpec
CONSTANTS
  Nil = Nil
  MaxGen = 2
  MaxSession = 2
  Request = {r1}
  HasPath = FALSE
  HasSeek = FALSE
  Immediate = TRUE
INVARIANTS TypeOK VerdictsHold
PROPERTIES LoadsEnd
CHECK_DEADLOCK FALSE
