SPECIFICATION LineSpec
CONSTANTS
  Char = {"a", " "}
  CharLimit = 4
  Table <- Commands
  MaxHistory = 2
  Dropped <- Paths
  NameChar <- DropChar
  DropNames <- SmallDrops
  Lives <- SmallLives
INVARIANTS LineTrue DropArrives ConfigKept
