SPECIFICATION FairSpec
CONSTANTS
  ChunkFrames = 2
  BufFrames = 2
  StreamFrames = 1
  ChunkCap = 1
  Total = 3
  Serialised = TRUE
  MaxGen = 3
INVARIANTS SoundInPlace NoOrphan
PROPERTIES CallsReturn
CHECK_DEADLOCK FALSE
