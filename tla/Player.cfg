SPECIFICATION FairSpec
CONSTANTS
  Kinds <- Everything
  Calls <- AllCalls
  Length = 2
  Resampled = TRUE
  MaxEntry = 2
  Files <- AllNamed
  MP3s <- SmallMP3s
INVARIANTS DecoderOwned SoundTrue EverySample OpenedAsItIs
PROPERTY CallsReturn
CHECK_DEADLOCK FALSE
