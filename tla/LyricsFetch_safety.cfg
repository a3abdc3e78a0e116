SPECIFICATION Spec
CONSTANTS
  Sigs = {s1, s2}
  Fetches = {f1, f2}
  InitialRecords = {"none", "stale", "found"}
  SearchAnswers = {"hit", "nomatch", "limited", "failed"}
  Songs <- SmallSongs
  PanelSongs <- SmallBlocks
  Filters <- Everyone
  Moments <- FirstMoments
  Heights <- SmallHeights
  Contexts <- AllOrOne
  Threshold = 0
INVARIANTS ScreenOfCurrent PendingIsReal DamageTakesTwo LyricsFollowSong
PROPERTIES IndicatorStops
