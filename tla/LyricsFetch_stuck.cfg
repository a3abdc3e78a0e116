SPECIFICATION Spec
CONSTANTS
  Sigs = {s1}
  Fetches = {f1}
  InitialRecords = {"none"}
  SearchAnswers = {"hit", "nomatch", "limited", "failed", "missing"}
  Songs <- SmallSongs
  PanelSongs <- SmallBlocks
  Filters <- Everyone
  Moments <- FirstMoments
  Heights <- SmallHeights
  Contexts <- AllOrOne
  Threshold = 0
INVARIANTS PendingIsReal
