SPECIFICATION TrackerSpec
CONSTANTS
  w1 = w1
  w2 = w2
  Nil = Nil
  Throttle = 2
  Workers = {w1, w2}
  Usages <- MCUsages
  MaxTokens = 3
SYMMETRY MCSymmetry
INVARIANTS
  TrackerTypeOK
  NeverOvercounts
  ShowsLatest
PROPERTIES
  NoticedResetsLoseNothing
