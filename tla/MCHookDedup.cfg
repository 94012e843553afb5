SPECIFICATION DedupFairSpec
CONSTANTS
  k1 = k1
  k2 = k2
  r1 = r1
  r2 = r2
  Nil = Nil
  Requests = {r1, r2}
  MaxDelay = 1
  Keys = {k1, k2}
  TTL = 2
INVARIANTS
  DedupTypeOK
PROPERTIES
  DropHasTwin
  EntriesLeave
