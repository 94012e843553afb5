SPECIFICATION FairSpec
CONSTANTS
  a = a
  b = b
  c1 = c1
  c2 = c2
  Nil = Nil
  Activities = {a, b}
  Callbacks = {c1, c2}
  Debounce = 1
  Interval = 3
  Burst = 2
  MaxDebt = 3
  SlowCallbacks = FALSE
  MayDisconnect = TRUE
INVARIANTS
  CoalescerTypeOK
  PendingHasFlush
  WithinRateLimit
  HashMatchesShown
PROPERTIES
  PendingDrains
  ImplementsDelivery
