SPECIFICATION FairSpec
CONSTANTS
  a = a
  b = b
  Nil = Nil
  Activities = {a, b}
  Previews = {1}
  MinDelay = 1
  MaxDelay = 2
CHECK_DEADLOCK FALSE
PROPERTIES
  Reconnects
