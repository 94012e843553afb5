SPECIFICATION FairSpec
CONSTANTS
  a = a
  b = b
  Nil = Nil
  Activities = {a, b}
  Previews = {1, 2}
  MinDelay = 1
  MaxDelay = 2
INVARIANTS
  PipelineTypeOK
  TimerIsKnown
  GateKnowsShown
  PreviewGivesWay
  ClearIsLast
PROPERTIES
  DiscordIsFound
CHECK_DEADLOCK FALSE
