SPECIFICATION AutoExitFairSpec
CONSTANTS
  http = http
  claude1 = claude1
  claude2 = claude2
  project = project
  Nil = Nil
  SessionIDs <- MCSessionIDs
  Projects <- MCProjects
  Pids = {1, 2}
  SourceFromID <- MCSourceFromID
  SyntheticID <- MCSyntheticID
  IdleTimeout = 0
  RemoveTimeout = 0
  CounterIcons <- MCCounterIcons
  Tracked = {}
  Channels = {"exit"}
  MaxActs = 0
  GracePeriod = 2
INVARIANTS
  AutoExitTypeOK
  ArrivalIsSeen
PROPERTIES
  DaemonEnds
