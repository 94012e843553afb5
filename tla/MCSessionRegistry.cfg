SPECIFICATION RegistrySpec
CONSTANTS
  jsonl1 = jsonl1
  jsonl2 = jsonl2
  http1 = http1
  http2 = http2
  claude1 = claude1
  claude2 = claude2
  p1 = p1
  p2 = p2
  Nil = Nil
  SessionIDs <- MCSessionIDs
  Projects <- MCProjects
  Pids = {0, 1, 2}
  SourceFromID <- MCSourceFromID
  SyntheticID <- MCSyntheticID
  IdleTimeout = 0
  RemoveTimeout = 0
  CounterIcons <- MCCounterIcons
  Tracked = {"metadata"}
  Channels = {"update"}
  MaxActs = 0
SYMMETRY MCSymmetry
INVARIANTS
  TypeOK
  KeysMatchSources
  SeparateWindows
  ShowsMostRecent
PROPERTIES
  NoDowngrade
  UpgradeKeepsHistory
  ChangeIsPulsed
