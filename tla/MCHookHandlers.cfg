SPECIFICATION FairSpec
CONSTANTS
  http = http
  claude1 = claude1
  claude2 = claude2
  project = project
  t1 = t1
  t2 = t2
  Nil = Nil
  SessionIDs <- MCTwoIDs
  Projects <- MCProjects
  Pids = {1}
  SourceFromID <- MCTwoSources
  SyntheticID <- MCSyntheticID
  IdleTimeout = 0
  RemoveTimeout = 1
  DeadTimeout = 0
  CounterIcons <- MCCounterIcons
  HookIcons = {"thinking"}
  Tracked = {}
  Channels = {"update"}
  MaxActs = 1
  Handlers = {t1, t2}
INVARIANTS
  HandlersTypeOK
PROPERTIES
  ImplementsRegistry
  SilentSessionsLeave
