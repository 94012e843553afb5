SPECIFICATION Spec
CONSTANTS
  http = http
  claude1 = claude1
  claude2 = claude2
  project = project
  t1 = t1
  t2 = t2
  Nil = Nil
  SessionIDs <- MCSessionIDs
  Projects <- MCProjects
  Pids = {1}
  SourceFromID <- MCSourceFromID
  SyntheticID <- MCSyntheticID
  IdleTimeout = 0
  RemoveTimeout = 0
  DeadTimeout = 0
  CounterIcons <- MCCounterIcons
  HookIcons = {"thinking"}
  Tracked = {}
  Channels = {}
  MaxActs = 0
  Handlers = {t1, t2}
PROPERTIES
  HookEnsuresSession
