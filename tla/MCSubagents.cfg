SPECIFICATION SubagentSpec
CONSTANTS
  a1 = a1
  a2 = a2
  a3 = a3
  explore = explore
  review = review
  look = look
  Nil = Nil
  Agents <- MCAgents
  Names <- MCNames
  Type <- MCType
  Task <- MCTask
  MaxSpawns = 3
CHECK_DEADLOCK FALSE
INVARIANTS
  SubagentTypeOK
  StopsCompleteTheirOwn
  StopsBalance
