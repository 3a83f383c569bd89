SPECIFICATION PersistenceSpec
CONSTANTS
  a1 = a1  a2 = a2  n1 = n1  n2 = n2  x = x  c1 = c1  c2 = c2
  t1 = t1  t2 = t2  r1 = r1  r2 = r2
  NoAgent = NoAgent
  NoDeadline = NoDeadline
  AgentIds = {a1}
  TaskIds = {t1}
  Names = {n1}
  Tags = {}
  NameOf <- OneName
  SkillTags <- SkillOfA2
  Contexts = {c1}
  MaxArtifacts = 0
  Requests = {r1}
  Timeout = 0
  Deadlines = {}
  MaxTime = 1
  MaxSaves = 1
  MaxProcesses = 2
  MaxLater = 1
INVARIANTS PersistenceTypeOK IndicesExact AssigneeIsKnown OnlyCutSweepsStrandWork
PROPERTY OrderlyRestartKeepsAll
CHECK_DEADLOCK FALSE
