SPECIFICATION FairSpec
CONSTANTS
  a1 = a1  a2 = a2  n1 = n1  n2 = n2  x = x  c1 = c1  c2 = c2
  t1 = t1  t2 = t2  r1 = r1  r2 = r2
  NoAgent = NoAgent
  NoDeadline = NoDeadline
  AgentIds = {a1}
  TaskIds = {t1}
  Names = {n1}
  Tags = {x}
  NameOf <- OneName
  SkillTags <- SkillOfA2
  Contexts = {c1}
  MaxArtifacts = 0
  Requests = {r1}
  Timeout = 1
  Deadlines = {}
  MaxTime = 3
PROPERTY WorkOfLostAgentsHalts
