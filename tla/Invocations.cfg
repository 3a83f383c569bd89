SPECIFICATION InvokerSpec
CONSTANTS
  a1 = a1  a2 = a2  n1 = n1  n2 = n2  c1 = c1
  t1 = t1  t2 = t2  r1 = r1  k1 = k1  k2 = k2  scan = scan
  NoAgent = NoAgent
  NoDeadline = NoDeadline
  AgentIds = {a1, a2}
  TaskIds = {t1}
  Names = {n1, n2}
  Tags = {}
  NameOf <- TwoNames
  SkillTags <- NoSkill
  Contexts = {c1}
  MaxArtifacts = 0
  Requests = {r1}
  Timeout = 0
  Deadlines = {}
  MaxTime = 1
  ToolIds = {k1, k2}
  ToolNames = {scan}
  ValidNames = {scan}
  BuiltinNames = {}
  NoTool = NoTool
  BuiltIn = BuiltIn
SYMMETRY Interchangeable
INVARIANTS NoWorkLeftBehind
PROPERTY ToolTasksReachTheirProvider
