SPECIFICATION Spec
CONSTANTS
  a1 = a1
  a2 = a2
  t1 = t1
  c1 = c1
  m1 = m1
  m2 = m2
  w2 = w2
  w1 = w1
  k1 = k1
  k2 = k2
  builtin = builtin
  other = other
  r1 = r1
  r2 = r2
  url = url
  AgentIds = {a1, a2}
  NoAgent = NoAgent
  TaskIds = {t1}
  ConversationIds = {c1}
  MessageIds = {m1, m2}
  ToolIds = {k1, k2}
  ToolNames = {builtin, other}
  ValidNames = {builtin, other}
  BuiltinNames = {builtin}
  NoTool = NoTool
  BuiltIn = BuiltIn
  WebhookTasks = {t1}
  WebhookIds = {w1, w2}
  Urls = {url}
  Rotators = {r1, r2}
  MaxTokens = 3
  NoFile = NoFile
  Started = Started
  Complete = Complete
  MaxProcesses = 2
  MaxCalls = 3
  MaxSaves = 1
  MaxErrors = 1
INVARIANTS
  BootTypeOK
  QuietDaemonHasTheToken
  OnlyCutFilesBlock
  ToolIndexExact
  ConversationsAreWhole
PROPERTIES
  OrderlyStopKeepsServices
SYMMETRY Interchangeable
CHECK_DEADLOCK FALSE
