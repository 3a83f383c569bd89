SPECIFICATION Spec
CONSTANTS
  a1 = a1
  a2 = a2
  n1 = n1
  c1 = c1
  url = url
  upath = upath
  object = object
  number = number
  struct = struct
  null = null
  uuid = uuid
  hello = hello
  extras = extras
  root = root
  dir = dir
  deps = deps
  top = top
  below = below
  dep = dep
  link = link
  AgentIds = {a1, a2}
  NoAgent = NoAgent
  TaskIds = {1, 2}
  Names = {n1}
  Tags = {}
  NameOf <- OneName
  SkillTags <- NoSkills
  Contexts = {c1}
  NoDeadline = NoDeadline
  MaxArtifacts = 0
  ConversationIds = {v1}
  MessageIds = {m1}
  WebhookTasks = {1, 2}
  WebhookIds = {w1}
  Urls = {url}
  BadId = BadId
  BadName = BadName
  BadUrl = BadUrl
  NoContext = NoContext
  Now = 2
  MaxTime = 6
  Width = 4
  Milliseconds = {7, 8, 15}
  Instants = {1}
  PageSizes = {1, 2}
  Json <- TheJson
  JsonObjects = {object}
  ProtoValues = {struct, null}
  Structs = {struct}
  EmptyStruct = struct
  Plain = {struct}
  ToJson <- JsonOf
  ToProto <- ProtoOf
  MessageUuids = {uuid}
  NotUuid = NotUuid
  Texts = {hello}
  Extras = {extras}
  WireMessages <- Messages
  AnyState = AnyState
  WrongType = WrongType
  Compiled = Compiled
  UnderHome = UnderHome
  Upward = Upward
  NoPath = NoPath
  Cwd = Cwd
  LayerChoices <- AllLayers
  DefaultLayers <- Bare
  Nodes <- TheNodes
  Root = root
  Parent <- ParentOf
  SkippedDirs = {deps}
  Target <- TargetOf
  Content <- Bytes
  Outside = Outside
  Missing = Missing
  NoInput = NoInput
  NewLine = 10
  Nul = 0
  Chunk = 2
  Probe = 2
  MaxSize = 4
  MaxFiles = 1
  Trees <- AllTrees
  MaxChanges = 2
INVARIANTS
  CallersAreNotBlamed
  WalkSeesAllThatLasts
  ScanIsExact
  HighestLayerWins
  SuccessMeansDone
SYMMETRY Interchangeable
CHECK_DEADLOCK FALSE
