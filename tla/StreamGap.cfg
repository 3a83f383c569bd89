SPECIFICATION Spec
CONSTANTS
  NoAgent = NoAgent
  NoDeadline = NoDeadline
  AgentIds = {}
  TaskIds = {t1}
  Contexts = {c1}
  MaxArtifacts = 1
  Receivers = {s1}
  Capacity = 2
  ChannelCapacity = 1
  MaxEvents = 3
INVARIANT ClientMissesNothing
CHECK_DEADLOCK FALSE
