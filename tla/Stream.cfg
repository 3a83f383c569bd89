SPECIFICATION FairSpec
CONSTANTS
  NoAgent = NoAgent
  NoDeadline = NoDeadline
  AgentIds = {}
  TaskIds = {t1}
  Contexts = {c1}
  MaxArtifacts = 2
  Receivers = {s1}
  Capacity = 2
  ChannelCapacity = 1
  MaxEvents = 5
INVARIANT OnlyGapAndLagLose
PROPERTIES StreamNeverGoesBack StreamCatchesUp
CHECK_DEADLOCK FALSE
