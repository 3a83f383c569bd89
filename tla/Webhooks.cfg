SPECIFICATION FairSpec
CONSTANTS
  NoAgent = NoAgent
  NoDeadline = NoDeadline
  AgentIds = {}
  TaskIds = {t1}
  Contexts = {c1}
  MaxArtifacts = 1
  Receivers = {r1}
  Worker = r1
  Capacity = 1
  MaxEvents = 2
  Webhooks = {w1, w2}
  MaxRetries = 1
INVARIANTS NothingNewAfterDelete EveryEventIsPosted OutcomeIsHonest
PROPERTY EveryDeliveryEnds
CHECK_DEADLOCK FALSE
