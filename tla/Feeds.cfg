SPECIFICATION FairNotifierSpec
CONSTANTS
  Receivers = {f1, m1}
  Feeds = {f1}
  Kinds = {a, b}
  ToolKinds = {b}
  Capacity = 1
  SendBuffer = 1
  MaxEvents = 2
INVARIANT FeedIsExact
PROPERTIES FeedCatchesUp ToolChangesAreTold
CHECK_DEADLOCK FALSE
