SPECIFICATION Spec
CONSTANTS
  Requests <- MixedRequests
  Values = {v1, v2}
  NoValue = NoValue
  tick_length = 2
  publishing_interval = 2
  max_queue_size = 2
  max_items = 0
  longest_interval = 2
  MaxId = 2
INVARIANTS NewestIsLast OverflowIsMarked LinksStayDead
PROPERTIES  DueIsReported
CONSTRAINT FirstTriggers
SYMMETRY Symmetry
CHECK_DEADLOCK FALSE
