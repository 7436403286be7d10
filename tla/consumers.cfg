SPECIFICATION FairSpec
CONSTANTS
  MaxMessages = 4
  MaxEnds = 3
INVARIANTS TypeOK LossExplained
PROPERTIES RepeatExplained Delivered
CHECK_DEADLOCK FALSE
