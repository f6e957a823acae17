CONSTANTS
  Nil = Nil
  RingSize = 2
  READ_BATCH = 2
  Before = {1}
  MaxLinks = 0
  MaxSyncs = 2
  MaxEvents = 2
SPECIFICATION ESSpec
CHECK_DEADLOCK FALSE
INVARIANT LastSeenCatches
