CONSTANTS
  Nil = Nil
  RingSize = 2
  READ_BATCH = 2
  Before = {1}
  MaxLinks = 1
  MaxSyncs = 2
  MaxEvents = 0
SPECIFICATION ESSpec
CHECK_DEADLOCK FALSE
INVARIANT RollbackIsSeen
