SPECIFICATION FairSpec
CONSTANTS
  MaxCallbacks = 3
  MaxPolled = 2
  MaxCrashes = 1
  MaxReplays = 1
  QueueSize = 2
  Retries = 1
  MaxRaw = 2
  PollMax = 2
  Modes = {TRUE, FALSE}
  ReplayBesideRuntime = FALSE
INVARIANTS TypeOK OffsetCovered TicksOnceInOrder
PROPERTIES NothingDropped EventuallyDrained
CHECK_DEADLOCK FALSE
