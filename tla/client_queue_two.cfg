SPECIFICATION FairSpec
CONSTANTS
  a = a
  b = b
  None = None
  Symbols = {a, b}
  MaxSize = 2
  DeltaTypes = {"queue_realtime"}
  Asks = {"subscribe"}
  MaxDeltas = 2
  MaxRequests = 2
INVARIANT Coalesced
PROPERTIES DeltasKept EventuallyDrained EventuallyServed
CHECK_DEADLOCK FALSE
