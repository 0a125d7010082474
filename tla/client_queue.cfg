SPECIFICATION Spec
CONSTANTS
  a = a
  None = None
  Symbols = {a}
  MaxSize = 2
  DeltaTypes = {"tick_realtime", "alert_realtime", "snapshot"}
  Asks = {"subscribe", "unsubscribe", "holding_name_click", "health"}
  MaxDeltas = 3
  MaxRequests = 2
INVARIANTS TypeOK QueueBounded AlertsReachClient
PROPERTIES AlertsKept KindInOrder
CHECK_DEADLOCK FALSE
