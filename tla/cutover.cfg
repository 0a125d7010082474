SPECIFICATION Spec
CONSTANTS
  Missing = Missing
  Blocked = Blocked
  Sessions = {s1}
  LastTime = 2
  MinDuration = 2
  Policies = {"default", "relaxed"}
  Faults = {"rejected", "spooled", "hydration"}
  Zones = {TRUE}
INVARIANTS TypeOK RuntimeCovered LongEnough InOrder
CHECK_DEADLOCK FALSE
