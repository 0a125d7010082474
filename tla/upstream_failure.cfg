SPECIFICATION Spec
CONSTANTS
  Loop = Loop
  s1 = s1
  Symbols = {s1}
  StartupSymbols = {s1}
  Clients = {}
  LastPeriod = 2
  Crowded = {1}
  MaxFailures = 1
INVARIANT LoopSurvives
CHECK_DEADLOCK FALSE
