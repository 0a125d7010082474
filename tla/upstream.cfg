SPECIFICATION FairSpec
CONSTANTS
  Loop = Loop
  s1 = s1
  c1 = c1
  c2 = c2
  Symbols = {s1}
  StartupSymbols = {s1}
  Clients = {c1, c2}
  LastPeriod = 2
  Crowded = {1}
  MaxFailures = 1
INVARIANTS TypeOK SoleCaller ExactlyOnce WatchedIsSubscribed
PROPERTIES QuietIsRenewed
CHECK_DEADLOCK FALSE
