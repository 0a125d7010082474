SYMMETRY BookSymmetry
SPECIFICATION Spec
CONSTANTS
  LastMinute = 2
  MaxTrades = 2
  BigTrades = {1}
  Books = {ask, bid}
  MaxCrashes = 1
  MaxFailures = 1
  MaxSeeds = 1
  StartupRecovery = TRUE
INVARIANTS ConfirmedExact SameDayChart CacheCovers
PROPERTIES Kept
CHECK_DEADLOCK FALSE
