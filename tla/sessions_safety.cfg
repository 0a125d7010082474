SPECIFICATION SessionSpec
CONSTANTS
  Loop = Loop
  NoObject = NoObject
  Symbols = {s1}
  Clients = {c1, c2}
  Slots = {1, 2}
  MaxHydrations = 1
  StartupSymbols = {}
  Calls = {"attach", "detach", "retain", "evict"}
  HydrationResults = {"WARM", "error"}
  SeedPayloads = {"LIVE"}
  RawPayloads = {}
  AttachResults = {"attached"}
  ReleaseResults = {"released", "error"}
  SinkResults = {"written"}
SYMMETRY ClientsAlike
INVARIANTS AttachedIsReferenced FlagIsBacked
CHECK_DEADLOCK FALSE
