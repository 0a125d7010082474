SPECIFICATION FairSessionSpec
CONSTANTS
  Loop = Loop
  NoObject = NoObject
  Symbols = {s1}
  Clients = {c1}
  Slots = {1, 2}
  MaxHydrations = 1
  StartupSymbols = {s1}
  Calls = {"attach", "detach", "activate", "seed", "retain", "raw", "evict"}
  HydrationResults = {"WARM", "none", "error"}
  SeedPayloads = {"LIVE"}
  RawPayloads = {"LIVE"}
  AttachResults = {"attached", "skipped", "error"}
  ReleaseResults = {"released"}
  SinkResults = {"written"}
PROPERTIES AbandonedIsEvicted RequestsAnswered
CHECK_DEADLOCK FALSE
