SPECIFICATION Spec
CONSTANTS
  Loop = Loop
  NoObject = NoObject
  Symbols = {s1, s2}
  Clients = {c1}
  Slots = {1, 2}
  MaxHydrations = 1
  Calls = {"attach", "detach", "deactivate", "raw"}
  HydrationResults = {"WARM", "none", "error"}
  SeedPayloads = {"LIVE"}
  RawPayloads = {"LIVE"}
  AttachResults = {"skipped"}
  ReleaseResults = {}
  SinkResults = {"written"}
SYMMETRY Alike
INVARIANTS HydrationAccounting
PROPERTIES HydrationIsSlots
