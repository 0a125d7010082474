SPECIFICATION Spec
CONSTANTS
  Loop = Loop
  NoObject = NoObject
  Symbols = {s1}
  Clients = {c1}
  Slots = {1, 2}
  MaxHydrations = 2
  Calls = {"attach", "detach", "activate", "deactivate", "seed", "apply", "retain", "raw", "evict"}
  HydrationResults = {"WARM", "none", "error"}
  SeedPayloads = {"LIVE"}
  RawPayloads = {"DEGRADED"}
  AttachResults = {"attached", "error"}
  ReleaseResults = {"released", "error"}
  SinkResults = {"written", "error"}
INVARIANTS TypeOK Singleflight EvictingMovesOn
PROPERTIES SnapshotKept
