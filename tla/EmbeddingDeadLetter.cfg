SPECIFICATION Spec
CONSTANTS
  Frag = {f1, f2}
  Rank <- AnyRank
  Content = {a, bad}
  Bad = {bad}
  Poller = poller
  Sweep = {backfill}
  Script = {}
  SweepLimit = 2
  PollBatch = 2
  ChunkCap = 2
  SubBatch = 1
  RetryLimit = 1
  MaxQueue = 0
  MaxCrash = 0
  NoRow = NoRow
  Gone = Gone
  NoVec = NoVec
PROPERTY RefusedRowIsDeadLettered
CHECK_DEADLOCK FALSE
