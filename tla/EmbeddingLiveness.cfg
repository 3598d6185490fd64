SPECIFICATION FairSpec
CONSTANTS
  Frag = {f1, f2}
  Rank <- AnyRank
  Content = {a, bad}
  Bad = {bad}
  Poller = poller
  Sweep = {backfill}
  Script = {}
  SweepLimit = 2
  PollBatch = 1
  ChunkCap = 2
  SubBatch = 2
  RetryLimit = 2
  MaxQueue = 1
  MaxCrash = 1
  NoRow = NoRow
  Gone = Gone
  NoVec = NoVec
PROPERTY EventuallyEmbedded
CHECK_DEADLOCK FALSE
VIEW WithoutHistory
