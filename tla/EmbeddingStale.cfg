SPECIFICATION FairSpec
CONSTANTS
  Frag = {f1}
  Rank <- AnyRank
  Content = {a, b}
  Bad = {}
  Poller = poller
  Sweep = {script}
  Script = {script}
  SweepLimit = 2
  PollBatch = 2
  ChunkCap = 2
  SubBatch = 1
  RetryLimit = 1
  MaxQueue = 0
  MaxCrash = 0
  NoRow = NoRow
  Gone = Gone
  NoVec = NoVec
PROPERTY StaleVectorsRegenerated
CHECK_DEADLOCK FALSE
