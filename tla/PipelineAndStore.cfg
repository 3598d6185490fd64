SPECIFICATION BothSpec
CONSTANTS
  Frag = {f1, f2}
  Rank <- AnyRank
  Content = {a, bad}
  Bad = {bad}
  Poller = poller
  Sweep = {script}
  Script = {script}
  SweepLimit = 2
  PollBatch = 2
  ChunkCap = 2
  SubBatch = 2
  RetryLimit = 2
  MaxQueue = 1
  MaxCrash = 0
  NoRow = NoRow
  Gone = Gone
  NoVec = NoVec
  \* the store
  s1 = s1  s2 = s2  Limited = Limited  TheMaster = TheMaster
  r1 = r1  r2 = r2  r3 = r3  c1 = c1  c2 = c2  c3 = c3
  NoOne = NoOne  NoId = NoId  NoKey = NoKey  NoText = NoText
INVARIANTS StaleOnlyIfOvertaken QuotaBound
SYMMETRY Interchangeable
VIEW FocusView
CHECK_DEADLOCK FALSE
