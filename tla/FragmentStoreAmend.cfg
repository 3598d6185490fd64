SPECIFICATION Spec
CONSTANTS
  Caller = {s1, s2}
  Key = {master, k1}
  Master = master
  LimitedKey = {k1}
  Limit <- MCLimit
  Group <- NoGroups
  HardGate = {}
  Frag = {f1}
  Content = {c1, c2, c3}
  Violating = {}
  Token = {}
  MaxBatch = 2
  Tool = {"remember", "amend"}
  MaxSetSize = 1
  WarmupLimit = 1
  AtomicRemember = FALSE
  NoCaller = NoCaller
  NoFrag = NoFrag
  NoToken = NoToken
  NoContent = NoContent
  NoRow = NoRow
PROPERTY AmendPreservesPreviousVersion
