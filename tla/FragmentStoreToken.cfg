SPECIFICATION Spec
CONSTANTS
  Caller = {s1, s2}
  Key = {master, k1}
  Master = master
  LimitedKey = {k1}
  Limit <- MCLimit
  Group <- NoGroups
  HardGate = {}
  Frag = {f1, f2}
  Content = {c1, c2}
  Violating = {}
  Token = {t1}
  MaxBatch = 2
  Tool = {"remember"}
  MaxSetSize = 1
  WarmupLimit = 1
  AtomicRemember = FALSE
  NoCaller = NoCaller
  NoFrag = NoFrag
  NoToken = NoToken
  NoContent = NoContent
  NoRow = NoRow
VIEW WithoutIndex
INVARIANT SameTokenSameFragment
