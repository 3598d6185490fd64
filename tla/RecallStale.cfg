SPECIFICATION RecallSpec
CONSTANTS
  m1 = m1  cm = cm  wd = wd
  Frag = {m1}  Key = {}  Master = Master  NoTopic = NoTopic
  Owner <- MCOwner  Keywords <- MCKeywords  Terms <- MCTerms  Topic <- MCTopic
  Importance <- MCImportance  Link = {}  Caller = {cm}  Scope <- MCScope  Query <- MCQuery
  SqlLimit = 1  MaxRunning = 1
INVARIANT SupersededExcluded
CHECK_DEADLOCK FALSE
