SPECIFICATION ServerSpec
CONSTANTS
  ka = ka m1 = m1 k1 = k1 cm = cm ca = ca wd = wd tm = tm o1 = o1
  o2 = o2 a1 = a1 b1 = b1 n1 = n1 n2 = n2
  n3 = n3 h1 = h1 g1 = g1 g2 = g2 g3 = g3 w1 = w1 w2 = w2 w3 = w3
  i1 = i1 i2 = i2 i3 = i3 r1 = r1 r2 = r2 r3 = r3 v1 = v1
  e1 = e1 f1 = f1 x1 = x1 x2 = x2 x3 = x3 x4 = x4
  s1 = s1 s2 = s2 s3 = s3 t1 = t1 t2 = t2 t3 = t3 use = use ban = ban p1 = p1 p2 = p2
  y1 = y1 y2 = y2 y3 = y3 y4 = y4 ys = ys y5 = y5 y6 = y6 wx = wx az = az kx = kx ky = ky
  q1 = q1 q2 = q2 q3 = q3 q4 = q4 q5 = q5 q6 = q6
  \* Recall
  Frag = {m1, k1}  Key = {ka}  Master = Master  NoTopic = NoTopic
  Owner <- MCOwner  Keywords <- MCKeywords  Terms <- MCTerms  Topic <- MCTopic
  Link <- MCLink  Caller = {cm, ca}  Scope <- MCScope  Query <- MCQuery  MaxRunning = 1
  Importance <- MCImportance  SqlLimit = 1
  \* Sessions
  MaxSid = 1  Op = {1, 2}  MaxLoad = 3
  \* Consolidation
  Fragment = {a1, b1}  Content = {1, 2}  Account <- MCAccount  Request = {o1, o2}  MaxTickets = 3
  \* Supersession
  Node = {n1, n2, n3}  Born <- MCBorn  Cos <- MCCos  Holder <- MCHolder  NoHolder = NoHolder
  Anchored = {}  Linker = {h1}  TheCycle = TheCycle  NoNode = NoNode  MaxTasks = 2
  \* LinkWrites
  Piece = {g1, g2, g3}  Rank <- MCRank  Hash <- MCHash  Writer = {1, 2, 3}
  Single <- MCSingle  Batch <- MCBatch
  \* WorkingMemory
  Item = {i1, i2, i3}  Tokens <- MCTokens  Heavy = {i1, i3}  Budget = 5
  \* Migrations
  Runner = {r1, r2, r3}  Release <- MCRelease  NoRunner = NoRunner
  \* CaseEvents
  Event = {v1, e1, f1}  EventKind <- MCEventKind  Author <- MCAuthor  Anyone = Anyone
  MaxClock = 1
  \* Milestones
  Reflect = {x1, x2, x3, x4}  Episode <- MCEpisode  NoReflect = NoReflect
  \* Reflection
  ToolCall = {i1, i2}  Stores = {i2}  Closer = {x1, x3}  Explicit = {x3}
  \* DailyUsage
  Client = {w1, w2, w3}  Limits = {1, 2}  FirstLimit = 1  MaxServed = 5
  \* CaseHistory
  Story = {s1, s2, s3}  Reader = Anyone  NoStory = NoStory
  \* SharedBreaker
  Process = {p1, p2}  Threshold = 2  OpenFor = 2  Window = 1  MaxNow = 2  MaxFailures = 3
  \* Claims
  Memo = {1, 2}  Tenant <- MCTenant  Text = {t1, t2, t3}  About <- MCAbout  Marker <- MCMarker
  NoMarker = NoMarker  Positive = {use}  Negative = {ban}  Uncertain = {}  PageSize = 1  MaxEdits = 3
  \* Retention
  KeptKind = {"preference", "fact", "reflection"}  Inactive = 1  Forgotten = 2  MaxJobs = 1
  \* ContextAssembly
  Note = {q1, q2, q3, q4, q5, q6}  NoteType <- MCNoteType  NoteSize <- MCNoteSize  Told = {q4, q6}
  Requested = {"preference", "error"}  MaxCore = 4  TypeSlots <- MCTypeSlots  CoreChars = 9  LeastCut = 1
  \* ReflectTool
  Scrap = {y1, y2, y3, y4, ys}  Lasting = {y4, ys}  Saga = ys  Category <- MCCategory  Words <- MCWords
  Length <- MCLength  Closed = {y1}  MaxLength = 3  Unfit = {}  Review = {y5, y6}  Given <- MCGiven  MaxRoom = 2
  \* OAuthGrants
  App = {az}  ApiKey = {kx, ky}  NoApiKey = NoApiKey  OwnKey <- MCOwnKey  BearerKey <- MCBearerKey
  Poster = {1, 2}  Secret = {NoApiKey, ky}  MaxGrants = 2
INVARIANTS
  ServerTypeOK
   KeywordRecallComplete  
  SurvivesRestart EndedStaysEnded
  QueueNeverStuck MergeKeepsOne
  SupersededByNewer SupersededLeavesTrace
  NoCircularWait LinkedBothWays
  BudgetEnforced
  AppliedInOrder
  ListedInOrder ChainSkipsNone
  ReflectedOnce
  UsageBound
  ChainsFollowLinks BackfillMissesNone CollectedIdle ContextKept
  ClearedScrapsTold RotationAccounted ActsForShownKey
PROPERTIES
  TripHolds
VIEW FocusView
CHECK_DEADLOCK FALSE
