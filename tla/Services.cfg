SPECIFICATION MCSpec
CONSTANTS
  c1 = c1  c2 = c2  c3 = c3
  g1 = g1  g2 = g2  d1 = d1  d2 = d2
  h1 = h1  h2 = h2  h3 = h3
  u1 = u1  u2 = u2  s1 = s1  s2 = s2  s3 = s3  r1 = r1  r2 = r2  r3 = r3  j1 = j1  j2 = j2
  Scenes = {"gate", "chat", "memory", "index", "tools", "stream", "schema", "work", "knowledge", "intent", "paid", "dispatch", "pipeline", "studio", "sync", "faq", "skills"}
  Calls = {c1, c2, c3}
  Limit = 1
  Queue = 1
  Wait = 1
  RunTime = 1
  Grace = 2
  Reply = 1
  ConfigOf <- TheirConfig
  Modes = {"redis", "local"}
  Processes = {p1, p2}
  Turns = {1, 2, 3}
  Texts <- Script
  Policies = {{"delete_ad"}}
  MaxFaults = 1
  Nothing = Nothing
  Writers = {w1, w2}
  MaxMessages = 7
  CompressAt = 4
  Keep = 2
  MaxText = 4
  Window = 5
  Generations = {g1, g2}
  Docs = {d1, d2}
  DocsOf <- OneThenTwo
  EmbeddingOf <- TheirEmbedding
  Embeddings = {"e1", "e2"}
  Builders = {b1}
  Requests = {r1}
  None = None
  Callers = {c1, c2}
  Threshold = 2
  Recovery = 2
  Timeout = 3
  StageTimeout = 2
  Ttl = 2
  MaxAge = 7
  Readers = {f1}
  Streams = 1
  MaxEvents = 4
  Page = 2
  Batch = 2
  Hosts = {h1, h2, h3}
  ReleaseOf <- TheirReleases
  Steps = 2
  MaxDeaths = 3
  Copies = {k1, k2, k3}
  Contents = {x, y}
  MaxRevision = 3
  Empty = Empty
  Services = {v1, v2}
  Legacy <- TheirLegacy
  Added = {"u3"}
  Removed = {"u1"}
  Retired = {"o1"}
  Replaced = {"q1"}
  Defaults = {"n1"}
  PageSize = 2
  MaxCrashes = 1
  Askers = {a1}
  Messages <- TheirMessages
  Intents = {"bid", "query", "complaint", "other"}
  Confidences = {0, 60, 100}
  Similar = TRUE
  Capacity = 2
  Runners = {n1, n2}
  Setup = {"s"}
  Rows <- TheirRows
  Routed = {"x1", "x2"}
  Reading = {}
  Repeats <- TheirRepeats
  Experiments = {"observation", "effect", "fix", "e3", "e4", "bracelets", "links", "evidence"}
  MaxCalls = 4
  Cap = 3
  MaxStarts = 2
  Users = {u1, u2}
  Sessions = {s1, s2, s3}
  Runs = {r1, r2, r3}
  OwnerOf <- TrioOwnerOf
  SessionOf <- TrioSessionOf
  NoRun = NoRun
  MaxRunning = 2
  UserRunning = 1
  MaxWaiting = 3
  UserWaiting = 2
  Asking = {r3}
  MaxRuns = 2
  Items = {i1}
  MaxVersion = 2
  MaxErased = 1
  Deployments = {{"chat", "memory", "forgetting"}, {"chat", "memory", "withdrawing"}, {"chat", "cache", "forgetting"}, {"command"}, {"chat", "shell"}}
  StudioWorkers = {w1, w2}
  Orders <- TheirOrders
  QueryLimit = 2
  MaxActive = 1
  MaxRetries <- TheirRetries
  NoWorker = NoWorker
  Gateways = {j1, j2}
  AsksOf <- TheirAsks
  MaxSessions = 2
  FaqAskers = {q1, q2}
  Hashes = {"v1"}
  WordingsOf <- TheirWordings
  Alike = {{"where", "what"}}
  HashTtl = 2
  Generation = 1
  Files = 3
  Named = {2, 3}
  Folder <- TheirFolder
  Drafts <- TheirDrafts
  Absent = Absent
  Spoiled = Spoiled
  Blank = Blank
  AgentTypes = {"ads", "general"}
  Words = {"bid"}
  PerSkill = 3
  Budget = 6
  Dots = 1
  MaxEdits = 2
CHECK_DEADLOCK FALSE
INVARIANTS ProviderLimit ConfirmedOnce TellsAll ActiveIsComplete CachesAgeOut ToldAsItHappened ServesOnItsSchema CommitsKeepWork RulesAreTold CopiedOnce ModelIsNotOutvoted ResumedFaithfully FairShare GoesOnAsAgreed OrderedAndKeptOnce
PROPERTIES NobodyOvertakes RevokedNeverQuoted ForgottenStaysOut
