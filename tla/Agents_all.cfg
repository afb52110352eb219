SPECIFICATION Spec
CONSTANTS
  Generates = {g1, g2}
  Streams = {s1}
  Providers = 3
  MaxAttempts = 2
  Chunks = 2
  CutMidway = FALSE
  Loops = {"deep", "react"}
  Tools = {"trace_search", "keyword_search", "hybrid_search", "today"}
  Args = {"x", "y"}
  Facts = {f1, f2}
  MaxHits = 2
  MaxSteps = 3
  RoleLists <- MCRoleLists
  SubAgents = {"vector", "keyword", "graph", "trace", "web", "memory"}
  ChunkIds = {c1, c2}
  Scores = {1, 2}
  Whole = 3
  MaxTries = 2
  KeptHits = 2
  HookMayThrow = TRUE
  LongHistory = TRUE
  RankedChunks = {c1, c2, c3, c4, c5}
  TopK = 2
  RrfK = 60
  Rerankers = {"identity", "cohere"}
  EditedChunks = {c5}
  MaxEdits = 1
  HitChars = {100, 261, 420}
  TurnChars = {3, 90}
  MaxListed = 2
  EvidenceMax = {65, 100}
  HistoryMax = {20}
  MaxWire = 3
  ModelCalls = {"stream", "generate", "generate2"}
  MaxTexts = 7
  IngestBatch = 4
  EmbedderBatch = 3
  CacheRooms = {"w1", "w2"}
  CacheUsers = {"u1", "u2"}
  CacheTtl = 1
  MaxCacheTime = 3
  MaxCacheWrites = 3
  Listeners = {"h1", "h2", "h3"}
  MaxTurnover = 4
  TraceIds = {"t1", "t2", "t3"}
  MaxTraces = 3
  EvalChunks = {"a", "b", "c"}
  MaxEvalLines = 3
  MaxPassages = 3
  MaxSynthetic = 5
INVARIANTS AttemptsInOrder TraceIsPaired AnswersAreWhole FusionRespectsRanks PromptFitsBudget CallsKeepTheirOwn ComputesAsDefined
CHECK_DEADLOCK FALSE
