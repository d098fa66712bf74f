SPECIFICATION FilesSpec
CONSTANTS
  w1 = w1
  w2 = w2
  x1 = x1
  rc1 = rc1
  f1 = f1
  f2 = f2
  p1 = p1
  p2 = p2
  r1 = r1
  r2 = r2
  v1 = v1
  u1 = u1
  o1 = o1
  clip_mp4 = clip_mp4
  clip_mov = clip_mov
  other_mp4 = other_mp4
  ethics = ethics
  listed = listed
  unlisted = unlisted
  Worker <- TwoWorkers
  Canceller <- OneCancel
  Reconciler <- OnePass
  MaxWriters = 2
  MaxDeaths = 1
  Fetcher <- TwoFetchers
  Dir <- TwoDirs
  NoDir = NoDir
  NoFile = NoFile
  Size = 2
  MaxVersion = 2
  FetchAttempts = 2
  TaskRetries = 1
  MaxFetchCrashes = 1
  Chunks = 2
  ChunkTries = 2
  AssembleFirst = 2
  Job <- TwoReviews
  SourceFile <- Sources
  NoSource = NoSource
  KindOf <- SourceKinds
  RawTtl = 1
  DerivedTtl = 1
  WarningTtl = 1
  CriticalTtl = 1
  ZoneShift = 0
  VideoCount = 3
  FileName <- FileNames
  StemOf <- Stems
  NoVideo = NoVideo
  MaxTicks = 5
  FrameRate = {1, 2}
  SegmentSeconds = 2
  FromSecond = {0, 1}
  ToSecond = {2, 3}
  NoEnd = NoEnd
  Look = {0, 1, 2}
  HashThreshold = 1
  MaxGapSeconds = 2
  BatchSize = 2
  SheetCells = 2
  Category <- Categories
  PolicySeverity <- Policies
  Taxonomy <- Taxonomies
  EthicsCategory = ethics
  Text = {"here", "there"}
  MaxFindings = 3
INVARIANTS
  FilesTypeOK
  SentIsPrefix
  CompleteIsBacked
  TornWhileWritten
  FileIsWhole
  PartialsOwned
  AssembledWhole
  LiveFilesKept
  ResultExplained
  EveryFrameSeen
  VerdictAgrees
PROPERTIES
  BrowserHearsEnd
  EveryDownloadSettles
CHECK_DEADLOCK FALSE
