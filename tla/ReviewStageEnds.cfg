SPECIFICATION FairSpec
CONSTANTS
  Frames = 4
  BatchSize = 2
  MinSize = 1
  MaxDepth = 1
  Concurrency = 2
  Channels <- TwoChannels
  ParseAttempts = 2
  TransientAttempts = 2
  RateAttempts = 2
  Budget = 1
  Errors = {"transient", "rate"}
  MaxRuns = 1
PROPERTIES
  BatchesSettle
CHECK_DEADLOCK FALSE
