SPECIFICATION Spec
CONSTANTS
  Frames = 3
  BatchSize = 2
  MinSize = 1
  MaxDepth = 1
  Concurrency = 1
  Channels <- TwoChannels
  ParseAttempts = 2
  TransientAttempts = 2
  RateAttempts = 1
  Budget = 1
  Errors = {"transient"}
  MaxRuns = 2
PROPERTIES
  ExclusionSurvivesRetry
CHECK_DEADLOCK FALSE
