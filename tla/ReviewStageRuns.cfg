SPECIFICATION Spec
CONSTANTS
  Frames = 3
  BatchSize = 2
  MinSize = 1
  MaxDepth = 1
  Concurrency = 1
  Channels <- TwoChannels
  ParseAttempts = 2
  TransientAttempts = 2
  RateAttempts = 1
  Budget = 1
  Errors = {"transient", "final"}
  MaxRuns = 2
INVARIANTS
  TypeOK
  CompletedIsWhole
PROPERTIES
  BlockedNotAskedAgain
CHECK_DEADLOCK FALSE
