SPECIFICATION Spec
CONSTANTS
  r1 = r1
  r2 = r2
  h1 = h1
  h2 = h2
  i1 = i1
  i2 = i2
  i3 = i3
  LocalId = LocalId
  NoEntry = NoEntry
  Review <- OneReview
  Handler <- TwoHandlers
  EntryId <- TwoIds
  Modes = {"staged", "single"}
  WorkerStages = {"preprocess", "model", "single"}
  DownloadRetries = 0
  PgFaults = FALSE
  RedisFaults = FALSE
  LateHeartbeats = TRUE
  MaxCrashes = 1
SYMMETRY Symmetry
INVARIANTS
  NoReviewDropped
CHECK_DEADLOCK FALSE
