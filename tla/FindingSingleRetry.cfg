SPECIFICATION FairSpec
CONSTANTS
  r1 = r1
  r2 = r2
  h1 = h1
  h2 = h2
  i1 = i1
  i2 = i2
  i3 = i3
  LocalId = LocalId
  NoEntry = NoEntry
  Review <- OneReview
  Handler <- OneHandler
  EntryId <- TwoIds
  Modes = {"single"}
  WorkerStages = {"single"}
  DownloadRetries = 1
  PgFaults = FALSE
  RedisFaults = FALSE
  LateHeartbeats = FALSE
  MaxCrashes = 0
PROPERTIES
  EveryReviewDecided
CHECK_DEADLOCK FALSE
