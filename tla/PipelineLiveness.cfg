SPECIFICATION FairSpec
CONSTANTS
  r1 = r1
  r2 = r2
  h1 = h1
  h2 = h2
  i1 = i1
  i2 = i2
  i3 = i3
  LocalId = LocalId
  NoEntry = NoEntry
  Review <- OneReview
  Handler <- TwoHandlers
  EntryId <- TwoIds
  Modes = {"staged"}
  WorkerStages = {"preprocess", "model"}
  DownloadRetries = 1
  PgFaults = FALSE
  RedisFaults = FALSE
  LateHeartbeats = FALSE
  MaxCrashes = 1
INVARIANTS
  HeldStaysPending
  WorkNotMultiplied
PROPERTIES
  EveryReviewDecided
  QueuesDrain
CHECK_DEADLOCK FALSE
