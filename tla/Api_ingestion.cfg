SPECIFICATION FairSpec
CONSTANTS
  Records <- MCRecords
  Invalid <- MCInvalid
  NullCode = ""
  MaxPages = 2
  MaxPageSize = 1
  MaxAttempts = 3
  InitialDelay = 1
  MaxDelay = 1
  MinInterval = 1
  MaxRuns = 2
  MaxFailures = 1
INVARIANT TypeOK
INVARIANT FeedYieldedOnce
INVARIANT OutcomeIsRecorded
PROPERTY RawIsWholeFeed
PROPERTY WatermarkIsLanded
PROPERTY WatermarkFollowsFeed
PROPERTY BurstsAreRetries
PROPERTY RunEnds
CHECK_DEADLOCK FALSE
