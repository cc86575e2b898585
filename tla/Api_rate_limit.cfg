SPECIFICATION Spec
CONSTANTS
  Records <- MCRecords
  Invalid <- MCInvalid
  NullCode = ""
  MaxPages = 1
  MaxPageSize = 1
  MaxAttempts = 2
  InitialDelay = 1
  MaxDelay = 1
  MinInterval = 1
  MaxRuns = 1
  MaxFailures = 0
PROPERTY BackoffRespectsRateLimit
CHECK_DEADLOCK FALSE
