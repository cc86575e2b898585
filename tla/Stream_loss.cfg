SPECIFICATION Spec
CONSTANTS
  Ids = {e1, e2}
  Garbled = Garbled
  MaxRecords = 2
  MaxPuts = 1
  MaxFailures = 1
INVARIANT FailedBatchIsRetried
