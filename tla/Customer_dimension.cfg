SPECIFICATION Spec
CONSTANTS
  Customers = {c1, c2}
  Attributes = {a1, a2}
  NoHash = NoHash
  NoDate = NoDate
  MaxDays = 3
  MaxBatches = 3
  Retries = 1
CHECK_DEADLOCK FALSE
INVARIANT TypeOK
INVARIANT OneCurrentVersion
INVARIANT OneVersionPerDay
INVARIANT BatchIsApplied
INVARIANT MirrorsPython
PROPERTY HistoryIsKept
PROPERTY RetryIsIdempotent
PROPERTY ImplementsProfileTable
