SPECIFICATION Spec
CONSTANTS
  Customers = {c1}
  Attributes = {a1, a2}
  NoHash = NoHash
  NoDate = NoDate
  MaxDays = 3
  MaxBatches = 2
  Retries = 0
CHECK_DEADLOCK FALSE
INVARIANT HalfOpenJoinFindsVersion
