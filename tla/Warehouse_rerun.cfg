SPECIFICATION WarehouseSpec
CONSTANTS
  Customers = {c1}
  Attributes = {a1, a2}
  NoHash = NoHash
  NoDate = NoDate
  MaxDays = 2
  MaxBatches = 2
  Retries = 1
  Orders = {o1}
  OrderItems = {i1}
CHECK_DEADLOCK FALSE
INVARIANT MergeRerunIsNoOp
