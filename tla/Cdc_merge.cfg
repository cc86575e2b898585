SPECIFICATION Spec
CONSTANTS
  Keys = {k1, k2}
  Values = {v1, v2}
  Absent = Absent
  MaxChanges = 3
  MaxRepeats = 1
  MaxFailures = 1
CHECK_DEADLOCK FALSE
INVARIANT TypeOK
INVARIANT OneRowPerKey
PROPERTY ImplementsReplica
PROPERTY RerunIsIdempotent
