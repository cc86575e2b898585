SPECIFICATION Spec
CONSTANTS
  Runs = {r1}
  Keys = {k1}
  NullKey = NullKey
  NoRun = NoRun
  MaxTime = 1
  MaxFailures = 1
INVARIANT FailureIsAudited
