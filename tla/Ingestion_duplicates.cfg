SPECIFICATION FairSpec
CONSTANTS
  Runs = {r1}
  Keys = {k1}
  NullKey = NullKey
  NoRun = NoRun
  MaxTime = 2
  MaxFailures = 0
PROPERTY DuplicatesAreIngested
