SPECIFICATION FairSpec
CONSTANTS
  Ids = {e1, e2}
  Garbled = Garbled
  MaxRecords = 2
  MaxPuts = 4
  MaxFailures = 1
INVARIANT TypeOK
INVARIANT LossOnlyInWindows
INVARIANT InOrder
PROPERTY LandedOnce
PROPERTY Drains
