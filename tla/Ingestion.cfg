SPECIFICATION FairSpec
CONSTANTS
  Runs = {r1, r2}
  Keys = {k1}
  NullKey = NullKey
  NoRun = NoRun
  MaxTime = 2
  MaxFailures = 1
INVARIANT TypeOK
INVARIANT NoRowSkipped
INVARIANT StagingPassedGates
INVARIANT AuditAgreesWithControl
PROPERTY WatermarkNeverRegresses
PROPERTY ImplementsLedger
PROPERTY RowsDelivered
PROPERTY WatermarkCatchesUp
