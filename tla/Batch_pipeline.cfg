SPECIFICATION FairSpec
CONSTANTS
  Keys = {k1}
  Null = Null
  DagRuns = {d1}
  Jobs = {j1, j2}
  NoRun = NoRun
  Flaws <- MCFlaws
  ColumnSets <- MCColumnSets
  MaxRetries = 1
  MaxTime = 2
  MaxFailures = 1
INVARIANT TypeOK
INVARIANT LandedBelowWatermark
INVARIANT CommittedRowsAreComplete
INVARIANT BadSilverWasQuarantined
PROPERTY ImplementsLedger
PROPERTY DagRunsEnd
