\* Two executions, one after the other or at the same time, with every failure.
CONSTANTS
  Items <- MCItems
  Plans <- MCPlans
  OtherPlans <- MCOtherPlans
  Freed <- MCFreed
  MaxRuns = 2
  MyRuns = 1
SPECIFICATION FairBothSpec
INVARIANTS
  TypeOK
  IntentBeforeMutation
  SuccessIsReal
  OneDoubtPerRun
  ReportKeepsOrder
  ReturnTellsTruth
  NoDoubleClaim
PROPERTIES
  KeepsLedger
  ReturnsInTime
CHECK_DEADLOCK FALSE
