\* Every order of up to three marks against every small inventory.
CONSTANTS
  Snapshots <- MCSnapshots
  Marks <- MCMarks
  MarkSeqs <- MCMarkSeqs
  MaxMarks = 3
SPECIFICATION Spec
INVARIANTS
  TypeOK
  PlanSparesWhatIsUsed
  EveryMarkAnsweredOnce
  RemovalOrder
  EstimateIsHonest
  BuildMeetsRules
CHECK_DEADLOCK FALSE
