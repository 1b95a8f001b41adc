\* A cleanup, interrupted or not, while others use the daemon, and a second plan.
CONSTANTS
  Items <- MCItems
  Plans <- MCPlans
  Freed = {0}
  MarkSets <- MCMarkSets
  MaxRuns = 1
  MaxScans = 2
SPECIFICATION Spec
INVARIANTS
  PlanFromOneMoment
  RemovesWhatWasShown
  SurvivorsAreReported
PROPERTY ImplementsExecutor
CHECK_DEADLOCK FALSE
