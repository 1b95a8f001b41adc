\* A cleanup that fills the disk, and the next one.
CONSTANTS
  Items <- MCItems
  Plans <- MCPlans
  Freed = {0}
  MaxRuns = 2
SPECIFICATION FileSpec
INVARIANT ReadableIntentBeforeMutation
CHECK_DEADLOCK FALSE
