\* A build cache mark the by-project layout drops.
SPECIFICATION Spec
CONSTANTS
  image = image
  cache = cache
  Objects <- MCObjects
  BuildCaches <- MCBuildCaches
  MaxVersion = 2
  Present <- MCPresent
  Deletable <- MCDeletable
  Slots = 2
CHECK_DEADLOCK FALSE
INVARIANT
  PlanCoversMarks
