\* The event loop with all its keys, messages and signals; the program may end.
SPECIFICATION FairSpec
CONSTANTS
  image = image
  cache = cache
  Objects <- MCObjects
  BuildCaches <- MCBuildCaches
  MaxVersion = 2
  Present <- MCPresent
  Deletable <- MCDeletable
  Slots = 2
CHECK_DEADLOCK FALSE
INVARIANTS
  TypeOK
  OneOperation
  ExecutedIsPrepared
  EveryExecutionIsConfirmed
  
PROPERTIES CancelledOperationQuits LoadingEnds
