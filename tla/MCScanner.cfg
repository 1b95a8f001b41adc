\* Every interleaving of the collectors, the log workers and a changing daemon.
CONSTANTS
  c1 = c1
  c2 = c2
  c3 = c3
  Ids = {c1, c2, c3}
  LogConcurrency = 2
  MaxVersion = 1
SPECIFICATION FairSpec
INVARIANTS
  TypeOK
  CompleteIsOneMoment
  MissingIsReported
  NothingOutlivesScan
CHECK_DEADLOCK FALSE
PROPERTIES CancelledScanReturns AnsweredScanReturns
