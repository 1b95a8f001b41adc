\* Two processes on one cache file; commands may stop being issued.
CONSTANTS
  Procs = {"p", "q"}
  Daemons = {"d", "e"}
  TTL = 1
  MaxNow = 2
SPECIFICATION Spec
INVARIANTS
  TypeOK
  AnswersAreFresh
  NoLockAcrossScan
PROPERTY AnsweredCommandsEnd
