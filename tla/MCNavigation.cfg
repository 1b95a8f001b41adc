\* Every key of the atlas under snapshots that come and go.
CONSTANTS
  Rank <- MCRank
  Snapshots <- MCSnapshots
SPECIFICATION Spec
INVARIANTS
  CursorsInRange
  EveryObjectOnce
  TotalsAgree
PROPERTY SelectionSurvives
CHECK_DEADLOCK FALSE
