\* Against a documented claim about Totals.Reclaimable.
CONSTANTS
  Snapshots <- MCSnapshots
  Marks <- MCMarks
  MarkSeqs <- MCMarkSeqs
  MaxMarks = 3
SPECIFICATION Spec
INVARIANT ReclaimableIsConservative
CHECK_DEADLOCK FALSE
