CONSTANTS
  Queued = {q1}
  Shells = {s1}
  RepairLimit = 1
  MaxNotes = 2
SPECIFICATION Spec
INVARIANTS TypeOK ShownIsMerged OneCompletion RepairsEnd
PROPERTIES MergedStays UnmarkedMergeIsApproved ApprovedIsSettled
CHECK_DEADLOCK FALSE
