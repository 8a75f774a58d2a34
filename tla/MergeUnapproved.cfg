CONSTANTS
  Queued = {q1}
  Shells = {}
  RepairLimit = 1
  MaxNotes = 2
SPECIFICATION Spec
PROPERTY MergeIsApproved
CHECK_DEADLOCK FALSE
