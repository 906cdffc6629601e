\* A crash, and somebody else at the host, around an upload and a start, or a pause and a cancel.
SPECIFICATION MCSpec
CONSTANTS
  Printers = {p1}
  Ops = {o1,o2}
  Endpoints = {e1}
  Budgets <- Outsiders
  None = None
  MaxJobs = 2
SYMMETRY OpSymmetry
INVARIANTS FailedIsQuiet SuccessHasEvidence
CHECK_DEADLOCK FALSE
