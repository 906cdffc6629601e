\* A crash and a storage failure or a panic around an upload and a start; Connection and
\* lifecycle edits around an upload.
SPECIFICATION MCSpec
CONSTANTS
  Printers = {p1}
  Ops = {o1,o2}
  Endpoints = {e1, e2}
  Budgets <- Troubles
  None = None
  MaxJobs = 2
SYMMETRY OpSymmetry
INVARIANTS SentOnce OneUnresolved EndpointKept
PROPERTIES ImplementsWrites
CHECK_DEADLOCK FALSE
