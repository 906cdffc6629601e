SPECIFICATION PrintedSpec
CONSTANTS
  Jobs <- ThreeJobs
  Ops <- FourOps
  Printers = {p}
  Endpoints = {e1, e2}
  Operators = {op}
  Driver = driver
  Verbs <- PauseCancel
  Limit = 1
  PageSize = 2
  Budgets <- ControllingOrFollowing
  MaxPrints = 2
INVARIANTS CancelReasonTrue NothingTwice
PROPERTIES EndIsProved
CHECK_DEADLOCK FALSE
