SPECIFICATION PrintingLiveSpec
CONSTANTS
  Jobs <- OneJob
  Ops <- ThreeOps
  Printers = {p}
  Endpoints = {e}
  Operators = {op}
  Driver = driver
  Verbs <- CancelOnly
  Limit = 1
  PageSize = 1
  Budgets <- Flapping
  MaxPrints = 1
PROPERTIES NothingHangs
CHECK_DEADLOCK FALSE
