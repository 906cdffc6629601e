SPECIFICATION HandedSpec
CONSTANTS
  Jobs <- OneJob
  Ops <- ThreeOps
  Printers = {p}
  Endpoints = {e}
  Operators = {op1, op2}
  Driver = driver
  Verbs <- NoControls
  Limit = 1
  PageSize = 2
  Budgets <- Handing
  MaxPrints = 2
INVARIANTS MaterialOnce PrintsAccounted StartIsOwn LinkedOps UnattendedOnce
SYMMETRY Symmetry
CHECK_DEADLOCK FALSE
