\* Timers, the Online hook, Check again, abandon, the startup pass, and the fairness of the runtime.
SPECIFICATION FairSpec
CONSTANTS
  Printers = {p1}
  Ops = {o1}
  Endpoints = {e1}
  Budgets <- Retries
  None = None
  MaxJobs = 2
PROPERTIES DispatchEnds ChecksGoOn

CHECK_DEADLOCK FALSE
