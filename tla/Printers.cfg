SPECIFICATION PrintersSpec
CONSTANTS
  p1 = p1
  p2 = p2
  a = a
  b = b
  c = c
  s1 = s1
  s2 = s2
  s3 = s3
  Spools = {s1, s2}
  Printers = {p1, p2}
  Slots = {a, b, c}
  PrinterOf <- OwnerOf
  Shelves = {shelf}
  Ids = {1, 2}
  Jobs = {1, 2}
  Estimate = 1
  MaxMg = 2
  Usages <- AllUsages
  Hosts = {h1, h2}
  NoHost = none
  Cmds = {c1, c2}
  Depth = 2
  MaxEpochs = 5
  Limits <- MCLimits
  Prints = {1, 2}
  Spends <- MCSpends
  Shots = {1, 2, 3}
  Subjects = {incident, completion}
  Requests = {request}
  Cap = 1
  Allowances <- MCAllowances
INVARIANTS FollowsRow StillUsable Reported Consistent EvidenceHolds
PROPERTIES NeverOverPromised NoSurprise PruneRules
CHECK_DEADLOCK FALSE
