CONSTANTS
  Refs = {"r1", "r2"}
  Blobs = {"b1", "b2"}
  MaxRounds = 1
  MaxFaults = 3
  BlobsOf <- MCBlobsOf
  RefsOf <- MCRefsOf
  m1 = m1
  m2 = m2
  top = top
  mid = mid
  low = low
  below = below
  above = above
  Linkables = {m1, m2}
  Paths = {below, above}
  Folders = {top, mid, low}
  FolderOf <- MCFolderOf
  Ancestors <- MCAncestors
  Contents = {"x", "y", "bad"}
  Unsuited = {"bad"}
  Retries = 1
  Callers = {u1, u2}
  Nothing = nothing
  Efforts <- MCEfforts
  Settings = settings
  Printers = printers
  Texts = {"x", "y", "bad", "new"}
  Broken = {"bad"}
  Newer = {"new"}
  Absent = absent
  Chances <- MCChances
SPECIFICATION MCSpec
INVARIANTS FarmIsWhole CredentialsAccounted GivenUpForCause TruthfulLink NothingMissed 
PROPERTIES Settles
CHECK_DEADLOCK FALSE
