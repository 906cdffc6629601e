SPECIFICATION Spec
CONSTANTS
    Hashes = {"m", "gcode", "log"}
    Owners <- MCOwners
    Models <- TwoModels
    ContentOf <- MCContentOf
    Threads = {w, u, v}
    None = None
    w = w
    u = u
    v = v
    Worker = w
    Ops = {o1, o2}
    o1 = o1
    o2 = o2
    ModelOf <- MCModelOf
    Log <- MCLog
    Rev <- MCRev
    Kept = 1
    Sliced <- OneModel
    Plans <- MCPlans
    MaxFaults = 1
INVARIANTS ContentStays EngineEndsFirst
PROPERTIES OperationsEnd
CHECK_DEADLOCK FALSE
