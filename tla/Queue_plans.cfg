SPECIFICATION Spec
CONSTANTS
    MaxEntries = 3
    Slices = {plain, unsure}
    plain = plain
    unsure = unsure
    Printers = {p, q}
    Spools = {r, s}
    None = None
    Storage = Storage
    Estimate <- MCEstimate
    Absent = {unsure}
    Fits <- MCFits
    Suits <- MCSuits
    Proven = {p, q}
    MaxMg = 2
    Park = 10
    PumpKeepsUp = TRUE
    Asked <- MCAsked
    Plans <- MCPlans
SYMMETRY Symmetry
INVARIANTS PositionsDense OffersHold Unstranded
PROPERTIES OrderKept AssignedSoundly
CHECK_DEADLOCK FALSE
