SPECIFICATION Spec
CONSTANTS
    MaxEntries = 3
    Slices = {plain, unsure}
    plain = plain
    unsure = unsure
    Printers = {p, q}
    Spools = {r, s}
    None = None
    Storage = Storage
    Estimate <- MCEstimate
    Absent = {unsure}
    Fits <- MCFits
    Suits <- MCSuits
    Proven = {p, q}
    MaxMg = 2
    Park = 10
    PumpKeepsUp = FALSE
    Asked <- MCAsked
    Plans <- Flaps
SYMMETRY Symmetry
INVARIANTS Unstranded
CHECK_DEADLOCK FALSE
