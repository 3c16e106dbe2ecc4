SPECIFICATION Spec
CONSTANTS
    Entry = {e1, e2, e3}
    Bed = {b1, b2, b3}
    Req = {r1, r2}
    NoBed = NoBed
    NoEntry = NoEntry
    Attempts = 2
    MaxCrashes = 2
    MaxErrors = 1
SYMMETRY Perms
INVARIANTS
    TypeOK
    NoDoubleOccupancy
    OccupiedBedIsUsed
    NoBedLost
PROPERTIES
    ImplementsLedger
