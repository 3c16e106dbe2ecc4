\* No crash and no datastore error: requests only.
SPECIFICATION DeletionSpec
CONSTANTS
    Entry = {e1, e2}
    Bed = {b1, b2}
    Req = {r1, r2}
    NoBed = NoBed
    NoEntry = NoEntry
    Attempts = 1
    MaxCrashes = 0
    MaxErrors = 0
PROPERTY FailedDeletionRestoresItsBed
