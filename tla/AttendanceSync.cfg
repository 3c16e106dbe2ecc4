\* Three marks of one student, a request and the retry interval.
SPECIFICATION FairSpec
CONSTANTS
    a1 = a1
    a2 = a2
    a3 = a3
    s1 = s1
    s2 = s2
    Att = {a1, a2, a3}
    NoMark = NoMark
    Student = {s1}
    Owner <- OneStudent
    Req = {r1}
    Timer = timer
    Watched = {a1}
    Cap = 1
    Batch = 3
    MaxMarks = 3
    MaxCancels = 1
    MaxCrashes = 1
INVARIANTS
    TypeOK
    CapHoldsUpToRaces
PROPERTIES
    RevokedStaysRevoked
    CrashedSyncCompleted
\* The bounds end every behaviour.
CHECK_DEADLOCK FALSE
