SPECIFICATION Spec
CONSTANTS
    k1 = k1
    k2 = k2
    k3 = k3
    Key = {k1, k2}
    Proc = {p1, p2}
    JobId = {j1, j2, j3, j4, j5}
    NoKey = NoKey
    NoId = NoId
    QueueLimit = 2
    Reserve = 1
    StreakLimit = 1
    Requests <- Singles
    ScheduledKeys <- NoKeys
    Coverages <- OneCoverage
    ClientProc = {p1}
    BulkProc = {p2}
    CronProc = {}
    MaxTime = 1
    MaxFaults = 1

INVARIANT RecoveredQueueIsReadable
