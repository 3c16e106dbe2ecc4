\* Two processes: p1 serves requests, p2 serves bulk jobs; one fault.
SPECIFICATION Spec
CONSTANTS
    k1 = k1
    k2 = k2
    k3 = k3
    Key = {k1}
    Proc = {p1, p2}
    JobId = {j1, j2, j3, j4, j5}
    NoKey = NoKey
    NoId = NoId
    QueueLimit = 2
    Reserve = 0
    StreakLimit = 1
    Requests <- Singles
    ScheduledKeys <- NoKeys
    Coverages <- OneCoverage
    ClientProc = {p1, p2}
    BulkProc = {p2}
    CronProc = {}
    MaxTime = 1
    MaxFaults = 1
SYMMETRY JobPerms
INVARIANTS
    TypeOK
    LeaseBelongsToJob
    OverlapCostsFaults
    QueueKeysDistinct
    PendingResultIsFresh
    NoStrandedRequest
PROPERTIES
    ImplementsFeed
