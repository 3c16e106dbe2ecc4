\* One process with its cron handler; demand for k1 and k2, a schedule for k3.
SPECIFICATION FairSpec
CONSTANTS
    k1 = k1
    k2 = k2
    k3 = k3
    Key = {k1, k2, k3}
    Proc = {p1}
    JobId = {j1, j2}
    NoKey = NoKey
    NoId = NoId
    QueueLimit = 2
    Reserve = 1
    StreakLimit = 2
    Requests <- DemandK1K2
    ScheduledKeys <- OnlyK3
    Coverages <- NoCoverage
    ClientProc = {p1}
    BulkProc = {}
    CronProc = {p1}
    MaxTime = 0
    MaxFaults = 1
PROPERTIES
    JobEnds
    QueueServed
    RequestAnswered
