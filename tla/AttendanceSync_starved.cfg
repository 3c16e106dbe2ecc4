\* The retry batch holds one mark; another student is at the cap.
SPECIFICATION FairSpec
CONSTANTS
    a1 = a1
    a2 = a2
    a3 = a3
    s1 = s1
    s2 = s2
    Att = {a1, a2, a3}
    NoMark = NoMark
    Student = {s1, s2}
    Owner <- TwoStudents
    Req = {r1}
    Timer = timer
    Watched = {a1, a2, a3}
    Cap = 1
    Batch = 1
    MaxMarks = 3
    MaxCancels = 0
    MaxCrashes = 1
PROPERTY RetryQueueServed
CHECK_DEADLOCK FALSE
