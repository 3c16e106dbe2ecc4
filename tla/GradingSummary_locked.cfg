SPECIFICATION Spec
CONSTANTS
    N = 1
    Criterion = {c1}
    Discipline = {}
    Role = {"teacher"}
    Mark = {0}
    Form <- Handmade
    Sent <- Fields
    Req = {r1, r2}
    None = None
    MaxScore = 1
    Pass = 1
    MaxStarts = 3
SYMMETRY Perms
PROPERTY
    LockedSummaryIsFinal
\* The bounds end every behaviour.
CHECK_DEADLOCK FALSE
