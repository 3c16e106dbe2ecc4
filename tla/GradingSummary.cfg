SPECIFICATION Spec
CONSTANTS
    N = 2
    Criterion = {c1, c2}
    Discipline = {c2}
    Role = {"student", "admin"}
    Mark = {0}
    Form <- Handmade
    Sent <- Fields
    Req = {r1, r2}
    None = None
    MaxScore = 1
    Pass = 1
    MaxStarts = 3
SYMMETRY Perms
INVARIANT TypeOK
PROPERTIES
    SyncKeepsLockedDetails
    DetailsPersist
    LoneRequestHeals
    LoneApprovalAgrees
\* The bounds end every behaviour.
CHECK_DEADLOCK FALSE
