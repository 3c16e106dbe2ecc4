SPECIFICATION Spec
CONSTANTS
    Months = 2
    Reading = {0, 1}
    Method = {"cash", "transfer"}
    Req = {r1, r2}
    ReqId = {q1}
    None = None
    MaxStarts = 4
    Forms <- BillForms
SYMMETRY Perms
INVARIANTS
    TypeOK
    PaymentAgrees
    RejectedOnce
    LoneSaveAgrees
PROPERTIES
    ReversalsSawThePayment
    ApprovalIsKept
\* The bounds end every behaviour.
CHECK_DEADLOCK FALSE
