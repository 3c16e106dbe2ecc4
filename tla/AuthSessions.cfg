SPECIFICATION Spec
CONSTANTS
    legacy = legacy
    child = child
    device = device
    admin = admin
    student = student
    Family = {legacy, child, device}
    NoFamily = NoFamily
    Parent <- OpenedFrom
    Owner <- AccountOf
    Legacy = {legacy}
    User = {admin, student}
    Req = {r1, r2}
    r1 = r1
    r2 = r2
    MaxTokens = 4
SYMMETRY Perms
INVARIANTS
    TypeOK
    NoAnswerAfterRevocation
    OneSuccessor
    SentTokensArePersisted
PROPERTY RevocationIsFinal
