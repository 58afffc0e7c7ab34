\* Two sessions of any kind; no symmetry, since liveness is checked.
SPECIFICATION FairSpec
CONSTANTS
    Sessions = {s1, s2}
    Names = {n1}
    Addresses = {a1, a2}
    NoAddress = NoAddress
    s1 = s1
    s2 = s2
    n1 = n1
    a1 = a1
    a2 = a2
    MaxAmount = 1
    MaxTime = 1
    MaxMoves = 1
INVARIANTS
    TypeOK
    RejectionExplained
    SignatureInv
PROPERTIES
    PermitSparesEnough
    RejectionsDieOut
\* All sessions may be over.
CHECK_DEADLOCK FALSE
