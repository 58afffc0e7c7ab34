\* Two calls of three methods, which retry, with one allowance change outside the
\* SDK; no symmetry, since liveness is checked.
SPECIFICATION FairSpec
CONSTANTS
    Calls = {c1, c2}
    c1 = c1
    c2 = c2
    Ops <- OverlappingOps
    MaxAmount = 2
    MaxMoves = 1
INVARIANTS
    TypeOK
    OverlappingCallsCompose
    TxFlowInv
PROPERTIES
    NoRepeatedApproval
    PaymentsAsPromised
    RejectionsDieOut
\* The calls may all be over and never be retried.
CHECK_DEADLOCK FALSE
