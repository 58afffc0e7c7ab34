\* L2Pool.liquidationCall, asked for its gas before the approval is mined.
SPECIFICATION Spec
CONSTANTS
    Calls = {c1}
    c1 = c1
    Ops <- BlindOps
    MaxAmount = 2
    MaxMoves = 1
INVARIANT QuoteWithPendingApproval
CHECK_DEADLOCK FALSE
