\* Every method, one call at a time, with allowance changes around it.
SPECIFICATION FairSpec
CONSTANTS
    Calls = {c1}
    c1 = c1
    Ops <- CheckedOps
    MaxAmount = 2
    MaxMoves = 1
INVARIANTS
    RevertOnlyIfDisturbed
    QuoteNeverBlocked
PROPERTY BatchSettles
CHECK_DEADLOCK FALSE
