\* The methods that ask for more than they checked.
SPECIFICATION Spec
CONSTANTS
    Calls = {c1}
    c1 = c1
    Ops <- SweepingOps
    MaxAmount = 2
    MaxMoves = 1
INVARIANT OneTransactionIsEnough
CHECK_DEADLOCK FALSE
