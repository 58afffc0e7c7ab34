\* One migration of two supplies and two debts, with a change by the user; no
\* symmetry, since liveness is checked.
SPECIFICATION FairSpec
CONSTANTS
    Batches = {b1}
    Supplies = {s1, s2}
    Debts = {d1, d2}
    b1 = b1
    s1 = s1
    s2 = s2
    d1 = d1
    d2 = d2
    Amounts <- OneAmount
    Interest = 1
    Ceiling = 11
    WalletAmounts <- SetByUser
    MaxMoves = 1
INVARIANTS
    QuoteExplained
PROPERTY MigrationSettles
CHECK_DEADLOCK FALSE
