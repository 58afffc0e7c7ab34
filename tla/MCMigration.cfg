\* Two migrations of one supply and one debt.
SPECIFICATION Spec
CONSTANTS
    Batches = {b1, b2}
    Supplies = {s1}
    Debts = {d1}
    b1 = b1
    b2 = b2
    s1 = s1
    d1 = d1
    Amounts <- SmallAmounts
    Interest = 1
    Ceiling = 11
    WalletAmounts <- SetByUser
    MaxMoves = 0
SYMMETRY BatchSymmetry
INVARIANTS
    TypeOK
    RevertExplained
    SuppliesCompose
    MigrationInv
PROPERTY ApprovalLowersRaised
\* The migrations may all be over.
CHECK_DEADLOCK FALSE
