\* A position in three markets, read while the pool goes on.
SPECIFICATION Spec
CONSTANTS
    steady = steady
    volatile = volatile
    isolated = isolated
    Markets = {steady, volatile, isolated}
    Config <- SmallConfig
    Portfolios <- SmallPortfolios
    Ray = 10000
    WadRayRatio = 10
    Year = 4
    Percent = 10
    Prices = {1, 2}
    Amounts = {25}
    MaxMoves = 2
    MaxTime = 3
INVARIANTS
    TypeOK
    AvailableMatchesPool
    HealthyIfBorrowable
    
    LiquidityMatchesPool
\* transactions and time may be used up
CHECK_DEADLOCK FALSE
