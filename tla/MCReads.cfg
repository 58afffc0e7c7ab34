\* Incentives of a supply token, whose supply is worked out, and a debt token;
\* a cache of four tokens, a memo of three hashes, the feeds of two tokens, and
\* the gas of an action with a limit of its own and one without.
SPECIFICATION ReadsSpec
CONSTANTS
    Tokens = {supply, variable}
    Drifting = {supply}
    supply = supply
    variable = variable
    Emission = 1
    Precision = 2
    Whole = 12
    EmissionEnd = 2
    MaxBalance = 1
    MaxOthers = 2
    MaxDrift = 1
    MaxMoves = 3
    MaxTime = 4

    usdc = usdc
    gold = gold
    native = native
    maker = maker
    Callers = {c1, c2}
    c1 = c1
    c2 = c2
    CachedTokens = {usdc, gold, native, maker}
    DecimalsOnChain <- Decimals
    Native = {native}
    Maker = {maker}
    MaxOrphans = 1

    Readers = {r1, r2, r3}
    r1 = r1
    r2 = r2
    r3 = r3
    Hashes = {"0xab", "QmAb", "QmCd"}
    ipfsHash <- IpfsHash
    Complete = {"QmAb"}

    RewardTokens = {usdc, gold}
    Rewards = {1, 2, 3}
    rewardToken <- RewardToken
    NoDecimals = {gold}
    MaxReplacements = 1

    Estimates = {1, 131, 132, 143, 144, 145, 161, 162, 175, 176, 177, 178, 191, 192, 300}
    Recommendations <- gasLimitRecommendations
    Surpluses = {20}
INVARIANTS
    ReadsTypeOK
    
    EstimateMatchesPayout
    EstimateFollowsEmission
    UnclaimedKept
    RewardsPriced
    
PROPERTIES
    TokensAsPromised
    ProposalsAsPromised
\* transactions and time may be used up, and clients be done
CHECK_DEADLOCK FALSE
