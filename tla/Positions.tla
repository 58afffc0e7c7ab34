------------------------------ MODULE Positions ------------------------------
(***************************************************************************)
(* What a client shows of a user's position: it reads the reserves, then   *)
(* the user's balances and efficiency mode (the sample of                  *)
(* README.md:191-213), and from then on formatReserves and                 *)
(* formatUserSummary carry what it read forward to its own clock: supplies *)
(* and debts with interest, what can still be borrowed, and of what.       *)
(*                                                                         *)
(* Meanwhile the pool lends to others, prices move, and the user borrows,  *)
(* supplies or changes mode elsewhere.  The pool is external: it rounds in *)
(* other places, averages the loan to value to whole percents (of Percent) *)
(* and applies caps and ceilings itself.  Amounts are in the smallest unit *)
(* of a token and prices of that unit, so decimals are left out; interest  *)
(* rates stay what they are.                                               *)
(***************************************************************************)
EXTENDS RayMath, FiniteSets, FiniteSetsExt

CONSTANTS Markets,
          Config,      \* of each market: rates, loan to values, caps
          Portfolios,  \* what the user and the others may start with
          Prices,
          Amounts,     \* that are borrowed or supplied
          Percent,     \* the whole of a loan to value: 10^LTV_PRECISION
          MaxMoves,    \* bounds of the number of transactions
          MaxTime      \* and of the time

Numbers == {"liquidityRate", "variableBorrowRate", "stableBorrowRate",
            "baseLTVasCollateral", "reserveLiquidationThreshold",
            "eModeCategoryId", "eModeLtv", "eModeLiquidationThreshold",
            "borrowCap", "debtCeiling", "liquidity"}

ASSUME ConfigAssumption ==
    /\ IsFiniteSet(Markets) /\ Percent \in Nat \ {0}
    /\ Config \in [Markets -> [Numbers -> Nat]]
    /\ \A m \in Markets :
        /\ Config[m].baseLTVasCollateral <= Config[m].reserveLiquidationThreshold
        /\ Config[m].eModeLtv <= Config[m].eModeLiquidationThreshold
        /\ Config[m].reserveLiquidationThreshold <= Percent
        /\ Config[m].eModeLiquidationThreshold <= Percent
    /\ Prices \subseteq Nat \ {0} /\ Amounts \subseteq Nat \ {0}
    /\ MaxMoves \in Nat /\ MaxTime \in Nat

\* The sum of f over the markets of S.
Sum(f, S) == SumFunctionOnSet(f, S)

VARIABLES
    now,     \* the time of the chain
    market,  \* the state of each reserve
    user,    \* what the user has in it
    mode,    \* the user's efficiency mode, 0 for none
    moves,   \* number of transactions
    seen,    \* what the client has read
    step     \* which of the two views it reads next

chain == <<market, user, mode, moves>>
vars == <<now, chain, seen, step>>

Reserve == [availableLiquidity : Nat, totalScaledVariableDebt : Nat,
            totalPrincipalStableDebt : Nat, liquidityIndex : Nat,
            variableBorrowIndex : Nat, lastUpdateTimestamp : 0..MaxTime,
            price : Nat, isolationModeTotalDebt : Nat]

UserReserve == [scaledLBTokenBalance : Nat, scaledVariableDebt : Nat,
                principalStableDebt : Nat, usageAsCollateralEnabledOnUser : BOOLEAN]

Modes == {0} \cup {Config[m].eModeCategoryId : m \in Markets}

TypeOK ==
    /\ now \in 0..MaxTime
    /\ market \in [Markets -> Reserve]
    /\ user \in [Markets -> UserReserve]
    /\ mode \in Modes
    /\ moves \in 0..MaxMoves
    /\ seen \in [market : [Markets -> Reserve], user : [Markets -> UserReserve], mode : Modes]
    /\ step \in {"reserves", "userReserves", "done"}

NoReserve == [availableLiquidity |-> 0, totalScaledVariableDebt |-> 0,
              totalPrincipalStableDebt |-> 0, liquidityIndex |-> Ray,
              variableBorrowIndex |-> Ray, lastUpdateTimestamp |-> 0,
              price |-> 0, isolationModeTotalDebt |-> 0]

NoUserReserve == [scaledLBTokenBalance |-> 0, scaledVariableDebt |-> 0,
                  principalStableDebt |-> 0, usageAsCollateralEnabledOnUser |-> FALSE]

ASSUME PortfoliosAssumption ==
    Portfolios \subseteq [user : [Markets -> UserReserve], mode : Modes,
                          others : [Markets -> Nat], price : [Markets -> Nat \ {0}]]

\* The stable debt is the user's alone, and taken at time 0.
Init ==
    \E p \in Portfolios :
        /\ now = 0 /\ moves = 0
        /\ user = p.user /\ mode = p.mode
        /\ market = [m \in Markets |->
             [NoReserve EXCEPT !.availableLiquidity = Config[m].liquidity,
                !.totalScaledVariableDebt = p.others[m] + p.user[m].scaledVariableDebt,
                !.totalPrincipalStableDebt = p.user[m].principalStableDebt,
                !.price = p.price[m]]]
        /\ seen = [market |-> [m \in Markets |-> NoReserve],
                   user |-> [m \in Markets |-> NoUserReserve], mode |-> 0]
        /\ step = "reserves"

-----------------------------------------------------------------------------
\* What pool and client agree on.
InMode(category, m) == category # 0 /\ category = Config[m].eModeCategoryId

Ltv(category, m) ==
    IF InMode(category, m) THEN Config[m].eModeLtv ELSE Config[m].baseLTVasCollateral

Threshold(category, m) ==
    IF InMode(category, m) THEN Config[m].eModeLiquidationThreshold
    ELSE Config[m].reserveLiquidationThreshold

Collaterals(of) ==
    {m \in Markets : /\ Config[m].reserveLiquidationThreshold # 0
                     /\ of[m].usageAsCollateralEnabledOnUser}

Isolating(of) == {m \in Collaterals(of) : Config[m].debtCeiling # 0}

-----------------------------------------------------------------------------
\* The pool.  Indexes and debts of now.
IncomeNow(m) == NormalizedIncome(market[m].liquidityIndex, Config[m].liquidityRate,
                                 now - market[m].lastUpdateTimestamp)

DebtIndexNow(m) == RayMul(CompoundedInterest(Config[m].variableBorrowRate,
                                             now - market[m].lastUpdateTimestamp),
                          market[m].variableBorrowIndex)

StableNow(m, principal) == RayMul(principal, CompoundedInterest(Config[m].stableBorrowRate, now))

Supplied(m) == RayMul(user[m].scaledLBTokenBalance, IncomeNow(m))

Owed(m) == RayMul(user[m].scaledVariableDebt, DebtIndexNow(m))
           + StableNow(m, user[m].principalStableDebt)

TotalDebt(m) == RayMul(market[m].totalScaledVariableDebt, DebtIndexNow(m))
                + StableNow(m, market[m].totalPrincipalStableDebt)

SuppliedValue(m) == market[m].price * Supplied(m)

DebtValue == Sum([m \in Markets |-> market[m].price * Owed(m)], Markets)

CollateralValue == Sum([m \in Markets |-> SuppliedValue(m)], Collaterals(user))

\* The collateral, each market's share weighted.
Weighted(category) ==
    Sum([m \in Markets |-> SuppliedValue(m) * Ltv(category, m)], Collaterals(user))

AverageLtv ==
    IF CollateralValue = 0 THEN 0
    ELSE Weighted(mode) \div CollateralValue

\* What the user can still borrow: the average is a whole number of percents.
BorrowingPower ==
    Max({0, (CollateralValue * AverageLtv) \div Percent - DebtValue})

\* The cap is exclusive.
WithinCap(m, amount) ==
    Config[m].borrowCap # 0 => TotalDebt(m) + amount < Config[m].borrowCap

\* The debt of an isolated collateral counts in the reference currency.
WithinCeiling(m, value) ==
    market[m].isolationModeTotalDebt + value <= Config[m].debtCeiling

Accrued(m) == [market[m] EXCEPT !.liquidityIndex = IncomeNow(m),
                                !.variableBorrowIndex = DebtIndexNow(m),
                                !.lastUpdateTimestamp = now]

Lent(m, amount, isolating) ==
    [i \in Markets |->
       LET r == IF i = m THEN [Accrued(m) EXCEPT
                                 !.availableLiquidity = @ - amount,
                                 !.totalScaledVariableDebt = @ + RayDiv(amount, DebtIndexNow(m))]
                ELSE market[i]
       IN  IF i \in isolating
           THEN [r EXCEPT !.isolationModeTotalDebt = @ + amount * market[m].price] ELSE r]

Move == moves < MaxMoves /\ moves' = moves + 1

UserBorrows(m, amount) ==
    /\ Move
    /\ amount <= market[m].availableLiquidity
    /\ WithinCap(m, amount)
    /\ amount * market[m].price <= BorrowingPower
    /\ \A i \in Isolating(user) : WithinCeiling(i, amount * market[m].price)
    /\ market' = Lent(m, amount, Isolating(user))
    /\ user' = [user EXCEPT ![m].scaledVariableDebt = @ + RayDiv(amount, DebtIndexNow(m))]
    /\ UNCHANGED <<now, mode, seen, step>>

UserSupplies(m, amount) ==
    /\ Move
    /\ market' = [market EXCEPT ![m] = [Accrued(m) EXCEPT !.availableLiquidity = @ + amount]]
    /\ user' = [user EXCEPT ![m].scaledLBTokenBalance = @ + RayDiv(amount, IncomeNow(m))]
    /\ UNCHANGED <<now, mode, seen, step>>

\* The mode is changed only if the debts stay covered in the new one.
UserSwitchesMode(category) ==
    /\ Move /\ category # mode
    /\ mode' = category
    /\ Sum([m \in Markets |-> SuppliedValue(m) * Threshold(category, m)], Collaterals(user))
         >= Percent * DebtValue
    /\ UNCHANGED <<now, market, user, seen, step>>

\* With any collateral, of which one may be isolated.
OthersBorrow(m, amount, isolating) ==
    /\ Move
    /\ amount <= market[m].availableLiquidity
    /\ WithinCap(m, amount)
    /\ \A i \in isolating : WithinCeiling(i, amount * market[m].price)
    /\ market' = Lent(m, amount, isolating)
    /\ UNCHANGED <<now, user, mode, seen, step>>

PriceMoves(m, price) ==
    /\ Move /\ price # market[m].price
    /\ market' = [market EXCEPT ![m].price = price]
    /\ UNCHANGED <<now, user, mode, seen, step>>

Tick ==
    /\ now < MaxTime
    /\ now' = now + 1
    /\ UNCHANGED <<chain, seen, step>>

-----------------------------------------------------------------------------
\* ReadReserves, mutated: debts are taken off the liquidity once more.
Bug_ReadReservesNet ==
    /\ step = "reserves"
    /\ seen' = [seen EXCEPT !.market = [m \in Markets |->
                  [market[m] EXCEPT !.availableLiquidity = @ - market[m].totalScaledVariableDebt]]]
    /\ step' = "userReserves"
    /\ UNCHANGED <<now, chain>>

\* getReservesHumanized.
ReadReserves ==
    /\ step = "reserves"
    /\ seen' = [seen EXCEPT !.market = market]
    /\ step' = "userReserves"
    /\ UNCHANGED <<now, chain>>

\* getUserReservesHumanized: the mode comes with the balances.
ReadUserReserves ==
    /\ step = "userReserves"
    /\ seen' = [seen EXCEPT !.user = user, !.mode = mode]
    /\ step' = "done"
    /\ UNCHANGED <<now, chain>>

Isolated == {m \in Markets : Config[m].debtCeiling # 0}

Next ==
    \/ \E m \in Markets :
        \/ \E amount \in Amounts :
            \/ UserBorrows(m, amount)
            \/ UserSupplies(m, amount)
            \/ \E isolating \in {{}} \cup {{i} : i \in Isolated} :
                 OthersBorrow(m, amount, isolating)
        \/ \E price \in Prices : PriceMoves(m, price)
    \/ \E category \in Modes : UserSwitchesMode(category)
    \/ Tick
    \/ ReadReserves \/ ReadUserReserves

Spec == Init /\ [][Next]_vars
-----------------------------------------------------------------------------
\* What the client shows at its time t, of what it has read.
Elapsed(m, t) == t - seen.market[m].lastUpdateTimestamp

\* ShownSupply, mutated: supplies earn compounded interest.
Bug_ShownSupplyCompounded(m, t) ==
    CompoundedBalance(seen.user[m].scaledLBTokenBalance, seen.market[m].liquidityIndex,
                      Config[m].liquidityRate, Elapsed(m, t))

ShownSupply(m, t) ==
    LinearBalance(seen.user[m].scaledLBTokenBalance, seen.market[m].liquidityIndex,
                  Config[m].liquidityRate, Elapsed(m, t))

\* Variable and stable borrows; the latter have an update time of their own.
ShownDebt(m, t) ==
    CompoundedBalance(seen.user[m].scaledVariableDebt, seen.market[m].variableBorrowIndex,
                      Config[m].variableBorrowRate, Elapsed(m, t))
    + CompoundedStableBalance(seen.user[m].principalStableDebt, Config[m].stableBorrowRate, t)

ShownValue(m, t) == seen.market[m].price * ShownSupply(m, t)

ShownBorrows(t) == Sum([m \in Markets |-> seen.market[m].price * ShownDebt(m, t)], Markets)

\* currentLtv and currentLiquidationThreshold of calculateUserReserveTotals,
\* times the total collateral: dividing by it and multiplying again, the client
\* keeps the fractions of a percent.
ShownLimit(t) ==
    Sum([m \in Markets |-> ShownValue(m, t) * Ltv(seen.mode, m)], Collaterals(seen.user))

\* ShownThreshold, mutated: the efficiency mode is applied to the limit only.
Bug_ShownThresholdBase(t) ==
    Sum([m \in Markets |-> ShownValue(m, t) * Config[m].reserveLiquidationThreshold],
        Collaterals(seen.user))

ShownThreshold(t) ==
    Sum([m \in Markets |-> ShownValue(m, t) * Threshold(seen.mode, m)], Collaterals(seen.user))

\* What is left of the ceiling of the isolated collateral.
Headroom(m) == Max({0, Config[m].debtCeiling - seen.market[m].isolationModeTotalDebt})

\* AvailableBorrows, mutated: the ceiling is forgotten.
Bug_AvailableBorrowsUnisolated(t) == Max({0, ShownLimit(t) - Percent * ShownBorrows(t)})

\* availableBorrowsMarketReferenceCurrency, in 1/Percent.
AvailableBorrows(t) ==
    Min({Max({0, ShownLimit(t) - Percent * ShownBorrows(t)})}
        \cup {Percent * Headroom(m) : m \in Isolating(seen.user)})

\* healthFactor, compared with one, if so much more is borrowed (in 1/Percent).
\* Without debt it is -1, which stands for none.
HealthyWith(t, more) ==
    LET borrows == Percent * ShownBorrows(t) + more
    IN  borrows = 0 \/ ShownThreshold(t) >= borrows

\* totalDebt of calculateReserveDebt.
ReserveDebt(m, t) ==
    LET r == seen.market[m]
    IN  RayMul(RayMul(r.totalScaledVariableDebt, r.variableBorrowIndex),
               CompoundedInterest(Config[m].variableBorrowRate, Elapsed(m, t)))
        + RayMul(r.totalPrincipalStableDebt, CompoundedInterest(Config[m].stableBorrowRate, t))

\* AvailableLiquidity, mutated: the cap is not compared with the debt.
Bug_AvailableLiquidityOfCap(m, t) ==
    IF Config[m].borrowCap = 0 THEN seen.market[m].availableLiquidity
    ELSE Min({seen.market[m].availableLiquidity, Config[m].borrowCap - 1})

\* availableLiquidity of getComputedReserveFields, shown as
\* availableLiquidityUSD; negative when the debt has grown beyond the cap.
AvailableLiquidity(m, t) ==
    IF Config[m].borrowCap = 0 THEN seen.market[m].availableLiquidity
    ELSE Min({seen.market[m].availableLiquidity,
              Config[m].borrowCap - (ReserveDebt(m, t) + 1)})

\* formattedAvailableLiquidity, as formatEnhancedReserve returns it.
FormattedAvailableLiquidity(m) == seen.market[m].availableLiquidity

-----------------------------------------------------------------------------
\* All was read at one state of the chain, which is the present one.
OneSnapshot ==
    step = "done" /\ seen = [market |-> market, user |-> user, mode |-> mode]

\* Client and pool round in other places: the supply and the two debts of a
\* market come out one unit apart at most.
Rounding(m) == 3 * market[m].price

\* What is shown as available of one snapshot is what the pool would lend at
\* that moment, and no more than that by a percent of the collateral: the pool
\* rounds the average loan to value down and the client does not.
AvailableMatchesPool ==
    OneSnapshot =>
        LET slack == Sum([m \in Markets |-> Rounding(m)], Markets) + 1
            room == {Max({0, Config[m].debtCeiling - market[m].isolationModeTotalDebt}) :
                       m \in Isolating(user)}
            lends == Min({BorrowingPower} \cup room)
        IN  /\ Percent * lends <= AvailableBorrows(now) + Percent * slack
            /\ AvailableBorrows(now)
                 <= Percent * lends + CollateralValue + Percent * slack

\* Interest only adds: no index is below one, and none was updated in the future.
IndexesAtLeastOne ==
    \A m \in Markets :
        /\ market[m].lastUpdateTimestamp <= now
        /\ \A of \in {market, seen.market} :
             of[m].liquidityIndex >= Ray /\ of[m].variableBorrowIndex >= Ray

\* A client whose clock is behind takes interest off again; what it shows of a
\* supply stays positive if no market pays a whole in the time it may be behind.
ClocksAgree == \A m \in Markets : Config[m].liquidityRate * MaxTime <= Ray * Year

\* Whoever borrows all that is shown as available, keeps a health factor of one
\* by the client's numbers, however torn or old the reads and whatever its clock.
HealthyIfBorrowable ==
    \A t \in 0..MaxTime : AvailableBorrows(t) > 0 => HealthyWith(t, AvailableBorrows(t))

\* What an index may lose to rounding, in units of a ray, when its interest is
\* added in two parts: the linear one, and the compounded one of so many seconds.
LinearDrift(rate) == rate \div Ray + 4

CompoundedDrift(seconds) == (seconds * seconds * seconds) \div 16 + 3

\* As the reads grow old, the balances carried forward stay behind those of the
\* pool, which others make accrue: no supply is overstated and no debt, as long
\* as the user does nothing.  The supply and the two debts may be rounded up by a
\* unit each, and an index drifts with every transaction: with a ray of 10^27 and
\* a hundred transactions in a day by some 10^-12 of the balance.
StaleNeverOverstates ==
    step = "done" =>
        \A m \in Markets : seen.user[m] = user[m] =>
            LET supply == ShownSupply(m, now)
                debt == ShownDebt(m, now)
                lost(drift, balance) == RayMul(moves * drift, balance + 1)
            IN  /\ supply <= Supplied(m) + 1 + lost(LinearDrift(Config[m].liquidityRate), supply)
                /\ debt <= Owed(m) + 2 + lost(CompoundedDrift(now), debt)

\* The client multiplies a debt by index and interest, the pool by their product.
\* The two stay two units apart if no debt can exceed one as a ray and the
\* interest since the last update does not exceed one; no amount exceeds most.
ModestDebts(most) ==
    /\ \A amount \in Amounts : amount <= most
    /\ \A p \in Portfolios, m \in Markets :
         Config[m].liquidity + p.others[m] + p.user[m].scaledVariableDebt + MaxMoves * most <= Ray
    /\ \A m \in Markets, seconds \in 0..MaxTime :
         CompoundedInterest(Config[m].variableBorrowRate, seconds) <= 2 * Ray

\* An amount of liquidity that the pool has, and lends to somebody whose
\* collateral allows it.
Borrowable(m, amount) ==
    amount <= market[m].availableLiquidity /\ WithinCap(m, amount - 2)

\* The liquidity converted to USD is what the pool lends at that moment, and all
\* of it, within the rounding of the debts.
LiquidityMatchesPool ==
    OneSnapshot =>
        \A m \in Markets :
            LET shown == AvailableLiquidity(m, now)
            IN  /\ Borrowable(m, shown)
                /\ shown = market[m].availableLiquidity \/ ~WithinCap(m, shown + 3)

\* The formatted liquidity is what the pool lends: "the actual
\* availableLiquidity might be lower due to borrowCap"
\* (formatters/reserve/index.ts:136).
FormattedLiquidityBorrowable ==
    OneSnapshot => \A m \in Markets : Borrowable(m, FormattedAvailableLiquidity(m))
=============================================================================
