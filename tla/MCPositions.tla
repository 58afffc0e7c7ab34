----------------------------- MODULE MCPositions -----------------------------
(* Instances of Positions for TLC *)
EXTENDS Positions, TLC

CONSTANTS steady, volatile, isolated

Zeros == [n \in Numbers |-> 0]

\* steady has an efficiency mode and a cap, volatile has neither, isolated has a
\* debt ceiling and earns nothing.
SmallConfig ==
    steady :> [Zeros EXCEPT !.liquidityRate = 4000, !.variableBorrowRate = 8000,
                 !.stableBorrowRate = 6000, !.baseLTVasCollateral = 6,
                 !.reserveLiquidationThreshold = 7, !.eModeCategoryId = 1,
                 !.eModeLtv = 8, !.eModeLiquidationThreshold = 9,
                 !.borrowCap = 190, !.liquidity = 90]
    @@ volatile :> [Zeros EXCEPT !.liquidityRate = 2000, !.variableBorrowRate = 4000,
                 !.stableBorrowRate = 6000, !.baseLTVasCollateral = 5,
                 !.reserveLiquidationThreshold = 6, !.liquidity = 200]
    @@ isolated :> [Zeros EXCEPT !.baseLTVasCollateral = 4,
                 !.reserveLiquidationThreshold = 5, !.debtCeiling = 50, !.liquidity = 200]

Has(scaled, variable, principal, collateral) ==
    [scaledLBTokenBalance |-> scaled, scaledVariableDebt |-> variable,
     principalStableDebt |-> principal, usageAsCollateralEnabledOnUser |-> collateral]

Others == steady :> 60 @@ volatile :> 0 @@ isolated :> 0

Even == [m \in Markets |-> 1]

Dear == [Even EXCEPT ![isolated] = 2]

\* Two collaterals of other loan to values; a leveraged one, in efficiency mode
\* or not, with both kinds of debt; one that is isolated.
SmallPortfolios ==
    {[user |-> steady :> Has(100, 0, 0, TRUE) @@ volatile :> Has(99, 0, 0, TRUE)
               @@ isolated :> Has(0, 0, 0, FALSE),
      mode |-> 0, others |-> Others, price |-> Even],
     [user |-> steady :> Has(200, 40, 0, TRUE) @@ volatile :> Has(0, 0, 31, FALSE)
               @@ isolated :> Has(7, 0, 0, FALSE),
      mode |-> 1, others |-> Others, price |-> Even],
     [user |-> steady :> Has(0, 0, 0, FALSE) @@ volatile :> Has(30, 20, 0, FALSE)
               @@ isolated :> Has(190, 0, 0, TRUE),
      mode |-> 0, others |-> Others, price |-> Dear]}

ASSUME ClocksAgree /\ ModestDebts(25)
=============================================================================
