----------------------------- MODULE Validation -----------------------------
(***************************************************************************)
(* The decorators.  A parameter decorator only records that a parameter is *)
(* to be checked; it is the decorator of the method that runs checks, each *)
(* kind over the parameters recorded for it, after it has seen that the    *)
(* addresses the service was made with are there.  A check that no method  *)
(* decorator runs is never made.  Parameters that are absent pass.         *)
(***************************************************************************)
EXTENDS Arguments

\* What is recorded: pairs of the check and the parameter.
isBnbAddress(ps) == {"isBnbAddress"} \X ps
isBnbAddressArray(ps) == {"isBnbAddressArray"} \X ps
isBnbAddressOrENS(ps) == {"isBnbAddressOrENS"} \X ps
isPositiveAmount(ps) == {"isPositiveAmount"} \X ps
is0OrPositiveAmount(ps) == {"is0OrPositiveAmount"} \X ps
isPositiveOrMinusOneAmount(ps) == {"isPositiveOrMinusOneAmount"} \X ps
isDeadline32Bytes(ps) == {"isDeadline32Bytes"} \X ps

\* The forms of a value on which each check throws.
isBnbAddressValidator == {"malformed", "name"}
isBnbAddressArrayValidator == {"malformed"}
isBnbAddressOrEnsValidator == {"malformed"}
amountGtThan0Validator == {"malformed", "0", "-1"}
amount0OrPositiveValidator == {"malformed", "-1"}
\* amountGtThan0OrMinus1, mutated: -1 is refused like any negative amount.
Bug_amountGtThan0OrMinus1 == {"malformed", "0", "-1"}
amountGtThan0OrMinus1 == {"malformed", "0"}
isDeadline32BytesValidator == {"too long"}

Throws(check, v) ==
    FormOf(v) \in CASE check = "isBnbAddress" -> isBnbAddressValidator
                    [] check = "isBnbAddressArray" -> isBnbAddressArrayValidator
                    [] check = "isBnbAddressOrENS" -> isBnbAddressOrEnsValidator
                    [] check = "isPositiveAmount" -> amountGtThan0Validator
                    [] check = "is0OrPositiveAmount" -> amount0OrPositiveValidator
                    [] check = "isPositiveOrMinusOneAmount" -> amountGtThan0OrMinus1
                    [] check = "isDeadline32Bytes" -> isDeadline32BytesValidator

Amounts == {"isPositiveAmount", "is0OrPositiveAmount", "isPositiveOrMinusOneAmount"}

\* The method decorators: the addresses they want, the checks they run and what
\* becomes of a call when an address is missing.
Runs(needs, checks) == [needs |-> needs, runs |-> checks, missing |-> "empty"]

LPFlashLiquidationValidator ==
    Runs({"LENDING_POOL", "FLASH_LIQUIDATION_ADAPTER"},
         {"isBnbAddress", "isPositiveAmount", "isPositiveOrMinusOneAmount"})
LPFlashLiquidationValidatorV3 ==
    Runs({"POOL", "FLASH_LIQUIDATION_ADAPTER"},
         {"isBnbAddress", "isPositiveAmount", "isPositiveOrMinusOneAmount"})
LPRepayWithCollateralValidator ==
    Runs({"LENDING_POOL", "REPAY_WITH_COLLATERAL_ADAPTER"}, {"isBnbAddress", "isPositiveAmount"})
LPSwapCollateralValidator ==
    Runs({"LENDING_POOL", "SWAP_COLLATERAL_ADAPTER"}, {"isBnbAddress", "isPositiveAmount"})
LPRepayWithCollateralValidatorV3 ==
    Runs({"POOL", "REPAY_WITH_COLLATERAL_ADAPTER"}, {"isBnbAddress", "isPositiveAmount"})
LPSwapCollateralValidatorV3 ==
    Runs({"POOL", "SWAP_COLLATERAL_ADAPTER"}, {"isBnbAddress", "isPositiveAmount"})
LPValidator == Runs({"LENDING_POOL"}, {"isBnbAddress"} \cup Amounts)
\* LPValidatorV3, mutated: the amounts that may be everything are not checked.
Bug_LPValidatorV3 == Runs({"POOL"}, {"isBnbAddress", "isPositiveAmount",
                                     "is0OrPositiveAmount", "isBnbAddressArray"})
LPValidatorV3 == Runs({"POOL"}, {"isBnbAddress", "isBnbAddressArray"} \cup Amounts)
L2PValidator == Runs({"POOL", "L2_ENCODER"}, {"isDeadline32Bytes"})
UiIncentiveDataProviderValidator ==
    [needs |-> {"UI_INCENTIVES"}, runs |-> {"isBnbAddress"}, missing |-> "thrown"]
IncentivesValidator == Runs({}, {"isBnbAddress", "isBnbAddressArray"})
DebtTokenValidator == Runs({}, {"isBnbAddress", "isPositiveAmount"})
ERC20Validator == Runs({}, {"isBnbAddress", "isPositiveAmount", "isPositiveOrMinusOneAmount"})
LiquiditySwapValidator ==
    Runs({"SWAP_COLLATERAL_ADAPTER"},
         {"isBnbAddress", "isPositiveAmount", "isPositiveOrMinusOneAmount"})
RepayWithCollateralValidator ==
    Runs({"REPAY_WITH_COLLATERAL_ADAPTER"},
         {"isBnbAddress", "isPositiveAmount", "isPositiveOrMinusOneAmount"})
StakingValidator ==
    Runs({"STAKING"}, {"isBnbAddress", "isPositiveAmount", "isPositiveOrMinusOneAmount"})
SignStakingValidator ==
    Runs({"STAKING", "STAKING_HELPER"}, {"isBnbAddress", "isPositiveAmount", "is0OrPositiveAmount"})
FaucetValidator == Runs({"FAUCET"}, {"isBnbAddress", "isPositiveAmount"})
WBNBValidator == Runs({"WBNB_GATEWAY"}, {"isBnbAddress"} \cup Amounts)
GovHelperValidator ==
    Runs({"GOVERNANCE", "GOVERNANCE_HELPER"},
         {"isBnbAddress", "is0OrPositiveAmount", "isBnbAddressArray"})
GovValidator == Runs({"GOVERNANCE"}, {"isBnbAddress", "is0OrPositiveAmount"})
GovDelegationValidator ==
    Runs({}, {"isBnbAddress", "isBnbAddressOrENS", "isPositiveAmount", "is0OrPositiveAmount"})
StakeUiDataProviderValidator == Runs({}, {"isBnbAddress"})
V3MigratorValidator == Runs({}, {"isBnbAddress", "isBnbAddressArray"})

\* The methods that check their arguments in their body, and the builders of
\* transaction data, which check nothing.
isAddress == Runs({}, {"isBnbAddress", "isBnbAddressArray"})
Unchecked == Runs({}, {})

Accepted(method, given) ==
    \A check \in method.validator.runs, p \in DOMAIN given :
        <<check, p>> \in method.checks => given[p] = Absent \/ ~Throws(check, given[p])
=============================================================================
