-------------------------------- MODULE Abi --------------------------------
(***************************************************************************)
(* The contract functions that the services call, as the bindings under    *)
(* the typechain directories describe them: the name, the names of the     *)
(* parameters in order, and whether a call pays, changes state or only     *)
(* reads.  Arguments are encoded by position, so the names say what the    *)
(* contract takes each of them for.                                        *)
(***************************************************************************)

Function(name, takes) == [name |-> name, takes |-> takes, kind |-> "function"]
Payable(name, takes) == [name |-> name, takes |-> takes, kind |-> "payable"]
View(name, takes) == [name |-> name, takes |-> takes, kind |-> "view"]

\* The pool (v3).
IPool_deposit ==
    Function("deposit", <<"asset", "amount", "onBehalfOf", "referralCode">>)
IPool_supply == Function("supply", <<"asset", "amount", "onBehalfOf", "referralCode">>)
IPool_supplyWithPermit ==
    Function("supplyWithPermit", <<"asset", "amount", "onBehalfOf",
                                   "referralCode", "deadline", "permitV",
                                   "permitR", "permitS">>)
IPool_withdraw == Function("withdraw", <<"asset", "amount", "to">>)
IPool_borrow ==
    Function("borrow", <<"asset", "amount", "interestRateMode",
                         "referralCode", "onBehalfOf">>)
IPool_repay ==
    Function("repay", <<"asset", "amount", "interestRateMode", "onBehalfOf">>)
IPool_repayWithPermit ==
    Function("repayWithPermit", <<"asset", "amount", "interestRateMode",
                                  "onBehalfOf", "deadline", "permitV",
                                  "permitR", "permitS">>)
IPool_repayWithLBTokens ==
    Function("repayWithLBTokens", <<"asset", "amount", "interestRateMode">>)
IPool_swapBorrowRateMode ==
    Function("swapBorrowRateMode", <<"asset", "interestRateMode">>)
IPool_setUserUseReserveAsCollateral ==
    Function("setUserUseReserveAsCollateral", <<"asset", "useAsCollateral">>)
IPool_setUserEMode == Function("setUserEMode", <<"categoryId">>)
IPool_liquidationCall ==
    Function("liquidationCall", <<"collateralAsset", "debtAsset", "user",
                                  "debtToCover", "receiveLBToken">>)
IPool_flashLoanSimple ==
    Function("flashLoanSimple", <<"receiverAddress", "asset", "amount",
                                  "params", "referralCode">>)
IPool_flashLoan ==
    Function("flashLoan", <<"receiverAddress", "assets", "amounts",
                            "interestRateModes", "onBehalfOf", "params",
                            "referralCode">>)

\* The encoder of the optimized path.
L2Encoder_encodeSupplyParams ==
    View("encodeSupplyParams", <<"asset", "amount", "referralCode">>)
L2Encoder_encodeSupplyWithPermitParams ==
    View("encodeSupplyWithPermitParams", <<"asset", "amount", "referralCode",
                                           "deadline", "permitV", "permitR",
                                           "permitS">>)
L2Encoder_encodeWithdrawParams == View("encodeWithdrawParams", <<"asset", "amount">>)
L2Encoder_encodeBorrowParams ==
    View("encodeBorrowParams", <<"asset", "amount", "interestRateMode",
                                 "referralCode">>)
L2Encoder_encodeRepayParams ==
    View("encodeRepayParams", <<"asset", "amount", "interestRateMode">>)
L2Encoder_encodeRepayWithPermitParams ==
    View("encodeRepayWithPermitParams", <<"asset", "amount",
                                          "interestRateMode", "deadline",
                                          "permitV", "permitR", "permitS">>)
L2Encoder_encodeRepayWithLBTokensParams ==
    View("encodeRepayWithLBTokensParams", <<"asset", "amount",
                                            "interestRateMode">>)
L2Encoder_encodeSwapBorrowRateMode ==
    View("encodeSwapBorrowRateMode", <<"asset", "interestRateMode">>)
L2Encoder_encodeSetUserUseReserveAsCollateral ==
    View("encodeSetUserUseReserveAsCollateral", <<"asset", "useAsCollateral">>)
L2Encoder_encodeLiquidationCall ==
    View("encodeLiquidationCall", <<"collateralAsset", "debtAsset", "user",
                                    "debtToCover", "receiveLBToken">>)

\* The pool on a rollup.
IL2Pool_supply == Function("supply", <<"args">>)
IL2Pool_supplyWithPermit == Function("supplyWithPermit", <<"args", "r", "s">>)
IL2Pool_withdraw == Function("withdraw", <<"args">>)
IL2Pool_borrow == Function("borrow", <<"args">>)
IL2Pool_repay == Function("repay", <<"args">>)
IL2Pool_repayWithPermit == Function("repayWithPermit", <<"args", "r", "s">>)
IL2Pool_repayWithLBTokens == Function("repayWithLBTokens", <<"args">>)
IL2Pool_swapBorrowRateMode == Function("swapBorrowRateMode", <<"args">>)
IL2Pool_setUserUseReserveAsCollateral ==
    Function("setUserUseReserveAsCollateral", <<"args">>)
IL2Pool_liquidationCall == Function("liquidationCall", <<"args1", "args2">>)

\* The pool (v2).
ILendingPool_deposit ==
    Function("deposit", <<"reserve", "amount", "onBehalfOf", "referralCode">>)
ILendingPool_withdraw == Function("withdraw", <<"reserve", "amount", "to">>)
ILendingPool_borrow ==
    Function("borrow", <<"reserve", "amount", "interestRateMode",
                         "referralCode", "onBehalfOf">>)
ILendingPool_repay ==
    Function("repay", <<"reserve", "amount", "rateMode", "onBehalfOf">>)
ILendingPool_swapBorrowRateMode ==
    Function("swapBorrowRateMode", <<"reserve", "rateMode">>)
ILendingPool_setUserUseReserveAsCollateral ==
    Function("setUserUseReserveAsCollateral", <<"reserve", "useAsCollateral">>)
ILendingPool_liquidationCall ==
    Function("liquidationCall", <<"collateral", "reserve", "user",
                                  "purchaseAmount", "receiveLBToken">>)
ILendingPool_flashLoan ==
    Function("flashLoan", <<"receiver", "assets", "amounts", "modes",
                            "onBehalfOf", "params", "referralCode">>)

\* The gateway of the native asset.
IWBNBGateway_depositBNB ==
    Payable("depositBNB", <<"lendingPool", "onBehalfOf", "referralCode">>)
IWBNBGateway_withdrawBNB ==
    Function("withdrawBNB", <<"lendingPool", "amount", "onBehalfOf">>)
IWBNBGateway_borrowBNB ==
    Function("borrowBNB", <<"lendingPool", "amount", "interesRateMode",
                            "referralCode">>)
IWBNBGateway_repayBNB ==
    Payable("repayBNB", <<"lendingPool", "amount", "rateMode", "onBehalfOf">>)

\* The adapters.
LiquiditySwap_swapAndDeposit ==
    Function("swapAndDeposit", <<"assetToSwapFrom", "assetToSwapTo",
                                 "amountToSwap", "minAmountToReceive",
                                 "swapAllBalanceOffset", "swapCalldata",
                                 "augustus", "permitParams">>)
ParaSwapRepay_swapAndRepay ==
    Function("swapAndRepay", <<"collateralAsset", "debtAsset",
                               "collateralAmount", "debtRepayAmount",
                               "debtRateMode", "buyAllBalanceOffset",
                               "paraswapData", "permitSignature">>)
RepayWithCollateral_swapAndRepay ==
    Function("swapAndRepay", <<"collateralAsset", "debtAsset",
                               "collateralAmount", "debtRepayAmount",
                               "debtRateMode", "permitSignature",
                               "useEthPath">>)

\* Tokens.
IERC20_approve == Function("approve", <<"spender", "amount">>)
IERC20_allowance == View("allowance", <<"owner", "spender">>)
IERC202612_nonces == View("nonces", <<"owner">>)
IDebtTokenBase_approveDelegation ==
    Function("approveDelegation", <<"delegatee", "amount">>)
IDebtTokenBase_borrowAllowance == View("borrowAllowance", <<"fromUser", "toUser">>)

\* Staking.
IStakedToken_stake == Function("stake", <<"onBehalfOf", "amount">>)
IStakedToken_redeem == Function("redeem", <<"to", "amount">>)
IStakedToken_cooldown == Function("cooldown", <<>>)
IStakedToken_claimRewards == Function("claimRewards", <<"to", "amount">>)
IStakingHelper_stake == Function("stake", <<"user", "amount", "v", "r", "s">>)

\* Governance and the delegation of its power.
IGovernance_submitVote == Function("submitVote", <<"proposalId", "support">>)
IGovernance_getVoteOnProposal == View("getVoteOnProposal", <<"proposalId", "voter">>)
IGovernance_getProposalsCount == View("getProposalsCount", <<>>)
IGovernanceStrategy_getVotingPowerAt ==
    View("getVotingPowerAt", <<"user", "blockNumber">>)
IGovernanceHelper_delegateTokensBySig ==
    Function("delegateTokensBySig", <<"tokens", "data">>)
IGovernanceHelper_delegateTokensByTypeBySig ==
    Function("delegateTokensByTypeBySig", <<"tokens", "data">>)
IGovernanceHelper_getProposal == View("getProposal", <<"id", "governance">>)
IGovernanceHelper_getProposals ==
    View("getProposals", <<"skip", "limit", "governance">>)
IGovernanceHelper_getTokensPower == View("getTokensPower", <<"user", "tokens">>)
IDelegation_delegate == Function("delegate", <<"delegatee">>)
IDelegation_delegateByType ==
    Function("delegateByType", <<"delegatee", "delegationType">>)
IDelegation_delegateBySig ==
    Function("delegateBySig", <<"delegatee", "nonce", "expiry", "v", "r",
                                "s">>)
IDelegation_delegateByTypeBySig ==
    Function("delegateByTypeBySig", <<"delegatee", "delegationType", "nonce",
                                      "expiry", "v", "r", "s">>)
IDelegation_getDelegateeByType ==
    View("getDelegateeByType", <<"delegator", "delegationType">>)
IDelegation_getPowerCurrent == View("getPowerCurrent", <<"user", "delegationType">>)
IDelegation_getPowerAtBlock ==
    View("getPowerAtBlock", <<"user", "blockNumber", "delegationType">>)
IDelegation_nonces == View("_nonces", <<"">>)

\* Rewards and faucets.
IIncentives_claimRewards == Function("claimRewards", <<"assets", "amount", "to">>)
IIncentivesV2_claimRewards ==
    Function("claimRewards", <<"assets", "amount", "to", "reward">>)
IIncentivesV2_claimAllRewards == Function("claimAllRewards", <<"assets", "to">>)
IFaucet_mint == Payable("mint", <<"_token", "_amount">>)
IFaucetOwnable_mint == Function("mint", <<"token", "to", "amount">>)
IFaucetOwnable_isPermissioned == View("isPermissioned", <<>>)

\* Balances, permissions, prices and the migration helper.
WalletBalance_balanceOf == View("balanceOf", <<"user", "token">>)
WalletBalance_batchBalanceOf == View("batchBalanceOf", <<"users", "tokens">>)
WalletBalance_getUserWalletBalances ==
    View("getUserWalletBalances", <<"provider", "user">>)
PermissionManager_getUserPermissions == View("getUserPermissions", <<"user">>)
FeedRegistry_latestRoundData == View("latestRoundData", <<"base", "quote">>)
FeedRegistry_decimals == View("decimals", <<"base", "quote">>)
IMigrationHelper_migrate ==
    Function("migrate", <<"assetsToMigrate", "positionsToRepay", "permits",
                          "creditDelegationPermits">>)
IMigrationHelper_getMigrationSupply == View("getMigrationSupply", <<"asset", "amount">>)

\* The providers of what clients display.
UiPool_getReservesList == View("getReservesList", <<"provider">>)
UiPool_getReservesData == View("getReservesData", <<"provider">>)
UiPool_getUserReservesData == View("getUserReservesData", <<"provider", "user">>)
UiPoolV3_getReservesList == View("getReservesList", <<"provider">>)
UiPoolV3_getReservesData == View("getReservesData", <<"provider">>)
UiPoolV3_getUserReservesData == View("getUserReservesData", <<"provider", "user">>)
UiIncentive_getFullReservesIncentiveData ==
    View("getFullReservesIncentiveData", <<"provider", "user">>)
UiIncentive_getReservesIncentivesData ==
    View("getReservesIncentivesData", <<"provider">>)
UiIncentive_getUserReservesIncentivesData ==
    View("getUserReservesIncentivesData", <<"provider", "user">>)
UiIncentiveV3_getFullReservesIncentiveData ==
    View("getFullReservesIncentiveData", <<"provider", "user">>)
UiIncentiveV3_getReservesIncentivesData ==
    View("getReservesIncentivesData", <<"provider">>)
UiIncentiveV3_getUserReservesIncentivesData ==
    View("getUserReservesIncentivesData", <<"provider", "user">>)
StakedTokenData_getAllStakedTokenData == View("getAllStakedTokenData", <<>>)
StakedTokenData_getAllStakedTokenUserData ==
    View("getAllStakedTokenUserData", <<"user">>)
=============================================================================
