--------------------------- MODULE ServiceMethods ---------------------------
(***************************************************************************)
(* The methods of the services beside the pools: tokens and debt tokens,   *)
(* staking, rewards, faucets, governance, the migration helper, and what   *)
(* is only read.                                                           *)
(***************************************************************************)
EXTENDS Methods

\* Tokens.
ERC20_approve ==
    Method(ERC20Validator, {"user", "token", "spender", "amount"}, {},
           isBnbAddress({"user", "token", "spender"}) \cup isPositiveAmount({"amount"}), <<>>,
           Sends(Given("token"), IERC20_approve, <<Given("spender"), Given("amount")>>, User))
ERC20_approveTxData ==
    Method(ERC20Validator, {"user", "token", "spender", "amount"}, {},
           isBnbAddress({"user", "token", "spender"}) \cup isPositiveAmount({"amount"}), <<>>,
           Sends(Given("token"), IERC20_approve, <<Given("spender"), Given("amount")>>, User))
ERC20_isApproved ==
    Method(ERC20Validator, {"user", "token", "spender", "amount"}, {"nativeDecimals"},
           isBnbAddress({"user", "token", "spender"})
               \cup isPositiveOrMinusOneAmount({"amount"}), <<Answers({Native("token")})>>,
           Asks(Given("token"), IERC20_allowance, <<User, Given("spender")>>))
ERC20_approvedAmount ==
    Method(ERC20Validator, {"user", "token", "spender"}, {},
           isBnbAddress({"user", "token", "spender"}), <<Answers({Native("token")})>>,
           Asks(Given("token"), IERC20_allowance, <<User, Given("spender")>>))
ERC20_2612_getNonce ==
    Method(ERC20Validator, {"token", "owner"}, {}, isBnbAddress({"token", "owner"}), <<>>,
           Asks(Given("token"), IERC202612_nonces, <<Given("owner")>>))

DebtTokenChecks == isBnbAddress({"user", "delegatee", "debtTokenAddress"})
DebtToken_approveDelegation ==
    Method(DebtTokenValidator, {"user", "delegatee", "debtTokenAddress", "amount"}, {},
           DebtTokenChecks \cup isPositiveAmount({"amount"}), <<>>,
           Sends(Given("debtTokenAddress"), IDebtTokenBase_approveDelegation,
                 <<Given("delegatee"), Given("amount")>>, User))
DebtToken_generateApproveDelegationTxData ==
    Method(DebtTokenValidator, {"user", "delegatee", "debtTokenAddress", "amount"}, {},
           DebtTokenChecks \cup isPositiveAmount({"amount"}), <<>>,
           Sends(Given("debtTokenAddress"), IDebtTokenBase_approveDelegation,
                 <<Given("delegatee"), Given("amount")>>, User))
DebtToken_approvedDelegationAmount ==
    Method(DebtTokenValidator, {"user", "delegatee", "debtTokenAddress"}, {}, DebtTokenChecks,
           <<>>,
           Asks(Given("debtTokenAddress"), IDebtTokenBase_borrowAllowance,
                <<User, Given("delegatee")>>))
DebtToken_isDelegationApproved ==
    Method(DebtTokenValidator,
           {"debtTokenAddress", "allowanceGiver", "allowanceReceiver", "amount"},
           {"nativeDecimals"},
           isBnbAddress({"debtTokenAddress", "allowanceGiver", "allowanceReceiver"})
               \cup isPositiveAmount({"amount"}), <<>>,
           Asks(Given("debtTokenAddress"), IDebtTokenBase_borrowAllowance,
                <<Given("allowanceGiver"), Given("allowanceReceiver")>>))

-----------------------------------------------------------------------------
\* Staking: the tokens that are staked and paid out are read from the contract.
StakedToken == Fixed("STAKING")
Staking_stakeWithPermit ==
    Method(SignStakingValidator, {"user", "amount", "signature"}, {},
           isBnbAddress({"user"}) \cup isPositiveAmount({"amount"}), <<>>,
           Sends(Fixed("STAKING_HELPER"), IStakingHelper_stake,
                 <<User, Units("amount", "STAKED_TOKEN"), Part("signature", "v"),
                   Part("signature", "r"), Part("signature", "s")>>, User))
Staking_stake ==
    Method(StakingValidator, {"user", "amount"}, {"onBehalfOf"},
           isBnbAddress({"user", "onBehalfOf"}) \cup isPositiveAmount({"amount"}), <<>>,
           Sends(StakedToken, IStakedToken_stake,
                 <<OrElse("onBehalfOf", "user"), Units("amount", "STAKED_TOKEN")>>, User))
Staking_redeem ==
    Method(StakingValidator, {"user", "amount"}, {},
           isBnbAddress({"user"}) \cup isPositiveOrMinusOneAmount({"amount"}), <<>>,
           Sends(StakedToken, IStakedToken_redeem,
                 <<User, UnitsOrAll("amount", "STAKED_TOKEN")>>, User))
Staking_cooldown ==
    Method(StakingValidator, {"user"}, {}, isBnbAddress({"user"}), <<>>,
           Sends(StakedToken, IStakedToken_cooldown, <<>>, User))
Staking_claimRewards ==
    Method(StakingValidator, {"user", "amount"}, {},
           isBnbAddress({"user"}) \cup isPositiveOrMinusOneAmount({"amount"}), <<>>,
           Sends(StakedToken, IStakedToken_claimRewards,
                 <<User, UnitsOrAll("amount", "REWARD_TOKEN")>>, User))

\* Rewards: all of them, to the user if nobody else is named.
Controller == Given("incentivesControllerAddress")
ClaimChecks ==
    isBnbAddress({"user", "incentivesControllerAddress", "to"}) \cup isBnbAddressArray({"assets"})
Incentives_claimRewards ==
    Method(IncentivesValidator, {"user", "assets", "incentivesControllerAddress"}, {"to"},
           ClaimChecks, <<>>,
           Sends(Controller, IIncentives_claimRewards,
                 <<Given("assets"), Fixed("MaxUint256"), OrElse("to", "user")>>, User))
IncentivesV2_claimRewards ==
    Method(IncentivesValidator, {"user", "assets", "incentivesControllerAddress", "reward"},
           {"to"}, ClaimChecks \cup isBnbAddress({"reward"}), <<>>,
           Sends(Controller, IIncentivesV2_claimRewards,
                 <<Given("assets"), Fixed("MaxUint256"), OrElse("to", "user"),
                   Given("reward")>>, User))
IncentivesV2_claimAllRewards ==
    Method(IncentivesValidator, {"user", "assets", "incentivesControllerAddress"}, {"to"},
           ClaimChecks, <<>>,
           Sends(Controller, IIncentivesV2_claimAllRewards,
                 <<Given("assets"), OrElse("to", "user")>>, User))

\* Faucets: the amount is looked up by the symbol of the token.
Faucet_mint ==
    Method(FaucetValidator, {"userAddress", "reserve", "tokenSymbol"}, {},
           isBnbAddress({"userAddress", "reserve"}), <<>>,
           Sends(Fixed("FAUCET"), IFaucet_mint,
                 <<Given("reserve"), Part("tokenSymbol", "mint amount")>>,
                 Given("userAddress")))
V3Faucet_mint ==
    Method(FaucetValidator, {"userAddress", "reserve", "tokenSymbol"}, {"owner"},
           isBnbAddress({"userAddress", "reserve"}), <<>>,
           Sends(Fixed("FAUCET"), IFaucetOwnable_mint,
                 <<Given("reserve"), Given("userAddress"), Part("tokenSymbol", "mint amount")>>,
                 OrElse("owner", "userAddress")))
V3Faucet_isPermissioned ==
    Method(Unchecked, {}, {}, {}, <<>>, Asks(Fixed("FAUCET"), IFaucetOwnable_isPermissioned, <<>>))

-----------------------------------------------------------------------------
\* Governance.
Governance == Fixed("GOVERNANCE")
GovernanceHelper == Fixed("GOVERNANCE_HELPER")
Governance_submitVote ==
    Method(GovValidator, {"user", "proposalId", "support"}, {},
           isBnbAddress({"user"}) \cup is0OrPositiveAmount({"proposalId"}), <<>>,
           Sends(Governance, IGovernance_submitVote,
                 <<Given("proposalId"), Given("support")>>, User))
Governance_getProposals ==
    Method(GovHelperValidator, {"skip", "limit"}, {}, {}, <<>>,
           Asks(GovernanceHelper, IGovernanceHelper_getProposals,
                <<Given("skip"), Given("limit"), Governance>>))
Governance_getProposal ==
    Method(GovHelperValidator, {"proposalId"}, {}, is0OrPositiveAmount({"proposalId"}), <<>>,
           Asks(GovernanceHelper, IGovernanceHelper_getProposal,
                <<Given("proposalId"), Governance>>))
Governance_getVotingPowerAt ==
    Method(GovValidator, {"user", "block", "strategy"}, {}, isBnbAddress({"user"}), <<>>,
           Asks(Given("strategy"), IGovernanceStrategy_getVotingPowerAt, <<User, Given("block")>>))
Governance_getTokensPower ==
    Method(GovHelperValidator, {"user", "tokens"}, {},
           isBnbAddress({"user"}) \cup isBnbAddressArray({"tokens"}), <<>>,
           Asks(GovernanceHelper, IGovernanceHelper_getTokensPower, <<User, Given("tokens")>>))
Governance_getVoteOnProposal ==
    Method(GovValidator, {"user", "proposalId"}, {},
           isBnbAddress({"user"}) \cup is0OrPositiveAmount({"proposalId"}), <<>>,
           Asks(Governance, IGovernance_getVoteOnProposal, <<Given("proposalId"), User>>))
Governance_getProposalsCount ==
    Method(GovValidator, {}, {}, {}, <<>>, Asks(Governance, IGovernance_getProposalsCount, <<>>))
Governance_delegateTokensBySig ==
    Method(GovHelperValidator, {"user", "tokens", "data"}, {},
           isBnbAddress({"user"}) \cup isBnbAddressArray({"tokens"}), <<>>,
           Sends(GovernanceHelper, IGovernanceHelper_delegateTokensBySig,
                 <<Given("tokens"), Given("data")>>, User))
Governance_delegateTokensByTypeBySig ==
    Method(GovHelperValidator, {"user", "tokens", "data"}, {},
           isBnbAddress({"user"}) \cup isBnbAddressArray({"tokens"}), <<>>,
           Sends(GovernanceHelper, IGovernanceHelper_delegateTokensByTypeBySig,
                 <<Given("tokens"), Given("data")>>, User))

\* The delegation of voting power, by the holder or by whoever has a signature;
\* the nonce signed is read again.
InToken(fn, args) == Sends(Given("governanceToken"), fn, args, User)
AsksToken(fn, args) == Asks(Given("governanceToken"), fn, args)
DelegationChecks ==
    isBnbAddress({"user", "governanceToken"}) \cup isBnbAddressOrENS({"delegatee"})
SignedDelegation ==
    <<Part("user", "nonce"), Given("expiry"), Part("signature", "v"), Part("signature", "r"),
      Part("signature", "s")>>
Delegation_delegate ==
    Method(GovDelegationValidator, {"user", "delegatee", "governanceToken"}, {},
           DelegationChecks, <<>>, InToken(IDelegation_delegate, <<Resolved("delegatee")>>))
Delegation_delegateByType ==
    Method(GovDelegationValidator, {"user", "delegatee", "delegationType", "governanceToken"},
           {}, DelegationChecks, <<>>,
           InToken(IDelegation_delegateByType,
                   <<Resolved("delegatee"), Given("delegationType")>>))
Delegation_delegateBySig ==
    Method(GovDelegationValidator,
           {"user", "delegatee", "expiry", "signature", "governanceToken"}, {},
           DelegationChecks, <<>>,
           InToken(IDelegation_delegateBySig, <<Resolved("delegatee")>> \o SignedDelegation))
Delegation_delegateByTypeBySig ==
    Method(GovDelegationValidator, {"user", "delegatee", "delegationType", "expiry",
                                    "signature", "governanceToken"}, {}, DelegationChecks, <<>>,
           InToken(IDelegation_delegateByTypeBySig,
                   <<Resolved("delegatee"), Given("delegationType")>> \o SignedDelegation))
Delegation_getDelegateeByType ==
    Method(GovDelegationValidator, {"delegator", "delegationType", "governanceToken"}, {},
           isBnbAddress({"delegator", "governanceToken"}), <<>>,
           AsksToken(IDelegation_getDelegateeByType,
                     <<Given("delegator"), Given("delegationType")>>))
Delegation_getPowerCurrent ==
    Method(GovDelegationValidator, {"user", "delegationType", "governanceToken"}, {},
           isBnbAddress({"user", "governanceToken"}), <<>>,
           AsksToken(IDelegation_getPowerCurrent, <<User, Given("delegationType")>>))
Delegation_getPowerAtBlock ==
    Method(GovDelegationValidator,
           {"user", "blockNumber", "delegationType", "governanceToken"}, {},
           isBnbAddress({"user", "governanceToken"}) \cup isPositiveAmount({"blockNumber"}), <<>>,
           AsksToken(IDelegation_getPowerAtBlock,
                     <<User, Given("blockNumber"), Given("delegationType")>>))
Delegation_getNonce ==
    Method(GovDelegationValidator, {"user", "governanceToken"}, {},
           isBnbAddress({"user", "governanceToken"}), <<>>, AsksToken(IDelegation_nonces, <<User>>))

-----------------------------------------------------------------------------
\* The migration helper.
Migration_migrate ==
    Method(V3MigratorValidator, {"user", "supplyAssets", "repayAssets"},
           {"signedSupplyPermits", "signedCreditDelegationPermits"}, isBnbAddress({"user"}), <<>>,
           Sends(Fixed("MIGRATOR"), IMigrationHelper_migrate,
                 <<Given("supplyAssets"),
                   Packed(<<Given("repayAssets"), StableMode("repayAssets")>>),
                   OrConstant("signedSupplyPermits", "none"),
                   OrConstant("signedCreditDelegationPermits", "none")>>, User))
Migration_getMigrationSupply ==
    Method(V3MigratorValidator, {"asset", "amount"}, {}, isBnbAddress({"asset"}), <<>>,
           Asks(Fixed("MIGRATOR"), IMigrationHelper_getMigrationSupply,
                <<Given("asset"), Given("amount")>>))

-----------------------------------------------------------------------------
\* What is only read, with the addresses checked in the body or by a decorator.
Reads(validator, params, to, fn, args) ==
    Method(validator, params, {}, isBnbAddress(params), <<>>, Asks(Fixed(to), fn, args))
Provider == Given("lendingPoolAddressProvider")
OfPool == {"lendingPoolAddressProvider"}
OfUser == {"lendingPoolAddressProvider", "user"}

WalletBalance_balanceOf_ ==
    Reads(isAddress, {"user", "token"}, "WALLET_BALANCE", WalletBalance_balanceOf,
          <<User, Given("token")>>)
WalletBalance_batchBalanceOf_ ==
    Method(isAddress, {"users", "tokens"}, {}, isBnbAddressArray({"users", "tokens"}), <<>>,
           Asks(Fixed("WALLET_BALANCE"), WalletBalance_batchBalanceOf,
                <<Given("users"), Given("tokens")>>))
WalletBalance_getUserWalletBalancesForLendingPoolProvider ==
    Reads(isAddress, OfUser, "WALLET_BALANCE", WalletBalance_getUserWalletBalances,
          <<Provider, User>>)
Permissions_getUserPermissions ==
    Reads(isAddress, {"user"}, "PERMISSION_MANAGER", PermissionManager_getUserPermissions,
          <<User>>)
Feeds_latestRoundData ==
    Method(isAddress, {"tokenAddress", "quote"}, {}, isBnbAddress({"tokenAddress"}), <<>>,
           Asks(Fixed("FEED_REGISTRY"), FeedRegistry_latestRoundData,
                <<Given("tokenAddress"), Given("quote")>>))
Feeds_decimals ==
    Method(isAddress, {"tokenAddress", "quote"}, {}, isBnbAddress({"tokenAddress"}), <<>>,
           Asks(Fixed("FEED_REGISTRY"), FeedRegistry_decimals,
                <<Given("tokenAddress"), Given("quote")>>))
UiPool_getReservesList_ ==
    Reads(isAddress, OfPool, "UI_POOL", UiPool_getReservesList, <<Provider>>)
UiPool_getReservesData_ ==
    Reads(isAddress, OfPool, "UI_POOL", UiPool_getReservesData, <<Provider>>)
UiPool_getUserReservesData_ ==
    Reads(isAddress, OfUser, "UI_POOL", UiPool_getUserReservesData, <<Provider, User>>)
UiPoolV3_getReservesList_ ==
    Reads(isAddress, OfPool, "UI_POOL", UiPoolV3_getReservesList, <<Provider>>)
UiPoolV3_getReservesData_ ==
    Reads(isAddress, OfPool, "UI_POOL", UiPoolV3_getReservesData, <<Provider>>)
UiPoolV3_getUserReservesData_ ==
    Reads(isAddress, OfUser, "UI_POOL", UiPoolV3_getUserReservesData, <<Provider, User>>)
UiIncentive_getFullReservesIncentiveData_ ==
    Reads(isAddress, OfUser, "UI_INCENTIVES", UiIncentive_getFullReservesIncentiveData,
          <<Provider, User>>)
UiIncentive_getReservesIncentivesData_ ==
    Reads(isAddress, OfPool, "UI_INCENTIVES", UiIncentive_getReservesIncentivesData, <<Provider>>)
UiIncentive_getUserReservesIncentivesData_ ==
    Reads(isAddress, OfUser, "UI_INCENTIVES", UiIncentive_getUserReservesIncentivesData,
          <<Provider, User>>)
UiIncentiveV3_getFullReservesIncentiveData_ ==
    Reads(UiIncentiveDataProviderValidator, OfUser, "UI_INCENTIVES",
          UiIncentiveV3_getFullReservesIncentiveData, <<Provider, User>>)
UiIncentiveV3_getReservesIncentivesData_ ==
    Reads(UiIncentiveDataProviderValidator, OfPool, "UI_INCENTIVES",
          UiIncentiveV3_getReservesIncentivesData, <<Provider>>)
UiIncentiveV3_getUserReservesIncentivesData_ ==
    Reads(UiIncentiveDataProviderValidator, OfUser, "UI_INCENTIVES",
          UiIncentiveV3_getUserReservesIncentivesData, <<Provider, User>>)
StakeUi_getGeneralStakeUIData ==
    Reads(Unchecked, {}, "UI_STAKE", StakedTokenData_getAllStakedTokenData, <<>>)
StakeUi_getUserStakeUIData ==
    Reads(StakeUiDataProviderValidator, {"user"}, "UI_STAKE",
          StakedTokenData_getAllStakedTokenUserData, <<User>>)
=============================================================================
