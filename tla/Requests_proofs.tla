-------------------------- MODULE Requests_proofs --------------------------
(***************************************************************************)
(* A request is only turned away for a reason its caller can see, whatever *)
(* is odd about it, and what is sent in the end is nothing the checks are  *)
(* there to keep out.  What the proof needs of the 118 methods is said     *)
(* once, as Row, about one method and the routes it hands over by, and as  *)
(* Clean, about what it says of its parameters; the first two parts show   *)
(* both of every method and the third lets a request run through any table *)
(* of such methods.                                                        *)
(***************************************************************************)
EXTENDS Requests, TLAPS

\* The checks that are recorded, and the parameters a method has of its own.
Kinds == {"isBnbAddress", "isBnbAddressArray", "isBnbAddressOrENS", "isPositiveAmount",
          "is0OrPositiveAmount", "isPositiveOrMinusOneAmount", "isDeadline32Bytes"}

Own(m) == m.required \cup m.optional

\* A method by itself: an address that is missing ends in an empty answer or
\* an error, a value is passed for each place of the contract function, a
\* parameter has one check at most, and a method that looks up names hands
\* nothing over.
WellMade(m) ==
    /\ m.validator.missing \in {"empty", "thrown"}
    /\ DOMAIN m.sends.args = DOMAIN m.sends.takes
    /\ DOMAIN m.routes \subseteq 1..4
    /\ \A c \in m.checks : c = <<c[1], c[2]>> /\ c[1] \in Kinds
    /\ \A c, d \in m.checks : c[2] = d[2] => c = d
    /\ (\E c \in m.checks : c[1] = "isBnbAddressOrENS") => m.routes = <<>>

\* The term passes the parameter q on, as it is or in least units.
Keeps(t, q) == (t[1] \in {"given", "units"} /\ t[2] = q) \/ (t = RepayAmount /\ q = "repayAmount")

\* The route is taken for the native asset.
ForNative(m, r) == Native("reserve") \in r.when /\ "reserve" \in Own(m)

\* The check c of the service that takes over finds nothing wrong with t that
\* the caller could not see: t is an address of the services, or passes a
\* parameter on that is not allowed to be nothing, and to be all of a balance
\* only if c allows it too. Repaying all of a debt in the native asset is the
\* exception.
Kept(name, m, r, c, t) ==
    \/ t \in {Fixed("POOL"), Fixed("LENDING_POOL"), Fixed("WBNB_GATEWAY")}
    \/ \E q \in Own(m) :
        /\ Keeps(t, q)
        /\ <<"is0OrPositiveAmount", q>> \notin m.checks
        /\ <<"isPositiveOrMinusOneAmount", q>> \in m.checks =>
              \/ c[1] = "isPositiveOrMinusOneAmount"
              \/ name \in {"Pool_repay", "LendingPool_repay"} /\ q = "amount" /\ ForNative(m, r)

Debt == "debtTokenAddress"

\* A route to the method target: target hands nothing over in turn, it refuses
\* nothing but a native loan without a debt token, and what it checks is kept.
Hands(name, m, r, target) ==
    /\ \A i \in DOMAIN target.routes :
        \/ target.routes[i].to = "an answer"
        \/ /\ target.routes[i].to = "an error" /\ Without(Debt) \in target.routes[i].when
           /\ ForNative(m, r) /\ Debt \in Own(m) /\ Debt \in Own(target)
           /\ Debt \in DOMAIN r.with /\ r.with[Debt] = Given(Debt)
    /\ \A c \in target.checks : c[1] # "isBnbAddressOrENS"
    /\ \A c \in target.checks : c[2] \in DOMAIN r.with => Kept(name, m, r, c, r.with[c[2]])

\* A refusal is about the native asset and an address that is missing with it.
Limits(name, m, r) ==
    /\ ForNative(m, r) \/ name = "WBNBGateway_borrowBNB"
    /\ \/ \E p \in {"lbTokenAddress", Debt} : Without(p) \in r.when /\ p \in Own(m)
       \/ name = "Pool_repayWithLBTokens"

\* What a route may be.
Sound(name, m, r) ==
    \/ r.to = "an answer"
    \/ r.to = "an error" /\ Limits(name, m, r)
    \/ r.to \in DOMAIN Methods /\ Hands(name, m, r, Methods[r.to])

Routed(name, m) == \A i \in DOMAIN m.routes : Sound(name, m, m.routes[i])

Row(name, m) == WellMade(m) /\ Routed(name, m)

\* Such a method hands nothing over.
Plain(m) == WellMade(m) /\ m.routes = <<>>

\* A well made method without routes is a row.
LEMMA PlainRow == \A name, m : Plain(m) => Row(name, m)
BY DEF Plain, Row, Routed

\* Refusals and answers are not methods.
LEMMA NotMethods == "an answer" \notin DOMAIN Methods /\ "an error" \notin DOMAIN Methods
BY DEF Methods

-----------------------------------------------------------------------------
\* The methods by their names, service by service. L2Pool.
LEMMA L2PoolTable ==
    /\ Methods["L2Pool_supply"] = L2Pool_supply
    /\ Methods["L2Pool_supplyWithPermit"] = L2Pool_supplyWithPermit
    /\ Methods["L2Pool_withdraw"] = L2Pool_withdraw
    /\ Methods["L2Pool_borrow"] = L2Pool_borrow
    /\ Methods["L2Pool_repay"] = L2Pool_repay
    /\ Methods["L2Pool_repayWithPermit"] = L2Pool_repayWithPermit
    /\ Methods["L2Pool_repayWithLBTokens"] = L2Pool_repayWithLBTokens
    /\ Methods["L2Pool_swapBorrowRateMode"] = L2Pool_swapBorrowRateMode
    /\ Methods["L2Pool_setUserUseReserveAsCollateral"] = L2Pool_setUserUseReserveAsCollateral
    /\ Methods["L2Pool_liquidationCall"] = L2Pool_liquidationCall
    /\ Methods["L2Pool_generateSupplyTxData"] = L2Pool_generateSupplyTxData
    /\ Methods["L2Pool_generateBorrowTxData"] = L2Pool_generateBorrowTxData
    /\ Methods["L2Pool_generateSupplyWithPermitTxData"] = L2Pool_generateSupplyWithPermitTxData
    /\ Methods["L2Pool_generateEncodedSupplyTxData"] = L2Pool_generateEncodedSupplyTxData
    /\ Methods["L2Pool_generateEncodedBorrowTxData"] = L2Pool_generateEncodedBorrowTxData
    /\ Methods["L2Pool_generateEncodedSupplyWithPermitTxData"]
          = L2Pool_generateEncodedSupplyWithPermitTxData
BY DEF Methods

\* The gateway and the adapters.
LEMMA AdapterTable ==
    /\ Methods["WBNBGateway_depositBNB"] = WBNBGateway_depositBNB
    /\ Methods["WBNBGateway_borrowBNB"] = WBNBGateway_borrowBNB
    /\ Methods["WBNBGateway_withdrawBNB"] = WBNBGateway_withdrawBNB
    /\ Methods["WBNBGateway_repayBNB"] = WBNBGateway_repayBNB
    /\ Methods["WBNBGateway_generateDepositEthTxData"] = WBNBGateway_generateDepositEthTxData
    /\ Methods["WBNBGateway_generateBorrowEthTxData"] = WBNBGateway_generateBorrowEthTxData
    /\ Methods["LiquiditySwapAdapter_swapAndDeposit"] = LiquiditySwapAdapter_swapAndDeposit
    /\ Methods["ParaswapRepay_swapAndRepay"] = ParaswapRepay_swapAndRepay
    /\ Methods["RepayWithCollateralAdapter_swapAndRepay"]
          = RepayWithCollateralAdapter_swapAndRepay
BY DEF Methods

\* Pool.
LEMMA PoolTable ==
    /\ Methods["Pool_deposit"] = Pool_deposit
    /\ Methods["Pool_supply"] = Pool_supply
    /\ Methods["Pool_supplyWithPermit"] = Pool_supplyWithPermit
    /\ Methods["Pool_withdraw"] = Pool_withdraw
    /\ Methods["Pool_borrow"] = Pool_borrow
    /\ Methods["Pool_repay"] = Pool_repay
    /\ Methods["Pool_repayWithPermit"] = Pool_repayWithPermit
    /\ Methods["Pool_repayWithLBTokens"] = Pool_repayWithLBTokens
    /\ Methods["Pool_swapBorrowRateMode"] = Pool_swapBorrowRateMode
    /\ Methods["Pool_setUsageAsCollateral"] = Pool_setUsageAsCollateral
    /\ Methods["Pool_setUserEMode"] = Pool_setUserEMode
    /\ Methods["Pool_liquidationCall"] = Pool_liquidationCall
    /\ Methods["Pool_swapCollateral"] = Pool_swapCollateral
    /\ Methods["Pool_paraswapRepayWithCollateral"] = Pool_paraswapRepayWithCollateral
    /\ Methods["Pool_flashLiquidation"] = Pool_flashLiquidation
    /\ Methods["Pool_migrateV3"] = Pool_migrateV3
BY DEF Methods

\* LendingPool.
LEMMA LendingPoolTable ==
    /\ Methods["LendingPool_deposit"] = LendingPool_deposit
    /\ Methods["LendingPool_withdraw"] = LendingPool_withdraw
    /\ Methods["LendingPool_borrow"] = LendingPool_borrow
    /\ Methods["LendingPool_repay"] = LendingPool_repay
    /\ Methods["LendingPool_swapBorrowRateMode"] = LendingPool_swapBorrowRateMode
    /\ Methods["LendingPool_setUsageAsCollateral"] = LendingPool_setUsageAsCollateral
    /\ Methods["LendingPool_liquidationCall"] = LendingPool_liquidationCall
    /\ Methods["LendingPool_swapCollateral"] = LendingPool_swapCollateral
    /\ Methods["LendingPool_repayWithCollateral"] = LendingPool_repayWithCollateral
    /\ Methods["LendingPool_paraswapRepayWithCollateral"]
          = LendingPool_paraswapRepayWithCollateral
    /\ Methods["LendingPool_flashLiquidation"] = LendingPool_flashLiquidation
BY DEF Methods

\* The bundles.
LEMMA BundleTable ==
    /\ Methods["PoolBundle_getApprovedAmount"] = PoolBundle_getApprovedAmount
    /\ Methods["PoolBundle_supply_generateTxData"] = PoolBundle_supply_generateTxData
    /\ Methods["PoolBundle_supply_generateSignedTxData"] = PoolBundle_supply_generateSignedTxData
    /\ Methods["PoolBundle_borrow_generateTxData"] = PoolBundle_borrow_generateTxData
    /\ Methods["LendingPoolBundle_getApprovedAmount"] = LendingPoolBundle_getApprovedAmount
    /\ Methods["LendingPoolBundle_deposit_generateTxData"]
          = LendingPoolBundle_deposit_generateTxData
    /\ Methods["LendingPoolBundle_borrow_generateTxData"]
          = LendingPoolBundle_borrow_generateTxData
BY DEF Methods

\* The tokens and debt tokens.
LEMMA TokenTable ==
    /\ Methods["ERC20_approve"] = ERC20_approve
    /\ Methods["ERC20_approveTxData"] = ERC20_approveTxData
    /\ Methods["ERC20_isApproved"] = ERC20_isApproved
    /\ Methods["ERC20_approvedAmount"] = ERC20_approvedAmount
    /\ Methods["ERC20_2612_getNonce"] = ERC20_2612_getNonce
    /\ Methods["DebtToken_approveDelegation"] = DebtToken_approveDelegation
    /\ Methods["DebtToken_generateApproveDelegationTxData"]
          = DebtToken_generateApproveDelegationTxData
    /\ Methods["DebtToken_approvedDelegationAmount"] = DebtToken_approvedDelegationAmount
    /\ Methods["DebtToken_isDelegationApproved"] = DebtToken_isDelegationApproved
BY DEF Methods

\* Staking, rewards and faucets.
LEMMA RewardTable ==
    /\ Methods["Staking_stakeWithPermit"] = Staking_stakeWithPermit
    /\ Methods["Staking_stake"] = Staking_stake
    /\ Methods["Staking_redeem"] = Staking_redeem
    /\ Methods["Staking_cooldown"] = Staking_cooldown
    /\ Methods["Staking_claimRewards"] = Staking_claimRewards
    /\ Methods["Incentives_claimRewards"] = Incentives_claimRewards
    /\ Methods["IncentivesV2_claimRewards"] = IncentivesV2_claimRewards
    /\ Methods["IncentivesV2_claimAllRewards"] = IncentivesV2_claimAllRewards
    /\ Methods["Faucet_mint"] = Faucet_mint
    /\ Methods["V3Faucet_mint"] = V3Faucet_mint
    /\ Methods["V3Faucet_isPermissioned"] = V3Faucet_isPermissioned
BY DEF Methods

\* Governance and delegation.
LEMMA GovernanceTable ==
    /\ Methods["Governance_submitVote"] = Governance_submitVote
    /\ Methods["Governance_getProposals"] = Governance_getProposals
    /\ Methods["Governance_getProposal"] = Governance_getProposal
    /\ Methods["Governance_getVotingPowerAt"] = Governance_getVotingPowerAt
    /\ Methods["Governance_getTokensPower"] = Governance_getTokensPower
    /\ Methods["Governance_getVoteOnProposal"] = Governance_getVoteOnProposal
    /\ Methods["Governance_getProposalsCount"] = Governance_getProposalsCount
    /\ Methods["Governance_delegateTokensBySig"] = Governance_delegateTokensBySig
    /\ Methods["Governance_delegateTokensByTypeBySig"] = Governance_delegateTokensByTypeBySig
    /\ Methods["Delegation_delegate"] = Delegation_delegate
    /\ Methods["Delegation_delegateByType"] = Delegation_delegateByType
    /\ Methods["Delegation_delegateBySig"] = Delegation_delegateBySig
    /\ Methods["Delegation_delegateByTypeBySig"] = Delegation_delegateByTypeBySig
    /\ Methods["Delegation_getDelegateeByType"] = Delegation_getDelegateeByType
    /\ Methods["Delegation_getPowerCurrent"] = Delegation_getPowerCurrent
    /\ Methods["Delegation_getPowerAtBlock"] = Delegation_getPowerAtBlock
    /\ Methods["Delegation_getNonce"] = Delegation_getNonce
BY DEF Methods

\* Migration and the reads.
LEMMA ReadTable ==
    /\ Methods["Migration_migrate"] = Migration_migrate
    /\ Methods["Migration_getMigrationSupply"] = Migration_getMigrationSupply
    /\ Methods["WalletBalance_balanceOf_"] = WalletBalance_balanceOf_
    /\ Methods["WalletBalance_batchBalanceOf_"] = WalletBalance_batchBalanceOf_
    /\ Methods["WalletBalance_getUserWalletBalancesForLendingPoolProvider"]
          = WalletBalance_getUserWalletBalancesForLendingPoolProvider
    /\ Methods["Permissions_getUserPermissions"] = Permissions_getUserPermissions
    /\ Methods["Feeds_latestRoundData"] = Feeds_latestRoundData
    /\ Methods["Feeds_decimals"] = Feeds_decimals
    /\ Methods["UiPool_getReservesList_"] = UiPool_getReservesList_
    /\ Methods["UiPool_getReservesData_"] = UiPool_getReservesData_
    /\ Methods["UiPool_getUserReservesData_"] = UiPool_getUserReservesData_
    /\ Methods["UiPoolV3_getReservesList_"] = UiPoolV3_getReservesList_
    /\ Methods["UiPoolV3_getReservesData_"] = UiPoolV3_getReservesData_
    /\ Methods["UiPoolV3_getUserReservesData_"] = UiPoolV3_getUserReservesData_
    /\ Methods["UiIncentive_getFullReservesIncentiveData_"]
          = UiIncentive_getFullReservesIncentiveData_
    /\ Methods["UiIncentive_getReservesIncentivesData_"] = UiIncentive_getReservesIncentivesData_
    /\ Methods["UiIncentive_getUserReservesIncentivesData_"]
          = UiIncentive_getUserReservesIncentivesData_
    /\ Methods["UiIncentiveV3_getFullReservesIncentiveData_"]
          = UiIncentiveV3_getFullReservesIncentiveData_
    /\ Methods["UiIncentiveV3_getReservesIncentivesData_"]
          = UiIncentiveV3_getReservesIncentivesData_
    /\ Methods["UiIncentiveV3_getUserReservesIncentivesData_"]
          = UiIncentiveV3_getUserReservesIncentivesData_
    /\ Methods["StakeUi_getGeneralStakeUIData"] = StakeUi_getGeneralStakeUIData
    /\ Methods["StakeUi_getUserStakeUIData"] = StakeUi_getUserStakeUIData
BY DEF Methods

-----------------------------------------------------------------------------
\* The routes. First the methods that run no checks: handing over to them is
\* always sound.
Free == {"L2Pool_supply", "L2Pool_withdraw", "L2Pool_borrow", "L2Pool_repay",
   "L2Pool_repayWithLBTokens", "L2Pool_swapBorrowRateMode",
   "L2Pool_setUserUseReserveAsCollateral", "L2Pool_liquidationCall",
   "L2Pool_generateSupplyTxData", "L2Pool_generateBorrowTxData",
   "L2Pool_generateSupplyWithPermitTxData",
   "L2Pool_generateEncodedSupplyTxData", "L2Pool_generateEncodedBorrowTxData",
   "L2Pool_generateEncodedSupplyWithPermitTxData", "WBNBGateway_generateDepositEthTxData",
   "WBNBGateway_generateBorrowEthTxData"}

\* They run no checks and hand nothing over.
LEMMA FreeTargets ==
    \A n \in Free : n \in DOMAIN Methods /\ Methods[n].checks = {} /\ Methods[n].routes = <<>>
<1>1. /\ Methods["L2Pool_supply"] = L2Pool_supply
      /\ Methods["L2Pool_withdraw"] = L2Pool_withdraw
      /\ Methods["L2Pool_borrow"] = L2Pool_borrow
      /\ Methods["L2Pool_repay"] = L2Pool_repay
      /\ Methods["L2Pool_repayWithLBTokens"] = L2Pool_repayWithLBTokens
      /\ Methods["L2Pool_swapBorrowRateMode"] = L2Pool_swapBorrowRateMode
      /\ Methods["L2Pool_setUserUseReserveAsCollateral"] = L2Pool_setUserUseReserveAsCollateral
      /\ Methods["L2Pool_liquidationCall"] = L2Pool_liquidationCall
      /\ Methods["L2Pool_generateSupplyTxData"] = L2Pool_generateSupplyTxData
      /\ Methods["L2Pool_generateBorrowTxData"] = L2Pool_generateBorrowTxData
      /\ Methods["L2Pool_generateSupplyWithPermitTxData"] = L2Pool_generateSupplyWithPermitTxData
      /\ Methods["L2Pool_generateEncodedSupplyTxData"] = L2Pool_generateEncodedSupplyTxData
      /\ Methods["L2Pool_generateEncodedBorrowTxData"] = L2Pool_generateEncodedBorrowTxData
      /\ Methods["L2Pool_generateEncodedSupplyWithPermitTxData"] =
           L2Pool_generateEncodedSupplyWithPermitTxData
      /\ Methods["WBNBGateway_generateDepositEthTxData"] = WBNBGateway_generateDepositEthTxData
      /\ Methods["WBNBGateway_generateBorrowEthTxData"] = WBNBGateway_generateBorrowEthTxData
      /\ Free \subseteq DOMAIN Methods
  BY DEF Methods, Free
<1>2. \A n \in Free : Methods[n].checks = {} /\ Methods[n].routes = <<>>
  BY <1>1 DEF Free, Method, L2Pool_supply, L2Pool_withdraw, L2Pool_borrow, L2Pool_repay,
    L2Pool_repayWithLBTokens,
     L2Pool_swapBorrowRateMode, L2Pool_setUserUseReserveAsCollateral, L2Pool_liquidationCall,
     L2Pool_generateSupplyTxData, L2Pool_generateBorrowTxData,
       L2Pool_generateSupplyWithPermitTxData,
     L2Pool_generateEncodedSupplyTxData, L2Pool_generateEncodedBorrowTxData,
       L2Pool_generateEncodedSupplyWithPermitTxData,
     WBNBGateway_generateDepositEthTxData, WBNBGateway_generateBorrowEthTxData
<1> QED
  BY <1>1, <1>2

\* Any route to one of them is sound.
LEMMA FreeSound == ASSUME NEW name, NEW m, NEW r, r.to \in Free PROVE Sound(name, m, r)
<1>1. Hands(name, m, r, Methods[r.to])
  <2>1. Methods[r.to].checks = {} /\ Methods[r.to].routes = <<>>
    BY FreeTargets
  <2> QED
    BY <2>1 DEF Hands
<1> QED BY <1>1, FreeTargets DEF Sound

\* The other methods that are handed over to, by their names.
LEMMA Targets ==
    /\ Methods["L2Pool_supplyWithPermit"] = L2Pool_supplyWithPermit
    /\ Methods["L2Pool_repayWithPermit"] = L2Pool_repayWithPermit
    /\ Methods["WBNBGateway_depositBNB"] = WBNBGateway_depositBNB
    /\ Methods["WBNBGateway_withdrawBNB"] = WBNBGateway_withdrawBNB
    /\ Methods["WBNBGateway_borrowBNB"] = WBNBGateway_borrowBNB
    /\ Methods["WBNBGateway_repayBNB"] = WBNBGateway_repayBNB
    /\ Methods["LiquiditySwapAdapter_swapAndDeposit"] = LiquiditySwapAdapter_swapAndDeposit
    /\ Methods["ParaswapRepay_swapAndRepay"] = ParaswapRepay_swapAndRepay
    /\ Methods["RepayWithCollateralAdapter_swapAndRepay"] = RepayWithCollateralAdapter_swapAndRepay
    /\ Methods["ERC20_approvedAmount"] = ERC20_approvedAmount
    /\ {"L2Pool_supplyWithPermit", "L2Pool_repayWithPermit", "WBNBGateway_depositBNB",
        "WBNBGateway_withdrawBNB", "WBNBGateway_borrowBNB", "WBNBGateway_repayBNB",
        "LiquiditySwapAdapter_swapAndDeposit", "ParaswapRepay_swapAndRepay",
        "RepayWithCollateralAdapter_swapAndRepay", "ERC20_approvedAmount"} \subseteq DOMAIN Methods
BY DEF Methods

\* Their checks and their own routes.
LEMMA TargetChecks ==
    /\ L2Pool_supplyWithPermit.routes = <<>>
    /\ L2Pool_supplyWithPermit.checks = isDeadline32Bytes({"deadline"})
    /\ L2Pool_repayWithPermit.routes = <<>>
    /\ L2Pool_repayWithPermit.checks = isDeadline32Bytes({"deadline"})
    /\ WBNBGateway_depositBNB.routes = <<>>
    /\ WBNBGateway_depositBNB.checks = isBnbAddress({"lendingPool", "user", "onBehalfOf"})
         \cup isPositiveAmount({"amount"})
               \cup is0OrPositiveAmount({"referralCode"})
    /\ WBNBGateway_withdrawBNB.routes = <<>>
    /\ WBNBGateway_withdrawBNB.checks = isBnbAddress({"lendingPool", "user", "onBehalfOf",
         "lbTokenAddress"})
               \cup isPositiveOrMinusOneAmount({"amount"})
    /\ WBNBGateway_borrowBNB.routes = <<Refuses({Without("debtTokenAddress")})>>
    /\ WBNBGateway_borrowBNB.checks = isBnbAddress({"lendingPool", "user", "debtTokenAddress"})
               \cup isPositiveAmount({"amount"}) \cup is0OrPositiveAmount({"referralCode"})
    /\ "debtTokenAddress" \in Own(WBNBGateway_borrowBNB)
    /\ WBNBGateway_repayBNB.routes = <<>>
    /\ WBNBGateway_repayBNB.checks = isBnbAddress({"lendingPool", "user", "onBehalfOf"})
         \cup isPositiveAmount({"amount"})
    /\ LiquiditySwapAdapter_swapAndDeposit.routes = <<>>
    /\ LiquiditySwapAdapter_swapAndDeposit.checks = isBnbAddress({"user", "assetToSwapFrom",
         "assetToSwapTo", "augustus"})
               \cup isPositiveAmount({"amountToSwap", "minAmountToReceive"})
    /\ ParaswapRepay_swapAndRepay.routes = <<>>
    /\ ParaswapRepay_swapAndRepay.checks = isBnbAddress({"user", "collateralAsset", "debtAsset",
         "augustus"})
               \cup isPositiveAmount({"collateralAmount", "debtRepayAmount"})
    /\ RepayWithCollateralAdapter_swapAndRepay.routes = <<>>
    /\ RepayWithCollateralAdapter_swapAndRepay.checks = isBnbAddress({"user", "collateralAsset",
         "debtAsset"})
               \cup isPositiveAmount({"collateralAmount", "debtRepayAmount"})
    /\ ERC20_approvedAmount.routes = <<Answers({Native("token")})>>
    /\ ERC20_approvedAmount.checks = isBnbAddress({"user", "token", "spender"})
BY DEF Method, Own, L2Pool_supplyWithPermit, L2Pool_repayWithPermit, WBNBGateway_depositBNB,
  WBNBGateway_withdrawBNB,
       WBNBGateway_borrowBNB, WBNBGateway_repayBNB, LiquiditySwapAdapter_swapAndDeposit,
         ParaswapRepay_swapAndRepay,
       RepayWithCollateralAdapter_swapAndRepay, ERC20_approvedAmount

-----------------------------------------------------------------------------
\* Methods none of whose parameters may be nothing or all of a balance.
Strict(m) == \A c \in m.checks : c[1] \notin {"is0OrPositiveAmount", "isPositiveOrMinusOneAmount"}

Pools == {"POOL", "LENDING_POOL"}

Meant(m, t) ==
    \/ t \in {Fixed("POOL"), Fixed("LENDING_POOL"), Fixed("WBNB_GATEWAY")}
    \/ \E q \in Own(m) : Keeps(t, q)

\* A parameter that is passed on as it is keeps its form.
LEMMA GivenKeeps == \A q : Keeps(Given(q), q)
BY DEF Keeps, Given

\* So does one that is passed on in least units.
LEMMA UnitsKeeps == \A q, t : Keeps(Units(q, t), q)
BY DEF Keeps, Units

\* Such a method may hand its parameters over to any method that hands nothing
\* over.
LEMMA StrictSound ==
    ASSUME NEW name, NEW m, Strict(m), NEW r, r.to \in DOMAIN Methods,
           Methods[r.to].routes = <<>>,
           \A c \in Methods[r.to].checks :
              c[1] # "isBnbAddressOrENS" /\ (c[2] \in DOMAIN r.with => Meant(m, r.with[c[2]]))
    PROVE  Sound(name, m, r)
<1> DEFINE target == Methods[r.to]
<1>1. ASSUME NEW c \in target.checks, c[2] \in DOMAIN r.with
      PROVE  Kept(name, m, r, c, r.with[c[2]])
  <2>1. Meant(m, r.with[c[2]])
    BY <1>1
  <2>2. ASSUME NEW q, NEW k \in {"is0OrPositiveAmount", "isPositiveOrMinusOneAmount"}
        PROVE  <<k, q>> \notin m.checks
    BY DEF Strict
  <2> QED
    BY <2>1, <2>2 DEF Meant, Kept
<1>2. Hands(name, m, r, target)
  BY <1>1 DEF Hands
<1> QED
  BY <1>2 DEF Sound

\* A deposit of the native asset goes to the gateway (depositBNB).
LEMMA DepositNativeSound ==
    ASSUME NEW pool \in Pools, NEW name, NEW m, Strict(m),
           {"user", "amount", "onBehalfOf", "referralCode"} \subseteq Own(m)
    PROVE  Sound(name, m, DepositNative(pool))
<1> DEFINE r == DepositNative(pool)
<1>1. /\ r.to = "WBNBGateway_depositBNB"
      /\ DOMAIN r.with = {"user", "amount", "onBehalfOf", "referralCode", "lendingPool"}
      /\ r.with["lendingPool"] = Fixed(pool)
      /\ \A p \in {"user", "amount", "onBehalfOf", "referralCode"} : r.with[p] = Given(p)
  BY DEF DepositNative, HandsOver, Pass, ++
<1> HIDE DEF r
<1>2. \A p \in DOMAIN r.with : Meant(m, r.with[p])
  BY <1>1, GivenKeeps DEF Meant, Pools
<1>3. \A c \in WBNBGateway_depositBNB.checks : c[1] # "isBnbAddressOrENS"
  BY TargetChecks DEF isBnbAddress, isPositiveAmount, is0OrPositiveAmount
<1>4. Sound(name, m, r)
  BY <1>1, <1>2, <1>3, StrictSound, Targets, TargetChecks
<1> QED
  BY <1>4 DEF r

\* A swap without a flash loan goes to the swap adapter.
LEMMA SwapDirectlySound ==
    ASSUME NEW name, NEW m, Strict(m),
           {"user", "swapAll", "swapCallData", "augustus", "fromAsset", "toAsset", "fromAmount",
           "minToAmount"} \subseteq Own(m)
    PROVE  Sound(name, m, SwapDirectly)
<1> DEFINE r == SwapDirectly
<1>1. /\ r.to = "LiquiditySwapAdapter_swapAndDeposit"
      /\ r.with["user"] = Given("user") /\ r.with["augustus"] = Given("augustus")
      /\ r.with["assetToSwapFrom"] = Given("fromAsset")
      /\ r.with["assetToSwapTo"] = Given("toAsset")
      /\ r.with["amountToSwap"] = Units("fromAmount", "fromAsset")
      /\ r.with["minAmountToReceive"] = Units("minToAmount", "toAsset")
  BY DEF SwapDirectly, HandsOver, Pass, ++
<1> HIDE DEF r
<1>2. \A p \in {"user", "augustus", "assetToSwapFrom", "assetToSwapTo", "amountToSwap",
        "minAmountToReceive"} : Meant(m, r.with[p])
  BY <1>1, GivenKeeps, UnitsKeeps DEF Meant
<1>3. \A c \in LiquiditySwapAdapter_swapAndDeposit.checks : c[1] # "isBnbAddressOrENS" /\
     c[2] \in {"user", "augustus", "assetToSwapFrom", "assetToSwapTo", "amountToSwap",
     "minAmountToReceive"}
  BY TargetChecks DEF isBnbAddress, isPositiveAmount
<1>4. Sound(name, m, r)
  BY <1>1, <1>2, <1>3, StrictSound, Targets, TargetChecks
<1> QED
  BY <1>4 DEF r

\* A repayment with collateral and no flash loan goes to the repay adapter.
LEMMA RepayDirectlySound ==
    ASSUME NEW name, NEW m, Strict(m),
           {"user", "augustus", "fromAsset", "assetToRepay", "repayWithAmount",
           "repayAmount"} \subseteq Own(m)
    PROVE  Sound(name, m, RepayDirectly)
<1> DEFINE r == RepayDirectly
<1>1. /\ r.to = "ParaswapRepay_swapAndRepay"
      /\ r.with["user"] = Given("user") /\ r.with["augustus"] = Given("augustus")
      /\ r.with["collateralAsset"] = Given("fromAsset")
      /\ r.with["debtAsset"] = Given("assetToRepay")
      /\ r.with["collateralAmount"] = Units("repayWithAmount", "fromAsset")
      /\ r.with["debtRepayAmount"] = Units("repayAmount", "assetToRepay")
  BY DEF RepayDirectly, HandsOver, Pass, ++
<1> HIDE DEF r
<1>2. \A p \in {"user", "augustus", "collateralAsset", "debtAsset", "collateralAmount",
        "debtRepayAmount"} : Meant(m, r.with[p])
  BY <1>1, GivenKeeps, UnitsKeeps DEF Meant
<1>3. \A c \in ParaswapRepay_swapAndRepay.checks : c[1] # "isBnbAddressOrENS" /\
     c[2] \in {"user", "augustus", "collateralAsset", "debtAsset", "collateralAmount",
     "debtRepayAmount"}
  BY TargetChecks DEF isBnbAddress, isPositiveAmount
<1>4. Sound(name, m, r)
  BY <1>1, <1>2, <1>3, StrictSound, Targets, TargetChecks
<1> QED
  BY <1>4 DEF r

RepayAdapterChecked == {"user", "collateralAsset", "debtAsset", "collateralAmount",
  "debtRepayAmount"}

\* The same for the older adapter of LendingPool.
LEMMA RepayWithCollateralSound ==
    ASSUME NEW name, NEW m, Strict(m), NEW r, r = LendingPool_repayWithCollateral.routes[1],
           {"user", "fromAsset", "assetToRepay", "repayWithAmount", "repayAmount"} \subseteq Own(m)
    PROVE  Sound(name, m, r)
<1>1. /\ r.to = "RepayWithCollateralAdapter_swapAndRepay"
      /\ r.with["user"] = Given("user")
      /\ r.with["collateralAsset"] = Given("fromAsset")
      /\ r.with["debtAsset"] = Given("assetToRepay")
      /\ r.with["collateralAmount"] = Units("repayWithAmount", "fromAsset")
      /\ r.with["debtRepayAmount"] = RepayAmount
  BY DEF LendingPool_repayWithCollateral, Method, HandsOver, Pass, ++
<1>2. \A p \in RepayAdapterChecked : Meant(m, r.with[p])
  <2>1. Keeps(RepayAmount, "repayAmount")
    BY DEF Keeps
  <2> QED
    BY <1>1, <2>1, GivenKeeps, UnitsKeeps DEF Meant, RepayAdapterChecked
<1>3. \A c \in RepayWithCollateralAdapter_swapAndRepay.checks :
         c[1] # "isBnbAddressOrENS" /\ c[2] \in RepayAdapterChecked
  BY TargetChecks DEF isBnbAddress, isPositiveAmount, RepayAdapterChecked
<1> QED
  BY <1>1, <1>2, <1>3, StrictSound, Targets, TargetChecks

-----------------------------------------------------------------------------
\* Methods only one amount of which may be all of a balance.
AmountOnly(m) ==
    \A c \in m.checks : /\ c[1] # "is0OrPositiveAmount"
                        /\ c[1] = "isPositiveOrMinusOneAmount" => c[2] = "amount"

\* What such a method passes on is kept, the amount where the other check
\* allows for all of it.
LEMMA PassedKept ==
    ASSUME NEW name, NEW m, AmountOnly(m), NEW r, NEW c, NEW q \in Own(m), NEW t, Keeps(t, q),
           q = "amount" =>
              \/ c[1] = "isPositiveOrMinusOneAmount"
              \/ name \in {"Pool_repay", "LendingPool_repay"} /\ ForNative(m, r)
    PROVE  Kept(name, m, r, c, t)
<1>1. <<"is0OrPositiveAmount", q>> \notin m.checks
  BY DEF AmountOnly
<1>2. <<"isPositiveOrMinusOneAmount", q>> \in m.checks => q = "amount"
  BY DEF AmountOnly
<1> QED
  BY <1>1, <1>2 DEF Kept

\* A withdrawal of the native asset is refused without the address of its
\* token, else it goes to the gateway (withdrawBNB).
LEMMA WithdrawNativeSound ==
    ASSUME NEW pool \in Pools, NEW name, NEW m, AmountOnly(m),
           {"user", "reserve", "amount", "onBehalfOf", "lbTokenAddress"} \subseteq Own(m)
    PROVE  Sound(name, m, WithdrawNative(pool)[1]) /\ Sound(name, m, WithdrawNative(pool)[2])
<1>1. Sound(name, m, WithdrawNative(pool)[1])
  BY DEF Sound, Limits, ForNative, WithdrawNative, Refuses, HandsOver
<1> DEFINE r == WithdrawNative(pool)[2]
<1>2. /\ r.to = "WBNBGateway_withdrawBNB"
      /\ DOMAIN r.with = {"user", "amount", "onBehalfOf", "lbTokenAddress", "lendingPool"}
      /\ r.with["lendingPool"] = Fixed(pool)
      /\ \A p \in {"user", "amount", "onBehalfOf", "lbTokenAddress"} : r.with[p] = Given(p)
  BY DEF WithdrawNative, HandsOver, Pass, ++
<1> HIDE DEF r
<1> DEFINE target == WBNBGateway_withdrawBNB
<1>3. ASSUME NEW c \in target.checks, c[2] \in DOMAIN r.with
      PROVE  c[1] # "isBnbAddressOrENS" /\ Kept(name, m, r, c, r.with[c[2]])
  <2>1. c[1] # "isBnbAddressOrENS" /\ (c[2] = "amount" => c[1] = "isPositiveOrMinusOneAmount")
    BY TargetChecks DEF isBnbAddress, isPositiveOrMinusOneAmount
  <2>2. CASE c[2] = "lendingPool"
    BY <1>2, <2>1, <2>2 DEF Kept, Pools
  <2>3. CASE c[2] # "lendingPool"
    <3>1. r.with[c[2]] = Given(c[2]) /\ c[2] \in Own(m)
      BY <1>2, <1>3, <2>3
    <3> QED
      BY <2>1, <3>1, GivenKeeps, PassedKept
  <2> QED
    BY <2>2, <2>3
<1>4. \A c \in target.checks : c[1] # "isBnbAddressOrENS"
  BY TargetChecks DEF isBnbAddress, isPositiveOrMinusOneAmount
<1>5. Hands(name, m, r, target)
  BY <1>3, <1>4, TargetChecks DEF Hands
<1> QED
  BY <1>1, <1>2, <1>5, Targets DEF Sound, r

\* A repayment in the native asset goes to the gateway, which refuses to repay
\* all of a debt (repayBNB).
LEMMA RepayNativeSound ==
    ASSUME NEW pool \in Pools, NEW name \in {"Pool_repay", "LendingPool_repay"}, NEW m,
      AmountOnly(m),
           {"user", "reserve", "amount", "interestRateMode", "onBehalfOf"} \subseteq Own(m)
    PROVE  Sound(name, m, RepayNative(pool))
<1> DEFINE r == RepayNative(pool)
<1>1. /\ r.to = "WBNBGateway_repayBNB" /\ Native("reserve") \in r.when
      /\ DOMAIN r.with = {"user", "amount", "interestRateMode", "onBehalfOf", "lendingPool"}
      /\ r.with["lendingPool"] = Fixed(pool)
      /\ \A p \in {"user", "amount", "interestRateMode", "onBehalfOf"} : r.with[p] = Given(p)
  BY DEF RepayNative, HandsOver, Pass, ++
<1> HIDE DEF r
<1>2. ForNative(m, r)
  BY <1>1 DEF ForNative
<1> DEFINE target == WBNBGateway_repayBNB
<1>3. ASSUME NEW c \in target.checks, c[2] \in DOMAIN r.with
      PROVE  Kept(name, m, r, c, r.with[c[2]])
  <2>2. CASE c[2] = "lendingPool"
    BY <1>1, <2>2 DEF Kept, Pools
  <2>3. CASE c[2] # "lendingPool"
    <3>1. r.with[c[2]] = Given(c[2]) /\ c[2] \in Own(m)
      BY <1>1, <1>3, <2>3
    <3> QED
      BY <3>1, <1>2, GivenKeeps, PassedKept
  <2> QED
    BY <2>2, <2>3
<1>4. \A c \in target.checks : c[1] # "isBnbAddressOrENS"
  BY TargetChecks DEF isBnbAddress, isPositiveAmount
<1>5. Hands(name, m, r, target)
  BY <1>3, <1>4, TargetChecks DEF Hands
<1> QED
  BY <1>1, <1>5, Targets DEF Sound, r

\* A loan of the native asset is refused without the address of the debt
\* token, else it goes to the gateway, which has that refusal too (borrowBNB).
LEMMA BorrowNativeSound ==
    ASSUME NEW pool \in Pools, NEW name, NEW m, Strict(m),
           {"user", "reserve", "amount", "debtTokenAddress", "interestRateMode",
           "referralCode"} \subseteq Own(m)
    PROVE  Sound(name, m, BorrowNative(pool)[1]) /\ Sound(name, m, BorrowNative(pool)[2])
<1>1. Sound(name, m, BorrowNative(pool)[1])
  BY DEF Sound, Limits, ForNative, BorrowNative, Refuses, HandsOver, Debt
<1> DEFINE r == BorrowNative(pool)[2]
<1>2. /\ r.to = "WBNBGateway_borrowBNB" /\ Native("reserve") \in r.when
      /\ DOMAIN r.with = {"user", "amount", "debtTokenAddress", "interestRateMode",
           "referralCode", "lendingPool"}
      /\ r.with["lendingPool"] = Fixed(pool)
      /\ \A p \in {"user", "amount", "debtTokenAddress", "interestRateMode", "referralCode"} :
           r.with[p] = Given(p)
  BY DEF BorrowNative, HandsOver, Pass, ++
<1> HIDE DEF r
<1> DEFINE target == WBNBGateway_borrowBNB
<1>3. ASSUME NEW c \in target.checks, c[2] \in DOMAIN r.with
      PROVE  Kept(name, m, r, c, r.with[c[2]])
  <2>1. AmountOnly(m) /\ \A d \in m.checks : d[1] # "isPositiveOrMinusOneAmount"
    BY DEF Strict, AmountOnly
  <2>2. CASE c[2] = "lendingPool"
    BY <1>2, <2>2 DEF Kept, Pools
  <2>3. CASE c[2] # "lendingPool"
    <3>1. r.with[c[2]] = Given(c[2]) /\ c[2] \in Own(m)
      BY <1>2, <1>3, <2>3
    <3>2. <<"is0OrPositiveAmount", c[2]>> \notin m.checks
            /\ <<"isPositiveOrMinusOneAmount", c[2]>> \notin m.checks
      BY DEF Strict
    <3> QED
      BY <3>1, <3>2, GivenKeeps DEF Kept
  <2> QED
    BY <2>2, <2>3
<1>4. \A c \in target.checks : c[1] # "isBnbAddressOrENS"
  BY TargetChecks DEF isBnbAddress, isPositiveAmount, is0OrPositiveAmount
<1>5. \A i \in DOMAIN target.routes : target.routes[i].to = "an error"
        /\ Without(Debt) \in target.routes[i].when
  <2> DEFINE refusal == Refuses({Without(Debt)})
  <2>1. target.routes = <<refusal>>
    BY TargetChecks DEF Debt
  <2>2. refusal.to = "an error" /\ Without(Debt) \in refusal.when
    BY DEF Refuses, HandsOver
  <2> HIDE DEF refusal
  <2>3. \A i \in DOMAIN target.routes : target.routes[i] = refusal
    BY <2>1
  <2> QED
    BY <2>2, <2>3
<1>6. /\ ForNative(m, r) /\ Debt \in Own(m) /\ Debt \in Own(target)
      /\ Debt \in DOMAIN r.with /\ r.with[Debt] = Given(Debt)
  BY <1>2, TargetChecks DEF ForNative, Debt
<1>7. Hands(name, m, r, target)
  BY <1>3, <1>4, <1>5, <1>6 DEF Hands
<1> QED
  BY <1>1, <1>2, <1>7, Targets DEF Sound, r

\* With a permit, the optimized path checks the deadline that was given.
LEMMA PermitSound ==
    ASSUME NEW name, NEW m, AmountOnly(m), "deadline" \in Own(m), NEW r,
           r.to \in {"L2Pool_supplyWithPermit", "L2Pool_repayWithPermit"},
           r.with["deadline"] = Given("deadline")
    PROVE  Sound(name, m, r)
<1> DEFINE target == Methods[r.to]
<1>1. target.checks = isDeadline32Bytes({"deadline"}) /\ target.routes = <<>>
      /\ r.to \in DOMAIN Methods
  BY Targets, TargetChecks
<1>2. ASSUME NEW c \in target.checks, c[2] \in DOMAIN r.with
      PROVE  Kept(name, m, r, c, r.with[c[2]])
  <2>1. c[2] = "deadline"
    BY <1>1 DEF isDeadline32Bytes
  <2> QED
    BY <2>1, GivenKeeps, PassedKept
<1>3. \A c \in target.checks : c[1] # "isBnbAddressOrENS"
  BY <1>1 DEF isDeadline32Bytes
<1>4. Hands(name, m, r, target)
  BY <1>1, <1>2, <1>3 DEF Hands
<1> QED
  BY <1>1, <1>4 DEF Sound

\* The bundles ask for the allowance of the gateway or of the pool.
LEMMA AllowanceSound ==
    ASSUME NEW pool \in Pools, NEW name, NEW m, m.checks = {}, {"user", "token"} \subseteq Own(m)
    PROVE  Sound(name, m, Allowance(pool)[1]) /\ Sound(name, m, Allowance(pool)[2])
<1> SUFFICES ASSUME NEW i \in {1, 2} PROVE Sound(name, m, Allowance(pool)[i])
  OBVIOUS
<1> DEFINE r == Allowance(pool)[i]
<1>1. /\ r.to = "ERC20_approvedAmount"
      /\ r.with["user"] = Given("user") /\ r.with["token"] = Given("token")
      /\ r.with["spender"] \in {Fixed("WBNB_GATEWAY"), Fixed(pool)}
  BY DEF Allowance, HandsOver, Pass, ++
<1> HIDE DEF r
<1> DEFINE target == ERC20_approvedAmount
<1>2. \A p \in {"user", "token", "spender"} : Meant(m, r.with[p])
  BY <1>1, GivenKeeps DEF Meant, Pools
<1>3. \A c \in target.checks : c[1] # "isBnbAddressOrENS" /\ c[2] \in {"user", "token", "spender"}
  BY TargetChecks DEF isBnbAddress
<1>4. \A c \in target.checks : c[2] \in DOMAIN r.with => Kept(name, m, r, c, r.with[c[2]])
  BY <1>2, <1>3 DEF Meant, Kept
<1>5. \A j \in DOMAIN target.routes : target.routes[j].to = "an answer"
  <2> DEFINE answer == Answers({Native("token")})
  <2>1. target.routes = <<answer>>
    BY TargetChecks
  <2>2. answer.to = "an answer"
    BY DEF Answers, HandsOver
  <2> HIDE DEF answer
  <2>3. \A j \in DOMAIN target.routes : target.routes[j] = answer
    BY <2>1
  <2> QED
    BY <2>2, <2>3
<1>6. Hands(name, m, r, target)
  BY <1>3, <1>4, <1>5 DEF Hands
<1> QED
  BY <1>1, <1>6, Targets DEF Sound, r

\* The builders of a native loan are refused without the debt token.
LEMMA GenerateBorrowNativeSound ==
    ASSUME NEW pool, NEW name, NEW m, {"reserve", "debtTokenAddress"} \subseteq Own(m)
    PROVE  Sound(name, m, GenerateBorrowNative(pool)[1])
      /\ Sound(name, m, GenerateBorrowNative(pool)[2])
<1>1. Sound(name, m, GenerateBorrowNative(pool)[1])
  BY DEF Sound, Limits, ForNative, GenerateBorrowNative, Refuses, HandsOver, Debt
<1>2. GenerateBorrowNative(pool)[2].to \in Free
  BY DEF GenerateBorrowNative, HandsOver, Free
<1> QED
  BY <1>1, <1>2, FreeSound

-----------------------------------------------------------------------------
\* The methods that hand over.
\* The methods that ask for amounts that are something.
LEMMA StrictMethods ==
    /\ Strict(Pool_deposit) /\ Strict(Pool_supply) /\ Strict(Pool_supplyWithPermit)
    /\ Strict(Pool_borrow) /\ Strict(LendingPool_deposit) /\ Strict(LendingPool_borrow)
    /\ Strict(Pool_swapCollateral) /\ Strict(LendingPool_swapCollateral)
    /\ Strict(Pool_paraswapRepayWithCollateral) /\ Strict(LendingPool_paraswapRepayWithCollateral)
    /\ Strict(LendingPool_repayWithCollateral)
BY DEF Strict, Method, Pool_deposit, Pool_supply, Pool_supplyWithPermit, Pool_borrow,
  LendingPool_deposit, LendingPool_borrow,
  Pool_swapCollateral, LendingPool_swapCollateral, Pool_paraswapRepayWithCollateral,
    LendingPool_paraswapRepayWithCollateral,
  LendingPool_repayWithCollateral, ReserveChecks, BorrowChecks, SwapChecks, ParaswapChecks,
    isBnbAddress, isPositiveAmount

\* The methods that take all of a balance for an amount.
LEMMA AmountOnlyMethods ==
    /\ AmountOnly(Pool_withdraw) /\ AmountOnly(Pool_repay) /\ AmountOnly(Pool_repayWithPermit)
    /\ AmountOnly(Pool_supplyWithPermit)
    /\ AmountOnly(LendingPool_withdraw) /\ AmountOnly(LendingPool_repay)
BY DEF AmountOnly, Method, Pool_withdraw, Pool_repay, Pool_repayWithPermit, LendingPool_withdraw,
  LendingPool_repay,
   Pool_supplyWithPermit, ReserveChecks, RepayChecks, isBnbAddress, isPositiveAmount,
     isPositiveOrMinusOneAmount

\* The elements of two tuples put together.
LEMMA TwoThenOne ==
    ASSUME NEW a, NEW b, NEW c, NEW s, s = <<a, b>> \o <<c>>
    PROVE  \A i \in DOMAIN s : s[i] \in {a, b, c}
OBVIOUS

\* The same with one more.
LEMMA TwoThenTwo ==
    ASSUME NEW a, NEW b, NEW c, NEW d, NEW s, s = <<a, b>> \o <<c, d>>
    PROVE  \A i \in DOMAIN s : s[i] \in {a, b, c, d}
OBVIOUS

\* The routes of Pool.
LEMMA PoolRoutes ==
    /\ Routed("Pool_deposit", Pool_deposit)
    /\ Routed("Pool_supply", Pool_supply)
    /\ Routed("Pool_supplyWithPermit", Pool_supplyWithPermit)
    /\ Routed("Pool_withdraw", Pool_withdraw)
    /\ Routed("Pool_borrow", Pool_borrow)
    /\ Routed("Pool_repay", Pool_repay)
    /\ Routed("Pool_repayWithPermit", Pool_repayWithPermit)
    /\ Routed("Pool_repayWithLBTokens", Pool_repayWithLBTokens)
    /\ Routed("Pool_swapBorrowRateMode", Pool_swapBorrowRateMode)
    /\ Routed("Pool_setUsageAsCollateral", Pool_setUsageAsCollateral)
    /\ Routed("Pool_liquidationCall", Pool_liquidationCall)
    /\ Routed("Pool_swapCollateral", Pool_swapCollateral)
    /\ Routed("Pool_paraswapRepayWithCollateral", Pool_paraswapRepayWithCollateral)
<1>1. Routed("Pool_deposit", Pool_deposit)
  <2>1. Pool_deposit.routes = <<DepositNative("POOL")>>
    BY DEF Pool_deposit, Method
  <2>2. {"user", "amount", "onBehalfOf", "referralCode"} \subseteq Own(Pool_deposit)
    BY DEF Pool_deposit, Method, Own
  <2> QED
    BY <2>1, <2>2, StrictMethods, DepositNativeSound DEF Routed, Pools
<1>2. Routed("Pool_supply", Pool_supply)
  <2> DEFINE m == Pool_supply
  <2>1. /\ m.routes = <<DepositNative("POOL"), m.routes[2]>> /\ m.routes[2].to \in Free
        /\ {"user", "amount", "onBehalfOf", "referralCode"} \subseteq Own(m)
    BY DEF Pool_supply, Method, Own, HandsOver, Free
  <2>3. Sound("Pool_supply", m, m.routes[1]) /\ Sound("Pool_supply", m, m.routes[2])
    BY <2>1, StrictMethods, DepositNativeSound, FreeSound DEF Pools
  <2> QED
    BY <2>1, <2>3 DEF Routed
<1>3. Routed("Pool_supplyWithPermit", Pool_supplyWithPermit)
  <2> DEFINE m == Pool_supplyWithPermit
  <2>1. /\ m.routes = <<m.routes[1]>> /\ m.routes[1].to = "L2Pool_supplyWithPermit"
        /\ m.routes[1].with["deadline"] = Given("deadline") /\ "deadline" \in Own(m)
    BY DEF Pool_supplyWithPermit, Method, Own, HandsOver, Pass, ++, InUnits, SignatureParts
  <2>2. \A i \in DOMAIN m.routes : Sound("Pool_supplyWithPermit", m, m.routes[i])
    BY <2>1, AmountOnlyMethods, PermitSound DEF Pools
  <2> QED
    BY <2>2 DEF Routed
<1>4. Routed("Pool_withdraw", Pool_withdraw)
  <2> DEFINE m == Pool_withdraw
             native == WithdrawNative("POOL")
             optimized == HandsOver(Optimized, "L2Pool_withdraw",
                                      Pass({"user", "reserve"}) ++ WhollyInUnits)
  <2>1. m.routes = native \o <<optimized>>
    BY DEF Pool_withdraw, Method
  <2>2. native = <<native[1], native[2]>>
    BY DEF WithdrawNative
  <2>3. optimized.to \in Free
    BY DEF HandsOver, Free
  <2>4. {"user", "reserve", "amount", "onBehalfOf", "lbTokenAddress"} \subseteq Own(m)
    BY DEF Pool_withdraw, Method, Own
  <2>5. Sound("Pool_withdraw", m, native[1]) /\ Sound("Pool_withdraw", m, native[2])
    BY <2>4, AmountOnlyMethods, WithdrawNativeSound DEF Pools
  <2>6. Sound("Pool_withdraw", m, optimized)
    BY <2>3, FreeSound
  <2> HIDE DEF native, optimized
  <2> QED
    BY <2>1, <2>2, <2>5, <2>6, TwoThenOne DEF Routed
<1>5. Routed("Pool_borrow", Pool_borrow)
  <2> DEFINE m == Pool_borrow
             native == BorrowNative("POOL")
             optimized == HandsOver(Optimized, "L2Pool_borrow",
                                    Pass({"user", "reserve", "referralCode"}) ++ InUnits
                                        ++ Numeric("interestRateMode"))
  <2>1. m.routes = native \o <<optimized>>
    BY DEF Pool_borrow, Method
  <2>2. native = <<native[1], native[2]>>
    BY DEF BorrowNative
  <2>3. optimized.to \in Free
    BY DEF HandsOver, Free
  <2>4. {"user", "reserve", "amount", "debtTokenAddress", "interestRateMode",
          "referralCode"} \subseteq Own(m)
    BY DEF Pool_borrow, Method, Own
  <2>5. Sound("Pool_borrow", m, native[1]) /\ Sound("Pool_borrow", m, native[2])
    BY <2>4, StrictMethods, BorrowNativeSound DEF Pools
  <2>6. Sound("Pool_borrow", m, optimized)
    BY <2>3, FreeSound
  <2> HIDE DEF native, optimized
  <2> QED
    BY <2>1, <2>2, <2>5, <2>6, TwoThenOne DEF Routed
<1>6. Routed("Pool_repay", Pool_repay)
  <2> DEFINE m == Pool_repay
  <2>1. /\ m.routes = <<RepayNative("POOL"), m.routes[2]>> /\ m.routes[2].to \in Free
        /\ {"user", "reserve", "amount", "interestRateMode", "onBehalfOf"} \subseteq Own(m)
    BY DEF Pool_repay, Method, Own, HandsOver, Free
  <2>2. \A i \in DOMAIN m.routes : Sound("Pool_repay", m, m.routes[i])
    BY <2>1, AmountOnlyMethods, RepayNativeSound, FreeSound DEF Pools
  <2> QED
    BY <2>2 DEF Routed
<1>7. Routed("Pool_repayWithPermit", Pool_repayWithPermit)
  <2> DEFINE m == Pool_repayWithPermit
  <2>1. /\ m.routes = <<m.routes[1]>> /\ m.routes[1].to = "L2Pool_repayWithPermit"
        /\ m.routes[1].with["deadline"] = Given("deadline") /\ "deadline" \in Own(m)
    BY DEF Pool_repayWithPermit, Method, Own, HandsOver, Pass, ++, WhollyInUnits, Numeric,
      SignatureParts
  <2>2. \A i \in DOMAIN m.routes : Sound("Pool_repayWithPermit", m, m.routes[i])
    BY <2>1, AmountOnlyMethods, PermitSound DEF Pools
  <2> QED
    BY <2>2 DEF Routed
<1>8. Routed("Pool_repayWithLBTokens", Pool_repayWithLBTokens)
  <2> DEFINE m == Pool_repayWithLBTokens
             refusal == Refuses({Native("reserve")})
  <2>1. m.routes = <<refusal, m.routes[2]>> /\ m.routes[2].to \in Free /\ "reserve" \in Own(m)
    BY DEF Pool_repayWithLBTokens, Method, Own, HandsOver, Free
  <2>2. Sound("Pool_repayWithLBTokens", m, refusal)
    BY <2>1 DEF Sound, Limits, ForNative, Refuses, HandsOver
  <2> HIDE DEF refusal
  <2> QED
    BY <2>1, <2>2, FreeSound DEF Routed
<1>9. Routed("Pool_swapBorrowRateMode", Pool_swapBorrowRateMode)
  <2> DEFINE m == Pool_swapBorrowRateMode
  <2>1. m.routes = <<m.routes[1]>> /\ m.routes[1].to \in Free
    BY DEF Pool_swapBorrowRateMode, Method, Own, HandsOver, Free
  <2>2. \A i \in DOMAIN m.routes : Sound("Pool_swapBorrowRateMode", m, m.routes[i])
    BY <2>1, FreeSound DEF Pools
  <2> QED
    BY <2>2 DEF Routed
<1>10. Routed("Pool_setUsageAsCollateral", Pool_setUsageAsCollateral)
  <2> DEFINE m == Pool_setUsageAsCollateral
  <2>1. m.routes = <<m.routes[1]>> /\ m.routes[1].to \in Free
    BY DEF Pool_setUsageAsCollateral, Method, Own, HandsOver, Free
  <2>2. \A i \in DOMAIN m.routes : Sound("Pool_setUsageAsCollateral", m, m.routes[i])
    BY <2>1, FreeSound DEF Pools
  <2> QED
    BY <2>2 DEF Routed
<1>11. Routed("Pool_liquidationCall", Pool_liquidationCall)
  <2> DEFINE m == Pool_liquidationCall
  <2>1. m.routes = <<m.routes[1]>> /\ m.routes[1].to \in Free
    BY DEF Pool_liquidationCall, Method, Own, HandsOver, Free
  <2>2. \A i \in DOMAIN m.routes : Sound("Pool_liquidationCall", m, m.routes[i])
    BY <2>1, FreeSound DEF Pools
  <2> QED
    BY <2>2 DEF Routed
<1>12. Routed("Pool_swapCollateral", Pool_swapCollateral)
  <2> DEFINE m == Pool_swapCollateral
  <2>1. /\ m.routes = <<SwapDirectly>>
        /\ {"user", "swapAll", "swapCallData", "augustus", "fromAsset", "toAsset", "fromAmount",
             "minToAmount"} \subseteq Own(m)
    BY DEF Pool_swapCollateral, Method, Own, HandsOver, SwapRequired
  <2>2. \A i \in DOMAIN m.routes : Sound("Pool_swapCollateral", m, m.routes[i])
    BY <2>1, StrictMethods, SwapDirectlySound DEF Pools
  <2> QED
    BY <2>2 DEF Routed
<1>13. Routed("Pool_paraswapRepayWithCollateral", Pool_paraswapRepayWithCollateral)
  <2> DEFINE m == Pool_paraswapRepayWithCollateral
  <2>1. /\ m.routes = <<RepayDirectly>>
        /\ {"user", "augustus", "fromAsset", "assetToRepay", "repayWithAmount",
             "repayAmount"} \subseteq Own(m)
    BY DEF Pool_paraswapRepayWithCollateral, Method, Own, HandsOver, ParaswapRequired
  <2>2. \A i \in DOMAIN m.routes : Sound("Pool_paraswapRepayWithCollateral", m, m.routes[i])
    BY <2>1, StrictMethods, RepayDirectlySound DEF Pools
  <2> QED
    BY <2>2 DEF Routed
<1> QED
  BY <1>1, <1>2, <1>3, <1>4, <1>5, <1>6, <1>7, <1>8, <1>9, <1>10, <1>11, <1>12, <1>13

\* The routes of LendingPool.
LEMMA LendingPoolRoutes ==
    /\ Routed("LendingPool_deposit", LendingPool_deposit)
    /\ Routed("LendingPool_withdraw", LendingPool_withdraw)
    /\ Routed("LendingPool_borrow", LendingPool_borrow)
    /\ Routed("LendingPool_repay", LendingPool_repay)
    /\ Routed("LendingPool_swapCollateral", LendingPool_swapCollateral)
    /\ Routed("LendingPool_repayWithCollateral", LendingPool_repayWithCollateral)
    /\ Routed("LendingPool_paraswapRepayWithCollateral", LendingPool_paraswapRepayWithCollateral)
<1>1. Routed("LendingPool_deposit", LendingPool_deposit)
  <2> DEFINE m == LendingPool_deposit
  <2>1. /\ m.routes = <<DepositNative("LENDING_POOL")>>
        /\ {"user", "amount", "onBehalfOf", "referralCode"} \subseteq Own(m)
    BY DEF LendingPool_deposit, Method, Own, HandsOver
  <2>2. \A i \in DOMAIN m.routes : Sound("LendingPool_deposit", m, m.routes[i])
    BY <2>1, StrictMethods, DepositNativeSound DEF Pools
  <2> QED
    BY <2>2 DEF Routed
<1>2. Routed("LendingPool_withdraw", LendingPool_withdraw)
  <2> DEFINE m == LendingPool_withdraw
  <2>1. /\ m.routes = <<WithdrawNative("LENDING_POOL")[1], WithdrawNative("LENDING_POOL")[2]>>
        /\ {"user", "reserve", "amount", "onBehalfOf", "lbTokenAddress"} \subseteq Own(m)
    BY DEF LendingPool_withdraw, Method, Own, HandsOver, WithdrawNative
  <2>2. \A i \in DOMAIN m.routes : Sound("LendingPool_withdraw", m, m.routes[i])
    BY <2>1, AmountOnlyMethods, WithdrawNativeSound DEF Pools
  <2> QED
    BY <2>2 DEF Routed
<1>3. Routed("LendingPool_borrow", LendingPool_borrow)
  <2> DEFINE m == LendingPool_borrow
  <2>1. /\ m.routes = <<BorrowNative("LENDING_POOL")[1], BorrowNative("LENDING_POOL")[2]>>
        /\ {"user", "reserve", "amount", "debtTokenAddress", "interestRateMode",
             "referralCode"} \subseteq Own(m)
    BY DEF LendingPool_borrow, Method, Own, HandsOver, BorrowNative
  <2>2. \A i \in DOMAIN m.routes : Sound("LendingPool_borrow", m, m.routes[i])
    BY <2>1, StrictMethods, BorrowNativeSound DEF Pools
  <2> QED
    BY <2>2 DEF Routed
<1>4. Routed("LendingPool_repay", LendingPool_repay)
  <2> DEFINE m == LendingPool_repay
  <2>1. /\ m.routes = <<RepayNative("LENDING_POOL")>>
        /\ {"user", "reserve", "amount", "interestRateMode", "onBehalfOf"} \subseteq Own(m)
    BY DEF LendingPool_repay, Method, Own, HandsOver
  <2>2. \A i \in DOMAIN m.routes : Sound("LendingPool_repay", m, m.routes[i])
    BY <2>1, AmountOnlyMethods, RepayNativeSound DEF Pools
  <2> QED
    BY <2>2 DEF Routed
<1>5. Routed("LendingPool_swapCollateral", LendingPool_swapCollateral)
  <2> DEFINE m == LendingPool_swapCollateral
  <2>1. /\ m.routes = <<SwapDirectly>>
        /\ {"user", "swapAll", "swapCallData", "augustus", "fromAsset", "toAsset", "fromAmount",
             "minToAmount"} \subseteq Own(m)
    BY DEF LendingPool_swapCollateral, Method, Own, HandsOver, SwapRequired
  <2>2. \A i \in DOMAIN m.routes : Sound("LendingPool_swapCollateral", m, m.routes[i])
    BY <2>1, StrictMethods, SwapDirectlySound DEF Pools
  <2> QED
    BY <2>2 DEF Routed
<1>6. Routed("LendingPool_repayWithCollateral", LendingPool_repayWithCollateral)
  <2> DEFINE m == LendingPool_repayWithCollateral
  <2>1. /\ m.routes = <<m.routes[1]>>
        /\ {"user", "fromAsset", "assetToRepay", "repayWithAmount", "repayAmount"} \subseteq Own(m)
    BY DEF LendingPool_repayWithCollateral, Method, Own, HandsOver
  <2>2. \A i \in DOMAIN m.routes : Sound("LendingPool_repayWithCollateral", m, m.routes[i])
    BY <2>1, StrictMethods, RepayWithCollateralSound DEF Pools
  <2> QED
    BY <2>2 DEF Routed
<1>7. Routed("LendingPool_paraswapRepayWithCollateral", LendingPool_paraswapRepayWithCollateral)
  <2> DEFINE m == LendingPool_paraswapRepayWithCollateral
  <2>1. /\ m.routes = <<RepayDirectly>>
        /\ {"user", "augustus", "fromAsset", "assetToRepay", "repayWithAmount",
             "repayAmount"} \subseteq Own(m)
    BY DEF LendingPool_paraswapRepayWithCollateral, Method, Own, HandsOver, ParaswapRequired
  <2>2. \A i \in DOMAIN m.routes : Sound("LendingPool_paraswapRepayWithCollateral", m, m.routes[i])
    BY <2>1, StrictMethods, RepayDirectlySound DEF Pools
  <2> QED
    BY <2>2 DEF Routed
<1> QED
  BY <1>1, <1>2, <1>3, <1>4, <1>5, <1>6, <1>7

\* The routes of the bundles.
LEMMA BundleRoutes ==
    /\ Routed("PoolBundle_getApprovedAmount", PoolBundle_getApprovedAmount)
    /\ Routed("PoolBundle_supply_generateTxData", PoolBundle_supply_generateTxData)
    /\ Routed("PoolBundle_supply_generateSignedTxData", PoolBundle_supply_generateSignedTxData)
    /\ Routed("PoolBundle_borrow_generateTxData", PoolBundle_borrow_generateTxData)
    /\ Routed("LendingPoolBundle_getApprovedAmount", LendingPoolBundle_getApprovedAmount)
    /\ Routed("LendingPoolBundle_deposit_generateTxData", LendingPoolBundle_deposit_generateTxData)
    /\ Routed("LendingPoolBundle_borrow_generateTxData", LendingPoolBundle_borrow_generateTxData)
<1>1. Routed("PoolBundle_getApprovedAmount", PoolBundle_getApprovedAmount)
  <2> DEFINE m == PoolBundle_getApprovedAmount
  <2>1. /\ m.routes = <<Allowance("POOL")[1], Allowance("POOL")[2]>> /\ m.checks = {}
        /\ {"user", "token"} \subseteq Own(m)
    BY DEF PoolBundle_getApprovedAmount, Method, Own, HandsOver, Allowance
  <2>2. \A i \in DOMAIN m.routes : Sound("PoolBundle_getApprovedAmount", m, m.routes[i])
    BY <2>1, AllowanceSound DEF Pools
  <2> QED
    BY <2>2 DEF Routed
<1>2. Routed("PoolBundle_supply_generateTxData", PoolBundle_supply_generateTxData)
  <2> DEFINE m == PoolBundle_supply_generateTxData
  <2>1. /\ m.routes = <<m.routes[1], m.routes[2], m.routes[3]>>
        /\ m.routes[1].to \in Free /\ m.routes[2].to \in Free /\ m.routes[3].to \in Free
    BY DEF PoolBundle_supply_generateTxData, Method, Own, HandsOver, Free, GenerateDepositNative
  <2>2. \A i \in DOMAIN m.routes : Sound("PoolBundle_supply_generateTxData", m, m.routes[i])
    BY <2>1, FreeSound DEF Pools
  <2> QED
    BY <2>2 DEF Routed
<1>3. Routed("PoolBundle_supply_generateSignedTxData", PoolBundle_supply_generateSignedTxData)
  <2> DEFINE m == PoolBundle_supply_generateSignedTxData
  <2>1. /\ m.routes = <<m.routes[1], m.routes[2]>>
        /\ m.routes[1].to \in Free /\ m.routes[2].to \in Free
    BY DEF PoolBundle_supply_generateSignedTxData, Method, Own, HandsOver, Free
  <2>2. \A i \in DOMAIN m.routes : Sound("PoolBundle_supply_generateSignedTxData", m, m.routes[i])
    BY <2>1, FreeSound DEF Pools
  <2> QED
    BY <2>2 DEF Routed
<1>4. Routed("PoolBundle_borrow_generateTxData", PoolBundle_borrow_generateTxData)
  <2> DEFINE m == PoolBundle_borrow_generateTxData
             native == GenerateBorrowNative("POOL")
             encoded == HandsOver(Encoded, "L2Pool_generateEncodedBorrowTxData",
                                  Pass({"user", "encodedTxData"}))
             optimized == HandsOver(Optimized, "L2Pool_generateBorrowTxData",
                                    Pass({"user", "reserve", "amount"})
                                      ++ Numeric("interestRateMode")
                                        ++ [onBehalfOf |-> Behalf, referralCode |-> Referral])
  <2>1. m.routes = native \o <<encoded, optimized>>
    BY DEF PoolBundle_borrow_generateTxData, Method
  <2>2. native = <<native[1], native[2]>>
    BY DEF GenerateBorrowNative
  <2>3. encoded.to \in Free /\ optimized.to \in Free
    BY DEF HandsOver, Free
  <2>4. {"reserve", "debtTokenAddress"} \subseteq Own(m)
    BY DEF PoolBundle_borrow_generateTxData, Method, Own
  <2>5. /\ Sound("PoolBundle_borrow_generateTxData", m, native[1])
        /\ Sound("PoolBundle_borrow_generateTxData", m, native[2])
    BY <2>4, GenerateBorrowNativeSound
  <2>6. /\ Sound("PoolBundle_borrow_generateTxData", m, encoded)
        /\ Sound("PoolBundle_borrow_generateTxData", m, optimized)
    BY <2>3, FreeSound
  <2> HIDE DEF native, encoded, optimized
  <2>7. m.routes = <<native[1], native[2]>> \o <<encoded, optimized>>
    BY <2>1, <2>2
  <2> HIDE DEF m
  <2>8. \A i \in DOMAIN m.routes : m.routes[i] \in {native[1], native[2], encoded, optimized}
    BY <2>7, TwoThenTwo
  <2> QED
    BY <2>5, <2>6, <2>8 DEF Routed, m
<1>5. Routed("LendingPoolBundle_getApprovedAmount", LendingPoolBundle_getApprovedAmount)
  <2> DEFINE m == LendingPoolBundle_getApprovedAmount
  <2>1. /\ m.routes = <<Allowance("LENDING_POOL")[1], Allowance("LENDING_POOL")[2]>>
        /\ m.checks = {}
        /\ {"user", "token"} \subseteq Own(m)
    BY DEF LendingPoolBundle_getApprovedAmount, Method, Own, HandsOver, Allowance
  <2>2. \A i \in DOMAIN m.routes : Sound("LendingPoolBundle_getApprovedAmount", m, m.routes[i])
    BY <2>1, AllowanceSound DEF Pools
  <2> QED
    BY <2>2 DEF Routed
<1>6. Routed("LendingPoolBundle_deposit_generateTxData", LendingPoolBundle_deposit_generateTxData)
  <2> DEFINE m == LendingPoolBundle_deposit_generateTxData
  <2>1. m.routes = <<m.routes[1]>> /\ m.routes[1].to \in Free
    BY DEF LendingPoolBundle_deposit_generateTxData, Method, Own, HandsOver, Free
  <2>2. \A i \in DOMAIN m.routes : Sound("LendingPoolBundle_deposit_generateTxData", m, m.routes[i])
    BY <2>1, FreeSound DEF Pools
  <2> QED
    BY <2>2 DEF Routed
<1>7. Routed("LendingPoolBundle_borrow_generateTxData", LendingPoolBundle_borrow_generateTxData)
  <2> DEFINE m == LendingPoolBundle_borrow_generateTxData
  <2>1. /\ m.routes = <<GenerateBorrowNative("LENDING_POOL")[1],
                       GenerateBorrowNative("LENDING_POOL")[2]>>
        /\ {"reserve", "debtTokenAddress"} \subseteq Own(m)
    BY DEF LendingPoolBundle_borrow_generateTxData, Method, Own, HandsOver, GenerateBorrowNative
  <2>2. \A i \in DOMAIN m.routes : Sound("LendingPoolBundle_borrow_generateTxData", m, m.routes[i])
    BY <2>1, GenerateBorrowNativeSound DEF Pools
  <2> QED
    BY <2>2 DEF Routed
<1> QED
  BY <1>1, <1>2, <1>3, <1>4, <1>5, <1>6, <1>7

\* The questions about the native asset that are answered without a contract,
\* and the gateway.
LEMMA OtherRoutes ==
    /\ Routed("WBNBGateway_borrowBNB", WBNBGateway_borrowBNB)
    /\ Routed("ERC20_isApproved", ERC20_isApproved)
    /\ Routed("ERC20_approvedAmount", ERC20_approvedAmount)
<1>1. Routed("WBNBGateway_borrowBNB", WBNBGateway_borrowBNB)
  <2> DEFINE refusal == Refuses({Without(Debt)})
  <2>1. WBNBGateway_borrowBNB.routes = <<refusal>> /\ Debt \in Own(WBNBGateway_borrowBNB)
    BY TargetChecks DEF Debt
  <2>2. Sound("WBNBGateway_borrowBNB", WBNBGateway_borrowBNB, refusal)
    BY <2>1 DEF Sound, Limits, Refuses, HandsOver
  <2> HIDE DEF refusal
  <2> QED
    BY <2>1, <2>2 DEF Routed
<1>2. Routed("ERC20_isApproved", ERC20_isApproved)
  <2> DEFINE answer == Answers({Native("token")})
  <2>1. ERC20_isApproved.routes = <<answer>>
    BY DEF ERC20_isApproved, Method
  <2>2. Sound("ERC20_isApproved", ERC20_isApproved, answer)
    BY DEF Sound, Answers, HandsOver
  <2> HIDE DEF answer
  <2> QED
    BY <2>1, <2>2 DEF Routed
<1>3. Routed("ERC20_approvedAmount", ERC20_approvedAmount)
  <2> DEFINE answer == Answers({Native("token")})
  <2>1. ERC20_approvedAmount.routes = <<answer>>
    BY DEF ERC20_approvedAmount, Method
  <2>2. Sound("ERC20_approvedAmount", ERC20_approvedAmount, answer)
    BY DEF Sound, Answers, HandsOver
  <2> HIDE DEF answer
  <2> QED
    BY <2>1, <2>2 DEF Routed
<1> QED
  BY <1>1, <1>2, <1>3

-----------------------------------------------------------------------------
\* The rows, service by service.
L2PoolMethods ==
    {"L2Pool_supply", "L2Pool_supplyWithPermit", "L2Pool_withdraw", "L2Pool_borrow",
     "L2Pool_repay", "L2Pool_repayWithPermit", "L2Pool_repayWithLBTokens",
     "L2Pool_swapBorrowRateMode", "L2Pool_setUserUseReserveAsCollateral",
     "L2Pool_liquidationCall", "L2Pool_generateSupplyTxData", "L2Pool_generateBorrowTxData",
     "L2Pool_generateSupplyWithPermitTxData", "L2Pool_generateEncodedSupplyTxData",
     "L2Pool_generateEncodedBorrowTxData", "L2Pool_generateEncodedSupplyWithPermitTxData"}

\* The rows of L2Pool.
LEMMA L2PoolRows == \A name \in L2PoolMethods : Row(name, Methods[name])
<1> USE DEF WellMade, Plain, Kinds, Function, View, isDeadline32Bytes, Runs, Method, Pays, Sends
<1>1. Plain(L2Pool_supply)
  BY DEF L2Encoder_encodeSupplyParams, IL2Pool_supply, L2PValidator, Words, Encodes, L2Pool_supply
<1>2. Plain(L2Pool_supplyWithPermit)
  BY DEF L2Encoder_encodeSupplyWithPermitParams, IL2Pool_supplyWithPermit, L2PValidator, Words,
         Encodes, Permit, PermitArgs, L2Pool_supplyWithPermit
<1>3. Plain(L2Pool_withdraw)
  BY DEF L2Encoder_encodeWithdrawParams, IL2Pool_withdraw, L2PValidator, Words, Encodes,
         L2Pool_withdraw
<1>4. Plain(L2Pool_borrow)
  BY DEF L2Encoder_encodeBorrowParams, IL2Pool_borrow, L2PValidator, Words, Encodes, L2Pool_borrow
<1>5. Plain(L2Pool_repay)
  BY DEF L2Encoder_encodeRepayParams, IL2Pool_repay, L2PValidator, Words, Encodes, RepayArgs,
         L2Pool_repay
<1>6. Plain(L2Pool_repayWithPermit)
  BY DEF L2Encoder_encodeRepayWithPermitParams, IL2Pool_repayWithPermit, L2PValidator, Words,
         Encodes, Permit, PermitArgs, RepayArgs, L2Pool_repayWithPermit
<1>7. Plain(L2Pool_repayWithLBTokens)
  BY DEF L2Encoder_encodeRepayWithLBTokensParams, IL2Pool_repayWithLBTokens, L2PValidator, Words,
         Encodes, RepayArgs, L2Pool_repayWithLBTokens
<1>8. Plain(L2Pool_swapBorrowRateMode)
  BY DEF L2Encoder_encodeSwapBorrowRateMode, IL2Pool_swapBorrowRateMode, L2PValidator, Words,
         Encodes, L2Pool_swapBorrowRateMode
<1>9. Plain(L2Pool_setUserUseReserveAsCollateral)
  BY DEF L2Encoder_encodeSetUserUseReserveAsCollateral, IL2Pool_setUserUseReserveAsCollateral,
         L2PValidator, Words, Encodes, L2Pool_setUserUseReserveAsCollateral
<1>10. Plain(L2Pool_liquidationCall)
  BY DEF L2Encoder_encodeLiquidationCall, IL2Pool_liquidationCall, L2PValidator, Words, Encodes,
         L2Pool_liquidationCall
<1>11. Plain(L2Pool_generateSupplyTxData)
  BY DEF IPool_supply, Unchecked, Builds, L2Pool_generateSupplyTxData
<1>12. Plain(L2Pool_generateBorrowTxData)
  BY DEF IPool_borrow, Unchecked, Builds, L2Pool_generateBorrowTxData
<1>13. Plain(L2Pool_generateSupplyWithPermitTxData)
  BY DEF IPool_supplyWithPermit, Unchecked, Permit, PermitArgs, Builds,
         L2Pool_generateSupplyWithPermitTxData
<1>14. Plain(L2Pool_generateEncodedSupplyTxData)
  BY DEF IL2Pool_supply, Unchecked, Builds, L2Pool_generateEncodedSupplyTxData
<1>15. Plain(L2Pool_generateEncodedBorrowTxData)
  BY DEF IL2Pool_borrow, Unchecked, Builds, L2Pool_generateEncodedBorrowTxData
<1>16. Plain(L2Pool_generateEncodedSupplyWithPermitTxData)
  BY DEF IL2Pool_supplyWithPermit, Unchecked, Builds, L2Pool_generateEncodedSupplyWithPermitTxData
<1> HIDE DEF WellMade, Plain
<1> QED
  BY L2PoolTable, <1>1, <1>2, <1>3, <1>4, <1>5, <1>6, <1>7, <1>8, <1>9, <1>10, <1>11, <1>12,
     <1>13, <1>14, <1>15, <1>16, PlainRow DEF Row, L2PoolMethods

AdapterMethods ==
    {"WBNBGateway_depositBNB", "WBNBGateway_borrowBNB", "WBNBGateway_withdrawBNB",
     "WBNBGateway_repayBNB", "WBNBGateway_generateDepositEthTxData",
     "WBNBGateway_generateBorrowEthTxData", "LiquiditySwapAdapter_swapAndDeposit",
     "ParaswapRepay_swapAndRepay", "RepayWithCollateralAdapter_swapAndRepay"}

\* The rows of the gateway and of the adapters.
LEMMA AdapterRows == \A name \in AdapterMethods : Row(name, Methods[name])
<1> USE DEF WellMade, Plain, Kinds, Function, Payable, isBnbAddress, isPositiveAmount,
           is0OrPositiveAmount, isPositiveOrMinusOneAmount, Runs, Method, Pays, Sends
<1>1. Plain(WBNBGateway_depositBNB)
  BY DEF IWBNBGateway_depositBNB, Amounts, WBNBValidator, WBNBGateway_depositBNB
<1>2. WellMade(WBNBGateway_borrowBNB)
  BY DEF IWBNBGateway_borrowBNB, Amounts, WBNBValidator, WBNBGateway_borrowBNB
<1>3. Plain(WBNBGateway_withdrawBNB)
  BY DEF IWBNBGateway_withdrawBNB, Amounts, WBNBValidator, WBNBGateway_withdrawBNB
<1>4. Plain(WBNBGateway_repayBNB)
  BY DEF IWBNBGateway_repayBNB, Amounts, WBNBValidator, WBNBGateway_repayBNB
<1>5. Plain(WBNBGateway_generateDepositEthTxData)
  BY DEF IWBNBGateway_depositBNB, Unchecked, WBNBGateway_generateDepositEthTxData
<1>6. Plain(WBNBGateway_generateBorrowEthTxData)
  BY DEF IWBNBGateway_borrowBNB, Unchecked, WBNBGateway_generateBorrowEthTxData
<1>7. Plain(LiquiditySwapAdapter_swapAndDeposit)
  BY DEF LiquiditySwap_swapAndDeposit, LiquiditySwapValidator, LiquiditySwapAdapter_swapAndDeposit
<1>8. Plain(ParaswapRepay_swapAndRepay)
  BY DEF ParaSwapRepay_swapAndRepay, RepayWithCollateralValidator, ParaswapRepay_swapAndRepay
<1>9. Plain(RepayWithCollateralAdapter_swapAndRepay)
  BY DEF RepayWithCollateral_swapAndRepay, RepayWithCollateralValidator,
         RepayWithCollateralAdapter_swapAndRepay
<1> HIDE DEF WellMade, Plain
<1> QED
  BY AdapterTable, <1>1, <1>2, <1>3, <1>4, <1>5, <1>6, <1>7, <1>8, <1>9, PlainRow, OtherRoutes
     DEF Row, AdapterMethods

PoolMethodNames ==
    {"Pool_deposit", "Pool_supply", "Pool_supplyWithPermit", "Pool_withdraw", "Pool_borrow",
     "Pool_repay", "Pool_repayWithPermit", "Pool_repayWithLBTokens", "Pool_swapBorrowRateMode",
     "Pool_setUsageAsCollateral", "Pool_setUserEMode", "Pool_liquidationCall",
     "Pool_swapCollateral", "Pool_paraswapRepayWithCollateral", "Pool_flashLiquidation",
     "Pool_migrateV3"}

\* The rows of Pool.
LEMMA PoolRows == \A name \in PoolMethodNames : Row(name, Methods[name])
<1> USE DEF WellMade, Plain, Kinds, Function, isBnbAddress, isBnbAddressArray, isPositiveAmount,
           is0OrPositiveAmount, isPositiveOrMinusOneAmount, Runs, Method, Pays, Sends
<1>1. WellMade(Pool_deposit)
  BY DEF IPool_deposit, Amounts, LPValidatorV3, ReserveChecks, PaysPool, DepositNative,
         SupplyArgs, Pool_deposit
<1>2. WellMade(Pool_supply)
  BY DEF IPool_supply, Amounts, LPValidatorV3, ReserveChecks, PaysPool, DepositNative, SupplyArgs,
         Pool_supply
<1>3. WellMade(Pool_supplyWithPermit)
  BY DEF IPool_supplyWithPermit, Amounts, LPValidatorV3, ReserveChecks, InPool, SignatureArgs,
         SupplyArgs, Pool_supplyWithPermit
<1>4. WellMade(Pool_withdraw)
  BY DEF IPool_withdraw, Amounts, LPValidatorV3, ReserveChecks, InPool, WithdrawNative,
         Pool_withdraw
<1>5. WellMade(Pool_borrow)
  BY DEF IPool_borrow, Amounts, LPValidatorV3, ReserveChecks, InPool, BorrowNative, BorrowChecks,
         Pool_borrow
<1>6. WellMade(Pool_repay)
  BY DEF IPool_repay, Amounts, LPValidatorV3, ReserveChecks, PaysPool, RepayNative, PoolRepayArgs,
         RepayChecks, Pool_repay
<1>7. WellMade(Pool_repayWithPermit)
  BY DEF IPool_repayWithPermit, Amounts, LPValidatorV3, ReserveChecks, PaysPool, SignatureArgs,
         PoolRepayArgs, RepayChecks, Pool_repayWithPermit
<1>8. WellMade(Pool_repayWithLBTokens)
  BY DEF IPool_repayWithLBTokens, Amounts, LPValidatorV3, ReserveChecks, PaysPool, PoolRepayArgs,
         Pool_repayWithLBTokens
<1>9. WellMade(Pool_swapBorrowRateMode)
  BY DEF IPool_swapBorrowRateMode, Amounts, LPValidatorV3, ReserveChecks, InPool,
         Pool_swapBorrowRateMode
<1>10. WellMade(Pool_setUsageAsCollateral)
  BY DEF IPool_setUserUseReserveAsCollateral, Amounts, LPValidatorV3, ReserveChecks, InPool,
         Pool_setUsageAsCollateral
<1>11. Plain(Pool_setUserEMode)
  BY DEF IPool_setUserEMode, Amounts, LPValidatorV3, InPool, Pool_setUserEMode
<1>12. WellMade(Pool_liquidationCall)
  BY DEF IPool_liquidationCall, Amounts, LPValidatorV3, PaysPool, LiquidationChecks,
         LiquidationArgs, Pool_liquidationCall
<1>13. WellMade(Pool_swapCollateral)
  BY DEF IPool_flashLoanSimple, LPSwapCollateralValidatorV3, InPool, SwapChecks, SwapRequired,
         SwapDirectly, Pool_swapCollateral
<1>14. WellMade(Pool_paraswapRepayWithCollateral)
  BY DEF IPool_flashLoanSimple, LPRepayWithCollateralValidatorV3, InPool, ParaswapChecks,
         ParaswapRequired, RepayDirectly, Pool_paraswapRepayWithCollateral
<1>15. Plain(Pool_flashLiquidation)
  BY DEF IPool_flashLoanSimple, LPFlashLiquidationValidatorV3, InPool, FlashLiquidationChecks,
         FlashLiquidationRequired, Pool_flashLiquidation
<1>16. Plain(Pool_migrateV3)
  BY DEF IPool_flashLoan, Amounts, LPValidatorV3, InPool, Pool_migrateV3
<1> HIDE DEF WellMade, Plain
<1> QED
  BY PoolTable, <1>1, <1>2, <1>3, <1>4, <1>5, <1>6, <1>7, <1>8, <1>9, <1>10, <1>11, <1>12,
     <1>13, <1>14, <1>15, <1>16, PlainRow, PoolRoutes DEF Row, PoolMethodNames

LendingPoolMethods ==
    {"LendingPool_deposit", "LendingPool_withdraw", "LendingPool_borrow", "LendingPool_repay",
     "LendingPool_swapBorrowRateMode", "LendingPool_setUsageAsCollateral",
     "LendingPool_liquidationCall", "LendingPool_swapCollateral",
     "LendingPool_repayWithCollateral", "LendingPool_paraswapRepayWithCollateral",
     "LendingPool_flashLiquidation"}

\* The rows of LendingPool.
LEMMA LendingPoolRows == \A name \in LendingPoolMethods : Row(name, Methods[name])
<1> USE DEF WellMade, Plain, Kinds, Function, isBnbAddress, isPositiveAmount,
           isPositiveOrMinusOneAmount, Runs, Method, Pays, Sends
<1>1. WellMade(LendingPool_deposit)
  BY DEF ILendingPool_deposit, Amounts, LPValidator, ReserveChecks, DepositNative, SupplyArgs,
         PaysLendingPool, LendingPool_deposit
<1>2. WellMade(LendingPool_withdraw)
  BY DEF ILendingPool_withdraw, Amounts, LPValidator, ReserveChecks, WithdrawNative,
         InLendingPool, LendingPool_withdraw
<1>3. WellMade(LendingPool_borrow)
  BY DEF ILendingPool_borrow, Amounts, LPValidator, ReserveChecks, BorrowNative, BorrowChecks,
         InLendingPool, LendingPool_borrow
<1>4. WellMade(LendingPool_repay)
  BY DEF ILendingPool_repay, Amounts, LPValidator, ReserveChecks, RepayNative, PoolRepayArgs,
         RepayChecks, PaysLendingPool, LendingPool_repay
<1>5. Plain(LendingPool_swapBorrowRateMode)
  BY DEF ILendingPool_swapBorrowRateMode, Amounts, LPValidator, ReserveChecks, InLendingPool,
         LendingPool_swapBorrowRateMode
<1>6. Plain(LendingPool_setUsageAsCollateral)
  BY DEF ILendingPool_setUserUseReserveAsCollateral, Amounts, LPValidator, ReserveChecks,
         InLendingPool, LendingPool_setUsageAsCollateral
<1>7. Plain(LendingPool_liquidationCall)
  BY DEF ILendingPool_liquidationCall, Amounts, LPValidator, LiquidationChecks, LiquidationArgs,
         PaysLendingPool, LendingPool_liquidationCall
<1>8. WellMade(LendingPool_swapCollateral)
  BY DEF ILendingPool_flashLoan, LPSwapCollateralValidator, SwapChecks, SwapRequired,
         SwapDirectly, InLendingPool, FlashLoan, LendingPool_swapCollateral
<1>9. WellMade(LendingPool_repayWithCollateral)
  BY DEF ILendingPool_flashLoan, LPRepayWithCollateralValidator, InLendingPool, FlashLoan,
         LendingPool_repayWithCollateral
<1>10. WellMade(LendingPool_paraswapRepayWithCollateral)
  BY DEF ILendingPool_flashLoan, LPRepayWithCollateralValidator, ParaswapChecks, ParaswapRequired,
         RepayDirectly, InLendingPool, FlashLoan, LendingPool_paraswapRepayWithCollateral
<1>11. Plain(LendingPool_flashLiquidation)
  BY DEF ILendingPool_flashLoan, LPFlashLiquidationValidator, FlashLiquidationChecks,
         FlashLiquidationRequired, InLendingPool, FlashLoan, LendingPool_flashLiquidation
<1> HIDE DEF WellMade, Plain
<1> QED
  BY LendingPoolTable, <1>1, <1>2, <1>3, <1>4, <1>5, <1>6, <1>7, <1>8, <1>9, <1>10, <1>11,
     PlainRow, LendingPoolRoutes DEF Row, LendingPoolMethods

BundleMethods ==
    {"PoolBundle_getApprovedAmount", "PoolBundle_supply_generateTxData",
     "PoolBundle_supply_generateSignedTxData", "PoolBundle_borrow_generateTxData",
     "LendingPoolBundle_getApprovedAmount", "LendingPoolBundle_deposit_generateTxData",
     "LendingPoolBundle_borrow_generateTxData"}

\* The rows of the bundles.
LEMMA BundleRows == \A name \in BundleMethods : Row(name, Methods[name])
<1> USE DEF WellMade, Plain, Kinds, Function, View, Runs, Method, Pays, Sends, Asks
<1>1. WellMade(PoolBundle_getApprovedAmount)
  BY DEF Unchecked, Allowance, Nothing, PoolBundle_getApprovedAmount
<1>2. WellMade(PoolBundle_supply_generateTxData)
  BY DEF IPool_supply, Unchecked, InPool, GenerateDepositNative, RawSupplyArgs,
         PoolBundle_supply_generateTxData
<1>3. WellMade(PoolBundle_supply_generateSignedTxData)
  BY DEF IPool_supplyWithPermit, Unchecked, InPool, SignatureArgs, RawSupplyArgs,
         PoolBundle_supply_generateSignedTxData
<1>4. WellMade(PoolBundle_borrow_generateTxData)
  BY DEF IPool_borrow, Unchecked, InPool, GenerateBorrowNative, RawBorrowArgs,
         PoolBundle_borrow_generateTxData
<1>5. WellMade(LendingPoolBundle_getApprovedAmount)
  BY DEF Unchecked, Allowance, Nothing, LendingPoolBundle_getApprovedAmount
<1>6. WellMade(LendingPoolBundle_deposit_generateTxData)
  BY DEF ILendingPool_deposit, Unchecked, InLendingPool, RawSupplyArgs,
         LendingPoolBundle_deposit_generateTxData
<1>7. WellMade(LendingPoolBundle_borrow_generateTxData)
  BY DEF ILendingPool_borrow, Unchecked, InLendingPool, GenerateBorrowNative, RawBorrowArgs,
         LendingPoolBundle_borrow_generateTxData
<1> HIDE DEF WellMade, Plain
<1> QED
  BY BundleTable, <1>1, <1>2, <1>3, <1>4, <1>5, <1>6, <1>7, PlainRow, BundleRoutes DEF Row,
     BundleMethods

TokenMethods ==
    {"ERC20_approve", "ERC20_approveTxData", "ERC20_isApproved", "ERC20_approvedAmount",
     "ERC20_2612_getNonce", "DebtToken_approveDelegation",
     "DebtToken_generateApproveDelegationTxData", "DebtToken_approvedDelegationAmount",
     "DebtToken_isDelegationApproved"}

\* The rows of the tokens and debt tokens.
LEMMA TokenRows == \A name \in TokenMethods : Row(name, Methods[name])
<1> USE DEF WellMade, Plain, Kinds, Function, View, isBnbAddress, isPositiveAmount,
           isPositiveOrMinusOneAmount, Runs, Method, Pays, Sends, Asks
<1>1. Plain(ERC20_approve)
  BY DEF IERC20_approve, ERC20Validator, ERC20_approve
<1>2. Plain(ERC20_approveTxData)
  BY DEF IERC20_approve, ERC20Validator, ERC20_approveTxData
<1>3. WellMade(ERC20_isApproved)
  BY DEF IERC20_allowance, ERC20Validator, ERC20_isApproved
<1>4. WellMade(ERC20_approvedAmount)
  BY DEF IERC20_allowance, ERC20Validator, ERC20_approvedAmount
<1>5. Plain(ERC20_2612_getNonce)
  BY DEF IERC202612_nonces, ERC20Validator, ERC20_2612_getNonce
<1>6. Plain(DebtToken_approveDelegation)
  BY DEF IDebtTokenBase_approveDelegation, DebtTokenValidator, DebtTokenChecks,
         DebtToken_approveDelegation
<1>7. Plain(DebtToken_generateApproveDelegationTxData)
  BY DEF IDebtTokenBase_approveDelegation, DebtTokenValidator, DebtTokenChecks,
         DebtToken_generateApproveDelegationTxData
<1>8. Plain(DebtToken_approvedDelegationAmount)
  BY DEF IDebtTokenBase_borrowAllowance, DebtTokenValidator, DebtTokenChecks,
         DebtToken_approvedDelegationAmount
<1>9. Plain(DebtToken_isDelegationApproved)
  BY DEF IDebtTokenBase_borrowAllowance, DebtTokenValidator, DebtToken_isDelegationApproved
<1> HIDE DEF WellMade, Plain
<1> QED
  BY TokenTable, <1>1, <1>2, <1>3, <1>4, <1>5, <1>6, <1>7, <1>8, <1>9, PlainRow, OtherRoutes
     DEF Row, TokenMethods

RewardMethods ==
    {"Staking_stakeWithPermit", "Staking_stake", "Staking_redeem", "Staking_cooldown",
     "Staking_claimRewards", "Incentives_claimRewards", "IncentivesV2_claimRewards",
     "IncentivesV2_claimAllRewards", "Faucet_mint", "V3Faucet_mint", "V3Faucet_isPermissioned"}

\* The rows of staking, rewards and faucets.
LEMMA RewardRows == \A name \in RewardMethods : Row(name, Methods[name])
<1> USE DEF WellMade, Plain, Kinds, Function, Payable, View, isBnbAddress, isBnbAddressArray,
           isPositiveAmount, isPositiveOrMinusOneAmount, Runs, Method, Pays, Sends, Asks
<1>1. Plain(Staking_stakeWithPermit)
  BY DEF IStakingHelper_stake, SignStakingValidator, Staking_stakeWithPermit
<1>2. Plain(Staking_stake)
  BY DEF IStakedToken_stake, StakingValidator, Staking_stake
<1>3. Plain(Staking_redeem)
  BY DEF IStakedToken_redeem, StakingValidator, Staking_redeem
<1>4. Plain(Staking_cooldown)
  BY DEF IStakedToken_cooldown, StakingValidator, Staking_cooldown
<1>5. Plain(Staking_claimRewards)
  BY DEF IStakedToken_claimRewards, StakingValidator, Staking_claimRewards
<1>6. Plain(Incentives_claimRewards)
  BY DEF IIncentives_claimRewards, IncentivesValidator, ClaimChecks, Incentives_claimRewards
<1>7. Plain(IncentivesV2_claimRewards)
  BY DEF IIncentivesV2_claimRewards, IncentivesValidator, ClaimChecks, IncentivesV2_claimRewards
<1>8. Plain(IncentivesV2_claimAllRewards)
  BY DEF IIncentivesV2_claimAllRewards, IncentivesValidator, ClaimChecks,
         IncentivesV2_claimAllRewards
<1>9. Plain(Faucet_mint)
  <2>1. /\ Faucet_mint.validator = FaucetValidator
        /\ Faucet_mint.routes = <<>>
        /\ Faucet_mint.checks = isBnbAddress({"userAddress", "reserve"})
    BY DEF Faucet_mint
  <2>2. DOMAIN Faucet_mint.sends.args = DOMAIN Faucet_mint.sends.takes
    <3>1. Faucet_mint.sends.args
              = <<Given("reserve"), Part("tokenSymbol", "mint amount")>>
      BY DEF Faucet_mint, IFaucet_mint
    <3>2. Faucet_mint.sends.takes = <<"_token", "_amount">>
      BY DEF Faucet_mint, IFaucet_mint
    <3>3. DOMAIN <<Given("reserve"), Part("tokenSymbol", "mint amount")>>
              = DOMAIN <<"_token", "_amount">>
      OBVIOUS
    <3> QED
      BY <3>1, <3>2, <3>3
  <2> QED
    BY <2>1, <2>2 DEF FaucetValidator
<1>10. Plain(V3Faucet_mint)
  <2>1. /\ V3Faucet_mint.validator = FaucetValidator
        /\ V3Faucet_mint.routes = <<>>
        /\ V3Faucet_mint.checks = isBnbAddress({"userAddress", "reserve"})
    BY DEF V3Faucet_mint
  <2>2. DOMAIN V3Faucet_mint.sends.args = DOMAIN V3Faucet_mint.sends.takes
    <3>1. V3Faucet_mint.sends.args
              = <<Given("reserve"), Given("userAddress"), Part("tokenSymbol", "mint amount")>>
      BY DEF V3Faucet_mint, IFaucetOwnable_mint
    <3>2. V3Faucet_mint.sends.takes = <<"token", "to", "amount">>
      BY DEF V3Faucet_mint, IFaucetOwnable_mint
    <3>3. DOMAIN <<Given("reserve"), Given("userAddress"), Part("tokenSymbol", "mint amount")>>
              = DOMAIN <<"token", "to", "amount">>
      OBVIOUS
    <3> QED
      BY <3>1, <3>2, <3>3
  <2> QED
    BY <2>1, <2>2 DEF FaucetValidator
<1>11. Plain(V3Faucet_isPermissioned)
  BY DEF IFaucetOwnable_isPermissioned, Unchecked, V3Faucet_isPermissioned
<1> HIDE DEF WellMade, Plain
<1> QED
  BY RewardTable, <1>1, <1>2, <1>3, <1>4, <1>5, <1>6, <1>7, <1>8, <1>9, <1>10, <1>11, PlainRow
     DEF Row, RewardMethods

GovernanceMethods ==
    {"Governance_submitVote", "Governance_getProposals", "Governance_getProposal",
     "Governance_getVotingPowerAt", "Governance_getTokensPower", "Governance_getVoteOnProposal",
     "Governance_getProposalsCount", "Governance_delegateTokensBySig",
     "Governance_delegateTokensByTypeBySig", "Delegation_delegate", "Delegation_delegateByType",
     "Delegation_delegateBySig", "Delegation_delegateByTypeBySig",
     "Delegation_getDelegateeByType", "Delegation_getPowerCurrent", "Delegation_getPowerAtBlock",
     "Delegation_getNonce"}

\* The rows of governance and of power delegation.
LEMMA GovernanceRows == \A name \in GovernanceMethods : Row(name, Methods[name])
<1> USE DEF WellMade, Plain, Kinds, Function, View, isBnbAddress, isBnbAddressArray,
           isBnbAddressOrENS, isPositiveAmount, is0OrPositiveAmount, Runs, Method, Pays, Sends,
           Asks
<1>1. Plain(Governance_submitVote)
  BY DEF IGovernance_submitVote, GovValidator, Governance_submitVote
<1>2. Plain(Governance_getProposals)
  BY DEF IGovernanceHelper_getProposals, GovHelperValidator, Governance_getProposals
<1>3. Plain(Governance_getProposal)
  BY DEF IGovernanceHelper_getProposal, GovHelperValidator, Governance_getProposal
<1>4. Plain(Governance_getVotingPowerAt)
  BY DEF IGovernanceStrategy_getVotingPowerAt, GovValidator, Governance_getVotingPowerAt
<1>5. Plain(Governance_getTokensPower)
  BY DEF IGovernanceHelper_getTokensPower, GovHelperValidator, Governance_getTokensPower
<1>6. Plain(Governance_getVoteOnProposal)
  BY DEF IGovernance_getVoteOnProposal, GovValidator, Governance_getVoteOnProposal
<1>7. Plain(Governance_getProposalsCount)
  BY DEF IGovernance_getProposalsCount, GovValidator, Governance_getProposalsCount
<1>8. Plain(Governance_delegateTokensBySig)
  BY DEF IGovernanceHelper_delegateTokensBySig, GovHelperValidator, Governance_delegateTokensBySig
<1>9. Plain(Governance_delegateTokensByTypeBySig)
  BY DEF IGovernanceHelper_delegateTokensByTypeBySig, GovHelperValidator,
         Governance_delegateTokensByTypeBySig
<1>10. Plain(Delegation_delegate)
  BY DEF IDelegation_delegate, GovDelegationValidator, InToken, DelegationChecks,
         Delegation_delegate
<1>11. Plain(Delegation_delegateByType)
  BY DEF IDelegation_delegateByType, GovDelegationValidator, InToken, DelegationChecks,
         Delegation_delegateByType
<1>12. Plain(Delegation_delegateBySig)
  BY DEF IDelegation_delegateBySig, GovDelegationValidator, InToken, DelegationChecks,
         SignedDelegation, Delegation_delegateBySig
<1>13. Plain(Delegation_delegateByTypeBySig)
  BY DEF IDelegation_delegateByTypeBySig, GovDelegationValidator, InToken, DelegationChecks,
         SignedDelegation, Delegation_delegateByTypeBySig
<1>14. Plain(Delegation_getDelegateeByType)
  BY DEF IDelegation_getDelegateeByType, GovDelegationValidator, AsksToken,
         Delegation_getDelegateeByType
<1>15. Plain(Delegation_getPowerCurrent)
  BY DEF IDelegation_getPowerCurrent, GovDelegationValidator, AsksToken,
         Delegation_getPowerCurrent
<1>16. Plain(Delegation_getPowerAtBlock)
  BY DEF IDelegation_getPowerAtBlock, GovDelegationValidator, AsksToken,
         Delegation_getPowerAtBlock
<1>17. Plain(Delegation_getNonce)
  <2>1. /\ Delegation_getNonce.validator = GovDelegationValidator
        /\ Delegation_getNonce.routes = <<>>
        /\ Delegation_getNonce.checks = isBnbAddress({"user", "governanceToken"})
    BY DEF Delegation_getNonce
  <2>2. DOMAIN Delegation_getNonce.sends.args = DOMAIN Delegation_getNonce.sends.takes
    <3>1. Delegation_getNonce.sends.args
              = <<User>>
      BY DEF Delegation_getNonce, IDelegation_nonces, AsksToken
    <3>2. Delegation_getNonce.sends.takes = <<"">>
      BY DEF Delegation_getNonce, IDelegation_nonces, AsksToken
    <3>3. DOMAIN <<User>>
              = DOMAIN <<"">>
      OBVIOUS
    <3> QED
      BY <3>1, <3>2, <3>3
  <2> QED
    BY <2>1, <2>2 DEF GovDelegationValidator
<1> HIDE DEF WellMade, Plain
<1> QED
  BY GovernanceTable, <1>1, <1>2, <1>3, <1>4, <1>5, <1>6, <1>7, <1>8, <1>9, <1>10, <1>11,
     <1>12, <1>13, <1>14, <1>15, <1>16, <1>17, PlainRow DEF Row, GovernanceMethods

ReadMethods ==
    {"Migration_migrate", "Migration_getMigrationSupply", "WalletBalance_balanceOf_",
     "WalletBalance_batchBalanceOf_", "WalletBalance_getUserWalletBalancesForLendingPoolProvider",
     "Permissions_getUserPermissions", "Feeds_latestRoundData", "Feeds_decimals",
     "UiPool_getReservesList_", "UiPool_getReservesData_", "UiPool_getUserReservesData_",
     "UiPoolV3_getReservesList_", "UiPoolV3_getReservesData_", "UiPoolV3_getUserReservesData_",
     "UiIncentive_getFullReservesIncentiveData_", "UiIncentive_getReservesIncentivesData_",
     "UiIncentive_getUserReservesIncentivesData_", "UiIncentiveV3_getFullReservesIncentiveData_",
     "UiIncentiveV3_getReservesIncentivesData_", "UiIncentiveV3_getUserReservesIncentivesData_",
     "StakeUi_getGeneralStakeUIData", "StakeUi_getUserStakeUIData"}

\* The rows of the migration helper and of what is only read.
LEMMA ReadRows == \A name \in ReadMethods : Row(name, Methods[name])
<1> USE DEF WellMade, Plain, Kinds, Function, View, isBnbAddress, isBnbAddressArray, Runs, Method,
           Pays, Sends, Asks
<1>1. Plain(Migration_migrate)
  BY DEF IMigrationHelper_migrate, V3MigratorValidator, Migration_migrate
<1>2. Plain(Migration_getMigrationSupply)
  BY DEF IMigrationHelper_getMigrationSupply, V3MigratorValidator, Migration_getMigrationSupply
<1>3. Plain(WalletBalance_balanceOf_)
  BY DEF WalletBalance_balanceOf, isAddress, Reads, WalletBalance_balanceOf_
<1>4. Plain(WalletBalance_batchBalanceOf_)
  BY DEF WalletBalance_batchBalanceOf, isAddress, WalletBalance_batchBalanceOf_
<1>5. Plain(WalletBalance_getUserWalletBalancesForLendingPoolProvider)
  BY DEF WalletBalance_getUserWalletBalances, isAddress, Reads, OfUser,
         WalletBalance_getUserWalletBalancesForLendingPoolProvider
<1>6. Plain(Permissions_getUserPermissions)
  BY DEF PermissionManager_getUserPermissions, isAddress, Reads, Permissions_getUserPermissions
<1>7. Plain(Feeds_latestRoundData)
  BY DEF FeedRegistry_latestRoundData, isAddress, Feeds_latestRoundData
<1>8. Plain(Feeds_decimals)
  BY DEF FeedRegistry_decimals, isAddress, Feeds_decimals
<1>9. Plain(UiPool_getReservesList_)
  BY DEF UiPool_getReservesList, isAddress, Reads, OfPool, UiPool_getReservesList_
<1>10. Plain(UiPool_getReservesData_)
  BY DEF UiPool_getReservesData, isAddress, Reads, OfPool, UiPool_getReservesData_
<1>11. Plain(UiPool_getUserReservesData_)
  BY DEF UiPool_getUserReservesData, isAddress, Reads, OfUser, UiPool_getUserReservesData_
<1>12. Plain(UiPoolV3_getReservesList_)
  BY DEF UiPoolV3_getReservesList, isAddress, Reads, OfPool, UiPoolV3_getReservesList_
<1>13. Plain(UiPoolV3_getReservesData_)
  BY DEF UiPoolV3_getReservesData, isAddress, Reads, OfPool, UiPoolV3_getReservesData_
<1>14. Plain(UiPoolV3_getUserReservesData_)
  BY DEF UiPoolV3_getUserReservesData, isAddress, Reads, OfUser, UiPoolV3_getUserReservesData_
<1>15. Plain(UiIncentive_getFullReservesIncentiveData_)
  BY DEF UiIncentive_getFullReservesIncentiveData, isAddress, Reads, OfUser,
         UiIncentive_getFullReservesIncentiveData_
<1>16. Plain(UiIncentive_getReservesIncentivesData_)
  BY DEF UiIncentive_getReservesIncentivesData, isAddress, Reads, OfPool,
         UiIncentive_getReservesIncentivesData_
<1>17. Plain(UiIncentive_getUserReservesIncentivesData_)
  BY DEF UiIncentive_getUserReservesIncentivesData, isAddress, Reads, OfUser,
         UiIncentive_getUserReservesIncentivesData_
<1>18. Plain(UiIncentiveV3_getFullReservesIncentiveData_)
  BY DEF UiIncentiveV3_getFullReservesIncentiveData, UiIncentiveDataProviderValidator, Reads,
         OfUser, UiIncentiveV3_getFullReservesIncentiveData_
<1>19. Plain(UiIncentiveV3_getReservesIncentivesData_)
  BY DEF UiIncentiveV3_getReservesIncentivesData, UiIncentiveDataProviderValidator, Reads, OfPool,
         UiIncentiveV3_getReservesIncentivesData_
<1>20. Plain(UiIncentiveV3_getUserReservesIncentivesData_)
  BY DEF UiIncentiveV3_getUserReservesIncentivesData, UiIncentiveDataProviderValidator, Reads,
         OfUser, UiIncentiveV3_getUserReservesIncentivesData_
<1>21. Plain(StakeUi_getGeneralStakeUIData)
  BY DEF StakedTokenData_getAllStakedTokenData, Unchecked, Reads, StakeUi_getGeneralStakeUIData
<1>22. Plain(StakeUi_getUserStakeUIData)
  BY DEF StakedTokenData_getAllStakedTokenUserData, StakeUiDataProviderValidator, Reads,
         StakeUi_getUserStakeUIData
<1> HIDE DEF WellMade, Plain
<1> QED
  BY ReadTable, <1>1, <1>2, <1>3, <1>4, <1>5, <1>6, <1>7, <1>8, <1>9, <1>10, <1>11, <1>12,
     <1>13, <1>14, <1>15, <1>16, <1>17, <1>18, <1>19, <1>20, <1>21, <1>22, PlainRow DEF Row,
     ReadMethods

\* These are all the methods.
LEMMA AllMethods ==
    DOMAIN Methods =
        UNION {L2PoolMethods, AdapterMethods, PoolMethodNames, LendingPoolMethods, BundleMethods,
               TokenMethods, RewardMethods, GovernanceMethods, ReadMethods}
BY DEF Methods, L2PoolMethods, AdapterMethods, PoolMethodNames, LendingPoolMethods, BundleMethods,
       TokenMethods, RewardMethods, GovernanceMethods, ReadMethods

\* Every method is such a row.
THEOREM Table == \A name \in DOMAIN Methods : Row(name, Methods[name])
BY AllMethods, L2PoolRows, AdapterRows, PoolRows, LendingPoolRows, BundleRows, TokenRows,
   RewardRows, GovernanceRows, ReadRows

-----------------------------------------------------------------------------
(* What is said of a parameter.  In what a method sends, and in what it    *)
(* passes on, is only what its checks let through and what it made itself. *)

\* Values. The parameters that are checked as amounts, and the forms a method
\* makes of what it is given.
AmountNames == {"amount", "purchaseAmount", "fromAmount", "minToAmount", "repayWithAmount",
   "repayAmount", "debtTokenCover", "proposalId", "amountToSwap", "minAmountToReceive",
   "collateralAmount", "debtRepayAmount", "referralCode", "categoryId", "blockNumber"}

Made == {"units", "1", "2", "resolved", "v", "r", "s", "nonce", "offset", "mint amount",
         "surplus"}

\* A value is a tuple that is not empty.
IsValue(v) == v # <<>> /\ \E S : v \in Seq(S)

\* The value v is a constant, or it comes from a parameter of S. Either the
\* method made it of that parameter, or it has the form the parameter was
\* given in; all of a balance and a name in a parameter of X are always
\* replaced, but for those of the delegatee and of the amount.
Yields(S, X, v, given) ==
    /\ IsValue(v)
    /\ \/ v[1] = "constant"
       \/ \E q \in S :
            /\ v[1] = given[q][1]
            /\ \/ FormOf(v) \in Made
               \/ /\ FormOf(v) = FormOf(given[q])
                  /\ (q \in X /\ FormOf(v) = "-1") => q = "delegatee"
                  /\ (q \in X /\ FormOf(v) = "name") => q # "delegatee"

AllValues(S, given) == \A q \in S : IsValue(given[q])

\* The term yields such values whatever is given: at the three levels of
\* terms, and for terms that are packed.
FitsSimply(S, X, t) ==
    /\ t[1] \notin {"either", "tx value", "packed"}
    /\ \A given : AllValues(S, given) => Yields(S, X, Simple(t, given), given)

FitsChosen(S, X, t) ==
    /\ t[1] \notin {"tx value", "packed"}
    /\ \A given : AllValues(S, given) => Yields(S, X, Chosen(t, given), given)

FitsAlone(S, X, t) ==
    /\ t[1] # "packed"
    /\ \A given : AllValues(S, given) => Yields(S, X, Value(t, given), given)

Fits(S, X, t) ==
    \A given : AllValues(S, given) => \A v \in Range_(Values(t, given)) : Yields(S, X, v, given)

\* A constant is such a value.
LEMMA ConstantYields == \A S, X, c, given : Yields(S, X, Constant(c), given)
<1>1. \A c : /\ Constant(c) \in Seq({"constant", c})
             /\ Constant(c) # <<>> /\ Constant(c)[1] = "constant"
  BY DEF Constant
<1> QED
  BY <1>1 DEF Yields, IsValue

\* What is appended to a value leaves its first part, and its form unless it
\* had none.
LEMMA Longer ==
    ASSUME NEW v, IsValue(v), NEW a, NEW b
    PROVE  /\ IsValue(v \o <<a, b>>) /\ (v \o <<a, b>>)[1] = v[1]
           /\ FormOf(v \o <<a, b>>) \in {FormOf(v), a}
           /\ IsValue(v \o <<a>>) /\ (v \o <<a>>)[1] = v[1]
           /\ FormOf(v \o <<a>>) \in {FormOf(v), a}
<1>1. PICK S : v \in Seq(S)
  BY DEF IsValue
<1> DEFINE U == S \cup {a, b}
<1>2. v \in Seq(U) /\ <<a, b>> \in Seq(U) /\ <<a>> \in Seq(U) /\ v # <<>>
  BY <1>1 DEF IsValue
<1> HIDE DEF U
<1>3. Len(v) \in Nat /\ Len(v) > 0
  BY <1>2
<1>4. /\ v \o <<a, b>> \in Seq(U) /\ Len(v \o <<a, b>>) = Len(v) + 2
      /\ \A i \in 1..Len(v) : (v \o <<a, b>>)[i] = v[i]
      /\ (v \o <<a, b>>)[Len(v) + 1] = a
  BY <1>2
<1>5. /\ v \o <<a>> \in Seq(U) /\ Len(v \o <<a>>) = Len(v) + 1
      /\ \A i \in 1..Len(v) : (v \o <<a>>)[i] = v[i]
      /\ (v \o <<a>>)[Len(v) + 1] = a
  BY <1>2
<1>6. /\ v \o <<a, b>> # <<>> /\ v \o <<a>> # <<>>
      /\ (v \o <<a, b>>)[1] = v[1] /\ (v \o <<a>>)[1] = v[1]
  BY <1>3, <1>4, <1>5
<1>7. FormOf(v \o <<a, b>>) \in {FormOf(v), a} /\ FormOf(v \o <<a>>) \in {FormOf(v), a}
  <2>1. CASE Len(v) > 1
    <3>1. (v \o <<a, b>>)[2] = v[2] /\ (v \o <<a>>)[2] = v[2]
      BY <1>3, <1>4, <1>5, <2>1
    <3> QED
      BY <3>1, <1>4, <1>5, <2>1 DEF FormOf
  <2>2. CASE Len(v) = 1
    BY <1>4, <1>5, <2>2 DEF FormOf
  <2>3. \A n \in Nat : n > 0 => n > 1 \/ n = 1
    OBVIOUS
  <2> QED
    BY <1>3, <2>1, <2>2, <2>3
<1> QED
  BY <1>4, <1>5, <1>6, <1>7 DEF IsValue

\* The simple terms that fit: only what is not in X may be passed on as it
\* is.
LEMMA SimpleTerms ==
    ASSUME NEW S, NEW X
    PROVE  /\ \A q \in S \ X : FitsSimply(S, X, Given(q))
           /\ \A q, p \in S \ X : FitsSimply(S, X, OrElse(q, p))
           /\ \A q \in S \ X : \A c : FitsSimply(S, X, OrConstant(q, c))
           /\ \A c : FitsSimply(S, X, Fixed(c))
           /\ \A q \in S \ X : \A t : FitsSimply(S, X, Units(q, t))
           /\ \A q \in S \ X : \A t : FitsSimply(S, X, Surplus(q, t))
           /\ \A q \in S : \A t : q # "delegatee" => FitsSimply(S, X, UnitsOrAll(q, t))
           /\ \A q \in S : FitsSimply(S, X, VariableMode(q)) /\ FitsSimply(S, X, StableMode(q))
           /\ \A q \in S, part \in Made : FitsSimply(S, X, Part(q, part))
           /\ \A q \in S : q = "delegatee" => FitsSimply(S, X, Resolved(q))
<1>1. ASSUME NEW q \in S \ X, NEW given, AllValues(S, given)
      PROVE  Yields(S, X, given[q], given)
  BY <1>1 DEF Yields, AllValues
<1>2. ASSUME NEW q \in S, NEW given, AllValues(S, given), NEW f \in Made
      PROVE  Yields(S, X, <<given[q][1], f>>, given)
  <2>1. <<given[q][1], f>> \in Seq({given[q][1], f}) /\ <<given[q][1], f>> # <<>>
    OBVIOUS
  <2>2. FormOf(<<given[q][1], f>>) = f /\ <<given[q][1], f>>[1] = given[q][1]
    BY DEF FormOf
  <2> QED
    BY <2>1, <2>2 DEF Yields, IsValue
<1>3. ASSUME NEW q \in S, NEW given, AllValues(S, given), NEW v,
             IsValue(v), v[1] = given[q][1], FormOf(v) \in {FormOf(given[q])} \cup Made,
             q \in X => /\ FormOf(v) = "-1" => q = "delegatee"
                        /\ FormOf(v) = "name" => q # "delegatee"
      PROVE  Yields(S, X, v, given)
  BY <1>3 DEF Yields
<1>4. ASSUME NEW q \in S, NEW given, AllValues(S, given), NEW t
      PROVE  LET v == Converted(given[q], t, given)
             IN /\ IsValue(v) /\ v[1] = given[q][1]
                /\ FormOf(v) \in {FormOf(given[q])} \cup Made
                /\ IsValue(v \o <<"surplus">>) /\ (v \o <<"surplus">>)[1] = given[q][1]
                /\ FormOf(v \o <<"surplus">>) \in {FormOf(given[q])} \cup Made
  <2> DEFINE v == Converted(given[q], t, given)
  <2>1. IsValue(given[q])
    BY <1>4 DEF AllValues
  <2>2. IsValue(v) /\ v[1] = given[q][1] /\ FormOf(v) \in {FormOf(given[q]), "units"}
    <3> DEFINE u == TokenIn(t, given)
    <3>1. v = given[q] \o <<"units", u>>
      BY DEF Converted
    <3>2. \A w, a : IsValue(w) => LET x == w \o <<"units", a>>
                                 IN IsValue(x) /\ x[1] = w[1] /\ FormOf(x) \in {FormOf(w), "units"}
      BY Longer
    <3> HIDE DEF u, v
    <3> QED
      BY <2>1, <3>1, <3>2
  <2> HIDE DEF v
  <2>3. /\ IsValue(v \o <<"surplus">>) /\ (v \o <<"surplus">>)[1] = v[1]
        /\ FormOf(v \o <<"surplus">>) \in {FormOf(v), "surplus"}
    BY <2>2, Longer
  <2>4. {"units", "surplus"} \subseteq Made
    BY DEF Made
  <2> QED
    BY <2>2, <2>3, <2>4 DEF v
<1>5. ASSUME NEW q \in S \ X, NEW t
      PROVE  FitsSimply(S, X, Units(q, t)) /\ FitsSimply(S, X, Surplus(q, t))
  <2>1. ASSUME NEW given, AllValues(S, given)
        PROVE  /\ Yields(S, X, Converted(given[q], t, given), given)
               /\ Yields(S, X, Converted(given[q], t, given) \o <<"surplus">>, given)
    <3> DEFINE v == Converted(given[q], t, given)
    <3>1. q \in S /\ q \notin X
      OBVIOUS
    <3>2. /\ IsValue(v) /\ v[1] = given[q][1]
          /\ FormOf(v) \in {FormOf(given[q])} \cup Made
          /\ IsValue(v \o <<"surplus">>) /\ (v \o <<"surplus">>)[1] = given[q][1]
          /\ FormOf(v \o <<"surplus">>) \in {FormOf(given[q])} \cup Made
      BY <1>4, <2>1, <3>1
    <3> HIDE DEF v
    <3>3. Yields(S, X, v, given) /\ Yields(S, X, v \o <<"surplus">>, given)
      BY <1>3, <2>1, <3>1, <3>2
    <3> QED
      BY <3>3 DEF v
  <2> QED
    BY <2>1 DEF FitsSimply, Simple, Units, Surplus
<1>6. ASSUME NEW q \in S, NEW t, q # "delegatee"
      PROVE  FitsSimply(S, X, UnitsOrAll(q, t))
  <2>1. ASSUME NEW given, AllValues(S, given), FormOf(given[q]) # "-1"
        PROVE  Yields(S, X, Converted(given[q], t, given), given)
    <3>1. FormOf(Converted(given[q], t, given)) # "-1"
      BY <1>4, <2>1 DEF Made
    <3> QED
      BY <1>3, <1>4, <1>6, <2>1, <3>1
  <2> QED
    BY <2>1, ConstantYields DEF FitsSimply, Simple, UnitsOrAll
<1>7. ASSUME NEW q \in S, q = "delegatee"
      PROVE  FitsSimply(S, X, Resolved(q))
  <2>1. ASSUME NEW given, AllValues(S, given), FormOf(given[q]) # "name"
        PROVE  Yields(S, X, given[q], given)
    BY <1>7, <2>1 DEF Yields, AllValues
  <2>2. "resolved" \in Made
    BY DEF Made
  <2> QED
    BY <1>2, <2>1, <2>2 DEF FitsSimply, Simple, Resolved
<1>8. ASSUME NEW q \in S, NEW f \in Made
      PROVE  FitsSimply(S, X, Part(q, f))
  BY <1>2 DEF FitsSimply, Simple, Part
<1>9. ASSUME NEW q \in S
      PROVE  FitsSimply(S, X, VariableMode(q)) /\ FitsSimply(S, X, StableMode(q))
  <2>1. {"1", "2"} \subseteq Made
    BY DEF Made
  <2> QED
    BY <1>2, <2>1 DEF FitsSimply, Simple, VariableMode, StableMode
<1>10. ASSUME NEW q \in S \ X, NEW p \in S \ X, NEW c
       PROVE  /\ FitsSimply(S, X, Given(q)) /\ FitsSimply(S, X, OrElse(q, p))
              /\ FitsSimply(S, X, OrConstant(q, c)) /\ FitsSimply(S, X, Fixed(c))
  <2>1. FitsSimply(S, X, Given(q)) /\ FitsSimply(S, X, OrElse(q, p))
    BY <1>1 DEF FitsSimply, Simple, Given, OrElse
  <2>2. FitsSimply(S, X, OrConstant(q, c)) /\ FitsSimply(S, X, Fixed(c))
    BY <1>1, ConstantYields DEF FitsSimply, Simple, OrConstant, Fixed
  <2> QED
    BY <2>1, <2>2
<1>11. \A c : FitsSimply(S, X, Fixed(c))
  BY ConstantYields DEF FitsSimply, Simple, Fixed
<1> QED
  BY <1>5, <1>6, <1>7, <1>8, <1>9, <1>10, <1>11

\* A term that fits at one level fits at the next.
LEMMA Levels ==
    ASSUME NEW S, NEW X
    PROVE  /\ \A t : FitsSimply(S, X, t) => FitsChosen(S, X, t)
           /\ \A f, s, t : FitsSimply(S, X, s) /\ FitsSimply(S, X, t)
                    => FitsChosen(S, X, Either(f, s, t))
           /\ \A t : FitsChosen(S, X, t) => FitsAlone(S, X, t)
           /\ \A r, t : FitsChosen(S, X, t) => FitsAlone(S, X, TxValue(r, t))
           /\ \A t : FitsAlone(S, X, t) => Fits(S, X, t)
           /\ \A ts : (\A i \in DOMAIN ts : FitsAlone(S, X, ts[i])) => Fits(S, X, Packed(ts))
<1>1. ASSUME NEW t, FitsSimply(S, X, t) PROVE FitsChosen(S, X, t)
  BY <1>1 DEF FitsSimply, FitsChosen, Chosen
<1>2. ASSUME NEW f, NEW s, NEW t, FitsSimply(S, X, s), FitsSimply(S, X, t)
      PROVE  FitsChosen(S, X, Either(f, s, t))
  BY <1>2 DEF FitsSimply, FitsChosen, Chosen, Either
<1>3. ASSUME NEW t, FitsChosen(S, X, t) PROVE FitsAlone(S, X, t)
  BY <1>3 DEF FitsAlone, FitsChosen, Value
<1>4. ASSUME NEW r, NEW t, FitsChosen(S, X, t) PROVE FitsAlone(S, X, TxValue(r, t))
  BY <1>4, ConstantYields DEF FitsAlone, FitsChosen, Value, TxValue, getTxValue
<1>5. ASSUME NEW t, FitsAlone(S, X, t) PROVE Fits(S, X, t)
  BY <1>5 DEF FitsAlone, Fits, Values, Range_
<1>6. ASSUME NEW ts, \A i \in DOMAIN ts : FitsAlone(S, X, ts[i]) PROVE Fits(S, X, Packed(ts))
  BY <1>6 DEF FitsAlone, Fits, Values, Range_, Packed
<1> QED
  BY <1>1, <1>2, <1>3, <1>4, <1>5, <1>6

\* What a method checks. All of a balance and names are only let through in
\* the parameters of X.
Within(checks, X) ==
    \A c \in checks : c[1] \in {"isPositiveOrMinusOneAmount", "isBnbAddressOrENS"} => c[2] \in X

\* The checks are run, and on parameters of the method; amounts are checked
\* as amounts and the deadline as a deadline.
Apt(runs, own, X, checks) ==
    /\ Within(checks, X)
    /\ \A c \in checks :
        /\ c[1] \in runs /\ c[2] \in own
        /\ c[2] \in AmountNames <=> c[1] \in Amounts
        /\ c[2] = "deadline" <=> c[1] = "isDeadline32Bytes"

\* The same of all checks of a method.
Checked(m, X) ==
    /\ X \subseteq {"amount", "delegatee"}
    /\ "constant" \notin Own(m) /\ "absent" \notin Own(m)
    /\ Apt(m.validator.runs, Own(m), X, m.checks)

\* Neither amounts nor the deadline.
Unlike(ps) == ps \cap AmountNames = {} /\ "deadline" \notin ps

\* The decorators of the validators, one by one.
LEMMA AptChecks ==
    ASSUME NEW runs, NEW own, NEW X
    PROVE  /\ Apt(runs, own, X, {})
           /\ \A S, T : Apt(runs, own, X, S) /\ Apt(runs, own, X, T)
                    => Apt(runs, own, X, S \cup T)
           /\ \A ps : "isBnbAddress" \in runs /\ ps \subseteq own /\ Unlike(ps)
                    => Apt(runs, own, X, isBnbAddress(ps))
           /\ \A ps : "isBnbAddressArray" \in runs /\ ps \subseteq own /\ Unlike(ps)
                    => Apt(runs, own, X, isBnbAddressArray(ps))
           /\ \A ps : "isBnbAddressOrENS" \in runs /\ ps \subseteq own /\ Unlike(ps)
                         /\ ps \subseteq X
                    => Apt(runs, own, X, isBnbAddressOrENS(ps))
           /\ \A ps : "isPositiveAmount" \in runs /\ ps \subseteq own /\ ps \subseteq AmountNames
                    => Apt(runs, own, X, isPositiveAmount(ps))
           /\ \A ps : "is0OrPositiveAmount" \in runs /\ ps \subseteq own /\ ps \subseteq AmountNames
                    => Apt(runs, own, X, is0OrPositiveAmount(ps))
           /\ \A ps : "isPositiveOrMinusOneAmount" \in runs /\ ps \subseteq own
                         /\ ps \subseteq AmountNames /\ ps \subseteq X
                    => Apt(runs, own, X, isPositiveOrMinusOneAmount(ps))
           /\ "isDeadline32Bytes" \in runs /\ "deadline" \in own
                    => Apt(runs, own, X, isDeadline32Bytes({"deadline"}))
           /\ Apt(runs, own, X, isBnbAddress({}))
<1>1. /\ Apt(runs, own, X, {})
      /\ \A S, T : Apt(runs, own, X, S) /\ Apt(runs, own, X, T) => Apt(runs, own, X, S \cup T)
  BY DEF Apt, Within
<1>2. ASSUME NEW k, k \in runs, NEW ps, ps \subseteq own,
             k \in {"isPositiveOrMinusOneAmount", "isBnbAddressOrENS"} => ps \subseteq X
      PROVE  /\ Within({k} \X ps, X)
             /\ \A c \in {k} \X ps : c[1] = k /\ c[1] \in runs /\ c[2] \in own /\ c[2] \in ps
  BY <1>2 DEF Within
<1>3. ASSUME NEW k, k \in runs, NEW ps, ps \subseteq own, Unlike(ps), k \notin Amounts,
             k # "isDeadline32Bytes", k = "isBnbAddressOrENS" => ps \subseteq X
      PROVE  Apt(runs, own, X, {k} \X ps)
  <2>1. \A p \in ps : p \notin AmountNames /\ p # "deadline"
    BY <1>3 DEF Unlike
  <2>2. k # "isPositiveOrMinusOneAmount"
    BY <1>3 DEF Amounts
  <2> QED
    BY <1>2, <1>3, <2>1, <2>2 DEF Apt
<1>4. ASSUME NEW k \in Amounts, k \in runs, NEW ps, ps \subseteq own, ps \subseteq AmountNames,
             k = "isPositiveOrMinusOneAmount" => ps \subseteq X
      PROVE  Apt(runs, own, X, {k} \X ps)
  <2>1. "deadline" \notin AmountNames /\ "isDeadline32Bytes" \notin Amounts
        /\ "isBnbAddressOrENS" \notin Amounts
    BY DEF AmountNames, Amounts
  <2> QED
    BY <1>2, <1>4, <2>1 DEF Apt
<1>5. ASSUME "isDeadline32Bytes" \in runs, "deadline" \in own
      PROVE  Apt(runs, own, X, isDeadline32Bytes({"deadline"}))
  <2>1. "deadline" \notin AmountNames /\ "isDeadline32Bytes" \notin Amounts
    BY DEF AmountNames, Amounts
  <2>2. \A c \in isDeadline32Bytes({"deadline"}) : c[1] = "isDeadline32Bytes" /\ c[2] = "deadline"
    BY DEF isDeadline32Bytes
  <2> QED
    BY <1>5, <2>1, <2>2 DEF Apt, Within
<1>6. /\ \A ps : "isBnbAddress" \in runs /\ ps \subseteq own /\ Unlike(ps)
               => Apt(runs, own, X, isBnbAddress(ps))
      /\ \A ps : "isBnbAddressArray" \in runs /\ ps \subseteq own /\ Unlike(ps)
               => Apt(runs, own, X, isBnbAddressArray(ps))
      /\ \A ps : "isBnbAddressOrENS" \in runs /\ ps \subseteq own /\ Unlike(ps) /\ ps \subseteq X
               => Apt(runs, own, X, isBnbAddressOrENS(ps))
  BY <1>3 DEF Amounts, isBnbAddress, isBnbAddressArray, isBnbAddressOrENS
<1>7. /\ \A ps : "isPositiveAmount" \in runs /\ ps \subseteq own /\ ps \subseteq AmountNames
               => Apt(runs, own, X, isPositiveAmount(ps))
      /\ \A ps : "is0OrPositiveAmount" \in runs /\ ps \subseteq own /\ ps \subseteq AmountNames
               => Apt(runs, own, X, is0OrPositiveAmount(ps))
      /\ \A ps : "isPositiveOrMinusOneAmount" \in runs /\ ps \subseteq own
                    /\ ps \subseteq AmountNames /\ ps \subseteq X
               => Apt(runs, own, X, isPositiveOrMinusOneAmount(ps))
  BY <1>4 DEF Amounts, isPositiveAmount, is0OrPositiveAmount, isPositiveOrMinusOneAmount
<1>8. Apt(runs, own, X, isBnbAddress({}))
  BY DEF Apt, Within, isBnbAddress
<1> QED
  BY <1>1, <1>5, <1>6, <1>7, <1>8

\* What a method says. The terms that fit as an argument.
LEMMA FitArgs ==
    /\ \A S, X, q : q \in S /\ q \notin X => Fits(S, X, Given(q))
    /\ \A S, X, q, p : q \in S /\ p \in S /\ q \notin X /\ p \notin X => Fits(S, X, OrElse(q, p))
    /\ \A S, X, q, c : q \in S /\ q \notin X => Fits(S, X, OrConstant(q, c))
    /\ \A S, X, c : Fits(S, X, Fixed(c))
    /\ \A S, X, q, t : q \in S /\ q \notin X => Fits(S, X, Units(q, t))
    /\ \A S, X, q, t : q \in S /\ q \notin X => Fits(S, X, Surplus(q, t))
    /\ \A S, X, q, t : q \in S /\ q # "delegatee" => Fits(S, X, UnitsOrAll(q, t))
    /\ \A S, X, q : q \in S => Fits(S, X, VariableMode(q))
    /\ \A S, X, q : q \in S => Fits(S, X, StableMode(q))
    /\ \A S, X, q : q \in S => Fits(S, X, Part(q, "v"))
    /\ \A S, X, q : q \in S => Fits(S, X, Part(q, "r"))
    /\ \A S, X, q : q \in S => Fits(S, X, Part(q, "s"))
    /\ \A S, X, q : q \in S => Fits(S, X, Part(q, "nonce"))
    /\ \A S, X, q : q \in S => Fits(S, X, Part(q, "offset"))
    /\ \A S, X : "delegatee" \in S => Fits(S, X, Resolved("delegatee"))
    /\ \A S, X, f, q : q \in S => Fits(S, X, Either(f, Part(q, "offset"), Fixed("0")))
    /\ \A S, X, f, q, t : q \in S /\ q \notin X
             => Fits(S, X, Either(f, Fixed("MaxUint256"), Units(q, t)))
    /\ \A S, X, f, q, t : q \in S /\ q \notin X => Fits(S, X, Either(f, Surplus(q, t), Units(q, t)))
BY SimpleTerms, Levels DEF Made

\* The terms that fit where one value is meant.
LEMMA FitSingle ==
    /\ \A S, X, q : q \in S /\ q \notin X => FitsAlone(S, X, Given(q))
    /\ \A S, X, q, p : q \in S /\ p \in S /\ q \notin X /\ p \notin X
             => FitsAlone(S, X, OrElse(q, p))
    /\ \A S, X, q, c : q \in S /\ q \notin X => FitsAlone(S, X, OrConstant(q, c))
    /\ \A S, X, c : FitsAlone(S, X, Fixed(c))
    /\ \A S, X, q, t : q \in S /\ q \notin X => FitsAlone(S, X, Units(q, t))
    /\ \A S, X, q, t : q \in S /\ q \notin X => FitsAlone(S, X, Surplus(q, t))
    /\ \A S, X, q, t : q \in S /\ q # "delegatee" => FitsAlone(S, X, UnitsOrAll(q, t))
    /\ \A S, X, q : q \in S => FitsAlone(S, X, VariableMode(q))
    /\ \A S, X, q : q \in S => FitsAlone(S, X, StableMode(q))
    /\ \A S, X, q : q \in S => FitsAlone(S, X, Part(q, "v"))
    /\ \A S, X, q : q \in S => FitsAlone(S, X, Part(q, "r"))
    /\ \A S, X, q : q \in S => FitsAlone(S, X, Part(q, "s"))
    /\ \A S, X, q : q \in S => FitsAlone(S, X, Part(q, "nonce"))
    /\ \A S, X, q : q \in S => FitsAlone(S, X, Part(q, "offset"))
    /\ \A S, X : "delegatee" \in S => FitsAlone(S, X, Resolved("delegatee"))
    /\ \A S, X, f, q : q \in S => FitsAlone(S, X, Either(f, Part(q, "offset"), Fixed("0")))
    /\ \A S, X, f, q, t : q \in S /\ q \notin X
             => FitsAlone(S, X, Either(f, Fixed("MaxUint256"), Units(q, t)))
    /\ \A S, X, f, q, t : q \in S /\ q \notin X
             => FitsAlone(S, X, Either(f, Surplus(q, t), Units(q, t)))
    /\ \A S, X, r, q, t : q \in S /\ q # "delegatee"
             => FitsAlone(S, X, TxValue(r, UnitsOrAll(q, t)))
    /\ \A S, X, r, q : q \in S /\ q \notin X => FitsAlone(S, X, TxValue(r, Given(q)))
    /\ \A S, X, r, q, t : q \in S /\ q \notin X => FitsAlone(S, X, TxValue(r, Units(q, t)))
    /\ \A S, X, r, f, q, t : q \in S /\ q \notin X
                  => FitsAlone(S, X, TxValue(r, Either(f, Fixed("MaxUint256"), Units(q, t))))
BY SimpleTerms, Levels DEF Made

\* And packed arguments.
LEMMA FitPacked ==
    /\ \A S, X, a1, a2 :
        FitsAlone(S, X, a1) /\ FitsAlone(S, X, a2)
           => Fits(S, X, Packed(<<a1, a2>>))
    /\ \A S, X, a1, a2, a3 :
        FitsAlone(S, X, a1) /\ FitsAlone(S, X, a2) /\ FitsAlone(S, X, a3)
           => Fits(S, X, Packed(<<a1, a2, a3>>))
    /\ \A S, X, a1, a2, a3, a4, a5 :
        FitsAlone(S, X, a1) /\ FitsAlone(S, X, a2) /\ FitsAlone(S, X, a3)
          /\ FitsAlone(S, X, a4) /\ FitsAlone(S, X, a5)
           => Fits(S, X, Packed(<<a1, a2, a3, a4, a5>>))
    /\ \A S, X, a1, a2, a3, a4, a5, a6 :
        FitsAlone(S, X, a1) /\ FitsAlone(S, X, a2) /\ FitsAlone(S, X, a3)
          /\ FitsAlone(S, X, a4) /\ FitsAlone(S, X, a5) /\ FitsAlone(S, X, a6)
           => Fits(S, X, Packed(<<a1, a2, a3, a4, a5, a6>>))
    /\ \A S, X, a1, a2, a3, a4, a5, a6, a7 :
        FitsAlone(S, X, a1) /\ FitsAlone(S, X, a2) /\ FitsAlone(S, X, a3)
          /\ FitsAlone(S, X, a4) /\ FitsAlone(S, X, a5) /\ FitsAlone(S, X, a6)
          /\ FitsAlone(S, X, a7)
           => Fits(S, X, Packed(<<a1, a2, a3, a4, a5, a6, a7>>))
<1>1. ASSUME NEW S, NEW X, NEW a1, NEW a2,
             FitsAlone(S, X, a1), FitsAlone(S, X, a2)
      PROVE  Fits(S, X, Packed(<<a1, a2>>))
  <2>1. \A i \in DOMAIN <<a1, a2>> : FitsAlone(S, X, <<a1, a2>>[i])
    BY <1>1
  <2> QED
    BY <2>1, Levels
<1>2. ASSUME NEW S, NEW X, NEW a1, NEW a2, NEW a3,
             FitsAlone(S, X, a1), FitsAlone(S, X, a2), FitsAlone(S, X, a3)
      PROVE  Fits(S, X, Packed(<<a1, a2, a3>>))
  <2>1. \A i \in DOMAIN <<a1, a2, a3>> : FitsAlone(S, X, <<a1, a2, a3>>[i])
    BY <1>2
  <2> QED
    BY <2>1, Levels
<1>3. ASSUME NEW S, NEW X, NEW a1, NEW a2, NEW a3, NEW a4, NEW a5,
             FitsAlone(S, X, a1), FitsAlone(S, X, a2), FitsAlone(S, X, a3), FitsAlone(S, X, a4),
               FitsAlone(S, X, a5)
      PROVE  Fits(S, X, Packed(<<a1, a2, a3, a4, a5>>))
  <2>1. \A i \in DOMAIN <<a1, a2, a3, a4, a5>> : FitsAlone(S, X, <<a1, a2, a3, a4, a5>>[i])
    BY <1>3
  <2> QED
    BY <2>1, Levels
<1>4. ASSUME NEW S, NEW X, NEW a1, NEW a2, NEW a3, NEW a4, NEW a5, NEW a6,
             FitsAlone(S, X, a1), FitsAlone(S, X, a2), FitsAlone(S, X, a3), FitsAlone(S, X, a4),
               FitsAlone(S, X, a5), FitsAlone(S, X, a6)
      PROVE  Fits(S, X, Packed(<<a1, a2, a3, a4, a5, a6>>))
  <2>1. \A i \in DOMAIN <<a1, a2, a3, a4, a5, a6>> : FitsAlone(S, X, <<a1, a2, a3, a4, a5, a6>>[i])
    BY <1>4
  <2> QED
    BY <2>1, Levels
<1>5. ASSUME NEW S, NEW X, NEW a1, NEW a2, NEW a3, NEW a4, NEW a5, NEW a6, NEW a7,
             FitsAlone(S, X, a1), FitsAlone(S, X, a2), FitsAlone(S, X, a3), FitsAlone(S, X, a4),
               FitsAlone(S, X, a5), FitsAlone(S, X, a6), FitsAlone(S, X, a7)
      PROVE  Fits(S, X, Packed(<<a1, a2, a3, a4, a5, a6, a7>>))
  <2>1. \A i \in DOMAIN <<a1, a2, a3, a4, a5, a6, a7>> :
          FitsAlone(S, X, <<a1, a2, a3, a4, a5, a6, a7>>[i])
    BY <1>5
  <2> QED
    BY <2>1, Levels
<1> QED
  BY <1>1, <1>2, <1>3, <1>4, <1>5

\* The arguments of the method fit, so do the sender, the value and the
\* contract, and the contract is an address the method needs, or one of its
\* parameters.
SaysArgs(m, X) ==
    \A i \in DOMAIN m.sends.args : Fits(Own(m), X, m.sends.args[i])

SaysFrom(m, X) ==
    /\ FitsAlone(Own(m), X, m.sends.from) /\ FitsAlone(Own(m), X, m.sends.value)
    /\ FitsAlone(Own(m), X, m.sends.to)

Destined(m) ==
    \/ \E c : m.sends.to = Fixed(c) /\ (c \in m.validator.needs \/ m.validator.needs = {})
    \/ \E q \in Own(m) : m.sends.to = Given(q)

\* The ways to address a contract.
LEMMA Destinations ==
    /\ \A m, c : m.sends.to = Fixed(c) /\ c \in m.validator.needs => Destined(m)
    /\ \A m, c : m.sends.to = Fixed(c) /\ m.validator.needs = {} => Destined(m)
    /\ \A m, q : m.sends.to = Given(q) /\ q \in Own(m) => Destined(m)
BY DEF Destined

\* What a method passes on. It fits, except that an amount may be passed on
\* as it is to a method that checks it as one that is positive or all of the
\* balance.
PassedBy(S, X, checks, w) ==
    \A q \in DOMAIN w :
        \/ FitsAlone(S, X, w[q])
        \/ /\ q = "amount" /\ w[q] = Given("amount") /\ "amount" \in S
           /\ \E k \in {"isPositiveAmount", "isPositiveOrMinusOneAmount"} :
                 <<k, "amount">> \in checks

\* What is checked after it was passed on is a parameter that was checked
\* before, or one that is passed on as it is.
Rechecked(m, w, checks) ==
    \A c \in checks : c[2] \in Own(m) =>
        \/ \E d \in m.checks : d[2] = c[2]
        \/ c[2] \in DOMAIN w /\ w[c[2]] = Given(c[2]) /\ c[1] # "isPositiveOrMinusOneAmount"

\* Both, and the two methods either need an address or not; the contract is
\* not made up on the way.
Passes(m, X, w, T) ==
    /\ Rechecked(m, w, T.checks)
    /\ PassedBy(Own(m), X, T.checks, w)
    /\ m.validator.needs = {} <=> T.validator.needs = {}
    /\ \A q : T.sends.to = Given(q) => q \in DOMAIN w /\ \E p \in Own(m) : w[q] = Given(p)

Onward(m, X, r) == r.to \in DOMAIN Methods => Passes(m, X, r.with, Methods[r.to])

\* All routes of a method that lead to another method.
PassesOn(m, X) == \A i \in DOMAIN m.routes : Onward(m, X, m.routes[i])

\* Nothing the method says of a parameter is what its checks are there to
\* keep out.
Clean(m, X) ==
    Checked(m, X) /\ SaysArgs(m, X) /\ SaysFrom(m, X) /\ Destined(m) /\ PassesOn(m, X)

-----------------------------------------------------------------------------
\* The methods that are handed over to: which of them need an address, and
\* that they send to one.
LEMMA Addressees ==
    /\ L2Pool_borrow.validator.needs # {}
    /\ \A q : L2Pool_borrow.sends.to # Given(q)
    /\ L2Pool_generateBorrowTxData.validator.needs = {}
    /\ \A q : L2Pool_generateBorrowTxData.sends.to # Given(q)
    /\ L2Pool_generateEncodedBorrowTxData.validator.needs = {}
    /\ \A q : L2Pool_generateEncodedBorrowTxData.sends.to # Given(q)
    /\ L2Pool_generateEncodedSupplyTxData.validator.needs = {}
    /\ \A q : L2Pool_generateEncodedSupplyTxData.sends.to # Given(q)
    /\ L2Pool_generateEncodedSupplyWithPermitTxData.validator.needs = {}
    /\ \A q : L2Pool_generateEncodedSupplyWithPermitTxData.sends.to # Given(q)
    /\ L2Pool_generateSupplyTxData.validator.needs = {}
    /\ \A q : L2Pool_generateSupplyTxData.sends.to # Given(q)
    /\ L2Pool_generateSupplyWithPermitTxData.validator.needs = {}
    /\ \A q : L2Pool_generateSupplyWithPermitTxData.sends.to # Given(q)
    /\ L2Pool_liquidationCall.validator.needs # {}
    /\ \A q : L2Pool_liquidationCall.sends.to # Given(q)
    /\ L2Pool_repay.validator.needs # {}
    /\ \A q : L2Pool_repay.sends.to # Given(q)
    /\ L2Pool_repayWithLBTokens.validator.needs # {}
    /\ \A q : L2Pool_repayWithLBTokens.sends.to # Given(q)
    /\ L2Pool_repayWithPermit.validator.needs # {}
    /\ \A q : L2Pool_repayWithPermit.sends.to # Given(q)
    /\ L2Pool_setUserUseReserveAsCollateral.validator.needs # {}
    /\ \A q : L2Pool_setUserUseReserveAsCollateral.sends.to # Given(q)
    /\ L2Pool_supply.validator.needs # {}
    /\ \A q : L2Pool_supply.sends.to # Given(q)
    /\ L2Pool_supplyWithPermit.validator.needs # {}
    /\ \A q : L2Pool_supplyWithPermit.sends.to # Given(q)
    /\ L2Pool_swapBorrowRateMode.validator.needs # {}
    /\ \A q : L2Pool_swapBorrowRateMode.sends.to # Given(q)
    /\ L2Pool_withdraw.validator.needs # {}
    /\ \A q : L2Pool_withdraw.sends.to # Given(q)
    /\ LiquiditySwapAdapter_swapAndDeposit.validator.needs # {}
    /\ \A q : LiquiditySwapAdapter_swapAndDeposit.sends.to # Given(q)
    /\ ParaswapRepay_swapAndRepay.validator.needs # {}
    /\ \A q : ParaswapRepay_swapAndRepay.sends.to # Given(q)
    /\ RepayWithCollateralAdapter_swapAndRepay.validator.needs # {}
    /\ \A q : RepayWithCollateralAdapter_swapAndRepay.sends.to # Given(q)
    /\ WBNBGateway_borrowBNB.validator.needs # {}
    /\ \A q : WBNBGateway_borrowBNB.sends.to # Given(q)
    /\ WBNBGateway_depositBNB.validator.needs # {}
    /\ \A q : WBNBGateway_depositBNB.sends.to # Given(q)
    /\ WBNBGateway_generateBorrowEthTxData.validator.needs = {}
    /\ \A q : WBNBGateway_generateBorrowEthTxData.sends.to # Given(q)
    /\ WBNBGateway_generateDepositEthTxData.validator.needs = {}
    /\ \A q : WBNBGateway_generateDepositEthTxData.sends.to # Given(q)
    /\ WBNBGateway_repayBNB.validator.needs # {}
    /\ \A q : WBNBGateway_repayBNB.sends.to # Given(q)
    /\ WBNBGateway_withdrawBNB.validator.needs # {}
    /\ \A q : WBNBGateway_withdrawBNB.sends.to # Given(q)
    /\ ERC20_approvedAmount.validator.needs = {}
    /\ ERC20_approvedAmount.sends.to = Given("token")
<1>1. /\ L2Pool_borrow.validator.needs # {}
      /\ \A q : L2Pool_borrow.sends.to # Given(q)
  BY DEF L2Encoder_encodeBorrowParams, Words, Encodes, User, L2Pool_borrow, L2PValidator, Method,
     Runs, Sends, Pays, Asks, Given, Fixed
<1>2. /\ L2Pool_generateBorrowTxData.validator.needs = {}
      /\ \A q : L2Pool_generateBorrowTxData.sends.to # Given(q)
  BY DEF User, Builds, L2Pool_generateBorrowTxData, Unchecked, Method, Runs, Sends, Pays, Asks,
     Given, Fixed
<1>3. /\ L2Pool_generateEncodedBorrowTxData.validator.needs = {}
      /\ \A q : L2Pool_generateEncodedBorrowTxData.sends.to # Given(q)
  BY DEF User, Builds, L2Pool_generateEncodedBorrowTxData, Unchecked, Method, Runs, Sends, Pays,
     Asks, Given, Fixed
<1>4. /\ L2Pool_generateEncodedSupplyTxData.validator.needs = {}
      /\ \A q : L2Pool_generateEncodedSupplyTxData.sends.to # Given(q)
  BY DEF User, Builds, L2Pool_generateEncodedSupplyTxData, Unchecked, Method, Runs, Sends, Pays,
     Asks, Given, Fixed
<1>5. /\ L2Pool_generateEncodedSupplyWithPermitTxData.validator.needs = {}
      /\ \A q : L2Pool_generateEncodedSupplyWithPermitTxData.sends.to # Given(q)
  BY DEF User, Builds, L2Pool_generateEncodedSupplyWithPermitTxData, Unchecked, Method, Runs,
     Sends, Pays, Asks, Given, Fixed
<1>6. /\ L2Pool_generateSupplyTxData.validator.needs = {}
      /\ \A q : L2Pool_generateSupplyTxData.sends.to # Given(q)
  BY DEF User, Builds, L2Pool_generateSupplyTxData, Unchecked, Method, Runs, Sends, Pays, Asks,
     Given, Fixed
<1>7. /\ L2Pool_generateSupplyWithPermitTxData.validator.needs = {}
      /\ \A q : L2Pool_generateSupplyWithPermitTxData.sends.to # Given(q)
  BY DEF User, Permit, PermitArgs, Builds, L2Pool_generateSupplyWithPermitTxData, Unchecked,
     Method, Runs, Sends, Pays, Asks, Given, Fixed
<1>8. /\ L2Pool_liquidationCall.validator.needs # {}
      /\ \A q : L2Pool_liquidationCall.sends.to # Given(q)
  BY DEF L2Encoder_encodeLiquidationCall, Words, Encodes, L2Pool_liquidationCall, L2PValidator,
     Method, Runs, Sends, Pays, Asks, Given, Fixed
<1>9. /\ L2Pool_repay.validator.needs # {}
      /\ \A q : L2Pool_repay.sends.to # Given(q)
  BY DEF L2Encoder_encodeRepayParams, Words, Encodes, User, RepayArgs, L2Pool_repay, L2PValidator,
     Method, Runs, Sends, Pays, Asks, Given, Fixed
<1>10. /\ L2Pool_repayWithLBTokens.validator.needs # {}
       /\ \A q : L2Pool_repayWithLBTokens.sends.to # Given(q)
  BY DEF L2Encoder_encodeRepayWithLBTokensParams, Words, Encodes, User, RepayArgs,
     L2Pool_repayWithLBTokens, L2PValidator, Method, Runs, Sends, Pays, Asks, Given, Fixed
<1>11. /\ L2Pool_repayWithPermit.validator.needs # {}
       /\ \A q : L2Pool_repayWithPermit.sends.to # Given(q)
  BY DEF L2Encoder_encodeRepayWithPermitParams, Words, Encodes, User, Permit, PermitArgs,
     RepayArgs, L2Pool_repayWithPermit, L2PValidator, Method, Runs, Sends, Pays, Asks, Given,
     Fixed
<1>12. /\ L2Pool_setUserUseReserveAsCollateral.validator.needs # {}
       /\ \A q : L2Pool_setUserUseReserveAsCollateral.sends.to # Given(q)
  BY DEF L2Encoder_encodeSetUserUseReserveAsCollateral, Words, Encodes, User,
     L2Pool_setUserUseReserveAsCollateral, L2PValidator, Method, Runs, Sends, Pays, Asks, Given,
     Fixed
<1>13. /\ L2Pool_supply.validator.needs # {}
       /\ \A q : L2Pool_supply.sends.to # Given(q)
  BY DEF L2Encoder_encodeSupplyParams, Words, Encodes, User, L2Pool_supply, L2PValidator, Method,
     Runs, Sends, Pays, Asks, Given, Fixed
<1>14. /\ L2Pool_supplyWithPermit.validator.needs # {}
       /\ \A q : L2Pool_supplyWithPermit.sends.to # Given(q)
  BY DEF L2Encoder_encodeSupplyWithPermitParams, Words, Encodes, User, Permit, PermitArgs,
     L2Pool_supplyWithPermit, L2PValidator, Method, Runs, Sends, Pays, Asks, Given, Fixed
<1>15. /\ L2Pool_swapBorrowRateMode.validator.needs # {}
       /\ \A q : L2Pool_swapBorrowRateMode.sends.to # Given(q)
  BY DEF L2Encoder_encodeSwapBorrowRateMode, Words, Encodes, User, L2Pool_swapBorrowRateMode,
     L2PValidator, Method, Runs, Sends, Pays, Asks, Given, Fixed
<1>16. /\ L2Pool_withdraw.validator.needs # {}
       /\ \A q : L2Pool_withdraw.sends.to # Given(q)
  BY DEF L2Encoder_encodeWithdrawParams, Words, Encodes, User, L2Pool_withdraw, L2PValidator,
     Method, Runs, Sends, Pays, Asks, Given, Fixed
<1>17. /\ LiquiditySwapAdapter_swapAndDeposit.validator.needs # {}
       /\ \A q : LiquiditySwapAdapter_swapAndDeposit.sends.to # Given(q)
  BY DEF User, LiquiditySwapAdapter_swapAndDeposit, LiquiditySwapValidator, Method, Runs, Sends,
     Pays, Asks, Given, Fixed
<1>18. /\ ParaswapRepay_swapAndRepay.validator.needs # {}
       /\ \A q : ParaswapRepay_swapAndRepay.sends.to # Given(q)
  BY DEF User, RepayAdapter, ParaswapRepay_swapAndRepay, RepayWithCollateralValidator, Method,
     Runs, Sends, Pays, Asks, Given, Fixed
<1>19. /\ RepayWithCollateralAdapter_swapAndRepay.validator.needs # {}
       /\ \A q : RepayWithCollateralAdapter_swapAndRepay.sends.to # Given(q)
  BY DEF User, RepayAdapter, RepayWithCollateralAdapter_swapAndRepay,
     RepayWithCollateralValidator, Method, Runs, Sends, Pays, Asks, Given, Fixed
<1>20. /\ WBNBGateway_borrowBNB.validator.needs # {}
       /\ \A q : WBNBGateway_borrowBNB.sends.to # Given(q)
  BY DEF User, Gateway, WBNBGateway_borrowBNB, WBNBValidator, Method, Runs, Sends, Pays, Asks,
     Given, Fixed
<1>21. /\ WBNBGateway_depositBNB.validator.needs # {}
       /\ \A q : WBNBGateway_depositBNB.sends.to # Given(q)
  BY DEF User, Gateway, WBNBGateway_depositBNB, WBNBValidator, Method, Runs, Sends, Pays, Asks,
     Given, Fixed
<1>22. /\ WBNBGateway_generateBorrowEthTxData.validator.needs = {}
       /\ \A q : WBNBGateway_generateBorrowEthTxData.sends.to # Given(q)
  BY DEF User, Gateway, WBNBGateway_generateBorrowEthTxData, Unchecked, Method, Runs, Sends, Pays,
     Asks, Given, Fixed
<1>23. /\ WBNBGateway_generateDepositEthTxData.validator.needs = {}
       /\ \A q : WBNBGateway_generateDepositEthTxData.sends.to # Given(q)
  BY DEF User, Gateway, WBNBGateway_generateDepositEthTxData, Unchecked, Method, Runs, Sends,
     Pays, Asks, Given, Fixed
<1>24. /\ WBNBGateway_repayBNB.validator.needs # {}
       /\ \A q : WBNBGateway_repayBNB.sends.to # Given(q)
  BY DEF User, Gateway, WBNBGateway_repayBNB, WBNBValidator, Method, Runs, Sends, Pays, Asks,
     Given, Fixed
<1>25. /\ WBNBGateway_withdrawBNB.validator.needs # {}
       /\ \A q : WBNBGateway_withdrawBNB.sends.to # Given(q)
  BY DEF User, Gateway, WBNBGateway_withdrawBNB, WBNBValidator, Method, Runs, Sends, Pays, Asks,
     Given, Fixed
<1>26. ERC20_approvedAmount.validator.needs = {} /\ ERC20_approvedAmount.sends.to = Given("token")
  BY DEF ERC20_approvedAmount, ERC20Validator, Method, Runs, Asks, Sends, Pays
<1> QED
  BY <1>1, <1>2, <1>3, <1>4, <1>5, <1>6, <1>7, <1>8, <1>9, <1>10, <1>11, <1>12, <1>13, <1>14,
     <1>15, <1>16, <1>17, <1>18, <1>19, <1>20, <1>21, <1>22, <1>23, <1>24, <1>25, <1>26

\* The permit that goes with a swap.
LEMMA FitPermit ==
    \A S, X : "permitSignature" \in S /\ "permitSignature" \notin X => FitsAlone(S, X, PermitParams)
BY FitSingle, Zenon DEF PermitParams

\* The two checks of the gateway that an amount may be passed on to as it is.
LEMMA AllOf ==
    /\ <<"isPositiveOrMinusOneAmount", "amount">> \in WBNBGateway_withdrawBNB.checks
    /\ <<"isPositiveAmount", "amount">> \in WBNBGateway_repayBNB.checks
BY DEF WBNBGateway_withdrawBNB, WBNBGateway_repayBNB, Method, isPositiveAmount,
       isPositiveOrMinusOneAmount

\* A route, by the parts that matter.
LEMMA Onwards ==
    ASSUME NEW m, NEW X, NEW r, NEW T, Methods[r.to] = T,
           PassedBy(Own(m), X, T.checks, r.with), Rechecked(m, r.with, T.checks),
           m.validator.needs = {} <=> T.validator.needs = {},
           \A q : T.sends.to = Given(q)
              => q \in DOMAIN r.with /\ \E p \in Own(m) : r.with[q] = Given(p)
    PROVE  Onward(m, X, r)
BY DEF Onward, Passes

\* The routes of Pool.
LEMMA PoolPasses ==
    /\ PassesOn(Pool_deposit, {})
    /\ PassesOn(Pool_supply, {})
    /\ PassesOn(Pool_supplyWithPermit, {})
    /\ PassesOn(Pool_withdraw, {"amount"})
    /\ PassesOn(Pool_borrow, {})
    /\ PassesOn(Pool_repay, {"amount"})
    /\ PassesOn(Pool_repayWithPermit, {"amount"})
    /\ PassesOn(Pool_repayWithLBTokens, {"amount"})
    /\ PassesOn(Pool_swapBorrowRateMode, {})
    /\ PassesOn(Pool_setUsageAsCollateral, {})
    /\ PassesOn(Pool_liquidationCall, {})
    /\ PassesOn(Pool_swapCollateral, {})
    /\ PassesOn(Pool_paraswapRepayWithCollateral, {})
<1>1. PassesOn(Pool_deposit, {})
  <2> DEFINE m == Pool_deposit
             r == DepositNative("POOL")
  <2>1. m.routes = <<r>>
    BY DEF Pool_deposit, Method
  <2>2. m.validator.needs # {}
    BY DEF Pool_deposit, Method, Runs, LPValidatorV3
  <2>3. PassedBy(Own(m), {}, WBNBGateway_depositBNB.checks, r.with)
    BY FitSingle DEF PassedBy, Own, Method, HandsOver, Pass, ++, Pool_deposit, DepositNative
  <2>4. Rechecked(m, r.with, WBNBGateway_depositBNB.checks)
    BY DEF Rechecked, Own, Method, HandsOver, Pass, ++, Pool_deposit, WBNBGateway_depositBNB,
       DepositNative, ReserveChecks, isBnbAddress, isPositiveAmount, is0OrPositiveAmount
  <2>5. r.to = "WBNBGateway_depositBNB"
    BY DEF HandsOver, DepositNative
  <2>6. Onward(m, {}, r)
    <3> HIDE DEF m, r
    <3> QED
      BY <2>2, <2>3, <2>4, <2>5, Onwards, Addressees, AdapterTable
  <2> HIDE DEF m, r
  <2> QED
    BY <2>1, <2>6 DEF PassesOn, m
<1>2. PassesOn(Pool_supply, {})
  <2> DEFINE m == Pool_supply
             r == DepositNative("POOL")
             s == HandsOver(Optimized, "L2Pool_supply", Pass({"user", "reserve", "referralCode"})
                  ++ InUnits)
  <2>1. m.routes = <<r, s>>
    BY DEF Pool_supply, Method
  <2>2. m.validator.needs # {}
    BY DEF Pool_supply, Method, Runs, LPValidatorV3
  <2>3. PassedBy(Own(m), {}, WBNBGateway_depositBNB.checks, r.with)
    BY FitSingle DEF PassedBy, Own, Method, HandsOver, Pass, ++, Pool_supply, DepositNative
  <2>4. Rechecked(m, r.with, WBNBGateway_depositBNB.checks)
    BY DEF Rechecked, Own, Method, HandsOver, Pass, ++, Pool_supply, WBNBGateway_depositBNB,
       DepositNative, ReserveChecks, isBnbAddress, isPositiveAmount, is0OrPositiveAmount
  <2>5. r.to = "WBNBGateway_depositBNB"
    BY DEF HandsOver, DepositNative
  <2>6. Onward(m, {}, r)
    <3> HIDE DEF m, r
    <3> QED
      BY <2>2, <2>3, <2>4, <2>5, Onwards, Addressees, AdapterTable
  <2>7. PassedBy(Own(m), {}, L2Pool_supply.checks, s.with)
    BY FitSingle DEF PassedBy, Own, Method, HandsOver, Pass, ++, Pool_supply, InUnits
  <2>8. Rechecked(m, s.with, L2Pool_supply.checks)
    BY DEF Rechecked, Own, Method, HandsOver, Pass, ++, Pool_supply, L2Pool_supply, InUnits,
       ReserveChecks, isBnbAddress, isPositiveAmount
  <2>9. s.to = "L2Pool_supply"
    BY DEF HandsOver
  <2>10. Onward(m, {}, s)
    <3> HIDE DEF m, s
    <3> QED
      BY <2>2, <2>7, <2>8, <2>9, Onwards, Addressees, L2PoolTable
  <2> HIDE DEF m, r, s
  <2> QED
    BY <2>1, <2>6, <2>10 DEF PassesOn, m
<1>3. PassesOn(Pool_supplyWithPermit, {})
  <2> DEFINE m == Pool_supplyWithPermit
             r == HandsOver(Optimized, "L2Pool_supplyWithPermit", Pass({"user", "reserve",
                  "referralCode", "deadline"}) ++ InUnits ++ SignatureParts)
  <2>1. m.routes = <<r>>
    BY DEF Pool_supplyWithPermit, Method
  <2>2. m.validator.needs # {}
    BY DEF Pool_supplyWithPermit, Method, Runs, LPValidatorV3
  <2>3. PassedBy(Own(m), {}, L2Pool_supplyWithPermit.checks, r.with)
    BY FitSingle DEF PassedBy, Own, Method, HandsOver, Pass, ++, Pool_supplyWithPermit, InUnits,
       SignatureParts
  <2>4. Rechecked(m, r.with, L2Pool_supplyWithPermit.checks)
    BY DEF Rechecked, Own, Method, HandsOver, Pass, ++, Pool_supplyWithPermit,
       L2Pool_supplyWithPermit, InUnits, SignatureParts, ReserveChecks, isBnbAddress,
       isPositiveAmount, isDeadline32Bytes
  <2>5. r.to = "L2Pool_supplyWithPermit"
    BY DEF HandsOver
  <2>6. Onward(m, {}, r)
    <3> HIDE DEF m, r
    <3> QED
      BY <2>2, <2>3, <2>4, <2>5, Onwards, Addressees, L2PoolTable
  <2> HIDE DEF m, r
  <2> QED
    BY <2>1, <2>6 DEF PassesOn, m
<1>4. PassesOn(Pool_withdraw, {"amount"})
  <2> DEFINE m == Pool_withdraw
             r == WithdrawNative("POOL")[1]
             s == WithdrawNative("POOL")[2]
             t == HandsOver(Optimized, "L2Pool_withdraw", Pass({"user", "reserve"}) ++
                  WhollyInUnits)
  <2>1. m.routes = <<r, s>> \o <<t>>
    BY DEF Pool_withdraw, Method, WithdrawNative
  <2>2. m.validator.needs # {}
    BY DEF Pool_withdraw, Method, Runs, LPValidatorV3
  <2>3. Onward(m, {"amount"}, r)
    BY NotMethods DEF Onward, Refuses, HandsOver, WithdrawNative
  <2>4. PassedBy(Own(m), {"amount"}, WBNBGateway_withdrawBNB.checks, s.with)
    BY FitSingle, AllOf DEF PassedBy, Own, Method, HandsOver, Pass, ++, Pool_withdraw,
       WithdrawNative
  <2>5. Rechecked(m, s.with, WBNBGateway_withdrawBNB.checks)
    BY DEF Rechecked, Own, Method, HandsOver, Pass, ++, Pool_withdraw, WBNBGateway_withdrawBNB,
       WithdrawNative, ReserveChecks, isBnbAddress, isPositiveOrMinusOneAmount
  <2>6. s.to = "WBNBGateway_withdrawBNB"
    BY DEF HandsOver, WithdrawNative
  <2>7. Onward(m, {"amount"}, s)
    <3> HIDE DEF m, s
    <3> QED
      BY <2>2, <2>4, <2>5, <2>6, Onwards, Addressees, AdapterTable
  <2>8. PassedBy(Own(m), {"amount"}, L2Pool_withdraw.checks, t.with)
    BY FitSingle DEF PassedBy, Own, Method, HandsOver, Pass, ++, Pool_withdraw, WhollyInUnits
  <2>9. Rechecked(m, t.with, L2Pool_withdraw.checks)
    BY DEF Rechecked, Own, Method, HandsOver, Pass, ++, Pool_withdraw, L2Pool_withdraw,
       WhollyInUnits, ReserveChecks, isBnbAddress, isPositiveOrMinusOneAmount
  <2>10. t.to = "L2Pool_withdraw"
    BY DEF HandsOver
  <2>11. Onward(m, {"amount"}, t)
    <3> HIDE DEF m, t
    <3> QED
      BY <2>2, <2>8, <2>9, <2>10, Onwards, Addressees, L2PoolTable
  <2> HIDE DEF m, r, s, t
  <2>12. \A i \in DOMAIN m.routes : m.routes[i] \in {r, s, t}
    BY <2>1, TwoThenOne
  <2> QED
    BY <2>3, <2>7, <2>11, <2>12 DEF PassesOn, m
<1>5. PassesOn(Pool_borrow, {})
  <2> DEFINE m == Pool_borrow
             r == BorrowNative("POOL")[1]
             s == BorrowNative("POOL")[2]
             t == HandsOver(Optimized, "L2Pool_borrow", Pass({"user", "reserve", "referralCode"})
                  ++ InUnits ++ Numeric("interestRateMode"))
  <2>1. m.routes = <<r, s>> \o <<t>>
    BY DEF Pool_borrow, Method, BorrowNative
  <2>2. m.validator.needs # {}
    BY DEF Pool_borrow, Method, Runs, LPValidatorV3
  <2>3. Onward(m, {}, r)
    BY NotMethods DEF Onward, Refuses, HandsOver, BorrowNative
  <2>4. PassedBy(Own(m), {}, WBNBGateway_borrowBNB.checks, s.with)
    BY FitSingle DEF PassedBy, Own, Method, HandsOver, Pass, ++, Pool_borrow, BorrowNative
  <2>5. Rechecked(m, s.with, WBNBGateway_borrowBNB.checks)
    BY DEF Rechecked, Own, Method, HandsOver, Pass, ++, Pool_borrow, WBNBGateway_borrowBNB,
       BorrowNative, ReserveChecks, BorrowChecks, isBnbAddress, isPositiveAmount,
       is0OrPositiveAmount
  <2>6. s.to = "WBNBGateway_borrowBNB"
    BY DEF HandsOver, BorrowNative
  <2>7. Onward(m, {}, s)
    <3> HIDE DEF m, s
    <3> QED
      BY <2>2, <2>4, <2>5, <2>6, Onwards, Addressees, AdapterTable
  <2>8. PassedBy(Own(m), {}, L2Pool_borrow.checks, t.with)
    BY FitSingle DEF PassedBy, Own, Method, HandsOver, Pass, ++, Pool_borrow, InUnits, Numeric
  <2>9. Rechecked(m, t.with, L2Pool_borrow.checks)
    BY DEF Rechecked, Own, Method, HandsOver, Pass, ++, Pool_borrow, L2Pool_borrow, InUnits,
       Numeric, ReserveChecks, BorrowChecks, isBnbAddress, isPositiveAmount
  <2>10. t.to = "L2Pool_borrow"
    BY DEF HandsOver
  <2>11. Onward(m, {}, t)
    <3> HIDE DEF m, t
    <3> QED
      BY <2>2, <2>8, <2>9, <2>10, Onwards, Addressees, L2PoolTable
  <2> HIDE DEF m, r, s, t
  <2>12. \A i \in DOMAIN m.routes : m.routes[i] \in {r, s, t}
    BY <2>1, TwoThenOne
  <2> QED
    BY <2>3, <2>7, <2>11, <2>12 DEF PassesOn, m
<1>6. PassesOn(Pool_repay, {"amount"})
  <2> DEFINE m == Pool_repay
             r == RepayNative("POOL")
             s == HandsOver(Optimized, "L2Pool_repay", Pass({"user", "reserve"}) ++ WhollyInUnits
                  ++ Numeric("interestRateMode"))
  <2>1. m.routes = <<r, s>>
    BY DEF Pool_repay, Method
  <2>2. m.validator.needs # {}
    BY DEF Pool_repay, Method, Runs, LPValidatorV3
  <2>3. PassedBy(Own(m), {"amount"}, WBNBGateway_repayBNB.checks, r.with)
    BY FitSingle, AllOf DEF PassedBy, Own, Method, HandsOver, Pass, ++, Pool_repay, RepayNative
  <2>4. Rechecked(m, r.with, WBNBGateway_repayBNB.checks)
    BY DEF Rechecked, Own, Method, HandsOver, Pass, ++, Pool_repay, WBNBGateway_repayBNB,
       RepayNative, ReserveChecks, RepayChecks, isBnbAddress, isPositiveAmount,
       isPositiveOrMinusOneAmount
  <2>5. r.to = "WBNBGateway_repayBNB"
    BY DEF HandsOver, RepayNative
  <2>6. Onward(m, {"amount"}, r)
    <3> HIDE DEF m, r
    <3> QED
      BY <2>2, <2>3, <2>4, <2>5, Onwards, Addressees, AdapterTable
  <2>7. PassedBy(Own(m), {"amount"}, L2Pool_repay.checks, s.with)
    BY FitSingle DEF PassedBy, Own, Method, HandsOver, Pass, ++, Pool_repay, WhollyInUnits,
       Numeric
  <2>8. Rechecked(m, s.with, L2Pool_repay.checks)
    BY DEF Rechecked, Own, Method, HandsOver, Pass, ++, Pool_repay, L2Pool_repay, WhollyInUnits,
       Numeric, ReserveChecks, RepayChecks, isBnbAddress, isPositiveOrMinusOneAmount
  <2>9. s.to = "L2Pool_repay"
    BY DEF HandsOver
  <2>10. Onward(m, {"amount"}, s)
    <3> HIDE DEF m, s
    <3> QED
      BY <2>2, <2>7, <2>8, <2>9, Onwards, Addressees, L2PoolTable
  <2> HIDE DEF m, r, s
  <2> QED
    BY <2>1, <2>6, <2>10 DEF PassesOn, m
<1>7. PassesOn(Pool_repayWithPermit, {"amount"})
  <2> DEFINE m == Pool_repayWithPermit
             r == HandsOver(Optimized, "L2Pool_repayWithPermit", Pass({"user", "reserve",
                  "deadline"}) ++ WhollyInUnits ++ Numeric("interestRateMode") ++ SignatureParts)
  <2>1. m.routes = <<r>>
    BY DEF Pool_repayWithPermit, Method
  <2>2. m.validator.needs # {}
    BY DEF Pool_repayWithPermit, Method, Runs, LPValidatorV3
  <2>3. PassedBy(Own(m), {"amount"}, L2Pool_repayWithPermit.checks, r.with)
    BY FitSingle DEF PassedBy, Own, Method, HandsOver, Pass, ++, Pool_repayWithPermit,
       WhollyInUnits, Numeric, SignatureParts
  <2>4. Rechecked(m, r.with, L2Pool_repayWithPermit.checks)
    BY DEF Rechecked, Own, Method, HandsOver, Pass, ++, Pool_repayWithPermit,
       L2Pool_repayWithPermit, WhollyInUnits, Numeric, SignatureParts, ReserveChecks, RepayChecks,
       isBnbAddress, isPositiveOrMinusOneAmount, isDeadline32Bytes
  <2>5. r.to = "L2Pool_repayWithPermit"
    BY DEF HandsOver
  <2>6. Onward(m, {"amount"}, r)
    <3> HIDE DEF m, r
    <3> QED
      BY <2>2, <2>3, <2>4, <2>5, Onwards, Addressees, L2PoolTable
  <2> HIDE DEF m, r
  <2> QED
    BY <2>1, <2>6 DEF PassesOn, m
<1>8. PassesOn(Pool_repayWithLBTokens, {"amount"})
  <2> DEFINE m == Pool_repayWithLBTokens
             r == Refuses({Native("reserve")})
             s == HandsOver(Optimized, "L2Pool_repayWithLBTokens", Pass({"user", "reserve"}) ++
                  WhollyInUnits ++ Numeric("rateMode"))
  <2>1. m.routes = <<r, s>>
    BY DEF Pool_repayWithLBTokens, Method
  <2>2. m.validator.needs # {}
    BY DEF Pool_repayWithLBTokens, Method, Runs, LPValidatorV3
  <2>3. Onward(m, {"amount"}, r)
    BY NotMethods DEF Onward, Refuses, HandsOver
  <2>4. PassedBy(Own(m), {"amount"}, L2Pool_repayWithLBTokens.checks, s.with)
    BY FitSingle DEF PassedBy, Own, Method, HandsOver, Pass, ++, Pool_repayWithLBTokens,
       WhollyInUnits, Numeric
  <2>5. Rechecked(m, s.with, L2Pool_repayWithLBTokens.checks)
    BY DEF Rechecked, Own, Method, HandsOver, Pass, ++, Pool_repayWithLBTokens,
       L2Pool_repayWithLBTokens, WhollyInUnits, Numeric, ReserveChecks, isBnbAddress,
       isPositiveOrMinusOneAmount
  <2>6. s.to = "L2Pool_repayWithLBTokens"
    BY DEF HandsOver
  <2>7. Onward(m, {"amount"}, s)
    <3> HIDE DEF m, s
    <3> QED
      BY <2>2, <2>4, <2>5, <2>6, Onwards, Addressees, L2PoolTable
  <2> HIDE DEF m, r, s
  <2> QED
    BY <2>1, <2>3, <2>7 DEF PassesOn, m
<1>9. PassesOn(Pool_swapBorrowRateMode, {})
  <2> DEFINE m == Pool_swapBorrowRateMode
             r == HandsOver(Optimized, "L2Pool_swapBorrowRateMode", Pass({"user", "reserve"}) ++
                  Numeric("interestRateMode"))
  <2>1. m.routes = <<r>>
    BY DEF Pool_swapBorrowRateMode, Method
  <2>2. m.validator.needs # {}
    BY DEF Pool_swapBorrowRateMode, Method, Runs, LPValidatorV3
  <2>3. PassedBy(Own(m), {}, L2Pool_swapBorrowRateMode.checks, r.with)
    BY FitSingle DEF PassedBy, Own, Method, HandsOver, Pass, ++, Pool_swapBorrowRateMode, Numeric
  <2>4. Rechecked(m, r.with, L2Pool_swapBorrowRateMode.checks)
    BY DEF Rechecked, Own, Method, HandsOver, Pass, ++, Pool_swapBorrowRateMode,
       L2Pool_swapBorrowRateMode, Numeric, ReserveChecks, isBnbAddress
  <2>5. r.to = "L2Pool_swapBorrowRateMode"
    BY DEF HandsOver
  <2>6. Onward(m, {}, r)
    <3> HIDE DEF m, r
    <3> QED
      BY <2>2, <2>3, <2>4, <2>5, Onwards, Addressees, L2PoolTable
  <2> HIDE DEF m, r
  <2> QED
    BY <2>1, <2>6 DEF PassesOn, m
<1>10. PassesOn(Pool_setUsageAsCollateral, {})
  <2> DEFINE m == Pool_setUsageAsCollateral
             r == HandsOver(Optimized, "L2Pool_setUserUseReserveAsCollateral", Pass({"user",
                  "reserve", "usageAsCollateral"}))
  <2>1. m.routes = <<r>>
    BY DEF Pool_setUsageAsCollateral, Method
  <2>2. m.validator.needs # {}
    BY DEF Pool_setUsageAsCollateral, Method, Runs, LPValidatorV3
  <2>3. PassedBy(Own(m), {}, L2Pool_setUserUseReserveAsCollateral.checks, r.with)
    BY FitSingle DEF PassedBy, Own, Method, HandsOver, Pass, ++, Pool_setUsageAsCollateral
  <2>4. Rechecked(m, r.with, L2Pool_setUserUseReserveAsCollateral.checks)
    BY DEF Rechecked, Own, Method, HandsOver, Pass, ++, Pool_setUsageAsCollateral,
       L2Pool_setUserUseReserveAsCollateral, ReserveChecks, isBnbAddress
  <2>5. r.to = "L2Pool_setUserUseReserveAsCollateral"
    BY DEF HandsOver
  <2>6. Onward(m, {}, r)
    <3> HIDE DEF m, r
    <3> QED
      BY <2>2, <2>3, <2>4, <2>5, Onwards, Addressees, L2PoolTable
  <2> HIDE DEF m, r
  <2> QED
    BY <2>1, <2>6 DEF PassesOn, m
<1>11. PassesOn(Pool_liquidationCall, {})
  <2> DEFINE m == Pool_liquidationCall
             r == HandsOver(Optimized, "L2Pool_liquidationCall", Pass({"liquidator",
                  "liquidatedUser", "debtReserve", "collateralReserve", "getLBToken"}) ++
                  [debtToCover |-> DebtToCover])
  <2>1. m.routes = <<r>>
    BY DEF Pool_liquidationCall, Method
  <2>2. m.validator.needs # {}
    BY DEF Pool_liquidationCall, Method, Runs, LPValidatorV3
  <2>3. PassedBy(Own(m), {}, L2Pool_liquidationCall.checks, r.with)
    BY FitSingle DEF PassedBy, Own, Method, HandsOver, Pass, ++, Pool_liquidationCall, DebtToCover
  <2>4. Rechecked(m, r.with, L2Pool_liquidationCall.checks)
    BY DEF Rechecked, Own, Method, HandsOver, Pass, ++, Pool_liquidationCall,
       L2Pool_liquidationCall, LiquidationChecks, isBnbAddress, isPositiveAmount
  <2>5. r.to = "L2Pool_liquidationCall"
    BY DEF HandsOver
  <2>6. Onward(m, {}, r)
    <3> HIDE DEF m, r
    <3> QED
      BY <2>2, <2>3, <2>4, <2>5, Onwards, Addressees, L2PoolTable
  <2> HIDE DEF m, r
  <2> QED
    BY <2>1, <2>6 DEF PassesOn, m
<1>12. PassesOn(Pool_swapCollateral, {})
  <2> DEFINE m == Pool_swapCollateral
             r == SwapDirectly
  <2>1. m.routes = <<r>>
    BY DEF Pool_swapCollateral, Method
  <2>2. m.validator.needs # {}
    BY DEF Pool_swapCollateral, Method, Runs, LPSwapCollateralValidatorV3
  <2>3. PassedBy(Own(m), {}, LiquiditySwapAdapter_swapAndDeposit.checks, r.with)
    BY FitSingle, FitPermit DEF PassedBy, Own, Method, HandsOver, Pass, ++, Pool_swapCollateral,
       SwapDirectly, SwapRequired
  <2>4. Rechecked(m, r.with, LiquiditySwapAdapter_swapAndDeposit.checks)
    BY DEF Rechecked, Own, Method, HandsOver, Pass, ++, Pool_swapCollateral,
       LiquiditySwapAdapter_swapAndDeposit, SwapDirectly, SwapRequired, SwapChecks, isBnbAddress,
       isPositiveAmount
  <2>5. r.to = "LiquiditySwapAdapter_swapAndDeposit"
    BY DEF HandsOver, SwapDirectly
  <2>6. Onward(m, {}, r)
    <3> HIDE DEF m, r
    <3> QED
      BY <2>2, <2>3, <2>4, <2>5, Onwards, Addressees, AdapterTable
  <2> HIDE DEF m, r
  <2> QED
    BY <2>1, <2>6 DEF PassesOn, m
<1>13. PassesOn(Pool_paraswapRepayWithCollateral, {})
  <2> DEFINE m == Pool_paraswapRepayWithCollateral
             r == RepayDirectly
  <2>1. m.routes = <<r>>
    BY DEF Pool_paraswapRepayWithCollateral, Method
  <2>2. m.validator.needs # {}
    BY DEF Pool_paraswapRepayWithCollateral, Method, Runs, LPRepayWithCollateralValidatorV3
  <2>3. PassedBy(Own(m), {}, ParaswapRepay_swapAndRepay.checks, r.with)
    BY FitSingle, FitPermit DEF PassedBy, Own, Method, HandsOver, Pass, ++,
       Pool_paraswapRepayWithCollateral, RepayDirectly, ParaswapRequired
  <2>4. Rechecked(m, r.with, ParaswapRepay_swapAndRepay.checks)
    BY DEF Rechecked, Own, Method, HandsOver, Pass, ++, Pool_paraswapRepayWithCollateral,
       ParaswapRepay_swapAndRepay, RepayDirectly, ParaswapRequired, ParaswapChecks, isBnbAddress,
       isPositiveAmount
  <2>5. r.to = "ParaswapRepay_swapAndRepay"
    BY DEF HandsOver, RepayDirectly
  <2>6. Onward(m, {}, r)
    <3> HIDE DEF m, r
    <3> QED
      BY <2>2, <2>3, <2>4, <2>5, Onwards, Addressees, AdapterTable
  <2> HIDE DEF m, r
  <2> QED
    BY <2>1, <2>6 DEF PassesOn, m
<1> QED
  BY <1>1, <1>2, <1>3, <1>4, <1>5, <1>6, <1>7, <1>8, <1>9, <1>10, <1>11, <1>12, <1>13

\* The routes of LendingPool.
LEMMA LendingPoolPasses ==
    /\ PassesOn(LendingPool_deposit, {})
    /\ PassesOn(LendingPool_withdraw, {"amount"})
    /\ PassesOn(LendingPool_borrow, {})
    /\ PassesOn(LendingPool_repay, {"amount"})
    /\ PassesOn(LendingPool_swapCollateral, {})
    /\ PassesOn(LendingPool_repayWithCollateral, {})
    /\ PassesOn(LendingPool_paraswapRepayWithCollateral, {})
<1>1. PassesOn(LendingPool_deposit, {})
  <2> DEFINE m == LendingPool_deposit
             r == DepositNative("LENDING_POOL")
  <2>1. m.routes = <<r>>
    BY DEF LendingPool_deposit, Method
  <2>2. m.validator.needs # {}
    BY DEF LendingPool_deposit, Method, Runs, LPValidator
  <2>3. PassedBy(Own(m), {}, WBNBGateway_depositBNB.checks, r.with)
    BY FitSingle DEF PassedBy, Own, Method, HandsOver, Pass, ++, LendingPool_deposit,
       DepositNative
  <2>4. Rechecked(m, r.with, WBNBGateway_depositBNB.checks)
    BY DEF Rechecked, Own, Method, HandsOver, Pass, ++, LendingPool_deposit,
       WBNBGateway_depositBNB, DepositNative, ReserveChecks, isBnbAddress, isPositiveAmount,
       is0OrPositiveAmount
  <2>5. r.to = "WBNBGateway_depositBNB"
    BY DEF HandsOver, DepositNative
  <2>6. Onward(m, {}, r)
    <3> HIDE DEF m, r
    <3> QED
      BY <2>2, <2>3, <2>4, <2>5, Onwards, Addressees, AdapterTable
  <2> HIDE DEF m, r
  <2> QED
    BY <2>1, <2>6 DEF PassesOn, m
<1>2. PassesOn(LendingPool_withdraw, {"amount"})
  <2> DEFINE m == LendingPool_withdraw
             r == WithdrawNative("LENDING_POOL")[1]
             s == WithdrawNative("LENDING_POOL")[2]
  <2>1. m.routes = <<r, s>>
    BY DEF LendingPool_withdraw, Method, WithdrawNative
  <2>2. m.validator.needs # {}
    BY DEF LendingPool_withdraw, Method, Runs, LPValidator
  <2>3. Onward(m, {"amount"}, r)
    BY NotMethods DEF Onward, Refuses, HandsOver, WithdrawNative
  <2>4. PassedBy(Own(m), {"amount"}, WBNBGateway_withdrawBNB.checks, s.with)
    BY FitSingle, AllOf DEF PassedBy, Own, Method, HandsOver, Pass, ++, LendingPool_withdraw,
       WithdrawNative
  <2>5. Rechecked(m, s.with, WBNBGateway_withdrawBNB.checks)
    BY DEF Rechecked, Own, Method, HandsOver, Pass, ++, LendingPool_withdraw,
       WBNBGateway_withdrawBNB, WithdrawNative, ReserveChecks, isBnbAddress,
       isPositiveOrMinusOneAmount
  <2>6. s.to = "WBNBGateway_withdrawBNB"
    BY DEF HandsOver, WithdrawNative
  <2>7. Onward(m, {"amount"}, s)
    <3> HIDE DEF m, s
    <3> QED
      BY <2>2, <2>4, <2>5, <2>6, Onwards, Addressees, AdapterTable
  <2> HIDE DEF m, r, s
  <2> QED
    BY <2>1, <2>3, <2>7 DEF PassesOn, m
<1>3. PassesOn(LendingPool_borrow, {})
  <2> DEFINE m == LendingPool_borrow
             r == BorrowNative("LENDING_POOL")[1]
             s == BorrowNative("LENDING_POOL")[2]
  <2>1. m.routes = <<r, s>>
    BY DEF LendingPool_borrow, Method, BorrowNative
  <2>2. m.validator.needs # {}
    BY DEF LendingPool_borrow, Method, Runs, LPValidator
  <2>3. Onward(m, {}, r)
    BY NotMethods DEF Onward, Refuses, HandsOver, BorrowNative
  <2>4. PassedBy(Own(m), {}, WBNBGateway_borrowBNB.checks, s.with)
    BY FitSingle DEF PassedBy, Own, Method, HandsOver, Pass, ++, LendingPool_borrow, BorrowNative
  <2>5. Rechecked(m, s.with, WBNBGateway_borrowBNB.checks)
    BY DEF Rechecked, Own, Method, HandsOver, Pass, ++, LendingPool_borrow, WBNBGateway_borrowBNB,
       BorrowNative, ReserveChecks, BorrowChecks, isBnbAddress, isPositiveAmount,
       is0OrPositiveAmount
  <2>6. s.to = "WBNBGateway_borrowBNB"
    BY DEF HandsOver, BorrowNative
  <2>7. Onward(m, {}, s)
    <3> HIDE DEF m, s
    <3> QED
      BY <2>2, <2>4, <2>5, <2>6, Onwards, Addressees, AdapterTable
  <2> HIDE DEF m, r, s
  <2> QED
    BY <2>1, <2>3, <2>7 DEF PassesOn, m
<1>4. PassesOn(LendingPool_repay, {"amount"})
  <2> DEFINE m == LendingPool_repay
             r == RepayNative("LENDING_POOL")
  <2>1. m.routes = <<r>>
    BY DEF LendingPool_repay, Method
  <2>2. m.validator.needs # {}
    BY DEF LendingPool_repay, Method, Runs, LPValidator
  <2>3. PassedBy(Own(m), {"amount"}, WBNBGateway_repayBNB.checks, r.with)
    BY FitSingle, AllOf DEF PassedBy, Own, Method, HandsOver, Pass, ++, LendingPool_repay,
       RepayNative
  <2>4. Rechecked(m, r.with, WBNBGateway_repayBNB.checks)
    BY DEF Rechecked, Own, Method, HandsOver, Pass, ++, LendingPool_repay, WBNBGateway_repayBNB,
       RepayNative, ReserveChecks, RepayChecks, isBnbAddress, isPositiveAmount,
       isPositiveOrMinusOneAmount
  <2>5. r.to = "WBNBGateway_repayBNB"
    BY DEF HandsOver, RepayNative
  <2>6. Onward(m, {"amount"}, r)
    <3> HIDE DEF m, r
    <3> QED
      BY <2>2, <2>3, <2>4, <2>5, Onwards, Addressees, AdapterTable
  <2> HIDE DEF m, r
  <2> QED
    BY <2>1, <2>6 DEF PassesOn, m
<1>5. PassesOn(LendingPool_swapCollateral, {})
  <2> DEFINE m == LendingPool_swapCollateral
             r == SwapDirectly
  <2>1. m.routes = <<r>>
    BY DEF LendingPool_swapCollateral, Method
  <2>2. m.validator.needs # {}
    BY DEF LendingPool_swapCollateral, Method, Runs, LPSwapCollateralValidator
  <2>3. PassedBy(Own(m), {}, LiquiditySwapAdapter_swapAndDeposit.checks, r.with)
    BY FitSingle, FitPermit DEF PassedBy, Own, Method, HandsOver, Pass, ++,
       LendingPool_swapCollateral, SwapDirectly, SwapRequired
  <2>4. Rechecked(m, r.with, LiquiditySwapAdapter_swapAndDeposit.checks)
    BY DEF Rechecked, Own, Method, HandsOver, Pass, ++, LendingPool_swapCollateral,
       LiquiditySwapAdapter_swapAndDeposit, SwapDirectly, SwapRequired, SwapChecks, isBnbAddress,
       isPositiveAmount
  <2>5. r.to = "LiquiditySwapAdapter_swapAndDeposit"
    BY DEF HandsOver, SwapDirectly
  <2>6. Onward(m, {}, r)
    <3> HIDE DEF m, r
    <3> QED
      BY <2>2, <2>3, <2>4, <2>5, Onwards, Addressees, AdapterTable
  <2> HIDE DEF m, r
  <2> QED
    BY <2>1, <2>6 DEF PassesOn, m
<1>6. PassesOn(LendingPool_repayWithCollateral, {})
  <2> DEFINE m == LendingPool_repayWithCollateral
             r == LendingPool_repayWithCollateral.routes[1]
  <2>1. m.routes = <<r>>
    BY DEF LendingPool_repayWithCollateral, Method
  <2>2. m.validator.needs # {}
    BY DEF LendingPool_repayWithCollateral, Method, Runs, LPRepayWithCollateralValidator
  <2>3. PassedBy(Own(m), {}, RepayWithCollateralAdapter_swapAndRepay.checks, r.with)
    BY FitSingle, FitPermit DEF PassedBy, Own, Method, HandsOver, Pass, ++,
       LendingPool_repayWithCollateral, RepayAmount
  <2>4. Rechecked(m, r.with, RepayWithCollateralAdapter_swapAndRepay.checks)
    BY DEF Rechecked, Own, Method, HandsOver, Pass, ++, LendingPool_repayWithCollateral,
       RepayWithCollateralAdapter_swapAndRepay, isBnbAddress, isPositiveAmount
  <2>5. r.to = "RepayWithCollateralAdapter_swapAndRepay"
    BY DEF HandsOver, LendingPool_repayWithCollateral, Method
  <2>6. Onward(m, {}, r)
    <3> HIDE DEF m, r
    <3> QED
      BY <2>2, <2>3, <2>4, <2>5, Onwards, Addressees, AdapterTable
  <2> HIDE DEF m, r
  <2> QED
    BY <2>1, <2>6 DEF PassesOn, m
<1>7. PassesOn(LendingPool_paraswapRepayWithCollateral, {})
  <2> DEFINE m == LendingPool_paraswapRepayWithCollateral
             r == RepayDirectly
  <2>1. m.routes = <<r>>
    BY DEF LendingPool_paraswapRepayWithCollateral, Method
  <2>2. m.validator.needs # {}
    BY DEF LendingPool_paraswapRepayWithCollateral, Method, Runs, LPRepayWithCollateralValidator
  <2>3. PassedBy(Own(m), {}, ParaswapRepay_swapAndRepay.checks, r.with)
    BY FitSingle, FitPermit DEF PassedBy, Own, Method, HandsOver, Pass, ++,
       LendingPool_paraswapRepayWithCollateral, RepayDirectly, ParaswapRequired
  <2>4. Rechecked(m, r.with, ParaswapRepay_swapAndRepay.checks)
    BY DEF Rechecked, Own, Method, HandsOver, Pass, ++, LendingPool_paraswapRepayWithCollateral,
       ParaswapRepay_swapAndRepay, RepayDirectly, ParaswapRequired, ParaswapChecks, isBnbAddress,
       isPositiveAmount
  <2>5. r.to = "ParaswapRepay_swapAndRepay"
    BY DEF HandsOver, RepayDirectly
  <2>6. Onward(m, {}, r)
    <3> HIDE DEF m, r
    <3> QED
      BY <2>2, <2>3, <2>4, <2>5, Onwards, Addressees, AdapterTable
  <2> HIDE DEF m, r
  <2> QED
    BY <2>1, <2>6 DEF PassesOn, m
<1> QED
  BY <1>1, <1>2, <1>3, <1>4, <1>5, <1>6, <1>7

\* The routes of the bundles.
LEMMA BundlePasses ==
    /\ PassesOn(PoolBundle_getApprovedAmount, {})
    /\ PassesOn(PoolBundle_supply_generateTxData, {})
    /\ PassesOn(PoolBundle_supply_generateSignedTxData, {})
    /\ PassesOn(PoolBundle_borrow_generateTxData, {})
    /\ PassesOn(LendingPoolBundle_getApprovedAmount, {})
    /\ PassesOn(LendingPoolBundle_deposit_generateTxData, {})
    /\ PassesOn(LendingPoolBundle_borrow_generateTxData, {})
<1>1. PassesOn(PoolBundle_getApprovedAmount, {})
  <2> DEFINE m == PoolBundle_getApprovedAmount
             r == Allowance("POOL")[1]
             s == Allowance("POOL")[2]
  <2>1. m.routes = <<r, s>>
    BY DEF PoolBundle_getApprovedAmount, Method, Allowance
  <2>2. m.validator.needs = {}
    BY DEF PoolBundle_getApprovedAmount, Method, Runs, Unchecked
  <2>3. PassedBy(Own(m), {}, ERC20_approvedAmount.checks, r.with)
    BY FitSingle DEF PassedBy, Own, Method, HandsOver, Pass, ++, PoolBundle_getApprovedAmount,
       Allowance
  <2>4. Rechecked(m, r.with, ERC20_approvedAmount.checks)
    BY DEF Rechecked, Own, Method, HandsOver, Pass, ++, PoolBundle_getApprovedAmount,
       ERC20_approvedAmount, Allowance, isBnbAddress
  <2>5. r.to = "ERC20_approvedAmount" /\ "token" \in DOMAIN r.with
        /\ r.with["token"] = Given("token") /\ "token" \in Own(m)
    BY DEF Own, Method, HandsOver, Pass, ++, PoolBundle_getApprovedAmount, Allowance
  <2>6. Onward(m, {}, r)
    <3> HIDE DEF m, r
    <3> QED
      BY <2>2, <2>3, <2>4, <2>5, Onwards, Addressees, TokenTable DEF Given
  <2>7. PassedBy(Own(m), {}, ERC20_approvedAmount.checks, s.with)
    BY FitSingle DEF PassedBy, Own, Method, HandsOver, Pass, ++, PoolBundle_getApprovedAmount,
       Allowance
  <2>8. Rechecked(m, s.with, ERC20_approvedAmount.checks)
    BY DEF Rechecked, Own, Method, HandsOver, Pass, ++, PoolBundle_getApprovedAmount,
       ERC20_approvedAmount, Allowance, isBnbAddress
  <2>9. s.to = "ERC20_approvedAmount" /\ "token" \in DOMAIN s.with
        /\ s.with["token"] = Given("token") /\ "token" \in Own(m)
    BY DEF Own, Method, HandsOver, Pass, ++, PoolBundle_getApprovedAmount, Allowance
  <2>10. Onward(m, {}, s)
    <3> HIDE DEF m, s
    <3> QED
      BY <2>2, <2>7, <2>8, <2>9, Onwards, Addressees, TokenTable DEF Given
  <2> HIDE DEF m, r, s
  <2> QED
    BY <2>1, <2>6, <2>10 DEF PassesOn, m
<1>2. PassesOn(PoolBundle_supply_generateTxData, {})
  <2> DEFINE m == PoolBundle_supply_generateTxData
             r == GenerateDepositNative("POOL")
             s == HandsOver(Encoded, "L2Pool_generateEncodedSupplyTxData", Pass({"user",
                  "encodedTxData"}))
             t == HandsOver(Optimized, "L2Pool_generateSupplyTxData", Pass({"user", "reserve",
                  "amount"}) ++ [onBehalfOf |-> Behalf, referralCode |-> Referral])
  <2>1. m.routes = <<r, s, t>>
    BY DEF PoolBundle_supply_generateTxData, Method
  <2>2. m.validator.needs = {}
    BY DEF PoolBundle_supply_generateTxData, Method, Runs, Unchecked
  <2>3. PassedBy(Own(m), {}, WBNBGateway_generateDepositEthTxData.checks, r.with)
    BY FitSingle DEF PassedBy, Own, Method, HandsOver, Pass, ++, PoolBundle_supply_generateTxData,
       GenerateDepositNative, Behalf, Referral
  <2>4. Rechecked(m, r.with, WBNBGateway_generateDepositEthTxData.checks)
    BY DEF Rechecked, Own, Method, HandsOver, Pass, ++, PoolBundle_supply_generateTxData,
       WBNBGateway_generateDepositEthTxData, GenerateDepositNative, Behalf, Referral
  <2>5. r.to = "WBNBGateway_generateDepositEthTxData"
    BY DEF HandsOver, GenerateDepositNative
  <2>6. Onward(m, {}, r)
    <3> HIDE DEF m, r
    <3> QED
      BY <2>2, <2>3, <2>4, <2>5, Onwards, Addressees, AdapterTable
  <2>7. PassedBy(Own(m), {}, L2Pool_generateEncodedSupplyTxData.checks, s.with)
    BY FitSingle DEF PassedBy, Own, Method, HandsOver, Pass, ++, PoolBundle_supply_generateTxData
  <2>8. Rechecked(m, s.with, L2Pool_generateEncodedSupplyTxData.checks)
    BY DEF Rechecked, Own, Method, HandsOver, Pass, ++, PoolBundle_supply_generateTxData,
       L2Pool_generateEncodedSupplyTxData
  <2>9. s.to = "L2Pool_generateEncodedSupplyTxData"
    BY DEF HandsOver
  <2>10. Onward(m, {}, s)
    <3> HIDE DEF m, s
    <3> QED
      BY <2>2, <2>7, <2>8, <2>9, Onwards, Addressees, L2PoolTable
  <2>11. PassedBy(Own(m), {}, L2Pool_generateSupplyTxData.checks, t.with)
    BY FitSingle DEF PassedBy, Own, Method, HandsOver, Pass, ++, PoolBundle_supply_generateTxData,
       Behalf, Referral
  <2>12. Rechecked(m, t.with, L2Pool_generateSupplyTxData.checks)
    BY DEF Rechecked, Own, Method, HandsOver, Pass, ++, PoolBundle_supply_generateTxData,
       L2Pool_generateSupplyTxData, Behalf, Referral
  <2>13. t.to = "L2Pool_generateSupplyTxData"
    BY DEF HandsOver
  <2>14. Onward(m, {}, t)
    <3> HIDE DEF m, t
    <3> QED
      BY <2>2, <2>11, <2>12, <2>13, Onwards, Addressees, L2PoolTable
  <2> HIDE DEF m, r, s, t
  <2> QED
    BY <2>1, <2>6, <2>10, <2>14 DEF PassesOn, m
<1>3. PassesOn(PoolBundle_supply_generateSignedTxData, {})
  <2> DEFINE m == PoolBundle_supply_generateSignedTxData
             r == HandsOver(Encoded, "L2Pool_generateEncodedSupplyWithPermitTxData", Pass({"user",
                  "encodedTxData", "signature"}))
             s == HandsOver(Optimized, "L2Pool_generateSupplyWithPermitTxData", Pass({"user",
                  "reserve", "amount", "deadline"}) ++ SignatureParts ++ [onBehalfOf |-> Behalf,
                  referralCode |-> Referral])
  <2>1. m.routes = <<r, s>>
    BY DEF PoolBundle_supply_generateSignedTxData, Method
  <2>2. m.validator.needs = {}
    BY DEF PoolBundle_supply_generateSignedTxData, Method, Runs, Unchecked
  <2>3. PassedBy(Own(m), {}, L2Pool_generateEncodedSupplyWithPermitTxData.checks, r.with)
    BY FitSingle DEF PassedBy, Own, Method, HandsOver, Pass, ++,
       PoolBundle_supply_generateSignedTxData
  <2>4. Rechecked(m, r.with, L2Pool_generateEncodedSupplyWithPermitTxData.checks)
    BY DEF Rechecked, Own, Method, HandsOver, Pass, ++, PoolBundle_supply_generateSignedTxData,
       L2Pool_generateEncodedSupplyWithPermitTxData
  <2>5. r.to = "L2Pool_generateEncodedSupplyWithPermitTxData"
    BY DEF HandsOver
  <2>6. Onward(m, {}, r)
    <3> HIDE DEF m, r
    <3> QED
      BY <2>2, <2>3, <2>4, <2>5, Onwards, Addressees, L2PoolTable
  <2>7. PassedBy(Own(m), {}, L2Pool_generateSupplyWithPermitTxData.checks, s.with)
    BY FitSingle DEF PassedBy, Own, Method, HandsOver, Pass, ++,
       PoolBundle_supply_generateSignedTxData, SignatureParts, Behalf, Referral
  <2>8. Rechecked(m, s.with, L2Pool_generateSupplyWithPermitTxData.checks)
    BY DEF Rechecked, Own, Method, HandsOver, Pass, ++, PoolBundle_supply_generateSignedTxData,
       L2Pool_generateSupplyWithPermitTxData, SignatureParts, Behalf, Referral
  <2>9. s.to = "L2Pool_generateSupplyWithPermitTxData"
    BY DEF HandsOver
  <2>10. Onward(m, {}, s)
    <3> HIDE DEF m, s
    <3> QED
      BY <2>2, <2>7, <2>8, <2>9, Onwards, Addressees, L2PoolTable
  <2> HIDE DEF m, r, s
  <2> QED
    BY <2>1, <2>6, <2>10 DEF PassesOn, m
<1>4. PassesOn(PoolBundle_borrow_generateTxData, {})
  <2> DEFINE m == PoolBundle_borrow_generateTxData
             r == GenerateBorrowNative("POOL")[1]
             s == GenerateBorrowNative("POOL")[2]
             t == HandsOver(Encoded, "L2Pool_generateEncodedBorrowTxData", Pass({"user",
                  "encodedTxData"}))
             u == HandsOver(Optimized, "L2Pool_generateBorrowTxData", Pass({"user", "reserve",
                  "amount"}) ++ Numeric("interestRateMode") ++ [onBehalfOf |-> Behalf,
                  referralCode |-> Referral])
  <2>1. m.routes = <<r, s>> \o <<t, u>>
    BY DEF PoolBundle_borrow_generateTxData, Method, GenerateBorrowNative
  <2>2. m.validator.needs = {}
    BY DEF PoolBundle_borrow_generateTxData, Method, Runs, Unchecked
  <2>3. Onward(m, {}, r)
    BY NotMethods DEF Onward, Refuses, HandsOver, GenerateBorrowNative
  <2>4. PassedBy(Own(m), {}, WBNBGateway_generateBorrowEthTxData.checks, s.with)
    BY FitSingle DEF PassedBy, Own, Method, HandsOver, Pass, ++, PoolBundle_borrow_generateTxData,
       GenerateBorrowNative, Referral
  <2>5. Rechecked(m, s.with, WBNBGateway_generateBorrowEthTxData.checks)
    BY DEF Rechecked, Own, Method, HandsOver, Pass, ++, PoolBundle_borrow_generateTxData,
       WBNBGateway_generateBorrowEthTxData, GenerateBorrowNative, Referral
  <2>6. s.to = "WBNBGateway_generateBorrowEthTxData"
    BY DEF HandsOver, GenerateBorrowNative
  <2>7. Onward(m, {}, s)
    <3> HIDE DEF m, s
    <3> QED
      BY <2>2, <2>4, <2>5, <2>6, Onwards, Addressees, AdapterTable
  <2>8. PassedBy(Own(m), {}, L2Pool_generateEncodedBorrowTxData.checks, t.with)
    BY FitSingle DEF PassedBy, Own, Method, HandsOver, Pass, ++, PoolBundle_borrow_generateTxData
  <2>9. Rechecked(m, t.with, L2Pool_generateEncodedBorrowTxData.checks)
    BY DEF Rechecked, Own, Method, HandsOver, Pass, ++, PoolBundle_borrow_generateTxData,
       L2Pool_generateEncodedBorrowTxData
  <2>10. t.to = "L2Pool_generateEncodedBorrowTxData"
    BY DEF HandsOver
  <2>11. Onward(m, {}, t)
    <3> HIDE DEF m, t
    <3> QED
      BY <2>2, <2>8, <2>9, <2>10, Onwards, Addressees, L2PoolTable
  <2>12. PassedBy(Own(m), {}, L2Pool_generateBorrowTxData.checks, u.with)
    BY FitSingle DEF PassedBy, Own, Method, HandsOver, Pass, ++, PoolBundle_borrow_generateTxData,
       Numeric, Behalf, Referral
  <2>13. Rechecked(m, u.with, L2Pool_generateBorrowTxData.checks)
    BY DEF Rechecked, Own, Method, HandsOver, Pass, ++, PoolBundle_borrow_generateTxData,
       L2Pool_generateBorrowTxData, Numeric, Behalf, Referral
  <2>14. u.to = "L2Pool_generateBorrowTxData"
    BY DEF HandsOver
  <2>15. Onward(m, {}, u)
    <3> HIDE DEF m, u
    <3> QED
      BY <2>2, <2>12, <2>13, <2>14, Onwards, Addressees, L2PoolTable
  <2> HIDE DEF m, r, s, t, u
  <2>16. \A i \in DOMAIN m.routes : m.routes[i] \in {r, s, t, u}
    BY <2>1, TwoThenTwo
  <2> QED
    BY <2>3, <2>7, <2>11, <2>15, <2>16 DEF PassesOn, m
<1>5. PassesOn(LendingPoolBundle_getApprovedAmount, {})
  <2> DEFINE m == LendingPoolBundle_getApprovedAmount
             r == Allowance("LENDING_POOL")[1]
             s == Allowance("LENDING_POOL")[2]
  <2>1. m.routes = <<r, s>>
    BY DEF LendingPoolBundle_getApprovedAmount, Method, Allowance
  <2>2. m.validator.needs = {}
    BY DEF LendingPoolBundle_getApprovedAmount, Method, Runs, Unchecked
  <2>3. PassedBy(Own(m), {}, ERC20_approvedAmount.checks, r.with)
    BY FitSingle DEF PassedBy, Own, Method, HandsOver, Pass, ++,
       LendingPoolBundle_getApprovedAmount, Allowance
  <2>4. Rechecked(m, r.with, ERC20_approvedAmount.checks)
    BY DEF Rechecked, Own, Method, HandsOver, Pass, ++, LendingPoolBundle_getApprovedAmount,
       ERC20_approvedAmount, Allowance, isBnbAddress
  <2>5. r.to = "ERC20_approvedAmount" /\ "token" \in DOMAIN r.with
        /\ r.with["token"] = Given("token") /\ "token" \in Own(m)
    BY DEF Own, Method, HandsOver, Pass, ++, LendingPoolBundle_getApprovedAmount, Allowance
  <2>6. Onward(m, {}, r)
    <3> HIDE DEF m, r
    <3> QED
      BY <2>2, <2>3, <2>4, <2>5, Onwards, Addressees, TokenTable DEF Given
  <2>7. PassedBy(Own(m), {}, ERC20_approvedAmount.checks, s.with)
    BY FitSingle DEF PassedBy, Own, Method, HandsOver, Pass, ++,
       LendingPoolBundle_getApprovedAmount, Allowance
  <2>8. Rechecked(m, s.with, ERC20_approvedAmount.checks)
    BY DEF Rechecked, Own, Method, HandsOver, Pass, ++, LendingPoolBundle_getApprovedAmount,
       ERC20_approvedAmount, Allowance, isBnbAddress
  <2>9. s.to = "ERC20_approvedAmount" /\ "token" \in DOMAIN s.with
        /\ s.with["token"] = Given("token") /\ "token" \in Own(m)
    BY DEF Own, Method, HandsOver, Pass, ++, LendingPoolBundle_getApprovedAmount, Allowance
  <2>10. Onward(m, {}, s)
    <3> HIDE DEF m, s
    <3> QED
      BY <2>2, <2>7, <2>8, <2>9, Onwards, Addressees, TokenTable DEF Given
  <2> HIDE DEF m, r, s
  <2> QED
    BY <2>1, <2>6, <2>10 DEF PassesOn, m
<1>6. PassesOn(LendingPoolBundle_deposit_generateTxData, {})
  <2> DEFINE m == LendingPoolBundle_deposit_generateTxData
             r == HandsOver({Native("reserve")}, "WBNBGateway_generateDepositEthTxData",
                  Pass({"user", "amount", "onBehalfOf", "referralCode"}) ++ [lendingPool |->
                  Fixed("LENDING_POOL")])
  <2>1. m.routes = <<r>>
    BY DEF LendingPoolBundle_deposit_generateTxData, Method
  <2>2. m.validator.needs = {}
    BY DEF LendingPoolBundle_deposit_generateTxData, Method, Runs, Unchecked
  <2>3. PassedBy(Own(m), {}, WBNBGateway_generateDepositEthTxData.checks, r.with)
    BY FitSingle DEF PassedBy, Own, Method, HandsOver, Pass, ++,
       LendingPoolBundle_deposit_generateTxData
  <2>4. Rechecked(m, r.with, WBNBGateway_generateDepositEthTxData.checks)
    BY DEF Rechecked, Own, Method, HandsOver, Pass, ++, LendingPoolBundle_deposit_generateTxData,
       WBNBGateway_generateDepositEthTxData
  <2>5. r.to = "WBNBGateway_generateDepositEthTxData"
    BY DEF HandsOver
  <2>6. Onward(m, {}, r)
    <3> HIDE DEF m, r
    <3> QED
      BY <2>2, <2>3, <2>4, <2>5, Onwards, Addressees, AdapterTable
  <2> HIDE DEF m, r
  <2> QED
    BY <2>1, <2>6 DEF PassesOn, m
<1>7. PassesOn(LendingPoolBundle_borrow_generateTxData, {})
  <2> DEFINE m == LendingPoolBundle_borrow_generateTxData
             r == GenerateBorrowNative("LENDING_POOL")[1]
             s == GenerateBorrowNative("LENDING_POOL")[2]
  <2>1. m.routes = <<r, s>>
    BY DEF LendingPoolBundle_borrow_generateTxData, Method, GenerateBorrowNative
  <2>2. m.validator.needs = {}
    BY DEF LendingPoolBundle_borrow_generateTxData, Method, Runs, Unchecked
  <2>3. Onward(m, {}, r)
    BY NotMethods DEF Onward, Refuses, HandsOver, GenerateBorrowNative
  <2>4. PassedBy(Own(m), {}, WBNBGateway_generateBorrowEthTxData.checks, s.with)
    BY FitSingle DEF PassedBy, Own, Method, HandsOver, Pass, ++,
       LendingPoolBundle_borrow_generateTxData, GenerateBorrowNative, Referral
  <2>5. Rechecked(m, s.with, WBNBGateway_generateBorrowEthTxData.checks)
    BY DEF Rechecked, Own, Method, HandsOver, Pass, ++, LendingPoolBundle_borrow_generateTxData,
       WBNBGateway_generateBorrowEthTxData, GenerateBorrowNative, Referral
  <2>6. s.to = "WBNBGateway_generateBorrowEthTxData"
    BY DEF HandsOver, GenerateBorrowNative
  <2>7. Onward(m, {}, s)
    <3> HIDE DEF m, s
    <3> QED
      BY <2>2, <2>4, <2>5, <2>6, Onwards, Addressees, AdapterTable
  <2> HIDE DEF m, r, s
  <2> QED
    BY <2>1, <2>3, <2>7 DEF PassesOn, m
<1> QED
  BY <1>1, <1>2, <1>3, <1>4, <1>5, <1>6, <1>7

-----------------------------------------------------------------------------
\* The routes that are refusals or answers.
LEMMA OtherPasses ==
    /\ PassesOn(WBNBGateway_borrowBNB, {})
    /\ PassesOn(ERC20_isApproved, {"amount"})
    /\ PassesOn(ERC20_approvedAmount, {})
<1>1. \A when, m, X : Onward(m, X, Refuses(when)) /\ Onward(m, X, Answers(when))
  BY NotMethods DEF Onward, Refuses, Answers, HandsOver
<1>2. /\ \E when : WBNBGateway_borrowBNB.routes = <<Refuses(when)>>
      /\ \E when : ERC20_isApproved.routes = <<Answers(when)>>
      /\ \E when : ERC20_approvedAmount.routes = <<Answers(when)>>
  BY DEF WBNBGateway_borrowBNB, ERC20_isApproved, ERC20_approvedAmount, Method
<1> QED
  BY <1>1, <1>2 DEF PassesOn

\* A method without routes passes nothing on.
LEMMA PlainClean ==
    \A m, X : /\ Checked(m, X) /\ m.routes = <<>>
              /\ SaysArgs(m, X)
              /\ SaysFrom(m, X) /\ Destined(m)
              => Clean(m, X)
BY DEF Clean, PassesOn

\* The packed parameters of a swap.
LEMMA SwapParams ==
    \A S, X : {"toAsset", "minToAmount", "swapCallData", "augustus", "permitSignature"} \subseteq S
              /\ X = {} => Fits(S, X, buildParaSwapLiquiditySwapParams)
BY FitSingle, FitPacked DEF buildParaSwapLiquiditySwapParams, PermitParams

\* The packed parameters of a repayment with collateral.
LEMMA RepayParams ==
    \A S, X : {"assetToRepay", "repayAmount", "rateMode", "swapAndRepayCallData", "augustus",
               "permitSignature"} \subseteq S
              /\ X = {} => Fits(S, X, ParaswapParams)
BY FitSingle, FitPacked DEF ParaswapParams, PermitParams

\* The amount that is minted.
LEMMA MintArgs ==
    \A S, X : "tokenSymbol" \in S => Fits(S, X, Part("tokenSymbol", "mint amount"))
BY SimpleTerms, Levels DEF Made

\* The parts of a tuple that is put together of three.
LEMMA ThreeFourTwo ==
    ASSUME NEW S, NEW a \in S, NEW b \in S, NEW c \in S, NEW d \in S, NEW e \in S, NEW f \in S,
           NEW g \in S, NEW h \in S, NEW i \in S, NEW s,
           s = <<a, b, c>> \o <<d, e, f, g>> \o <<h, i>>
    PROVE  \A n \in DOMAIN s : s[n] \in S
<1>1. <<a, b, c>> \in Seq(S) /\ <<d, e, f, g>> \in Seq(S) /\ <<h, i>> \in Seq(S)
  OBVIOUS
<1> DEFINE v == <<a, b, c>>
           w == <<d, e, f, g>>
           u == <<h, i>>
<1>2. v \o w \o u \in Seq(S)
  <2> HIDE DEF v, w, u
  <2>1. \A x, y \in Seq(S) : x \o y \in Seq(S)
    OBVIOUS
  <2> QED
    BY <1>1, <2>1 DEF v, w, u
<1>3. s \in Seq(S)
  BY <1>2
<1> QED
  BY <1>3

\* The methods of L2Pool.
LEMMA L2PoolClean == \A name \in L2PoolMethods : \E X : Clean(Methods[name], X)
<1> USE DEF Own, Method, Unlike, Amounts, AmountNames, Runs, Sends, Pays, Asks
<1>1. Clean(L2Pool_supply, {})
  <2>1. Checked(L2Pool_supply, {}) /\ L2Pool_supply.routes = <<>>
    BY AptChecks DEF Checked, L2Encoder_encodeSupplyParams, L2PValidator, User, L2Pool_supply
  <2>2. SaysArgs(L2Pool_supply, {})
    BY FitArgs DEF SaysArgs, L2Encoder_encodeSupplyParams, Words, Encodes, User, L2Pool_supply
  <2>3. SaysFrom(L2Pool_supply, {}) /\ Destined(L2Pool_supply)
    BY FitSingle, Destinations DEF SaysFrom, L2Encoder_encodeSupplyParams, Words, Encodes, User,
       L2Pool_supply, L2PValidator
  <2> QED BY <2>1, <2>2, <2>3, PlainClean
<1>2. Clean(L2Pool_supplyWithPermit, {})
  <2>1. Checked(L2Pool_supplyWithPermit, {}) /\ L2Pool_supplyWithPermit.routes = <<>>
    BY AptChecks DEF Checked, L2Encoder_encodeSupplyWithPermitParams, L2PValidator, User, Permit,
       PermitArgs, L2Pool_supplyWithPermit
  <2>2. SaysArgs(L2Pool_supplyWithPermit, {})
    <3> DEFINE ps == {"reserve", "amount", "referralCode", "deadline", "permitV", "permitR",
                     "permitS"}
    <3>1. L2Pool_supplyWithPermit.sends.args =
            <<Given("reserve"), Given("amount"), OrConstant("referralCode", "0")>> \o PermitArgs
              \o <<Given("permitR"), Given("permitS")>>
      BY DEF Encodes, L2Pool_supplyWithPermit
    <3>2. \A n \in DOMAIN L2Pool_supplyWithPermit.sends.args :
            L2Pool_supplyWithPermit.sends.args[n]
              \in {Given(q) : q \in ps} \cup {OrConstant("referralCode", "0")}
      BY <3>1, ThreeFourTwo DEF PermitArgs
    <3>3. ps \subseteq Own(L2Pool_supplyWithPermit)
      BY DEF Permit, L2Pool_supplyWithPermit
    <3>4. /\ \A q \in ps : Fits(Own(L2Pool_supplyWithPermit), {}, Given(q))
          /\ Fits(Own(L2Pool_supplyWithPermit), {}, OrConstant("referralCode", "0"))
      BY <3>3, FitArgs
    <3> HIDE DEF Own
    <3> QED
      BY <3>2, <3>4 DEF SaysArgs
  <2>3. SaysFrom(L2Pool_supplyWithPermit, {}) /\ Destined(L2Pool_supplyWithPermit)
    BY FitSingle, Destinations DEF SaysFrom, L2Encoder_encodeSupplyWithPermitParams, Words,
       Encodes, User, Permit, PermitArgs, L2Pool_supplyWithPermit, L2PValidator
  <2> QED BY <2>1, <2>2, <2>3, PlainClean
<1>3. Clean(L2Pool_withdraw, {})
  <2>1. Checked(L2Pool_withdraw, {}) /\ L2Pool_withdraw.routes = <<>>
    BY AptChecks DEF Checked, L2Encoder_encodeWithdrawParams, L2PValidator, User, L2Pool_withdraw
  <2>2. SaysArgs(L2Pool_withdraw, {})
    BY FitArgs DEF SaysArgs, L2Encoder_encodeWithdrawParams, Words, Encodes, User, L2Pool_withdraw
  <2>3. SaysFrom(L2Pool_withdraw, {}) /\ Destined(L2Pool_withdraw)
    BY FitSingle, Destinations DEF SaysFrom, L2Encoder_encodeWithdrawParams, Words, Encodes, User,
       L2Pool_withdraw, L2PValidator
  <2> QED BY <2>1, <2>2, <2>3, PlainClean
<1>4. Clean(L2Pool_borrow, {})
  <2>1. Checked(L2Pool_borrow, {}) /\ L2Pool_borrow.routes = <<>>
    BY AptChecks DEF Checked, L2Encoder_encodeBorrowParams, L2PValidator, User, L2Pool_borrow
  <2>2. SaysArgs(L2Pool_borrow, {})
    BY FitArgs DEF SaysArgs, L2Encoder_encodeBorrowParams, Words, Encodes, User, L2Pool_borrow
  <2>3. SaysFrom(L2Pool_borrow, {}) /\ Destined(L2Pool_borrow)
    BY FitSingle, Destinations DEF SaysFrom, L2Encoder_encodeBorrowParams, Words, Encodes, User,
       L2Pool_borrow, L2PValidator
  <2> QED BY <2>1, <2>2, <2>3, PlainClean
<1>5. Clean(L2Pool_repay, {})
  <2>1. Checked(L2Pool_repay, {}) /\ L2Pool_repay.routes = <<>>
    BY AptChecks DEF Checked, L2Encoder_encodeRepayParams, L2PValidator, User, RepayArgs,
       L2Pool_repay
  <2>2. SaysArgs(L2Pool_repay, {})
    BY FitArgs DEF SaysArgs, L2Encoder_encodeRepayParams, Words, Encodes, User, RepayArgs,
       L2Pool_repay
  <2>3. SaysFrom(L2Pool_repay, {}) /\ Destined(L2Pool_repay)
    BY FitSingle, Destinations DEF SaysFrom, L2Encoder_encodeRepayParams, Words, Encodes, User,
       RepayArgs, L2Pool_repay, L2PValidator
  <2> QED BY <2>1, <2>2, <2>3, PlainClean
<1>6. Clean(L2Pool_repayWithPermit, {})
  <2>1. Checked(L2Pool_repayWithPermit, {}) /\ L2Pool_repayWithPermit.routes = <<>>
    BY AptChecks DEF Checked, L2Encoder_encodeRepayWithPermitParams, L2PValidator, User, Permit,
       PermitArgs, RepayArgs, L2Pool_repayWithPermit
  <2>2. SaysArgs(L2Pool_repayWithPermit, {})
    <3> DEFINE ps == {"reserve", "amount", "numericRateMode", "deadline", "permitV", "permitR",
                     "permitS"}
    <3>1. L2Pool_repayWithPermit.sends.args =
            <<Given("reserve"), Given("amount"), Given("numericRateMode")>> \o PermitArgs
              \o <<Given("permitR"), Given("permitS")>>
      BY DEF Encodes, RepayArgs, L2Pool_repayWithPermit
    <3>2. \A n \in DOMAIN L2Pool_repayWithPermit.sends.args :
            L2Pool_repayWithPermit.sends.args[n]
              \in {Given(q) : q \in ps}
      BY <3>1, ThreeFourTwo DEF PermitArgs
    <3>3. ps \subseteq Own(L2Pool_repayWithPermit)
      BY DEF Permit, L2Pool_repayWithPermit
    <3>4. /\ \A q \in ps : Fits(Own(L2Pool_repayWithPermit), {}, Given(q))
      BY <3>3, FitArgs
    <3> HIDE DEF Own
    <3> QED
      BY <3>2, <3>4 DEF SaysArgs
  <2>3. SaysFrom(L2Pool_repayWithPermit, {}) /\ Destined(L2Pool_repayWithPermit)
    BY FitSingle, Destinations DEF SaysFrom, L2Encoder_encodeRepayWithPermitParams, Words,
       Encodes, User, Permit, PermitArgs, RepayArgs, L2Pool_repayWithPermit, L2PValidator
  <2> QED BY <2>1, <2>2, <2>3, PlainClean
<1>7. Clean(L2Pool_repayWithLBTokens, {})
  <2>1. Checked(L2Pool_repayWithLBTokens, {}) /\ L2Pool_repayWithLBTokens.routes = <<>>
    BY AptChecks DEF Checked, L2Encoder_encodeRepayWithLBTokensParams, L2PValidator, User,
       RepayArgs, L2Pool_repayWithLBTokens
  <2>2. SaysArgs(L2Pool_repayWithLBTokens, {})
    BY FitArgs DEF SaysArgs, L2Encoder_encodeRepayWithLBTokensParams, Words, Encodes, User,
       RepayArgs, L2Pool_repayWithLBTokens
  <2>3. SaysFrom(L2Pool_repayWithLBTokens, {}) /\ Destined(L2Pool_repayWithLBTokens)
    BY FitSingle, Destinations DEF SaysFrom, L2Encoder_encodeRepayWithLBTokensParams, Words,
       Encodes, User, RepayArgs, L2Pool_repayWithLBTokens, L2PValidator
  <2> QED BY <2>1, <2>2, <2>3, PlainClean
<1>8. Clean(L2Pool_swapBorrowRateMode, {})
  <2>1. Checked(L2Pool_swapBorrowRateMode, {}) /\ L2Pool_swapBorrowRateMode.routes = <<>>
    BY AptChecks DEF Checked, L2Encoder_encodeSwapBorrowRateMode, L2PValidator, User,
       L2Pool_swapBorrowRateMode
  <2>2. SaysArgs(L2Pool_swapBorrowRateMode, {})
    BY FitArgs DEF SaysArgs, L2Encoder_encodeSwapBorrowRateMode, Words, Encodes, User,
       L2Pool_swapBorrowRateMode
  <2>3. SaysFrom(L2Pool_swapBorrowRateMode, {}) /\ Destined(L2Pool_swapBorrowRateMode)
    BY FitSingle, Destinations DEF SaysFrom, L2Encoder_encodeSwapBorrowRateMode, Words, Encodes,
       User, L2Pool_swapBorrowRateMode, L2PValidator
  <2> QED BY <2>1, <2>2, <2>3, PlainClean
<1>9. Clean(L2Pool_setUserUseReserveAsCollateral, {})
  <2>1. /\ Checked(L2Pool_setUserUseReserveAsCollateral, {})
        /\ L2Pool_setUserUseReserveAsCollateral.routes = <<>>
    BY AptChecks DEF Checked, L2Encoder_encodeSetUserUseReserveAsCollateral, L2PValidator, User,
       L2Pool_setUserUseReserveAsCollateral
  <2>2. SaysArgs(L2Pool_setUserUseReserveAsCollateral, {})
    BY FitArgs DEF SaysArgs, L2Encoder_encodeSetUserUseReserveAsCollateral, Words, Encodes, User,
       L2Pool_setUserUseReserveAsCollateral
  <2>3. /\ SaysFrom(L2Pool_setUserUseReserveAsCollateral, {})
        /\ Destined(L2Pool_setUserUseReserveAsCollateral)
    BY FitSingle, Destinations DEF SaysFrom, L2Encoder_encodeSetUserUseReserveAsCollateral, Words,
       Encodes, User, L2Pool_setUserUseReserveAsCollateral, L2PValidator
  <2> QED BY <2>1, <2>2, <2>3, PlainClean
<1>10. Clean(L2Pool_liquidationCall, {})
  <2>1. Checked(L2Pool_liquidationCall, {}) /\ L2Pool_liquidationCall.routes = <<>>
    BY AptChecks DEF Checked, L2Encoder_encodeLiquidationCall, L2PValidator,
       L2Pool_liquidationCall
  <2>2. SaysArgs(L2Pool_liquidationCall, {})
    BY FitArgs DEF SaysArgs, L2Encoder_encodeLiquidationCall, Words, Encodes,
       L2Pool_liquidationCall
  <2>3. SaysFrom(L2Pool_liquidationCall, {}) /\ Destined(L2Pool_liquidationCall)
    BY FitSingle, Destinations DEF SaysFrom, L2Encoder_encodeLiquidationCall, Words, Encodes,
       L2Pool_liquidationCall, L2PValidator
  <2> QED BY <2>1, <2>2, <2>3, PlainClean
<1>11. Clean(L2Pool_generateSupplyTxData, {})
  <2>1. Checked(L2Pool_generateSupplyTxData, {}) /\ L2Pool_generateSupplyTxData.routes = <<>>
    BY AptChecks DEF Checked, Unchecked, User, L2Pool_generateSupplyTxData
  <2>2. SaysArgs(L2Pool_generateSupplyTxData, {})
    BY FitArgs DEF SaysArgs, User, Builds, L2Pool_generateSupplyTxData
  <2>3. SaysFrom(L2Pool_generateSupplyTxData, {}) /\ Destined(L2Pool_generateSupplyTxData)
    BY FitSingle, Destinations DEF SaysFrom, User, Builds, L2Pool_generateSupplyTxData, Unchecked
  <2> QED BY <2>1, <2>2, <2>3, PlainClean
<1>12. Clean(L2Pool_generateBorrowTxData, {})
  <2>1. Checked(L2Pool_generateBorrowTxData, {}) /\ L2Pool_generateBorrowTxData.routes = <<>>
    BY AptChecks DEF Checked, Unchecked, User, L2Pool_generateBorrowTxData
  <2>2. SaysArgs(L2Pool_generateBorrowTxData, {})
    BY FitArgs DEF SaysArgs, User, Builds, L2Pool_generateBorrowTxData
  <2>3. SaysFrom(L2Pool_generateBorrowTxData, {}) /\ Destined(L2Pool_generateBorrowTxData)
    BY FitSingle, Destinations DEF SaysFrom, User, Builds, L2Pool_generateBorrowTxData, Unchecked
  <2> QED BY <2>1, <2>2, <2>3, PlainClean
<1>13. Clean(L2Pool_generateSupplyWithPermitTxData, {})
  <2>1. /\ Checked(L2Pool_generateSupplyWithPermitTxData, {})
        /\ L2Pool_generateSupplyWithPermitTxData.routes = <<>>
    BY AptChecks DEF Checked, Unchecked, User, Permit, PermitArgs,
       L2Pool_generateSupplyWithPermitTxData
  <2>2. SaysArgs(L2Pool_generateSupplyWithPermitTxData, {})
    BY FitArgs DEF SaysArgs, User, Permit, PermitArgs, Builds,
       L2Pool_generateSupplyWithPermitTxData
  <2>3. /\ SaysFrom(L2Pool_generateSupplyWithPermitTxData, {})
        /\ Destined(L2Pool_generateSupplyWithPermitTxData)
    BY FitSingle, Destinations DEF SaysFrom, User, Permit, PermitArgs, Builds,
       L2Pool_generateSupplyWithPermitTxData, Unchecked
  <2> QED BY <2>1, <2>2, <2>3, PlainClean
<1>14. Clean(L2Pool_generateEncodedSupplyTxData, {})
  <2>1. /\ Checked(L2Pool_generateEncodedSupplyTxData, {})
        /\ L2Pool_generateEncodedSupplyTxData.routes = <<>>
    BY AptChecks DEF Checked, Unchecked, User, L2Pool_generateEncodedSupplyTxData
  <2>2. SaysArgs(L2Pool_generateEncodedSupplyTxData, {})
    BY FitArgs DEF SaysArgs, User, Builds, L2Pool_generateEncodedSupplyTxData
  <2>3. /\ SaysFrom(L2Pool_generateEncodedSupplyTxData, {})
        /\ Destined(L2Pool_generateEncodedSupplyTxData)
    BY FitSingle, Destinations DEF SaysFrom, User, Builds, L2Pool_generateEncodedSupplyTxData,
       Unchecked
  <2> QED BY <2>1, <2>2, <2>3, PlainClean
<1>15. Clean(L2Pool_generateEncodedBorrowTxData, {})
  <2>1. /\ Checked(L2Pool_generateEncodedBorrowTxData, {})
        /\ L2Pool_generateEncodedBorrowTxData.routes = <<>>
    BY AptChecks DEF Checked, Unchecked, User, L2Pool_generateEncodedBorrowTxData
  <2>2. SaysArgs(L2Pool_generateEncodedBorrowTxData, {})
    BY FitArgs DEF SaysArgs, User, Builds, L2Pool_generateEncodedBorrowTxData
  <2>3. /\ SaysFrom(L2Pool_generateEncodedBorrowTxData, {})
        /\ Destined(L2Pool_generateEncodedBorrowTxData)
    BY FitSingle, Destinations DEF SaysFrom, User, Builds, L2Pool_generateEncodedBorrowTxData,
       Unchecked
  <2> QED BY <2>1, <2>2, <2>3, PlainClean
<1>16. Clean(L2Pool_generateEncodedSupplyWithPermitTxData, {})
  <2>1. /\ Checked(L2Pool_generateEncodedSupplyWithPermitTxData, {})
        /\ L2Pool_generateEncodedSupplyWithPermitTxData.routes = <<>>
    BY AptChecks DEF Checked, Unchecked, User, L2Pool_generateEncodedSupplyWithPermitTxData
  <2>2. SaysArgs(L2Pool_generateEncodedSupplyWithPermitTxData, {})
    BY FitArgs DEF SaysArgs, User, Builds, L2Pool_generateEncodedSupplyWithPermitTxData
  <2>3. /\ SaysFrom(L2Pool_generateEncodedSupplyWithPermitTxData, {})
        /\ Destined(L2Pool_generateEncodedSupplyWithPermitTxData)
    BY FitSingle, Destinations DEF SaysFrom, User, Builds,
       L2Pool_generateEncodedSupplyWithPermitTxData, Unchecked
  <2> QED BY <2>1, <2>2, <2>3, PlainClean
<1> HIDE DEF Own, Method, Unlike, Amounts, AmountNames, Runs, Sends, Pays, Asks
<1> QED
  BY <1>1, <1>2, <1>3, <1>4, <1>5, <1>6, <1>7, <1>8, <1>9, <1>10, <1>11, <1>12, <1>13, <1>14,
     <1>15, <1>16, L2PoolTable DEF L2PoolMethods

\* Those of the gateway and of the adapters.
LEMMA AdapterClean == \A name \in AdapterMethods : \E X : Clean(Methods[name], X)
<1> USE DEF Own, Method, Unlike, Amounts, AmountNames, Runs, Sends, Pays, Asks
<1>1. Clean(WBNBGateway_depositBNB, {})
  <2>1. Checked(WBNBGateway_depositBNB, {}) /\ WBNBGateway_depositBNB.routes = <<>>
    BY AptChecks DEF Checked, WBNBValidator, User, Gateway, WBNBGateway_depositBNB
  <2>2. SaysArgs(WBNBGateway_depositBNB, {})
    BY FitArgs DEF SaysArgs, User, Gateway, WBNBGateway_depositBNB
  <2>3. SaysFrom(WBNBGateway_depositBNB, {}) /\ Destined(WBNBGateway_depositBNB)
    BY FitSingle, Destinations DEF SaysFrom, User, Gateway, WBNBGateway_depositBNB, WBNBValidator
  <2> QED BY <2>1, <2>2, <2>3, PlainClean
<1>2. Clean(WBNBGateway_borrowBNB, {})
  <2>1. Checked(WBNBGateway_borrowBNB, {})
    BY AptChecks DEF Checked, WBNBValidator, User, Gateway, WBNBGateway_borrowBNB
  <2>2. SaysArgs(WBNBGateway_borrowBNB, {})
    BY FitArgs DEF SaysArgs, User, Gateway, WBNBGateway_borrowBNB
  <2>3. SaysFrom(WBNBGateway_borrowBNB, {}) /\ Destined(WBNBGateway_borrowBNB)
    BY FitSingle, Destinations DEF SaysFrom, User, Gateway, WBNBGateway_borrowBNB, WBNBValidator
  <2> QED BY <2>1, <2>2, <2>3, OtherPasses DEF Clean
<1>3. Clean(WBNBGateway_withdrawBNB, {"amount"})
  <2>1. Checked(WBNBGateway_withdrawBNB, {"amount"}) /\ WBNBGateway_withdrawBNB.routes = <<>>
    BY AptChecks DEF Checked, WBNBValidator, User, Gateway, WBNBGateway_withdrawBNB
  <2>2. SaysArgs(WBNBGateway_withdrawBNB, {"amount"})
    BY FitArgs DEF SaysArgs, User, Gateway, WBNBGateway_withdrawBNB
  <2>3. SaysFrom(WBNBGateway_withdrawBNB, {"amount"}) /\ Destined(WBNBGateway_withdrawBNB)
    BY FitSingle, Destinations DEF SaysFrom, User, Gateway, WBNBGateway_withdrawBNB, WBNBValidator
  <2> QED BY <2>1, <2>2, <2>3, PlainClean
<1>4. Clean(WBNBGateway_repayBNB, {})
  <2>1. Checked(WBNBGateway_repayBNB, {}) /\ WBNBGateway_repayBNB.routes = <<>>
    BY AptChecks DEF Checked, WBNBValidator, User, Gateway, WBNBGateway_repayBNB
  <2>2. SaysArgs(WBNBGateway_repayBNB, {})
    BY FitArgs DEF SaysArgs, User, Gateway, WBNBGateway_repayBNB
  <2>3. SaysFrom(WBNBGateway_repayBNB, {}) /\ Destined(WBNBGateway_repayBNB)
    BY FitSingle, Destinations DEF SaysFrom, User, Gateway, WBNBGateway_repayBNB, WBNBValidator
  <2> QED BY <2>1, <2>2, <2>3, PlainClean
<1>5. Clean(WBNBGateway_generateDepositEthTxData, {})
  <2>1. /\ Checked(WBNBGateway_generateDepositEthTxData, {})
        /\ WBNBGateway_generateDepositEthTxData.routes = <<>>
    BY AptChecks DEF Checked, Unchecked, User, Gateway, WBNBGateway_generateDepositEthTxData
  <2>2. SaysArgs(WBNBGateway_generateDepositEthTxData, {})
    BY FitArgs DEF SaysArgs, User, Gateway, WBNBGateway_generateDepositEthTxData
  <2>3. /\ SaysFrom(WBNBGateway_generateDepositEthTxData, {})
        /\ Destined(WBNBGateway_generateDepositEthTxData)
    BY FitSingle, Destinations DEF SaysFrom, User, Gateway, WBNBGateway_generateDepositEthTxData,
       Unchecked
  <2> QED BY <2>1, <2>2, <2>3, PlainClean
<1>6. Clean(WBNBGateway_generateBorrowEthTxData, {})
  <2>1. /\ Checked(WBNBGateway_generateBorrowEthTxData, {})
        /\ WBNBGateway_generateBorrowEthTxData.routes = <<>>
    BY AptChecks DEF Checked, Unchecked, User, Gateway, WBNBGateway_generateBorrowEthTxData
  <2>2. SaysArgs(WBNBGateway_generateBorrowEthTxData, {})
    BY FitArgs DEF SaysArgs, User, Gateway, WBNBGateway_generateBorrowEthTxData
  <2>3. /\ SaysFrom(WBNBGateway_generateBorrowEthTxData, {})
        /\ Destined(WBNBGateway_generateBorrowEthTxData)
    BY FitSingle, Destinations DEF SaysFrom, User, Gateway, WBNBGateway_generateBorrowEthTxData,
       Unchecked
  <2> QED BY <2>1, <2>2, <2>3, PlainClean
<1>7. Clean(LiquiditySwapAdapter_swapAndDeposit, {})
  <2>1. /\ Checked(LiquiditySwapAdapter_swapAndDeposit, {})
        /\ LiquiditySwapAdapter_swapAndDeposit.routes = <<>>
    BY AptChecks DEF Checked, LiquiditySwapValidator, User, LiquiditySwapAdapter_swapAndDeposit
  <2>2. SaysArgs(LiquiditySwapAdapter_swapAndDeposit, {})
    BY FitArgs DEF SaysArgs, User, LiquiditySwapAdapter_swapAndDeposit
  <2>3. /\ SaysFrom(LiquiditySwapAdapter_swapAndDeposit, {})
        /\ Destined(LiquiditySwapAdapter_swapAndDeposit)
    BY FitSingle, Destinations DEF SaysFrom, User, LiquiditySwapAdapter_swapAndDeposit,
       LiquiditySwapValidator
  <2> QED BY <2>1, <2>2, <2>3, PlainClean
<1>8. Clean(ParaswapRepay_swapAndRepay, {})
  <2>1. Checked(ParaswapRepay_swapAndRepay, {}) /\ ParaswapRepay_swapAndRepay.routes = <<>>
    BY AptChecks DEF Checked, RepayWithCollateralValidator, User, RepayAdapter,
       ParaswapRepay_swapAndRepay
  <2>2. SaysArgs(ParaswapRepay_swapAndRepay, {})
    BY FitArgs, FitSingle, FitPacked DEF SaysArgs, User, RepayAdapter, ParaswapRepay_swapAndRepay
  <2>3. SaysFrom(ParaswapRepay_swapAndRepay, {}) /\ Destined(ParaswapRepay_swapAndRepay)
    BY FitSingle, Destinations DEF SaysFrom, User, RepayAdapter, ParaswapRepay_swapAndRepay,
       RepayWithCollateralValidator
  <2> QED BY <2>1, <2>2, <2>3, PlainClean
<1>9. Clean(RepayWithCollateralAdapter_swapAndRepay, {})
  <2>1. /\ Checked(RepayWithCollateralAdapter_swapAndRepay, {})
        /\ RepayWithCollateralAdapter_swapAndRepay.routes = <<>>
    BY AptChecks DEF Checked, RepayWithCollateralValidator, User, RepayAdapter,
       RepayWithCollateralAdapter_swapAndRepay
  <2>2. SaysArgs(RepayWithCollateralAdapter_swapAndRepay, {})
    BY FitArgs DEF SaysArgs, User, RepayAdapter, RepayWithCollateralAdapter_swapAndRepay
  <2>3. /\ SaysFrom(RepayWithCollateralAdapter_swapAndRepay, {})
        /\ Destined(RepayWithCollateralAdapter_swapAndRepay)
    BY FitSingle, Destinations DEF SaysFrom, User, RepayAdapter,
       RepayWithCollateralAdapter_swapAndRepay, RepayWithCollateralValidator
  <2> QED BY <2>1, <2>2, <2>3, PlainClean
<1> HIDE DEF Own, Method, Unlike, Amounts, AmountNames, Runs, Sends, Pays, Asks
<1> QED
  BY <1>1, <1>2, <1>3, <1>4, <1>5, <1>6, <1>7, <1>8, <1>9, AdapterTable DEF AdapterMethods

\* Those of Pool.
LEMMA PoolClean == \A name \in PoolMethodNames : \E X : Clean(Methods[name], X)
<1> USE DEF Own, Method, Unlike, Amounts, AmountNames, Runs, Sends, Pays, Asks
<1>1. Clean(Pool_deposit, {})
  <2>1. Checked(Pool_deposit, {})
    BY AptChecks DEF Checked, LPValidatorV3, User, ReserveChecks, Behalf, Referral, PaysPool,
       SupplyArgs, Pool_deposit
  <2>2. SaysArgs(Pool_deposit, {})
    BY FitArgs DEF SaysArgs, User, Behalf, Referral, PaysPool, SupplyArgs, Pool_deposit
  <2>3. SaysFrom(Pool_deposit, {}) /\ Destined(Pool_deposit)
    BY FitSingle, Destinations DEF SaysFrom, User, Behalf, Referral, PaysPool, SupplyArgs,
       Pool_deposit, LPValidatorV3
  <2> QED BY <2>1, <2>2, <2>3, PoolPasses DEF Clean
<1>2. Clean(Pool_supply, {})
  <2>1. Checked(Pool_supply, {})
    BY AptChecks DEF Checked, LPValidatorV3, User, ReserveChecks, Behalf, Referral, PaysPool,
       SupplyArgs, Pool_supply
  <2>2. SaysArgs(Pool_supply, {})
    BY FitArgs DEF SaysArgs, User, Behalf, Referral, PaysPool, SupplyArgs, Pool_supply
  <2>3. SaysFrom(Pool_supply, {}) /\ Destined(Pool_supply)
    BY FitSingle, Destinations DEF SaysFrom, User, Behalf, Referral, PaysPool, SupplyArgs,
       Pool_supply, LPValidatorV3
  <2> QED BY <2>1, <2>2, <2>3, PoolPasses DEF Clean
<1>3. Clean(Pool_supplyWithPermit, {})
  <2>1. Checked(Pool_supplyWithPermit, {})
    BY AptChecks DEF Checked, LPValidatorV3, User, ReserveChecks, Behalf, Referral, InPool,
       SignatureArgs, SupplyArgs, Pool_supplyWithPermit
  <2>2. SaysArgs(Pool_supplyWithPermit, {})
    BY FitArgs DEF SaysArgs, User, Behalf, Referral, InPool, SignatureArgs, SupplyArgs,
       Pool_supplyWithPermit
  <2>3. SaysFrom(Pool_supplyWithPermit, {}) /\ Destined(Pool_supplyWithPermit)
    BY FitSingle, Destinations DEF SaysFrom, User, Behalf, Referral, InPool, SignatureArgs,
       SupplyArgs, Pool_supplyWithPermit, LPValidatorV3
  <2> QED BY <2>1, <2>2, <2>3, PoolPasses DEF Clean
<1>4. Clean(Pool_withdraw, {"amount"})
  <2>1. Checked(Pool_withdraw, {"amount"})
    BY AptChecks DEF Checked, LPValidatorV3, User, ReserveChecks, Behalf, InPool, Pool_withdraw
  <2>2. SaysArgs(Pool_withdraw, {"amount"})
    BY FitArgs DEF SaysArgs, User, Behalf, InPool, Pool_withdraw
  <2>3. SaysFrom(Pool_withdraw, {"amount"}) /\ Destined(Pool_withdraw)
    BY FitSingle, Destinations DEF SaysFrom, User, Behalf, InPool, Pool_withdraw, LPValidatorV3
  <2> QED BY <2>1, <2>2, <2>3, PoolPasses DEF Clean
<1>5. Clean(Pool_borrow, {})
  <2>1. Checked(Pool_borrow, {})
    BY AptChecks DEF Checked, LPValidatorV3, User, ReserveChecks, Behalf, Referral, InPool,
       BorrowChecks, Pool_borrow
  <2>2. SaysArgs(Pool_borrow, {})
    BY FitArgs DEF SaysArgs, User, Behalf, Referral, InPool, Pool_borrow
  <2>3. SaysFrom(Pool_borrow, {}) /\ Destined(Pool_borrow)
    BY FitSingle, Destinations DEF SaysFrom, User, Behalf, Referral, InPool, Pool_borrow,
       LPValidatorV3
  <2> QED BY <2>1, <2>2, <2>3, PoolPasses DEF Clean
<1>6. Clean(Pool_repay, {"amount"})
  <2>1. Checked(Pool_repay, {"amount"})
    BY AptChecks DEF Checked, LPValidatorV3, User, ReserveChecks, Behalf, PaysPool, PoolRepayArgs,
       RepayChecks, Pool_repay
  <2>2. SaysArgs(Pool_repay, {"amount"})
    BY FitArgs DEF SaysArgs, User, Behalf, PaysPool, PoolRepayArgs, Pool_repay
  <2>3. SaysFrom(Pool_repay, {"amount"}) /\ Destined(Pool_repay)
    BY FitSingle, Destinations DEF SaysFrom, User, Behalf, PaysPool, PoolRepayArgs, Pool_repay,
       LPValidatorV3
  <2> QED BY <2>1, <2>2, <2>3, PoolPasses DEF Clean
<1>7. Clean(Pool_repayWithPermit, {"amount"})
  <2>1. Checked(Pool_repayWithPermit, {"amount"})
    BY AptChecks DEF Checked, LPValidatorV3, User, ReserveChecks, Behalf, PaysPool, SignatureArgs,
       PoolRepayArgs, RepayChecks, Pool_repayWithPermit
  <2>2. SaysArgs(Pool_repayWithPermit, {"amount"})
    BY FitArgs DEF SaysArgs, User, Behalf, PaysPool, SignatureArgs, PoolRepayArgs,
       Pool_repayWithPermit
  <2>3. SaysFrom(Pool_repayWithPermit, {"amount"}) /\ Destined(Pool_repayWithPermit)
    BY FitSingle, Destinations DEF SaysFrom, User, Behalf, PaysPool, SignatureArgs, PoolRepayArgs,
       Pool_repayWithPermit, LPValidatorV3
  <2> QED BY <2>1, <2>2, <2>3, PoolPasses DEF Clean
<1>8. Clean(Pool_repayWithLBTokens, {"amount"})
  <2>1. Checked(Pool_repayWithLBTokens, {"amount"})
    BY AptChecks DEF Checked, LPValidatorV3, User, ReserveChecks, PaysPool, PoolRepayArgs,
       Pool_repayWithLBTokens
  <2>2. SaysArgs(Pool_repayWithLBTokens, {"amount"})
    BY FitArgs DEF SaysArgs, User, PaysPool, PoolRepayArgs, Pool_repayWithLBTokens
  <2>3. SaysFrom(Pool_repayWithLBTokens, {"amount"}) /\ Destined(Pool_repayWithLBTokens)
    BY FitSingle, Destinations DEF SaysFrom, User, PaysPool, PoolRepayArgs,
       Pool_repayWithLBTokens, LPValidatorV3
  <2> QED BY <2>1, <2>2, <2>3, PoolPasses DEF Clean
<1>9. Clean(Pool_swapBorrowRateMode, {})
  <2>1. Checked(Pool_swapBorrowRateMode, {})
    BY AptChecks DEF Checked, LPValidatorV3, User, ReserveChecks, InPool, Pool_swapBorrowRateMode
  <2>2. SaysArgs(Pool_swapBorrowRateMode, {})
    BY FitArgs DEF SaysArgs, User, InPool, Pool_swapBorrowRateMode
  <2>3. SaysFrom(Pool_swapBorrowRateMode, {}) /\ Destined(Pool_swapBorrowRateMode)
    BY FitSingle, Destinations DEF SaysFrom, User, InPool, Pool_swapBorrowRateMode, LPValidatorV3
  <2> QED BY <2>1, <2>2, <2>3, PoolPasses DEF Clean
<1>10. Clean(Pool_setUsageAsCollateral, {})
  <2>1. Checked(Pool_setUsageAsCollateral, {})
    BY AptChecks DEF Checked, LPValidatorV3, User, ReserveChecks, InPool,
       Pool_setUsageAsCollateral
  <2>2. SaysArgs(Pool_setUsageAsCollateral, {})
    BY FitArgs DEF SaysArgs, User, InPool, Pool_setUsageAsCollateral
  <2>3. SaysFrom(Pool_setUsageAsCollateral, {}) /\ Destined(Pool_setUsageAsCollateral)
    BY FitSingle, Destinations DEF SaysFrom, User, InPool, Pool_setUsageAsCollateral,
       LPValidatorV3
  <2> QED BY <2>1, <2>2, <2>3, PoolPasses DEF Clean
<1>11. Clean(Pool_setUserEMode, {})
  <2>1. Checked(Pool_setUserEMode, {}) /\ Pool_setUserEMode.routes = <<>>
    BY AptChecks DEF Checked, LPValidatorV3, User, InPool, Pool_setUserEMode
  <2>2. SaysArgs(Pool_setUserEMode, {})
    BY FitArgs DEF SaysArgs, User, InPool, Pool_setUserEMode
  <2>3. SaysFrom(Pool_setUserEMode, {}) /\ Destined(Pool_setUserEMode)
    BY FitSingle, Destinations DEF SaysFrom, User, InPool, Pool_setUserEMode, LPValidatorV3
  <2> QED BY <2>1, <2>2, <2>3, PlainClean
<1>12. Clean(Pool_liquidationCall, {})
  <2>1. Checked(Pool_liquidationCall, {})
    BY AptChecks DEF Checked, LPValidatorV3, PaysPool, LiquidationChecks, DebtToCover,
       LiquidationArgs, Pool_liquidationCall
  <2>2. SaysArgs(Pool_liquidationCall, {})
    BY FitArgs DEF SaysArgs, PaysPool, DebtToCover, LiquidationArgs, Pool_liquidationCall
  <2>3. SaysFrom(Pool_liquidationCall, {}) /\ Destined(Pool_liquidationCall)
    BY FitSingle, Destinations DEF SaysFrom, PaysPool, DebtToCover, LiquidationArgs,
       Pool_liquidationCall, LPValidatorV3
  <2> QED BY <2>1, <2>2, <2>3, PoolPasses DEF Clean
<1>13. Clean(Pool_swapCollateral, {})
  <2>1. Checked(Pool_swapCollateral, {})
    BY AptChecks DEF Checked, LPSwapCollateralValidatorV3, User, Referral, InPool, PermitParams,
       SwapChecks, SwapRequired, buildParaSwapLiquiditySwapParams, SwapAmount, Pool_swapCollateral
  <2>2. SaysArgs(Pool_swapCollateral, {})
    BY FitArgs, SwapParams DEF SaysArgs, User, Referral, InPool, SwapRequired, SwapAmount,
       Pool_swapCollateral
  <2>3. SaysFrom(Pool_swapCollateral, {}) /\ Destined(Pool_swapCollateral)
    BY FitSingle, Destinations DEF SaysFrom, User, Referral, InPool, PermitParams, SwapRequired,
       buildParaSwapLiquiditySwapParams, SwapAmount, Pool_swapCollateral,
       LPSwapCollateralValidatorV3
  <2> QED BY <2>1, <2>2, <2>3, PoolPasses DEF Clean
<1>14. Clean(Pool_paraswapRepayWithCollateral, {})
  <2>1. Checked(Pool_paraswapRepayWithCollateral, {})
    BY AptChecks DEF Checked, LPRepayWithCollateralValidatorV3, User, RepayAdapter, Referral,
       InPool, PermitParams, ParaswapChecks, ParaswapRequired, ParaswapParams, RepayWithAmount,
       Pool_paraswapRepayWithCollateral
  <2>2. SaysArgs(Pool_paraswapRepayWithCollateral, {})
    BY FitArgs, RepayParams DEF SaysArgs, User, RepayAdapter, Referral, InPool, ParaswapRequired,
       RepayWithAmount, Pool_paraswapRepayWithCollateral
  <2>3. SaysFrom(Pool_paraswapRepayWithCollateral, {}) /\ Destined(Pool_paraswapRepayWithCollateral)
    BY FitSingle, Destinations DEF SaysFrom, User, RepayAdapter, Referral, InPool, PermitParams,
       ParaswapRequired, ParaswapParams, RepayWithAmount, Pool_paraswapRepayWithCollateral,
       LPRepayWithCollateralValidatorV3
  <2> QED BY <2>1, <2>2, <2>3, PoolPasses DEF Clean
<1>15. Clean(Pool_flashLiquidation, {})
  <2>1. Checked(Pool_flashLiquidation, {}) /\ Pool_flashLiquidation.routes = <<>>
    BY AptChecks DEF Checked, LPFlashLiquidationValidatorV3, User, InPool, FlashLiquidationChecks,
       FlashLiquidationRequired, FlashLiquidationParams, FlashBorrowAmount, Pool_flashLiquidation
  <2>2. SaysArgs(Pool_flashLiquidation, {})
    BY FitArgs, FitSingle, FitPacked DEF SaysArgs, User, InPool, FlashLiquidationRequired,
       FlashLiquidationParams, FlashBorrowAmount, Pool_flashLiquidation
  <2>3. SaysFrom(Pool_flashLiquidation, {}) /\ Destined(Pool_flashLiquidation)
    BY FitSingle, Destinations DEF SaysFrom, User, InPool, FlashLiquidationRequired,
       FlashLiquidationParams, FlashBorrowAmount, Pool_flashLiquidation,
       LPFlashLiquidationValidatorV3
  <2> QED BY <2>1, <2>2, <2>3, PlainClean
<1>16. Clean(Pool_migrateV3, {})
  <2>1. Checked(Pool_migrateV3, {}) /\ Pool_migrateV3.routes = <<>>
    BY AptChecks DEF Checked, LPValidatorV3, User, InPool, Pool_migrateV3
  <2>2. SaysArgs(Pool_migrateV3, {})
    BY FitArgs, FitSingle, FitPacked DEF SaysArgs, User, InPool, Pool_migrateV3
  <2>3. SaysFrom(Pool_migrateV3, {}) /\ Destined(Pool_migrateV3)
    BY FitSingle, Destinations DEF SaysFrom, User, InPool, Pool_migrateV3, LPValidatorV3
  <2> QED BY <2>1, <2>2, <2>3, PlainClean
<1> HIDE DEF Own, Method, Unlike, Amounts, AmountNames, Runs, Sends, Pays, Asks
<1> QED
  BY <1>1, <1>2, <1>3, <1>4, <1>5, <1>6, <1>7, <1>8, <1>9, <1>10, <1>11, <1>12, <1>13, <1>14,
     <1>15, <1>16, PoolTable DEF PoolMethodNames

\* Those of LendingPool.
LEMMA LendingPoolClean == \A name \in LendingPoolMethods : \E X : Clean(Methods[name], X)
<1> USE DEF Own, Method, Unlike, Amounts, AmountNames, Runs, Sends, Pays, Asks
<1>1. Clean(LendingPool_deposit, {})
  <2>1. Checked(LendingPool_deposit, {})
    BY AptChecks DEF Checked, LPValidator, User, ReserveChecks, Behalf, Referral, SupplyArgs,
       PaysLendingPool, LendingPool_deposit
  <2>2. SaysArgs(LendingPool_deposit, {})
    BY FitArgs DEF SaysArgs, User, Behalf, Referral, SupplyArgs, PaysLendingPool,
       LendingPool_deposit
  <2>3. SaysFrom(LendingPool_deposit, {}) /\ Destined(LendingPool_deposit)
    BY FitSingle, Destinations DEF SaysFrom, User, Behalf, Referral, SupplyArgs, PaysLendingPool,
       LendingPool_deposit, LPValidator
  <2> QED BY <2>1, <2>2, <2>3, LendingPoolPasses DEF Clean
<1>2. Clean(LendingPool_withdraw, {"amount"})
  <2>1. Checked(LendingPool_withdraw, {"amount"})
    BY AptChecks DEF Checked, LPValidator, User, ReserveChecks, Behalf, InLendingPool,
       LendingPool_withdraw
  <2>2. SaysArgs(LendingPool_withdraw, {"amount"})
    BY FitArgs DEF SaysArgs, User, Behalf, InLendingPool, LendingPool_withdraw
  <2>3. SaysFrom(LendingPool_withdraw, {"amount"}) /\ Destined(LendingPool_withdraw)
    BY FitSingle, Destinations DEF SaysFrom, User, Behalf, InLendingPool, LendingPool_withdraw,
       LPValidator
  <2> QED BY <2>1, <2>2, <2>3, LendingPoolPasses DEF Clean
<1>3. Clean(LendingPool_borrow, {})
  <2>1. Checked(LendingPool_borrow, {})
    BY AptChecks DEF Checked, LPValidator, User, ReserveChecks, Behalf, Referral, BorrowChecks,
       InLendingPool, LendingPool_borrow
  <2>2. SaysArgs(LendingPool_borrow, {})
    BY FitArgs DEF SaysArgs, User, Behalf, Referral, InLendingPool, LendingPool_borrow
  <2>3. SaysFrom(LendingPool_borrow, {}) /\ Destined(LendingPool_borrow)
    BY FitSingle, Destinations DEF SaysFrom, User, Behalf, Referral, InLendingPool,
       LendingPool_borrow, LPValidator
  <2> QED BY <2>1, <2>2, <2>3, LendingPoolPasses DEF Clean
<1>4. Clean(LendingPool_repay, {"amount"})
  <2>1. Checked(LendingPool_repay, {"amount"})
    BY AptChecks DEF Checked, LPValidator, User, ReserveChecks, Behalf, PoolRepayArgs,
       RepayChecks, PaysLendingPool, LendingPool_repay
  <2>2. SaysArgs(LendingPool_repay, {"amount"})
    BY FitArgs DEF SaysArgs, User, Behalf, PoolRepayArgs, PaysLendingPool, LendingPool_repay
  <2>3. SaysFrom(LendingPool_repay, {"amount"}) /\ Destined(LendingPool_repay)
    BY FitSingle, Destinations DEF SaysFrom, User, Behalf, PoolRepayArgs, PaysLendingPool,
       LendingPool_repay, LPValidator
  <2> QED BY <2>1, <2>2, <2>3, LendingPoolPasses DEF Clean
<1>5. Clean(LendingPool_swapBorrowRateMode, {})
  <2>1. Checked(LendingPool_swapBorrowRateMode, {}) /\ LendingPool_swapBorrowRateMode.routes = <<>>
    BY AptChecks DEF Checked, LPValidator, User, ReserveChecks, InLendingPool,
       LendingPool_swapBorrowRateMode
  <2>2. SaysArgs(LendingPool_swapBorrowRateMode, {})
    BY FitArgs DEF SaysArgs, User, InLendingPool, LendingPool_swapBorrowRateMode
  <2>3. SaysFrom(LendingPool_swapBorrowRateMode, {}) /\ Destined(LendingPool_swapBorrowRateMode)
    BY FitSingle, Destinations DEF SaysFrom, User, InLendingPool, LendingPool_swapBorrowRateMode,
       LPValidator
  <2> QED BY <2>1, <2>2, <2>3, PlainClean
<1>6. Clean(LendingPool_setUsageAsCollateral, {})
  <2>1. /\ Checked(LendingPool_setUsageAsCollateral, {})
        /\ LendingPool_setUsageAsCollateral.routes = <<>>
    BY AptChecks DEF Checked, LPValidator, User, ReserveChecks, InLendingPool,
       LendingPool_setUsageAsCollateral
  <2>2. SaysArgs(LendingPool_setUsageAsCollateral, {})
    BY FitArgs DEF SaysArgs, User, InLendingPool, LendingPool_setUsageAsCollateral
  <2>3. SaysFrom(LendingPool_setUsageAsCollateral, {}) /\ Destined(LendingPool_setUsageAsCollateral)
    BY FitSingle, Destinations DEF SaysFrom, User, InLendingPool,
       LendingPool_setUsageAsCollateral, LPValidator
  <2> QED BY <2>1, <2>2, <2>3, PlainClean
<1>7. Clean(LendingPool_liquidationCall, {})
  <2>1. Checked(LendingPool_liquidationCall, {}) /\ LendingPool_liquidationCall.routes = <<>>
    BY AptChecks DEF Checked, LPValidator, LiquidationChecks, DebtToCover, LiquidationArgs,
       PaysLendingPool, LendingPool_liquidationCall
  <2>2. SaysArgs(LendingPool_liquidationCall, {})
    BY FitArgs DEF SaysArgs, DebtToCover, LiquidationArgs, PaysLendingPool,
       LendingPool_liquidationCall
  <2>3. SaysFrom(LendingPool_liquidationCall, {}) /\ Destined(LendingPool_liquidationCall)
    BY FitSingle, Destinations DEF SaysFrom, DebtToCover, LiquidationArgs, PaysLendingPool,
       LendingPool_liquidationCall, LPValidator
  <2> QED BY <2>1, <2>2, <2>3, PlainClean
<1>8. Clean(LendingPool_swapCollateral, {})
  <2>1. Checked(LendingPool_swapCollateral, {})
    BY AptChecks DEF Checked, LPSwapCollateralValidator, User, Behalf, Referral, PermitParams,
       SwapChecks, SwapRequired, buildParaSwapLiquiditySwapParams, SwapAmount, InLendingPool,
       FlashLoan, LendingPool_swapCollateral
  <2>2. SaysArgs(LendingPool_swapCollateral, {})
    BY FitArgs, SwapParams DEF SaysArgs, User, Behalf, Referral, SwapRequired, SwapAmount,
       InLendingPool, FlashLoan, LendingPool_swapCollateral
  <2>3. SaysFrom(LendingPool_swapCollateral, {}) /\ Destined(LendingPool_swapCollateral)
    BY FitSingle, Destinations DEF SaysFrom, User, Behalf, Referral, PermitParams, SwapRequired,
       buildParaSwapLiquiditySwapParams, SwapAmount, InLendingPool, FlashLoan,
       LendingPool_swapCollateral, LPSwapCollateralValidator
  <2> QED BY <2>1, <2>2, <2>3, LendingPoolPasses DEF Clean
<1>9. Clean(LendingPool_repayWithCollateral, {})
  <2>1. Checked(LendingPool_repayWithCollateral, {})
    BY AptChecks DEF Checked, LPRepayWithCollateralValidator, User, RepayAdapter, Behalf,
       Referral, PermitParams, InLendingPool, FlashLoan, RepayAmount,
       LendingPool_repayWithCollateral
  <2>2. SaysArgs(LendingPool_repayWithCollateral, {})
    <3> DEFINE packed == Packed(<<Given("fromAsset"), Units("repayWithAmount", "fromAsset"),
                                  StableMode("rateMode"), PermitParams,
                                  OrConstant("useEthPath", "false")>>)
    <3>1. \A S, X : {"fromAsset", "repayWithAmount", "rateMode", "permitSignature", "useEthPath"}
                      \subseteq S /\ X = {} => Fits(S, X, packed)
      BY FitSingle, FitPacked DEF PermitParams
    <3>2. LendingPool_repayWithCollateral.sends.args =
            <<RepayAdapter, Given("assetToRepay"), RepayAmount, Fixed("0"), Behalf, packed,
               Referral>>
      BY DEF LendingPool_repayWithCollateral, FlashLoan, InLendingPool
    <3> HIDE DEF packed
    <3> QED
      BY <3>1, <3>2, FitArgs DEF SaysArgs, LendingPool_repayWithCollateral, RepayAdapter,
        RepayAmount, Behalf, Referral
  <2>3. SaysFrom(LendingPool_repayWithCollateral, {}) /\ Destined(LendingPool_repayWithCollateral)
    BY FitSingle, Destinations DEF SaysFrom, User, RepayAdapter, Behalf, Referral, PermitParams,
       InLendingPool, FlashLoan, RepayAmount, LendingPool_repayWithCollateral,
       LPRepayWithCollateralValidator
  <2> QED BY <2>1, <2>2, <2>3, LendingPoolPasses DEF Clean
<1>10. Clean(LendingPool_paraswapRepayWithCollateral, {})
  <2>1. Checked(LendingPool_paraswapRepayWithCollateral, {})
    BY AptChecks DEF Checked, LPRepayWithCollateralValidator, User, RepayAdapter, Behalf,
       Referral, PermitParams, ParaswapChecks, ParaswapRequired, ParaswapParams, RepayWithAmount,
       InLendingPool, FlashLoan, LendingPool_paraswapRepayWithCollateral
  <2>2. SaysArgs(LendingPool_paraswapRepayWithCollateral, {})
    BY FitArgs, RepayParams DEF SaysArgs, User, RepayAdapter, Behalf, Referral, ParaswapRequired,
       RepayWithAmount, InLendingPool, FlashLoan, LendingPool_paraswapRepayWithCollateral
  <2>3. /\ SaysFrom(LendingPool_paraswapRepayWithCollateral, {})
        /\ Destined(LendingPool_paraswapRepayWithCollateral)
    BY FitSingle, Destinations DEF SaysFrom, User, RepayAdapter, Behalf, Referral, PermitParams,
       ParaswapRequired, ParaswapParams, RepayWithAmount, InLendingPool, FlashLoan,
       LendingPool_paraswapRepayWithCollateral, LPRepayWithCollateralValidator
  <2> QED BY <2>1, <2>2, <2>3, LendingPoolPasses DEF Clean
<1>11. Clean(LendingPool_flashLiquidation, {})
  <2>1. Checked(LendingPool_flashLiquidation, {}) /\ LendingPool_flashLiquidation.routes = <<>>
    BY AptChecks DEF Checked, LPFlashLiquidationValidator, User, FlashLiquidationChecks,
       FlashLiquidationRequired, FlashLiquidationParams, FlashBorrowAmount, InLendingPool,
       FlashLoan, LendingPool_flashLiquidation
  <2>2. SaysArgs(LendingPool_flashLiquidation, {})
    BY FitArgs, FitSingle, FitPacked DEF SaysArgs, User, FlashLiquidationRequired,
       FlashLiquidationParams, FlashBorrowAmount, InLendingPool, FlashLoan,
       LendingPool_flashLiquidation
  <2>3. SaysFrom(LendingPool_flashLiquidation, {}) /\ Destined(LendingPool_flashLiquidation)
    BY FitSingle, Destinations DEF SaysFrom, User, FlashLiquidationRequired,
       FlashLiquidationParams, FlashBorrowAmount, InLendingPool, FlashLoan,
       LendingPool_flashLiquidation, LPFlashLiquidationValidator
  <2> QED BY <2>1, <2>2, <2>3, PlainClean
<1> HIDE DEF Own, Method, Unlike, Amounts, AmountNames, Runs, Sends, Pays, Asks
<1> QED
  BY <1>1, <1>2, <1>3, <1>4, <1>5, <1>6, <1>7, <1>8, <1>9, <1>10, <1>11, LendingPoolTable DEF
     LendingPoolMethods

\* Those of the bundles.
LEMMA BundleClean == \A name \in BundleMethods : \E X : Clean(Methods[name], X)
<1> USE DEF Own, Method, Unlike, Amounts, AmountNames, Runs, Sends, Pays, Asks
<1>1. Clean(PoolBundle_getApprovedAmount, {})
  <2>1. Checked(PoolBundle_getApprovedAmount, {})
    BY AptChecks DEF Checked, Unchecked, Nothing, PoolBundle_getApprovedAmount
  <2>2. SaysArgs(PoolBundle_getApprovedAmount, {})
    BY FitArgs DEF SaysArgs, Nothing, PoolBundle_getApprovedAmount
  <2>3. SaysFrom(PoolBundle_getApprovedAmount, {}) /\ Destined(PoolBundle_getApprovedAmount)
    BY FitSingle, Destinations DEF SaysFrom, Nothing, PoolBundle_getApprovedAmount, Unchecked
  <2> QED BY <2>1, <2>2, <2>3, BundlePasses DEF Clean
<1>2. Clean(PoolBundle_supply_generateTxData, {})
  <2>1. Checked(PoolBundle_supply_generateTxData, {})
    BY AptChecks DEF Checked, Unchecked, User, Behalf, Referral, InPool, RawSupplyArgs,
       PoolBundle_supply_generateTxData
  <2>2. SaysArgs(PoolBundle_supply_generateTxData, {})
    BY FitArgs DEF SaysArgs, User, Behalf, Referral, InPool, RawSupplyArgs,
       PoolBundle_supply_generateTxData
  <2>3. SaysFrom(PoolBundle_supply_generateTxData, {}) /\ Destined(PoolBundle_supply_generateTxData)
    BY FitSingle, Destinations DEF SaysFrom, User, Behalf, Referral, InPool, RawSupplyArgs,
       PoolBundle_supply_generateTxData, Unchecked
  <2> QED BY <2>1, <2>2, <2>3, BundlePasses DEF Clean
<1>3. Clean(PoolBundle_supply_generateSignedTxData, {})
  <2>1. Checked(PoolBundle_supply_generateSignedTxData, {})
    BY AptChecks DEF Checked, Unchecked, User, Behalf, Referral, InPool, SignatureArgs,
       RawSupplyArgs, PoolBundle_supply_generateSignedTxData
  <2>2. SaysArgs(PoolBundle_supply_generateSignedTxData, {})
    BY FitArgs DEF SaysArgs, User, Behalf, Referral, InPool, SignatureArgs, RawSupplyArgs,
       PoolBundle_supply_generateSignedTxData
  <2>3. /\ SaysFrom(PoolBundle_supply_generateSignedTxData, {})
        /\ Destined(PoolBundle_supply_generateSignedTxData)
    BY FitSingle, Destinations DEF SaysFrom, User, Behalf, Referral, InPool, SignatureArgs,
       RawSupplyArgs, PoolBundle_supply_generateSignedTxData, Unchecked
  <2> QED BY <2>1, <2>2, <2>3, BundlePasses DEF Clean
<1>4. Clean(PoolBundle_borrow_generateTxData, {})
  <2>1. Checked(PoolBundle_borrow_generateTxData, {})
    BY AptChecks DEF Checked, Unchecked, User, Behalf, Referral, InPool, RawBorrowArgs,
       PoolBundle_borrow_generateTxData
  <2>2. SaysArgs(PoolBundle_borrow_generateTxData, {})
    BY FitArgs DEF SaysArgs, User, Behalf, Referral, InPool, RawBorrowArgs,
       PoolBundle_borrow_generateTxData
  <2>3. SaysFrom(PoolBundle_borrow_generateTxData, {}) /\ Destined(PoolBundle_borrow_generateTxData)
    BY FitSingle, Destinations DEF SaysFrom, User, Behalf, Referral, InPool, RawBorrowArgs,
       PoolBundle_borrow_generateTxData, Unchecked
  <2> QED BY <2>1, <2>2, <2>3, BundlePasses DEF Clean
<1>5. Clean(LendingPoolBundle_getApprovedAmount, {})
  <2>1. Checked(LendingPoolBundle_getApprovedAmount, {})
    BY AptChecks DEF Checked, Unchecked, Nothing, LendingPoolBundle_getApprovedAmount
  <2>2. SaysArgs(LendingPoolBundle_getApprovedAmount, {})
    BY FitArgs DEF SaysArgs, Nothing, LendingPoolBundle_getApprovedAmount
  <2>3. /\ SaysFrom(LendingPoolBundle_getApprovedAmount, {})
        /\ Destined(LendingPoolBundle_getApprovedAmount)
    BY FitSingle, Destinations DEF SaysFrom, Nothing, LendingPoolBundle_getApprovedAmount,
       Unchecked
  <2> QED BY <2>1, <2>2, <2>3, BundlePasses DEF Clean
<1>6. Clean(LendingPoolBundle_deposit_generateTxData, {})
  <2>1. Checked(LendingPoolBundle_deposit_generateTxData, {})
    BY AptChecks DEF Checked, Unchecked, User, Behalf, Referral, InLendingPool, RawSupplyArgs,
       LendingPoolBundle_deposit_generateTxData
  <2>2. SaysArgs(LendingPoolBundle_deposit_generateTxData, {})
    BY FitArgs DEF SaysArgs, User, Behalf, Referral, InLendingPool, RawSupplyArgs,
       LendingPoolBundle_deposit_generateTxData
  <2>3. /\ SaysFrom(LendingPoolBundle_deposit_generateTxData, {})
        /\ Destined(LendingPoolBundle_deposit_generateTxData)
    BY FitSingle, Destinations DEF SaysFrom, User, Behalf, Referral, InLendingPool, RawSupplyArgs,
       LendingPoolBundle_deposit_generateTxData, Unchecked
  <2> QED BY <2>1, <2>2, <2>3, BundlePasses DEF Clean
<1>7. Clean(LendingPoolBundle_borrow_generateTxData, {})
  <2>1. Checked(LendingPoolBundle_borrow_generateTxData, {})
    BY AptChecks DEF Checked, Unchecked, User, Behalf, Referral, InLendingPool, RawBorrowArgs,
       LendingPoolBundle_borrow_generateTxData
  <2>2. SaysArgs(LendingPoolBundle_borrow_generateTxData, {})
    BY FitArgs DEF SaysArgs, User, Behalf, Referral, InLendingPool, RawBorrowArgs,
       LendingPoolBundle_borrow_generateTxData
  <2>3. /\ SaysFrom(LendingPoolBundle_borrow_generateTxData, {})
        /\ Destined(LendingPoolBundle_borrow_generateTxData)
    BY FitSingle, Destinations DEF SaysFrom, User, Behalf, Referral, InLendingPool, RawBorrowArgs,
       LendingPoolBundle_borrow_generateTxData, Unchecked
  <2> QED BY <2>1, <2>2, <2>3, BundlePasses DEF Clean
<1> HIDE DEF Own, Method, Unlike, Amounts, AmountNames, Runs, Sends, Pays, Asks
<1> QED
  BY <1>1, <1>2, <1>3, <1>4, <1>5, <1>6, <1>7, BundleTable DEF BundleMethods

\* Those of the tokens and debt tokens.
LEMMA TokenClean == \A name \in TokenMethods : \E X : Clean(Methods[name], X)
<1> USE DEF Own, Method, Unlike, Amounts, AmountNames, Runs, Sends, Pays, Asks
<1>1. Clean(ERC20_approve, {})
  <2>1. Checked(ERC20_approve, {}) /\ ERC20_approve.routes = <<>>
    BY AptChecks DEF Checked, ERC20Validator, User, ERC20_approve
  <2>2. SaysArgs(ERC20_approve, {})
    BY FitArgs DEF SaysArgs, User, ERC20_approve
  <2>3. SaysFrom(ERC20_approve, {}) /\ Destined(ERC20_approve)
    BY FitSingle, Destinations DEF SaysFrom, User, ERC20_approve, ERC20Validator
  <2> QED BY <2>1, <2>2, <2>3, PlainClean
<1>2. Clean(ERC20_approveTxData, {})
  <2>1. Checked(ERC20_approveTxData, {}) /\ ERC20_approveTxData.routes = <<>>
    BY AptChecks DEF Checked, ERC20Validator, User, ERC20_approveTxData
  <2>2. SaysArgs(ERC20_approveTxData, {})
    BY FitArgs DEF SaysArgs, User, ERC20_approveTxData
  <2>3. SaysFrom(ERC20_approveTxData, {}) /\ Destined(ERC20_approveTxData)
    BY FitSingle, Destinations DEF SaysFrom, User, ERC20_approveTxData, ERC20Validator
  <2> QED BY <2>1, <2>2, <2>3, PlainClean
<1>3. Clean(ERC20_isApproved, {"amount"})
  <2>1. Checked(ERC20_isApproved, {"amount"})
    BY AptChecks DEF Checked, ERC20Validator, User, ERC20_isApproved
  <2>2. SaysArgs(ERC20_isApproved, {"amount"})
    BY FitArgs DEF SaysArgs, User, ERC20_isApproved
  <2>3. SaysFrom(ERC20_isApproved, {"amount"}) /\ Destined(ERC20_isApproved)
    BY FitSingle, Destinations DEF SaysFrom, User, ERC20_isApproved, ERC20Validator
  <2> QED BY <2>1, <2>2, <2>3, OtherPasses DEF Clean
<1>4. Clean(ERC20_approvedAmount, {})
  <2>1. Checked(ERC20_approvedAmount, {})
    BY AptChecks DEF Checked, ERC20Validator, User, ERC20_approvedAmount
  <2>2. SaysArgs(ERC20_approvedAmount, {})
    BY FitArgs DEF SaysArgs, User, ERC20_approvedAmount
  <2>3. SaysFrom(ERC20_approvedAmount, {}) /\ Destined(ERC20_approvedAmount)
    BY FitSingle, Destinations DEF SaysFrom, User, ERC20_approvedAmount, ERC20Validator
  <2> QED BY <2>1, <2>2, <2>3, OtherPasses DEF Clean
<1>5. Clean(ERC20_2612_getNonce, {})
  <2>1. Checked(ERC20_2612_getNonce, {}) /\ ERC20_2612_getNonce.routes = <<>>
    BY AptChecks DEF Checked, ERC20Validator, ERC20_2612_getNonce
  <2>2. SaysArgs(ERC20_2612_getNonce, {})
    BY FitArgs DEF SaysArgs, ERC20_2612_getNonce
  <2>3. SaysFrom(ERC20_2612_getNonce, {}) /\ Destined(ERC20_2612_getNonce)
    BY FitSingle, Destinations DEF SaysFrom, ERC20_2612_getNonce, ERC20Validator
  <2> QED BY <2>1, <2>2, <2>3, PlainClean
<1>6. Clean(DebtToken_approveDelegation, {})
  <2>1. Checked(DebtToken_approveDelegation, {}) /\ DebtToken_approveDelegation.routes = <<>>
    BY AptChecks DEF Checked, DebtTokenValidator, User, DebtTokenChecks,
       DebtToken_approveDelegation
  <2>2. SaysArgs(DebtToken_approveDelegation, {})
    BY FitArgs DEF SaysArgs, User, DebtToken_approveDelegation
  <2>3. SaysFrom(DebtToken_approveDelegation, {}) /\ Destined(DebtToken_approveDelegation)
    BY FitSingle, Destinations DEF SaysFrom, User, DebtToken_approveDelegation, DebtTokenValidator
  <2> QED BY <2>1, <2>2, <2>3, PlainClean
<1>7. Clean(DebtToken_generateApproveDelegationTxData, {})
  <2>1. /\ Checked(DebtToken_generateApproveDelegationTxData, {})
        /\ DebtToken_generateApproveDelegationTxData.routes = <<>>
    BY AptChecks DEF Checked, DebtTokenValidator, User, DebtTokenChecks,
       DebtToken_generateApproveDelegationTxData
  <2>2. SaysArgs(DebtToken_generateApproveDelegationTxData, {})
    BY FitArgs DEF SaysArgs, User, DebtToken_generateApproveDelegationTxData
  <2>3. /\ SaysFrom(DebtToken_generateApproveDelegationTxData, {})
        /\ Destined(DebtToken_generateApproveDelegationTxData)
    BY FitSingle, Destinations DEF SaysFrom, User, DebtToken_generateApproveDelegationTxData,
       DebtTokenValidator
  <2> QED BY <2>1, <2>2, <2>3, PlainClean
<1>8. Clean(DebtToken_approvedDelegationAmount, {})
  <2>1. /\ Checked(DebtToken_approvedDelegationAmount, {})
        /\ DebtToken_approvedDelegationAmount.routes = <<>>
    BY AptChecks DEF Checked, DebtTokenValidator, User, DebtTokenChecks,
       DebtToken_approvedDelegationAmount
  <2>2. SaysArgs(DebtToken_approvedDelegationAmount, {})
    BY FitArgs DEF SaysArgs, User, DebtToken_approvedDelegationAmount
  <2>3. /\ SaysFrom(DebtToken_approvedDelegationAmount, {})
        /\ Destined(DebtToken_approvedDelegationAmount)
    BY FitSingle, Destinations DEF SaysFrom, User, DebtToken_approvedDelegationAmount,
       DebtTokenValidator
  <2> QED BY <2>1, <2>2, <2>3, PlainClean
<1>9. Clean(DebtToken_isDelegationApproved, {})
  <2>1. Checked(DebtToken_isDelegationApproved, {}) /\ DebtToken_isDelegationApproved.routes = <<>>
    BY AptChecks DEF Checked, DebtTokenValidator, DebtToken_isDelegationApproved
  <2>2. SaysArgs(DebtToken_isDelegationApproved, {})
    BY FitArgs DEF SaysArgs, DebtToken_isDelegationApproved
  <2>3. SaysFrom(DebtToken_isDelegationApproved, {}) /\ Destined(DebtToken_isDelegationApproved)
    BY FitSingle, Destinations DEF SaysFrom, DebtToken_isDelegationApproved, DebtTokenValidator
  <2> QED BY <2>1, <2>2, <2>3, PlainClean
<1> HIDE DEF Own, Method, Unlike, Amounts, AmountNames, Runs, Sends, Pays, Asks
<1> QED
  BY <1>1, <1>2, <1>3, <1>4, <1>5, <1>6, <1>7, <1>8, <1>9, TokenTable DEF TokenMethods

\* Those of staking, rewards and faucets.
LEMMA RewardClean == \A name \in RewardMethods : \E X : Clean(Methods[name], X)
<1> USE DEF Own, Method, Unlike, Amounts, AmountNames, Runs, Sends, Pays, Asks
<1>1. Clean(Staking_stakeWithPermit, {})
  <2>1. Checked(Staking_stakeWithPermit, {}) /\ Staking_stakeWithPermit.routes = <<>>
    BY AptChecks DEF Checked, SignStakingValidator, User, Staking_stakeWithPermit
  <2>2. SaysArgs(Staking_stakeWithPermit, {})
    BY FitArgs DEF SaysArgs, User, Staking_stakeWithPermit
  <2>3. SaysFrom(Staking_stakeWithPermit, {}) /\ Destined(Staking_stakeWithPermit)
    BY FitSingle, Destinations DEF SaysFrom, User, Staking_stakeWithPermit, SignStakingValidator
  <2> QED BY <2>1, <2>2, <2>3, PlainClean
<1>2. Clean(Staking_stake, {})
  <2>1. Checked(Staking_stake, {}) /\ Staking_stake.routes = <<>>
    BY AptChecks DEF Checked, StakingValidator, User, StakedToken, Staking_stake
  <2>2. SaysArgs(Staking_stake, {})
    BY FitArgs DEF SaysArgs, User, StakedToken, Staking_stake
  <2>3. SaysFrom(Staking_stake, {}) /\ Destined(Staking_stake)
    BY FitSingle, Destinations DEF SaysFrom, User, StakedToken, Staking_stake, StakingValidator
  <2> QED BY <2>1, <2>2, <2>3, PlainClean
<1>3. Clean(Staking_redeem, {"amount"})
  <2>1. Checked(Staking_redeem, {"amount"}) /\ Staking_redeem.routes = <<>>
    BY AptChecks DEF Checked, StakingValidator, User, StakedToken, Staking_redeem
  <2>2. SaysArgs(Staking_redeem, {"amount"})
    BY FitArgs DEF SaysArgs, User, StakedToken, Staking_redeem
  <2>3. SaysFrom(Staking_redeem, {"amount"}) /\ Destined(Staking_redeem)
    BY FitSingle, Destinations DEF SaysFrom, User, StakedToken, Staking_redeem, StakingValidator
  <2> QED BY <2>1, <2>2, <2>3, PlainClean
<1>4. Clean(Staking_cooldown, {})
  <2>1. Checked(Staking_cooldown, {}) /\ Staking_cooldown.routes = <<>>
    BY AptChecks DEF Checked, StakingValidator, User, StakedToken, Staking_cooldown
  <2>2. SaysArgs(Staking_cooldown, {})
    BY FitArgs DEF SaysArgs, User, StakedToken, Staking_cooldown
  <2>3. SaysFrom(Staking_cooldown, {}) /\ Destined(Staking_cooldown)
    BY FitSingle, Destinations DEF SaysFrom, User, StakedToken, Staking_cooldown, StakingValidator
  <2> QED BY <2>1, <2>2, <2>3, PlainClean
<1>5. Clean(Staking_claimRewards, {"amount"})
  <2>1. Checked(Staking_claimRewards, {"amount"}) /\ Staking_claimRewards.routes = <<>>
    BY AptChecks DEF Checked, StakingValidator, User, StakedToken, Staking_claimRewards
  <2>2. SaysArgs(Staking_claimRewards, {"amount"})
    BY FitArgs DEF SaysArgs, User, StakedToken, Staking_claimRewards
  <2>3. SaysFrom(Staking_claimRewards, {"amount"}) /\ Destined(Staking_claimRewards)
    BY FitSingle, Destinations DEF SaysFrom, User, StakedToken, Staking_claimRewards,
       StakingValidator
  <2> QED BY <2>1, <2>2, <2>3, PlainClean
<1>6. Clean(Incentives_claimRewards, {})
  <2>1. Checked(Incentives_claimRewards, {}) /\ Incentives_claimRewards.routes = <<>>
    BY AptChecks DEF Checked, IncentivesValidator, User, Controller, ClaimChecks,
       Incentives_claimRewards
  <2>2. SaysArgs(Incentives_claimRewards, {})
    BY FitArgs DEF SaysArgs, User, Controller, Incentives_claimRewards
  <2>3. SaysFrom(Incentives_claimRewards, {}) /\ Destined(Incentives_claimRewards)
    BY FitSingle, Destinations DEF SaysFrom, User, Controller, Incentives_claimRewards,
       IncentivesValidator
  <2> QED BY <2>1, <2>2, <2>3, PlainClean
<1>7. Clean(IncentivesV2_claimRewards, {})
  <2>1. Checked(IncentivesV2_claimRewards, {}) /\ IncentivesV2_claimRewards.routes = <<>>
    BY AptChecks DEF Checked, IncentivesValidator, User, Controller, ClaimChecks,
       IncentivesV2_claimRewards
  <2>2. SaysArgs(IncentivesV2_claimRewards, {})
    BY FitArgs DEF SaysArgs, User, Controller, IncentivesV2_claimRewards
  <2>3. SaysFrom(IncentivesV2_claimRewards, {}) /\ Destined(IncentivesV2_claimRewards)
    BY FitSingle, Destinations DEF SaysFrom, User, Controller, IncentivesV2_claimRewards,
       IncentivesValidator
  <2> QED BY <2>1, <2>2, <2>3, PlainClean
<1>8. Clean(IncentivesV2_claimAllRewards, {})
  <2>1. Checked(IncentivesV2_claimAllRewards, {}) /\ IncentivesV2_claimAllRewards.routes = <<>>
    BY AptChecks DEF Checked, IncentivesValidator, User, Controller, ClaimChecks,
       IncentivesV2_claimAllRewards
  <2>2. SaysArgs(IncentivesV2_claimAllRewards, {})
    BY FitArgs DEF SaysArgs, User, Controller, IncentivesV2_claimAllRewards
  <2>3. SaysFrom(IncentivesV2_claimAllRewards, {}) /\ Destined(IncentivesV2_claimAllRewards)
    BY FitSingle, Destinations DEF SaysFrom, User, Controller, IncentivesV2_claimAllRewards,
       IncentivesValidator
  <2> QED BY <2>1, <2>2, <2>3, PlainClean
<1>9. Clean(Faucet_mint, {})
  <2>1. Checked(Faucet_mint, {}) /\ Faucet_mint.routes = <<>>
    BY AptChecks DEF Checked, FaucetValidator, Faucet_mint
  <2>2. SaysArgs(Faucet_mint, {})
    <3> DEFINE minted == Part("tokenSymbol", "mint amount")
    <3>1. Faucet_mint.sends.args = <<Given("reserve"), minted>>
      BY Zenon DEF Faucet_mint
    <3>2. Own(Faucet_mint) = {"userAddress", "reserve", "tokenSymbol"} \cup {}
      BY Zenon DEF Faucet_mint
    <3>3. \A S, X : "tokenSymbol" \in S => Fits(S, X, minted)
      BY MintArgs
    <3> HIDE DEF minted
    <3> QED
      BY <3>1, <3>2, <3>3, FitArgs DEF SaysArgs
  <2>3. SaysFrom(Faucet_mint, {}) /\ Destined(Faucet_mint)
    BY FitSingle, Destinations DEF SaysFrom, Faucet_mint, FaucetValidator
  <2> QED BY <2>1, <2>2, <2>3, PlainClean
<1>10. Clean(V3Faucet_mint, {})
  <2>1. Checked(V3Faucet_mint, {}) /\ V3Faucet_mint.routes = <<>>
    BY AptChecks DEF Checked, FaucetValidator, V3Faucet_mint
  <2>2. SaysArgs(V3Faucet_mint, {})
    <3> DEFINE minted == Part("tokenSymbol", "mint amount")
    <3>1. V3Faucet_mint.sends.args = <<Given("reserve"), Given("userAddress"), minted>>
      BY Zenon DEF V3Faucet_mint
    <3>2. Own(V3Faucet_mint) = {"userAddress", "reserve", "tokenSymbol"} \cup {"owner"}
      BY Zenon DEF V3Faucet_mint
    <3>3. \A S, X : "tokenSymbol" \in S => Fits(S, X, minted)
      BY MintArgs
    <3> HIDE DEF minted
    <3> QED
      BY <3>1, <3>2, <3>3, FitArgs DEF SaysArgs
  <2>3. SaysFrom(V3Faucet_mint, {}) /\ Destined(V3Faucet_mint)
    BY FitSingle, Destinations DEF SaysFrom, V3Faucet_mint, FaucetValidator
  <2> QED BY <2>1, <2>2, <2>3, PlainClean
<1>11. Clean(V3Faucet_isPermissioned, {})
  <2>1. Checked(V3Faucet_isPermissioned, {}) /\ V3Faucet_isPermissioned.routes = <<>>
    BY AptChecks DEF Checked, Unchecked, V3Faucet_isPermissioned
  <2>2. SaysArgs(V3Faucet_isPermissioned, {})
    BY FitArgs DEF SaysArgs, V3Faucet_isPermissioned
  <2>3. SaysFrom(V3Faucet_isPermissioned, {}) /\ Destined(V3Faucet_isPermissioned)
    BY FitSingle, Destinations DEF SaysFrom, V3Faucet_isPermissioned, Unchecked
  <2> QED BY <2>1, <2>2, <2>3, PlainClean
<1> HIDE DEF Own, Method, Unlike, Amounts, AmountNames, Runs, Sends, Pays, Asks
<1> QED
  BY <1>1, <1>2, <1>3, <1>4, <1>5, <1>6, <1>7, <1>8, <1>9, <1>10, <1>11, RewardTable DEF
     RewardMethods

\* Those of governance and delegation.
LEMMA GovernanceClean == \A name \in GovernanceMethods : \E X : Clean(Methods[name], X)
<1> USE DEF Own, Method, Unlike, Amounts, AmountNames, Runs, Sends, Pays, Asks
<1>1. Clean(Governance_submitVote, {})
  <2>1. Checked(Governance_submitVote, {}) /\ Governance_submitVote.routes = <<>>
    BY AptChecks DEF Checked, GovValidator, User, Governance, Governance_submitVote
  <2>2. SaysArgs(Governance_submitVote, {})
    BY FitArgs DEF SaysArgs, User, Governance, Governance_submitVote
  <2>3. SaysFrom(Governance_submitVote, {}) /\ Destined(Governance_submitVote)
    BY FitSingle, Destinations DEF SaysFrom, User, Governance, Governance_submitVote, GovValidator
  <2> QED BY <2>1, <2>2, <2>3, PlainClean
<1>2. Clean(Governance_getProposals, {})
  <2>1. Checked(Governance_getProposals, {}) /\ Governance_getProposals.routes = <<>>
    BY AptChecks DEF Checked, GovHelperValidator, Governance, GovernanceHelper,
       Governance_getProposals
  <2>2. SaysArgs(Governance_getProposals, {})
    BY FitArgs DEF SaysArgs, Governance, GovernanceHelper, Governance_getProposals
  <2>3. SaysFrom(Governance_getProposals, {}) /\ Destined(Governance_getProposals)
    BY FitSingle, Destinations DEF SaysFrom, Governance, GovernanceHelper,
       Governance_getProposals, GovHelperValidator
  <2> QED BY <2>1, <2>2, <2>3, PlainClean
<1>3. Clean(Governance_getProposal, {})
  <2>1. Checked(Governance_getProposal, {}) /\ Governance_getProposal.routes = <<>>
    BY AptChecks DEF Checked, GovHelperValidator, Governance, GovernanceHelper,
       Governance_getProposal
  <2>2. SaysArgs(Governance_getProposal, {})
    BY FitArgs DEF SaysArgs, Governance, GovernanceHelper, Governance_getProposal
  <2>3. SaysFrom(Governance_getProposal, {}) /\ Destined(Governance_getProposal)
    BY FitSingle, Destinations DEF SaysFrom, Governance, GovernanceHelper, Governance_getProposal,
       GovHelperValidator
  <2> QED BY <2>1, <2>2, <2>3, PlainClean
<1>4. Clean(Governance_getVotingPowerAt, {})
  <2>1. Checked(Governance_getVotingPowerAt, {}) /\ Governance_getVotingPowerAt.routes = <<>>
    BY AptChecks DEF Checked, GovValidator, User, Governance_getVotingPowerAt
  <2>2. SaysArgs(Governance_getVotingPowerAt, {})
    BY FitArgs DEF SaysArgs, User, Governance_getVotingPowerAt
  <2>3. SaysFrom(Governance_getVotingPowerAt, {}) /\ Destined(Governance_getVotingPowerAt)
    BY FitSingle, Destinations DEF SaysFrom, User, Governance_getVotingPowerAt, GovValidator
  <2> QED BY <2>1, <2>2, <2>3, PlainClean
<1>5. Clean(Governance_getTokensPower, {})
  <2>1. Checked(Governance_getTokensPower, {}) /\ Governance_getTokensPower.routes = <<>>
    BY AptChecks DEF Checked, GovHelperValidator, User, GovernanceHelper,
       Governance_getTokensPower
  <2>2. SaysArgs(Governance_getTokensPower, {})
    BY FitArgs DEF SaysArgs, User, GovernanceHelper, Governance_getTokensPower
  <2>3. SaysFrom(Governance_getTokensPower, {}) /\ Destined(Governance_getTokensPower)
    BY FitSingle, Destinations DEF SaysFrom, User, GovernanceHelper, Governance_getTokensPower,
       GovHelperValidator
  <2> QED BY <2>1, <2>2, <2>3, PlainClean
<1>6. Clean(Governance_getVoteOnProposal, {})
  <2>1. Checked(Governance_getVoteOnProposal, {}) /\ Governance_getVoteOnProposal.routes = <<>>
    BY AptChecks DEF Checked, GovValidator, User, Governance, Governance_getVoteOnProposal
  <2>2. SaysArgs(Governance_getVoteOnProposal, {})
    BY FitArgs DEF SaysArgs, User, Governance, Governance_getVoteOnProposal
  <2>3. SaysFrom(Governance_getVoteOnProposal, {}) /\ Destined(Governance_getVoteOnProposal)
    BY FitSingle, Destinations DEF SaysFrom, User, Governance, Governance_getVoteOnProposal,
       GovValidator
  <2> QED BY <2>1, <2>2, <2>3, PlainClean
<1>7. Clean(Governance_getProposalsCount, {})
  <2>1. Checked(Governance_getProposalsCount, {}) /\ Governance_getProposalsCount.routes = <<>>
    BY AptChecks DEF Checked, GovValidator, Governance, Governance_getProposalsCount
  <2>2. SaysArgs(Governance_getProposalsCount, {})
    BY FitArgs DEF SaysArgs, Governance, Governance_getProposalsCount
  <2>3. SaysFrom(Governance_getProposalsCount, {}) /\ Destined(Governance_getProposalsCount)
    BY FitSingle, Destinations DEF SaysFrom, Governance, Governance_getProposalsCount,
       GovValidator
  <2> QED BY <2>1, <2>2, <2>3, PlainClean
<1>8. Clean(Governance_delegateTokensBySig, {})
  <2>1. Checked(Governance_delegateTokensBySig, {}) /\ Governance_delegateTokensBySig.routes = <<>>
    BY AptChecks DEF Checked, GovHelperValidator, User, GovernanceHelper,
       Governance_delegateTokensBySig
  <2>2. SaysArgs(Governance_delegateTokensBySig, {})
    BY FitArgs DEF SaysArgs, User, GovernanceHelper, Governance_delegateTokensBySig
  <2>3. SaysFrom(Governance_delegateTokensBySig, {}) /\ Destined(Governance_delegateTokensBySig)
    BY FitSingle, Destinations DEF SaysFrom, User, GovernanceHelper,
       Governance_delegateTokensBySig, GovHelperValidator
  <2> QED BY <2>1, <2>2, <2>3, PlainClean
<1>9. Clean(Governance_delegateTokensByTypeBySig, {})
  <2>1. /\ Checked(Governance_delegateTokensByTypeBySig, {})
        /\ Governance_delegateTokensByTypeBySig.routes = <<>>
    BY AptChecks DEF Checked, GovHelperValidator, User, GovernanceHelper,
       Governance_delegateTokensByTypeBySig
  <2>2. SaysArgs(Governance_delegateTokensByTypeBySig, {})
    BY FitArgs DEF SaysArgs, User, GovernanceHelper, Governance_delegateTokensByTypeBySig
  <2>3. /\ SaysFrom(Governance_delegateTokensByTypeBySig, {})
        /\ Destined(Governance_delegateTokensByTypeBySig)
    BY FitSingle, Destinations DEF SaysFrom, User, GovernanceHelper,
       Governance_delegateTokensByTypeBySig, GovHelperValidator
  <2> QED BY <2>1, <2>2, <2>3, PlainClean
<1>10. Clean(Delegation_delegate, {"delegatee"})
  <2>1. Checked(Delegation_delegate, {"delegatee"}) /\ Delegation_delegate.routes = <<>>
    BY AptChecks DEF Checked, GovDelegationValidator, User, InToken, DelegationChecks,
       Delegation_delegate
  <2>2. SaysArgs(Delegation_delegate, {"delegatee"})
    BY FitArgs DEF SaysArgs, User, InToken, Delegation_delegate
  <2>3. SaysFrom(Delegation_delegate, {"delegatee"}) /\ Destined(Delegation_delegate)
    BY FitSingle, Destinations DEF SaysFrom, User, InToken, Delegation_delegate,
       GovDelegationValidator
  <2> QED BY <2>1, <2>2, <2>3, PlainClean
<1>11. Clean(Delegation_delegateByType, {"delegatee"})
  <2>1. Checked(Delegation_delegateByType, {"delegatee"}) /\ Delegation_delegateByType.routes = <<>>
    BY AptChecks DEF Checked, GovDelegationValidator, User, InToken, DelegationChecks,
       Delegation_delegateByType
  <2>2. SaysArgs(Delegation_delegateByType, {"delegatee"})
    BY FitArgs DEF SaysArgs, User, InToken, Delegation_delegateByType
  <2>3. SaysFrom(Delegation_delegateByType, {"delegatee"}) /\ Destined(Delegation_delegateByType)
    BY FitSingle, Destinations DEF SaysFrom, User, InToken, Delegation_delegateByType,
       GovDelegationValidator
  <2> QED BY <2>1, <2>2, <2>3, PlainClean
<1>12. Clean(Delegation_delegateBySig, {"delegatee"})
  <2>1. Checked(Delegation_delegateBySig, {"delegatee"}) /\ Delegation_delegateBySig.routes = <<>>
    BY AptChecks DEF Checked, GovDelegationValidator, User, InToken, DelegationChecks,
       SignedDelegation, Delegation_delegateBySig
  <2>2. SaysArgs(Delegation_delegateBySig, {"delegatee"})
    BY FitArgs DEF SaysArgs, User, InToken, SignedDelegation, Delegation_delegateBySig
  <2>3. SaysFrom(Delegation_delegateBySig, {"delegatee"}) /\ Destined(Delegation_delegateBySig)
    BY FitSingle, Destinations DEF SaysFrom, User, InToken, SignedDelegation,
       Delegation_delegateBySig, GovDelegationValidator
  <2> QED BY <2>1, <2>2, <2>3, PlainClean
<1>13. Clean(Delegation_delegateByTypeBySig, {"delegatee"})
  <2>1. /\ Checked(Delegation_delegateByTypeBySig, {"delegatee"})
        /\ Delegation_delegateByTypeBySig.routes = <<>>
    BY AptChecks DEF Checked, GovDelegationValidator, User, InToken, DelegationChecks,
       SignedDelegation, Delegation_delegateByTypeBySig
  <2>2. SaysArgs(Delegation_delegateByTypeBySig, {"delegatee"})
    BY FitArgs DEF SaysArgs, User, InToken, SignedDelegation, Delegation_delegateByTypeBySig
  <2>3. /\ SaysFrom(Delegation_delegateByTypeBySig, {"delegatee"})
        /\ Destined(Delegation_delegateByTypeBySig)
    BY FitSingle, Destinations DEF SaysFrom, User, InToken, SignedDelegation,
       Delegation_delegateByTypeBySig, GovDelegationValidator
  <2> QED BY <2>1, <2>2, <2>3, PlainClean
<1>14. Clean(Delegation_getDelegateeByType, {})
  <2>1. Checked(Delegation_getDelegateeByType, {}) /\ Delegation_getDelegateeByType.routes = <<>>
    BY AptChecks DEF Checked, GovDelegationValidator, AsksToken, Delegation_getDelegateeByType
  <2>2. SaysArgs(Delegation_getDelegateeByType, {})
    BY FitArgs DEF SaysArgs, AsksToken, Delegation_getDelegateeByType
  <2>3. SaysFrom(Delegation_getDelegateeByType, {}) /\ Destined(Delegation_getDelegateeByType)
    BY FitSingle, Destinations DEF SaysFrom, AsksToken, Delegation_getDelegateeByType,
       GovDelegationValidator
  <2> QED BY <2>1, <2>2, <2>3, PlainClean
<1>15. Clean(Delegation_getPowerCurrent, {})
  <2>1. Checked(Delegation_getPowerCurrent, {}) /\ Delegation_getPowerCurrent.routes = <<>>
    BY AptChecks DEF Checked, GovDelegationValidator, User, AsksToken, Delegation_getPowerCurrent
  <2>2. SaysArgs(Delegation_getPowerCurrent, {})
    BY FitArgs DEF SaysArgs, User, AsksToken, Delegation_getPowerCurrent
  <2>3. SaysFrom(Delegation_getPowerCurrent, {}) /\ Destined(Delegation_getPowerCurrent)
    BY FitSingle, Destinations DEF SaysFrom, User, AsksToken, Delegation_getPowerCurrent,
       GovDelegationValidator
  <2> QED BY <2>1, <2>2, <2>3, PlainClean
<1>16. Clean(Delegation_getPowerAtBlock, {})
  <2>1. Checked(Delegation_getPowerAtBlock, {}) /\ Delegation_getPowerAtBlock.routes = <<>>
    BY AptChecks DEF Checked, GovDelegationValidator, User, AsksToken, Delegation_getPowerAtBlock
  <2>2. SaysArgs(Delegation_getPowerAtBlock, {})
    BY FitArgs DEF SaysArgs, User, AsksToken, Delegation_getPowerAtBlock
  <2>3. SaysFrom(Delegation_getPowerAtBlock, {}) /\ Destined(Delegation_getPowerAtBlock)
    BY FitSingle, Destinations DEF SaysFrom, User, AsksToken, Delegation_getPowerAtBlock,
       GovDelegationValidator
  <2> QED BY <2>1, <2>2, <2>3, PlainClean
<1>17. Clean(Delegation_getNonce, {})
  <2>1. Checked(Delegation_getNonce, {}) /\ Delegation_getNonce.routes = <<>>
    BY AptChecks DEF Checked, GovDelegationValidator, User, AsksToken, Delegation_getNonce
  <2>2. SaysArgs(Delegation_getNonce, {})
    BY FitArgs DEF SaysArgs, User, AsksToken, Delegation_getNonce
  <2>3. SaysFrom(Delegation_getNonce, {}) /\ Destined(Delegation_getNonce)
    BY FitSingle, Destinations DEF SaysFrom, User, AsksToken, Delegation_getNonce,
       GovDelegationValidator
  <2> QED BY <2>1, <2>2, <2>3, PlainClean
<1> HIDE DEF Own, Method, Unlike, Amounts, AmountNames, Runs, Sends, Pays, Asks
<1> QED
  BY <1>1, <1>2, <1>3, <1>4, <1>5, <1>6, <1>7, <1>8, <1>9, <1>10, <1>11, <1>12, <1>13, <1>14,
     <1>15, <1>16, <1>17, GovernanceTable DEF GovernanceMethods

\* Those of migration and of the reads.
LEMMA ReadClean == \A name \in ReadMethods : \E X : Clean(Methods[name], X)
<1> USE DEF Own, Method, Unlike, Amounts, AmountNames, Runs, Sends, Pays, Asks
<1>1. Clean(Migration_migrate, {})
  <2>1. Checked(Migration_migrate, {}) /\ Migration_migrate.routes = <<>>
    BY AptChecks DEF Checked, V3MigratorValidator, User, Migration_migrate
  <2>2. SaysArgs(Migration_migrate, {})
    BY FitArgs, FitSingle, FitPacked DEF SaysArgs, User, Migration_migrate
  <2>3. SaysFrom(Migration_migrate, {}) /\ Destined(Migration_migrate)
    BY FitSingle, Destinations DEF SaysFrom, User, Migration_migrate, V3MigratorValidator
  <2> QED BY <2>1, <2>2, <2>3, PlainClean
<1>2. Clean(Migration_getMigrationSupply, {})
  <2>1. Checked(Migration_getMigrationSupply, {}) /\ Migration_getMigrationSupply.routes = <<>>
    BY AptChecks DEF Checked, V3MigratorValidator, Migration_getMigrationSupply
  <2>2. SaysArgs(Migration_getMigrationSupply, {})
    BY FitArgs DEF SaysArgs, Migration_getMigrationSupply
  <2>3. SaysFrom(Migration_getMigrationSupply, {}) /\ Destined(Migration_getMigrationSupply)
    BY FitSingle, Destinations DEF SaysFrom, Migration_getMigrationSupply, V3MigratorValidator
  <2> QED BY <2>1, <2>2, <2>3, PlainClean
<1>3. Clean(WalletBalance_balanceOf_, {})
  <2>1. Checked(WalletBalance_balanceOf_, {}) /\ WalletBalance_balanceOf_.routes = <<>>
    BY AptChecks DEF Checked, WalletBalance_balanceOf, isAddress, User, Reads,
       WalletBalance_balanceOf_
  <2>2. SaysArgs(WalletBalance_balanceOf_, {})
    BY FitArgs DEF SaysArgs, WalletBalance_balanceOf, User, Reads, WalletBalance_balanceOf_
  <2>3. SaysFrom(WalletBalance_balanceOf_, {}) /\ Destined(WalletBalance_balanceOf_)
    BY FitSingle, Destinations DEF SaysFrom, WalletBalance_balanceOf, User, Reads,
       WalletBalance_balanceOf_, isAddress
  <2> QED BY <2>1, <2>2, <2>3, PlainClean
<1>4. Clean(WalletBalance_batchBalanceOf_, {})
  <2>1. Checked(WalletBalance_batchBalanceOf_, {}) /\ WalletBalance_batchBalanceOf_.routes = <<>>
    BY AptChecks DEF Checked, WalletBalance_batchBalanceOf, isAddress,
       WalletBalance_batchBalanceOf_
  <2>2. SaysArgs(WalletBalance_batchBalanceOf_, {})
    BY FitArgs DEF SaysArgs, WalletBalance_batchBalanceOf, WalletBalance_batchBalanceOf_
  <2>3. SaysFrom(WalletBalance_batchBalanceOf_, {}) /\ Destined(WalletBalance_batchBalanceOf_)
    BY FitSingle, Destinations DEF SaysFrom, WalletBalance_batchBalanceOf,
       WalletBalance_batchBalanceOf_, isAddress
  <2> QED BY <2>1, <2>2, <2>3, PlainClean
<1>5. Clean(WalletBalance_getUserWalletBalancesForLendingPoolProvider, {})
  <2>1. /\ Checked(WalletBalance_getUserWalletBalancesForLendingPoolProvider, {})
        /\ WalletBalance_getUserWalletBalancesForLendingPoolProvider.routes = <<>>
    BY AptChecks DEF Checked, WalletBalance_getUserWalletBalances, isAddress, User, Reads,
       Provider, OfUser, WalletBalance_getUserWalletBalancesForLendingPoolProvider
  <2>2. SaysArgs(WalletBalance_getUserWalletBalancesForLendingPoolProvider, {})
    BY FitArgs DEF SaysArgs, WalletBalance_getUserWalletBalances, User, Reads, Provider, OfUser,
       WalletBalance_getUserWalletBalancesForLendingPoolProvider
  <2>3. /\ SaysFrom(WalletBalance_getUserWalletBalancesForLendingPoolProvider, {})
        /\ Destined(WalletBalance_getUserWalletBalancesForLendingPoolProvider)
    BY FitSingle, Destinations DEF SaysFrom, WalletBalance_getUserWalletBalances, User, Reads,
       Provider, OfUser, WalletBalance_getUserWalletBalancesForLendingPoolProvider, isAddress
  <2> QED BY <2>1, <2>2, <2>3, PlainClean
<1>6. Clean(Permissions_getUserPermissions, {})
  <2>1. Checked(Permissions_getUserPermissions, {}) /\ Permissions_getUserPermissions.routes = <<>>
    BY AptChecks DEF Checked, PermissionManager_getUserPermissions, isAddress, User, Reads,
       Permissions_getUserPermissions
  <2>2. SaysArgs(Permissions_getUserPermissions, {})
    BY FitArgs DEF SaysArgs, PermissionManager_getUserPermissions, User, Reads,
       Permissions_getUserPermissions
  <2>3. SaysFrom(Permissions_getUserPermissions, {}) /\ Destined(Permissions_getUserPermissions)
    BY FitSingle, Destinations DEF SaysFrom, PermissionManager_getUserPermissions, User, Reads,
       Permissions_getUserPermissions, isAddress
  <2> QED BY <2>1, <2>2, <2>3, PlainClean
<1>7. Clean(Feeds_latestRoundData, {})
  <2>1. Checked(Feeds_latestRoundData, {}) /\ Feeds_latestRoundData.routes = <<>>
    BY AptChecks DEF Checked, FeedRegistry_latestRoundData, isAddress, Feeds_latestRoundData
  <2>2. SaysArgs(Feeds_latestRoundData, {})
    BY FitArgs DEF SaysArgs, FeedRegistry_latestRoundData, Feeds_latestRoundData
  <2>3. SaysFrom(Feeds_latestRoundData, {}) /\ Destined(Feeds_latestRoundData)
    BY FitSingle, Destinations DEF SaysFrom, FeedRegistry_latestRoundData, Feeds_latestRoundData,
       isAddress
  <2> QED BY <2>1, <2>2, <2>3, PlainClean
<1>8. Clean(Feeds_decimals, {})
  <2>1. Checked(Feeds_decimals, {}) /\ Feeds_decimals.routes = <<>>
    BY AptChecks DEF Checked, FeedRegistry_decimals, isAddress, Feeds_decimals
  <2>2. SaysArgs(Feeds_decimals, {})
    BY FitArgs DEF SaysArgs, FeedRegistry_decimals, Feeds_decimals
  <2>3. SaysFrom(Feeds_decimals, {}) /\ Destined(Feeds_decimals)
    BY FitSingle, Destinations DEF SaysFrom, FeedRegistry_decimals, Feeds_decimals, isAddress
  <2> QED BY <2>1, <2>2, <2>3, PlainClean
<1>9. Clean(UiPool_getReservesList_, {})
  <2>1. Checked(UiPool_getReservesList_, {}) /\ UiPool_getReservesList_.routes = <<>>
    BY AptChecks DEF Checked, UiPool_getReservesList, isAddress, Reads, Provider, OfPool,
       UiPool_getReservesList_
  <2>2. SaysArgs(UiPool_getReservesList_, {})
    BY FitArgs DEF SaysArgs, UiPool_getReservesList, Reads, Provider, OfPool,
       UiPool_getReservesList_
  <2>3. SaysFrom(UiPool_getReservesList_, {}) /\ Destined(UiPool_getReservesList_)
    BY FitSingle, Destinations DEF SaysFrom, UiPool_getReservesList, Reads, Provider, OfPool,
       UiPool_getReservesList_, isAddress
  <2> QED BY <2>1, <2>2, <2>3, PlainClean
<1>10. Clean(UiPool_getReservesData_, {})
  <2>1. Checked(UiPool_getReservesData_, {}) /\ UiPool_getReservesData_.routes = <<>>
    BY AptChecks DEF Checked, UiPool_getReservesData, isAddress, Reads, Provider, OfPool,
       UiPool_getReservesData_
  <2>2. SaysArgs(UiPool_getReservesData_, {})
    BY FitArgs DEF SaysArgs, UiPool_getReservesData, Reads, Provider, OfPool,
       UiPool_getReservesData_
  <2>3. SaysFrom(UiPool_getReservesData_, {}) /\ Destined(UiPool_getReservesData_)
    BY FitSingle, Destinations DEF SaysFrom, UiPool_getReservesData, Reads, Provider, OfPool,
       UiPool_getReservesData_, isAddress
  <2> QED BY <2>1, <2>2, <2>3, PlainClean
<1>11. Clean(UiPool_getUserReservesData_, {})
  <2>1. Checked(UiPool_getUserReservesData_, {}) /\ UiPool_getUserReservesData_.routes = <<>>
    BY AptChecks DEF Checked, UiPool_getUserReservesData, isAddress, User, Reads, Provider,
       OfUser, UiPool_getUserReservesData_
  <2>2. SaysArgs(UiPool_getUserReservesData_, {})
    BY FitArgs DEF SaysArgs, UiPool_getUserReservesData, User, Reads, Provider, OfUser,
       UiPool_getUserReservesData_
  <2>3. SaysFrom(UiPool_getUserReservesData_, {}) /\ Destined(UiPool_getUserReservesData_)
    BY FitSingle, Destinations DEF SaysFrom, UiPool_getUserReservesData, User, Reads, Provider,
       OfUser, UiPool_getUserReservesData_, isAddress
  <2> QED BY <2>1, <2>2, <2>3, PlainClean
<1>12. Clean(UiPoolV3_getReservesList_, {})
  <2>1. Checked(UiPoolV3_getReservesList_, {}) /\ UiPoolV3_getReservesList_.routes = <<>>
    BY AptChecks DEF Checked, UiPoolV3_getReservesList, isAddress, Reads, Provider, OfPool,
       UiPoolV3_getReservesList_
  <2>2. SaysArgs(UiPoolV3_getReservesList_, {})
    BY FitArgs DEF SaysArgs, UiPoolV3_getReservesList, Reads, Provider, OfPool,
       UiPoolV3_getReservesList_
  <2>3. SaysFrom(UiPoolV3_getReservesList_, {}) /\ Destined(UiPoolV3_getReservesList_)
    BY FitSingle, Destinations DEF SaysFrom, UiPoolV3_getReservesList, Reads, Provider, OfPool,
       UiPoolV3_getReservesList_, isAddress
  <2> QED BY <2>1, <2>2, <2>3, PlainClean
<1>13. Clean(UiPoolV3_getReservesData_, {})
  <2>1. Checked(UiPoolV3_getReservesData_, {}) /\ UiPoolV3_getReservesData_.routes = <<>>
    BY AptChecks DEF Checked, UiPoolV3_getReservesData, isAddress, Reads, Provider, OfPool,
       UiPoolV3_getReservesData_
  <2>2. SaysArgs(UiPoolV3_getReservesData_, {})
    BY FitArgs DEF SaysArgs, UiPoolV3_getReservesData, Reads, Provider, OfPool,
       UiPoolV3_getReservesData_
  <2>3. SaysFrom(UiPoolV3_getReservesData_, {}) /\ Destined(UiPoolV3_getReservesData_)
    BY FitSingle, Destinations DEF SaysFrom, UiPoolV3_getReservesData, Reads, Provider, OfPool,
       UiPoolV3_getReservesData_, isAddress
  <2> QED BY <2>1, <2>2, <2>3, PlainClean
<1>14. Clean(UiPoolV3_getUserReservesData_, {})
  <2>1. Checked(UiPoolV3_getUserReservesData_, {}) /\ UiPoolV3_getUserReservesData_.routes = <<>>
    BY AptChecks DEF Checked, UiPoolV3_getUserReservesData, isAddress, User, Reads, Provider,
       OfUser, UiPoolV3_getUserReservesData_
  <2>2. SaysArgs(UiPoolV3_getUserReservesData_, {})
    BY FitArgs DEF SaysArgs, UiPoolV3_getUserReservesData, User, Reads, Provider, OfUser,
       UiPoolV3_getUserReservesData_
  <2>3. SaysFrom(UiPoolV3_getUserReservesData_, {}) /\ Destined(UiPoolV3_getUserReservesData_)
    BY FitSingle, Destinations DEF SaysFrom, UiPoolV3_getUserReservesData, User, Reads, Provider,
       OfUser, UiPoolV3_getUserReservesData_, isAddress
  <2> QED BY <2>1, <2>2, <2>3, PlainClean
<1>15. Clean(UiIncentive_getFullReservesIncentiveData_, {})
  <2>1. /\ Checked(UiIncentive_getFullReservesIncentiveData_, {})
        /\ UiIncentive_getFullReservesIncentiveData_.routes = <<>>
    BY AptChecks DEF Checked, UiIncentive_getFullReservesIncentiveData, isAddress, User, Reads,
       Provider, OfUser, UiIncentive_getFullReservesIncentiveData_
  <2>2. SaysArgs(UiIncentive_getFullReservesIncentiveData_, {})
    BY FitArgs DEF SaysArgs, UiIncentive_getFullReservesIncentiveData, User, Reads, Provider,
       OfUser, UiIncentive_getFullReservesIncentiveData_
  <2>3. /\ SaysFrom(UiIncentive_getFullReservesIncentiveData_, {})
        /\ Destined(UiIncentive_getFullReservesIncentiveData_)
    BY FitSingle, Destinations DEF SaysFrom, UiIncentive_getFullReservesIncentiveData, User,
       Reads, Provider, OfUser, UiIncentive_getFullReservesIncentiveData_, isAddress
  <2> QED BY <2>1, <2>2, <2>3, PlainClean
<1>16. Clean(UiIncentive_getReservesIncentivesData_, {})
  <2>1. /\ Checked(UiIncentive_getReservesIncentivesData_, {})
        /\ UiIncentive_getReservesIncentivesData_.routes = <<>>
    BY AptChecks DEF Checked, UiIncentive_getReservesIncentivesData, isAddress, Reads, Provider,
       OfPool, UiIncentive_getReservesIncentivesData_
  <2>2. SaysArgs(UiIncentive_getReservesIncentivesData_, {})
    BY FitArgs DEF SaysArgs, UiIncentive_getReservesIncentivesData, Reads, Provider, OfPool,
       UiIncentive_getReservesIncentivesData_
  <2>3. /\ SaysFrom(UiIncentive_getReservesIncentivesData_, {})
        /\ Destined(UiIncentive_getReservesIncentivesData_)
    BY FitSingle, Destinations DEF SaysFrom, UiIncentive_getReservesIncentivesData, Reads,
       Provider, OfPool, UiIncentive_getReservesIncentivesData_, isAddress
  <2> QED BY <2>1, <2>2, <2>3, PlainClean
<1>17. Clean(UiIncentive_getUserReservesIncentivesData_, {})
  <2>1. /\ Checked(UiIncentive_getUserReservesIncentivesData_, {})
        /\ UiIncentive_getUserReservesIncentivesData_.routes = <<>>
    BY AptChecks DEF Checked, UiIncentive_getUserReservesIncentivesData, isAddress, User, Reads,
       Provider, OfUser, UiIncentive_getUserReservesIncentivesData_
  <2>2. SaysArgs(UiIncentive_getUserReservesIncentivesData_, {})
    BY FitArgs DEF SaysArgs, UiIncentive_getUserReservesIncentivesData, User, Reads, Provider,
       OfUser, UiIncentive_getUserReservesIncentivesData_
  <2>3. /\ SaysFrom(UiIncentive_getUserReservesIncentivesData_, {})
        /\ Destined(UiIncentive_getUserReservesIncentivesData_)
    BY FitSingle, Destinations DEF SaysFrom, UiIncentive_getUserReservesIncentivesData, User,
       Reads, Provider, OfUser, UiIncentive_getUserReservesIncentivesData_, isAddress
  <2> QED BY <2>1, <2>2, <2>3, PlainClean
<1>18. Clean(UiIncentiveV3_getFullReservesIncentiveData_, {})
  <2>1. /\ Checked(UiIncentiveV3_getFullReservesIncentiveData_, {})
        /\ UiIncentiveV3_getFullReservesIncentiveData_.routes = <<>>
    BY AptChecks DEF Checked, UiIncentiveV3_getFullReservesIncentiveData,
       UiIncentiveDataProviderValidator, User, Reads, Provider, OfUser,
       UiIncentiveV3_getFullReservesIncentiveData_
  <2>2. SaysArgs(UiIncentiveV3_getFullReservesIncentiveData_, {})
    BY FitArgs DEF SaysArgs, UiIncentiveV3_getFullReservesIncentiveData, User, Reads, Provider,
       OfUser, UiIncentiveV3_getFullReservesIncentiveData_
  <2>3. /\ SaysFrom(UiIncentiveV3_getFullReservesIncentiveData_, {})
        /\ Destined(UiIncentiveV3_getFullReservesIncentiveData_)
    BY FitSingle, Destinations DEF SaysFrom, UiIncentiveV3_getFullReservesIncentiveData, User,
       Reads, Provider, OfUser, UiIncentiveV3_getFullReservesIncentiveData_,
       UiIncentiveDataProviderValidator
  <2> QED BY <2>1, <2>2, <2>3, PlainClean
<1>19. Clean(UiIncentiveV3_getReservesIncentivesData_, {})
  <2>1. /\ Checked(UiIncentiveV3_getReservesIncentivesData_, {})
        /\ UiIncentiveV3_getReservesIncentivesData_.routes = <<>>
    BY AptChecks DEF Checked, UiIncentiveV3_getReservesIncentivesData,
       UiIncentiveDataProviderValidator, Reads, Provider, OfPool,
       UiIncentiveV3_getReservesIncentivesData_
  <2>2. SaysArgs(UiIncentiveV3_getReservesIncentivesData_, {})
    BY FitArgs DEF SaysArgs, UiIncentiveV3_getReservesIncentivesData, Reads, Provider, OfPool,
       UiIncentiveV3_getReservesIncentivesData_
  <2>3. /\ SaysFrom(UiIncentiveV3_getReservesIncentivesData_, {})
        /\ Destined(UiIncentiveV3_getReservesIncentivesData_)
    BY FitSingle, Destinations DEF SaysFrom, UiIncentiveV3_getReservesIncentivesData, Reads,
       Provider, OfPool, UiIncentiveV3_getReservesIncentivesData_,
       UiIncentiveDataProviderValidator
  <2> QED BY <2>1, <2>2, <2>3, PlainClean
<1>20. Clean(UiIncentiveV3_getUserReservesIncentivesData_, {})
  <2>1. /\ Checked(UiIncentiveV3_getUserReservesIncentivesData_, {})
        /\ UiIncentiveV3_getUserReservesIncentivesData_.routes = <<>>
    BY AptChecks DEF Checked, UiIncentiveV3_getUserReservesIncentivesData,
       UiIncentiveDataProviderValidator, User, Reads, Provider, OfUser,
       UiIncentiveV3_getUserReservesIncentivesData_
  <2>2. SaysArgs(UiIncentiveV3_getUserReservesIncentivesData_, {})
    BY FitArgs DEF SaysArgs, UiIncentiveV3_getUserReservesIncentivesData, User, Reads, Provider,
       OfUser, UiIncentiveV3_getUserReservesIncentivesData_
  <2>3. /\ SaysFrom(UiIncentiveV3_getUserReservesIncentivesData_, {})
        /\ Destined(UiIncentiveV3_getUserReservesIncentivesData_)
    BY FitSingle, Destinations DEF SaysFrom, UiIncentiveV3_getUserReservesIncentivesData, User,
       Reads, Provider, OfUser, UiIncentiveV3_getUserReservesIncentivesData_,
       UiIncentiveDataProviderValidator
  <2> QED BY <2>1, <2>2, <2>3, PlainClean
<1>21. Clean(StakeUi_getGeneralStakeUIData, {})
  <2>1. Checked(StakeUi_getGeneralStakeUIData, {}) /\ StakeUi_getGeneralStakeUIData.routes = <<>>
    BY AptChecks DEF Checked, StakedTokenData_getAllStakedTokenData, Unchecked, Reads,
       StakeUi_getGeneralStakeUIData
  <2>2. SaysArgs(StakeUi_getGeneralStakeUIData, {})
    BY FitArgs DEF SaysArgs, StakedTokenData_getAllStakedTokenData, Reads,
       StakeUi_getGeneralStakeUIData
  <2>3. SaysFrom(StakeUi_getGeneralStakeUIData, {}) /\ Destined(StakeUi_getGeneralStakeUIData)
    BY FitSingle, Destinations DEF SaysFrom, StakedTokenData_getAllStakedTokenData, Reads,
       StakeUi_getGeneralStakeUIData, Unchecked
  <2> QED BY <2>1, <2>2, <2>3, PlainClean
<1>22. Clean(StakeUi_getUserStakeUIData, {})
  <2>1. Checked(StakeUi_getUserStakeUIData, {}) /\ StakeUi_getUserStakeUIData.routes = <<>>
    BY AptChecks DEF Checked, StakedTokenData_getAllStakedTokenUserData,
       StakeUiDataProviderValidator, User, Reads, StakeUi_getUserStakeUIData
  <2>2. SaysArgs(StakeUi_getUserStakeUIData, {})
    BY FitArgs DEF SaysArgs, StakedTokenData_getAllStakedTokenUserData, User, Reads,
       StakeUi_getUserStakeUIData
  <2>3. SaysFrom(StakeUi_getUserStakeUIData, {}) /\ Destined(StakeUi_getUserStakeUIData)
    BY FitSingle, Destinations DEF SaysFrom, StakedTokenData_getAllStakedTokenUserData, User,
       Reads, StakeUi_getUserStakeUIData, StakeUiDataProviderValidator
  <2> QED BY <2>1, <2>2, <2>3, PlainClean
<1> HIDE DEF Own, Method, Unlike, Amounts, AmountNames, Runs, Sends, Pays, Asks
<1> QED
  BY <1>1, <1>2, <1>3, <1>4, <1>5, <1>6, <1>7, <1>8, <1>9, <1>10, <1>11, <1>12, <1>13, <1>14,
     <1>15, <1>16, <1>17, <1>18, <1>19, <1>20, <1>21, <1>22, ReadTable DEF ReadMethods

\* All 118 methods.
LEMMA CleanTable == \A name \in DOMAIN Methods : \E X : Clean(Methods[name], X)
BY AllMethods, L2PoolClean, AdapterClean, PoolClean, LendingPoolClean, BundleClean, TokenClean,
   RewardClean, GovernanceClean, ReadClean

-----------------------------------------------------------------------------
(* A request on its way. *)

\* A parameter as clients give it: absent, ordinary, or of one of these
\* forms.
Forms == {"Variable", "Stable", "BNB", "malformed", "name", "unknown name", "too long", "0", "-1"}

OfRequest(p, v) == v = Absent \/ v = <<p>> \/ \E f \in Forms : v = <<p, f>>

\* The form f of the parameter p is one clients try: names where they are
\* looked up, amounts that are nothing or all of a balance, a deadline that
\* is too long. A deadline that is malformed is one that is too long.
Likely(name, p, f) ==
    /\ f \in {"name", "unknown name"} => <<"isBnbAddressOrENS", p>> \in Methods[name].checks
    /\ f \in {"0", "-1"} => p \in AmountNames
    /\ f = "too long" => p = "deadline"
    /\ f = "malformed" => p # "deadline"

Sensible(name, given) ==
    /\ DOMAIN given = Params(name)
    /\ \A p \in Params(name) : OfRequest(p, given[p]) /\ Likely(name, p, FormOf(given[p]))

\* What the method that takes over is given.
Handed(r, given) ==
    [method |-> r.to,
     given |-> [p \in Params(r.to) |->
                   IF p \in DOMAIN r.with THEN Value(r.with[p], given) ELSE Absent]]

OnItsWay ==
    \/ call = request
    \/ \E i \in DOMAIN Methods[request.method].routes :
        LET r == Methods[request.method].routes[i]
        IN /\ r.to \in DOMAIN Methods
           /\ \A c \in r.when : Takes(c, request.given)
           /\ call = Handed(r, request.given)
           /\ Accepted(Methods[request.method], request.given)

\* The inductive invariant.
IInv ==
    /\ TypeOK
    /\ outcome # "idle" => Sensible(request.method, request.given) /\ OnItsWay
    /\ ServedOrExplained
    /\ InvalidNeverSent

\* A method that is handed over to looks up no names.
LEMMA NoMoreNames ==
    ASSUME NEW name \in DOMAIN Methods, NEW n \in Involved(name), NEW c \in Methods[n].checks,
           c[1] = "isBnbAddressOrENS"
    PROVE  c \in Methods[name].checks
<1>1. CASE n = name
  BY <1>1
<1>2. CASE n # name
  <2>1. PICK route \in Routes(name) : n = route.to /\ n \in DOMAIN Methods
    BY <1>2 DEF Involved
  <2>2. Sound(name, Methods[name], route)
    BY <2>1, Table DEF Row, Routed, Routes, Range_
  <2> QED
    BY <2>1, <2>2, NotMethods DEF Sound, Hands
<1> QED
  BY <1>1, <1>2

\* What is odd about a parameter that is checked is likely.
LEMMA LikelyForms ==
    ASSUME NEW name \in DOMAIN Methods, NEW d, d = <<d[1], d[2]>>, d[1] \in Kinds,
           d[2] \in AmountNames <=> d[1] \in Amounts,
           d[2] = "deadline" <=> d[1] = "isDeadline32Bytes",
           d[1] = "isBnbAddressOrENS" => d \in Methods[name].checks,
           NEW f \in OddForms(d[1])
    PROVE  f \in Forms /\ Likely(name, d[2], f)
<1>1. CASE d[1] \in {"isBnbAddress", "isBnbAddressArray"}
  <2>1. f = "malformed"
    BY <1>1 DEF OddForms
  <2> QED
    BY <1>1, <2>1 DEF Forms, Likely
<1>2. CASE d[1] = "isBnbAddressOrENS"
  <2>1. f \in {"malformed", "name", "unknown name"}
    BY <1>2 DEF OddForms
  <2> QED
    BY <1>2, <2>1 DEF Forms, Likely
<1>3. CASE d[1] = "isDeadline32Bytes"
  <2>1. f = "too long"
    BY <1>3 DEF OddForms
  <2> QED
    BY <1>3, <2>1 DEF Forms, Likely
<1>4. CASE d[1] \in Amounts
  <2>1. f \in {"malformed", "0", "-1"} /\ d[1] # "isDeadline32Bytes"
    BY <1>4 DEF OddForms, Amounts
  <2> QED
    BY <1>4, <2>1 DEF Forms, Likely
<1>5. Kinds = {"isBnbAddress", "isBnbAddressArray", "isBnbAddressOrENS", "isDeadline32Bytes"}
                 \cup Amounts
  BY DEF Kinds, Amounts
<1> QED
  BY <1>1, <1>2, <1>3, <1>4, <1>5

\* What the rows say of one check.
LEMMA Known ==
    ASSUME NEW name \in DOMAIN Methods, NEW c \in Methods[name].checks
    PROVE  /\ c = <<c[1], c[2]>> /\ c[1] \in Kinds
           /\ c[1] \in Methods[name].validator.runs /\ c[2] \in Own(Methods[name])
           /\ c[2] \in AmountNames <=> c[1] \in Amounts
           /\ c[2] = "deadline" <=> c[1] = "isDeadline32Bytes"
<1>1. \E X : Checked(Methods[name], X)
  BY CleanTable DEF Clean
<1>2. WellMade(Methods[name])
  BY Table DEF Row
<1> QED
  BY <1>1, <1>2 DEF Checked, Apt, WellMade

\* What can be odd about a parameter.
LEMMA OddOnes ==
    ASSUME NEW name \in DOMAIN Methods, NEW odd \in Odds(name)
    PROVE  odd = <<odd[1], odd[2]>> /\ odd[2] \in Forms /\ Likely(name, odd[1], odd[2])
<1>1. CASE odd \in Modes \X {"Stable"}
  <2>1. odd = <<odd[1], odd[2]>> /\ odd[2] = "Stable"
    BY <1>1
  <2> QED
    BY <2>1 DEF Forms, Likely
<1>2. ASSUME NEW n \in Involved(name), NEW d \in Methods[n].checks,
             odd \in {d[2]} \X OddForms(d[1])
      PROVE  odd = <<odd[1], odd[2]>> /\ odd[2] \in Forms /\ Likely(name, odd[1], odd[2])
  <2>1. n \in DOMAIN Methods
    BY DEF Involved
  <2>2. odd = <<odd[1], odd[2]>> /\ odd[1] = d[2] /\ odd[2] \in OddForms(d[1])
    BY <1>2
  <2>3. d[1] = "isBnbAddressOrENS" => d \in Methods[name].checks
    BY NoMoreNames
  <2>4. odd[2] \in Forms /\ Likely(name, d[2], odd[2])
    BY <2>1, <2>2, <2>3, Known, LikelyForms
  <2> QED
    BY <2>2, <2>4
<1>3. odd \in Modes \X {"Stable"} \/ \E n \in Involved(name) : \E d \in Methods[n].checks :
                                      odd \in {d[2]} \X OddForms(d[1])
  <2> DEFINE A == UNION {{d[2]} \X OddForms(d[1]) :
                           d \in UNION {Methods[n].checks : n \in Involved(name)}}
  <2>1. odd \in A \cup (Modes \X {"Stable"})
    BY DEF Odds
  <2> QED
    BY <2>1
<1> QED
  BY <1>1, <1>2, <1>3

\* The form of a parameter.
LEMMA FormOfPair == \A p, f : FormOf(<<p, f>>) = f /\ FormOf(<<p>>) = "plain"
BY DEF FormOf

\* Every request begins like that.
LEMMA SensibleRequest ==
    ASSUME NEW name \in DOMAIN Methods, NEW absent, NEW odds, odds \subseteq Odds(name), NEW native
    PROVE  Sensible(name, Parameters(name, absent, odds, native))
<1> DEFINE given == Parameters(name, absent, odds, native)
<1>1. DOMAIN given = Params(name)
  BY DEF Parameters
<1>2. ASSUME NEW p \in Params(name)
      PROVE  OfRequest(p, given[p]) /\ Likely(name, p, FormOf(given[p]))
  <2>1. given[p] = IF p \in absent THEN Absent
                   ELSE IF \E odd \in odds : odd[1] = p THEN CHOOSE odd \in odds : odd[1] = p
                   ELSE IF native /\ p \in NativeParams(name) THEN <<p, "BNB">> ELSE Ordinary(p)
    BY DEF Parameters
  <2> HIDE DEF given
  <2>2. CASE given[p] \in odds /\ given[p][1] = p
    <3>1. /\ given[p] = <<p, given[p][2]>> /\ given[p][2] \in Forms
          /\ Likely(name, p, given[p][2])
      BY <2>2, OddOnes
    <3>2. FormOf(given[p]) = given[p][2]
      BY <3>1, FormOfPair
    <3> QED
      BY <3>1, <3>2 DEF OfRequest
  <2>3. CASE given[p] \in {Absent, <<p>>, <<p, "BNB">>, <<p, "Variable">>}
    <3>1. FormOf(given[p]) \in {"plain", "BNB", "Variable"}
      BY <2>3, FormOfPair DEF Absent
    <3>2. Likely(name, p, FormOf(given[p]))
      BY <3>1 DEF Likely
    <3> QED
      BY <2>3, <3>2 DEF OfRequest, Forms
  <2>4. \/ given[p] \in odds /\ given[p][1] = p
        \/ given[p] \in {Absent, <<p>>, <<p, "BNB">>, <<p, "Variable">>}
    BY <2>1 DEF Ordinary
  <2> QED
    BY <2>2, <2>3, <2>4
<1> QED
  BY <1>1, <1>2 DEF Sensible

-----------------------------------------------------------------------------
\* In a request, only what is absent counts as off.
LEMMA OnOrAbsent ==
    ASSUME NEW p, NEW v, OfRequest(p, v), ~On(v) PROVE v = Absent
<1>1. v # Constant("false")
  <2>1. ASSUME NEW f \in Forms PROVE <<p, f>> # Constant("false")
    BY <2>1 DEF Forms, Constant
  <2> QED
    BY <2>1 DEF OfRequest, Absent, Constant
<1> QED
  BY <1>1 DEF On

\* The form of an amount in least units.
LEMMA FormOfUnits ==
    ASSUME NEW q, NEW v, OfRequest(q, v), NEW u
    PROVE  /\ FormOf(v \o <<"units", u>>) \in {FormOf(v), "units"}
           /\ FormOf(v \o <<"units", u>> \o <<"surplus">>) \in {FormOf(v), "units"}
<1>1. ASSUME NEW x, v = <<x>>
      PROVE  /\ FormOf(v \o <<"units", u>>) = "units"
             /\ FormOf(v \o <<"units", u>> \o <<"surplus">>) = "units"
  BY <1>1 DEF FormOf
<1>2. ASSUME NEW f, v = <<q, f>>
      PROVE  /\ FormOf(v \o <<"units", u>>) = f
             /\ FormOf(v \o <<"units", u>> \o <<"surplus">>) = f /\ FormOf(v) = f
  BY <1>2 DEF FormOf
<1> QED
  BY <1>1, <1>2 DEF OfRequest, Absent

\* A value that is passed on has the form it had, or is an amount in least
\* units.
LEMMA FormKept ==
    ASSUME NEW given, NEW t, NEW q, Keeps(t, q), OfRequest(q, given[q])
    PROVE  FormOf(Value(t, given)) \in {FormOf(given[q]), "units"}
<1>1. ASSUME NEW tok PROVE FormOf(Converted(given[q], tok, given)) \in {FormOf(given[q]), "units"}
  BY FormOfUnits DEF Converted
<1>2. ASSUME NEW tok
      PROVE  FormOf(Converted(given[q], tok, given) \o <<"surplus">>)
               \in {FormOf(given[q]), "units"}
  BY FormOfUnits DEF Converted
<1>3. CASE t[1] = "given" /\ t[2] = q
  BY <1>3 DEF Value, Chosen, Simple
<1>4. CASE t[1] = "units" /\ t[2] = q
  <2>1. Value(t, given) = Converted(given[q], t[3], given)
    BY <1>4 DEF Value, Chosen, Simple
  <2> QED
    BY <2>1, <1>1
<1>5. CASE t = RepayAmount /\ q = "repayAmount"
  <2>1. Value(t, given) \in {Converted(given[q], "assetToRepay", given),
          Converted(given[q], "assetToRepay", given) \o <<"surplus">>}
    BY <1>5 DEF Value, Chosen, Simple, RepayAmount, Either, Surplus, Units
  <2> QED
    BY <2>1, <1>1, <1>2
<1> QED
  BY <1>3, <1>4, <1>5 DEF Keeps

\* The forms on which checks throw.
LEMMA ThrowsOn ==
    ASSUME NEW k \in Kinds, NEW v, Throws(k, v)
    PROVE  /\ FormOf(v) \in {"malformed", "name", "0", "-1", "too long"}
           /\ FormOf(v) = "name" => k = "isBnbAddress"
           /\ FormOf(v) = "0" => k \in {"isPositiveAmount", "isPositiveOrMinusOneAmount"}
           /\ FormOf(v) = "-1" => k \in {"isPositiveAmount", "is0OrPositiveAmount"}
BY DEF Throws, Kinds, isBnbAddressValidator, isBnbAddressArrayValidator, isBnbAddressOrEnsValidator,
       amountGtThan0Validator, amount0OrPositiveValidator, amountGtThan0OrMinus1,
       isDeadline32BytesValidator

-----------------------------------------------------------------------------
\* The least of a few numbers is one of them.
LEMMA Least ==
    ASSUME NEW S, S \subseteq 1..4, S # {}
    PROVE  Min(S) \in S
<1>1. \A x \in S : x \in {1, 2, 3, 4}
  OBVIOUS
<1>2. \E x \in S : \A y \in S : x <= y
  <2>1. CASE 1 \in S
    BY <1>1, <2>1
  <2>2. CASE 1 \notin S /\ 2 \in S
    BY <1>1, <2>2
  <2>3. CASE 1 \notin S /\ 2 \notin S /\ 3 \in S
    BY <1>1, <2>3
  <2>4. CASE 1 \notin S /\ 2 \notin S /\ 3 \notin S
    <3>1. PICK x \in S : TRUE
      OBVIOUS
    <3>2. \A y \in S : y = 4
      BY <1>1, <2>4
    <3> QED
      BY <3>1, <3>2
  <2> QED
    BY <2>1, <2>2, <2>3, <2>4
<1> QED
  BY <1>2 DEF Min

\* The route that is taken is one of the routes, and its conditions hold.
LEMMA RouteTaken ==
    ASSUME IInv, Running, Taken # {}
    PROVE  \E i \in DOMAIN Now.routes :
              Route = Now.routes[i] /\ \A c \in Route.when : Takes(c, call.given)
<1>1. Taken \subseteq 1..4
  <2>1. call.method \in DOMAIN Methods
    BY DEF IInv, TypeOK, Running
  <2> QED
    BY <2>1, Table DEF Row, Routed, WellMade, Taken, Now
<1>2. Min(Taken) \in Taken
  BY <1>1, Least
<1> QED
  BY <1>2 DEF Taken, Route

\* A method other than the one asked for was handed over to by a route of that
\* one.
LEMMA HandedOver ==
    ASSUME IInv, Running, call # request
    PROVE  \E i \in DOMAIN Methods[request.method].routes :
              LET r == Methods[request.method].routes[i]
              IN /\ r.to \in DOMAIN Methods /\ call = Handed(r, request.given)
                 /\ \A c \in r.when : Takes(c, request.given)
                 /\ Hands(request.method, Methods[request.method], r, Methods[r.to])
<1>1. request.method \in DOMAIN Methods /\ OnItsWay
  BY DEF IInv, TypeOK, Running
<1>2. PICK i \in DOMAIN Methods[request.method].routes :
              LET r == Methods[request.method].routes[i]
              IN /\ r.to \in DOMAIN Methods /\ call = Handed(r, request.given)
                 /\ \A c \in r.when : Takes(c, request.given)
  BY <1>1 DEF OnItsWay
<1>3. Sound(request.method, Methods[request.method], Methods[request.method].routes[i])
  BY <1>1, Table DEF Row, Routed
<1> QED
  BY <1>2, <1>3, NotMethods DEF Sound

\* The method that is running is involved in the request.
LEMMA CallInvolved ==
    ASSUME IInv, Running PROVE call.method \in Involved(request.method)
<1>1. CASE call = request
  BY <1>1 DEF Involved
<1>2. CASE call # request
  BY <1>2, HandedOver DEF Handed, Involved, Routes, Range_
<1> QED
  BY <1>1, <1>2

\* A route for the native asset is only taken if the asset is the native one.
LEMMA NativeTaken ==
    ASSUME NEW name \in DOMAIN Methods, NEW given, DOMAIN given = Params(name), NEW r,
           \A c \in r.when : Takes(c, given), ForNative(Methods[name], r)
    PROVE  \E p \in DOMAIN given : IsNative(given[p])
<1>1. Takes(Native("reserve"), given) /\ "reserve" \in DOMAIN given
  BY DEF ForNative, Params, Own
<1> QED
  BY <1>1 DEF Takes, Native

\* A route for a missing parameter is only taken if it is missing.
LEMMA WithoutTaken ==
    ASSUME NEW name \in DOMAIN Methods, NEW given, Sensible(name, given), NEW r, NEW p,
           \A c \in r.when : Takes(c, given), Without(p) \in r.when, p \in Own(Methods[name])
    PROVE  p \in DOMAIN given /\ given[p] = Absent
<1>1. Takes(Without(p), given) /\ p \in DOMAIN given /\ OfRequest(p, given[p])
  BY DEF Sensible, Params, Own
<1>2. ~On(given[p])
  BY <1>1 DEF Takes, Without
<1> QED
  BY <1>1, <1>2, OnOrAbsent

-----------------------------------------------------------------------------
\* The forms that are never sent of a parameter that is checked.
Barred == {"malformed", "too long", "name", "unknown name", "-1"}

\* A check that does not throw lets none of them through, but for names that
\* are looked up and all of a balance where it is allowed.
LEMMA Filtered ==
    ASSUME NEW name, NEW p, NEW v, Likely(name, p, FormOf(v)), NEW k \in Kinds, ~Throws(k, v),
           p \in AmountNames <=> k \in Amounts, p = "deadline" <=> k = "isDeadline32Bytes"
    PROVE  /\ FormOf(v) \in Barred =>
                 \/ FormOf(v) \in {"name", "unknown name"}
                    /\ <<"isBnbAddressOrENS", p>> \in Methods[name].checks
                 \/ FormOf(v) = "-1" /\ k = "isPositiveOrMinusOneAmount"
           /\ FormOf(v) = "0" => k = "is0OrPositiveAmount"
<1>1. CASE k \in {"isBnbAddress", "isBnbAddressArray", "isBnbAddressOrENS"}
  <2>1. FormOf(v) # "malformed"
    BY <1>1 DEF Throws, isBnbAddressValidator, isBnbAddressArrayValidator,
      isBnbAddressOrEnsValidator
  <2>2. p \notin AmountNames /\ p # "deadline"
    BY <1>1 DEF Amounts
  <2> QED
    BY <2>1, <2>2 DEF Likely, Barred
<1>2. CASE k = "isDeadline32Bytes"
  <2>1. FormOf(v) \notin {"malformed", "too long", "0", "-1"}
    BY <1>2 DEF Throws, isDeadline32BytesValidator, Likely, Amounts
  <2> QED
    BY <2>1 DEF Likely, Barred
<1>3. CASE k \in Amounts
  <2>1. FormOf(v) # "malformed" /\ p # "deadline"
    BY <1>3 DEF Amounts, Throws, amountGtThan0Validator, amount0OrPositiveValidator,
         amountGtThan0OrMinus1
  <2>2. FormOf(v) # "too long"
    BY <2>1 DEF Likely
  <2>3. FormOf(v) = "0" => k = "is0OrPositiveAmount"
    BY <1>3 DEF Amounts, Throws, amountGtThan0Validator, amountGtThan0OrMinus1
  <2>4. FormOf(v) = "-1" => k = "isPositiveOrMinusOneAmount"
    BY <1>3 DEF Amounts, Throws, amountGtThan0Validator, amount0OrPositiveValidator
  <2> QED
    BY <2>1, <2>2, <2>3, <2>4 DEF Likely, Barred
<1>4. k \in {"isBnbAddress", "isBnbAddressArray", "isBnbAddressOrENS"} \/ k = "isDeadline32Bytes"
      \/ k \in Amounts
  BY DEF Kinds, Amounts
<1> QED
  BY <1>1, <1>2, <1>3, <1>4

\* What a method makes of a parameter is none of them.
LEMMA NotBarred == Made \cap Barred = {} /\ "0" \notin Made
BY DEF Made, Barred

\* No parameter is called like a constant or like what is absent.
LEMMA Reserved ==
    ASSUME NEW name \in DOMAIN Methods
    PROVE  "constant" \notin Own(Methods[name]) /\ "absent" \notin Own(Methods[name])
BY CleanTable DEF Clean, Checked

\* Short tuples are values.
LEMMA Tuples == \A x, y : /\ IsValue(<<x>>) /\ <<x>>[1] = x
                          /\ IsValue(<<x, y>>) /\ <<x, y>>[1] = x
<1>1. \A x : <<x>> \in Seq({x}) /\ <<x>> # <<>> /\ <<x>>[1] = x
  OBVIOUS
<1>2. \A x, y : <<x, y>> \in Seq({x, y}) /\ <<x, y>> # <<>> /\ <<x, y>>[1] = x
  OBVIOUS
<1> QED
  BY <1>1, <1>2 DEF IsValue

\* A parameter of the request is a value that carries its name, or is absent.
LEMMA AsGiven ==
    ASSUME NEW name \in DOMAIN Methods, NEW given, Sensible(name, given),
           NEW q \in Own(Methods[name])
    PROVE  /\ IsValue(given[q]) /\ given[q][1] \in {q, "absent"} /\ given[q][1] # "constant"
           /\ given[q][1] = q => given[q] # Absent
           /\ Likely(name, q, FormOf(given[q]))
<1>1. OfRequest(q, given[q]) /\ Likely(name, q, FormOf(given[q]))
  BY DEF Sensible, Params, Own
<1>2. q # "constant" /\ q # "absent"
  BY Reserved
<1>5. IsValue(given[q]) /\ given[q][1] \in {q, "absent"}
  BY <1>1, Tuples DEF OfRequest, Absent
<1>6. given[q][1] # "constant"
  <2>1. "absent" # "constant"
    OBVIOUS
  <2> QED
    BY <1>2, <1>5, <2>1
<1>7. given[q][1] = q => given[q] # Absent
  <2>1. Absent[1] = "absent"
    BY DEF Absent
  <2> QED
    BY <1>2, <2>1
<1> QED
  BY <1>1, <1>5, <1>6, <1>7

\* What the invariant says while a request is running.
LEMMA Registered ==
    ASSUME IInv, Running
    PROVE  /\ request.method \in DOMAIN Methods /\ call.method \in DOMAIN Methods
           /\ Sensible(request.method, request.given)
           /\ DOMAIN request.given = Own(Methods[request.method])
           /\ DOMAIN call.given = Own(Now) /\ Now = Methods[call.method]
BY DEF IInv, TypeOK, Running, Params, Own, Now

\* Nothing an accepted request gives is thrown on.
LEMMA Passed ==
    ASSUME NEW m, NEW given, Accepted(m, given), NEW k \in m.validator.runs, NEW p \in DOMAIN given,
           <<k, p>> \in m.checks, given[p] # Absent
    PROVE  ~Throws(k, given[p])
BY DEF Accepted

\* What the method that was asked for says of a parameter was checked.
LEMMA Direct ==
    ASSUME IInv, Valid, ~Unknown, call = request, NEW X, Clean(Now, X),
           NEW v, Yields(Own(Now), X, v, call.given), v[1] # "constant",
           NEW k \in Recorded(v[1])
    PROVE  /\ FormOf(v) \notin Barred
           /\ FormOf(v) = "0" => "is0OrPositiveAmount" \in Recorded(v[1])
<1> DEFINE name == request.method
           m == Methods[name]
           g == request.given
           p == v[1]
<1>1. /\ name \in DOMAIN Methods /\ Sensible(name, g) /\ DOMAIN g = Own(m) /\ Now = m
      /\ Accepted(m, g)
  BY Registered DEF Valid, IsSetUp
<1>2. <<k, p>> \in m.checks
  <2>1. PICK c \in m.checks : c[1] = k /\ c[2] = p
    BY DEF Recorded
  <2> QED
    BY <2>1, <1>1, Known
<1>3. /\ k \in Kinds /\ k \in m.validator.runs /\ p \in Own(m)
      /\ p \in AmountNames <=> k \in Amounts
      /\ p = "deadline" <=> k = "isDeadline32Bytes"
  <2>1. <<k, p>>[1] = k /\ <<k, p>>[2] = p
    OBVIOUS
  <2> QED
    BY <1>1, <1>2, <2>1, Known
<1>4. PICK q \in Own(m) :
        /\ p = g[q][1]
        /\ \/ FormOf(v) \in Made
           \/ /\ FormOf(v) = FormOf(g[q])
              /\ (q \in X /\ FormOf(v) = "-1") => q = "delegatee"
              /\ (q \in X /\ FormOf(v) = "name") => q # "delegatee"
  BY <1>1 DEF Yields
<1>5. q = p /\ g[p] # Absent /\ Likely(name, p, FormOf(g[p]))
  BY <1>1, <1>3, <1>4, AsGiven, Reserved
<1>6. CASE FormOf(v) \in Made
  BY <1>6, NotBarred
<1>7. CASE FormOf(v) = FormOf(g[p]) /\ FormOf(v) \notin Made
  <2>1. ~Throws(k, g[p])
    BY <1>1, <1>2, <1>3, <1>5, Passed
  <2>2. /\ FormOf(v) \in Barred =>
                 \/ /\ FormOf(v) \in {"name", "unknown name"}
                    /\ <<"isBnbAddressOrENS", p>> \in m.checks
                 \/ FormOf(v) = "-1" /\ k = "isPositiveOrMinusOneAmount"
        /\ FormOf(v) = "0" => k = "is0OrPositiveAmount"
    BY <1>3, <1>5, <1>7, <2>1, Filtered
  <2>3. Within(m.checks, X) /\ X \subseteq {"amount", "delegatee"}
    BY <1>1 DEF Clean, Checked, Apt
  <2>4. ~(FormOf(v) = "-1" /\ k = "isPositiveOrMinusOneAmount")
    <3>1. SUFFICES ASSUME FormOf(v) = "-1", k = "isPositiveOrMinusOneAmount" PROVE FALSE
      OBVIOUS
    <3>2. p \in X
      <4>1. <<k, p>>[1] = k /\ <<k, p>>[2] = p
        OBVIOUS
      <4> QED
        BY <1>2, <2>3, <3>1, <4>1 DEF Within
    <3>3. p = "delegatee"
      BY <1>4, <1>5, <1>7, <3>1, <3>2
    <3>4. p \in AmountNames
      BY <1>3, <3>1 DEF Amounts
    <3> QED
      BY <3>3, <3>4 DEF AmountNames
  <2>5. ~(FormOf(v) = "unknown name" /\ <<"isBnbAddressOrENS", p>> \in m.checks)
    BY <1>1, <1>3, <1>7 DEF Unknown
  <2>6. ~(FormOf(v) = "name" /\ <<"isBnbAddressOrENS", p>> \in m.checks)
    <3>1. SUFFICES ASSUME FormOf(v) = "name", <<"isBnbAddressOrENS", p>> \in m.checks PROVE FALSE
      OBVIOUS
    <3>2. <<"isBnbAddressOrENS", p>>[1] = "isBnbAddressOrENS" /\ <<"isBnbAddressOrENS", p>>[2] = p
      OBVIOUS
    <3>3. p \in X
      BY <2>3, <3>1, <3>2 DEF Within
    <3>4. p = "amount"
      BY <1>4, <1>5, <1>7, <3>1, <3>3, <2>3
    <3>5. "isBnbAddressOrENS" \in Amounts
      BY <1>1, <3>1, <3>2, <3>4, Known DEF AmountNames
    <3> QED
      BY <3>5 DEF Amounts
  <2> QED
    BY <2>2, <2>4, <2>5, <2>6
<1> QED
  BY <1>4, <1>5, <1>6, <1>7

\* What the method that was handed over to is given, and that the request was
\* accepted before.
LEMMA Relay ==
    ASSUME IInv, Running, call # request
    PROVE  \E r, X0 :
             LET m == Methods[request.method]
                 T == Methods[r.to]
             IN /\ r.to \in DOMAIN Methods /\ call.method = r.to /\ Now = T
                /\ \A p \in Own(T) : call.given[p] = IF p \in DOMAIN r.with
                                                     THEN Value(r.with[p], request.given)
                                                     ELSE Absent
                /\ Accepted(m, request.given) /\ Clean(m, X0) /\ Passes(m, X0, r.with, T)
                /\ \A p : <<"isBnbAddressOrENS", p>> \notin m.checks
<1> DEFINE m == Methods[request.method]
<1>1. request.method \in DOMAIN Methods /\ OnItsWay
  BY DEF IInv, TypeOK, Running
<1>2. PICK i \in DOMAIN m.routes :
         /\ m.routes[i].to \in DOMAIN Methods /\ call = Handed(m.routes[i], request.given)
         /\ Accepted(m, request.given)
  BY <1>1 DEF OnItsWay
<1>3. PICK X0 : Clean(m, X0)
  BY <1>1, CleanTable
<1> DEFINE r == m.routes[i]
<1>4. Passes(m, X0, r.with, Methods[r.to])
  BY <1>2, <1>3 DEF Clean, PassesOn, Onward
<1>5. \A p : <<"isBnbAddressOrENS", p>> \notin m.checks
  <2>1. m.routes # <<>>
    BY <1>2
  <2>2. \A p : <<"isBnbAddressOrENS", p>>[1] = "isBnbAddressOrENS"
    OBVIOUS
  <2> QED
    BY <1>1, <2>1, <2>2, Table DEF Row, WellMade
<1>6. /\ call.method = r.to
      /\ \A p \in Own(Methods[r.to]) : call.given[p] = IF p \in DOMAIN r.with
                                                     THEN Value(r.with[p], request.given)
                                                     ELSE Absent
  BY <1>2 DEF Handed, Params, Own
<1> QED
  BY <1>2, <1>3, <1>4, <1>5, <1>6 DEF Now

\* The method that is running is given values.
LEMMA CallValues ==
    ASSUME IInv, Running
    PROVE  AllValues(Own(Now), call.given)
<1>1. CASE call = request
  BY <1>1, Registered, AsGiven DEF AllValues
<1>2. CASE call # request
  <2>1. PICK r, X0 :
             LET m == Methods[request.method]
                 T == Methods[r.to]
             IN /\ r.to \in DOMAIN Methods /\ Now = T
                /\ \A p \in Own(T) : call.given[p] = IF p \in DOMAIN r.with
                                                     THEN Value(r.with[p], request.given)
                                                     ELSE Absent
                /\ Passes(m, X0, r.with, T)
    BY <1>2, Relay
  <2> DEFINE m == Methods[request.method]
             g == request.given
  <2>2. AllValues(Own(m), g)
    BY Registered, AsGiven DEF AllValues
  <2>3. ASSUME NEW q \in Own(Now) PROVE IsValue(call.given[q])
    <3>1. CASE q \notin DOMAIN r.with
      BY <3>1, <2>1, Tuples DEF Absent
    <3>2. CASE q \in DOMAIN r.with
      <4>1. call.given[q] = Value(r.with[q], g)
        BY <2>1, <3>2
      <4>2. CASE FitsAlone(Own(m), X0, r.with[q])
        BY <2>2, <4>1, <4>2 DEF FitsAlone, Yields
      <4>3. CASE r.with[q] = Given("amount") /\ "amount" \in Own(m)
        BY <2>2, <4>1, <4>3 DEF Value, Chosen, Simple, Given, AllValues
      <4> QED
        BY <2>1, <3>2, <4>2, <4>3 DEF Passes, PassedBy
    <3> QED
      BY <3>1, <3>2
  <2> QED
    BY <2>3 DEF AllValues
<1> QED
  BY <1>1, <1>2

\* A parameter that is passed on as it is, and a constant.
LEMMA GivenValue ==
    /\ \A p, given : Value(Given(p), given) = given[p]
    /\ \A c, given : Value(Fixed(c), given) = Constant(c)
BY DEF Value, Chosen, Simple, Given, Fixed

\* What the method that was handed over to says of a parameter was checked,
\* by one of the two.
LEMMA Relayed ==
    ASSUME IInv, Valid, call # request, NEW X, Clean(Now, X),
           NEW v, Yields(Own(Now), X, v, call.given), v[1] # "constant",
           Recorded(v[1]) # {}
    PROVE  /\ FormOf(v) \notin Barred
           /\ FormOf(v) = "0" => "is0OrPositiveAmount" \in Recorded(v[1])
<1> DEFINE name == request.method
           m == Methods[name]
           g == request.given
           p == v[1]
<1>1. /\ name \in DOMAIN Methods /\ Sensible(name, g) /\ DOMAIN g = Own(m)
      /\ DOMAIN call.given = Own(Now) /\ Running /\ Accepted(Now, call.given)
  BY Registered DEF Valid, IsSetUp
<1>2. PICK r, X0 :
             LET T == Methods[r.to]
             IN /\ r.to \in DOMAIN Methods /\ call.method = r.to /\ Now = T
                /\ \A x \in Own(T) : call.given[x] = IF x \in DOMAIN r.with
                                                     THEN Value(r.with[x], g) ELSE Absent
                /\ Accepted(m, g) /\ Clean(m, X0) /\ Passes(m, X0, r.with, T)
                /\ \A x : <<"isBnbAddressOrENS", x>> \notin m.checks
  BY <1>1, Relay
<1> DEFINE T == Methods[r.to]
           w == r.with
           u(x) == Value(w[x], g)
<1>3. Within(m.checks, X0) /\ X0 \subseteq {"amount", "delegatee"}
      /\ Within(T.checks, X) /\ AllValues(Own(m), g)
  BY <1>1, <1>2, AsGiven DEF Clean, Checked, Apt, AllValues
<1>4. PICK c \in m.checks \cup T.checks : c[2] = p
  BY <1>2 DEF Recorded
<1>5. p # "absent"
  <2>1. \/ c \in m.checks /\ p \in Own(m)
        \/ c \in T.checks /\ p \in Own(T)
    BY <1>1, <1>2, <1>4, Known
  <2> QED
    BY <1>1, <1>2, <2>1, Reserved
<1>6. PICK q \in Own(T) :
        /\ p = call.given[q][1]
        /\ \/ FormOf(v) \in Made
           \/ /\ FormOf(v) = FormOf(call.given[q])
              /\ (q \in X /\ FormOf(v) = "-1") => q = "delegatee"
  BY <1>2 DEF Yields
<1>7. q \in DOMAIN w /\ call.given[q] = u(q)
  <2>1. Absent[1] = "absent"
    BY DEF Absent
  <2> QED
    BY <1>2, <1>5, <1>6, <2>1
<1> HIDE DEF u
<1>8. /\ p \in Own(m) /\ g[p] # Absent /\ Likely(name, p, FormOf(g[p]))
      /\ \/ FormOf(v) \in Made
         \/ /\ FormOf(v) = FormOf(g[p])
            /\ FormOf(v) = "-1" => <<"isPositiveOrMinusOneAmount", p>> \notin m.checks
  <2>1. CASE FitsAlone(Own(m), X0, w[q])
    <3>1. Yields(Own(m), X0, u(q), g)
      BY <1>3, <2>1 DEF FitsAlone, u
    <3>2. PICK x \in Own(m) :
            /\ p = g[x][1]
            /\ \/ FormOf(u(q)) \in Made
               \/ /\ FormOf(u(q)) = FormOf(g[x])
                  /\ (x \in X0 /\ FormOf(u(q)) = "-1") => x = "delegatee"
      BY <1>6, <1>7, <3>1 DEF Yields
    <3>3. x = p /\ g[p] # Absent /\ Likely(name, p, FormOf(g[p]))
      BY <1>1, <1>5, <3>2, AsGiven
    <3>4. <<"isPositiveOrMinusOneAmount", p>> \in m.checks => p \in X0 /\ p # "delegatee"
      <4>1. SUFFICES ASSUME <<"isPositiveOrMinusOneAmount", p>> \in m.checks
                     PROVE  p \in X0 /\ p # "delegatee"
        OBVIOUS
      <4>2. /\ <<"isPositiveOrMinusOneAmount", p>>[1] = "isPositiveOrMinusOneAmount"
            /\ <<"isPositiveOrMinusOneAmount", p>>[2] = p
        OBVIOUS
      <4>3. p \in X0
        BY <1>3, <4>1, <4>2 DEF Within
      <4>4. p \in AmountNames
        <5>1. "isPositiveOrMinusOneAmount" \in Amounts
          BY DEF Amounts
        <5> QED
          BY <1>1, <4>1, <4>2, <5>1, Known
      <4> QED
        BY <4>3, <4>4 DEF AmountNames
    <3> QED
      BY <1>6, <1>7, <3>2, <3>3, <3>4
  <2>2. CASE /\ q = "amount" /\ w[q] = Given("amount") /\ "amount" \in Own(m)
             /\ \E k \in {"isPositiveAmount", "isPositiveOrMinusOneAmount"} :
                   <<k, "amount">> \in T.checks
    <3>1. u(q) = g["amount"]
      BY <2>2 DEF u, Value, Chosen, Simple, Given
    <3>2. p = "amount" /\ g[p] # Absent /\ Likely(name, p, FormOf(g[p]))
      BY <1>1, <1>5, <1>6, <1>7, <2>2, <3>1, AsGiven
    <3>3. PICK k \in {"isPositiveAmount", "isPositiveOrMinusOneAmount"} :
            <<k, "amount">> \in T.checks
      BY <2>2
    <3>4. <<k, "amount">>[1] = k /\ <<k, "amount">>[2] = "amount"
      OBVIOUS
    <3>5. k \in T.validator.runs
      BY <1>2, <3>3, <3>4, Known
    <3>6. ~Throws(k, g[p])
      BY <1>1, <1>2, <1>7, <2>2, <3>1, <3>2, <3>3, <3>5, Passed
    <3>7. FormOf(g[p]) = "-1" => k = "isPositiveOrMinusOneAmount"
      BY <3>3, <3>6 DEF Throws, amountGtThan0Validator
    <3>8. k = "isPositiveOrMinusOneAmount" => "amount" \in X
      BY <1>3, <3>3, <3>4 DEF Within
    <3> QED
      BY <1>6, <1>7, <2>2, <3>1, <3>2, <3>7, <3>8
  <2> QED
    BY <1>2, <1>7, <2>1, <2>2 DEF Passes, PassedBy
<1>9. \E k \in Kinds :
        /\ k \in Recorded(p) /\ ~Throws(k, g[p])
        /\ p \in AmountNames <=> k \in Amounts
        /\ p = "deadline" <=> k = "isDeadline32Bytes"
        /\ k = "isPositiveOrMinusOneAmount" => <<k, p>> \in m.checks
  <2>1. ASSUME NEW d \in m.checks, d[2] = p
        PROVE  /\ d[1] \in Kinds /\ d[1] \in Recorded(p) /\ ~Throws(d[1], g[p])
               /\ p \in AmountNames <=> d[1] \in Amounts
               /\ p = "deadline" <=> d[1] = "isDeadline32Bytes"
               /\ <<d[1], p>> \in m.checks
    <3>1. d = <<d[1], p>> /\ d[1] \in m.validator.runs
      BY <1>1, <2>1, Known
    <3>2. ~Throws(d[1], g[p])
      BY <1>1, <1>2, <1>8, <2>1, <3>1, Passed
    <3> QED
      BY <1>1, <2>1, <3>1, <3>2, Known DEF Recorded
  <2>2. CASE \E d \in m.checks : d[2] = p
    BY <2>1, <2>2
  <2>3. CASE c \in T.checks /\ p \in DOMAIN w /\ w[p] = Given(p)
             /\ c[1] # "isPositiveOrMinusOneAmount"
    <3>1. /\ c = <<c[1], p>> /\ c[1] \in T.validator.runs /\ p \in Own(T) /\ c[1] \in Kinds
          /\ p \in AmountNames <=> c[1] \in Amounts
          /\ p = "deadline" <=> c[1] = "isDeadline32Bytes"
      BY <1>2, <1>4, <2>3, Known
    <3>2. call.given[p] = g[p]
      <4>1. call.given[p] = Value(Given(p), g)
        BY <1>2, <2>3, <3>1
      <4> QED
        BY <4>1, GivenValue
    <3>3. ~Throws(c[1], g[p])
      BY <1>1, <1>2, <1>8, <2>3, <3>1, <3>2, Passed
    <3>4. c[1] \in Recorded(p)
      BY <1>2, <1>4, <2>3 DEF Recorded
    <3> QED
      BY <2>3, <3>1, <3>3, <3>4
  <2> QED
    BY <1>2, <1>4, <1>8, <2>2, <2>3 DEF Passes, Rechecked
<1>10. PICK k \in Kinds :
        /\ k \in Recorded(p) /\ ~Throws(k, g[p])
        /\ p \in AmountNames <=> k \in Amounts
        /\ p = "deadline" <=> k = "isDeadline32Bytes"
        /\ k = "isPositiveOrMinusOneAmount" => <<k, p>> \in m.checks
  BY <1>9
<1>11. CASE FormOf(v) \in Made
  BY <1>11, NotBarred
<1>12. CASE /\ FormOf(v) = FormOf(g[p])
            /\ FormOf(v) = "-1" => <<"isPositiveOrMinusOneAmount", p>> \notin m.checks
  <2>1. /\ FormOf(v) \in Barred =>
                 \/ /\ FormOf(v) \in {"name", "unknown name"}
                    /\ <<"isBnbAddressOrENS", p>> \in m.checks
                 \/ FormOf(v) = "-1" /\ k = "isPositiveOrMinusOneAmount"
        /\ FormOf(v) = "0" => k = "is0OrPositiveAmount"
    BY <1>8, <1>10, <1>12, Filtered
  <2> QED
    BY <1>2, <1>10, <1>12, <2>1
<1> QED
  BY <1>8, <1>11, <1>12

\* A method that needs no address hands over to methods that need none.
LEMMA NothingNeeded ==
    ASSUME NEW name \in DOMAIN Methods, NEW n \in Involved(name), Methods[n].validator.needs = {}
    PROVE  Needed(name) = {}
<1>1. PICK X : Clean(Methods[name], X)
  BY CleanTable
<1>2. ASSUME NEW r \in Routes(name), r.to \in DOMAIN Methods
      PROVE  Methods[name].validator.needs = {} <=> Methods[r.to].validator.needs = {}
  BY <1>1, <1>2 DEF Clean, PassesOn, Onward, Passes, Routes, Range_
<1>3. ASSUME NEW l \in Involved(name)
      PROVE  Methods[name].validator.needs = {} <=> Methods[l].validator.needs = {}
  BY <1>2 DEF Involved
<1>4. \A l \in Involved(name) : Methods[l].validator.needs = {}
  BY <1>3
<1> QED
  BY <1>4 DEF Needed

\* The contract that is called is one whose address is known.
LEMMA Addressed ==
    ASSUME IInv, Valid, NEW to, to = Value(Now.sends.to, call.given), to[1] = "constant",
           to[2] \in Needed(request.method)
    PROVE  to[2] \in setUp
<1>1. /\ Now.validator.needs \subseteq setUp /\ Running /\ Now = Methods[call.method]
      /\ {request.method, call.method} \subseteq DOMAIN Methods
      /\ call.method \in Involved(request.method)
  BY Registered, CallInvolved DEF Valid, IsSetUp
<1>2. Destined(Now)
  BY <1>1, CleanTable DEF Clean
<1>3. CASE \E c : Now.sends.to = Fixed(c) /\ (c \in Now.validator.needs \/ Now.validator.needs = {})
  <2>1. PICK c : Now.sends.to = Fixed(c) /\ (c \in Now.validator.needs \/ Now.validator.needs = {})
    BY <1>3
  <2>2. to[2] = c
    BY <2>1, GivenValue DEF Constant
  <2>3. Now.validator.needs # {}
    BY <1>1, NothingNeeded
  <2> QED
    BY <1>1, <2>1, <2>2, <2>3
<1>4. CASE \E q \in Own(Now) : Now.sends.to = Given(q)
  <2>1. PICK q \in Own(Now) : Now.sends.to = Given(q)
    BY <1>4
  <2>2. to = call.given[q]
    BY <2>1, GivenValue
  <2>3. CASE call = request
    BY <1>1, <2>1, <2>2, <2>3, Registered, AsGiven
  <2>4. CASE call # request
    <3>1. PICK r, X0 :
             LET m == Methods[request.method]
                 T == Methods[r.to]
             IN /\ r.to \in DOMAIN Methods /\ Now = T
                /\ \A p \in Own(T) : call.given[p] = IF p \in DOMAIN r.with
                                                     THEN Value(r.with[p], request.given)
                                                     ELSE Absent
                /\ Passes(m, X0, r.with, T)
      BY <1>1, <2>4, Relay
    <3>2. PICK p \in Own(Methods[request.method]) : q \in DOMAIN r.with /\ r.with[q] = Given(p)
      BY <2>1, <3>1 DEF Passes
    <3>3. to = request.given[p]
      <4>1. to = Value(Given(p), request.given)
        BY <2>1, <2>2, <3>1, <3>2
      <4> QED
        BY <4>1, GivenValue
    <3> QED
      BY <1>1, <3>3, Registered, AsGiven
  <2> QED
    BY <2>3, <2>4
<1> QED
  BY <1>2, <1>3, <1>4 DEF Destined

\* The transaction that is built says nothing that is barred.
LEMMA BuildClean ==
    ASSUME IInv, Build PROVE InvalidNeverSent'
<1> DEFINE s == Now.sends
           g == call.given
<1>1. /\ Valid /\ ~Unknown /\ outcome' = "sent" /\ UNCHANGED <<setUp, request, call>>
      /\ tx' = [to |-> Value(s.to, g), kind |-> s.kind, takes |-> s.takes,
                args |-> [i \in DOMAIN s.args |-> Values(s.args[i], g)],
                from |-> Value(s.from, g), value |-> Value(s.value, g)]
  BY DEF Build
<1>2. Running /\ Now = Methods[call.method] /\ call.method \in DOMAIN Methods
  BY <1>1, Registered DEF Valid, IsSetUp
<1>3. PICK X : Clean(Now, X)
  BY <1>2, CleanTable
<1>4. AllValues(Own(Now), g)
  BY <1>2, CallValues
<1>5. /\ Yields(Own(Now), X, Value(s.to, g), g) /\ Yields(Own(Now), X, Value(s.from, g), g)
      /\ Yields(Own(Now), X, Value(s.value, g), g)
  BY <1>3, <1>4 DEF Clean, SaysFrom, FitsAlone
<1>6. ASSUME NEW i \in DOMAIN s.args, NEW v \in Range_(Values(s.args[i], g))
      PROVE  Yields(Own(Now), X, v, g)
  BY <1>3, <1>4 DEF Clean, SaysArgs, Fits
<1>7. ASSUME NEW said \in Said'
      PROVE  Yields(Own(Now), X, said[2], g)
  <2>1. \/ \E i \in DOMAIN tx'.args : \E v \in Range_(tx'.args[i]) : said = <<tx'.takes[i], v>>
        \/ said \in {<<"from", tx'.from>>, <<"value", tx'.value>>, <<"contract", tx'.to>>}
    BY DEF Said
  <2>2. CASE \E i \in DOMAIN tx'.args : \E v \in Range_(tx'.args[i]) : said = <<tx'.takes[i], v>>
    <3>1. PICK i \in DOMAIN tx'.args : \E v \in Range_(tx'.args[i]) : said = <<tx'.takes[i], v>>
      BY <2>2
    <3>2. i \in DOMAIN s.args /\ tx'.args[i] = Values(s.args[i], g)
      BY <1>1, <3>1
    <3>3. PICK v \in Range_(Values(s.args[i], g)) : said = <<tx'.takes[i], v>>
      BY <3>1, <3>2
    <3> QED
      BY <1>6, <3>2, <3>3
  <2>3. CASE said \in {<<"from", tx'.from>>, <<"value", tx'.value>>, <<"contract", tx'.to>>}
    <3>1. said[2] \in {tx'.from, tx'.value, tx'.to}
      BY <2>3
    <3> QED
      BY <1>1, <1>5, <3>1
  <2> QED
    BY <2>1, <2>2, <2>3
<1>8. ASSUME NEW said \in Asked', Recorded(said[2][1])' # {}
      PROVE  /\ FormOf(said[2]) \notin Barred
             /\ FormOf(said[2]) = "0" => "is0OrPositiveAmount" \in Recorded(said[2][1])'
  <2>1. Recorded(said[2][1])' = Recorded(said[2][1])
    BY <1>1 DEF Recorded
  <2>2. Yields(Own(Now), X, said[2], g) /\ said[2][1] # "constant"
    BY <1>7 DEF Asked
  <2>3. CASE call = request
    BY <1>1, <1>3, <1>8, <2>1, <2>2, <2>3, Direct
  <2>4. CASE call # request
    BY <1>1, <1>3, <1>8, <2>1, <2>2, <2>4, Relayed
  <2> QED
    BY <2>3, <2>4
<1>9. tx'.to[1] = "constant" /\ tx'.to[2] \in Needed(request.method)' => tx'.to[2] \in setUp'
  BY <1>1, Addressed
<1> QED
  BY <1>8, <1>9 DEF InvalidNeverSent, Barred

\* Before it is built, nothing is.
LEMMA NothingSent == ASSUME ~Sent' PROVE InvalidNeverSent'
BY DEF InvalidNeverSent

-----------------------------------------------------------------------------
\* A refusal is about the limits on the native asset.
LEMMA RefuseExplained ==
    ASSUME IInv, Refuse PROVE NativeLimits
<1>1. Running /\ Taken # {} /\ Route.to = "an error"
  BY DEF Refuse, Valid, IsSetUp
<1>2. PICK i \in DOMAIN Now.routes :
        Route = Now.routes[i] /\ \A c \in Route.when : Takes(c, call.given)
  BY <1>1, RouteTaken
<1>3. request.method \in DOMAIN Methods /\ Sensible(request.method, request.given)
  BY <1>1 DEF IInv, TypeOK, Running
<1>4. DOMAIN request.given = Params(request.method)
  BY <1>3 DEF Sensible
<1> DEFINE m == Methods[request.method]
<1>5. CASE call = request
  <2>1. Limits(request.method, m, Route)
    <3>1. Sound(request.method, m, Route)
      BY <1>2, <1>3, <1>5, Table DEF Row, Routed, Now
    <3> QED
      BY <3>1, <1>1, NotMethods DEF Sound
  <2>2. ForNative(m, Route) => InNative
    BY <1>2, <1>3, <1>4, <1>5, NativeTaken DEF InNative
  <2>3. ASSUME NEW p, Without(p) \in Route.when, p \in Own(m)
        PROVE  p \in DOMAIN request.given /\ ~Has(p)
    BY <2>3, <1>2, <1>3, <1>5, WithoutTaken DEF Has
  <2> QED
    BY <2>1, <2>2, <2>3 DEF Limits, NativeLimits, Debt
<1>6. CASE call # request
  <2>1. PICK j \in DOMAIN m.routes :
              LET r == m.routes[j]
              IN /\ r.to \in DOMAIN Methods /\ call = Handed(r, request.given)
                 /\ \A c \in r.when : Takes(c, request.given)
                 /\ Hands(request.method, m, r, Methods[r.to])
    BY <1>1, <1>6, HandedOver
  <2> DEFINE r == m.routes[j]
  <2>2. /\ Without(Debt) \in Route.when /\ ForNative(m, r) /\ Debt \in Own(m)
        /\ Debt \in Own(Methods[r.to]) /\ Debt \in DOMAIN r.with /\ r.with[Debt] = Given(Debt)
    BY <1>1, <1>2, <2>1 DEF Hands, Now, Handed
  <2>3. InNative
    BY <1>3, <1>4, <2>1, <2>2, NativeTaken DEF InNative
  <2>4. call.given[Debt] = request.given[Debt]
    <3>1. call.given[Debt] = Value(Given(Debt), request.given)
      BY <2>1, <2>2 DEF Handed, Params, Own
    <3> QED
      BY <3>1 DEF Value, Chosen, Simple, Given
  <2>5. ~On(request.given[Debt])
    <3>1. Takes(Without(Debt), call.given)
      BY <1>2, <2>2
    <3> QED
      BY <3>1, <2>4 DEF Takes, Without
  <2>6. Debt \in DOMAIN request.given /\ ~Has(Debt)
    <3>1. Debt \in Params(request.method) /\ OfRequest(Debt, request.given[Debt])
      BY <1>3, <2>2 DEF Sensible, Params, Own
    <3> QED
      BY <3>1, <2>5, <1>4, OnOrAbsent DEF Has
  <2> QED
    BY <2>3, <2>6 DEF NativeLimits, Debt
<1> QED
  BY <1>5, <1>6

\* Without an address, an address is missing.
LEMMA NotSetUpExplained ==
    ASSUME IInv, NotSetUp
    PROVE  outcome' \in {"empty", "thrown"} /\ ~(Needed(request.method) \subseteq setUp)
<1>1. Running /\ ~(Now.validator.needs \subseteq setUp) /\ outcome' = Now.validator.missing
  BY DEF NotSetUp, IsSetUp, Ends
<1>2. call.method \in Involved(request.method) /\ call.method \in DOMAIN Methods
  BY <1>1, CallInvolved DEF IInv, TypeOK, Running
<1>3. Now.validator.needs \subseteq Needed(request.method)
  BY <1>2 DEF Needed, Now
<1> QED
  BY <1>1, <1>2, <1>3, Table DEF Row, Routed, WellMade, Now

\* A name that nobody has registered is a fault of the request.
LEMMA UnknownExplained ==
    ASSUME IInv, getDelegateeAddress PROVE \E p \in DOMAIN request.given : AtFault(p)
<1>1. Running
  BY DEF getDelegateeAddress, Valid, IsSetUp
<1>2. PICK p \in DOMAIN call.given :
         <<"isBnbAddressOrENS", p>> \in Now.checks /\ FormOf(call.given[p]) = "unknown name"
  BY DEF getDelegateeAddress, Unknown
<1>3. call = request
  <2>1. SUFFICES ASSUME call # request PROVE FALSE
    OBVIOUS
  <2>2. PICK i \in DOMAIN Methods[request.method].routes :
              LET r == Methods[request.method].routes[i]
              IN /\ call = Handed(r, request.given)
                 /\ Hands(request.method, Methods[request.method], r, Methods[r.to])
    BY <1>1, <2>1, HandedOver
  <2>3. call.method = Methods[request.method].routes[i].to
    BY <2>2 DEF Handed
  <2>4. \A c \in Now.checks : c[1] # "isBnbAddressOrENS"
    BY <2>2, <2>3 DEF Hands, Now
  <2> QED
    BY <1>2, <2>4
<1> QED
  BY <1>2, <1>3 DEF AtFault

\* What a decorator throws on, after a request was handed over too, is a fault
\* of the request or the native debt that cannot be repaid as a whole.
LEMMA RejectExplained ==
    ASSUME IInv, Reject PROVE NativeLimits \/ \E p \in DOMAIN request.given : AtFault(p)
<1> DEFINE m == Methods[request.method]
<1>1. Running /\ ~Accepted(Now, call.given)
  BY DEF Reject, IsSetUp
<1>2. PICK k \in Now.validator.runs, p \in DOMAIN call.given :
         <<k, p>> \in Now.checks /\ call.given[p] # Absent /\ Throws(k, call.given[p])
  BY <1>1 DEF Accepted
<1>3. /\ request.method \in DOMAIN Methods /\ call.method \in DOMAIN Methods
      /\ Sensible(request.method, request.given) /\ DOMAIN request.given = Params(request.method)
  BY <1>1 DEF IInv, TypeOK, Running, Sensible
<1>4. k \in Kinds
  BY <1>2, <1>3, Table DEF Row, Routed, WellMade, Now
<1>5. WellMade(m)
  BY <1>3, Table DEF Row, Routed
<1>6. CASE call = request
  <2>1. <<k, p>> \in m.checks /\ p \in DOMAIN request.given /\ Throws(k, request.given[p])
    BY <1>2, <1>6 DEF Now
  <2>2. ASSUME NEW l, <<l, p>> \in m.checks PROVE l = k
    BY <2>1, <2>2, <1>5 DEF WellMade
  <2>3. FormOf(request.given[p]) # "name"
    <3>1. SUFFICES ASSUME FormOf(request.given[p]) = "name" PROVE FALSE
      OBVIOUS
    <3>2. k = "isBnbAddress"
      BY <2>1, <3>1, <1>4, ThrowsOn
    <3>3. k = "isBnbAddressOrENS"
      BY <2>1, <2>2, <3>1, <1>3 DEF Sensible, Likely
    <3> QED
      BY <3>2, <3>3
  <2> QED
    BY <2>1, <2>2, <2>3, <1>4, ThrowsOn DEF AtFault
<1>7. CASE call # request
  <2>1. PICK j \in DOMAIN m.routes :
              LET r == m.routes[j]
              IN /\ r.to \in DOMAIN Methods /\ call = Handed(r, request.given)
                 /\ \A c \in r.when : Takes(c, request.given)
                 /\ Hands(request.method, m, r, Methods[r.to])
    BY <1>1, <1>7, HandedOver
  <2> DEFINE r == m.routes[j]
  <2>2. p \in Params(r.to) /\ p \in DOMAIN r.with /\ call.given[p] = Value(r.with[p], request.given)
    BY <1>2, <2>1 DEF Handed
  <2>3. Kept(request.method, m, r, <<k, p>>, r.with[p])
    BY <1>2, <2>1, <2>2 DEF Hands, Handed, Now
  <2>4. r.with[p] \notin {Fixed("POOL"), Fixed("LENDING_POOL"), Fixed("WBNB_GATEWAY")}
    <3>1. SUFFICES ASSUME NEW a \in {"POOL", "LENDING_POOL", "WBNB_GATEWAY"}, r.with[p] = Fixed(a)
                   PROVE  FALSE
      OBVIOUS
    <3>2. call.given[p] = <<"constant", a>>
      BY <2>2, <3>1 DEF Value, Chosen, Simple, Fixed, Constant
    <3>3. FormOf(call.given[p]) = a
      BY <3>2, FormOfPair
    <3>4. FormOf(call.given[p]) \in {"malformed", "name", "0", "-1", "too long"}
      BY <1>2, <1>4, ThrowsOn
    <3> QED
      BY <3>3, <3>4
  <2>5. PICK q \in Own(m) :
        /\ Keeps(r.with[p], q)
        /\ <<"is0OrPositiveAmount", q>> \notin m.checks
        /\ <<"isPositiveOrMinusOneAmount", q>> \in m.checks =>
              \/ k = "isPositiveOrMinusOneAmount"
              \/ request.method \in {"Pool_repay", "LendingPool_repay"} /\ q = "amount"
                   /\ ForNative(m, r)
    BY <2>3, <2>4 DEF Kept
  <2>6. q \in DOMAIN request.given /\ OfRequest(q, request.given[q])
    BY <1>3 DEF Sensible, Params, Own
  <2>7. FormOf(call.given[p]) = FormOf(request.given[q])
    <3>1. FormOf(call.given[p]) \in {FormOf(request.given[q]), "units"}
      <4>1. FormOf(Value(r.with[p], request.given)) \in {FormOf(request.given[q]), "units"}
        BY <2>5, <2>6, FormKept
      <4> QED
        BY <2>2, <4>1
    <3>2. FormOf(call.given[p]) # "units"
      BY <1>2, <1>4, ThrowsOn
    <3> QED
      BY <3>1, <3>2
  <2>8. FormOf(request.given[q]) # "name"
    <3>1. SUFFICES ASSUME FormOf(request.given[q]) = "name" PROVE FALSE
      OBVIOUS
    <3>2. <<"isBnbAddressOrENS", q>> \in m.checks
      BY <3>1, <2>6, <1>3 DEF Sensible, Likely, Params, Own
    <3>3. m.routes = <<>>
      BY <3>2, <1>5 DEF WellMade
    <3> QED
      BY <3>3, <2>1
  <2>9. CASE FormOf(request.given[q]) = "-1" /\ <<"isPositiveOrMinusOneAmount", q>> \in m.checks
    <3>1. k # "isPositiveOrMinusOneAmount"
      BY <1>2, <1>4, <2>7, <2>9, ThrowsOn
    <3>2. InNative
      BY <2>1, <2>5, <2>9, <3>1, <1>3, NativeTaken DEF InNative
    <3> QED
      BY <2>5, <2>9, <3>1, <3>2 DEF NativeLimits
  <2>10. CASE ~(FormOf(request.given[q]) = "-1" /\ <<"isPositiveOrMinusOneAmount", q>> \in m.checks)
    <3>1. FormOf(request.given[q]) \in {"malformed", "0", "-1", "too long"}
      BY <1>2, <1>4, <2>7, <2>8, ThrowsOn
    <3>2. AtFault(q)
      BY <2>5, <2>10, <3>1 DEF AtFault
    <3> QED
      BY <2>6, <3>2
  <2> QED
    BY <2>9, <2>10
<1> QED
  BY <1>6, <1>7

ExplainedBy == (\E p \in DOMAIN request.given : AtFault(p)) \/ NativeLimits

\* The reasons to turn a request away.
Explained == ExplainedBy \/ ~(Needed(request.method) \subseteq setUp)

\* They are about the request and the addresses only.
LEMMA SameReasons ==
    ASSUME UNCHANGED <<setUp, request>> PROVE Explained' <=> Explained
BY DEF Explained, ExplainedBy, AtFault, NativeLimits, InNative, Has

\* A request may end in this way for these reasons.
LEMMA EndsSafely ==
    ASSUME IInv, Running, NEW how \in {"answered", "empty", "thrown"}, Ends(how),
           how = "empty" => ~(Needed(request.method) \subseteq setUp),
           how = "thrown" => Explained
    PROVE  IInv'
<1> USE DEF Ends, Running
<1>1. TypeOK'
  BY DEF IInv, TypeOK, Outcomes, Sent
<1>2. (Sensible(request.method, request.given) /\ OnItsWay)'
  BY DEF IInv, OnItsWay
<1>3. ServedOrExplained'
  BY SameReasons DEF ServedOrExplained, Explained, ExplainedBy
<1>4. InvalidNeverSent'
  BY NothingSent DEF Sent
<1> QED
  BY <1>1, <1>2, <1>3, <1>4 DEF IInv

\* A request begins as it should.
LEMMA CallSafe ==
    ASSUME IInv, NEW name \in DOMAIN Methods, Call(name) PROVE IInv'
<1>1. PICK absent \in SUBSET Methods[name].optional, odd \in [1..AtOnce -> Odds(name) \cup {None}],
          native \in (IF NativeParams(name) = {} THEN {FALSE} ELSE BOOLEAN) :
        request' = [method |-> name,
                    given |-> Parameters(name, absent, Range_(odd) \ {None}, native)]
  BY DEF Call
<1>2. /\ setUp' \subseteq Needed(name) /\ call' = request' /\ tx' = tx
      /\ outcome = "idle" /\ outcome' = "running"
  BY DEF Call
<1>3. Range_(odd) \ {None} \subseteq Odds(name)
  BY DEF Range_
<1>4. Sensible(name, request'.given) /\ request'.method = name
  BY <1>1, <1>3, SensibleRequest
<1>5. DOMAIN request'.given = Params(name)
  BY <1>4 DEF Sensible
<1>6. TypeOK'
  BY <1>2, <1>4, <1>5 DEF IInv, TypeOK, Outcomes, Sent
<1>7. OnItsWay'
  BY <1>2 DEF OnItsWay
<1>8. ServedOrExplained'
  BY <1>2 DEF ServedOrExplained
<1>9. InvalidNeverSent'
  BY <1>2, NothingSent DEF Sent
<1> QED
  BY <1>4, <1>6, <1>7, <1>8, <1>9 DEF IInv

\* It is handed over once at most.
LEMMA HandOverSafe ==
    ASSUME IInv, HandOver PROVE IInv'
<1>1. Running /\ Taken # {} /\ Route.to \in DOMAIN Methods
  BY DEF HandOver, Valid, IsSetUp
<1>2. PICK i \in DOMAIN Now.routes :
        Route = Now.routes[i] /\ \A c \in Route.when : Takes(c, call.given)
  BY <1>1, RouteTaken
<1>3. call' = Handed(Route, call.given) /\ UNCHANGED <<setUp, request, outcome, tx>>
  BY DEF HandOver, Handed
<1>4. call = request
  <2>1. SUFFICES ASSUME call # request PROVE FALSE
    OBVIOUS
  <2>2. PICK j \in DOMAIN Methods[request.method].routes :
              LET r == Methods[request.method].routes[j]
              IN /\ call = Handed(r, request.given)
                 /\ Hands(request.method, Methods[request.method], r, Methods[r.to])
    BY <1>1, <2>1, HandedOver
  <2>3. Now.routes[i].to \in {"an answer", "an error"}
    BY <2>2 DEF Handed, Hands, Now
  <2> QED
    BY <1>1, <1>2, <2>3, NotMethods
<1>5. DOMAIN call'.given = Params(call'.method) /\ call'.method \in DOMAIN Methods
  BY <1>1, <1>3 DEF Handed
<1>6. TypeOK'
  BY <1>3, <1>5 DEF IInv, TypeOK, Sent
<1>7. OnItsWay'
  <2>1. i \in DOMAIN Methods[request.method].routes /\ Route = Methods[request.method].routes[i]
    BY <1>2, <1>4 DEF Now
  <2>2. Accepted(Methods[request.method], request.given)
    BY <1>4 DEF HandOver, Valid, Now
  <2> QED
    BY <1>1, <1>2, <1>3, <1>4, <2>1, <2>2 DEF OnItsWay
<1>8. ServedOrExplained' /\ Sensible(request.method, request.given)'
  BY <1>1, <1>3 DEF ServedOrExplained, IInv, Running
<1>9. InvalidNeverSent'
  BY <1>1, <1>3, NothingSent DEF Sent, Running
<1> QED
  BY <1>6, <1>7, <1>8, <1>9 DEF IInv

\* A transaction has a value for each place.
LEMMA BuildSafe ==
    ASSUME IInv, Build PROVE IInv'
<1>1. /\ Running /\ outcome' = "sent" /\ UNCHANGED <<setUp, request, call>>
      /\ DOMAIN tx'.args = DOMAIN Now.sends.args /\ tx'.takes = Now.sends.takes
  BY DEF Build, Valid, IsSetUp
<1>2. call.method \in DOMAIN Methods
  BY <1>1 DEF IInv, TypeOK, Running
<1>3. DOMAIN tx'.args = DOMAIN tx'.takes
  BY <1>1, <1>2, Table DEF Row, Routed, WellMade, Now
<1>4. TypeOK'
  BY <1>1, <1>3 DEF IInv, TypeOK, Outcomes, Sent, Running
<1>5. (Sensible(request.method, request.given) /\ OnItsWay)'
  BY <1>1 DEF IInv, OnItsWay, Running
<1>6. ServedOrExplained'
  BY <1>1 DEF ServedOrExplained
<1> QED
  BY <1>4, <1>5, <1>6, BuildClean DEF IInv

\* The invariant always holds: it is only the steps of one request.
LEMMA Always == Spec => []IInv
<1>1. Init => IInv
  BY DEF Init, IInv, TypeOK, Outcomes, Sent, ServedOrExplained, InvalidNeverSent
<1>2. IInv /\ [Next]_vars => IInv'
  <2> SUFFICES ASSUME IInv, [Next]_vars PROVE IInv'
    OBVIOUS
  <2>1. ASSUME NEW name \in DOMAIN Methods, Call(name) PROVE IInv'
    BY <2>1, CallSafe
  <2>2. CASE NotSetUp
    <3>1. Running /\ Ends(Now.validator.missing)
      BY <2>2 DEF NotSetUp
    <3>2. Now.validator.missing \in {"empty", "thrown"} /\ ~(Needed(request.method) \subseteq setUp)
      BY <2>2, <3>1, NotSetUpExplained DEF Ends
    <3> QED
      BY <3>1, <3>2, EndsSafely DEF Explained
  <2>3. CASE Reject
    BY <2>3, RejectExplained, EndsSafely DEF Reject, IsSetUp, Explained, ExplainedBy
  <2>4. CASE Refuse
    BY <2>4, RefuseExplained, EndsSafely DEF Refuse, Valid, IsSetUp, Explained, ExplainedBy
  <2>5. CASE Answer
    BY <2>5, EndsSafely DEF Answer, Valid, IsSetUp
  <2>6. CASE HandOver
    BY <2>6, HandOverSafe
  <2>7. CASE getDelegateeAddress
    BY <2>7, UnknownExplained, EndsSafely
       DEF getDelegateeAddress, Valid, IsSetUp, Explained, ExplainedBy
  <2>8. CASE Build
    BY <2>8, BuildSafe
  <2>9. CASE Return
    BY <2>9 DEF Return, IInv, TypeOK, Outcomes, Sent, ServedOrExplained, InvalidNeverSent
  <2>10. CASE UNCHANGED vars
    <3>1. UNCHANGED <<setUp, request, call, outcome, tx>>
      BY <2>10 DEF vars
    <3>2. TypeOK'
      BY <3>1 DEF IInv, TypeOK, Sent
    <3>3. (outcome # "idle" => Sensible(request.method, request.given) /\ OnItsWay)'
      BY <3>1 DEF IInv, OnItsWay
    <3>4. ServedOrExplained'
      BY <3>1, SameReasons DEF IInv, ServedOrExplained, Explained, ExplainedBy
    <3>5. InvalidNeverSent'
      <4>1. Asked' = Asked /\ Sent' = Sent
        BY <3>1 DEF Asked, Said, Sent
      <4>2. ASSUME NEW p PROVE Recorded(p)' = Recorded(p)
        BY <3>1 DEF Recorded
      <4> QED
        BY <3>1, <4>1, <4>2 DEF IInv, InvalidNeverSent
    <3> QED
      BY <3>2, <3>3, <3>4, <3>5 DEF IInv
  <2> QED
    BY <2>1, <2>2, <2>3, <2>4, <2>5, <2>6, <2>7, <2>8, <2>9, <2>10 DEF Next
<1> QED
  BY <1>1, <1>2, PTL DEF Spec

\* The variables hold what their comments say: the request and the call have the
\* parameters of their methods, and a transaction has one value for each place of
\* the contract function it calls.
THEOREM TypeCorrect == Spec => []TypeOK
<1>1. IInv => TypeOK
  BY DEF IInv
<1> QED
  BY <1>1, Always, PTL

\* A request is only turned away for a reason that its caller can see, whichever
\* method is called, with whatever parameters and however many of them odd, on
\* services made with whatever addresses.
THEOREM TurnedAwayForAReason == Spec => []ServedOrExplained
<1>1. IInv => ServedOrExplained
  BY DEF IInv
<1> QED
  BY <1>1, Always, PTL

\* What is sent or asked in the end says of a parameter that is checked only
\* what the checks let through, whichever method it was handed over to, and it
\* goes to a contract whose address is known (validators of the services,
\* methodValidators.ts).
THEOREM NothingInvalidSent == Spec => []InvalidNeverSent
<1>1. IInv => InvalidNeverSent
  BY DEF IInv
<1> QED
  BY <1>1, Always, PTL

=============================================================================
