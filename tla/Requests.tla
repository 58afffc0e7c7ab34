------------------------------ MODULE Requests ------------------------------
(***************************************************************************)
(* One call of a service method, from the request to the transaction, the  *)
(* question to a contract or the refusal that comes of it: the decorator   *)
(* looks for the addresses the service was made with and runs its checks,  *)
(* and the body refuses, answers, hands over to another service, where the *)
(* same begins anew, or passes its values to a contract function, which    *)
(* knows them by their places only.                                        *)
(***************************************************************************)
EXTENDS PoolMethods, ServiceMethods, FiniteSetsExt

CONSTANTS None,     \* nothing odd about a request, no transaction
          AtOnce    \* how many parameters of a request may be out of the ordinary

ASSUME AtOnceAssumption == AtOnce \in Nat

VARIABLES
    setUp,      \* the addresses the services were made with
    request,    \* the method called by the client and its parameters
    call,       \* the method that is running and its parameters
    outcome,    \* how far the request is
    tx          \* what is sent: the transaction or the question

vars == <<setUp, request, call, outcome, tx>>

Methods ==
    [L2Pool_supply |-> L2Pool_supply, L2Pool_supplyWithPermit |-> L2Pool_supplyWithPermit,
     L2Pool_withdraw |-> L2Pool_withdraw, L2Pool_borrow |-> L2Pool_borrow,
     L2Pool_repay |-> L2Pool_repay, L2Pool_repayWithPermit |-> L2Pool_repayWithPermit,
     L2Pool_repayWithLBTokens |-> L2Pool_repayWithLBTokens,
     L2Pool_swapBorrowRateMode |-> L2Pool_swapBorrowRateMode,
     L2Pool_setUserUseReserveAsCollateral |-> L2Pool_setUserUseReserveAsCollateral,
     L2Pool_liquidationCall |-> L2Pool_liquidationCall,
     L2Pool_generateSupplyTxData |-> L2Pool_generateSupplyTxData,
     L2Pool_generateBorrowTxData |-> L2Pool_generateBorrowTxData,
     L2Pool_generateSupplyWithPermitTxData |-> L2Pool_generateSupplyWithPermitTxData,
     L2Pool_generateEncodedSupplyTxData |-> L2Pool_generateEncodedSupplyTxData,
     L2Pool_generateEncodedBorrowTxData |-> L2Pool_generateEncodedBorrowTxData,
     L2Pool_generateEncodedSupplyWithPermitTxData |-> L2Pool_generateEncodedSupplyWithPermitTxData,
     WBNBGateway_depositBNB |-> WBNBGateway_depositBNB,
     WBNBGateway_borrowBNB |-> WBNBGateway_borrowBNB,
     WBNBGateway_withdrawBNB |-> WBNBGateway_withdrawBNB,
     WBNBGateway_repayBNB |-> WBNBGateway_repayBNB,
     WBNBGateway_generateDepositEthTxData |-> WBNBGateway_generateDepositEthTxData,
     WBNBGateway_generateBorrowEthTxData |-> WBNBGateway_generateBorrowEthTxData,
     LiquiditySwapAdapter_swapAndDeposit |-> LiquiditySwapAdapter_swapAndDeposit,
     ParaswapRepay_swapAndRepay |-> ParaswapRepay_swapAndRepay,
     RepayWithCollateralAdapter_swapAndRepay |-> RepayWithCollateralAdapter_swapAndRepay,
     Pool_deposit |-> Pool_deposit, Pool_supply |-> Pool_supply,
     Pool_supplyWithPermit |-> Pool_supplyWithPermit, Pool_withdraw |-> Pool_withdraw,
     Pool_borrow |-> Pool_borrow, Pool_repay |-> Pool_repay,
     Pool_repayWithPermit |-> Pool_repayWithPermit,
     Pool_repayWithLBTokens |-> Pool_repayWithLBTokens,
     Pool_swapBorrowRateMode |-> Pool_swapBorrowRateMode,
     Pool_setUsageAsCollateral |-> Pool_setUsageAsCollateral,
     Pool_setUserEMode |-> Pool_setUserEMode,
     Pool_liquidationCall |-> Pool_liquidationCall,
     Pool_swapCollateral |-> Pool_swapCollateral,
     Pool_paraswapRepayWithCollateral |-> Pool_paraswapRepayWithCollateral,
     Pool_flashLiquidation |-> Pool_flashLiquidation, Pool_migrateV3 |-> Pool_migrateV3,
     LendingPool_deposit |-> LendingPool_deposit,
     LendingPool_withdraw |-> LendingPool_withdraw,
     LendingPool_borrow |-> LendingPool_borrow, LendingPool_repay |-> LendingPool_repay,
     LendingPool_swapBorrowRateMode |-> LendingPool_swapBorrowRateMode,
     LendingPool_setUsageAsCollateral |-> LendingPool_setUsageAsCollateral,
     LendingPool_liquidationCall |-> LendingPool_liquidationCall,
     LendingPool_swapCollateral |-> LendingPool_swapCollateral,
     LendingPool_repayWithCollateral |-> LendingPool_repayWithCollateral,
     LendingPool_paraswapRepayWithCollateral |-> LendingPool_paraswapRepayWithCollateral,
     LendingPool_flashLiquidation |-> LendingPool_flashLiquidation,
     PoolBundle_getApprovedAmount |-> PoolBundle_getApprovedAmount,
     PoolBundle_supply_generateTxData |-> PoolBundle_supply_generateTxData,
     PoolBundle_supply_generateSignedTxData |-> PoolBundle_supply_generateSignedTxData,
     PoolBundle_borrow_generateTxData |-> PoolBundle_borrow_generateTxData,
     LendingPoolBundle_getApprovedAmount |-> LendingPoolBundle_getApprovedAmount,
     LendingPoolBundle_deposit_generateTxData |-> LendingPoolBundle_deposit_generateTxData,
     LendingPoolBundle_borrow_generateTxData |-> LendingPoolBundle_borrow_generateTxData,
     ERC20_approve |-> ERC20_approve, ERC20_approveTxData |-> ERC20_approveTxData,
     ERC20_isApproved |-> ERC20_isApproved, ERC20_approvedAmount |-> ERC20_approvedAmount,
     ERC20_2612_getNonce |-> ERC20_2612_getNonce,
     DebtToken_approveDelegation |-> DebtToken_approveDelegation,
     DebtToken_generateApproveDelegationTxData |-> DebtToken_generateApproveDelegationTxData,
     DebtToken_approvedDelegationAmount |-> DebtToken_approvedDelegationAmount,
     DebtToken_isDelegationApproved |-> DebtToken_isDelegationApproved,
     Staking_stakeWithPermit |-> Staking_stakeWithPermit, Staking_stake |-> Staking_stake,
     Staking_redeem |-> Staking_redeem, Staking_cooldown |-> Staking_cooldown,
     Staking_claimRewards |-> Staking_claimRewards,
     Incentives_claimRewards |-> Incentives_claimRewards,
     IncentivesV2_claimRewards |-> IncentivesV2_claimRewards,
     IncentivesV2_claimAllRewards |-> IncentivesV2_claimAllRewards,
     Faucet_mint |-> Faucet_mint, V3Faucet_mint |-> V3Faucet_mint,
     V3Faucet_isPermissioned |-> V3Faucet_isPermissioned,
     Governance_submitVote |-> Governance_submitVote,
     Governance_getProposals |-> Governance_getProposals,
     Governance_getProposal |-> Governance_getProposal,
     Governance_getVotingPowerAt |-> Governance_getVotingPowerAt,
     Governance_getTokensPower |-> Governance_getTokensPower,
     Governance_getVoteOnProposal |-> Governance_getVoteOnProposal,
     Governance_getProposalsCount |-> Governance_getProposalsCount,
     Governance_delegateTokensBySig |-> Governance_delegateTokensBySig,
     Governance_delegateTokensByTypeBySig |-> Governance_delegateTokensByTypeBySig,
     Delegation_delegate |-> Delegation_delegate,
     Delegation_delegateByType |-> Delegation_delegateByType,
     Delegation_delegateBySig |-> Delegation_delegateBySig,
     Delegation_delegateByTypeBySig |-> Delegation_delegateByTypeBySig,
     Delegation_getDelegateeByType |-> Delegation_getDelegateeByType,
     Delegation_getPowerCurrent |-> Delegation_getPowerCurrent,
     Delegation_getPowerAtBlock |-> Delegation_getPowerAtBlock,
     Delegation_getNonce |-> Delegation_getNonce, Migration_migrate |-> Migration_migrate,
     Migration_getMigrationSupply |-> Migration_getMigrationSupply,
     WalletBalance_balanceOf_ |-> WalletBalance_balanceOf_,
     WalletBalance_batchBalanceOf_ |-> WalletBalance_batchBalanceOf_,
     WalletBalance_getUserWalletBalancesForLendingPoolProvider |-> WalletBalance_getUserWalletBalancesForLendingPoolProvider,
     Permissions_getUserPermissions |-> Permissions_getUserPermissions,
     Feeds_latestRoundData |-> Feeds_latestRoundData, Feeds_decimals |-> Feeds_decimals,
     UiPool_getReservesList_ |-> UiPool_getReservesList_,
     UiPool_getReservesData_ |-> UiPool_getReservesData_,
     UiPool_getUserReservesData_ |-> UiPool_getUserReservesData_,
     UiPoolV3_getReservesList_ |-> UiPoolV3_getReservesList_,
     UiPoolV3_getReservesData_ |-> UiPoolV3_getReservesData_,
     UiPoolV3_getUserReservesData_ |-> UiPoolV3_getUserReservesData_,
     UiIncentive_getFullReservesIncentiveData_ |-> UiIncentive_getFullReservesIncentiveData_,
     UiIncentive_getReservesIncentivesData_ |-> UiIncentive_getReservesIncentivesData_,
     UiIncentive_getUserReservesIncentivesData_ |-> UiIncentive_getUserReservesIncentivesData_,
     UiIncentiveV3_getFullReservesIncentiveData_ |-> UiIncentiveV3_getFullReservesIncentiveData_,
     UiIncentiveV3_getReservesIncentivesData_ |-> UiIncentiveV3_getReservesIncentivesData_,
     UiIncentiveV3_getUserReservesIncentivesData_ |-> UiIncentiveV3_getUserReservesIncentivesData_,
     StakeUi_getGeneralStakeUIData |-> StakeUi_getGeneralStakeUIData,
     StakeUi_getUserStakeUIData |-> StakeUi_getUserStakeUIData]

Outcomes == {"idle", "running", "sent", "answered", "empty", "thrown"}
Final == {"sent", "answered", "empty", "thrown"}

Range_(s) == {s[i] : i \in DOMAIN s}
Routes(name) == Range_(Methods[name].routes)
Involved(name) == {name} \cup ({route.to : route \in Routes(name)} \cap DOMAIN Methods)
Needed(name) == UNION {Methods[n].validator.needs : n \in Involved(name)}
Params(name) == Methods[name].required \cup Methods[name].optional

-----------------------------------------------------------------------------
(* The requests. *)

\* The ways in which a parameter can be out of the ordinary.
OddForms(check) ==
    CASE check \in {"isBnbAddress", "isBnbAddressArray"} -> {"malformed"}
      [] check = "isBnbAddressOrENS" -> {"malformed", "name", "unknown name"}
      [] check = "isDeadline32Bytes" -> {"too long"}
      [] OTHER -> {"malformed", "0", "-1"}
Modes == {"interestRateMode", "rateMode", "debtRateMode", "repayAssets"}
Odds(name) ==
    {odd \in (UNION {{d[2]} \X OddForms(d[1]) :
                        d \in UNION {Methods[n].checks : n \in Involved(name)}})
              \cup (Modes \X {"Stable"}) :
        odd[1] \in Params(name)}
NativeParams(name) ==
    {p \in Params(name) : \E route \in Routes(name) : Native(p) \in route.when}

Ordinary(p) == IF p \in Modes \ {"repayAssets"} THEN <<p, "Variable">> ELSE <<p>>
Parameters(name, absent, odds, native) ==
    [p \in Params(name) |->
        IF p \in absent THEN Absent
        ELSE IF \E odd \in odds : odd[1] = p THEN CHOOSE odd \in odds : odd[1] = p
        ELSE IF native /\ p \in NativeParams(name) THEN <<p, "BNB">> ELSE Ordinary(p)]

Init ==
    /\ outcome = "idle"
    /\ setUp = {}
    /\ request = None /\ call = None /\ tx = None

\* A client calls a method of a service that was made with some of the addresses
\* it takes.
Call(name) ==
    /\ outcome = "idle"
    /\ \E absent \in SUBSET Methods[name].optional,
          odd \in [1..AtOnce -> Odds(name) \cup {None}],
          native \in (IF NativeParams(name) = {} THEN {FALSE} ELSE BOOLEAN) :
        request' = [method |-> name,
                    given |-> Parameters(name, absent, Range_(odd) \ {None}, native)]
    /\ setUp' \in SUBSET Needed(name)
    /\ call' = request'
    /\ outcome' = "running"
    /\ UNCHANGED tx

-----------------------------------------------------------------------------
(* The decorator, then the body. *)

Now == Methods[call.method]
Running == outcome = "running"
IsSetUp == Running /\ Now.validator.needs \subseteq setUp
Valid == IsSetUp /\ Accepted(Now, call.given)

Takes(condition, given) ==
    LET value == given[condition[2]]
    IN CASE condition[1] = "native" -> IsNative(value)
         [] condition[1] = "if" -> On(value)
         [] condition[1] = "without" -> ~On(value)
Taken == {i \in DOMAIN Now.routes : \A c \in Now.routes[i].when : Takes(c, call.given)}
Route == Now.routes[Min(Taken)]

Ends(how) ==
    /\ outcome' = how
    /\ UNCHANGED <<setUp, request, call, tx>>

NotSetUp ==
    /\ Running /\ ~IsSetUp
    /\ Ends(Now.validator.missing)

Reject ==
    /\ IsSetUp /\ ~Accepted(Now, call.given)
    /\ Ends("thrown")

Refuse ==
    /\ Valid /\ Taken # {} /\ Route.to = "an error"
    /\ Ends("thrown")

Answer ==
    /\ Valid /\ Taken # {} /\ Route.to = "an answer"
    /\ Ends("answered")

\* HandOver, mutated: the parameters are passed on under the names they have.
Bug_HandOver ==
    /\ Valid /\ Taken # {} /\ Route.to \in DOMAIN Methods
    /\ call' = [call EXCEPT !.method = Route.to]
    /\ UNCHANGED <<setUp, request, outcome, tx>>
HandOver ==
    /\ Valid /\ Taken # {} /\ Route.to \in DOMAIN Methods
    /\ call' = [method |-> Route.to,
                given |-> [p \in Params(Route.to) |->
                              IF p \in DOMAIN Route.with THEN Value(Route.with[p], call.given)
                              ELSE Absent]]
    /\ UNCHANGED <<setUp, request, outcome, tx>>

\* A name that nobody has registered: getDelegateeAddress throws.
Unknown ==
    \E p \in DOMAIN call.given :
        <<"isBnbAddressOrENS", p>> \in Now.checks /\ FormOf(call.given[p]) = "unknown name"
getDelegateeAddress ==
    /\ Valid /\ Taken = {} /\ Unknown
    /\ Ends("thrown")

Build ==
    /\ Valid /\ Taken = {} /\ ~Unknown
    /\ LET sends == Now.sends
       IN tx' = [to |-> Value(sends.to, call.given), kind |-> sends.kind, takes |-> sends.takes,
                 args |-> [i \in DOMAIN sends.args |-> Values(sends.args[i], call.given)],
                 from |-> Value(sends.from, call.given),
                 value |-> Value(sends.value, call.given)]
    /\ outcome' = "sent"
    /\ UNCHANGED <<setUp, request, call>>

\* The next request.
Return ==
    /\ outcome \in Final
    /\ outcome' = "idle"
    /\ setUp' = {}
    /\ request' = None /\ call' = None /\ tx' = None

Next ==
    \/ \E name \in DOMAIN Methods : Call(name)
    \/ NotSetUp \/ Reject \/ Refuse \/ Answer \/ HandOver \/ getDelegateeAddress \/ Build
    \/ Return

Spec == Init /\ [][Next]_vars
-----------------------------------------------------------------------------
(* What the parameters are for: the places in contract functions where the *)
(* value of a parameter belongs, besides the place of its own name.        *)

Means ==
    [user |-> {"from", "onBehalfOf", "to", "owner", "fromUser", "voter", "params", ""},
     onBehalfOf |-> {"to"}, liquidator |-> {"from"}, initiator |-> {"from", "onBehalfOf"},
     userAddress |-> {"from", "to"}, owner |-> {"from"}, liquidatedUser |-> {"user"},
     delegatee |-> {"toUser"}, allowanceGiver |-> {"fromUser"}, allowanceReceiver |-> {"toUser"},
     reserve |-> {"asset", "token", "_token"}, amount |-> {"value"},
     debtReserve |-> {"debtAsset", "reserve"}, collateralReserve |-> {"collateralAsset", "collateral"},
     purchaseAmount |-> {"debtToCover"}, debtToCover |-> {"value"}, getLBToken |-> {"receiveLBToken"},
     interestRateMode |-> {"rateMode", "interesRateMode"},
     rateMode |-> {"interestRateMode", "debtRateMode", "params"},
     numericRateMode |-> {"interestRateMode"}, usageAsCollateral |-> {"useAsCollateral"},
     fromAsset |-> {"asset", "assets", "assetToSwapFrom", "collateralAsset", "params"},
     toAsset |-> {"assetToSwapTo", "params"}, assetToRepay |-> {"debtAsset", "assets", "params"},
     fromAmount |-> {"amount", "amounts", "amountToSwap"},
     minToAmount |-> {"minAmountToReceive", "params"},
     repayWithAmount |-> {"amount", "amounts", "collateralAmount", "params"},
     repayAmount |-> {"amounts", "debtRepayAmount", "params"},
     borrowedAsset |-> {"asset", "assets", "params"}, collateralAsset |-> {"params"},
     debtTokenCover |-> {"amount", "amounts", "params"},
     swapCallData |-> {"swapCalldata", "params"}, swapAndRepayCallData |-> {"paraswapData", "params"},
     augustus |-> {"paraswapData", "params"}, permit |-> {"permitSignature"},
     permitParams |-> {"permitSignature"},
     permitSignature |-> {"permitParams", "params"}, useEthPath |-> {"params"},
     permitR |-> {"r"}, permitS |-> {"s"}, encodedTxData |-> {"args"},
     migrator |-> {"receiverAddress"}, borrowedAssets |-> {"assets"}, borrowedAmounts |-> {"amounts"},
     interestRatesModes |-> {"interestRateModes"}, suppliedPositions |-> {"params"},
     borrowedPositions |-> {"params"}, permits |-> {"params"},
     supplyAssets |-> {"assetsToMigrate"}, repayAssets |-> {"positionsToRepay"},
     signedSupplyPermits |-> {"permits"},
     signedCreditDelegationPermits |-> {"creditDelegationPermits"},
     token |-> {"contract"}, debtTokenAddress |-> {"contract"}, governanceToken |-> {"contract"},
     incentivesControllerAddress |-> {"contract"}, strategy |-> {"contract"},
     proposalId |-> {"id"}, block |-> {"blockNumber"}, tokenAddress |-> {"base"},
     lendingPoolAddressProvider |-> {"provider"}]
PartMeans ==
    [v |-> {"permitV", "v"}, r |-> {"permitR", "r"}, s |-> {"permitS", "s"}, nonce |-> {"nonce"},
     offset |-> {"swapAllBalanceOffset", "buyAllBalanceOffset", "params"}]
    @@ ("mint amount" :> {"amount", "_amount"})
Belongs(p) == {p} \cup (IF p \in DOMAIN Means THEN Means[p] ELSE {})
BelongsIn(v) == IF FormOf(v) \in DOMAIN PartMeans THEN PartMeans[FormOf(v)] ELSE Belongs(v[1])

\* What the transaction says to the contract: the values and their places.
Zero == Constant("0")
Said ==
    (UNION {{<<tx.takes[i], v>> : v \in Range_(tx.args[i])} : i \in DOMAIN tx.args})
        \cup (IF tx.kind = "view" THEN {} ELSE {<<"from", tx.from>>})
        \cup (IF tx.value = Zero THEN {} ELSE {<<"value", tx.value>>})
        \cup (IF tx.to[1] = "constant" THEN {} ELSE {<<"contract", tx.to>>})
Asked == {said \in Said : said[2][1] # "constant"}
Defaults == Said \ Asked

\* What the request says of itself.
Sent == outcome = "sent"
Has(p) == p \in DOMAIN request.given /\ request.given[p] # Absent
InNative == \E p \in DOMAIN request.given : IsNative(request.given[p])
Whole == {"liquidateAll", "swapAll", "repayAllDebt"}
AllAsked ==
    \/ \E p \in DOMAIN request.given : FormOf(request.given[p]) = "-1"
    \/ \E p \in Whole : Has(p)
    \/ request.method \in {"Incentives_claimRewards", "IncentivesV2_claimRewards"}

\* The amounts that clients give in tokens, and the token each is an amount of.
InTokens ==
    {"Pool_deposit", "Pool_supply", "Pool_supplyWithPermit", "Pool_withdraw", "Pool_borrow",
     "Pool_repay", "Pool_repayWithPermit", "Pool_repayWithLBTokens", "LendingPool_deposit",
     "LendingPool_withdraw", "LendingPool_borrow", "LendingPool_repay", "WBNBGateway_depositBNB",
     "WBNBGateway_borrowBNB", "WBNBGateway_withdrawBNB", "WBNBGateway_repayBNB",
     "Staking_stakeWithPermit", "Staking_stake", "Staking_redeem", "Staking_claimRewards"}
TokenOf(p) ==
    CASE p = "amount" -> IF request.method = "Staking_claimRewards" THEN "REWARD_TOKEN"
                         ELSE IF (~Has("reserve") /\ Has("lendingPool")) \/ InNative THEN "BNB"
                         ELSE IF Has("reserve") THEN "reserve" ELSE "STAKED_TOKEN"
      [] p = "fromAmount" -> "fromAsset"
      [] p = "minToAmount" -> "toAsset"
      [] p = "repayWithAmount" -> "fromAsset"
      [] p = "repayAmount" -> "assetToRepay"
      [] p = "purchaseAmount" -> "debtReserve"
      [] p = "debtTokenCover" -> "borrowedAsset"
TokenAmounts ==
    {"fromAmount", "minToAmount", "repayWithAmount", "repayAmount", "purchaseAmount",
     "debtTokenCover"} \cup (IF request.method \in InTokens THEN {"amount"} ELSE {})

-----------------------------------------------------------------------------
(* Properties. *)

\* The variables hold what their comments say.
TypeOK ==
    /\ outcome \in Outcomes
    /\ outcome # "idle" =>
        /\ {request.method, call.method} \subseteq DOMAIN Methods
        /\ DOMAIN request.given = Params(request.method)
        /\ DOMAIN call.given = Params(call.method)
        /\ setUp \subseteq Needed(request.method)
    /\ ~Sent => tx = None
    /\ Sent => DOMAIN tx.args = DOMAIN tx.takes

\* Every value of a request arrives at the contract in a place that is meant for
\* it, whichever services the request went through and in whatever order their
\* parameters are listed: amounts in least units of their own token and no other,
\* a user in the place of a beneficiary only if no beneficiary was named, the
\* whole of a balance or a surplus only if all of it was asked for, and the
\* native asset along with a call that takes it (the arguments of
\* populateTransaction and encodeFunctionData in all services).
ArrivesAsAsked ==
    Sent =>
        /\ \A said \in Asked :
            LET place == said[1]
                v == said[2]
                p == v[1]
            IN /\ place \in BelongsIn(v)
               /\ (p = "user" /\ place \in {"onBehalfOf", "to"}) => (~Has(place) /\ ~Has("onBehalfOf"))
               /\ p \in TokenAmounts => v \in {<<p, "units", TokenOf(p)>>}
                                        \cup (IF AllAsked THEN {<<p, "units", TokenOf(p), "surplus">>}
                                              ELSE {})
               /\ place = "value" => tx.kind = "payable"
        /\ \A said \in Defaults :
            /\ said[2] = Constant("MaxUint256") => AllAsked
            /\ (said[1] \in DOMAIN request.given /\ said[2] # Constant("MaxUint256")) => ~Has(said[1])

\* Nothing that was asked for is lost on the way: if what is called has a place
\* for a parameter of the request, the parameter is there, or it was an amount
\* and all of it was asked for (the objects handed to the gateway, to L2Pool, to
\* the adapters and to the builders of transaction data).
NothingDropped ==
    Sent =>
        LET places == Range_(tx.takes) \cup (IF tx.kind = "view" THEN {} ELSE {"from"})
                          \cup (IF tx.to[1] = "constant" THEN {} ELSE {"contract"})
        IN \A p \in DOMAIN request.given :
            (Has(p) /\ Belongs(p) \cap places # {}) =>
                \/ \E said \in Asked : said[2][1] = p
                \/ AllAsked /\ p \in TokenAmounts

\* The checks recorded for a parameter by the method asked for and the one running.
Recorded(p) ==
    {check[1] : check \in {c \in Methods[request.method].checks \cup Methods[call.method].checks :
                              c[2] = p}}

\* Nothing that a decorator is to keep out reaches a contract, and nothing is sent
\* to an address a service was made without: no checked address that is none, no
\* deadline that is too long, no amount that is nothing or negative, whichever
\* decorator runs the checks (methodValidators.ts, validations.ts).
InvalidNeverSent ==
    Sent =>
        /\ \A said \in Asked :
            LET recorded == Recorded(said[2][1])
            IN recorded # {} =>
                /\ FormOf(said[2]) \notin {"malformed", "too long", "name", "unknown name", "-1"}
                /\ FormOf(said[2]) = "0" => "is0OrPositiveAmount" \in recorded
        /\ (tx.to[1] = "constant" /\ tx.to[2] \in Needed(request.method)) => tx.to[2] \in setUp

\* A request is only turned away for a reason that its caller can see: an empty
\* answer means that an address is missing, an error that a parameter is not what
\* its decorator asks for, that a name is unknown, or one of the limits on the
\* native asset (the early returns and throws on the way of a request).
AtFault(p) ==
    LET form == FormOf(request.given[p])
        whole == <<"isPositiveOrMinusOneAmount", p>> \in Methods[request.method].checks
        zero == <<"is0OrPositiveAmount", p>> \in Methods[request.method].checks
    IN \/ form \in {"malformed", "too long", "unknown name"}
       \/ form = "-1" /\ ~whole
       \/ form = "0" /\ ~zero
NativeLimits ==
    /\ InNative \/ request.method = "WBNBGateway_borrowBNB"
    /\ \/ "lbTokenAddress" \in DOMAIN request.given /\ ~Has("lbTokenAddress")
       \/ "debtTokenAddress" \in DOMAIN request.given /\ ~Has("debtTokenAddress")
       \/ request.method = "Pool_repayWithLBTokens"
       \/ request.method \in {"Pool_repay", "LendingPool_repay"}
          /\ FormOf(request.given["amount"]) = "-1"
ServedOrExplained ==
    /\ outcome = "empty" => ~(Needed(request.method) \subseteq setUp)
    /\ outcome = "thrown" => \/ \E p \in DOMAIN request.given : AtFault(p)
                             \/ NativeLimits
                             \/ ~(Needed(request.method) \subseteq setUp)

\* Who a request is made on behalf of is the one it acts for: the documented
\* parameter of supply, repay, borrow and withdraw (README of contract-helpers).
OnBehalfOfHonoured ==
    (Sent /\ Has("onBehalfOf")) => \E said \in Asked : said[2][1] = "onBehalfOf"
=============================================================================
