------------------------------ MODULE Methods ------------------------------
(***************************************************************************)
(* What every service method does with its parameters: the decorators on   *)
(* it, the requests it refuses, answers by itself or hands over to another *)
(* service, and the contract function it calls otherwise, the arguments in *)
(* the order in which they are passed.  A method never reads a parameter   *)
(* that is not listed; a flag that is given is true.                       *)
(***************************************************************************)
EXTENDS Abi, Validation, TLC

Method(validator, required, optional, checks, routes, sends) ==
    [validator |-> validator, required |-> required, optional |-> optional,
     checks |-> checks, routes |-> routes, sends |-> sends]

\* When a request takes a route: the asset named is the native one, a flag is
\* given, a parameter is missing.
Native(p) == <<"native", p>>
If(flag) == <<"if", flag>>
Without(p) == <<"without", p>>

HandsOver(when, to, with) == [when |-> when, to |-> to, with |-> with]
Refuses(when) == HandsOver(when, "an error", <<>>)
Answers(when) == HandsOver(when, "an answer", <<>>)
Pass(ps) == [p \in ps |-> Given(p)]
f ++ g == [p \in DOMAIN f \cup DOMAIN g |-> IF p \in DOMAIN f THEN f[p] ELSE g[p]]

\* A transaction or a question to a contract: where to, what each value stands
\* for there, the values, the sender, the value paid along.
Pays(to, fn, args, from, value) ==
    [to |-> to, kind |-> fn.kind, takes |-> fn.takes, args |-> args, from |-> from,
     value |-> value]
Sends(to, fn, args, from) == Pays(to, fn, args, from, Fixed("0"))
Asks(to, fn, args) == Sends(to, fn, args, Fixed("anyone"))

\* The optimized path: the encoder packs its own arguments into one or two words,
\* which come first in fn, and what else fn takes follows them.
Words(encoder) == IF encoder.name = "encodeLiquidationCall" THEN 2 ELSE 1
Encodes(encoder, fn, args, from, value) ==
    [Pays(Fixed("POOL"), fn, args, from, value) EXCEPT !.takes =
        encoder.takes \o SubSeq(fn.takes, Words(encoder) + 1, Len(fn.takes))]

User == Given("user")

-----------------------------------------------------------------------------
\* L2Pool: the amounts come converted.

\* L2Pool_supply, mutated: the referral code is forgotten.
Bug_L2Pool_supply ==
    Method(L2PValidator, {"user", "reserve", "amount"}, {"referralCode"}, {}, <<>>,
           Encodes(L2Encoder_encodeSupplyParams, IL2Pool_supply,
                   <<Given("reserve"), Given("amount"), Fixed("0")>>, User, Fixed("0")))
L2Pool_supply ==
    Method(L2PValidator, {"user", "reserve", "amount"}, {"referralCode"}, {}, <<>>,
           Encodes(L2Encoder_encodeSupplyParams, IL2Pool_supply,
                   <<Given("reserve"), Given("amount"), OrConstant("referralCode", "0")>>,
                   User, TxValue("reserve", Given("amount"))))
Permit == {"deadline", "permitV", "permitR", "permitS"}
PermitArgs == <<Given("deadline"), Given("permitV"), Given("permitR"), Given("permitS")>>
L2Pool_supplyWithPermit ==
    Method(L2PValidator, {"user", "reserve", "amount"} \cup Permit, {"referralCode"},
           isDeadline32Bytes({"deadline"}), <<>>,
           Encodes(L2Encoder_encodeSupplyWithPermitParams, IL2Pool_supplyWithPermit,
                   <<Given("reserve"), Given("amount"), OrConstant("referralCode", "0")>>
                       \o PermitArgs \o <<Given("permitR"), Given("permitS")>>,
                   User, Fixed("0")))
L2Pool_withdraw ==
    Method(L2PValidator, {"user", "reserve", "amount"}, {}, {}, <<>>,
           Encodes(L2Encoder_encodeWithdrawParams, IL2Pool_withdraw,
                   <<Given("reserve"), Given("amount")>>, User, Fixed("0")))
L2Pool_borrow ==
    Method(L2PValidator, {"user", "reserve", "amount", "numericRateMode"}, {"referralCode"}, {},
           <<>>,
           Encodes(L2Encoder_encodeBorrowParams, IL2Pool_borrow,
                   <<Given("reserve"), Given("amount"), Given("numericRateMode"),
                     OrConstant("referralCode", "0")>>, User, Fixed("0")))
RepayArgs == <<Given("reserve"), Given("amount"), Given("numericRateMode")>>
L2Pool_repay ==
    Method(L2PValidator, {"user", "reserve", "amount", "numericRateMode"}, {}, {}, <<>>,
           Encodes(L2Encoder_encodeRepayParams, IL2Pool_repay, RepayArgs, User,
                   TxValue("reserve", Given("amount"))))
L2Pool_repayWithPermit ==
    Method(L2PValidator, {"user", "reserve", "amount", "numericRateMode"} \cup Permit, {},
           isDeadline32Bytes({"deadline"}), <<>>,
           Encodes(L2Encoder_encodeRepayWithPermitParams, IL2Pool_repayWithPermit,
                   RepayArgs \o PermitArgs \o <<Given("permitR"), Given("permitS")>>, User,
                   TxValue("reserve", Given("amount"))))
L2Pool_repayWithLBTokens ==
    Method(L2PValidator, {"user", "reserve", "amount", "numericRateMode"}, {}, {}, <<>>,
           Encodes(L2Encoder_encodeRepayWithLBTokensParams, IL2Pool_repayWithLBTokens,
                   RepayArgs, User, TxValue("reserve", Given("amount"))))
L2Pool_swapBorrowRateMode ==
    Method(L2PValidator, {"user", "reserve", "numericRateMode"}, {}, {}, <<>>,
           Encodes(L2Encoder_encodeSwapBorrowRateMode, IL2Pool_swapBorrowRateMode,
                   <<Given("reserve"), Given("numericRateMode")>>, User, Fixed("0")))
L2Pool_setUserUseReserveAsCollateral ==
    Method(L2PValidator, {"user", "reserve", "usageAsCollateral"}, {}, {}, <<>>,
           Encodes(L2Encoder_encodeSetUserUseReserveAsCollateral,
                   IL2Pool_setUserUseReserveAsCollateral,
                   <<Given("reserve"), Given("usageAsCollateral")>>, User, Fixed("0")))
L2Pool_liquidationCall ==
    Method(L2PValidator, {"liquidator", "liquidatedUser", "debtReserve", "collateralReserve",
                          "debtToCover"}, {"getLBToken"}, {}, <<>>,
           Encodes(L2Encoder_encodeLiquidationCall, IL2Pool_liquidationCall,
                   <<Given("collateralReserve"), Given("debtReserve"), Given("liquidatedUser"),
                     Given("debtToCover"), OrConstant("getLBToken", "false")>>,
                   Given("liquidator"), TxValue("debtReserve", Given("debtToCover"))))

\* Its builders of transaction data, which the bundle uses.
Builds(fn, args, from) == Sends(Fixed("POOL"), fn, args, from)
L2Pool_generateSupplyTxData ==
    Method(Unchecked, {"user", "reserve", "amount"}, {"onBehalfOf", "referralCode"}, {}, <<>>,
           Builds(IPool_supply, <<Given("reserve"), Given("amount"), OrElse("onBehalfOf", "user"),
                                  OrConstant("referralCode", "0")>>, User))
L2Pool_generateBorrowTxData ==
    Method(Unchecked, {"user", "reserve", "amount", "numericRateMode"},
           {"onBehalfOf", "referralCode"}, {}, <<>>,
           Builds(IPool_borrow, <<Given("reserve"), Given("amount"), Given("numericRateMode"),
                                  OrConstant("referralCode", "0"),
                                  OrElse("onBehalfOf", "user")>>, User))
L2Pool_generateSupplyWithPermitTxData ==
    Method(Unchecked, {"user", "reserve", "amount"} \cup Permit, {"onBehalfOf", "referralCode"},
           {}, <<>>,
           Builds(IPool_supplyWithPermit,
                  <<Given("reserve"), Given("amount"), OrElse("onBehalfOf", "user"),
                    OrConstant("referralCode", "0")>> \o PermitArgs, User))
L2Pool_generateEncodedSupplyTxData ==
    Method(Unchecked, {"user", "encodedTxData"}, {}, {}, <<>>,
           Builds(IL2Pool_supply, <<Given("encodedTxData")>>, User))
L2Pool_generateEncodedBorrowTxData ==
    Method(Unchecked, {"user", "encodedTxData"}, {}, {}, <<>>,
           Builds(IL2Pool_borrow, <<Given("encodedTxData")>>, User))
L2Pool_generateEncodedSupplyWithPermitTxData ==
    Method(Unchecked, {"user", "encodedTxData", "signature"}, {}, {}, <<>>,
           Builds(IL2Pool_supplyWithPermit,
                  <<Given("encodedTxData"), Part("signature", "r"), Part("signature", "s")>>,
                  User))

-----------------------------------------------------------------------------
\* The gateway: amounts of the native asset, which has 18 decimals.
Gateway == Fixed("WBNB_GATEWAY")
WBNBGateway_depositBNB ==
    Method(WBNBValidator, {"lendingPool", "user", "amount"}, {"onBehalfOf", "referralCode"},
           isBnbAddress({"lendingPool", "user", "onBehalfOf"}) \cup isPositiveAmount({"amount"})
               \cup is0OrPositiveAmount({"referralCode"}), <<>>,
           Pays(Gateway, IWBNBGateway_depositBNB,
                <<Given("lendingPool"), OrElse("onBehalfOf", "user"),
                  OrConstant("referralCode", "0")>>, User, Units("amount", "BNB")))
WBNBGateway_borrowBNB ==
    Method(WBNBValidator, {"lendingPool", "user", "amount", "interestRateMode"},
           {"debtTokenAddress", "referralCode"},
           isBnbAddress({"lendingPool", "user", "debtTokenAddress"})
               \cup isPositiveAmount({"amount"}) \cup is0OrPositiveAmount({"referralCode"}),
           <<Refuses({Without("debtTokenAddress")})>>,
           Sends(Gateway, IWBNBGateway_borrowBNB,
                 <<Given("lendingPool"), Units("amount", "BNB"),
                   VariableMode("interestRateMode"), OrConstant("referralCode", "0")>>, User))
WBNBGateway_withdrawBNB ==
    Method(WBNBValidator, {"lendingPool", "user", "amount", "lbTokenAddress"}, {"onBehalfOf"},
           isBnbAddress({"lendingPool", "user", "onBehalfOf", "lbTokenAddress"})
               \cup isPositiveOrMinusOneAmount({"amount"}), <<>>,
           Sends(Gateway, IWBNBGateway_withdrawBNB,
                 <<Given("lendingPool"), UnitsOrAll("amount", "BNB"),
                   OrElse("onBehalfOf", "user")>>, User))
WBNBGateway_repayBNB ==
    Method(WBNBValidator, {"lendingPool", "user", "amount", "interestRateMode"}, {"onBehalfOf"},
           isBnbAddress({"lendingPool", "user", "onBehalfOf"}) \cup isPositiveAmount({"amount"}),
           <<>>,
           Pays(Gateway, IWBNBGateway_repayBNB,
                <<Given("lendingPool"), Units("amount", "BNB"), VariableMode("interestRateMode"),
                  OrElse("onBehalfOf", "user")>>, User, Units("amount", "BNB")))
WBNBGateway_generateDepositEthTxData ==
    Method(Unchecked, {"lendingPool", "user", "amount"}, {"onBehalfOf", "referralCode"}, {}, <<>>,
           Pays(Gateway, IWBNBGateway_depositBNB,
                <<Given("lendingPool"), OrElse("onBehalfOf", "user"),
                  OrConstant("referralCode", "0")>>, User, Given("amount")))
WBNBGateway_generateBorrowEthTxData ==
    Method(Unchecked, {"lendingPool", "user", "amount", "interestRateMode"}, {"referralCode"},
           {}, <<>>,
           Sends(Gateway, IWBNBGateway_borrowBNB,
                 <<Given("lendingPool"), Given("amount"), VariableMode("interestRateMode"),
                   OrConstant("referralCode", "0")>>, User))

-----------------------------------------------------------------------------
\* The adapters: again converted amounts.
LiquiditySwapAdapter_swapAndDeposit ==
    Method(LiquiditySwapValidator,
           {"user", "assetToSwapFrom", "assetToSwapTo", "amountToSwap", "minAmountToReceive",
            "permitParams", "augustus", "swapCallData"}, {"swapAll"},
           isBnbAddress({"user", "assetToSwapFrom", "assetToSwapTo", "augustus"})
               \cup isPositiveAmount({"amountToSwap", "minAmountToReceive"}), <<>>,
           Sends(Fixed("SWAP_COLLATERAL_ADAPTER"), LiquiditySwap_swapAndDeposit,
                 <<Given("assetToSwapFrom"), Given("assetToSwapTo"), Given("amountToSwap"),
                   Given("minAmountToReceive"),
                   Either("swapAll", Part("swapCallData", "offset"), Fixed("0")),
                   Given("swapCallData"), Given("augustus"), Given("permitParams")>>, User))
RepayAdapter == Fixed("REPAY_WITH_COLLATERAL_ADAPTER")
ParaswapRepay_swapAndRepay ==
    Method(RepayWithCollateralValidator,
           {"user", "collateralAsset", "debtAsset", "collateralAmount", "debtRepayAmount",
            "debtRateMode", "permitParams", "swapAndRepayCallData", "augustus"}, {"repayAll"},
           isBnbAddress({"user", "collateralAsset", "debtAsset", "augustus"})
               \cup isPositiveAmount({"collateralAmount", "debtRepayAmount"}), <<>>,
           Sends(RepayAdapter, ParaSwapRepay_swapAndRepay,
                 <<Given("collateralAsset"), Given("debtAsset"), Given("collateralAmount"),
                   Given("debtRepayAmount"), StableMode("debtRateMode"),
                   Either("repayAll", Part("swapAndRepayCallData", "offset"), Fixed("0")),
                   Packed(<<Given("swapAndRepayCallData"), Given("augustus")>>),
                   Given("permitParams")>>, User))
RepayWithCollateralAdapter_swapAndRepay ==
    Method(RepayWithCollateralValidator,
           {"user", "collateralAsset", "debtAsset", "collateralAmount", "debtRepayAmount",
            "debtRateMode", "permit"}, {"useEthPath"},
           isBnbAddress({"user", "collateralAsset", "debtAsset"})
               \cup isPositiveAmount({"collateralAmount", "debtRepayAmount"}), <<>>,
           Sends(RepayAdapter, RepayWithCollateral_swapAndRepay,
                 <<Given("collateralAsset"), Given("debtAsset"), Given("collateralAmount"),
                   Given("debtRepayAmount"), StableMode("debtRateMode"), Given("permit"),
                   OrConstant("useEthPath", "false")>>, User))
=============================================================================
