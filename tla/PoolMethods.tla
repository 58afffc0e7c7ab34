---------------------------- MODULE PoolMethods ----------------------------
(***************************************************************************)
(* The methods of Pool (v3), of LendingPool (v2) and of their bundles.     *)
(***************************************************************************)
EXTENDS Methods

ReserveChecks == isBnbAddress({"user", "reserve"})
Behalf == OrElse("onBehalfOf", "user")
Referral == OrConstant("referralCode", "0")
Optimized == {If("useOptimizedPath")}

-----------------------------------------------------------------------------
\* Pool.
InPool(fn, args, from) == Sends(Fixed("POOL"), fn, args, from)
PaysPool(fn, args, from, asset, amount) ==
    Pays(Fixed("POOL"), fn, args, from, TxValue(asset, amount))

DepositNative(pool) ==
    HandsOver({Native("reserve")}, "WBNBGateway_depositBNB",
              Pass({"user", "amount", "onBehalfOf", "referralCode"})
                  ++ [lendingPool |-> Fixed(pool)])
WithdrawNative(pool) ==
    <<Refuses({Native("reserve"), Without("lbTokenAddress")}),
      HandsOver({Native("reserve")}, "WBNBGateway_withdrawBNB",
                Pass({"user", "amount", "onBehalfOf", "lbTokenAddress"})
                    ++ [lendingPool |-> Fixed(pool)])>>
BorrowNative(pool) ==
    <<Refuses({Native("reserve"), Without("debtTokenAddress")}),
      HandsOver({Native("reserve")}, "WBNBGateway_borrowBNB",
                Pass({"user", "amount", "debtTokenAddress", "interestRateMode", "referralCode"})
                    ++ [lendingPool |-> Fixed(pool)])>>
RepayNative(pool) ==
    HandsOver({Native("reserve")}, "WBNBGateway_repayBNB",
              Pass({"user", "amount", "interestRateMode", "onBehalfOf"})
                  ++ [lendingPool |-> Fixed(pool)])

WhollyInUnits == [amount |-> UnitsOrAll("amount", "reserve")]
InUnits == [amount |-> Units("amount", "reserve")]
Numeric(mode) == [numericRateMode |-> VariableMode(mode)]
SignatureParts == [permitV |-> Part("signature", "v"), permitR |-> Part("signature", "r"),
                   permitS |-> Part("signature", "s")]
SignatureArgs ==
    <<Given("deadline"), Part("signature", "v"), Part("signature", "r"), Part("signature", "s")>>

SupplyArgs == <<Given("reserve"), Units("amount", "reserve"), Behalf, Referral>>
Pool_deposit ==
    Method(LPValidatorV3, {"user", "reserve", "amount"}, {"onBehalfOf", "referralCode"},
           ReserveChecks \cup isPositiveAmount({"amount"}) \cup isBnbAddress({"onBehalfOf"}),
           <<DepositNative("POOL")>>,
           PaysPool(IPool_deposit, SupplyArgs, User, "reserve", Units("amount", "reserve")))
Pool_supply ==
    Method(LPValidatorV3, {"user", "reserve", "amount"},
           {"onBehalfOf", "referralCode", "useOptimizedPath"},
           ReserveChecks \cup isPositiveAmount({"amount"}) \cup isBnbAddress({"onBehalfOf"}),
           <<DepositNative("POOL"),
             HandsOver(Optimized, "L2Pool_supply",
                       Pass({"user", "reserve", "referralCode"}) ++ InUnits)>>,
           PaysPool(IPool_supply, SupplyArgs, User, "reserve", Units("amount", "reserve")))
Pool_supplyWithPermit ==
    Method(LPValidatorV3, {"user", "reserve", "amount", "signature", "deadline"},
           {"onBehalfOf", "referralCode", "useOptimizedPath"},
           ReserveChecks \cup isBnbAddress({"onBehalfOf"})
               \cup isPositiveAmount({"amount", "referralCode"}),
           <<HandsOver(Optimized, "L2Pool_supplyWithPermit",
                       Pass({"user", "reserve", "referralCode", "deadline"}) ++ InUnits
                           ++ SignatureParts)>>,
           InPool(IPool_supplyWithPermit, SupplyArgs \o SignatureArgs, User))
Pool_withdraw ==
    Method(LPValidatorV3, {"user", "reserve", "amount"},
           {"onBehalfOf", "lbTokenAddress", "useOptimizedPath"},
           ReserveChecks \cup isPositiveOrMinusOneAmount({"amount"})
               \cup isBnbAddress({"onBehalfOf", "lbTokenAddress"}),
           WithdrawNative("POOL")
               \o <<HandsOver(Optimized, "L2Pool_withdraw",
                              Pass({"user", "reserve"}) ++ WhollyInUnits)>>,
           InPool(IPool_withdraw,
                  <<Given("reserve"), UnitsOrAll("amount", "reserve"), Behalf>>, User))
BorrowChecks ==
    ReserveChecks \cup isPositiveAmount({"amount"})
        \cup isBnbAddress({"debtTokenAddress", "onBehalfOf"})
\* Pool_borrow, mutated: the referral code and the borrower change places.
Bug_Pool_borrow ==
    Method(LPValidatorV3, {"user", "reserve", "amount", "interestRateMode"},
           {"debtTokenAddress", "onBehalfOf", "referralCode", "useOptimizedPath"}, BorrowChecks,
           BorrowNative("POOL"),
           InPool(IPool_borrow,
                  <<Given("reserve"), Units("amount", "reserve"),
                    VariableMode("interestRateMode"), Behalf, Referral>>, User))
Pool_borrow ==
    Method(LPValidatorV3, {"user", "reserve", "amount", "interestRateMode"},
           {"debtTokenAddress", "onBehalfOf", "referralCode", "useOptimizedPath"}, BorrowChecks,
           BorrowNative("POOL")
               \o <<HandsOver(Optimized, "L2Pool_borrow",
                              Pass({"user", "reserve", "referralCode"}) ++ InUnits
                                  ++ Numeric("interestRateMode"))>>,
           InPool(IPool_borrow,
                  <<Given("reserve"), Units("amount", "reserve"),
                    VariableMode("interestRateMode"), Referral, Behalf>>, User))
PoolRepayArgs(mode) ==
    <<Given("reserve"), UnitsOrAll("amount", "reserve"), VariableMode(mode)>>
RepayChecks ==
    ReserveChecks \cup isPositiveOrMinusOneAmount({"amount"}) \cup isBnbAddress({"onBehalfOf"})
Pool_repay ==
    Method(LPValidatorV3, {"user", "reserve", "amount", "interestRateMode"},
           {"onBehalfOf", "useOptimizedPath"}, RepayChecks,
           <<RepayNative("POOL"),
             HandsOver(Optimized, "L2Pool_repay", Pass({"user", "reserve"}) ++ WhollyInUnits
                                                      ++ Numeric("interestRateMode"))>>,
           PaysPool(IPool_repay, Append(PoolRepayArgs("interestRateMode"), Behalf), User,
                    "reserve", UnitsOrAll("amount", "reserve")))
Pool_repayWithPermit ==
    Method(LPValidatorV3,
           {"user", "reserve", "amount", "interestRateMode", "signature", "deadline"},
           {"onBehalfOf", "useOptimizedPath"}, RepayChecks,
           <<HandsOver(Optimized, "L2Pool_repayWithPermit",
                       Pass({"user", "reserve", "deadline"}) ++ WhollyInUnits
                           ++ Numeric("interestRateMode") ++ SignatureParts)>>,
           PaysPool(IPool_repayWithPermit,
                    Append(PoolRepayArgs("interestRateMode"), Behalf) \o SignatureArgs, User,
                    "reserve", UnitsOrAll("amount", "reserve")))
Pool_repayWithLBTokens ==
    Method(LPValidatorV3, {"user", "reserve", "amount", "rateMode"}, {"useOptimizedPath"},
           ReserveChecks \cup isPositiveOrMinusOneAmount({"amount"}),
           <<Refuses({Native("reserve")}),
             HandsOver(Optimized, "L2Pool_repayWithLBTokens",
                       Pass({"user", "reserve"}) ++ WhollyInUnits ++ Numeric("rateMode"))>>,
           PaysPool(IPool_repayWithLBTokens, PoolRepayArgs("rateMode"), User, "reserve",
                    UnitsOrAll("amount", "reserve")))
Pool_swapBorrowRateMode ==
    Method(LPValidatorV3, {"user", "reserve", "interestRateMode"}, {"useOptimizedPath"},
           ReserveChecks,
           <<HandsOver(Optimized, "L2Pool_swapBorrowRateMode",
                       Pass({"user", "reserve"}) ++ Numeric("interestRateMode"))>>,
           InPool(IPool_swapBorrowRateMode,
                  <<Given("reserve"), VariableMode("interestRateMode")>>, User))
Pool_setUsageAsCollateral ==
    Method(LPValidatorV3, {"user", "reserve", "usageAsCollateral"}, {"useOptimizedPath"},
           ReserveChecks,
           <<HandsOver(Optimized, "L2Pool_setUserUseReserveAsCollateral",
                       Pass({"user", "reserve", "usageAsCollateral"}))>>,
           InPool(IPool_setUserUseReserveAsCollateral,
                  <<Given("reserve"), Given("usageAsCollateral")>>, User))
Pool_setUserEMode ==
    Method(LPValidatorV3, {"user", "categoryId"}, {},
           isBnbAddress({"user"}) \cup is0OrPositiveAmount({"categoryId"}), <<>>,
           InPool(IPool_setUserEMode, <<Given("categoryId")>>, User))

LiquidationChecks ==
    isBnbAddress({"liquidator", "liquidatedUser", "debtReserve", "collateralReserve"})
        \cup isPositiveAmount({"purchaseAmount"})
DebtToCover ==
    Either("liquidateAll", Fixed("MaxUint256"), Units("purchaseAmount", "debtReserve"))
LiquidationArgs ==
    <<Given("collateralReserve"), Given("debtReserve"), Given("liquidatedUser"), DebtToCover,
      OrConstant("getLBToken", "false")>>
Pool_liquidationCall ==
    Method(LPValidatorV3,
           {"liquidator", "liquidatedUser", "debtReserve", "collateralReserve",
            "purchaseAmount"}, {"getLBToken", "liquidateAll", "useOptimizedPath"},
           LiquidationChecks,
           <<HandsOver(Optimized, "L2Pool_liquidationCall",
                       Pass({"liquidator", "liquidatedUser", "debtReserve",
                             "collateralReserve", "getLBToken"})
                           ++ [debtToCover |-> DebtToCover])>>,
           PaysPool(IPool_liquidationCall, LiquidationArgs, Given("liquidator"), "debtReserve",
                    DebtToCover))

\* What buildParaSwapLiquiditySwapParams packs for a flash loan, and what
\* swapAndDeposit is handed when there is none.
PermitParams == OrConstant("permitSignature", "no permit")
SwapChecks ==
    isBnbAddress({"user", "fromAsset", "fromLBToken", "toAsset", "augustus"})
        \cup isPositiveAmount({"fromAmount", "minToAmount"})
SwapRequired == {"user", "fromAsset", "fromLBToken", "toAsset", "fromAmount", "minToAmount",
                 "augustus", "swapCallData"}
buildParaSwapLiquiditySwapParams ==
    Packed(<<Given("toAsset"), Units("minToAmount", "toAsset"),
             Either("swapAll", Part("swapCallData", "offset"), Fixed("0")),
             Given("swapCallData"), Given("augustus"), PermitParams>>)
SwapDirectly ==
    HandsOver({Without("flash")}, "LiquiditySwapAdapter_swapAndDeposit",
              Pass({"user", "swapAll", "swapCallData", "augustus"})
                  ++ [assetToSwapFrom |-> Given("fromAsset"), assetToSwapTo |-> Given("toAsset"),
                      amountToSwap |-> Units("fromAmount", "fromAsset"),
                      minAmountToReceive |-> Units("minToAmount", "toAsset"),
                      permitParams |-> PermitParams])
SwapAmount ==
    Either("swapAll", Surplus("fromAmount", "fromAsset"), Units("fromAmount", "fromAsset"))
Pool_swapCollateral ==
    Method(LPSwapCollateralValidatorV3, SwapRequired,
           {"flash", "swapAll", "permitSignature", "referralCode"}, SwapChecks, <<SwapDirectly>>,
           InPool(IPool_flashLoanSimple,
                  <<Fixed("SWAP_COLLATERAL_ADAPTER"), Given("fromAsset"), SwapAmount,
                    buildParaSwapLiquiditySwapParams, Referral>>, User))

ParaswapChecks ==
    isBnbAddress({"user", "fromAsset", "fromLBToken", "assetToRepay", "augustus"})
        \cup isPositiveAmount({"repayWithAmount", "repayAmount"})
ParaswapRequired == {"user", "fromAsset", "fromLBToken", "assetToRepay", "repayWithAmount",
                     "repayAmount", "rateMode", "swapAndRepayCallData", "augustus"}
ParaswapParams ==
    Packed(<<Given("assetToRepay"), Units("repayAmount", "assetToRepay"),
             Either("repayAllDebt", Part("swapAndRepayCallData", "offset"), Fixed("0")),
             StableMode("rateMode"), Given("swapAndRepayCallData"), Given("augustus"),
             PermitParams>>)
RepayDirectly ==
    HandsOver({Without("flash")}, "ParaswapRepay_swapAndRepay",
              Pass({"user", "swapAndRepayCallData", "augustus"})
                  ++ [collateralAsset |-> Given("fromAsset"), debtAsset |-> Given("assetToRepay"),
                      collateralAmount |-> Units("repayWithAmount", "fromAsset"),
                      debtRepayAmount |-> Units("repayAmount", "assetToRepay"),
                      debtRateMode |-> Given("rateMode"), permitParams |-> PermitParams,
                      repayAll |-> OrConstant("repayAllDebt", "false")])
RepayWithAmount == Either("repayAllDebt", Surplus("repayWithAmount", "fromAsset"),
                          Units("repayWithAmount", "fromAsset"))
Pool_paraswapRepayWithCollateral ==
    Method(LPRepayWithCollateralValidatorV3, ParaswapRequired,
           {"flash", "repayAllDebt", "permitSignature", "referralCode"}, ParaswapChecks,
           <<RepayDirectly>>,
           InPool(IPool_flashLoanSimple,
                  <<RepayAdapter, Given("fromAsset"), RepayWithAmount, ParaswapParams,
                    Referral>>, User))

FlashLiquidationChecks ==
    isBnbAddress({"user", "collateralAsset", "borrowedAsset", "initiator"})
        \cup isPositiveAmount({"debtTokenCover"})
FlashLiquidationRequired ==
    {"user", "collateralAsset", "borrowedAsset", "debtTokenCover", "initiator"}
FlashLiquidationParams ==
    Packed(<<Given("collateralAsset"), Given("borrowedAsset"), User,
             Either("liquidateAll", Fixed("MaxUint256"),
                    Units("debtTokenCover", "borrowedAsset")),
             OrConstant("useEthPath", "false")>>)
FlashBorrowAmount == Either("liquidateAll", Surplus("debtTokenCover", "borrowedAsset"),
                            Units("debtTokenCover", "borrowedAsset"))
Pool_flashLiquidation ==
    Method(LPFlashLiquidationValidatorV3, FlashLiquidationRequired,
           {"liquidateAll", "useEthPath"}, FlashLiquidationChecks, <<>>,
           InPool(IPool_flashLoanSimple,
                  <<Fixed("FLASH_LIQUIDATION_ADAPTER"), Given("borrowedAsset"),
                    FlashBorrowAmount, FlashLiquidationParams, Fixed("0")>>,
                  Given("initiator")))
Pool_migrateV3 ==
    Method(LPValidatorV3, {"migrator", "borrowedAssets", "borrowedAmounts", "interestRatesModes",
                           "user", "suppliedPositions", "borrowedPositions", "permits"}, {},
           isBnbAddress({"migrator", "user"}) \cup isBnbAddressArray({"borrowedAssets"}), <<>>,
           InPool(IPool_flashLoan,
                  <<Given("migrator"), Given("borrowedAssets"), Given("borrowedAmounts"),
                    Given("interestRatesModes"), User,
                    Packed(<<Given("suppliedPositions"), Given("borrowedPositions"),
                             Given("permits")>>), Fixed("0")>>, Fixed("anyone")))

-----------------------------------------------------------------------------
\* LendingPool.
InLendingPool(fn, args, from) == Sends(Fixed("LENDING_POOL"), fn, args, from)
PaysLendingPool(fn, args, from, asset, amount) ==
    Pays(Fixed("LENDING_POOL"), fn, args, from, TxValue(asset, amount))

LendingPool_deposit ==
    Method(LPValidator, {"user", "reserve", "amount"}, {"onBehalfOf", "referralCode"},
           ReserveChecks \cup isPositiveAmount({"amount"}) \cup isBnbAddress({"onBehalfOf"}),
           <<DepositNative("LENDING_POOL")>>,
           PaysLendingPool(ILendingPool_deposit, SupplyArgs, User, "reserve",
                           Units("amount", "reserve")))
LendingPool_withdraw ==
    Method(LPValidator, {"user", "reserve", "amount"}, {"onBehalfOf", "lbTokenAddress"},
           ReserveChecks \cup isPositiveOrMinusOneAmount({"amount"})
               \cup isBnbAddress({"onBehalfOf", "lbTokenAddress"}),
           WithdrawNative("LENDING_POOL"),
           InLendingPool(ILendingPool_withdraw,
                         <<Given("reserve"), UnitsOrAll("amount", "reserve"), Behalf>>, User))
LendingPool_borrow ==
    Method(LPValidator, {"user", "reserve", "amount", "interestRateMode"},
           {"debtTokenAddress", "onBehalfOf", "referralCode"}, BorrowChecks,
           BorrowNative("LENDING_POOL"),
           InLendingPool(ILendingPool_borrow,
                         <<Given("reserve"), Units("amount", "reserve"),
                           VariableMode("interestRateMode"), Referral, Behalf>>, User))
LendingPool_repay ==
    Method(LPValidator, {"user", "reserve", "amount", "interestRateMode"}, {"onBehalfOf"},
           RepayChecks, <<RepayNative("LENDING_POOL")>>,
           PaysLendingPool(ILendingPool_repay,
                           Append(PoolRepayArgs("interestRateMode"), Behalf), User, "reserve",
                           UnitsOrAll("amount", "reserve")))
LendingPool_swapBorrowRateMode ==
    Method(LPValidator, {"user", "reserve", "interestRateMode"}, {}, ReserveChecks, <<>>,
           InLendingPool(ILendingPool_swapBorrowRateMode,
                         <<Given("reserve"), VariableMode("interestRateMode")>>, User))
LendingPool_setUsageAsCollateral ==
    Method(LPValidator, {"user", "reserve", "usageAsCollateral"}, {}, ReserveChecks, <<>>,
           InLendingPool(ILendingPool_setUserUseReserveAsCollateral,
                         <<Given("reserve"), Given("usageAsCollateral")>>, User))
LendingPool_liquidationCall ==
    Method(LPValidator,
           {"liquidator", "liquidatedUser", "debtReserve", "collateralReserve",
            "purchaseAmount"}, {"getLBToken", "liquidateAll"}, LiquidationChecks, <<>>,
           PaysLendingPool(ILendingPool_liquidationCall, LiquidationArgs, Given("liquidator"),
                           "debtReserve", DebtToCover))

\* A flash loan of one asset that opens no debt.
FlashLoan(receiver, asset, amount, onBehalfOf, params, referralCode, from) ==
    InLendingPool(ILendingPool_flashLoan,
                  <<receiver, asset, amount, Fixed("0"), onBehalfOf, params, referralCode>>, from)
LendingPool_swapCollateral ==
    Method(LPSwapCollateralValidator, SwapRequired,
           {"flash", "swapAll", "permitSignature", "onBehalfOf", "referralCode"},
           SwapChecks \cup isBnbAddress({"onBehalfOf"}), <<SwapDirectly>>,
           FlashLoan(Fixed("SWAP_COLLATERAL_ADAPTER"), Given("fromAsset"), SwapAmount, Behalf,
                     buildParaSwapLiquiditySwapParams, Referral, User))
RepayAmount == Either("repayAllDebt", Surplus("repayAmount", "assetToRepay"),
                      Units("repayAmount", "assetToRepay"))
LendingPool_repayWithCollateral ==
    Method(LPRepayWithCollateralValidator,
           {"user", "fromAsset", "fromLBToken", "assetToRepay", "repayWithAmount",
            "repayAmount", "rateMode"},
           {"flash", "repayAllDebt", "permitSignature", "onBehalfOf", "referralCode",
            "useEthPath"},
           isBnbAddress({"user", "fromAsset", "fromLBToken", "assetToRepay", "onBehalfOf"})
               \cup isPositiveAmount({"repayWithAmount", "repayAmount"}),
           <<HandsOver({Without("flash")}, "RepayWithCollateralAdapter_swapAndRepay",
                       Pass({"user", "useEthPath"})
                           ++ [collateralAsset |-> Given("fromAsset"),
                               debtAsset |-> Given("assetToRepay"),
                               collateralAmount |-> Units("repayWithAmount", "fromAsset"),
                               debtRepayAmount |-> RepayAmount,
                               debtRateMode |-> Given("rateMode"), permit |-> PermitParams])>>,
           FlashLoan(RepayAdapter, Given("assetToRepay"), RepayAmount, Behalf,
                     Packed(<<Given("fromAsset"), Units("repayWithAmount", "fromAsset"),
                              StableMode("rateMode"), PermitParams,
                              OrConstant("useEthPath", "false")>>), Referral, User))
LendingPool_paraswapRepayWithCollateral ==
    Method(LPRepayWithCollateralValidator, ParaswapRequired,
           {"flash", "repayAllDebt", "permitSignature", "onBehalfOf", "referralCode"},
           ParaswapChecks \cup isBnbAddress({"onBehalfOf"}), <<RepayDirectly>>,
           FlashLoan(RepayAdapter, Given("fromAsset"), RepayWithAmount, Behalf, ParaswapParams,
                     Referral, User))
LendingPool_flashLiquidation ==
    Method(LPFlashLiquidationValidator, FlashLiquidationRequired,
           {"liquidateAll", "useEthPath"}, FlashLiquidationChecks, <<>>,
           FlashLoan(Fixed("FLASH_LIQUIDATION_ADAPTER"), Given("borrowedAsset"),
                     FlashBorrowAmount, Given("initiator"), FlashLiquidationParams, Fixed("0"),
                     Given("initiator")))

-----------------------------------------------------------------------------
\* The bundles: the same transactions as data, amounts in least units.
Allowance(spender) ==
    <<HandsOver({Native("token")}, "ERC20_approvedAmount",
                Pass({"user", "token"}) ++ [spender |-> Fixed("WBNB_GATEWAY")]),
      HandsOver({}, "ERC20_approvedAmount",
                Pass({"user", "token"}) ++ [spender |-> Fixed(spender)])>>
Nothing == Asks(Fixed("nobody"), View("nothing", <<>>), <<>>)
GenerateDepositNative(pool) ==
    HandsOver({Native("reserve")}, "WBNBGateway_generateDepositEthTxData",
              Pass({"user", "amount"})
                  ++ [lendingPool |-> Fixed(pool), onBehalfOf |-> Behalf,
                      referralCode |-> Referral])
GenerateBorrowNative(pool) ==
    <<Refuses({Native("reserve"), Without("debtTokenAddress")}),
      HandsOver({Native("reserve")}, "WBNBGateway_generateBorrowEthTxData",
                Pass({"user", "amount", "interestRateMode"})
                    ++ [lendingPool |-> Fixed(pool), referralCode |-> Referral])>>
Encoded == Optimized \cup {If("encodedTxData")}
RawSupplyArgs == <<Given("reserve"), Given("amount"), Behalf, Referral>>
RawBorrowArgs ==
    <<Given("reserve"), Given("amount"), VariableMode("interestRateMode"), Referral, Behalf>>

PoolBundle_getApprovedAmount ==
    Method(Unchecked, {"user", "token"}, {}, {}, Allowance("POOL"), Nothing)
PoolBundle_supply_generateTxData ==
    Method(Unchecked, {"user", "reserve", "amount"},
           {"onBehalfOf", "referralCode", "useOptimizedPath", "encodedTxData"}, {},
           <<GenerateDepositNative("POOL"),
             HandsOver(Encoded, "L2Pool_generateEncodedSupplyTxData",
                       Pass({"user", "encodedTxData"})),
             HandsOver(Optimized, "L2Pool_generateSupplyTxData",
                       Pass({"user", "reserve", "amount"})
                           ++ [onBehalfOf |-> Behalf, referralCode |-> Referral])>>,
           InPool(IPool_supply, RawSupplyArgs, User))
PoolBundle_supply_generateSignedTxData ==
    Method(Unchecked, {"user", "reserve", "amount", "signature", "deadline"},
           {"onBehalfOf", "referralCode", "useOptimizedPath", "encodedTxData"}, {},
           <<HandsOver(Encoded, "L2Pool_generateEncodedSupplyWithPermitTxData",
                       Pass({"user", "encodedTxData", "signature"})),
             HandsOver(Optimized, "L2Pool_generateSupplyWithPermitTxData",
                       Pass({"user", "reserve", "amount", "deadline"}) ++ SignatureParts
                           ++ [onBehalfOf |-> Behalf, referralCode |-> Referral])>>,
           InPool(IPool_supplyWithPermit, RawSupplyArgs \o SignatureArgs, User))
PoolBundle_borrow_generateTxData ==
    Method(Unchecked, {"user", "reserve", "amount", "interestRateMode"},
           {"debtTokenAddress", "onBehalfOf", "referralCode", "useOptimizedPath",
            "encodedTxData"}, {},
           GenerateBorrowNative("POOL")
               \o <<HandsOver(Encoded, "L2Pool_generateEncodedBorrowTxData",
                              Pass({"user", "encodedTxData"})),
                    HandsOver(Optimized, "L2Pool_generateBorrowTxData",
                              Pass({"user", "reserve", "amount"}) ++ Numeric("interestRateMode")
                                  ++ [onBehalfOf |-> Behalf, referralCode |-> Referral])>>,
           InPool(IPool_borrow, RawBorrowArgs, User))
LendingPoolBundle_getApprovedAmount ==
    Method(Unchecked, {"user", "token"}, {}, {}, Allowance("LENDING_POOL"), Nothing)
LendingPoolBundle_deposit_generateTxData ==
    Method(Unchecked, {"user", "reserve", "amount"}, {"onBehalfOf", "referralCode"}, {},
           <<HandsOver({Native("reserve")}, "WBNBGateway_generateDepositEthTxData",
                       Pass({"user", "amount", "onBehalfOf", "referralCode"})
                           ++ [lendingPool |-> Fixed("LENDING_POOL")])>>,
           InLendingPool(ILendingPool_deposit, RawSupplyArgs, User))
LendingPoolBundle_borrow_generateTxData ==
    Method(Unchecked, {"user", "reserve", "amount", "interestRateMode"},
           {"debtTokenAddress", "onBehalfOf", "referralCode"}, {},
           GenerateBorrowNative("LENDING_POOL"),
           InLendingPool(ILendingPool_borrow, RawBorrowArgs, User))
=============================================================================
