----------------------------- MODULE Operations -----------------------------
(***************************************************************************)
(* The transaction methods of the service classes (Pool, L2Pool,           *)
(* LendingPool, WBNBGatewayService, StakingService) as data.               *)
(*                                                                         *)
(* Every method has the same skeleton: validate, await some reads of the   *)
(* chain, push an ERC20_APPROVAL transaction if the allowance read on the  *)
(* way is too small, push the action, return the array.  What differs from *)
(* method to method is recorded here, one record per method, and TxFlow    *)
(* runs the skeleton over the record:                                      *)
(*   reads       the awaited reads, in source order                        *)
(*   wholeReads  the same when amount is '-1' (the whole balance or debt)  *)
(*   minusOne    the validators let '-1' through                           *)
(*   checks      <<token, spender>> given to isApproved or                 *)
(*               isDelegationApproved; NoPair if the method calls neither  *)
(*   approves    <<token, spender>> of the pushed approval                 *)
(*   draws       <<token, spender>> the contract pulls the tokens from     *)
(*               (the contracts are external: the spender is the contract  *)
(*               the action is sent to or names as receiver)               *)
(*   asksMore    the action asks the contract for more than the amount     *)
(*               whose allowance was checked                               *)
(*   gasSeesTxs  the gas() closure of the action is given the array that   *)
(*               holds the approval, and not a fresh []                    *)
(* A token's decimals are read once and then come from the cache of        *)
(* ERC20Service, so "decimals" stands once per token in reads.             *)
(***************************************************************************)
EXTENDS Integers, Sequences

ReadKinds == {"decimals", "stakedToken", "encode", "synthetix", "allowance"}

NoPair == <<"none", "none">>

Pairs == { <<"reserve", "pool">>, <<"lbToken", "swapAdapter">>,
           <<"lbToken", "repayAdapter">>, <<"lbToken", "gateway">>,
           <<"debtToken", "gateway">>, <<"stakedToken", "staking">> }

OpType == [reads       : Seq(ReadKinds),
           wholeReads  : Seq(ReadKinds),
           minusOne    : BOOLEAN,
           checks      : Pairs \cup {NoPair},
           approves    : Pairs \cup {NoPair},
           draws       : Pairs \cup {NoPair},
           asksMore    : BOOLEAN,
           gasSeesTxs  : BOOLEAN]

\* A method that needs no allowance: withdraw, borrow, switches, and the
\* methods that are handed a permit signature.
Plain(reads) ==
    [reads |-> reads, wholeReads |-> reads, minusOne |-> FALSE,
     checks |-> NoPair, approves |-> NoPair, draws |-> NoPair,
     asksMore |-> FALSE, gasSeesTxs |-> FALSE]

\* A method whose contract pulls token from the user through spender.
Pulling(reads, token, spender) ==
    [Plain(reads) EXCEPT !.checks = <<token, spender>>,
                         !.approves = <<token, spender>>,
                         !.draws = <<token, spender>>,
                         !.gasSeesTxs = TRUE]

\* op also takes '-1', and then awaits only reads.
OrWhole(op, reads) == [op EXCEPT !.minusOne = TRUE, !.wholeReads = reads]

\* The same call with useOptimizedPath: one more read, by the L2 encoder.
Optimized(op) == [op EXCEPT !.reads = Append(@, "encode"),
                            !.wholeReads = Append(@, "encode")]

-----------------------------------------------------------------------------
\* Pool (v3).  The methods of L2Pool are reached through it only.

Pool_deposit == Pulling(<<"decimals", "synthetix", "allowance">>, "reserve", "pool")

Pool_supply == Pulling(<<"decimals", "synthetix", "allowance">>, "reserve", "pool")

Pool_supplyWithPermit == Plain(<<"decimals", "synthetix">>)

Pool_withdraw == OrWhole(Plain(<<"decimals">>), <<"decimals">>)

Pool_borrow == Plain(<<"decimals">>)

\* Pool_repay, mutated: repaying all ('-1') skips the allowance.
Bug_Pool_repayAllUnchecked ==
    OrWhole(Pulling(<<"decimals", "synthetix", "allowance">>, "reserve", "pool"),
            <<"decimals">>)

Pool_repay ==
    OrWhole(Pulling(<<"decimals", "synthetix", "allowance">>, "reserve", "pool"),
            <<"decimals", "allowance">>)

Pool_repayWithPermit == OrWhole(Plain(<<"decimals", "synthetix">>), <<"decimals">>)

Pool_swapBorrowRateMode == Plain(<< >>)

Pool_setUsageAsCollateral == Plain(<< >>)

\* liquidateAll replaces purchaseAmount by MaxUint256 in the action, after the
\* allowance was checked for purchaseAmount.
Pool_liquidationCall(liquidateAll) ==
    [Pulling(<<"decimals", "allowance">>, "reserve", "pool") EXCEPT !.asksMore = liquidateAll]

\* flash with swapAll borrows fromAmount plus SURPLUS.
Pool_swapCollateral(flash, swapAll) ==
    [Pulling(<<"decimals", "allowance", "decimals", "decimals">>, "lbToken", "swapAdapter")
        EXCEPT !.asksMore = flash /\ swapAll]

\* flash with repayAllDebt borrows repayWithAmount plus SURPLUS.
Pool_paraswapRepayWithCollateral(flash, repayAllDebt) ==
    [Pulling(<<"decimals", "allowance", "decimals", "decimals">>, "lbToken", "repayAdapter")
        EXCEPT !.asksMore = flash /\ repayAllDebt]

Pool_flashLiquidation == Plain(<<"decimals">>)

Pool_repayWithLBTokens == OrWhole(Plain(<<"decimals">>), <<"decimals">>)

Pool_setUserEMode == Plain(<< >>)

L2Pool_supply == Optimized(Pool_supply)

L2Pool_supplyWithPermit == Optimized(Pool_supplyWithPermit)

L2Pool_withdraw == Optimized(Pool_withdraw)

L2Pool_borrow == Optimized(Pool_borrow)

L2Pool_repay == Optimized(Pool_repay)

L2Pool_repayWithPermit == Optimized(Pool_repayWithPermit)

L2Pool_repayWithLBTokens == Optimized(Pool_repayWithLBTokens)

L2Pool_swapBorrowRateMode == Optimized(Pool_swapBorrowRateMode)

L2Pool_setUserUseReserveAsCollateral == Optimized(Pool_setUsageAsCollateral)

\* The only optimized method whose gas() is given [] and not txs.
L2Pool_liquidationCall(liquidateAll) ==
    [Optimized(Pool_liquidationCall(liquidateAll)) EXCEPT !.gasSeesTxs = FALSE]

-----------------------------------------------------------------------------
\* LendingPool (v2)

LendingPool_deposit == Pulling(<<"decimals", "synthetix", "allowance">>, "reserve", "pool")

LendingPool_withdraw == OrWhole(Plain(<<"decimals">>), <<"decimals">>)

LendingPool_borrow == Plain(<<"decimals">>)

LendingPool_repay ==
    OrWhole(Pulling(<<"decimals", "synthetix", "allowance">>, "reserve", "pool"),
            <<"decimals", "allowance">>)

LendingPool_swapBorrowRateMode == Plain(<< >>)

LendingPool_setUsageAsCollateral == Plain(<< >>)

LendingPool_liquidationCall(liquidateAll) ==
    [Pulling(<<"decimals", "allowance">>, "reserve", "pool") EXCEPT !.asksMore = liquidateAll]

\* LendingPool_swapCollateral, mutated: gas() of the flash loan is handed [].
Bug_LendingPool_swapCollateralBlind(flash, swapAll) ==
    [Pulling(<<"decimals", "allowance", "decimals", "decimals">>, "lbToken", "swapAdapter")
        EXCEPT !.asksMore = flash /\ swapAll, !.gasSeesTxs = FALSE]

LendingPool_swapCollateral(flash, swapAll) ==
    [Pulling(<<"decimals", "allowance", "decimals", "decimals">>, "lbToken", "swapAdapter")
        EXCEPT !.asksMore = flash /\ swapAll]

\* SURPLUS is added to the debt repaid here, never to the collateral pulled.
LendingPool_repayWithCollateral ==
    Pulling(<<"decimals", "allowance", "decimals", "decimals">>, "lbToken", "repayAdapter")

\* LendingPool_paraswapRepayWithCollateral, mutated: the approval names the
\* other adapter.
Bug_LendingPool_paraswapRepayMisapproved(flash, repayAllDebt) ==
    [Pulling(<<"decimals", "allowance", "decimals", "decimals">>, "lbToken", "repayAdapter")
        EXCEPT !.asksMore = flash /\ repayAllDebt,
               !.approves = <<"lbToken", "swapAdapter">>]

LendingPool_paraswapRepayWithCollateral(flash, repayAllDebt) ==
    [Pulling(<<"decimals", "allowance", "decimals", "decimals">>, "lbToken", "repayAdapter")
        EXCEPT !.asksMore = flash /\ repayAllDebt]

LendingPool_flashLiquidation == Plain(<<"decimals">>)

-----------------------------------------------------------------------------
\* WBNBGatewayService (reached from Pool and LendingPool with the native
\* asset) and StakingService

WBNBGateway_depositBNB == Plain(<< >>)

\* The allowance is the credit delegation of the debt token.
WBNBGateway_borrowBNB == Pulling(<<"decimals", "allowance">>, "debtToken", "gateway")

\* WBNBGateway_withdrawBNB, mutated: the allowance checked is the pool's.
Bug_WBNBGateway_withdrawMischecked ==
    [OrWhole(Pulling(<<"decimals", "allowance">>, "lbToken", "gateway"),
             <<"decimals", "allowance">>) EXCEPT !.checks = <<"reserve", "pool">>]

WBNBGateway_withdrawBNB ==
    OrWhole(Pulling(<<"decimals", "allowance">>, "lbToken", "gateway"),
            <<"decimals", "allowance">>)

WBNBGateway_repayBNB == Plain(<< >>)

Staking_stakeWithPermit == Plain(<<"stakedToken", "decimals">>)

Staking_stake ==
    Pulling(<<"stakedToken", "decimals", "allowance">>, "stakedToken", "staking")

Staking_redeem == OrWhole(Plain(<<"stakedToken", "decimals">>), << >>)

Staking_cooldown == Plain(<< >>)

Staking_claimRewards == OrWhole(Plain(<<"stakedToken", "decimals">>), << >>)

-----------------------------------------------------------------------------
PoolOps ==
    { Pool_deposit, Pool_supply, Pool_supplyWithPermit, Pool_withdraw,
      Pool_borrow, Pool_repay, Pool_repayWithPermit, Pool_swapBorrowRateMode,
      Pool_setUsageAsCollateral, Pool_flashLiquidation, Pool_repayWithLBTokens,
      Pool_setUserEMode }
        \cup { Pool_liquidationCall(all) : all \in BOOLEAN }
        \cup { Pool_swapCollateral(f, all) : f, all \in BOOLEAN }
        \cup { Pool_paraswapRepayWithCollateral(f, all) : f, all \in BOOLEAN }

L2PoolOps ==
    { L2Pool_supply, L2Pool_supplyWithPermit, L2Pool_withdraw, L2Pool_borrow,
      L2Pool_repay, L2Pool_repayWithPermit, L2Pool_repayWithLBTokens,
      L2Pool_swapBorrowRateMode, L2Pool_setUserUseReserveAsCollateral }
        \cup { L2Pool_liquidationCall(all) : all \in BOOLEAN }

LendingPoolOps ==
    { LendingPool_deposit, LendingPool_withdraw, LendingPool_borrow,
      LendingPool_repay, LendingPool_swapBorrowRateMode,
      LendingPool_setUsageAsCollateral, LendingPool_repayWithCollateral,
      LendingPool_flashLiquidation }
        \cup { LendingPool_liquidationCall(all) : all \in BOOLEAN }
        \cup { LendingPool_swapCollateral(f, all) : f, all \in BOOLEAN }
        \cup { LendingPool_paraswapRepayWithCollateral(f, all) : f, all \in BOOLEAN }

GatewayOps == { WBNBGateway_depositBNB, WBNBGateway_borrowBNB,
                WBNBGateway_withdrawBNB, WBNBGateway_repayBNB }

StakingOps == { Staking_stakeWithPermit, Staking_stake, Staking_redeem,
                Staking_cooldown, Staking_claimRewards }

AllOps == PoolOps \cup L2PoolOps \cup LendingPoolOps \cup GatewayOps \cup StakingOps

\* The allowance is among the reads.
ReadsAllowance(reads) == \E i \in 1..Len(reads) : reads[i] = "allowance"

\* What makes an allowance check mean something: the pair checked is the pair
\* approved and the pair drawn from, the check is made whatever the amount is,
\* and the action asks for no more than was checked.
Covers(op) ==
    /\ ~op.asksMore
    /\ op.checks = op.draws /\ op.approves = op.draws
    /\ ReadsAllowance(op.reads) <=> op.draws # NoPair
    /\ ReadsAllowance(op.wholeReads) <=> op.draws # NoPair
=============================================================================
