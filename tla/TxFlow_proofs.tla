--------------------------- MODULE TxFlow_proofs ---------------------------
(***************************************************************************)
(* The methods as Operations records them are well formed, and each of     *)
(* them but those that ask for more than they checked covers what it asks  *)
(* for.  Then proofs about TxFlow, for every set of overlapping calls,     *)
(* every set of such methods and every bound.                              *)
(***************************************************************************)
EXTENDS TxFlow, Operations, TLAPS

(***************************************************************************)
(* The methods of Operations.                                              *)
(***************************************************************************)

Good(op) == op \in OpType /\ (op.asksMore \/ Covers(op))

\* Good, and consistent in what asksMore may hide.
Sound(op) == op \in OpType /\ Covers([op EXCEPT !.asksMore = FALSE])

\* A sound method is good.
LEMMA SoundIsGood ==
    ASSUME NEW op, Sound(op) PROVE Good(op)
<1> DEFINE o == [op EXCEPT !.asksMore = FALSE]
<1>1. /\ o.checks = op.checks /\ o.approves = op.approves /\ o.draws = op.draws
      /\ o.reads = op.reads /\ o.wholeReads = op.wholeReads
  BY DEF Sound, OpType
<1>2. op.asksMore \in BOOLEAN
  BY DEF Sound, OpType
<1> HIDE DEF o
<1>3. Covers(o)
  BY DEF Sound, o
<1> QED
  BY <1>1, <1>2, <1>3 DEF Sound, Good, Covers

\* A method that pulls nothing is a record of OpType and needs no check.
LEMMA SoundPlain ==
    ASSUME NEW reads \in Seq(ReadKinds), ~ReadsAllowance(reads)
    PROVE  Sound(Plain(reads)) /\ Plain(reads).draws = NoPair
BY DEF Sound, Covers, OpType, Plain

\* None of the pairs is NoPair.
LEMMA RealPairs ==
    /\ NoPair \notin Pairs
    /\ <<"reserve", "pool">> \in Pairs /\ <<"lbToken", "swapAdapter">> \in Pairs
    /\ <<"lbToken", "repayAdapter">> \in Pairs /\ <<"lbToken", "gateway">> \in Pairs
    /\ <<"debtToken", "gateway">> \in Pairs /\ <<"stakedToken", "staking">> \in Pairs
BY DEF Pairs, NoPair

\* A method that reads an allowance, and checks, approves and draws from one pair.
LEMMA SoundPulling ==
    ASSUME NEW reads \in Seq(ReadKinds), ReadsAllowance(reads),
           NEW token, NEW spender, <<token, spender>> \in Pairs
    PROVE  Sound(Pulling(reads, token, spender)) /\ Pulling(reads, token, spender).draws # NoPair
<1> DEFINE o == Pulling(reads, token, spender)
           pair == <<token, spender>>
<1>1. pair # NoPair
  BY RealPairs
<1>2. /\ o.reads = reads /\ o.wholeReads = reads /\ o.minusOne = FALSE
      /\ o.checks = pair /\ o.approves = pair /\ o.draws = pair
      /\ o.asksMore = FALSE /\ o.gasSeesTxs = TRUE
  BY DEF Pulling, Plain
<1>3. o \in OpType
  <2>1. Plain(reads) \in OpType
    BY DEF Plain, OpType
  <2> QED
    BY <2>1 DEF Pulling, OpType
<1>4. [o EXCEPT !.asksMore = FALSE] = o
  BY <1>2, <1>3 DEF OpType
<1> HIDE DEF o, pair
<1>5. Covers(o)
  BY <1>1, <1>2 DEF Covers
<1> QED
  BY <1>1, <1>2, <1>3, <1>4, <1>5 DEF Sound, o

\* Taking '-1' too keeps a method good if it reads the allowance then as well.
LEMMA SoundOrWhole ==
    ASSUME NEW op, Sound(op), NEW reads \in Seq(ReadKinds),
           ReadsAllowance(reads) <=> op.draws # NoPair
    PROVE  Sound(OrWhole(op, reads))
<1> DEFINE o == [op EXCEPT !.asksMore = FALSE]
           w == OrWhole(op, reads)
           v == [w EXCEPT !.asksMore = FALSE]
<1>1. w \in OpType
  BY DEF Sound, OrWhole, OpType
<1>2. /\ o.checks = op.checks /\ o.approves = op.approves /\ o.draws = op.draws
      /\ o.reads = op.reads
      /\ v.checks = op.checks /\ v.approves = op.approves /\ v.draws = op.draws
      /\ v.reads = op.reads /\ v.wholeReads = reads /\ v.asksMore = FALSE
  BY DEF Sound, OrWhole, OpType
<1>3. Covers(o)
  BY DEF Sound
<1> HIDE DEF o, v
<1>4. Covers(v)
  BY <1>2, <1>3 DEF Covers
<1> QED
  BY <1>1, <1>4 DEF Sound, v

\* A read added at the end hides no allowance read.
LEMMA AppendedReads ==
    ASSUME NEW reads \in Seq(ReadKinds)
    PROVE  /\ Append(reads, "encode") \in Seq(ReadKinds)
           /\ ReadsAllowance(Append(reads, "encode")) <=> ReadsAllowance(reads)
<1> DEFINE more == Append(reads, "encode")
<1>1. /\ more \in Seq(ReadKinds) /\ Len(more) = Len(reads) + 1 /\ Len(reads) \in Nat
      /\ \A i \in 1..Len(reads) : more[i] = reads[i]
      /\ more[Len(reads) + 1] = "encode"
  BY DEF ReadKinds
<1> HIDE DEF more
<1> QED
  BY <1>1 DEF ReadsAllowance, more

\* The optimized path keeps a method good: it only adds a read.
LEMMA SoundOptimized ==
    ASSUME NEW op, Sound(op) PROVE Sound(Optimized(op))
<1> DEFINE o == [op EXCEPT !.asksMore = FALSE]
           w == Optimized(op)
           v == [w EXCEPT !.asksMore = FALSE]
<1>0. op.reads \in Seq(ReadKinds) /\ op.wholeReads \in Seq(ReadKinds) /\ op \in OpType
  BY DEF Sound, OpType
<1>1. w \in OpType
  BY <1>0, AppendedReads DEF Optimized, OpType
<1>2. /\ o.checks = op.checks /\ o.approves = op.approves /\ o.draws = op.draws
      /\ o.reads = op.reads /\ o.wholeReads = op.wholeReads
      /\ v.checks = op.checks /\ v.approves = op.approves /\ v.draws = op.draws
      /\ v.reads = Append(op.reads, "encode")
      /\ v.wholeReads = Append(op.wholeReads, "encode") /\ v.asksMore = FALSE
  BY <1>0 DEF Optimized, OpType
<1>3. Covers(o)
  BY DEF Sound
<1> HIDE DEF o, v
<1>4. Covers(v)
  BY <1>0, <1>2, <1>3, AppendedReads DEF Covers
<1> QED
  BY <1>1, <1>4 DEF Sound, v

\* What a method asks for does not matter to the other fields.
LEMMA SoundAsking ==
    ASSUME NEW op, Sound(op), NEW b \in BOOLEAN
    PROVE  Sound([op EXCEPT !.asksMore = b])
<1>1. [[op EXCEPT !.asksMore = b] EXCEPT !.asksMore = FALSE] = [op EXCEPT !.asksMore = FALSE]
  BY DEF Sound, OpType
<1> QED
  BY <1>1 DEF Sound, OpType

\* Nor does what its gas() is handed.
LEMMA SoundGas ==
    ASSUME NEW op, Sound(op)
    PROVE  Sound([op EXCEPT !.gasSeesTxs = FALSE])
<1> DEFINE o == [op EXCEPT !.asksMore = FALSE]
           w == [op EXCEPT !.gasSeesTxs = FALSE]
           v == [w EXCEPT !.asksMore = FALSE]
<1>1. w \in OpType
  BY DEF Sound, OpType
<1>2. /\ v.checks = o.checks /\ v.approves = o.approves /\ v.draws = o.draws
      /\ v.reads = o.reads /\ v.wholeReads = o.wholeReads /\ v.asksMore = o.asksMore
  BY DEF Sound, OpType
<1>3. Covers(o)
  BY DEF Sound
<1> HIDE DEF o, v
<1>4. Covers(v)
  BY <1>2, <1>3 DEF Covers
<1> QED
  BY <1>1, <1>4 DEF Sound, v

\* The lists of reads that occur.
LEMMA PlainReads ==
    \A reads \in { <<"decimals", "synthetix">>,
                   <<"decimals">>,
                   << >>,
                   <<"stakedToken", "decimals">> } :
        reads \in Seq(ReadKinds) /\ ~ReadsAllowance(reads)
<1>1. <<"decimals", "synthetix">> \in Seq(ReadKinds)
      /\ ~ReadsAllowance(<<"decimals", "synthetix">>)
  BY DEF ReadKinds, ReadsAllowance
<1>2. <<"decimals">> \in Seq(ReadKinds)
      /\ ~ReadsAllowance(<<"decimals">>)
  BY DEF ReadKinds, ReadsAllowance
<1>3. << >> \in Seq(ReadKinds)
      /\ ~ReadsAllowance(<< >>)
  BY DEF ReadKinds, ReadsAllowance
<1>4. <<"stakedToken", "decimals">> \in Seq(ReadKinds)
      /\ ~ReadsAllowance(<<"stakedToken", "decimals">>)
  BY DEF ReadKinds, ReadsAllowance
<1> QED
  BY <1>1, <1>2, <1>3, <1>4

\* The read lists of the pulling methods hold the allowance.
LEMMA PullingReads ==
    \A reads \in { <<"decimals", "synthetix", "allowance">>,
                   <<"decimals", "allowance">>,
                   <<"decimals", "allowance", "decimals", "decimals">>,
                   <<"stakedToken", "decimals", "allowance">> } :
        reads \in Seq(ReadKinds) /\ ReadsAllowance(reads)
<1>1. <<"decimals", "synthetix", "allowance">> \in Seq(ReadKinds)
      /\ ReadsAllowance(<<"decimals", "synthetix", "allowance">>)
  BY DEF ReadKinds, ReadsAllowance
<1>2. <<"decimals", "allowance">> \in Seq(ReadKinds)
      /\ ReadsAllowance(<<"decimals", "allowance">>)
  BY DEF ReadKinds, ReadsAllowance
<1>3. <<"decimals", "allowance", "decimals", "decimals">> \in Seq(ReadKinds)
      /\ ReadsAllowance(<<"decimals", "allowance", "decimals", "decimals">>)
  BY DEF ReadKinds, ReadsAllowance
<1>4. <<"stakedToken", "decimals", "allowance">> \in Seq(ReadKinds)
      /\ ReadsAllowance(<<"stakedToken", "decimals", "allowance">>)
  BY DEF ReadKinds, ReadsAllowance
<1> QED
  BY <1>1, <1>2, <1>3, <1>4

\* The methods of Pool, all sound (those of L2Pool are made from them).
LEMMA SoundPool == \A op \in PoolOps : Sound(op)
<1>1. Sound(Pool_deposit)
  BY SoundPulling, PullingReads, RealPairs DEF Pool_deposit
<1>2. Sound(Pool_supply)
  BY SoundPulling, PullingReads, RealPairs DEF Pool_supply
<1>3. Sound(Pool_supplyWithPermit)
  BY SoundPlain, PlainReads DEF Pool_supplyWithPermit
<1>4. Sound(Pool_withdraw)
  <2> DEFINE base == Plain(<<"decimals">>)
  <2>1. Sound(base) /\ base.draws = NoPair
    BY SoundPlain, PlainReads
  <2> QED
    BY <2>1, SoundOrWhole, PlainReads DEF Pool_withdraw
<1>5. Sound(Pool_borrow)
  BY SoundPlain, PlainReads DEF Pool_borrow
<1>6. Sound(Pool_repay)
  <2> DEFINE base == Pulling(<<"decimals", "synthetix", "allowance">>, "reserve", "pool")
  <2>1. Sound(base) /\ base.draws # NoPair
    BY SoundPulling, PullingReads, RealPairs
  <2> QED
    BY <2>1, SoundOrWhole, PullingReads DEF Pool_repay
<1>7. Sound(Pool_repayWithPermit)
  <2> DEFINE base == Plain(<<"decimals", "synthetix">>)
  <2>1. Sound(base) /\ base.draws = NoPair
    BY SoundPlain, PlainReads
  <2> QED
    BY <2>1, SoundOrWhole, PlainReads DEF Pool_repayWithPermit
<1>8. Sound(Pool_swapBorrowRateMode)
  BY SoundPlain, PlainReads DEF Pool_swapBorrowRateMode
<1>9. Sound(Pool_setUsageAsCollateral)
  BY SoundPlain, PlainReads DEF Pool_setUsageAsCollateral
<1>10. ASSUME NEW liquidateAll \in BOOLEAN
       PROVE  Sound(Pool_liquidationCall(liquidateAll))
  <2>1. Sound(Pulling(<<"decimals", "allowance">>, "reserve", "pool"))
    BY SoundPulling, PullingReads, RealPairs
  <2> QED
    BY <2>1, SoundAsking DEF Pool_liquidationCall
<1>11. ASSUME NEW flash \in BOOLEAN, NEW swapAll \in BOOLEAN
       PROVE  Sound(Pool_swapCollateral(flash, swapAll))
  <2>1. Sound(Pulling(<<"decimals", "allowance", "decimals", "decimals">>, "lbToken", "swapAdapter"))
    BY SoundPulling, PullingReads, RealPairs
  <2>2. (flash /\ swapAll) \in BOOLEAN
    OBVIOUS
  <2> QED
    BY <2>1, <2>2, SoundAsking DEF Pool_swapCollateral
<1>12. ASSUME NEW flash \in BOOLEAN, NEW repayAllDebt \in BOOLEAN
       PROVE  Sound(Pool_paraswapRepayWithCollateral(flash, repayAllDebt))
  <2>1. Sound(Pulling(<<"decimals", "allowance", "decimals", "decimals">>, "lbToken", "repayAdapter"))
    BY SoundPulling, PullingReads, RealPairs
  <2>2. (flash /\ repayAllDebt) \in BOOLEAN
    OBVIOUS
  <2> QED
    BY <2>1, <2>2, SoundAsking DEF Pool_paraswapRepayWithCollateral
<1>13. Sound(Pool_flashLiquidation)
  BY SoundPlain, PlainReads DEF Pool_flashLiquidation
<1>14. Sound(Pool_repayWithLBTokens)
  <2> DEFINE base == Plain(<<"decimals">>)
  <2>1. Sound(base) /\ base.draws = NoPair
    BY SoundPlain, PlainReads
  <2> QED
    BY <2>1, SoundOrWhole, PlainReads DEF Pool_repayWithLBTokens
<1>15. Sound(Pool_setUserEMode)
  BY SoundPlain, PlainReads DEF Pool_setUserEMode
<1> QED
  BY <1>1, <1>2, <1>3, <1>4, <1>5, <1>6, <1>7, <1>8, <1>9, <1>10, <1>11, <1>12, <1>13, <1>14, <1>15
     DEF PoolOps

\* Every method of L2Pool is good.
LEMMA L2PoolOpsGood == \A op \in L2PoolOps : Good(op)
<1>1. Sound(L2Pool_supply)
  BY SoundPool, SoundOptimized DEF PoolOps, L2Pool_supply
<1>2. Sound(L2Pool_supplyWithPermit)
  BY SoundPool, SoundOptimized DEF PoolOps, L2Pool_supplyWithPermit
<1>3. Sound(L2Pool_withdraw)
  BY SoundPool, SoundOptimized DEF PoolOps, L2Pool_withdraw
<1>4. Sound(L2Pool_borrow)
  BY SoundPool, SoundOptimized DEF PoolOps, L2Pool_borrow
<1>5. Sound(L2Pool_repay)
  BY SoundPool, SoundOptimized DEF PoolOps, L2Pool_repay
<1>6. Sound(L2Pool_repayWithPermit)
  BY SoundPool, SoundOptimized DEF PoolOps, L2Pool_repayWithPermit
<1>7. Sound(L2Pool_repayWithLBTokens)
  BY SoundPool, SoundOptimized DEF PoolOps, L2Pool_repayWithLBTokens
<1>8. Sound(L2Pool_swapBorrowRateMode)
  BY SoundPool, SoundOptimized DEF PoolOps, L2Pool_swapBorrowRateMode
<1>9. Sound(L2Pool_setUserUseReserveAsCollateral)
  BY SoundPool, SoundOptimized DEF PoolOps, L2Pool_setUserUseReserveAsCollateral
<1>10. ASSUME NEW liquidateAll \in BOOLEAN
       PROVE  Sound(L2Pool_liquidationCall(liquidateAll))
  BY SoundPool, SoundOptimized, SoundGas DEF PoolOps, L2Pool_liquidationCall
<1> QED
  BY SoundIsGood, <1>1, <1>2, <1>3, <1>4, <1>5, <1>6, <1>7, <1>8, <1>9, <1>10
     DEF L2PoolOps

\* Every method of LendingPool is good.
LEMMA LendingPoolOpsGood == \A op \in LendingPoolOps : Good(op)
<1>1. Sound(LendingPool_deposit)
  BY SoundPulling, PullingReads, RealPairs DEF LendingPool_deposit
<1>2. Sound(LendingPool_withdraw)
  <2> DEFINE base == Plain(<<"decimals">>)
  <2>1. Sound(base) /\ base.draws = NoPair
    BY SoundPlain, PlainReads
  <2> QED
    BY <2>1, SoundOrWhole, PlainReads DEF LendingPool_withdraw
<1>3. Sound(LendingPool_borrow)
  BY SoundPlain, PlainReads DEF LendingPool_borrow
<1>4. Sound(LendingPool_repay)
  <2> DEFINE base == Pulling(<<"decimals", "synthetix", "allowance">>, "reserve", "pool")
  <2>1. Sound(base) /\ base.draws # NoPair
    BY SoundPulling, PullingReads, RealPairs
  <2> QED
    BY <2>1, SoundOrWhole, PullingReads DEF LendingPool_repay
<1>5. Sound(LendingPool_swapBorrowRateMode)
  BY SoundPlain, PlainReads DEF LendingPool_swapBorrowRateMode
<1>6. Sound(LendingPool_setUsageAsCollateral)
  BY SoundPlain, PlainReads DEF LendingPool_setUsageAsCollateral
<1>7. ASSUME NEW liquidateAll \in BOOLEAN
       PROVE  Sound(LendingPool_liquidationCall(liquidateAll))
  <2>1. Sound(Pulling(<<"decimals", "allowance">>, "reserve", "pool"))
    BY SoundPulling, PullingReads, RealPairs
  <2> QED
    BY <2>1, SoundAsking DEF LendingPool_liquidationCall
<1>8. ASSUME NEW flash \in BOOLEAN, NEW swapAll \in BOOLEAN
       PROVE  Sound(LendingPool_swapCollateral(flash, swapAll))
  <2>1. Sound(Pulling(<<"decimals", "allowance", "decimals", "decimals">>, "lbToken", "swapAdapter"))
    BY SoundPulling, PullingReads, RealPairs
  <2>2. (flash /\ swapAll) \in BOOLEAN
    OBVIOUS
  <2> QED
    BY <2>1, <2>2, SoundAsking DEF LendingPool_swapCollateral
<1>9. Sound(LendingPool_repayWithCollateral)
  BY SoundPulling, PullingReads, RealPairs DEF LendingPool_repayWithCollateral
<1>10. ASSUME NEW flash \in BOOLEAN, NEW repayAllDebt \in BOOLEAN
       PROVE  Sound(LendingPool_paraswapRepayWithCollateral(flash, repayAllDebt))
  <2>1. Sound(Pulling(<<"decimals", "allowance", "decimals", "decimals">>, "lbToken", "repayAdapter"))
    BY SoundPulling, PullingReads, RealPairs
  <2>2. (flash /\ repayAllDebt) \in BOOLEAN
    OBVIOUS
  <2> QED
    BY <2>1, <2>2, SoundAsking DEF LendingPool_paraswapRepayWithCollateral
<1>11. Sound(LendingPool_flashLiquidation)
  BY SoundPlain, PlainReads DEF LendingPool_flashLiquidation
<1> QED
  BY SoundIsGood, <1>1, <1>2, <1>3, <1>4, <1>5, <1>6, <1>7, <1>8, <1>9, <1>10, <1>11
     DEF LendingPoolOps

\* Every method of WBNBGatewayService is good.
LEMMA GatewayOpsGood == \A op \in GatewayOps : Good(op)
<1>1. Sound(WBNBGateway_depositBNB)
  BY SoundPlain, PlainReads DEF WBNBGateway_depositBNB
<1>2. Sound(WBNBGateway_borrowBNB)
  BY SoundPulling, PullingReads, RealPairs DEF WBNBGateway_borrowBNB
<1>3. Sound(WBNBGateway_withdrawBNB)
  <2> DEFINE base == Pulling(<<"decimals", "allowance">>, "lbToken", "gateway")
  <2>1. Sound(base) /\ base.draws # NoPair
    BY SoundPulling, PullingReads, RealPairs
  <2> QED
    BY <2>1, SoundOrWhole, PullingReads DEF WBNBGateway_withdrawBNB
<1>4. Sound(WBNBGateway_repayBNB)
  BY SoundPlain, PlainReads DEF WBNBGateway_repayBNB
<1> QED
  BY SoundIsGood, <1>1, <1>2, <1>3, <1>4
     DEF GatewayOps

\* Every method of StakingService is good.
LEMMA StakingOpsGood == \A op \in StakingOps : Good(op)
<1>1. Sound(Staking_stakeWithPermit)
  BY SoundPlain, PlainReads DEF Staking_stakeWithPermit
<1>2. Sound(Staking_stake)
  BY SoundPulling, PullingReads, RealPairs DEF Staking_stake
<1>3. Sound(Staking_redeem)
  <2> DEFINE base == Plain(<<"stakedToken", "decimals">>)
  <2>1. Sound(base) /\ base.draws = NoPair
    BY SoundPlain, PlainReads
  <2> QED
    BY <2>1, SoundOrWhole, PlainReads DEF Staking_redeem
<1>4. Sound(Staking_cooldown)
  BY SoundPlain, PlainReads DEF Staking_cooldown
<1>5. Sound(Staking_claimRewards)
  <2> DEFINE base == Plain(<<"stakedToken", "decimals">>)
  <2>1. Sound(base) /\ base.draws = NoPair
    BY SoundPlain, PlainReads
  <2> QED
    BY <2>1, SoundOrWhole, PlainReads DEF Staking_claimRewards
<1> QED
  BY SoundIsGood, <1>1, <1>2, <1>3, <1>4, <1>5
     DEF StakingOps

\* Every transaction method of the five services that does not ask for more than
\* it checked checks, approves and draws from one and the same pair, whatever the
\* amount; and no other method asks for an approval.
THEOREM MethodsCover ==
    \A op \in AllOps : op \in OpType /\ (op.asksMore \/ Covers(op))
BY SoundPool, SoundIsGood, L2PoolOpsGood, LendingPoolOpsGood, GatewayOpsGood, StakingOpsGood
   DEF AllOps, Good

(***************************************************************************)
(* The calls of TxFlow.                                                    *)
(***************************************************************************)

\* What a typed call offers the actions: its method's reads, its threshold, and
\* amounts the contract may ask for.
LEMMA CallFieldsType ==
    ASSUME NEW k \in CallType
    PROVE  /\ k.op \in Ops /\ k.op \in OpType
           /\ Reads(k) \in Seq(ReadKinds)
           /\ Threshold(k) \in 1..Unlimited
           /\ Asked(k) \subseteq 1..MaxAmount
           /\ \A d \in Asked(k) : ~k.op.asksMore => d <= Threshold(k)
BY OpsAssumption, BoundAssumption
   DEF CallType, OpType, Reads, Threshold, Asked, Unlimited, MinusOne

\* A new call has the fields of CallType.
LEMMA NewCallType ==
    ASSUME NEW op \in Ops, NEW amount \in 1..MaxAmount \cup {MinusOne}
    PROVE  NewCall(op, amount) \in CallType
BY DEF NewCall, CallType, Quotes

\* So has the placeholder of an idle one.
LEMMA NoCallType == NoCall \in CallType
<1>1. (CHOOSE op \in Ops : TRUE) \in Ops
  BY OpsAssumption
<1>2. 1 \in 1..MaxAmount \cup {MinusOne}
  BY BoundAssumption
<1> QED
  BY <1>1, <1>2, NewCallType DEF NoCall

\* The updates of a call record that the actions make.
LEMMA CallUpdates ==
    ASSUME NEW k \in CallType
    PROVE  /\ [k EXCEPT !.at = @ + 1] \in CallType
           /\ \A b \in BOOLEAN :
                [k EXCEPT !.checked = TRUE, !.approval = b, !.owed = b] \in CallType
           /\ \A q \in Quotes : [k EXCEPT !.quote = q] \in CallType
           /\ [k EXCEPT !.owed = FALSE] \in CallType
           /\ [k EXCEPT !.disturbed = TRUE] \in CallType
<1>1. [k EXCEPT !.at = @ + 1] \in CallType
  BY DEF CallType
<1>2. ASSUME NEW b \in BOOLEAN
      PROVE  [k EXCEPT !.checked = TRUE, !.approval = b, !.owed = b] \in CallType
  BY DEF CallType
<1>3. ASSUME NEW q \in Quotes PROVE [k EXCEPT !.quote = q] \in CallType
  BY DEF CallType
<1>4. [k EXCEPT !.owed = FALSE] \in CallType
  BY DEF CallType
<1>5. [k EXCEPT !.disturbed = TRUE] \in CallType
  BY DEF CallType
<1> QED
  BY <1>1, <1>2, <1>3, <1>4, <1>5

\* Marking a call disturbed changes nothing else of it.
LEMMA DisturbType ==
    ASSUME TypeOK, NEW C, NEW now
    PROVE  Disturb(C, now) \in [Calls -> CallType]
BY CallUpdates DEF Disturb, TypeOK

\* The initial state is typed.
LEMMA TypeInit == Init => TypeOK
BY NoCallType, BoundAssumption DEF Init, TypeOK, PCs, Unlimited

\* Every step, one action at a time, keeps the types.
LEMMA TypeStep == TypeOK /\ [Next]_vars => TypeOK'
<1> SUFFICES ASSUME TypeOK, [Next]_vars PROVE TypeOK'
  OBVIOUS
<1>1. ASSUME NEW c \in Calls, NEW op \in Ops,
             NEW a \in 1..MaxAmount \cup {MinusOne}, Begin(c, op, a)
      PROVE  TypeOK'
  BY <1>1, NewCallType DEF Begin, TypeOK, PCs
<1>2. ASSUME NEW c \in Calls, BeginInvalid(c) PROVE TypeOK'
  BY <1>2 DEF BeginInvalid, TypeOK, PCs
<1>3. ASSUME NEW c \in Calls, ReadValue(c) PROVE TypeOK'
  <2>1. [call[c] EXCEPT !.at = @ + 1] \in CallType
    BY CallUpdates DEF TypeOK
  <2> QED
    BY <1>3, <2>1 DEF ReadValue, Advance, TypeOK, PCs
<1>4. ASSUME NEW c \in Calls, ReadAllowance(c) PROVE TypeOK'
  <2> DEFINE short == allowance[call[c].op.checks] < Threshold(call[c])
             read == [call[c] EXCEPT !.checked = TRUE, !.approval = short, !.owed = short]
  <2>0. short \in BOOLEAN
    OBVIOUS
  <2>1. read \in CallType
    <3> HIDE DEF short
    <3> QED
      BY <2>0, CallUpdates DEF TypeOK
  <2>2. [read EXCEPT !.at = @ + 1] \in CallType
    BY <2>1, CallUpdates
  <2>3. Advance(c, read)
    BY <1>4 DEF ReadAllowance
  <2> HIDE DEF read
  <2> QED
    BY <2>2, <2>3 DEF Advance, TypeOK, PCs
<1>5. ASSUME NEW c \in Calls, RpcFails(c) \/ EncoderMissing(c) PROVE TypeOK'
  BY <1>5 DEF RpcFails, EncoderMissing, TypeOK, PCs
<1>6. ASSUME NEW c \in Calls, Quote(c) PROVE TypeOK'
  BY <1>6 DEF Quote, TypeOK, CallType
<1>7. ASSUME NEW c \in Calls, Send(c) \/ SendRejected(c) PROVE TypeOK'
  BY <1>7 DEF Send, SendRejected, TypeOK, PCs
<1>8. ASSUME NEW c \in Calls, MineApproval(c) PROVE TypeOK'
  <2>1. call[c].op.approves \in Pairs \cup {NoPair}
    BY CallFieldsType DEF TypeOK, OpType
  <2>2. allowance' \in [Pairs -> 0..Unlimited]
    <3>1. Unlimited \in 0..Unlimited
      BY BoundAssumption DEF Unlimited
    <3> QED
      BY <1>8, <3>1 DEF MineApproval, TypeOK
  <2>3. call' \in [Calls -> CallType]
    <3>1. [call[c] EXCEPT !.owed = FALSE] \in CallType
      BY CallUpdates DEF TypeOK
    <3> QED
      BY <1>8, <3>1 DEF MineApproval, TypeOK
  <2> QED
    BY <1>8, <2>1, <2>2, <2>3 DEF MineApproval, TypeOK, PCs
<1>9. ASSUME NEW c \in Calls, MineAction(c) PROVE TypeOK'
  <2> DEFINE k == call[c]
  <2>1. /\ k \in CallType /\ k.op.draws \in Pairs \cup {NoPair}
        /\ Asked(k) \subseteq 1..MaxAmount
    BY CallFieldsType DEF TypeOK, OpType
  <2>2. allowance' \in [Pairs -> 0..Unlimited] /\ pc' \in [Calls -> PCs]
    <3>1. PICK d \in Asked(k) :
            IF Payable(k, d)
            THEN /\ pc' = [pc EXCEPT ![c] = "done"]
                 /\ allowance' = IF k.op.draws = NoPair \/ allowance[k.op.draws] = Unlimited
                                 THEN allowance
                                 ELSE [allowance EXCEPT ![k.op.draws] = @ - d]
            ELSE /\ pc' = [pc EXCEPT ![c] = "reverted"]
                 /\ UNCHANGED allowance
      BY <1>9 DEF MineAction
    <3> QED
      BY <3>1, <2>1, BoundAssumption DEF TypeOK, PCs, Payable, Unlimited
  <2>3. call' \in [Calls -> CallType]
    BY <1>9, DisturbType DEF MineAction
  <2> QED
    BY <1>9, <2>2, <2>3 DEF MineAction, TypeOK
<1>10. ASSUME NEW c \in Calls, Forget(c) PROVE TypeOK'
  BY <1>10, NoCallType DEF Forget, TypeOK, PCs
<1>11. ASSUME NEW p \in {op.draws : op \in Ops} \ {NoPair}, NEW v \in 0..Unlimited, Wallet(p, v)
       PROVE  TypeOK'
  <2>1. call' = Disturb(Calls, allowance')
    BY <1>11 DEF Wallet
  <2>2. call' \in [Calls -> CallType]
    BY <2>1, DisturbType
  <2> QED
    <3>1. moves' \in 0..MaxMoves
      BY <1>11, BoundAssumption DEF Wallet, TypeOK
    <3>2. allowance' \in [Pairs -> 0..Unlimited]
      BY <1>11 DEF Wallet, TypeOK
    <3> QED
      BY <1>11, <2>2, <3>1, <3>2 DEF Wallet, TypeOK
<1>12. CASE UNCHANGED vars
  BY <1>12 DEF vars, TypeOK
<1> QED
  BY <1>1, <1>2, <1>3, <1>4, <1>5, <1>6, <1>7, <1>8, <1>9, <1>10, <1>11, <1>12 DEF Next

\* The variables keep their types.
THEOREM TypeCorrect == Spec => []TypeOK
BY TypeInit, TypeStep, PTL DEF Spec

-----------------------------------------------------------------------------
\* Marking a call disturbed changes nothing else of it, and it is done whenever
\* the call counts on an allowance that is now too small.
LEMMA DisturbFacts ==
    ASSUME TypeOK, NEW C, NEW now, NEW c \in Calls
    PROVE  LET k == Disturb(C, now)[c] IN
           /\ k.op = call[c].op /\ k.amount = call[c].amount /\ k.at = call[c].at
           /\ k.checked = call[c].checked /\ k.approval = call[c].approval
           /\ k.owed = call[c].owed /\ k.quote = call[c].quote
           /\ Reads(k) = Reads(call[c]) /\ Threshold(k) = Threshold(call[c])
           /\ call[c].disturbed => k.disturbed
           /\ /\ c \in C /\ Relies(pc[c], call[c]) /\ call[c].op.draws # NoPair
              /\ now[call[c].op.draws] < Threshold(call[c])
              => k.disturbed
<1> DEFINE k == call[c]
           hit == /\ c \in C /\ Relies(pc[c], call[c]) /\ call[c].op.draws # NoPair
                  /\ now[call[c].op.draws] < Threshold(call[c])
           marked == [k EXCEPT !.disturbed = TRUE]
<1>1. Disturb(C, now)[c] = IF hit THEN marked ELSE k
  BY DEF Disturb
<1>2. /\ marked.op = k.op /\ marked.amount = k.amount /\ marked.at = k.at
      /\ marked.checked = k.checked /\ marked.approval = k.approval
      /\ marked.owed = k.owed /\ marked.quote = k.quote /\ marked.disturbed
  BY DEF TypeOK, CallType
<1>3. Reads(marked) = Reads(k) /\ Threshold(marked) = Threshold(k)
  BY <1>2 DEF Reads, Threshold
<1> HIDE DEF hit, marked, k
<1>4. CASE hit
  BY <1>1, <1>2, <1>3, <1>4 DEF k
<1>5. CASE ~hit
  <2>1. Disturb(C, now)[c] = call[c]
    BY <1>1, <1>5 DEF k
  <2> QED
    BY <2>1, <1>5 DEF hit
<1> QED
  BY <1>4, <1>5

\* The part of AllowanceInv that is about one call, and what it depends on.
CallInv(c) == CheckAhead(c) /\ CheckMade(c) /\ AllowanceKept(c) /\ OwedIsApproval(c)

\* What AllowanceInv says of one call depends on its pc, its record and the
\* allowances alone.
LEMMA CallInvFrame ==
    ASSUME NEW c, CallInv(c), pc'[c] = pc[c], call'[c] = call[c],
           \/ allowance' = allowance
           \/ call[c].op.draws # NoPair =>
                allowance'[call[c].op.draws] >= Threshold(call[c])
    PROVE  CallInv(c)'
BY DEF CallInv, CheckAhead, CheckMade, AllowanceKept, OwedIsApproval, Relies, Reads, Threshold

\* Marking the calls an allowance change leaves short keeps what AllowanceInv
\* says of them.
LEMMA CallInvDisturb ==
    ASSUME TypeOK, TypeOK', NEW C, NEW c \in C, c \in Calls, CallInv(c),
           pc'[c] = pc[c], call' = Disturb(C, allowance')
    PROVE  CallInv(c)'
<1> DEFINE k == call[c]
           m == call'[c]
<1>1. /\ m.op = k.op /\ m.at = k.at /\ m.checked = k.checked
      /\ m.approval = k.approval /\ m.owed = k.owed
      /\ Reads(m) = Reads(k) /\ Threshold(m) = Threshold(k)
      /\ k.disturbed => m.disturbed
      /\ /\ Relies(pc[c], k) /\ k.op.draws # NoPair
         /\ allowance'[k.op.draws] < Threshold(k)
         => m.disturbed
  BY DisturbFacts
<1>2. Threshold(k) \in Int
  BY CallFieldsType, BoundAssumption DEF TypeOK, Unlimited
<1>3. k.op.draws # NoPair => allowance'[k.op.draws] \in Int
  BY CallFieldsType, BoundAssumption DEF TypeOK, OpType, Unlimited
<1> HIDE DEF m
<1>4. CheckAhead(c)' /\ CheckMade(c)' /\ OwedIsApproval(c)'
  BY <1>1 DEF CallInv, CheckAhead, CheckMade, OwedIsApproval, m
<1>5. AllowanceKept(c)'
  BY <1>1, <1>2, <1>3 DEF AllowanceKept, Relies, m
<1> QED
  BY <1>4, <1>5 DEF CallInv

\* No call has begun, so none counts on an allowance.
LEMMA AllowanceInit == Init => AllowanceInv
BY DEF Init, AllowanceInv, CheckAhead, CheckMade, AllowanceKept, OwedIsApproval, Relies,
       NoCall, NewCall

\* Every step keeps AllowanceInv.
LEMMA AllowanceStep ==
    ASSUME AllCover, TypeOK, TypeOK', AllowanceInv, [Next]_vars
    PROVE  AllowanceInv'
<1> SUFFICES ASSUME NEW e \in Calls PROVE CallInv(e)'
  BY DEF AllowanceInv, CallInv
<1>0. CallInv(e)
  BY DEF AllowanceInv, CallInv
<1>1. ASSUME NEW c \in Calls, NEW op \in Ops,
             NEW a \in 1..MaxAmount \cup {MinusOne}, Begin(c, op, a)
      PROVE  CallInv(e)'
  <2>1. CASE e = c
    <3> DEFINE k == NewCall(op, a)
    <3>1. call'[e] = k /\ pc'[e] = IF Reads(k) = << >> THEN "built" ELSE "reading"
      BY <1>1, <2>1 DEF Begin, TypeOK
    <3>2. k.op = op /\ k.at = 0 /\ ~k.checked /\ ~k.owed /\ ~k.approval
      BY DEF NewCall
    <3>3. op.draws # NoPair => ReadsAllowance(Reads(k))
      BY <3>2 DEF AllCover, Covers, Reads
    <3> HIDE DEF k
    <3>4. op.draws # NoPair => \E i \in 1..Len(Reads(k)) : Reads(k)[i] = "allowance"
      BY <3>3 DEF ReadsAllowance
    <3>5. Reads(k) = << >> => op.draws = NoPair
      BY <3>4
    <3> QED
      BY <3>1, <3>2, <3>4, <3>5
         DEF CallInv, CheckAhead, CheckMade, AllowanceKept, OwedIsApproval, Relies
  <2>2. CASE e # c
    BY <1>0, <1>1, <2>2, CallInvFrame DEF Begin, TypeOK
  <2> QED
    BY <2>1, <2>2
<1>2. ASSUME NEW c \in Calls, BeginInvalid(c) \/ RpcFails(c) \/ EncoderMissing(c)
      PROVE  CallInv(e)'
  <2>1. CASE e = c
    BY <1>0, <1>2, <2>1
       DEF BeginInvalid, RpcFails, EncoderMissing, TypeOK, CallInv, CheckAhead, CheckMade,
           AllowanceKept, OwedIsApproval, Relies
  <2>2. CASE e # c
    BY <1>0, <1>2, <2>2, CallInvFrame DEF BeginInvalid, RpcFails, EncoderMissing, TypeOK
  <2> QED
    BY <2>1, <2>2
<1>3. ASSUME NEW c \in Calls, ReadValue(c) PROVE CallInv(e)'
  <2>1. CASE e = c
    <3> DEFINE k == call[c]
               m == [k EXCEPT !.at = @ + 1]
    <3>1. /\ call'[e] = m /\ allowance' = allowance
          /\ pc'[e] = IF k.at + 1 = Len(Reads(k)) THEN "built" ELSE "reading"
      BY <1>3, <2>1 DEF ReadValue, Advance, TypeOK
    <3>2. /\ m.op = k.op /\ m.at = k.at + 1 /\ m.amount = k.amount /\ m.checked = k.checked
          /\ m.approval = k.approval /\ m.owed = k.owed /\ m.disturbed = k.disturbed
      BY DEF TypeOK, CallType
    <3>3. Reads(m) = Reads(k) /\ Threshold(m) = Threshold(k)
      BY <3>2 DEF Reads, Threshold
    <3>4. /\ pc[c] = "reading" /\ k.at < Len(Reads(k))
          /\ Reads(k)[k.at + 1] # "allowance"
      BY <1>3 DEF ReadValue, Awaits
    <3>5. k.at \in Nat /\ Len(Reads(k)) \in Nat
      BY CallFieldsType DEF TypeOK, CallType
    <3>6. k.op.draws # NoPair /\ ~k.checked =>
            \E i \in k.at + 2 .. Len(Reads(k)) : Reads(k)[i] = "allowance"
      <4> SUFFICES ASSUME k.op.draws # NoPair, ~k.checked
                   PROVE  \E i \in k.at + 2 .. Len(Reads(k)) : Reads(k)[i] = "allowance"
        OBVIOUS
      <4>1. PICK i \in k.at + 1 .. Len(Reads(k)) : Reads(k)[i] = "allowance"
        BY <1>0, <2>1, <3>4 DEF CallInv, CheckAhead
      <4> QED
        BY <4>1, <3>4, <3>5
    <3> HIDE DEF m
    <3>7. CheckAhead(e)' /\ CheckMade(e)'
      BY <3>1, <3>2, <3>3, <3>5, <3>6 DEF CheckAhead, CheckMade
    <3>8. AllowanceKept(e)' /\ OwedIsApproval(e)'
      BY <1>0, <2>1, <3>1, <3>2, <3>3, <3>4 DEF CallInv, AllowanceKept, OwedIsApproval, Relies
    <3> QED
      BY <3>7, <3>8 DEF CallInv
  <2>2. CASE e # c
    BY <1>0, <1>3, <2>2, CallInvFrame DEF ReadValue, Advance, TypeOK
  <2> QED
    BY <2>1, <2>2
<1>4. ASSUME NEW c \in Calls, ReadAllowance(c) PROVE CallInv(e)'
  <2>1. CASE e = c
    <3> DEFINE k == call[c]
               short == allowance[k.op.checks] < Threshold(k)
               read == [k EXCEPT !.checked = TRUE, !.approval = short, !.owed = short]
               m == [read EXCEPT !.at = @ + 1]
    <3>1. /\ call'[e] = m /\ allowance' = allowance
          /\ pc'[e] \in {"built", "reading"}
      BY <1>4, <2>1 DEF ReadAllowance, Advance, TypeOK
    <3>2. /\ m.op = k.op /\ m.amount = k.amount /\ m.checked
          /\ m.approval = short /\ m.owed = short
      BY DEF TypeOK, CallType
    <3>3. Threshold(m) = Threshold(k)
      BY <3>2 DEF Threshold
    <3>4. k.op.draws # NoPair => k.op.checks = k.op.draws /\ k.op.draws \in Pairs
      BY CallFieldsType DEF AllCover, Covers, TypeOK, OpType
    <3>5. Threshold(k) \in Int /\ \A p \in Pairs : allowance[p] \in Int
      BY CallFieldsType, BoundAssumption DEF TypeOK, Unlimited
    <3>6. k.op.draws # NoPair /\ ~short => allowance[k.op.draws] >= Threshold(k)
      BY <3>4, <3>5
    <3> HIDE DEF m, short
    <3>7. AllowanceKept(e)'
      BY <3>1, <3>2, <3>3, <3>6 DEF AllowanceKept, Relies
    <3>8. CheckAhead(e)' /\ CheckMade(e)' /\ OwedIsApproval(e)'
      BY <3>1, <3>2 DEF CheckAhead, CheckMade, OwedIsApproval
    <3> QED
      BY <3>7, <3>8 DEF CallInv
  <2>2. CASE e # c
    BY <1>0, <1>4, <2>2, CallInvFrame DEF ReadAllowance, Advance, TypeOK
  <2> QED
    BY <2>1, <2>2
<1>5. ASSUME NEW c \in Calls, Quote(c) PROVE CallInv(e)'
  <2>1. CASE e = c
    <3> DEFINE k == call[c]
    <3>1. PICK q \in Quotes : call' = [call EXCEPT ![c].quote = q]
      BY <1>5 DEF Quote
    <3> DEFINE m == [k EXCEPT !.quote = q]
    <3>2. call'[e] = m /\ allowance' = allowance /\ pc'[e] = pc[c]
      BY <1>5, <2>1, <3>1 DEF Quote, TypeOK
    <3>3. /\ m.op = k.op /\ m.at = k.at /\ m.amount = k.amount /\ m.checked = k.checked
          /\ m.approval = k.approval /\ m.owed = k.owed /\ m.disturbed = k.disturbed
      BY DEF TypeOK, CallType
    <3>4. Reads(m) = Reads(k) /\ Threshold(m) = Threshold(k)
      BY <3>3 DEF Reads, Threshold
    <3> HIDE DEF m
    <3> QED
      BY <1>0, <2>1, <3>2, <3>3, <3>4
         DEF CallInv, CheckAhead, CheckMade, AllowanceKept, OwedIsApproval, Relies
  <2>2. CASE e # c
    BY <1>0, <1>5, <2>2, CallInvFrame DEF Quote, TypeOK
  <2> QED
    BY <2>1, <2>2
<1>6. ASSUME NEW c \in Calls, Send(c) \/ SendRejected(c) PROVE CallInv(e)'
  <2>1. CASE e = c
    BY <1>0, <1>6, <2>1
       DEF Send, SendRejected, TypeOK, CallInv, CheckAhead, CheckMade, AllowanceKept,
           OwedIsApproval, Relies
  <2>2. CASE e # c
    BY <1>0, <1>6, <2>2, CallInvFrame DEF Send, SendRejected, TypeOK
  <2> QED
    BY <2>1, <2>2
<1>7. ASSUME NEW c \in Calls, MineApproval(c) PROVE CallInv(e)'
  <2> DEFINE k == call[c]
             m == [k EXCEPT !.owed = FALSE]
             now == [allowance EXCEPT ![k.op.approves] = Unlimited]
  <2>0. allowance' = now
    BY <1>7 DEF MineApproval
  <2>1. CASE e = c
    <3>1. call'[e] = m /\ pc'[e] = "built" /\ pc[c] = "sent"
      BY <1>7, <2>1 DEF MineApproval, TypeOK
    <3>2. /\ m.op = k.op /\ m.amount = k.amount /\ m.checked = k.checked
          /\ m.approval = k.approval /\ ~m.owed
      BY DEF TypeOK, CallType
    <3>3. Threshold(m) = Threshold(k) /\ Threshold(k) \in 1..Unlimited
      BY <3>2, CallFieldsType DEF Threshold, TypeOK
    <3>4. k.op.draws # NoPair => allowance'[k.op.draws] = Unlimited
      BY <2>0, CallFieldsType DEF AllCover, Covers, TypeOK, OpType
    <3> HIDE DEF m
    <3>5. AllowanceKept(e)'
      BY <3>1, <3>2, <3>3, <3>4, BoundAssumption DEF AllowanceKept, Unlimited
    <3>6. CheckAhead(e)' /\ CheckMade(e)' /\ OwedIsApproval(e)'
      BY <1>0, <2>1, <3>1, <3>2 DEF CallInv, CheckAhead, CheckMade, OwedIsApproval
    <3> QED
      BY <3>5, <3>6 DEF CallInv
  <2>2. CASE e # c
    <3>1. call'[e] = call[e] /\ pc'[e] = pc[e]
      BY <1>7, <2>2 DEF MineApproval, TypeOK
    <3>2. CheckAhead(e)' /\ CheckMade(e)' /\ OwedIsApproval(e)'
      BY <1>0, <3>1 DEF CallInv, CheckAhead, CheckMade, OwedIsApproval
    <3>3. /\ Threshold(call[e]) \in 1..Unlimited
          /\ call[e].op.draws # NoPair =>
               call[e].op.draws \in Pairs /\ allowance[call[e].op.draws] \in 0..Unlimited
      BY CallFieldsType DEF TypeOK, OpType
    <3>4. call[e].op.draws # NoPair =>
            \/ allowance'[call[e].op.draws] = allowance[call[e].op.draws]
            \/ allowance'[call[e].op.draws] = Unlimited
      BY <2>0, <3>3 DEF TypeOK
    <3>5. AllowanceKept(e)'
      BY <1>0, <3>1, <3>3, <3>4, BoundAssumption
         DEF CallInv, AllowanceKept, Relies, Unlimited
    <3> QED
      BY <3>2, <3>5 DEF CallInv
  <2> QED
    BY <2>1, <2>2
<1>8. ASSUME NEW c \in Calls, MineAction(c) PROVE CallInv(e)'
  <2>1. CASE e = c
    <3>1. /\ pc'[e] \in {"done", "reverted"}
          /\ call' = Disturb(Calls \ {c}, allowance')
          /\ ~call[c].owed
      BY <1>8, <2>1 DEF MineAction, TypeOK
    <3>2. call'[e].owed = call[e].owed
      BY <3>1, DisturbFacts
    <3> QED
      BY <2>1, <3>1, <3>2
         DEF CallInv, CheckAhead, CheckMade, AllowanceKept, OwedIsApproval, Relies
  <2>2. CASE e # c
    <3>1. pc'[e] = pc[e] /\ call' = Disturb(Calls \ {c}, allowance')
      BY <1>8, <2>2 DEF MineAction, TypeOK
    <3> QED
      BY <1>0, <2>2, <3>1, CallInvDisturb
  <2> QED
    BY <2>1, <2>2
<1>9. ASSUME NEW c \in Calls, Forget(c) PROVE CallInv(e)'
  <2>1. CASE e = c
    BY <1>9, <2>1
       DEF Forget, TypeOK, NoCall, NewCall, CallInv, CheckAhead, CheckMade, AllowanceKept,
           OwedIsApproval, Relies
  <2>2. CASE e # c
    BY <1>0, <1>9, <2>2, CallInvFrame DEF Forget, TypeOK
  <2> QED
    BY <2>1, <2>2
<1>10. ASSUME NEW p, NEW v, Wallet(p, v) PROVE CallInv(e)'
  BY <1>0, <1>10, CallInvDisturb DEF Wallet
<1>11. CASE UNCHANGED vars
  BY <1>0, <1>11, CallInvFrame DEF vars
<1> QED
  BY <1>1, <1>2, <1>3, <1>4, <1>5, <1>6, <1>7, <1>8, <1>9, <1>10, <1>11 DEF Next

-----------------------------------------------------------------------------
\* An action that counts on its allowance, unmarked, can pay whatever it asks.
LEMMA UnmarkedCanPay ==
    ASSUME AllCover, TypeOK, AllowanceInv, NEW c \in Calls,
           pc[c] \in {"built", "sent"}, ~call[c].owed, ~call[c].disturbed,
           NEW d \in Asked(call[c])
    PROVE  Payable(call[c], d)
<1> DEFINE k == call[c]
<1> SUFFICES ASSUME k.op.draws # NoPair PROVE allowance[k.op.draws] >= d
  BY DEF Payable
<1>1. allowance[k.op.draws] >= Threshold(k)
  BY DEF AllowanceInv, AllowanceKept, CheckMade, Relies
<1>2. /\ Threshold(k) \in 1..Unlimited /\ d \in 1..MaxAmount /\ d <= Threshold(k)
      /\ allowance[k.op.draws] \in 0..Unlimited
  BY CallFieldsType DEF AllCover, Covers, TypeOK, OpType
<1> QED
  BY <1>1, <1>2, BoundAssumption DEF Unlimited

\* The mark of a call stays until the call is over.
LEMMA RevertStep ==
    ASSUME AllCover, TypeOK, AllowanceInv, RevertOnlyIfDisturbed, [Next]_vars
    PROVE  RevertOnlyIfDisturbed'
<1> SUFFICES ASSUME NEW e \in Calls, pc'[e] = "reverted" PROVE call'[e].disturbed
  BY DEF RevertOnlyIfDisturbed
<1>0. pc[e] = "reverted" => call[e].disturbed
  BY DEF RevertOnlyIfDisturbed
<1>1. ASSUME NEW c \in Calls,
             \/ \E op \in Ops, a \in 1..MaxAmount \cup {MinusOne} : Begin(c, op, a)
             \/ BeginInvalid(c) \/ RpcFails(c) \/ EncoderMissing(c)
             \/ ReadValue(c) \/ ReadAllowance(c) \/ Quote(c) \/ Send(c)
             \/ MineApproval(c) \/ Forget(c)
      PROVE  call'[e].disturbed
  <2>1. e # c
    BY <1>1
       DEF TypeOK, Begin, BeginInvalid, RpcFails, EncoderMissing, ReadValue, ReadAllowance,
           Advance, Awaits, Quote, Send, MineApproval, Forget
  <2>2. pc'[e] = pc[e] /\ call'[e] = call[e]
    BY <1>1, <2>1
       DEF TypeOK, Begin, BeginInvalid, RpcFails, EncoderMissing, ReadValue, ReadAllowance,
           Advance, Quote, Send, MineApproval, Forget
  <2> QED
    BY <1>0, <2>2
<1>2. ASSUME NEW c \in Calls, SendRejected(c) PROVE call'[e].disturbed
  <2>1. CASE e = c
    BY <1>2, <2>1, UnmarkedCanPay DEF SendRejected
  <2>2. CASE e # c
    BY <1>0, <1>2, <2>2 DEF SendRejected, TypeOK
  <2> QED
    BY <2>1, <2>2
<1>3. ASSUME NEW c \in Calls, MineAction(c) PROVE call'[e].disturbed
  <2>1. call'[e].disturbed \/ ~call[e].disturbed
    BY <1>3, DisturbFacts DEF MineAction
  <2>2. CASE e = c
    <3>1. \E d \in Asked(call[c]) : ~Payable(call[c], d)
      BY <1>3, <2>2 DEF MineAction, TypeOK
    <3> QED
      BY <1>3, <2>1, <2>2, <3>1, UnmarkedCanPay DEF MineAction
  <2>3. CASE e # c
    BY <1>0, <1>3, <2>1, <2>3 DEF MineAction, TypeOK
  <2> QED
    BY <2>2, <2>3
<1>4. ASSUME NEW p, NEW v, Wallet(p, v) PROVE call'[e].disturbed
  BY <1>0, <1>4, DisturbFacts DEF Wallet
<1>5. CASE UNCHANGED vars
  BY <1>0, <1>5 DEF vars
<1> QED
  BY <1>1, <1>2, <1>3, <1>4, <1>5 DEF Next

\* A quote is rejected only for a call that is marked.
LEMMA QuoteStep ==
    ASSUME AllCover, AllQuotable, TypeOK, AllowanceInv, QuoteNeverBlocked, [Next]_vars
    PROVE  QuoteNeverBlocked'
<1> SUFFICES ASSUME NEW e \in Calls, call'[e].quote = "rejected" PROVE call'[e].disturbed
  BY DEF QuoteNeverBlocked
<1>0. call[e].quote = "rejected" => call[e].disturbed
  BY DEF QuoteNeverBlocked
<1>1. ASSUME NEW c \in Calls,
             \/ \E op \in Ops, a \in 1..MaxAmount \cup {MinusOne} : Begin(c, op, a)
             \/ Forget(c)
      PROVE  call'[e].disturbed
  <2>1. \A op, a : NewCall(op, a).quote = "none"
    BY DEF NewCall
  <2>2. call'[c].quote = "none"
    BY <1>1, <2>1 DEF TypeOK, Begin, Forget, NoCall
  <2> QED
    BY <1>0, <1>1, <2>2 DEF TypeOK, Begin, Forget
<1>2. ASSUME NEW c \in Calls,
             \/ BeginInvalid(c) \/ RpcFails(c) \/ EncoderMissing(c)
             \/ Send(c) \/ SendRejected(c)
      PROVE  call'[e].disturbed
  BY <1>0, <1>2 DEF BeginInvalid, RpcFails, EncoderMissing, Send, SendRejected
<1>3. ASSUME NEW c \in Calls, ReadValue(c) \/ ReadAllowance(c) \/ MineApproval(c)
      PROVE  call'[e].disturbed
  <2> DEFINE Same(m) == m.quote = call[e].quote /\ m.disturbed = call[e].disturbed
  <2>1. ASSUME ReadValue(c) \/ MineApproval(c) PROVE Same(call'[e])
    <3> DEFINE next == [call[c] EXCEPT !.at = @ + 1]
               paid == [call[c] EXCEPT !.owed = FALSE]
    <3>1. /\ next.quote = call[c].quote /\ next.disturbed = call[c].disturbed
          /\ paid.quote = call[c].quote /\ paid.disturbed = call[c].disturbed
      BY DEF TypeOK, CallType
    <3>2. call' = [call EXCEPT ![c] = next] \/ call' = [call EXCEPT ![c] = paid]
      BY <2>1 DEF ReadValue, Advance, MineApproval
    <3> HIDE DEF next, paid
    <3> QED
      BY <3>1, <3>2 DEF TypeOK
  <2>2. ASSUME ReadAllowance(c) PROVE Same(call'[e])
    <3> DEFINE short == allowance[call[c].op.checks] < Threshold(call[c])
               read == [call[c] EXCEPT !.checked = TRUE, !.approval = short, !.owed = short]
               m == [read EXCEPT !.at = @ + 1]
    <3>1. call' = [call EXCEPT ![c] = m]
      BY <2>2 DEF ReadAllowance, Advance
    <3>2. m.quote = call[c].quote /\ m.disturbed = call[c].disturbed
      BY DEF TypeOK, CallType
    <3> HIDE DEF m
    <3> QED
      BY <3>1, <3>2 DEF TypeOK
  <2>3. Same(call'[e])
    BY <1>3, <2>1, <2>2
  <2> QED
    BY <1>0, <2>3
<1>4. ASSUME NEW c \in Calls, Quote(c) PROVE call'[e].disturbed
  <2>1. CASE e = c
    <3> DEFINE k == call[c]
    <3>1. /\ pc[c] = "built"
          /\ call'[e].disturbed = k.disturbed
          /\ ~(k.op.gasSeesTxs /\ k.approval)
          /\ \E d \in Asked(k) : ~Payable(k, d)
      BY <1>4, <2>1 DEF Quote, TypeOK, CallType
    <3>2. k.op \in Ops /\ k.op.draws # NoPair
      BY <3>1, CallFieldsType DEF Payable, TypeOK
    <3>3. ~k.approval /\ ~k.owed
      BY <3>1, <3>2 DEF AllQuotable, AllowanceInv, OwedIsApproval
    <3> QED
      BY <3>1, <3>3, UnmarkedCanPay
  <2>2. CASE e # c
    BY <1>0, <1>4, <2>2 DEF Quote, TypeOK
  <2> QED
    BY <2>1, <2>2
<1>5. ASSUME NEW C, call' = Disturb(C, allowance') PROVE call'[e].disturbed
  BY <1>0, <1>5, DisturbFacts
<1>6. CASE UNCHANGED vars
  BY <1>0, <1>6 DEF vars
<1> QED
  BY <1>1, <1>2, <1>3, <1>4, <1>5, <1>6 DEF Next, MineAction, Wallet

\* If every method checks the pair it draws from, whatever the amount, approves
\* that pair and asks for no more than it checked, then no call is ever rejected
\* for want of allowance unless somebody else took it away.
THEOREM RevertsExplained == AllCover => (Spec => []RevertOnlyIfDisturbed)
<1> SUFFICES ASSUME AllCover PROVE Spec => []RevertOnlyIfDisturbed
  OBVIOUS
<1> DEFINE Inv == TypeOK /\ AllowanceInv /\ RevertOnlyIfDisturbed
<1>1. Init => Inv
  BY TypeInit, AllowanceInit DEF Init, RevertOnlyIfDisturbed
<1>2. Inv /\ [Next]_vars => Inv'
  BY TypeStep, AllowanceStep, RevertStep
<1> QED
  BY <1>1, <1>2, PTL DEF Spec

\* If, besides, every such method gives its array to gas(), then gas() is never
\* blocked by an approval that is still to be mined.
THEOREM QuotesAnswered == AllCover /\ AllQuotable => (Spec => []QuoteNeverBlocked)
<1> SUFFICES ASSUME AllCover, AllQuotable PROVE Spec => []QuoteNeverBlocked
  OBVIOUS
<1> DEFINE Inv == TypeOK /\ AllowanceInv /\ QuoteNeverBlocked
<1>1. Init => Inv
  BY TypeInit, AllowanceInit DEF Init, QuoteNeverBlocked, NoCall, NewCall
<1>2. Inv /\ [Next]_vars => Inv'
  BY TypeStep, AllowanceStep, QuoteStep
<1> QED
  BY <1>1, <1>2, PTL DEF Spec

-----------------------------------------------------------------------------
\* Nothing is granted at first, and every allowance is 0.
LEMMA ApprovalInit == Init => ApprovalInv
<1>1. NoCall.disturbed = FALSE
  BY DEF NoCall, NewCall
<1> QED
  BY <1>1 DEF Init, ApprovalInv

\* Nothing but the wallet lowers an unlimited allowance, and without the wallet
\* no allowance is finite, so that no call is ever marked.
LEMMA ApprovalStep ==
    ASSUME AllCover, TypeOK, TypeOK', AllowanceInv, ApprovalInv, [Next]_vars
    PROVE  ApprovalInv'
<1>1. ASSUME NEW c \in Calls, MineAction(c) PROVE ApprovalInv'
  <2> DEFINE k == call[c]
             P == k.op.draws
  <2>1. PICK d \in Asked(k) :
          \/ UNCHANGED allowance
          \/ /\ P # NoPair /\ allowance[P] # Unlimited
             /\ Payable(k, d)
             /\ allowance' = [allowance EXCEPT ![P] = @ - d]
    BY <1>1 DEF MineAction
  <2>2. d \in 1..MaxAmount /\ (P # NoPair => P \in Pairs)
    BY CallFieldsType DEF TypeOK, OpType
  <2>3. \A p \in Pairs : allowance[p] = Unlimited => allowance'[p] = Unlimited
    BY <2>1 DEF TypeOK
  <2>4. moves = 0 => UNCHANGED allowance
    BY <2>1, <2>2, BoundAssumption DEF ApprovalInv, Payable, Unlimited
  <2>5. ASSUME moves = 0, NEW e \in Calls PROVE ~call'[e].disturbed
    <3> DEFINE m == call[e]
    <3>1. ~m.disturbed /\ UNCHANGED allowance
      BY <2>4, <2>5 DEF ApprovalInv
    <3>2. Relies(pc[e], m) /\ m.op.draws # NoPair =>
            ~(allowance'[m.op.draws] < Threshold(m))
      <4>1. Threshold(m) \in 1..Unlimited
        BY CallFieldsType DEF TypeOK
      <4>2. m.op.draws # NoPair => allowance[m.op.draws] \in 0..Unlimited
        BY CallFieldsType DEF TypeOK, OpType
      <4> QED
        BY <3>1, <4>1, <4>2, BoundAssumption DEF AllowanceInv, AllowanceKept, Unlimited
    <3>3. call'[e] = m
      BY <1>1, <3>2 DEF MineAction, Disturb
    <3> QED
      BY <3>1, <3>3
  <2>6. granted' = granted /\ moves' = moves
    BY <1>1 DEF MineAction
  <2> QED
    BY <2>3, <2>4, <2>5, <2>6 DEF ApprovalInv, TypeOK
<1>2. ASSUME NEW p \in {op.draws : op \in Ops} \ {NoPair}, NEW v \in 0..Unlimited, Wallet(p, v)
      PROVE  ApprovalInv'
  <2>1. moves' # 0
    BY <1>2, BoundAssumption DEF Wallet, TypeOK
  <2>2. \A q \in granted' \ {NoPair} : allowance'[q] = Unlimited
    BY <1>2 DEF Wallet, ApprovalInv, TypeOK
  <2> QED
    BY <2>1, <2>2 DEF ApprovalInv
<1>3. ASSUME NEW c \in Calls, MineApproval(c) PROVE ApprovalInv'
  <2>1. \A p \in Pairs : allowance'[p] \in {allowance[p], Unlimited}
    BY <1>3 DEF MineApproval, TypeOK
  <2>2. \A p \in granted' \ {NoPair} : allowance'[p] = Unlimited
    BY <1>3 DEF MineApproval, TypeOK, ApprovalInv
  <2>3. \A e \in Calls : call'[e].disturbed = call[e].disturbed
    <3>1. [call[c] EXCEPT !.owed = FALSE].disturbed = call[c].disturbed
      BY DEF TypeOK, CallType
    <3> QED
      BY <1>3, <3>1 DEF MineApproval, TypeOK
  <2> QED
    BY <1>3, <2>1, <2>2, <2>3 DEF MineApproval, ApprovalInv
<1>4. ASSUME NEW c \in Calls, UNCHANGED <<allowance, granted, moves>>,
             \A e \in Calls : ~call[e].disturbed => ~call'[e].disturbed
      PROVE  ApprovalInv'
  BY <1>4 DEF ApprovalInv
<1>5. ASSUME NEW c \in Calls,
             \/ \E op \in Ops, a \in 1..MaxAmount \cup {MinusOne} : Begin(c, op, a)
             \/ Forget(c)
      PROVE  ApprovalInv'
  <2>1. \A op, a : ~NewCall(op, a).disturbed
    BY DEF NewCall
  <2>2. UNCHANGED <<allowance, granted, moves>>
    BY <1>5 DEF Begin, Forget
  <2>3. \A e \in Calls : ~call[e].disturbed => ~call'[e].disturbed
    BY <1>5, <2>1 DEF Begin, Forget, TypeOK, NoCall
  <2> QED
    BY <1>4, <2>2, <2>3
<1>6. ASSUME NEW c \in Calls, ReadValue(c) \/ ReadAllowance(c) PROVE ApprovalInv'
  <2>1. PICK k : k.disturbed = call[c].disturbed /\ Advance(c, k) /\ k \in CallType
    <3> DEFINE short == allowance[call[c].op.checks] < Threshold(call[c])
               read == [call[c] EXCEPT !.checked = TRUE, !.approval = short, !.owed = short]
    <3>1. call[c] \in CallType
      BY DEF TypeOK
    <3>2. short \in BOOLEAN
      OBVIOUS
    <3>3. read \in CallType /\ read.disturbed = call[c].disturbed
      <4> HIDE DEF short
      <4>1. read \in CallType
        BY <3>1, <3>2, CallUpdates
      <4>2. read.disturbed = call[c].disturbed
        BY <3>1 DEF CallType
      <4> QED
        BY <4>1, <4>2
    <3>4. Advance(c, call[c]) \/ Advance(c, read)
      BY <1>6 DEF ReadValue, ReadAllowance
    <3> HIDE DEF read
    <3> QED
      BY <3>1, <3>3, <3>4
  <2>2. [k EXCEPT !.at = @ + 1].disturbed = call[c].disturbed
    BY <2>1 DEF CallType
  <2>3. \A e \in Calls : call'[e].disturbed = call[e].disturbed
    BY <2>1, <2>2 DEF Advance, TypeOK
  <2> QED
    BY <1>4, <2>1, <2>3 DEF Advance
<1>7. ASSUME NEW c \in Calls, Quote(c) PROVE ApprovalInv'
  <2>1. PICK q \in Quotes : call' = [call EXCEPT ![c].quote = q]
    BY <1>7 DEF Quote
  <2>2. [call[c] EXCEPT !.quote = q].disturbed = call[c].disturbed
    BY DEF TypeOK, CallType
  <2>3. \A e \in Calls : call'[e].disturbed = call[e].disturbed
    BY <2>1, <2>2 DEF TypeOK
  <2> QED
    BY <1>4, <1>7, <2>3 DEF Quote
<1>8. ASSUME NEW c \in Calls,
             \/ BeginInvalid(c) \/ RpcFails(c) \/ EncoderMissing(c)
             \/ Send(c) \/ SendRejected(c)
      PROVE  ApprovalInv'
  BY <1>4, <1>8 DEF BeginInvalid, RpcFails, EncoderMissing, Send, SendRejected
<1>9. CASE UNCHANGED vars
  BY <1>9 DEF vars, ApprovalInv
<1> QED
  BY <1>1, <1>2, <1>3, <1>5, <1>6, <1>7, <1>8, <1>9 DEF Next

\* Calls that overlap do not disturb one another as long as the allowances are
\* those that the methods' own approvals set.
THEOREM CallsCompose == AllCover => (Spec => []OverlappingCallsCompose)
<1> SUFFICES ASSUME AllCover PROVE Spec => []OverlappingCallsCompose
  OBVIOUS
<1> DEFINE Inv == TypeOK /\ AllowanceInv /\ RevertOnlyIfDisturbed /\ ApprovalInv
<1>1. Init => Inv
  BY TypeInit, AllowanceInit, ApprovalInit DEF Init, RevertOnlyIfDisturbed
<1>2. Inv /\ [Next]_vars => Inv'
  BY TypeStep, AllowanceStep, RevertStep, ApprovalStep
<1>3. Inv => OverlappingCallsCompose
  BY DEF ApprovalInv, RevertOnlyIfDisturbed, OverlappingCallsCompose
<1> QED
  BY <1>1, <1>2, <1>3, PTL DEF Spec

\* The two invariants hold for any methods that cover their allowance.
THEOREM TxFlowSafe == AllCover => (Spec => []TxFlowInv)
<1> SUFFICES ASSUME AllCover PROVE Spec => []TxFlowInv
  OBVIOUS
<1> DEFINE Inv == TypeOK /\ AllowanceInv /\ ApprovalInv
<1>1. Init => Inv
  BY TypeInit, AllowanceInit, ApprovalInit
<1>2. Inv /\ [Next]_vars => Inv'
  BY TypeStep, AllowanceStep, ApprovalStep
<1>3. Inv => TxFlowInv
  BY DEF TxFlowInv
<1> QED
  BY <1>1, <1>2, <1>3, PTL DEF Spec

\* Only a call that has just found the allowance too small asks for an approval,
\* which it cannot find of a pair whose approval of ours still stands.
LEMMA NoRepeatStep ==
    ASSUME AllCover, TypeOK, ApprovalInv, [Next]_vars, NEW c \in Calls,
           ~call[c].approval, call'[c].approval
    PROVE  call'[c].op.approves \notin granted
<1>1. ASSUME NEW e \in Calls, ReadAllowance(e) PROVE call'[c].op.approves \notin granted
  <2> DEFINE k == call[e]
             short == allowance[k.op.checks] < Threshold(k)
             read == [k EXCEPT !.checked = TRUE, !.approval = short, !.owed = short]
             m == [read EXCEPT !.at = @ + 1]
  <2>1. call' = [call EXCEPT ![e] = m]
    BY <1>1 DEF ReadAllowance, Advance
  <2>2. m.op = k.op /\ m.approval = short
    BY DEF TypeOK, CallType
  <2> HIDE DEF m
  <2>3. e = c /\ short /\ call'[c].op = k.op
    BY <2>1, <2>2 DEF TypeOK
  <2>4. k.op \in Ops /\ k.op \in OpType /\ Threshold(k) \in 1..Unlimited
    BY CallFieldsType DEF TypeOK
  <2>5. ReadsAllowance(Reads(k))
    BY <1>1, <2>4, CallFieldsType DEF ReadAllowance, Awaits, ReadsAllowance, TypeOK, CallType
  <2>6. k.op.draws # NoPair
    BY <2>4, <2>5 DEF AllCover, Covers, Reads
  <2>7. k.op.approves = k.op.checks /\ k.op.checks \in Pairs /\ k.op.checks # NoPair
    BY <2>4, <2>6 DEF AllCover, Covers, OpType
  <2>8. allowance[k.op.checks] # Unlimited
    BY <2>3, <2>4, <2>7, BoundAssumption DEF TypeOK, Unlimited
  <2> QED
    BY <2>3, <2>7, <2>8 DEF ApprovalInv
<1>2. ASSUME call'[c].approval = call[c].approval PROVE FALSE
  BY <1>2
<1>3. ASSUME NEW e \in Calls, ReadValue(e) PROVE FALSE
  <2> DEFINE m == [call[e] EXCEPT !.at = @ + 1]
  <2>1. call' = [call EXCEPT ![e] = m]
    BY <1>3 DEF ReadValue, Advance
  <2>2. m.approval = call[e].approval
    BY DEF TypeOK, CallType
  <2> QED
    BY <1>2, <2>1, <2>2 DEF TypeOK
<1>4. ASSUME NEW e \in Calls, Quote(e) PROVE FALSE
  <2>1. PICK q \in Quotes : call' = [call EXCEPT ![e].quote = q]
    BY <1>4 DEF Quote
  <2>2. [call[e] EXCEPT !.quote = q].approval = call[e].approval
    BY DEF TypeOK, CallType
  <2> QED
    BY <1>2, <2>1, <2>2 DEF TypeOK
<1>5. ASSUME NEW e \in Calls, MineApproval(e) PROVE FALSE
  <2>1. [call[e] EXCEPT !.owed = FALSE].approval = call[e].approval
    BY DEF TypeOK, CallType
  <2> QED
    BY <1>2, <1>5, <2>1 DEF MineApproval, TypeOK
<1>6. ASSUME NEW C, call' = Disturb(C, allowance') PROVE FALSE
  BY <1>2, <1>6, DisturbFacts
<1>7. ASSUME NEW e \in Calls,
             \/ \E op \in Ops, a \in 1..MaxAmount \cup {MinusOne} : Begin(e, op, a)
             \/ Forget(e)
      PROVE  FALSE
  <2>1. \A op, a : ~NewCall(op, a).approval
    BY DEF NewCall
  <2> QED
    BY <1>7, <2>1 DEF Begin, Forget, NoCall, TypeOK
<1>8. ASSUME NEW e \in Calls,
             \/ BeginInvalid(e) \/ RpcFails(e) \/ EncoderMissing(e)
             \/ Send(e) \/ SendRejected(e)
      PROVE  FALSE
  BY <1>8 DEF BeginInvalid, RpcFails, EncoderMissing, Send, SendRejected
<1>9. CASE UNCHANGED vars
  BY <1>2, <1>9 DEF vars
<1> QED
  BY <1>1, <1>3, <1>4, <1>5, <1>6, <1>7, <1>8, <1>9 DEF Next, MineAction, Wallet

\* No call asks for an approval that was given and still stands.
THEOREM ApprovalsAskedOnce == AllCover => (Spec => NoRepeatedApproval)
<1> SUFFICES ASSUME AllCover PROVE Spec => NoRepeatedApproval
  OBVIOUS
<1> DEFINE Inv == TypeOK /\ AllowanceInv /\ ApprovalInv
           Once == \A c \in Calls : ~call[c].approval /\ call'[c].approval =>
                                      call'[c].op.approves \notin granted
<1>1. Init => Inv
  BY TypeInit, AllowanceInit, ApprovalInit
<1>2. Inv /\ [Next]_vars => Inv'
  BY TypeStep, AllowanceStep, ApprovalStep
<1>3. Inv /\ [Next]_vars => [Once]_vars
  BY NoRepeatStep
<1> QED
  BY <1>1, <1>2, <1>3, PTL DEF Spec, NoRepeatedApproval

-----------------------------------------------------------------------------
\* Where a payment stands, case by case.
LEMMA PhaseCases ==
  ASSUME NEW s \in PCs, NEW k
  PROVE  /\ s = "done" => Phase(s, k) = "paid"
         /\ s = "reverted" => Phase(s, k) = "failed"
         /\ s \in {"idle", "refused", "empty"} => Phase(s, k) = "none"
         /\ s \in {"reading", "built", "sent"} =>
              Phase(s, k) = IF k.disturbed THEN "spoilt"
                            ELSE IF Relies(s, k) \/ k.op.draws = NoPair THEN "covered"
                            ELSE "open"
BY DEF Phase, PCs

\* A step of one call moves no other payment.
LEMMA OnePhase ==
  ASSUME NEW c \in Calls, \A e \in Calls \ {c} : pc'[e] = pc[e] /\ call'[e] = call[e]
  PROVE  Phases' = [Phases EXCEPT ![c] = Phase(pc'[c], call'[c])]
BY DEF Phases

\* Marking the calls left short spoils covered payments and moves no other.
LEMMA DisturbPhase ==
  ASSUME TypeOK, TypeOK', NEW C, call' = Disturb(C, allowance'),
         NEW e \in Calls, pc'[e] = pc[e]
  PROVE  \/ Phases'[e] = Phases[e]
         \/ Phases[e] = "covered" /\ Phases'[e] = "spoilt" /\ call'[e].disturbed
<1> DEFINE k == call[e]
           m == call'[e]
<1>1. k = m \/ (Relies(pc[e], k) /\ k.op.draws # NoPair /\ m.disturbed)
  BY DEF Disturb, TypeOK, CallType
<1>2. Phases[e] = Phase(pc[e], k) /\ Phases'[e] = Phase(pc[e], m)
  BY DEF Phases
<1>3. CASE k = m
  BY <1>2, <1>3
<1>4. CASE Relies(pc[e], k) /\ m.disturbed
  <2>1. pc[e] \in {"reading", "built", "sent"} /\ pc[e] \in PCs
    BY <1>4 DEF Relies, TypeOK
  <2>2. Phase(pc[e], m) = "spoilt"
    BY <1>4, <2>1, PhaseCases
  <2>3. Phase(pc[e], k) \in {"covered", "spoilt"}
    BY <1>4, <2>1, PhaseCases
  <2> QED
    BY <1>2, <1>4, <2>2, <2>3
<1> QED
  BY <1>1, <1>3, <1>4

\* No payment has begun.
LEMMA PaymentInit == Init => Payment!Init
<1> SUFFICES ASSUME Init PROVE Payment!Init
  OBVIOUS
<1>1. TypeOK
  BY TypeInit
<1>2. Phases = [c \in Calls |-> "none"]
  BY <1>1, PhaseCases DEF Init, Phases, TypeOK
<1> QED
  BY <1>2 DEF Init, Payment!Init

\* When nothing changes, no payment moves.
LEMMA StutterPays == ASSUME UNCHANGED vars PROVE [Payment!Next]_(Payment!payments)
<1>1. Phases' = Phases
  BY DEF vars, Phases
<1>2. (moves # 0)' = (moves # 0)
  BY DEF vars
<1> QED
  BY <1>1, <1>2 DEF Payment!payments

\* A step of one call is the step of its payment, or none.
LEMMA OneCallPays ==
  ASSUME NEW c \in Calls, moves' = moves,
         \A e \in Calls \ {c} : pc'[e] = pc[e] /\ call'[e] = call[e],
         NEW p, p = Phase(pc'[c], call'[c]),
         NEW q, q = Phase(pc[c], call[c]),
         \/ p = q
         \/ q = "none" /\ p \in {"open", "covered"}
         \/ q = "open" /\ p = "covered"
         \/ q = "spoilt" /\ p = "failed"
         \/ q # "none" /\ p = "none"
  PROVE  [Payment!Next]_(Payment!payments)
<1>1. Phases' = [Phases EXCEPT ![c] = p] /\ Phases[c] = q
  BY OnePhase DEF Phases
<1>2. (moves # 0)' = (moves # 0)
  OBVIOUS
<1>3. CASE p = q
  <2>1. Phases' = Phases
    BY <1>1, <1>3 DEF Phases
  <2> QED
    BY <1>2, <2>1 DEF Payment!payments
<1>4. CASE q = "none" /\ p \in {"open", "covered"}
  <2>1. Payment!Start(c)
    BY <1>1, <1>2, <1>4 DEF Payment!Start
  <2> QED
    BY <2>1 DEF Payment!Next
<1>5. CASE q = "open" /\ p = "covered"
  <2>1. Payment!Cover(c)
    BY <1>1, <1>2, <1>5 DEF Payment!Cover
  <2> QED
    BY <2>1 DEF Payment!Next
<1>6. CASE q = "spoilt" /\ p = "failed"
  <2>1. Payment!Fail(c)
    BY <1>1, <1>2, <1>6 DEF Payment!Fail
  <2> QED
    BY <2>1 DEF Payment!Next
<1>7. CASE q # "none" /\ p = "none"
  <2>1. Payment!Drop(c)
    BY <1>1, <1>2, <1>7 DEF Payment!Drop
  <2> QED
    BY <2>1 DEF Payment!Next
<1> QED
  BY <1>3, <1>4, <1>5, <1>6, <1>7

\* An action that is mined pays, or fails and spoils nothing.
LEMMA MinedPays ==
  ASSUME AllCover, TypeOK, TypeOK', AllowanceInv, ApprovalInv', NEW c \in Calls, MineAction(c)
  PROVE  Payment!Next
<1> DEFINE k == call[c]
           C == {e \in Calls \ {c} : Phases[e] = "covered" /\ Phases'[e] # Phases[e]}
<1>1. /\ pc[c] = "sent" /\ ~k.owed /\ moves' = moves
      /\ call' = Disturb(Calls \ {c}, allowance')
      /\ \A e \in Calls \ {c} : pc'[e] = pc[e]
  BY DEF MineAction, TypeOK
<1>2. Phases[c] \in {"covered", "spoilt"} /\ (~k.disturbed <=> Phases[c] = "covered")
  <2>1. Phases[c] = Phase("sent", k) /\ "sent" \in PCs
    BY <1>1 DEF Phases, PCs
  <2>2. k.op.draws # NoPair => Relies("sent", k)
    BY <1>1 DEF AllowanceInv, CheckMade, Relies
  <2> QED
    BY <2>1, <2>2, PhaseCases
<1>3. \A e \in Calls \ {c} :
        Phases'[e] = Phases[e] \/ (e \in C /\ Phases'[e] = "spoilt" /\ call'[e].disturbed)
  BY <1>1, DisturbPhase
<1>4. C \in SUBSET (Payment!Covered \ {c})
  BY DEF Payment!Covered
<1>5. CASE pc'[c] = "done"
  <2>1. Phases'[c] = "paid"
    BY <1>5, PhaseCases DEF Phases, PCs
  <2>2. C # {} => moves # 0
    BY <1>1, <1>3 DEF ApprovalInv
  <2>3. Phases' = [Payment!Spoilt(C) EXCEPT ![c] = "paid"]
    <3>1. DOMAIN Phases' = Calls /\ Phases' = [e \in Calls |-> Phases'[e]]
      BY DEF Phases
    <3>2. \A e \in Calls : Phases'[e] = [Payment!Spoilt(C) EXCEPT ![c] = "paid"][e]
      BY <1>3, <2>1 DEF Payment!Spoilt
    <3> HIDE DEF C
    <3> QED
      BY <3>1, <3>2 DEF Payment!Spoilt
  <2>4. Payment!Pay(c, C)
    BY <1>1, <1>2, <2>2, <2>3 DEF Payment!Pay
  <2> QED
    BY <1>4, <2>4 DEF Payment!Next
<1>6. CASE pc'[c] # "done"
  <2>1. PICK d \in Asked(k) : ~Payable(k, d) /\ pc'[c] = "reverted" /\ UNCHANGED allowance
    BY <1>6 DEF MineAction, TypeOK
  <2>2. k.disturbed
    BY <1>1, <2>1, UnmarkedCanPay
  <2>3. Phases[c] = "spoilt"
    BY <1>2, <2>2
  <2>4. Phases'[c] = "failed"
    BY <2>1, PhaseCases DEF Phases, PCs
  <2>5. ASSUME NEW e \in Calls \ {c} PROVE Phases'[e] = Phases[e]
    <3> DEFINE m == call[e]
    <3>1. CASE m.disturbed
      <4>1. call'[e].disturbed
        BY <1>1, <3>1, DisturbFacts
      <4>2. call'[e] = m
        BY <1>1, <3>1, <4>1 DEF Disturb, TypeOK, CallType
      <4> QED
        BY <1>1, <4>2 DEF Phases
    <3>2. CASE ~m.disturbed
      <4>1. Threshold(m) \in 1..Unlimited
        BY CallFieldsType DEF TypeOK
      <4>2. m.op.draws # NoPair => allowance[m.op.draws] \in 0..Unlimited
        BY CallFieldsType DEF TypeOK, OpType
      <4>3. Relies(pc[e], m) /\ m.op.draws # NoPair => ~(allowance'[m.op.draws] < Threshold(m))
        BY <2>1, <3>2, <4>1, <4>2, BoundAssumption DEF AllowanceInv, AllowanceKept, Unlimited
      <4>4. call'[e] = m
        BY <1>1, <4>3 DEF Disturb
      <4> QED
        BY <1>1, <4>4 DEF Phases
    <3> QED
      BY <3>1, <3>2
  <2>6. Phases' = [Phases EXCEPT ![c] = "failed"]
    <3>1. Phases' = [e \in Calls |-> Phases'[e]] /\ Phases = [e \in Calls |-> Phases[e]]
      BY DEF Phases
    <3> QED
      BY <2>4, <2>5, <3>1
  <2>7. Payment!Fail(c)
    BY <1>1, <2>3, <2>6 DEF Payment!Fail
  <2> QED
    BY <2>7 DEF Payment!Next
<1> QED
  BY <1>5, <1>6

\* A change of an allowance elsewhere spoils what counted on it.
LEMMA WalletInterferes ==
  ASSUME TypeOK, TypeOK', NEW p, NEW v, Wallet(p, v)
  PROVE  Payment!Next
<1> DEFINE C == {e \in Calls : Phases[e] = "covered" /\ Phases'[e] # Phases[e]}
<1>1. call' = Disturb(Calls, allowance') /\ pc' = pc /\ moves' # 0
  BY BoundAssumption DEF Wallet, TypeOK
<1>2. \A e \in Calls : Phases'[e] = Phases[e] \/ (e \in C /\ Phases'[e] = "spoilt")
  BY <1>1, DisturbPhase
<1>3. C \in SUBSET Payment!Covered
  BY DEF Payment!Covered
<1>4. Phases' = Payment!Spoilt(C)
  <2>1. Phases' = [e \in Calls |-> Phases'[e]]
    BY DEF Phases
  <2>2. \A e \in Calls : Phases'[e] = Payment!Spoilt(C)[e]
    BY <1>2 DEF Payment!Spoilt
  <2> HIDE DEF C
  <2> QED
    BY <2>1, <2>2 DEF Payment!Spoilt
<1>5. Payment!Interfere(C)
  BY <1>1, <1>4 DEF Payment!Interfere
<1> QED
  BY <1>3, <1>5 DEF Payment!Next

\* Every step is one of Payments, or none.
LEMMA PaymentStep ==
  ASSUME AllCover, TypeOK, TypeOK', AllowanceInv, ApprovalInv', [Next]_vars
  PROVE  [Payment!Next]_(Payment!payments)
<1> DEFINE Pays == [Payment!Next]_(Payment!payments)
           Alone(c) == /\ moves' = moves
                       /\ \A e \in Calls \ {c} : pc'[e] = pc[e] /\ call'[e] = call[e]
<1> HIDE DEF Pays
<1>0. ASSUME NEW c \in Calls, Alone(c), NEW q, q = Phase(pc[c], call[c]),
             NEW p, p = Phase(pc'[c], call'[c]),
             \/ p = q
             \/ q = "none" /\ p \in {"open", "covered"}
             \/ q = "open" /\ p = "covered"
             \/ q = "spoilt" /\ p = "failed"
             \/ q # "none" /\ p = "none"
      PROVE  Pays
  BY <1>0, OneCallPays DEF Pays
<1>1. ASSUME NEW c \in Calls, NEW op \in Ops,
             NEW a \in 1..MaxAmount \cup {MinusOne}, Begin(c, op, a)
      PROVE  Pays
  <2>1. Phase(pc[c], call[c]) = "none"
    BY <1>1, PhaseCases DEF Begin, PCs
  <2>2. pc'[c] \in {"built", "reading"} /\ ~call'[c].disturbed
    BY <1>1 DEF Begin, TypeOK, NewCall
  <2>3. Phase(pc'[c], call'[c]) \in {"open", "covered"}
    BY <2>2, PhaseCases DEF PCs
  <2>4. Alone(c)
    BY <1>1 DEF Begin, TypeOK
  <2> QED
    BY <1>0, <2>1, <2>3, <2>4
<1>2. ASSUME NEW c \in Calls, BeginInvalid(c) \/ RpcFails(c) \/ EncoderMissing(c) \/ Forget(c)
      PROVE  Pays
  <2>1. pc'[c] \in {"refused", "empty", "idle"}
    BY <1>2 DEF BeginInvalid, RpcFails, EncoderMissing, Forget, TypeOK
  <2>2. Phase(pc'[c], call'[c]) = "none"
    BY <2>1, PhaseCases DEF PCs
  <2>3. Alone(c)
    BY <1>2 DEF BeginInvalid, RpcFails, EncoderMissing, Forget, TypeOK
  <2> QED
    BY <1>0, <2>2, <2>3
<1>3. ASSUME NEW c \in Calls, ReadValue(c) PROVE Pays
  <2> DEFINE k == call[c]
             m == [k EXCEPT !.at = @ + 1]
  <2>1. m.op = k.op /\ m.checked = k.checked /\ m.owed = k.owed /\ m.disturbed = k.disturbed
    BY DEF TypeOK, CallType
  <2>2. call'[c] = m /\ pc[c] = "reading" /\ pc'[c] \in {"reading", "built"}
    BY <1>3 DEF ReadValue, Awaits, Advance, TypeOK
  <2>3. Alone(c)
    BY <1>3 DEF ReadValue, Advance, TypeOK
  <2> HIDE DEF m
  <2>4. Relies(pc'[c], m) = Relies(pc[c], k)
    BY <2>1, <2>2 DEF Relies
  <2>5. Phase(pc'[c], m) = Phase(pc[c], k)
    BY <2>1, <2>2, <2>4, PhaseCases DEF PCs
  <2> QED
    BY <1>0, <2>2, <2>3, <2>5
<1>4. ASSUME NEW c \in Calls, ReadAllowance(c) PROVE Pays
  <2> DEFINE k == call[c]
             short == allowance[k.op.checks] < Threshold(k)
             read == [k EXCEPT !.checked = TRUE, !.approval = short, !.owed = short]
             m == [read EXCEPT !.at = @ + 1]
  <2>1. m.op = k.op /\ m.checked /\ m.owed = short /\ m.disturbed = k.disturbed
    BY DEF TypeOK, CallType
  <2>2. call'[c] = m /\ pc[c] = "reading" /\ pc'[c] \in {"reading", "built"}
    BY <1>4 DEF ReadAllowance, Awaits, Advance, TypeOK
  <2>3. Alone(c)
    BY <1>4 DEF ReadAllowance, Advance, TypeOK
  <2>4. k.op.draws # NoPair => k.op.checks = k.op.draws /\ k.op.draws \in Pairs
    BY CallFieldsType DEF AllCover, Covers, TypeOK, OpType
  <2>5. Threshold(k) \in Int /\ \A p \in Pairs : allowance[p] \in Int
    BY CallFieldsType, BoundAssumption DEF TypeOK, Unlimited
  <2>6. Relies(pc[c], k) /\ ~k.disturbed /\ k.op.draws # NoPair => ~short
    BY <2>4, <2>5 DEF AllowanceInv, AllowanceKept
  <2> HIDE DEF m, short
  <2>7. Phase(pc[c], k) = IF k.disturbed THEN "spoilt"
                          ELSE IF Relies(pc[c], k) \/ k.op.draws = NoPair THEN "covered"
                          ELSE "open"
    BY <2>2, PhaseCases DEF PCs
  <2>8. Phase(pc'[c], m) = IF k.disturbed THEN "spoilt"
                           ELSE IF ~short \/ k.op.draws = NoPair THEN "covered"
                           ELSE "open"
    <3>1. CASE short
      <4>1. ~Relies(pc'[c], m)
        BY <2>1, <3>1 DEF Relies
      <4> QED
        BY <2>1, <2>2, <3>1, <4>1, PhaseCases DEF PCs
    <3>2. CASE ~short
      <4>1. Relies(pc'[c], m)
        BY <2>1, <2>2, <3>2 DEF Relies
      <4> QED
        BY <2>1, <2>2, <3>2, <4>1, PhaseCases DEF PCs
    <3> QED
      BY <3>1, <3>2
  <2>9. \/ Phase(pc'[c], m) = Phase(pc[c], k)
        \/ Phase(pc[c], k) = "open" /\ Phase(pc'[c], m) = "covered"
    BY <2>6, <2>7, <2>8
  <2> QED
    BY <1>0, <2>2, <2>3, <2>9
<1>5. ASSUME NEW c \in Calls, Quote(c) PROVE Pays
  <2> DEFINE k == call[c]
  <2>1. PICK q \in Quotes : call' = [call EXCEPT ![c].quote = q]
    BY <1>5 DEF Quote
  <2> DEFINE m == [k EXCEPT !.quote = q]
  <2>2. m.op = k.op /\ m.checked = k.checked /\ m.owed = k.owed /\ m.disturbed = k.disturbed
    BY DEF TypeOK, CallType
  <2>3. call'[c] = m /\ pc[c] = "built" /\ pc'[c] = "built"
    BY <1>5, <2>1 DEF Quote, TypeOK
  <2>4. Alone(c)
    BY <1>5, <2>1 DEF Quote, TypeOK
  <2> HIDE DEF m
  <2>5. Relies("built", m) = Relies("built", k)
    BY <2>2 DEF Relies
  <2>6. Phase("built", m) = Phase("built", k)
    BY <2>2, <2>5, PhaseCases DEF PCs
  <2> QED
    BY <1>0, <2>3, <2>4, <2>6
<1>6. ASSUME NEW c \in Calls, Send(c) PROVE Pays
  <2>1. pc[c] = "built" /\ pc'[c] = "sent" /\ call'[c] = call[c]
    BY <1>6 DEF Send, TypeOK
  <2>2. Relies("sent", call[c]) = Relies("built", call[c])
    BY DEF Relies
  <2>3. Phase("sent", call[c]) = Phase("built", call[c])
    BY <2>2, PhaseCases DEF PCs
  <2>4. Alone(c)
    BY <1>6 DEF Send, TypeOK
  <2> QED
    BY <1>0, <2>1, <2>3, <2>4
<1>7. ASSUME NEW c \in Calls, SendRejected(c) PROVE Pays
  <2>1. pc[c] = "built" /\ pc'[c] = "reverted" /\ call[c].disturbed
    BY <1>7, UnmarkedCanPay DEF SendRejected, TypeOK
  <2>2. Phase(pc[c], call[c]) = "spoilt" /\ Phase(pc'[c], call'[c]) = "failed"
    BY <2>1, PhaseCases DEF PCs
  <2>3. Alone(c)
    BY <1>7 DEF SendRejected, TypeOK
  <2> QED
    BY <1>0, <2>2, <2>3
<1>8. ASSUME NEW c \in Calls, MineApproval(c) PROVE Pays
  <2> DEFINE k == call[c]
             m == [k EXCEPT !.owed = FALSE]
  <2>1. m.op = k.op /\ m.checked = k.checked /\ ~m.owed /\ m.disturbed = k.disturbed
    BY DEF TypeOK, CallType
  <2>2. call'[c] = m /\ pc[c] = "sent" /\ pc'[c] = "built" /\ k.owed
    BY <1>8 DEF MineApproval, TypeOK
  <2>3. Alone(c)
    BY <1>8 DEF MineApproval, TypeOK
  <2>4. k.op.draws # NoPair => k.checked
    BY <2>2 DEF AllowanceInv, CheckMade
  <2> HIDE DEF m
  <2>5. Phase(pc[c], k) = IF k.disturbed THEN "spoilt"
                          ELSE IF k.op.draws = NoPair THEN "covered" ELSE "open"
    BY <2>2, PhaseCases DEF PCs, Relies
  <2>6. Phase(pc'[c], m) = IF k.disturbed THEN "spoilt" ELSE "covered"
    BY <2>1, <2>2, <2>4, PhaseCases DEF PCs, Relies
  <2>7. \/ Phase(pc'[c], m) = Phase(pc[c], k)
        \/ Phase(pc[c], k) = "open" /\ Phase(pc'[c], m) = "covered"
    BY <2>5, <2>6
  <2> QED
    BY <1>0, <2>2, <2>3, <2>7
<1>9. ASSUME NEW c \in Calls, MineAction(c) PROVE Pays
  BY <1>9, MinedPays DEF Pays
<1>10. ASSUME NEW p, NEW v, Wallet(p, v) PROVE Pays
  BY <1>10, WalletInterferes DEF Pays
<1>11. CASE UNCHANGED vars
  BY <1>11, StutterPays DEF Pays
<1>12. ASSUME Next PROVE Pays
  BY <1>1, <1>2, <1>3, <1>4, <1>5, <1>6, <1>7, <1>8, <1>9, <1>10, <1>12 DEF Next
<1> QED
  BY <1>11, <1>12 DEF Pays

\* The methods that cover their allowance implement Payments: a payment is made
\* once and only after it was covered, and fails only if the user, or another
\* payment once the user had interfered, spoilt its cover in between.
THEOREM PaymentsImplemented == AllCover => (Spec => PaymentsAsPromised)
<1> SUFFICES ASSUME AllCover PROVE Spec => PaymentsAsPromised
  OBVIOUS
<1> DEFINE Inv == TypeOK /\ AllowanceInv /\ ApprovalInv
<1>1. Init => Inv /\ Payment!Init
  BY TypeInit, AllowanceInit, ApprovalInit, PaymentInit
<1>2. Inv /\ [Next]_vars => Inv'
  BY TypeStep, AllowanceStep, ApprovalStep
<1>3. Inv /\ Inv' /\ [Next]_vars => [Payment!Next]_(Payment!payments)
  BY PaymentStep
<1> QED
  BY <1>1, <1>2, <1>3, PTL DEF Spec, PaymentsAsPromised, Payment!Spec

-----------------------------------------------------------------------------
\* The methods of the five services, those that ask for more than they checked
\* apart, meet the hypothesis: whatever of them overlap, no rejection for want of
\* allowance is of their own making.
THEOREM MethodsRevertExplained ==
    Ops \subseteq {op \in AllOps : ~op.asksMore} => (Spec => []RevertOnlyIfDisturbed)
BY MethodsCover, RevertsExplained DEF AllCover

\* And they implement Payments, whichever of them overlap.
THEOREM MethodsPayAsPromised ==
    Ops \subseteq {op \in AllOps : ~op.asksMore} => (Spec => PaymentsAsPromised)
BY MethodsCover, PaymentsImplemented DEF AllCover
=============================================================================
