------------------------------ MODULE MCReads ------------------------------
(***************************************************************************)
(* What a client reads before it shows or sends anything, for TLC: the     *)
(* incentives, the caches of ERC20Service, the memo of the proposals, the  *)
(* price feeds and the estimates of gas.  They share no state, so nothing  *)
(* is gained by their interleavings: a behaviour chooses one of them, and  *)
(* the others stay as they begin.                                          *)
(***************************************************************************)
EXTENDS Incentives, TokenCache, ProposalMemo, PriceFeeds, GasLimits, TLC

CONSTANTS usdc, gold, native, maker  \* tokens; gold has no decimals

Decimals == usdc :> 6 @@ gold :> 0 @@ native :> 18 @@ maker :> 18

\* Two proposals, one that can be written in two ways and one that is no
\* proposal.
IpfsHash == "0xab" :> "QmAb" @@ "QmAb" :> "QmAb" @@ "QmCd" :> "QmCd"

\* Three rewards of two tokens.
RewardToken == <<usdc, gold, usdc>>

\* In thousands, from utils.ts.  The estimates in the configuration are those next
\* to the limits, with a surplus of 20, 30 or 60 percent, one far below and one
\* above.
gasLimitRecommendations ==
    "default" :> [limit |-> 210, recommended |-> 210]
    @@ "withdraw" :> [limit |-> 230, recommended |-> 300]

ASSUME ReadsAssumption ==
    /\ DecimalsAssumption /\ MemoAssumption
    /\ FeedsAssumption /\ GasAssumption

VARIABLE part  \* the one that is chosen

allVars == <<part, vars, cacheVars, memoVars, feedVars, gasVars>>

ReadsInit ==
    /\ part \in {"incentives", "tokens", "proposals", "feeds", "gas"}
    /\ Init /\ CacheInit /\ MemoInit /\ FeedsInit /\ GasInit

ReadsNext ==
    /\ UNCHANGED part
    /\ \/ /\ part = "incentives" /\ Next
          /\ UNCHANGED <<cacheVars, memoVars, feedVars, gasVars>>
       \/ /\ part = "tokens" /\ CacheNext
          /\ UNCHANGED <<vars, memoVars, feedVars, gasVars>>
       \/ /\ part = "proposals" /\ MemoNext
          /\ UNCHANGED <<vars, cacheVars, feedVars, gasVars>>
       \/ /\ part = "feeds" /\ FeedsNext
          /\ UNCHANGED <<vars, cacheVars, memoVars, gasVars>>
       \/ /\ part = "gas" /\ GasNext
          /\ UNCHANGED <<vars, cacheVars, memoVars, feedVars>>

ReadsSpec == ReadsInit /\ [][ReadsNext]_allVars

-----------------------------------------------------------------------------
\* The variables of the five keep their types.
ReadsTypeOK == TypeOK /\ CacheTypeOK /\ MemoTypeOK /\ FeedsTypeOK /\ GasTypeOK
=============================================================================
