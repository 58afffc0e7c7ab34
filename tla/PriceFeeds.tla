----------------------------- MODULE PriceFeeds -----------------------------
(***************************************************************************)
(* Reward incentives and their prices: getIncentivesDataWithPrice of v2    *)
(* and getIncentivesDataWithPriceLegacy of v3.  The incentives are read,   *)
(* then the feed of every reward token at once, each with two requests to  *)
(* the registry of feeds, the second sent when the first is answered.      *)
(* Some feeds fail; with all of them settled, each reward is given the     *)
(* feed of its token, if there is one.                                     *)
(*                                                                         *)
(* The registry may replace a token's aggregator at any time (external).   *)
(* Calls share no state but the objects of the registries, which are made  *)
(* without an await, so there is one call at a time.                       *)
(***************************************************************************)
EXTENDS Naturals

CONSTANTS RewardTokens,
          Rewards,          \* of the kinds a, v and s of all reserves
          rewardToken,      \* of each
          NoDecimals,       \* tokens whose feeds have 0 decimals
          MaxReplacements   \* bounds the aggregators, per token

FeedsAssumption ==
    /\ rewardToken \in [Rewards -> RewardTokens] /\ NoDecimals \subseteq RewardTokens
    /\ MaxReplacements \in Nat

VARIABLES
    aggregator,  \* of each token, counted
    version,     \* of the method called
    feedPhase,   \* where the call is
    settling,    \* where the feed of each token is
    feeds,       \* those that were fulfilled
    priced,      \* what each reward is returned with
    replaced     \* history: tokens with a new aggregator between the requests

feedVars == <<aggregator, version, feedPhase, settling, feeds, priced, replaced>>

\* Where a price, or its decimals, are from: a feed of a token, what the
\* incentives themselves say of it, or nowhere.
Sources == [from : {"feed"}, token : RewardTokens, aggregator : 0..MaxReplacements]
    \cup [from : {"incentives"}, token : RewardTokens] \cup {[from |-> "nowhere"]}
Feed(t, k) == [from |-> "feed", token |-> t, aggregator |-> k]
OfIncentives(t) == [from |-> "incentives", token |-> t]
Nowhere == [from |-> "nowhere"]

Prices == [answer : Sources, decimals : Sources]
Unpriced == [r \in Rewards |-> [answer |-> Nowhere, decimals |-> Nowhere]]
Unsettled == [t \in RewardTokens |-> [stage |-> "latestRoundData", answer |-> Nowhere]]

FeedsTypeOK ==
    /\ aggregator \in [RewardTokens -> 0..MaxReplacements]
    /\ version \in {"v2", "v3"}
    /\ feedPhase \in {"idle", "incentives", "feeds", "returned", "failed"}
    /\ settling \in [RewardTokens -> [stage : {"latestRoundData", "decimals", "settled"},
                                answer : Sources]]
    /\ feeds \subseteq [token : RewardTokens, answer : Sources, decimals : Sources]
    /\ priced \in [Rewards -> Prices]
    /\ replaced \in SUBSET RewardTokens

FeedsInit ==
    /\ aggregator = [t \in RewardTokens |-> 0]
    /\ version = "v3"
    /\ feedPhase = "idle"
    /\ settling = Unsettled
    /\ feeds = {} /\ priced = Unpriced /\ replaced = {}

-----------------------------------------------------------------------------
ReadPrices(v) ==
    /\ feedPhase = "idle"
    /\ feedPhase' = "incentives" /\ version' = v
    /\ settling' = Unsettled /\ feeds' = {} /\ priced' = Unpriced /\ replaced' = {}
    /\ UNCHANGED aggregator

\* The feed whose rewardTokenAddress is t.
Missing(t) == [token |-> t, answer |-> Nowhere, decimals |-> Nowhere]

\* Find, mutated: it takes the first of the feeds there are.
Bug_Find(t) == IF feeds # {} THEN CHOOSE feed \in feeds : TRUE ELSE Missing(t)

Find(t) ==
    IF \E feed \in feeds : feed.token = t
    THEN CHOOSE feed \in feeds : feed.token = t
    ELSE Missing(t)

WithPrice(t) == [answer |-> Find(t).answer, decimals |-> Find(t).decimals]

\* An answer of '0' is taken; 0 decimals are not.
WithPriceLegacy(t) ==
    [answer |-> IF Find(t) = Missing(t) THEN OfIncentives(t) ELSE Find(t).answer,
     decimals |-> IF Find(t) = Missing(t) \/ t \in NoDecimals
                  THEN OfIncentives(t) ELSE Find(t).decimals]

\* The incentives are there.  Without a registry there are no feeds.
ReadIncentives(registry) ==
    /\ feedPhase = "incentives"
    /\ feedPhase' = "feeds"
    /\ settling' = IF registry THEN settling
                   ELSE [t \in RewardTokens |-> [settling[t] EXCEPT !.stage = "settled"]]
    /\ UNCHANGED <<aggregator, version, feeds, priced, replaced>>

IncentivesFail ==
    /\ feedPhase = "incentives"
    /\ feedPhase' = "failed"
    /\ UNCHANGED <<aggregator, version, settling, feeds, priced, replaced>>

ReadRound(t) ==
    /\ feedPhase = "feeds" /\ settling[t].stage = "latestRoundData"
    /\ settling' = [settling EXCEPT ![t] =
                       [stage |-> "decimals", answer |-> Feed(t, aggregator[t])]]
    /\ UNCHANGED <<aggregator, version, feedPhase, feeds, priced, replaced>>

\* The feed is fulfilled, with the answer of one request and the decimals of
\* another.
ReadDecimals(t) ==
    /\ feedPhase = "feeds" /\ settling[t].stage = "decimals"
    /\ feeds' = feeds \cup {[token |-> t, answer |-> settling[t].answer,
                             decimals |-> Feed(t, aggregator[t])]}
    /\ settling' = [settling EXCEPT ![t].stage = "settled"]
    /\ UNCHANGED <<aggregator, version, feedPhase, priced, replaced>>

\* The registry has no feed of the token, or cannot be reached.
FeedFails(t) ==
    /\ feedPhase = "feeds" /\ settling[t].stage # "settled"
    /\ settling' = [settling EXCEPT ![t].stage = "settled"]
    /\ UNCHANGED <<aggregator, version, feedPhase, feeds, priced, replaced>>

\* All feeds are settled.
AllSettled ==
    /\ feedPhase = "feeds" /\ \A t \in RewardTokens : settling[t].stage = "settled"
    /\ feedPhase' = "returned"
    /\ priced' = [r \in Rewards |-> IF version = "v3" THEN WithPriceLegacy(rewardToken[r])
                                    ELSE WithPrice(rewardToken[r])]
    /\ UNCHANGED <<aggregator, version, settling, feeds, replaced>>

FeedsReturn ==
    /\ feedPhase \in {"returned", "failed"}
    /\ feedPhase' = "idle"
    /\ UNCHANGED <<aggregator, version, settling, feeds, priced, replaced>>

ReplaceAggregator(t) ==
    /\ aggregator[t] < MaxReplacements
    /\ aggregator' = [aggregator EXCEPT ![t] = @ + 1]
    /\ replaced' = IF feedPhase = "feeds" /\ settling[t].stage = "decimals"
                   THEN replaced \cup {t} ELSE replaced
    /\ UNCHANGED <<version, feedPhase, settling, feeds, priced>>

FeedsNext ==
    \/ \E v \in {"v2", "v3"} : ReadPrices(v)
    \/ \E registry \in BOOLEAN : ReadIncentives(registry)
    \/ IncentivesFail \/ AllSettled \/ FeedsReturn
    \/ \E t \in RewardTokens :
        ReadRound(t) \/ ReadDecimals(t) \/ FeedFails(t) \/ ReplaceAggregator(t)

FeedsSpec == FeedsInit /\ [][FeedsNext]_feedVars
-----------------------------------------------------------------------------
\* Whichever feeds fail, and in whatever order the requests are answered, a
\* reward is priced by the feed of its own token if that was fulfilled, and by
\* what stands in for it otherwise; its price and its decimals are from one
\* source.  But for a feed whose aggregator was replaced between its requests,
\* and for one with 0 decimals, which v3 takes for no decimals at all
\* (getPriceFeed, getIncentivesDataWithPrice and ...Legacy).
RewardsPriced ==
    feedPhase = "returned" =>
        \A r \in Rewards :
            LET t == rewardToken[r]
                p == priced[r]
                fulfilled == \E f \in feeds : f.token = t
            IN  /\ fulfilled => p.answer.from = "feed" /\ p.answer.token = t
                /\ ~fulfilled =>
                       p.answer = IF version = "v3" THEN OfIncentives(t) ELSE Nowhere
                /\ p.decimals # p.answer =>
                       fulfilled /\ (t \in replaced \/ (version = "v3" /\ t \in NoDecimals))
=============================================================================
