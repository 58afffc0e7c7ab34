----------------------------- MODULE GasLimits -----------------------------
(***************************************************************************)
(* The gas limit of one transaction: tx() of the services, made by         *)
(* generateTxCallback, and estimateGasLimit of the bundles.  Both ask the  *)
(* provider for an estimate and, once that is answered, for its network,   *)
(* which decides what is added; the wallet may switch in between.  tx()    *)
(* fails with its requests, estimateGasLimit falls back to the limit of    *)
(* the action.                                                             *)
(***************************************************************************)
EXTENDS Naturals

CONSTANTS Estimates,        \* the provider may answer
          Recommendations,  \* of each action, and of "default"
          Surpluses         \* that methods ask for

VARIABLES
    network,      \* that the wallet is on
    call,         \* method, action and gasSurplus
    gasPhase,
    estimated,    \* by the provider; 0 before
    gasLimit,     \* given to the transaction
    dueOn         \* history: the network of the estimate, unless the wallet left it

gasVars == <<network, call, gasPhase, estimated, gasLimit, dueOn>>

GasAssumption ==
    /\ Estimates \subseteq Nat \ {0} /\ Surpluses \subseteq 1..29
    /\ "default" \in DOMAIN Recommendations
    /\ Recommendations \in [DOMAIN Recommendations -> [limit : Nat, recommended : Nat]]
    /\ \A a \in DOMAIN Recommendations :
           Recommendations[a].limit <= Recommendations[a].recommended

Networks == {"polygon", "other"}
NoSurplus == 0  \* it is not given
NoAction == "none"
Call == [method : {"tx", "estimateGasLimit"}, gasSurplus : Surpluses \cup {NoSurplus},
         action : DOMAIN Recommendations \cup {NoAction}]

GasTypeOK ==
    /\ network \in Networks /\ dueOn \in Networks
    /\ call \in Call
    /\ gasPhase \in {"idle", "estimateGas", "getNetwork", "done", "failed"}
    /\ estimated \in Estimates \cup {0}
    /\ gasLimit \in Nat

GasInit ==
    /\ network = "other" /\ dueOn = network
    /\ call = [method |-> "tx", gasSurplus |-> NoSurplus, action |-> NoAction]
    /\ gasPhase = "idle" /\ estimated = 0 /\ gasLimit = 0

-----------------------------------------------------------------------------
\* The limit that estimateGasLimit uses at least.
LimitOf(action) == Recommendations[IF action = NoAction THEN "default" ELSE action].limit

WithSurplus(gas, gasSurplus, on) ==
    LET surplus == IF on = "polygon" THEN 60
                   ELSE IF gasSurplus = NoSurplus THEN 30 ELSE gasSurplus
    IN  gas + (gas * surplus) \div 100

\* Recommended, mutated: any estimate is replaced.
Bug_Recommended(gas, action) ==
    IF action # NoAction THEN Recommendations[action].recommended ELSE gas

\* What tx() takes, an estimate with its surplus being what it is.
Recommended(gas, action) ==
    IF action # NoAction /\ gas <= Recommendations[action].limit
    THEN Recommendations[action].recommended ELSE gas

Ends(how, limit) == gasPhase' = how /\ gasLimit' = limit

EstimateGas(new) ==
    /\ gasPhase = "idle"
    /\ call' = new /\ gasPhase' = "estimateGas" /\ estimated' = 0 /\ gasLimit' = 0
    /\ UNCHANGED <<network, dueOn>>

SkipGasEstimation(new) ==
    /\ gasPhase = "idle" /\ new.method = "estimateGasLimit"
    /\ call' = new /\ estimated' = 0
    /\ Ends("done", LimitOf(new.action))
    /\ UNCHANGED <<network, dueOn>>

Estimated(gas) ==
    /\ gasPhase = "estimateGas"
    /\ gasPhase' = "getNetwork" /\ estimated' = gas /\ dueOn' = network
    /\ UNCHANGED <<network, call, gasLimit>>

NetworkAnswered ==
    LET gas == WithSurplus(estimated, call.gasSurplus, network)
        limit == LimitOf(call.action)
    IN  /\ gasPhase = "getNetwork"
        /\ Ends("done", IF call.method = "tx" THEN Recommended(gas, call.action)
                        ELSE IF gas > limit THEN gas ELSE limit)
        /\ UNCHANGED <<network, call, estimated, dueOn>>

\* One of the two requests fails.
EstimateFails ==
    /\ gasPhase \in {"estimateGas", "getNetwork"}
    /\ IF call.method = "tx" THEN Ends("failed", 0)
       ELSE Ends("done", LimitOf(call.action))
    /\ estimated' = 0
    /\ UNCHANGED <<network, call, dueOn>>

GasReturn ==
    /\ gasPhase \in {"done", "failed"}
    /\ gasPhase' = "idle"
    /\ UNCHANGED <<network, call, estimated, gasLimit, dueOn>>

\* The wallet switches.
SwitchNetwork(on) ==
    /\ on # network
    /\ network' = on
    /\ dueOn' = IF gasPhase = "getNetwork" THEN "other" ELSE dueOn
    /\ UNCHANGED <<call, gasPhase, estimated, gasLimit>>

GasNext ==
    \/ \E new \in Call : EstimateGas(new) \/ SkipGasEstimation(new)
    \/ \E gas \in Estimates : Estimated(gas)
    \/ NetworkAnswered \/ EstimateFails \/ GasReturn
    \/ \E on \in Networks : SwitchNetwork(on)

GasSpec == GasInit /\ [][GasNext]_gasVars
-----------------------------------------------------------------------------
\* Whatever fails, a transaction is sent with no less gas than the limit of its
\* action, nor than the estimate and the surplus that is due on the network it
\* was made on, if the wallet stays there until the network is asked for, or the
\* least one if not; the recommended limit that replaces a small estimate
\* included (generateTxCallback, estimateGasLimit, estimateGasByNetwork).
LimitSuffices ==
    gasPhase = "done" =>
        /\ call.action # NoAction \/ call.method = "estimateGasLimit" =>
               gasLimit >= LimitOf(call.action)
        /\ gasLimit >= WithSurplus(estimated, call.gasSurplus, dueOn)
=============================================================================
