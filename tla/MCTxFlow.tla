------------------------------ MODULE MCTxFlow ------------------------------
(* Instances of TxFlow for TLC *)
EXTENDS TxFlow, TLC

\* The methods that ask for more than the amount whose allowance they checked.
SweepingOps == {op \in AllOps : op.asksMore}

\* L2Pool.liquidationCall, whose gas() does not see the approval.
BlindOps == {L2Pool_liquidationCall(FALSE)}

\* All the others.
CheckedOps == AllOps \ (SweepingOps \cup BlindOps)

\* Methods for calls that overlap: two that share a pair (one of them
\* optimized), and one of another pair.
OverlappingOps == {Pool_repay, L2Pool_supply, WBNBGateway_withdrawBNB}
=============================================================================
