----------------------------- MODULE Incentives -----------------------------
(***************************************************************************)
(* The rewards a client shows as claimable: it reads four contracts' views *)
(* one after the other (the sample of README.md:191-213), and from then on *)
(* calculateAllUserIncentives extrapolates what it read to its own clock.  *)
(*                                                                         *)
(* Rewards accrue on the chain per token (the supply and the two debt      *)
(* tokens of a reserve): an index says what one unit has earned so far, in *)
(* units of 1/Precision, rounded down whenever somebody moves the token.   *)
(* The client keeps fractions, so it never shows less than is paid out,    *)
(* nor as much as a unit more per token.  The chain is external.           *)
(*                                                                         *)
(* There is one user and one reward, paid for every token of Tokens.       *)
(***************************************************************************)
EXTENDS Integers, FiniteSets, Functions

CONSTANTS Tokens,      \* that earn the reward
          Drifting,    \* those whose supply the client works out (see ReadReserves)
          Emission,    \* reward units per second and token
          Precision,   \* of the indexes: 10^precision in the code
          Whole,       \* a multiple of all supplies
          EmissionEnd, \* when it stops
          MaxBalance,  \* bounds of what the user and the others hold of a token,
          MaxOthers,
          MaxDrift,    \* of the error in the supply,
          MaxMoves,    \* of the number of transactions
          MaxTime      \* and of the time

MaxTotal == MaxBalance + MaxOthers + MaxDrift

ASSUME ParametersAssumption ==
    /\ IsFiniteSet(Tokens) /\ Tokens # {} /\ Drifting \subseteq Tokens
    /\ Emission \in Nat /\ Precision \in Nat \ {0} /\ EmissionEnd \in Nat
    /\ MaxBalance \in Nat /\ MaxOthers \in Nat /\ MaxDrift \in Nat
    /\ MaxMoves \in Nat /\ MaxTime \in Nat
    /\ Whole \in Nat \ {0} /\ \A n \in 1..MaxTotal : Whole % n = 0

\* A fraction of a reward is a number of 1/Parts.
Parts == Precision * Whole

\* The sum of f over the tokens of S.
Sum(f, S) == SumFunctionOnSet(f, S)

VARIABLES
    now,        \* the time of the chain
    total,      \* the supply of each token
    index,      \* its reward index
    updated,    \* when the index was updated
    balance,    \* what the user holds
    userIndex,  \* the index at the user's last move
    unclaimed,  \* rewards credited to the user before that
    moves,      \* number of transactions
    seen,       \* what the client has read
    step        \* which of the four views it reads next

chain == <<total, index, updated, balance, userIndex, unclaimed, moves>>
vars == <<now, chain, seen, step>>

Indexes == 0 .. Emission * EmissionEnd * Precision

TypeOK ==
    /\ now \in 0..MaxTime
    /\ total \in [Tokens -> 0 .. MaxBalance + MaxOthers]
    /\ index \in [Tokens -> Indexes]
    /\ updated \in [Tokens -> 0..MaxTime]
    /\ balance \in [Tokens -> 0..MaxBalance]
    /\ userIndex \in [Tokens -> Indexes]
    /\ unclaimed \in Nat
    /\ moves \in 0..MaxMoves
    /\ seen \in [total : [Tokens -> 0..MaxTotal], balance : [Tokens -> 0..MaxBalance],
                 index : [Tokens -> Indexes], updated : [Tokens -> 0..MaxTime],
                 userIndex : [Tokens -> Indexes], unclaimed : Nat]
    /\ step \in {"reserves", "userReserves", "reserveIncentives", "userIncentives", "done"}

Zero == [a \in Tokens |-> 0]

Init ==
    /\ now = 0
    /\ total = Zero /\ index = Zero /\ updated = Zero
    /\ balance = Zero /\ userIndex = Zero /\ unclaimed = 0 /\ moves = 0
    /\ seen = [total |-> Zero, balance |-> Zero, index |-> Zero, updated |-> Zero,
               userIndex |-> Zero, unclaimed |-> 0]
    /\ step = "reserves"

Earlier(t, u) == IF t < u THEN t ELSE u

-----------------------------------------------------------------------------
\* IndexNow, mutated: an emission that ended is run backwards.
Bug_IndexNowAfterEnd(a) ==
    IF total[a] = 0 THEN index[a]
    ELSE index[a] + (Emission * (Earlier(now, EmissionEnd) - updated[a]) * Precision) \div total[a]

\* The chain.  The index of a now; rewards of seconds in which nobody holds it
\* are lost.
IndexNow(a) ==
    IF total[a] = 0 \/ updated[a] >= EmissionEnd THEN index[a]
    ELSE index[a] + (Emission * (Earlier(now, EmissionEnd) - updated[a]) * Precision) \div total[a]

\* What the user has earned with a since the last move.
Earned(a) == (balance[a] * (IndexNow(a) - userIndex[a])) \div Precision

\* What a claim would pay.
Payout == unclaimed + Sum([a \in Tokens |-> Earned(a)], Tokens)

Move == moves < MaxMoves /\ moves' = moves + 1

\* The user supplies, borrows, withdraws or repays, which credits the rewards.
UserMoves(a, held) ==
    /\ Move /\ held # balance[a]
    /\ balance' = [balance EXCEPT ![a] = held]
    /\ total' = [total EXCEPT ![a] = @ - balance[a] + held]
    /\ index' = [index EXCEPT ![a] = IndexNow(a)]
    /\ updated' = [updated EXCEPT ![a] = now]
    /\ userIndex' = [userIndex EXCEPT ![a] = IndexNow(a)]
    /\ unclaimed' = unclaimed + Earned(a)
    /\ UNCHANGED <<now, seen, step>>

OthersMove(a, held) ==
    /\ Move /\ balance[a] + held # total[a]
    /\ total' = [total EXCEPT ![a] = balance[a] + held]
    /\ index' = [index EXCEPT ![a] = IndexNow(a)]
    /\ updated' = [updated EXCEPT ![a] = now]
    /\ UNCHANGED <<now, balance, userIndex, unclaimed, seen, step>>

Claim ==
    /\ Move /\ Payout > 0
    /\ index' = [a \in Tokens |-> IndexNow(a)]
    /\ updated' = [a \in Tokens |-> now]
    /\ userIndex' = [a \in Tokens |-> IndexNow(a)]
    /\ unclaimed' = 0
    /\ UNCHANGED <<now, total, balance, seen, step>>

Tick ==
    /\ now < MaxTime
    /\ now' = now + 1
    /\ UNCHANGED <<chain, seen, step>>

-----------------------------------------------------------------------------
\* The client reads once; what it reads later it would read of such a state too.
\* getReservesHumanized: the supply of a debt token is read, that
\* of the supply token is later worked out as liquidity over index, of which
\* the first has accrued interest and the second has not: it comes out larger.
ReadReserves ==
    /\ step = "reserves"
    /\ \E drift \in [Tokens -> 0..MaxDrift] :
        /\ \A a \in Tokens : a \notin Drifting \/ total[a] = 0 => drift[a] = 0
        /\ seen' = [seen EXCEPT !.total = [a \in Tokens |-> total[a] + drift[a]]]
    /\ step' = "userReserves"
    /\ UNCHANGED <<now, chain>>

\* getUserReservesHumanized.
ReadUserReserves ==
    /\ step = "userReserves"
    /\ seen' = [seen EXCEPT !.balance = balance]
    /\ step' = "reserveIncentives"
    /\ UNCHANGED <<now, chain>>

\* getReservesIncentivesDataHumanized.
ReadReserveIncentives ==
    /\ step = "reserveIncentives"
    /\ seen' = [seen EXCEPT !.index = index, !.updated = updated]
    /\ step' = "userIncentives"
    /\ UNCHANGED <<now, chain>>

\* ReadUserIncentives, mutated: the user's index is shifted by the precision.
Bug_ReadUserIncentivesShifted ==
    /\ step = "userIncentives"
    /\ seen' = [seen EXCEPT !.userIndex = [a \in Tokens |-> Precision * userIndex[a]],
                            !.unclaimed = unclaimed]
    /\ step' = "done"
    /\ UNCHANGED <<now, chain>>

\* getUserReservesIncentivesDataHumanized: its userUnclaimedRewards are those
\* of the reward, whatever token they were earned with.
ReadUserIncentives ==
    /\ step = "userIncentives"
    /\ seen' = [seen EXCEPT !.userIndex = userIndex, !.unclaimed = unclaimed]
    /\ step' = "done"
    /\ UNCHANGED <<now, chain>>

Next ==
    \/ \E a \in Tokens :
        \/ \E held \in 0..MaxBalance : UserMoves(a, held)
        \/ \E held \in 0..MaxOthers : OthersMove(a, held)
    \/ Claim \/ Tick
    \/ ReadReserves \/ ReadUserReserves \/ ReadReserveIncentives \/ ReadUserIncentives

Spec == Init /\ [][Next]_vars

-----------------------------------------------------------------------------
\* ProjectedIndex, mutated: the emission has no end.
Bug_ProjectedIndexEndless(a, t) ==
    IF seen.updated[a] >= t THEN Whole * seen.index[a]
    ELSE Emission * (t - seen.updated[a]) * Precision * (Whole \div seen.total[a])
         + Whole * seen.index[a]

\* ProjectedIndex, mutated: only the clock is compared with the last update.
Bug_ProjectedIndexAfterEnd(a, t) ==
    IF seen.updated[a] >= t THEN Whole * seen.index[a]
    ELSE Emission * (Earlier(t, EmissionEnd) - seen.updated[a]) * Precision
            * (Whole \div seen.total[a])
         + Whole * seen.index[a]

\* currentReserveIndex at the client's time t, times Whole.
ProjectedIndex(a, t) ==
    IF seen.updated[a] >= t \/ seen.updated[a] >= EmissionEnd THEN Whole * seen.index[a]
    ELSE Emission * (Earlier(t, EmissionEnd) - seen.updated[a]) * Precision
            * (Whole \div seen.total[a])
         + Whole * seen.index[a]

\* calculateAccruedIncentives, in 1/Parts.
Accrued(a, t) ==
    IF seen.total[a] = 0 THEN 0
    ELSE seen.balance[a] * (ProjectedIndex(a, t) - Whole * seen.userIndex[a])

\* Claimable, mutated: what accrued is added unchecked.
Bug_ClaimableUnchecked(t) ==
    Parts * seen.unclaimed + Sum([a \in Tokens |-> Accrued(a, t)], Tokens)

\* claimableRewards of calculateAllUserIncentives, in 1/Parts.
Claimable(t) ==
    Parts * seen.unclaimed
    + Sum([a \in Tokens |-> Accrued(a, t)], {a \in Tokens : Accrued(a, t) > 0})

-----------------------------------------------------------------------------
\* Everything was read at one state of the chain, but for the drift.
OneSnapshot ==
    /\ seen.balance = balance /\ seen.index = index /\ seen.updated = updated
    /\ seen.userIndex = userIndex /\ seen.unclaimed = unclaimed
    /\ \A a \in Tokens \ Drifting : seen.total[a] = total[a]
    /\ \A a \in Drifting : seen.total[a] >= total[a] /\ (total[a] = 0 => seen.total[a] = 0)

\* What a balance earns was emitted, and since the user's last move: no index
\* is ahead of the emission or behind the user's, no user holds more than all.
IndexesInOrder ==
    \A a \in Tokens :
        /\ updated[a] <= now
        /\ balance[a] <= total[a] /\ total[a] - balance[a] <= MaxOthers
        /\ userIndex[a] <= index[a]
        /\ index[a] <= Emission * Earlier(updated[a], EmissionEnd) * Precision

\* What is shown for a snapshot at the time of the chain is never a unit per
\* token more than a claim would pay (but for the rounding of the index), and
\* never less if the supplies are right.
EstimateMatchesPayout ==
    OneSnapshot =>
        /\ Claimable(now) < Parts * (Payout + Cardinality(Tokens))
                            + Whole * Sum(balance, Tokens)
        /\ seen.total = total => Claimable(now) >= Parts * Payout

\* However old or torn the reads are, and whatever the client's clock: time
\* alone never makes the shown rewards shrink, nor grow after the emission.
EstimateFollowsEmission ==
    \A t \in 0 .. MaxTime - 1 :
        /\ Claimable(t) <= Claimable(t + 1)
        /\ t >= EmissionEnd => Claimable(t) = Claimable(t + 1)

\* Nor do torn reads eat what was credited: the user's index is read after the
\* token's and may be ahead of it, and what then comes out negative is ignored.
UnclaimedKept == \A t \in 0..MaxTime : Claimable(t) >= Parts * seen.unclaimed
=============================================================================
