-------------------------- MODULE Incentives_proofs --------------------------
(***************************************************************************)
(* Proofs about Incentives: types and the order of the indexes, that what  *)
(* is shown only grows with time and never eats what was credited, and     *)
(* that what is shown of one snapshot is what a claim would pay but for    *)
(* the rounding.  The sums over the tokens are reasoned about with the     *)
(* lemmas of SumTheorems.                                                  *)
(***************************************************************************)
EXTENDS Incentives, SumTheorems

IncentivesInv == TypeOK /\ IndexesInOrder

USE ParametersAssumption DEF MaxTotal

-----------------------------------------------------------------------------
\* Arithmetic: what division rounds away, and products in order.
LEMMA DivisionRounds ==
    \A n \in Nat, d \in Nat \ {0} :
        /\ n \div d \in Nat /\ n \div d <= n
        /\ d * (n \div d) <= n /\ n < d * (n \div d) + d
OBVIOUS

\* Products of naturals.
LEMMA ProductInNat == \A m, n \in Nat : m * n \in Nat
OBVIOUS

\* They grow with a factor.
LEMMA ProductGrows == \A k \in Nat, m, n \in Int : m <= n => k * m <= k * n
OBVIOUS

-----------------------------------------------------------------------------
\* Types and order.
LEMMA EarlierType ==
    \A t, u \in Nat : /\ Earlier(t, u) \in Nat
                      /\ Earlier(t, u) <= t /\ Earlier(t, u) <= u
                      /\ (Earlier(t, u) = t \/ Earlier(t, u) = u)
BY DEF Earlier

\* What was emitted by the time t bounds every index, and grows with t.
LEMMA EmittedBounds ==
    ASSUME NEW t \in Nat, NEW u \in Nat, t <= u
    PROVE  /\ Emission * Earlier(t, EmissionEnd) * Precision \in Nat
           /\ Emission * Earlier(t, EmissionEnd) * Precision
                <= Emission * Earlier(u, EmissionEnd) * Precision
           /\ Emission * Earlier(t, EmissionEnd) * Precision \in Indexes
<1> DEFINE et == Earlier(t, EmissionEnd)
           eu == Earlier(u, EmissionEnd)
<1>1. et \in Nat /\ eu \in Nat /\ et <= eu /\ et <= EmissionEnd
  BY DEF Earlier
<1> HIDE DEF et, eu
<1>2. Emission * et <= Emission * eu /\ Emission * et <= Emission * EmissionEnd
  BY <1>1, ProductGrows
<1>3. Emission * et \in Nat /\ Emission * eu \in Nat /\ Emission * EmissionEnd \in Nat
  BY <1>1, ProductInNat
<1> DEFINE pt == Emission * et
           pu == Emission * eu
           pe == Emission * EmissionEnd
<1> HIDE DEF pt, pu, pe
<1>4. pt \in Nat /\ pu \in Nat /\ pe \in Nat /\ pt <= pu /\ pt <= pe
  BY <1>2, <1>3 DEF pt, pu, pe
<1>5. /\ pt * Precision \in Nat
      /\ pt * Precision <= pu * Precision /\ pt * Precision <= pe * Precision
  BY <1>4
<1> QED
  BY <1>5 DEF pt, pu, pe, et, eu, Indexes

\* The index of now is at least the index read last and at most what was emitted.
LEMMA IndexNowBounds ==
    ASSUME IncentivesInv, NEW a \in Tokens
    PROVE  /\ IndexNow(a) \in Nat /\ index[a] <= IndexNow(a)
           /\ IndexNow(a) <= Emission * Earlier(now, EmissionEnd) * Precision
           /\ IndexNow(a) \in Indexes
<1> DEFINE e == Earlier(now, EmissionEnd)
           u == Earlier(updated[a], EmissionEnd)
<1>1. /\ now \in Nat /\ updated[a] \in Nat /\ updated[a] <= now
      /\ index[a] \in Nat /\ total[a] \in Nat
      /\ index[a] <= Emission * u * Precision
  BY DEF IncentivesInv, TypeOK, IndexesInOrder, Indexes
<1>2. /\ Emission * u * Precision <= Emission * e * Precision
      /\ Emission * e * Precision \in Indexes
  BY <1>1, EmittedBounds
<1>3. e \in Nat /\ u \in Nat
  BY <1>1, EarlierType
<1>4. CASE total[a] = 0 \/ updated[a] >= EmissionEnd
  <2>1. IndexNow(a) = index[a]
    BY <1>4 DEF IndexNow
  <2> QED
    BY <2>1, <1>1, <1>2, <1>3 DEF Indexes
<1>5. CASE total[a] # 0 /\ updated[a] < EmissionEnd
  <2> DEFINE n == Emission * (e - updated[a]) * Precision
             k == n \div total[a]
  <2>1. u = updated[a] /\ e - u \in Nat
    BY <1>1, <1>5 DEF Earlier
  <2>2. n \in Nat
    BY <2>1, ProductInNat
  <2>3. k \in Nat /\ k <= n
    BY <2>2, <1>1, <1>5, DivisionRounds
  <2>4. IndexNow(a) = index[a] + k
    BY <1>1, <1>5 DEF IndexNow
  <2>5. n = Emission * e * Precision - Emission * u * Precision
    BY <2>1, <1>3
  <2>6. Emission * e * Precision \in Nat /\ Emission * u * Precision \in Nat
    BY <1>3, ProductInNat
  <2> DEFINE pe == Emission * e * Precision
             pu == Emission * u * Precision
  <2> HIDE DEF pe, pu, n, k, e, u
  <2>7. /\ k \in Nat /\ k <= pe - pu /\ index[a] <= pu /\ pe \in Nat /\ pu \in Nat
        /\ pe \in 0 .. Emission * EmissionEnd * Precision
    BY <2>3, <2>5, <2>6, <1>1, <1>2 DEF pe, pu, Indexes
  <2>8. index[a] + k \in Nat /\ index[a] + k <= pe
    BY <2>7, <1>1
  <2>9. index[a] + k \in Indexes
    BY <2>7, <2>8 DEF Indexes
  <2> QED
    BY <2>4, <2>7, <2>8, <2>9, <1>1 DEF pe, e
<1> QED
  BY <1>4, <1>5, <1>1

\* What is earned is a number: the index of now is not behind the user's.
LEMMA EarnedType ==
    ASSUME IncentivesInv, NEW a \in Tokens
    PROVE  /\ balance[a] * (IndexNow(a) - userIndex[a]) \in Nat
           /\ Earned(a) \in Nat
<1>1. /\ balance[a] \in Nat /\ userIndex[a] \in Nat /\ userIndex[a] <= index[a]
      /\ index[a] \in Nat
  BY DEF IncentivesInv, TypeOK, IndexesInOrder, Indexes
<1>2. IndexNow(a) - userIndex[a] \in Nat
  BY <1>1, IndexNowBounds
<1>3. balance[a] * (IndexNow(a) - userIndex[a]) \in Nat
  BY <1>1, <1>2, ProductInNat
<1> QED
  BY <1>3, DivisionRounds DEF Earned

\* The types and the order hold at first.
LEMMA IncentivesInit == Init => IncentivesInv
<1> SUFFICES ASSUME Init PROVE IncentivesInv
  OBVIOUS
<1>1. 0 \in Indexes /\ 0 <= Emission * Earlier(0, EmissionEnd) * Precision
  BY EmittedBounds DEF Indexes
<1>2. TypeOK
  BY <1>1 DEF Init, TypeOK, Zero
<1>3. IndexesInOrder
  BY <1>1 DEF Init, IndexesInOrder, Zero
<1> QED
  BY <1>2, <1>3 DEF IncentivesInv

\* Every step keeps them.
LEMMA IncentivesStep == IncentivesInv /\ [Next]_vars => IncentivesInv'
<1> SUFFICES ASSUME IncentivesInv, [Next]_vars PROVE IncentivesInv'
  OBVIOUS
<1> USE DEF IncentivesInv
<1>0. /\ now \in Nat /\ unclaimed \in Nat
      /\ \A a \in Tokens : updated[a] \in Nat /\ total[a] \in Nat /\ balance[a] \in Nat
  BY DEF TypeOK
<1>1. ASSUME NEW a \in Tokens, NEW held \in 0..MaxBalance, UserMoves(a, held) PROVE IncentivesInv'
  <2>1. TypeOK'
    <3>1. unclaimed' \in Nat
      BY <1>1, <1>0, EarnedType DEF UserMoves
    <3>2. index' \in [Tokens -> Indexes] /\ userIndex' \in [Tokens -> Indexes]
      BY <1>1, IndexNowBounds DEF UserMoves, TypeOK
    <3>3. total' \in [Tokens -> 0 .. MaxBalance + MaxOthers]
      <4>1. /\ total[a] \in Nat /\ balance[a] \in Nat /\ balance[a] <= total[a]
            /\ total[a] - balance[a] <= MaxOthers
        BY DEF TypeOK, IndexesInOrder
      <4>2. total[a] - balance[a] + held \in 0 .. MaxBalance + MaxOthers
        BY <4>1
      <4> QED
        BY <1>1, <4>2 DEF UserMoves, TypeOK
    <3> QED
      BY <1>1, <3>1, <3>2, <3>3 DEF UserMoves, Move, TypeOK
  <2>2. IndexesInOrder'
    <3> SUFFICES ASSUME NEW b \in Tokens
                 PROVE  /\ updated'[b] <= now' /\ balance'[b] <= total'[b]
                        /\ total'[b] - balance'[b] <= MaxOthers
                        /\ userIndex'[b] <= index'[b]
                        /\ index'[b] <= Emission * Earlier(updated'[b], EmissionEnd) * Precision
      BY DEF IndexesInOrder
    <3>1. CASE b = a
      BY <1>1, <1>0, <3>1, IndexNowBounds DEF UserMoves, TypeOK, IndexesInOrder
    <3>2. CASE b # a
      BY <1>1, <3>2 DEF UserMoves, TypeOK, IndexesInOrder
    <3> QED
      BY <3>1, <3>2
  <2> QED
    BY <2>1, <2>2
<1>2. ASSUME NEW a \in Tokens, NEW held \in 0..MaxOthers, OthersMove(a, held) PROVE IncentivesInv'
  <2>1. TypeOK'
    <3>1. index' \in [Tokens -> Indexes]
      BY <1>2, IndexNowBounds DEF OthersMove, TypeOK
    <3>2. balance[a] + held \in 0 .. MaxBalance + MaxOthers
      BY DEF TypeOK
    <3> QED
      BY <1>2, <3>1, <3>2 DEF OthersMove, Move, TypeOK
  <2>2. IndexesInOrder'
    <3> SUFFICES ASSUME NEW b \in Tokens
                 PROVE  /\ updated'[b] <= now' /\ balance'[b] <= total'[b]
                        /\ total'[b] - balance'[b] <= MaxOthers
                        /\ userIndex'[b] <= index'[b]
                        /\ index'[b] <= Emission * Earlier(updated'[b], EmissionEnd) * Precision
      BY DEF IndexesInOrder
    <3>1. CASE b = a
      <4>1. /\ userIndex[a] <= index[a] /\ userIndex[a] \in Nat /\ index[a] \in Nat
        BY DEF TypeOK, IndexesInOrder, Indexes
      <4> QED
        BY <1>2, <1>0, <3>1, <4>1, IndexNowBounds DEF OthersMove, TypeOK
    <3>2. CASE b # a
      BY <1>2, <3>2 DEF OthersMove, TypeOK, IndexesInOrder
    <3> QED
      BY <3>1, <3>2
  <2> QED
    BY <2>1, <2>2
<1>3. CASE Claim
  <2>1. TypeOK'
    BY <1>3, IndexNowBounds DEF Claim, Move, TypeOK
  <2>2. IndexesInOrder'
    BY <1>3, <1>0, IndexNowBounds DEF Claim, IndexesInOrder
  <2> QED
    BY <2>1, <2>2
<1>4. CASE Tick
  BY <1>4, <1>0 DEF Tick, chain, TypeOK, IndexesInOrder
<1>5. CASE ReadReserves
  <2>1. PICK drift \in [Tokens -> 0..MaxDrift] :
           seen' = [seen EXCEPT !.total = [a \in Tokens |-> total[a] + drift[a]]]
    BY <1>5 DEF ReadReserves
  <2>2. [a \in Tokens |-> total[a] + drift[a]] \in [Tokens -> 0..MaxTotal]
    BY DEF TypeOK
  <2>3. TypeOK'
    BY <1>5, <2>1, <2>2 DEF ReadReserves, chain, TypeOK
  <2> QED
    BY <1>5, <2>3 DEF ReadReserves, chain, IndexesInOrder
<1>6. CASE ReadUserReserves
  BY <1>6 DEF ReadUserReserves, chain, TypeOK, IndexesInOrder
<1>7. CASE ReadReserveIncentives
  BY <1>7 DEF ReadReserveIncentives, chain, TypeOK, IndexesInOrder
<1>8. CASE ReadUserIncentives
  BY <1>8 DEF ReadUserIncentives, chain, TypeOK, IndexesInOrder
<1>9. CASE UNCHANGED vars
  BY <1>9 DEF vars, chain, TypeOK, IndexesInOrder
<1> QED
  BY <1>1, <1>2, <1>3, <1>4, <1>5, <1>6, <1>7, <1>8, <1>9 DEF Next

\* The variables of Incentives keep their types.
THEOREM IncentivesTyped == Spec => []TypeOK
<1>1. IncentivesInv => TypeOK
  BY DEF IncentivesInv
<1> QED
  BY <1>1, IncentivesInit, IncentivesStep, PTL DEF Spec

\* No index is ahead of the emission, nor the user's ahead of the token's,
\* however the moves of the user, of the others and the claims interleave.
THEOREM IndexesOrdered == Spec => []IndexesInOrder
<1>1. IncentivesInv => IndexesInOrder
  BY DEF IncentivesInv
<1> QED
  BY <1>1, IncentivesInit, IncentivesStep, PTL DEF Spec

-----------------------------------------------------------------------------
\* What is shown.
LEMMA SeenTypes ==
    ASSUME TypeOK, NEW a \in Tokens
    PROVE  /\ seen.total[a] \in 0..MaxTotal /\ seen.balance[a] \in Nat
           /\ seen.index[a] \in Nat /\ seen.updated[a] \in Nat
           /\ seen.userIndex[a] \in Nat /\ seen.unclaimed \in Nat
BY DEF TypeOK, Indexes

\* There are parts.
LEMMA PartsType == Parts \in Nat \ {0}
BY DEF Parts

\* An index that is projected grows with the clock, until the emission ends.
LEMMA ProjectedGrows ==
    ASSUME TypeOK, NEW a \in Tokens, seen.total[a] # 0,
           NEW t \in Nat, NEW u \in Nat, t <= u
    PROVE  /\ ProjectedIndex(a, t) \in Int /\ ProjectedIndex(a, u) \in Int
           /\ ProjectedIndex(a, t) <= ProjectedIndex(a, u)
           /\ t >= EmissionEnd => ProjectedIndex(a, t) = ProjectedIndex(a, u)
<1> DEFINE since(c) == Earlier(c, EmissionEnd) - seen.updated[a]
           share == Whole \div seen.total[a]
           read == Whole * seen.index[a]
           more(c) == Emission * since(c) * Precision * share
<1>1. /\ share \in Nat /\ read \in Nat /\ seen.updated[a] \in Nat
  BY SeenTypes, DivisionRounds, ProductInNat
<1>2. \A c \in Nat : Earlier(c, EmissionEnd) \in Nat
  BY EarlierType
<1>3. \A c \in Nat : /\ since(c) \in Int
                     /\ c >= seen.updated[a] /\ EmissionEnd >= seen.updated[a] => since(c) \in Nat
  BY <1>1, <1>2 DEF Earlier
<1>4. since(t) <= since(u) /\ (t >= EmissionEnd => since(t) = since(u))
  BY <1>1, <1>2 DEF Earlier
<1>5. \A c \in Nat : ProjectedIndex(a, c) =
         IF seen.updated[a] >= c \/ seen.updated[a] >= EmissionEnd THEN read
         ELSE more(c) + read
  BY DEF ProjectedIndex
<1> HIDE DEF since, share, read
<1>6. \A c \in Nat : more(c) \in Int /\ (since(c) \in Nat => more(c) \in Nat)
  <2> SUFFICES ASSUME NEW c \in Nat PROVE more(c) \in Int /\ (since(c) \in Nat => more(c) \in Nat)
    OBVIOUS
  <2>1. Emission * Precision * share \in Nat
    BY <1>1, ProductInNat
  <2>2. more(c) = since(c) * (Emission * Precision * share)
    BY <1>1, <1>3
  <2> DEFINE k == Emission * Precision * share
  <2> HIDE DEF k
  <2>3. k \in Nat /\ since(c) * k \in Int /\ (since(c) \in Nat => since(c) * k \in Nat)
    BY <2>1, <1>3, ProductInNat DEF k
  <2> QED
    BY <2>2, <2>3 DEF k
<1>7. more(t) <= more(u) /\ (t >= EmissionEnd => more(t) = more(u))
  <2>1. Emission * Precision * share \in Nat
    BY <1>1, ProductInNat
  <2> DEFINE k == Emission * Precision * share
  <2>2. more(t) = k * since(t) /\ more(u) = k * since(u)
    BY <1>1, <1>3
  <2> HIDE DEF k
  <2>3. k * since(t) <= k * since(u)
    BY <2>1, <1>3, <1>4, ProductGrows DEF k
  <2> QED
    BY <2>2, <2>3, <1>4
<1> HIDE DEF more
<1> QED
  BY <1>1, <1>3, <1>5, <1>6, <1>7

\* So does what accrued.
LEMMA AccruedGrows ==
    ASSUME TypeOK, NEW a \in Tokens, NEW t \in Nat, NEW u \in Nat, t <= u
    PROVE  /\ Accrued(a, t) \in Int /\ Accrued(a, u) \in Int
           /\ Accrued(a, t) <= Accrued(a, u)
           /\ t >= EmissionEnd => Accrued(a, t) = Accrued(a, u)
<1>1. CASE seen.total[a] = 0
  BY <1>1 DEF Accrued
<1>2. CASE seen.total[a] # 0
  <2> DEFINE pt == ProjectedIndex(a, t)
             pu == ProjectedIndex(a, u)
             w == Whole * seen.userIndex[a]
             b == seen.balance[a]
  <2>1. /\ pt \in Int /\ pu \in Int /\ pt <= pu /\ (t >= EmissionEnd => pt = pu)
    BY <1>2, ProjectedGrows
  <2>2. w \in Nat /\ b \in Nat
    BY SeenTypes, ProductInNat
  <2>3. Accrued(a, t) = b * (pt - w) /\ Accrued(a, u) = b * (pu - w)
    BY <1>2 DEF Accrued
  <2> HIDE DEF pt, pu, w, b
  <2>4. b * (pt - w) <= b * (pu - w)
    BY <2>1, <2>2, ProductGrows
  <2> QED
    BY <2>1, <2>2, <2>3, <2>4
<1> QED
  BY <1>1, <1>2

\* What accrued is a number, which may be negative.
LEMMA AccruedType ==
    ASSUME TypeOK, NEW t \in Nat
    PROVE  \A a \in Tokens : Accrued(a, t) \in Int
BY AccruedGrows

\* The types of the claimable rewards.
LEMMA ClaimableType ==
    ASSUME TypeOK, NEW t \in Nat
    PROVE  /\ Sum([a \in Tokens |-> Accrued(a, t)], {a \in Tokens : Accrued(a, t) > 0}) \in Nat
           /\ Parts * seen.unclaimed \in Nat
           /\ Claimable(t) \in Nat
<1> DEFINE f == [a \in Tokens |-> Accrued(a, t)]
           T == {a \in Tokens : Accrued(a, t) > 0}
<1>1. IsFiniteSet(T) /\ \A a \in T : f[a] \in Nat
  BY AccruedType, FS_Subset
<1> HIDE DEF f, T
<1>2. Sum(f, T) \in Nat
  BY <1>1, SumTypeNat DEF Sum
<1>3. Parts * seen.unclaimed \in Nat
  BY PartsType, ProductInNat DEF TypeOK
<1>4. Claimable(t) = Parts * seen.unclaimed + Sum(f, T)
  BY DEF Claimable, f, T
<1>5. Claimable(t) \in Nat
  BY <1>2, <1>3, <1>4
<1> QED
  BY <1>2, <1>3, <1>5 DEF f, T

\* Torn reads eat nothing of what was credited.
LEMMA KeepsUnclaimed == TypeOK => UnclaimedKept
<1> SUFFICES ASSUME TypeOK, NEW t \in 0..MaxTime PROVE Claimable(t) >= Parts * seen.unclaimed
  BY DEF UnclaimedKept
<1> QED
  BY ClaimableType DEF Claimable

\* What is shown grows with the clock, until the emission ends.
LEMMA FollowsEmission == TypeOK => EstimateFollowsEmission
<1> SUFFICES ASSUME TypeOK, NEW t \in 0 .. MaxTime - 1
             PROVE  /\ Claimable(t) <= Claimable(t + 1)
                    /\ t >= EmissionEnd => Claimable(t) = Claimable(t + 1)
  BY DEF EstimateFollowsEmission
<1> DEFINE f == [a \in Tokens |-> Accrued(a, t)]
           g == [a \in Tokens |-> Accrued(a, t + 1)]
           T == {a \in Tokens : Accrued(a, t) > 0}
           S == {a \in Tokens : Accrued(a, t + 1) > 0}
<1>0. t \in Nat /\ t + 1 \in Nat /\ t <= t + 1
  OBVIOUS
<1>1. \A a \in Tokens : /\ f[a] \in Int /\ g[a] \in Int /\ f[a] <= g[a]
                        /\ t >= EmissionEnd => f[a] = g[a]
  BY <1>0, AccruedGrows
<1>2. T = {a \in Tokens : f[a] > 0} /\ S = {a \in Tokens : g[a] > 0}
  OBVIOUS
<1>3. f \in [Tokens -> Int] /\ g \in [Tokens -> Int]
  BY <1>1
<1>4. /\ Claimable(t) = Parts * seen.unclaimed + Sum(f, T)
      /\ Claimable(t + 1) = Parts * seen.unclaimed + Sum(g, S)
      /\ Sum(f, T) \in Nat /\ Sum(g, S) \in Nat /\ Parts * seen.unclaimed \in Nat
  BY <1>0, ClaimableType DEF Claimable
<1> HIDE DEF f, g, T, S
<1>5. IsFiniteSet(S) /\ T \in SUBSET S
  BY <1>1, <1>2, FS_Subset
<1>6. Sum(f, T) <= Sum(g, S)
  <2>1. /\ \A a \in T : f[a] \in Int /\ f[a] <= g[a]
        /\ \A a \in S : g[a] \in Int
        /\ \A a \in S \ T : 0 <= g[a]
    BY <1>1, <1>2
  <2> QED
    BY <1>5, <2>1, SumGrows DEF Sum
<1>7. t >= EmissionEnd => f = g /\ T = S
  BY <1>1, <1>2, <1>3
<1> QED
  BY <1>4, <1>6, <1>7

-----------------------------------------------------------------------------
\* What is shown and what is paid.
\* A part of the whole: no fraction is left, and the larger of two supplies
\* makes for the smaller part.
LEMMA PartOfWhole ==
    ASSUME NEW m \in 1..MaxTotal, NEW n \in 1..MaxTotal, n <= m
    PROVE  /\ Whole \div m \in Nat /\ Whole \div n \in Nat
           /\ m * (Whole \div m) = Whole /\ n * (Whole \div n) = Whole
           /\ Whole \div m <= Whole \div n
<1>1. Whole % m = 0 /\ Whole % n = 0
  OBVIOUS
<1>2. /\ m * (Whole \div m) = Whole /\ n * (Whole \div n) = Whole
      /\ Whole \div m \in Nat /\ Whole \div n \in Nat
  BY <1>1
<1> DEFINE p == Whole \div m
           q == Whole \div n
<1> HIDE DEF p, q
<1>3. p \in Nat /\ q \in Nat /\ m * p = Whole /\ n * q = Whole
  BY <1>2 DEF p, q
<1>4. SUFFICES ASSUME q < p PROVE FALSE
  BY <1>2, <1>3 DEF p, q
<1>5. n * q < n * p
  BY <1>3, <1>4
<1>6. n * p <= m * p
  BY <1>3
<1> QED
  BY <1>3, <1>5, <1>6

\* The client's fractions against the rounding of the chain.
LEMMA FractionsKept ==
    ASSUME NEW N \in Nat, NEW m \in 1..MaxTotal, NEW n \in 1..MaxTotal, n <= m
    PROVE  /\ N * (Whole \div m) \in Nat /\ N \div n \in Nat
           /\ N * (Whole \div m) < Whole * (N \div n) + Whole
           /\ m = n => N * (Whole \div m) >= Whole * (N \div n)
<1> DEFINE p == Whole \div m
           w == Whole \div n
           q == N \div n
<1>1. p \in Nat /\ w \in Nat /\ n * w = Whole /\ p <= w
  BY PartOfWhole
<1>2. q \in Nat /\ n * q <= N /\ N < n * q + n
  BY DivisionRounds
<1>3. N * p <= N * w
  BY <1>1, ProductGrows
<1>4. w > 0
  BY <1>1
<1> HIDE DEF p, w, q
<1>5. N * w < (n * q + n) * w /\ (n * q) * w <= N * w
  BY <1>1, <1>2, <1>4
<1>6. (n * q + n) * w = (n * w) * q + n * w /\ (n * q) * w = (n * w) * q
  BY <1>1, <1>2
<1>7. (n * w) * q = Whole * q
  BY <1>1
<1>8. N * p \in Nat /\ N * w \in Nat /\ Whole * q \in Nat
  BY <1>1, <1>2, ProductInNat
<1>9. N * p < Whole * q + Whole /\ N * w >= Whole * q
  BY <1>1, <1>3, <1>5, <1>6, <1>7, <1>8
<1>10. m = n => p = w
  BY DEF p, w
<1> QED
  BY <1>2, <1>8, <1>9, <1>10 DEF p, w, q

\* What one snapshot says of a token.
LEMMA SnapshotOf ==
    ASSUME IncentivesInv, OneSnapshot, NEW a \in Tokens
    PROVE  /\ seen.balance[a] = balance[a] /\ seen.index[a] = index[a]
           /\ seen.updated[a] = updated[a] /\ seen.userIndex[a] = userIndex[a]
           /\ seen.total[a] \in 0..MaxTotal /\ total[a] \in 0..MaxTotal
           /\ total[a] <= seen.total[a]
           /\ total[a] = 0 => seen.total[a] = 0
           /\ seen.total = total => seen.total[a] = total[a]
BY SeenTypes DEF IncentivesInv, TypeOK, OneSnapshot

\* The projected index is that of the chain with its fractions.
LEMMA ProjectedRight ==
    ASSUME IncentivesInv, OneSnapshot, NEW a \in Tokens, total[a] # 0
    PROVE  /\ ProjectedIndex(a, now) \in Int
           /\ ProjectedIndex(a, now) < Whole * IndexNow(a) + Whole
           /\ seen.total[a] = total[a] => ProjectedIndex(a, now) >= Whole * IndexNow(a)
<1> DEFINE m == seen.total[a]
           n == total[a]
           e == Earlier(now, EmissionEnd)
           u == updated[a]
           i == index[a]
<1>1. /\ m \in 1..MaxTotal /\ n \in 1..MaxTotal /\ n <= m
  BY SnapshotOf
<1>2. /\ now \in Nat /\ u \in Nat /\ u <= now /\ i \in Nat
      /\ seen.updated[a] = u /\ seen.index[a] = i
  BY SnapshotOf DEF IncentivesInv, TypeOK, IndexesInOrder, Indexes
<1>3. Whole * i \in Nat
  BY <1>2, ProductInNat
<1>4. CASE u >= EmissionEnd
  <2>1. IndexNow(a) = i /\ ProjectedIndex(a, now) = Whole * i
    BY <1>2, <1>4 DEF IndexNow, ProjectedIndex
  <2> HIDE DEF i
  <2> QED
    BY <2>1, <1>3
<1>5. CASE u < EmissionEnd
  <2> DEFINE N == Emission * (e - u) * Precision
  <2>1. e \in Nat /\ e - u \in Nat /\ (u >= now => e - u = 0)
    BY <1>2, <1>5 DEF Earlier
  <2>2. N \in Nat /\ (u >= now => N = 0)
    BY <2>1, ProductInNat
  <2>3. IndexNow(a) = i + N \div n
    BY <1>2, <1>5 DEF IndexNow
  <2>4. ProjectedIndex(a, now) = IF u >= now THEN Whole * i ELSE N * (Whole \div m) + Whole * i
    BY <1>2, <1>5 DEF ProjectedIndex
  <2> HIDE DEF N, i, n, m, u
  <2>5. /\ N * (Whole \div m) \in Nat /\ N \div n \in Nat
        /\ N * (Whole \div m) < Whole * (N \div n) + Whole
        /\ m = n => N * (Whole \div m) >= Whole * (N \div n)
    BY <1>1, <2>2, FractionsKept
  <2>6. u >= now => N * (Whole \div m) = 0
    BY <2>2, <2>5, <1>1
  <2>7. ProjectedIndex(a, now) = N * (Whole \div m) + Whole * i
    BY <2>4, <2>6, <1>3, <1>2
  <2> DEFINE q == N \div n
             p == N * (Whole \div m)
  <2> HIDE DEF q, p
  <2>8. Whole * (i + q) = Whole * i + Whole * q /\ Whole * q \in Nat
    BY <2>5, <1>2, ProductInNat DEF q
  <2>9. p \in Nat /\ p < Whole * q + Whole /\ (m = n => p >= Whole * q)
    BY <2>5 DEF p, q
  <2>10. IndexNow(a) = i + q /\ ProjectedIndex(a, now) = p + Whole * i
    BY <2>3, <2>7 DEF p, q
  <2>11. /\ ProjectedIndex(a, now) \in Int
         /\ ProjectedIndex(a, now) < Whole * IndexNow(a) + Whole
         /\ m = n => ProjectedIndex(a, now) >= Whole * IndexNow(a)
    BY <2>8, <2>9, <2>10, <1>3
  <2> QED
    BY <2>11 DEF m, n
<1> QED
  BY <1>2, <1>4, <1>5

\* What accrued is what the chain has the user earn, but for a unit.
LEMMA AccruedRight ==
    ASSUME IncentivesInv, OneSnapshot, NEW a \in Tokens
    PROVE  /\ Accrued(a, now) < Parts * Earned(a) + Parts + Whole * balance[a]
           /\ seen.total = total => Accrued(a, now) >= Parts * Earned(a)
<1>1. /\ balance[a] \in Nat /\ Earned(a) \in Nat /\ IndexNow(a) \in Nat
      /\ userIndex[a] \in Nat /\ IndexNow(a) - userIndex[a] \in Nat
      /\ balance[a] * (IndexNow(a) - userIndex[a]) \in Nat
  <2>1. userIndex[a] \in Nat /\ index[a] \in Nat /\ userIndex[a] <= index[a] /\ balance[a] \in Nat
    BY DEF IncentivesInv, TypeOK, IndexesInOrder, Indexes
  <2> QED
    BY <2>1, IndexNowBounds, EarnedType
<1>2. CASE total[a] = 0
  <2>1. Accrued(a, now) = 0 /\ balance[a] = 0
    BY <1>1, <1>2, SnapshotOf DEF Accrued, IncentivesInv, IndexesInOrder
  <2>2. 0 * (IndexNow(a) - userIndex[a]) = 0
    BY <1>1
  <2>3. Earned(a) = 0
    BY <2>1, <2>2 DEF Earned
  <2> QED
    BY <2>1, <2>3, PartsType
<1>3. CASE total[a] # 0
  <2> DEFINE b == balance[a]
             x == IndexNow(a)
             y == userIndex[a]
             g == b * (x - y)
             q == g \div Precision
             j == ProjectedIndex(a, now)
  <2>1. j \in Int /\ j < Whole * x + Whole /\ (seen.total = total => j >= Whole * x)
    BY <1>3, ProjectedRight, SnapshotOf
  <2>2. Accrued(a, now) = b * (j - Whole * y)
    BY <1>3, SnapshotOf DEF Accrued
  <2>3. q \in Nat /\ Precision * q <= g /\ g < Precision * q + Precision
    BY <1>1, DivisionRounds
  <2>4. Earned(a) = q
    BY DEF Earned
  <2>5. b \in Nat /\ x \in Nat /\ y \in Nat /\ x - y \in Nat /\ g \in Nat
    BY <1>1
  <2> HIDE DEF j, q, b, x, y
  <2>6. j - Whole * y <= Whole * (x - y) + Whole
    BY <2>1, <2>5
  <2>7. b * (j - Whole * y) <= b * (Whole * (x - y) + Whole)
    <3>1. j - Whole * y \in Int /\ Whole * (x - y) + Whole \in Int
      BY <2>1, <2>5
    <3> QED
      BY <2>5, <2>6, <3>1, ProductGrows
  <2>8. b * (Whole * (x - y) + Whole) = Whole * g + Whole * b
    BY <2>5
  <2>9. seen.total = total => b * (Whole * (x - y)) <= b * (j - Whole * y)
    <3>1. j - Whole * y \in Int /\ Whole * (x - y) \in Int
      BY <2>1, <2>5
    <3>2. seen.total = total => Whole * (x - y) <= j - Whole * y
      BY <2>1, <2>5
    <3> QED
      BY <2>5, <3>1, <3>2, ProductGrows
  <2>10. b * (Whole * (x - y)) = Whole * g
    BY <2>5
  <2> HIDE DEF g
  <2>11. Whole * g < Whole * (Precision * q + Precision) /\ Whole * (Precision * q) <= Whole * g
    BY <2>3, <2>5
  <2>12. /\ Whole * (Precision * q + Precision) = Parts * q + Parts
         /\ Whole * (Precision * q) = Parts * q
    BY <2>3 DEF Parts
  <2>13. /\ Whole * g \in Nat /\ Whole * b \in Nat /\ Parts * q \in Nat
         /\ b * (j - Whole * y) \in Int
    BY <2>1, <2>3, <2>5, PartsType, ProductInNat
  <2>14. /\ Accrued(a, now) < Parts * q + Parts + Whole * b
         /\ seen.total = total => Accrued(a, now) >= Parts * q
    BY <2>2, <2>7, <2>8, <2>9, <2>10, <2>11, <2>12, <2>13, PartsType
  <2> QED
    BY <2>14, <2>4 DEF b
<1> QED
  BY <1>2, <1>3

\* A snapshot is shown for what it pays.
LEMMA MatchesPayout == IncentivesInv => EstimateMatchesPayout
<1> SUFFICES ASSUME IncentivesInv, OneSnapshot
             PROVE  /\ Claimable(now) < Parts * (Payout + Cardinality(Tokens))
                                        + Whole * Sum(balance, Tokens)
                    /\ seen.total = total => Claimable(now) >= Parts * Payout
  BY DEF EstimateMatchesPayout
<1> DEFINE f == [a \in Tokens |-> Accrued(a, now)]
           T == {a \in Tokens : Accrued(a, now) > 0}
           earned == [a \in Tokens |-> Earned(a)]
           paid == [a \in Tokens |-> Parts * Earned(a)]
           held == [a \in Tokens |-> Whole * balance[a]]
           unit == [a \in Tokens |-> Parts - 1]
           both == [a \in Tokens |-> Parts * Earned(a) + Whole * balance[a]]
           all == [a \in Tokens |-> Parts * Earned(a) + Whole * balance[a] + (Parts - 1)]
           n == Cardinality(Tokens)
<1>0. TypeOK /\ now \in Nat /\ Parts \in Nat \ {0} /\ Parts - 1 \in Nat
  BY PartsType DEF IncentivesInv, TypeOK
<1>1. \A a \in Tokens :
        /\ f[a] \in Int /\ earned[a] \in Nat /\ balance[a] \in Nat
        /\ paid[a] \in Nat /\ paid[a] = Parts * earned[a]
        /\ held[a] \in Nat /\ held[a] = Whole * balance[a]
        /\ unit[a] = Parts - 1
        /\ both[a] = paid[a] + held[a]
        /\ all[a] = both[a] + unit[a]
        /\ f[a] < paid[a] + Parts + held[a]
        /\ seen.total = total => paid[a] <= f[a]
  <2> SUFFICES ASSUME NEW a \in Tokens
               PROVE  /\ Accrued(a, now) \in Int /\ Earned(a) \in Nat /\ balance[a] \in Nat
                      /\ Parts * Earned(a) \in Nat /\ Whole * balance[a] \in Nat
                      /\ Accrued(a, now) < Parts * Earned(a) + Parts + Whole * balance[a]
                      /\ seen.total = total => Parts * Earned(a) <= Accrued(a, now)
    OBVIOUS
  <2>1. Earned(a) \in Nat /\ balance[a] \in Nat /\ Accrued(a, now) \in Int
    BY <1>0, EarnedType, AccruedType DEF TypeOK
  <2>2. Parts * Earned(a) \in Nat /\ Whole * balance[a] \in Nat
    BY <1>0, <2>1, ProductInNat
  <2>3. /\ Accrued(a, now) < Parts * Earned(a) + Parts + Whole * balance[a]
        /\ seen.total = total => Accrued(a, now) >= Parts * Earned(a)
    BY AccruedRight
  <2> QED
    BY <2>1, <2>2, <2>3, <1>0
<1>2. T = {a \in Tokens : f[a] > 0}
  OBVIOUS
<1>3. /\ Payout = unclaimed + Sum(earned, Tokens)
      /\ Claimable(now) = Parts * unclaimed + Sum(f, T)
  BY DEF Payout, Claimable, OneSnapshot
<1>4. n \in Nat /\ n >= 1
  <2>1. n \in Nat
    BY FS_CardinalityType
  <2>2. n # 0
    BY FS_EmptySet
  <2> QED
    BY <2>1, <2>2
<1> HIDE DEF f, T, earned, paid, held, unit, both, all, n
<1>5. Sum(paid, Tokens) = Parts * Sum(earned, Tokens)
  <2>1. \A a \in Tokens : earned[a] \in Int /\ paid[a] = Parts * earned[a]
    BY <1>1
  <2> QED
    BY <2>1, <1>0, SumTimes DEF Sum
<1>6. Sum(held, Tokens) = Whole * Sum(balance, Tokens)
  <2>1. \A a \in Tokens : balance[a] \in Int /\ held[a] = Whole * balance[a]
    BY <1>1
  <2> QED
    BY <2>1, SumTimes DEF Sum
<1>7. Sum(unit, Tokens) = (Parts - 1) * n
  <2>1. \A a \in Tokens : unit[a] = Parts - 1
    BY <1>1
  <2> QED
    BY <2>1, <1>0, SumConstant DEF Sum, n
<1>8. Sum(both, Tokens) = Sum(paid, Tokens) + Sum(held, Tokens)
  <2>1. \A a \in Tokens : paid[a] \in Int /\ held[a] \in Int /\ both[a] = paid[a] + held[a]
    BY <1>1
  <2> QED
    BY <2>1, SumPlus DEF Sum
<1>9. Sum(all, Tokens) = Sum(both, Tokens) + Sum(unit, Tokens)
  <2>1. \A a \in Tokens : both[a] \in Int /\ unit[a] \in Int /\ all[a] = both[a] + unit[a]
    BY <1>0, <1>1
  <2> QED
    BY <2>1, SumPlus DEF Sum
<1>10. Sum(f, T) <= Sum(all, Tokens)
  <2>1. T \in SUBSET Tokens
    BY <1>2
  <2>2. \A a \in Tokens : f[a] \in Int /\ all[a] \in Int /\ f[a] <= all[a] /\ 0 <= all[a]
    BY <1>0, <1>1
  <2> QED
    BY <2>1, <2>2, SumGrows DEF Sum
<1>11. seen.total = total => Sum(paid, Tokens) <= Sum(f, T)
  <2> SUFFICES ASSUME seen.total = total PROVE Sum(paid, Tokens) <= Sum(f, T)
    OBVIOUS
  <2>1. T \in SUBSET Tokens
    BY <1>2
  <2>2. /\ \A a \in T : f[a] \in Int /\ paid[a] <= f[a]
        /\ \A a \in Tokens : paid[a] \in Int
        /\ \A a \in Tokens \ T : paid[a] <= 0
    BY <1>1, <1>2
  <2> QED
    BY <2>1, <2>2, SumShrinks DEF Sum
<1> DEFINE e == Sum(earned, Tokens)
           h == Sum(balance, Tokens)
           s == Sum(f, T)
<1>12. e \in Nat /\ h \in Nat /\ s \in Nat
  <2>1. /\ \A a \in Tokens : earned[a] \in Nat /\ balance[a] \in Nat
        /\ \A a \in T : f[a] \in Nat
        /\ IsFiniteSet(T)
    BY <1>1, <1>2, FS_Subset
  <2> QED
    BY <2>1, SumTypeNat DEF Sum
<1> HIDE DEF e, h, s
<1>13. s <= Parts * e + Whole * h + (Parts - 1) * n /\ (seen.total = total => Parts * e <= s)
  BY <1>5, <1>6, <1>7, <1>8, <1>9, <1>10, <1>11 DEF e, h, s
<1>14. unclaimed \in Nat
  BY <1>0 DEF TypeOK
<1>15. (Parts - 1) * n < Parts * n
  BY <1>0, <1>4
<1>16. /\ Parts * e \in Nat /\ Whole * h \in Nat /\ Parts * n \in Nat /\ (Parts - 1) * n \in Nat
       /\ Parts * unclaimed \in Nat
  BY <1>0, <1>4, <1>12, <1>14, ProductInNat
<1>17. /\ Parts * ((unclaimed + e) + n) = Parts * unclaimed + Parts * e + Parts * n
       /\ Parts * (unclaimed + e) = Parts * unclaimed + Parts * e
  BY <1>0, <1>4, <1>12, <1>14
<1>18. /\ Parts * unclaimed + s < Parts * ((unclaimed + e) + n) + Whole * h
       /\ seen.total = total => Parts * unclaimed + s >= Parts * (unclaimed + e)
  BY <1>12, <1>13, <1>15, <1>16, <1>17
<1> QED
  BY <1>3, <1>18 DEF e, h, s, n

-----------------------------------------------------------------------------
\* However torn or old what the client has read, what was credited to the user
\* is shown in full.
THEOREM UnclaimedIsKept == Spec => []UnclaimedKept
<1>1. IncentivesInv => UnclaimedKept
  BY KeepsUnclaimed DEF IncentivesInv
<1> QED
  BY <1>1, IncentivesInit, IncentivesStep, PTL DEF Spec

\* However torn or old it is, what is shown never shrinks as the client's clock
\* runs, and stays the same once the emission has ended.
THEOREM EstimatesFollowEmission == Spec => []EstimateFollowsEmission
<1>1. IncentivesInv => EstimateFollowsEmission
  BY FollowsEmission DEF IncentivesInv
<1> QED
  BY <1>1, IncentivesInit, IncentivesStep, PTL DEF Spec

\* For any tokens, amounts and times, what is shown of one state of the chain is
\* what a claim pays, but for less than a unit per token and the rounding of
\* the index, and not less if the supplies are right.
THEOREM EstimatesMatchPayout == Spec => []EstimateMatchesPayout
<1>1. IncentivesInv => EstimateMatchesPayout
  BY MatchesPayout
<1> QED
  BY <1>1, IncentivesInit, IncentivesStep, PTL DEF Spec
=============================================================================
