-------------------------- MODULE Positions_proofs --------------------------
(***************************************************************************)
(* Proofs about Positions: types, that indexes only grow, that borrowing   *)
(* all that is shown as available leaves a health factor of one, that what *)
(* is shown of one snapshot is what the pool lends, within the rounding,   *)
(* and that what is shown of old reads stays behind the pool, within the   *)
(* drift of its indexes.  The arithmetic of rays comes first.              *)
(***************************************************************************)
EXTENDS Positions, SumTheorems

USE RayAssumption

-----------------------------------------------------------------------------
\* Rays.
\* Products of naturals.
LEMMA ProductInNat == \A m, n \in Nat : m * n \in Nat
OBVIOUS

\* They grow with a factor.
LEMMA ProductGrows == \A k \in Nat, m, n \in Int : m <= n => k * m <= k * n
OBVIOUS

\* A quotient is rounded toward zero: down if positive, and up if negative.
LEMMA QuotientRounds ==
    ASSUME NEW n \in Int, NEW d \in Nat \ {0}
    PROVE  /\ Quotient(n, d) \in Int
           /\ n >= 0 => /\ Quotient(n, d) \in Nat
                        /\ d * Quotient(n, d) <= n /\ n < d * Quotient(n, d) + d
           /\ n < 0 => n <= d * Quotient(n, d)
<1>1. CASE n >= 0
  BY <1>1 DEF Quotient
<1>2. CASE n < 0
  <2> DEFINE q == (-n) \div d
  <2>1. q \in Nat /\ d * q <= -n
    BY <1>2
  <2>2. Quotient(n, d) = -q
    BY <1>2 DEF Quotient
  <2> HIDE DEF q
  <2>3. d * (-q) = -(d * q) /\ d * q \in Nat
    BY <2>1
  <2> QED
    BY <1>2, <2>1, <2>2, <2>3
<1> QED
  BY <1>1, <1>2

\* It is an integer, and a number if what is divided is one.
LEMMA QuotientType ==
    \A d \in Nat \ {0} : /\ \A n \in Int : Quotient(n, d) \in Int
                         /\ \A n \in Nat : Quotient(n, d) \in Nat
BY QuotientRounds

\* A product of rays is rounded half up.
LEMMA RayMulRounds ==
    ASSUME NEW a \in Nat, NEW b \in Nat
    PROVE  /\ RayMul(a, b) \in Nat
           /\ Ray * RayMul(a, b) <= Ray \div 2 + a * b
           /\ Ray \div 2 + a * b < Ray * RayMul(a, b) + Ray
<1>1. a * b \in Nat /\ Ray \div 2 \in Nat
  BY ProductInNat
<1>2. Ray \div 2 + a * b \in Nat
  BY <1>1
<1> QED
  BY <1>2, QuotientRounds DEF RayMul

\* A product with more than one grows.
LEMMA RayMulGrows ==
    ASSUME NEW a \in Nat, NEW b \in Nat, a >= Ray
    PROVE  RayMul(a, b) \in Nat /\ RayMul(a, b) >= b
<1> DEFINE r == RayMul(a, b)
<1>1. r \in Nat /\ Ray \div 2 + a * b < Ray * r + Ray
  BY RayMulRounds
<1> HIDE DEF r
<1>2. b * Ray <= b * a
  BY ProductGrows
<1>3. Ray \div 2 \in Nat /\ a * b \in Nat /\ Ray * r \in Nat /\ Ray * b \in Nat
  BY <1>1, ProductInNat
<1>4. Ray * b < Ray * (r + 1)
  BY <1>1, <1>2, <1>3
<1>5. b < r + 1
  <2> SUFFICES ASSUME r + 1 <= b PROVE FALSE
    BY <1>1
  <2>1. Ray * (r + 1) <= Ray * b
    BY <1>1, ProductGrows
  <2>2. Ray * (r + 1) \in Nat
    BY <1>1, ProductInNat
  <2> QED
    BY <1>3, <1>4, <2>1, <2>2
<1> QED
  BY <1>1, <1>5 DEF r

\* A quotient of rays is a number.
LEMMA RayDivType == \A a \in Nat, b \in Nat \ {0} : RayDiv(a, b) \in Nat
<1> SUFFICES ASSUME NEW a \in Nat, NEW b \in Nat \ {0} PROVE RayDiv(a, b) \in Nat
  OBVIOUS
<1>1. b \div 2 + a * Ray \in Nat
  BY ProductInNat
<1> QED
  BY <1>1, QuotientRounds DEF RayDiv

\* Compounded interest only adds.
LEMMA CompoundedGrows ==
    ASSUME NEW rate \in Nat, NEW seconds \in Nat
    PROVE  CompoundedInterest(rate, seconds) \in Nat /\ CompoundedInterest(rate, seconds) >= Ray
<1> DEFINE base == rate \div Year
           squared == RayMul(base, base)
           cubed == RayMul(squared, base)
           pairs == seconds * (seconds - 1)
           beyond == IF seconds > 2 THEN seconds - 2 ELSE 0
           second == Quotient(pairs * squared, 2)
           third == Quotient(pairs * beyond * cubed, 6)
<1>1. base \in Nat
  OBVIOUS
<1>2. squared \in Nat /\ cubed \in Nat
  BY <1>1, RayMulRounds
<1>3. pairs \in Nat
  <2>1. CASE seconds = 0
    BY <2>1
  <2>2. CASE seconds # 0
    BY <2>2, ProductInNat
  <2> QED
    BY <2>1, <2>2
<1>4. beyond \in Nat
  OBVIOUS
<1>5. CompoundedInterest(rate, seconds) = Ray + seconds * base + second + third
  BY DEF CompoundedInterest
<1> HIDE DEF base, squared, cubed, pairs, beyond
<1>6. seconds * base \in Nat /\ pairs * squared \in Nat /\ pairs * beyond \in Nat
  BY <1>1, <1>2, <1>3, <1>4, ProductInNat
<1>7. pairs * beyond * cubed \in Nat
  BY <1>2, <1>6, ProductInNat
<1>8. second \in Nat /\ third \in Nat
  <2> DEFINE u == pairs * squared
             v == pairs * beyond * cubed
  <2> HIDE DEF u, v
  <2>1. Quotient(u, 2) \in Nat /\ Quotient(v, 6) \in Nat
    BY <1>6, <1>7, QuotientType DEF u, v
  <2> QED
    BY <2>1 DEF u, v
<1> HIDE DEF second, third
<1> QED
  BY <1>5, <1>6, <1>8

\* At any time of the client's, it is a number.
LEMMA CompoundedType ==
    ASSUME NEW rate \in Nat, NEW seconds \in Int
    PROVE  CompoundedInterest(rate, seconds) \in Int
<1> DEFINE base == rate \div Year
           squared == RayMul(base, base)
           cubed == RayMul(squared, base)
           pairs == seconds * (seconds - 1)
           beyond == IF seconds > 2 THEN seconds - 2 ELSE 0
           second == Quotient(pairs * squared, 2)
           third == Quotient(pairs * beyond * cubed, 6)
<1>1. base \in Nat
  OBVIOUS
<1>2. squared \in Nat /\ cubed \in Nat
  BY <1>1, RayMulRounds
<1>3. pairs \in Int /\ beyond \in Int
  OBVIOUS
<1>4. CompoundedInterest(rate, seconds) = Ray + seconds * base + second + third
  BY DEF CompoundedInterest
<1> HIDE DEF base, squared, cubed, pairs, beyond
<1>5. seconds * base \in Int /\ pairs * squared \in Int /\ pairs * beyond * cubed \in Int
  BY <1>1, <1>2, <1>3
<1>6. second \in Int /\ third \in Int
  <2> DEFINE u == pairs * squared
             v == pairs * beyond * cubed
  <2> HIDE DEF u, v
  <2>1. Quotient(u, 2) \in Int /\ Quotient(v, 6) \in Int
    BY <1>5, QuotientType DEF u, v
  <2> QED
    BY <2>1 DEF u, v
<1> HIDE DEF second, third
<1> QED
  BY <1>4, <1>5, <1>6

\* Linear interest adds, and takes no more than one off again when the clock is
\* behind by no more than the time in which one is paid.
LEMMA LinearBounds ==
    ASSUME NEW rate \in Nat, NEW seconds \in Int
    PROVE  /\ LinearInterest(rate, seconds) \in Int
           /\ seconds >= 0 => LinearInterest(rate, seconds) >= Ray
           /\ rate * (-seconds) <= Ray * Year => LinearInterest(rate, seconds) >= 0
<1> DEFINE d == Year * WadRayRatio
           n == d \div 2 + (seconds * WadRayRatio) * Ray
           x == Quotient(n, d)
           m == Ray \div 2 + rate * x
           y == Quotient(m, Ray)
<1>1. LinearInterest(rate, seconds) = Ray + y
  BY DEF LinearInterest, RayMul, RayDiv, WadToRay
<1>2. d \in Nat \ {0} /\ d \div 2 \in Nat
  OBVIOUS
<1>3. n \in Int
  BY <1>2
<1>4. /\ x \in Int /\ (n >= 0 => x >= 0) /\ (n < 0 => n <= d * x)
  <2> HIDE DEF n, d
  <2> QED
    BY <1>2, <1>3, QuotientRounds
<1> HIDE DEF x
<1>5. m \in Int /\ Ray \div 2 \in Nat /\ rate * x \in Int
  BY <1>4
<1>6. y \in Int /\ (m >= 0 => y >= 0) /\ (m < 0 => m <= Ray * y)
  <2> HIDE DEF m
  <2> QED
    BY <1>5, QuotientRounds
<1> HIDE DEF y
<1>7. x >= 0 => y >= 0
  <2> SUFFICES ASSUME x >= 0 PROVE y >= 0
    OBVIOUS
  <2>1. rate * x \in Nat
    BY <1>4, ProductInNat
  <2> QED
    BY <2>1, <1>5, <1>6
<1>8. seconds >= 0 => x >= 0
  <2> SUFFICES ASSUME seconds >= 0 PROVE x >= 0
    OBVIOUS
  <2>1. seconds * WadRayRatio \in Nat
    BY ProductInNat
  <2>2. (seconds * WadRayRatio) * Ray \in Nat
    BY <2>1, ProductInNat
  <2> QED
    BY <2>2, <1>2, <1>3, <1>4
<1>9. rate * (-seconds) <= Ray * Year => y >= -Ray
  <2> SUFFICES ASSUME rate * (-seconds) <= Ray * Year, n < 0, m < 0 PROVE y >= -Ray
    BY <1>3, <1>4, <1>5, <1>6, <1>7
  <2>1. WadRayRatio * (seconds * Ray) <= WadRayRatio * (Year * x)
    <3>1. n = d \div 2 + WadRayRatio * (seconds * Ray) /\ d * x = WadRayRatio * (Year * x)
      BY <1>2, <1>4
    <3>2. WadRayRatio * (seconds * Ray) \in Int /\ WadRayRatio * (Year * x) \in Int
      BY <1>4
    <3> HIDE DEF n, d
    <3> QED
      BY <1>2, <1>4, <3>1, <3>2
  <2>2. seconds * Ray <= Year * x
    <3>1. seconds * Ray \in Int /\ Year * x \in Int
      BY <1>4
    <3> SUFFICES ASSUME Year * x < seconds * Ray PROVE FALSE
      BY <3>1
    <3> DEFINE p == Year * x
               q == seconds * Ray
    <3> HIDE DEF p, q
    <3>2. p \in Int /\ q \in Int /\ p < q /\ WadRayRatio * q <= WadRayRatio * p
      BY <2>1, <3>1 DEF p, q
    <3> QED
      BY <3>2
  <2>3. rate * (seconds * Ray) <= rate * (Year * x)
    <3>1. seconds * Ray \in Int /\ Year * x \in Int
      BY <1>4
    <3> QED
      BY <2>2, <3>1, ProductGrows
  <2>4. rate * x <= Ray * y
    BY <1>5, <1>6
  <2>5. Year * (rate * x) <= Year * (Ray * y)
    BY <2>4, <1>5, <1>6, ProductGrows
  <2>6. Ray * (rate * (-seconds)) <= Ray * (Ray * Year)
    BY ProductGrows
  <2>7. /\ rate * (Year * x) = Year * (rate * x)
        /\ rate * (seconds * Ray) = -(Ray * (rate * (-seconds)))
        /\ Year * (Ray * y) = (Ray * Year) * y
        /\ Ray * (Ray * Year) = (Ray * Year) * Ray
    BY <1>4, <1>6
  <2> DEFINE k == Ray * Year
             v == Ray * (rate * (-seconds))
             w == Year * (rate * x)
  <2>8. k \in Nat \ {0} /\ v \in Int /\ w \in Int
    BY <1>4
  <2> HIDE DEF k, v, w
  <2>9. -v <= w /\ w <= k * y /\ v <= k * Ray
    BY <2>3, <2>5, <2>6, <2>7 DEF k, v, w
  <2>10. k * Ray \in Int /\ k * y \in Int /\ k * (-Ray) = -(k * Ray)
    BY <2>8, <1>6
  <2>11. k * (-Ray) <= k * y
    BY <2>8, <2>9, <2>10
  <2> SUFFICES ASSUME y < -Ray PROVE FALSE
    BY <1>6
  <2>12. k * y < k * (-Ray)
    BY <2>8, <1>6
  <2> QED
    BY <2>10, <2>11, <2>12
<1> QED
  BY <1>1, <1>6, <1>7, <1>8, <1>9

\* An index with interest.
LEMMA IncomeBounds ==
    ASSUME NEW index \in Nat, NEW rate \in Nat, NEW seconds \in Int
    PROVE  /\ seconds >= 0 => /\ NormalizedIncome(index, rate, seconds) \in Nat
                              /\ NormalizedIncome(index, rate, seconds) >= index
           /\ rate * (-seconds) <= Ray * Year => NormalizedIncome(index, rate, seconds) \in Nat
<1>1. CASE rate = 0
  BY <1>1 DEF NormalizedIncome
<1>2. CASE rate # 0
  <2>1. NormalizedIncome(index, rate, seconds) = RayMul(LinearInterest(rate, seconds), index)
    BY <1>2 DEF NormalizedIncome
  <2> DEFINE i == LinearInterest(rate, seconds)
  <2>2. /\ i \in Int /\ (seconds >= 0 => i >= Ray)
        /\ rate * (-seconds) <= Ray * Year => i >= 0
    BY LinearBounds
  <2> HIDE DEF i
  <2>3. i >= 0 => i \in Nat /\ RayMul(i, index) \in Nat
    BY <2>2, RayMulRounds
  <2>4. i >= Ray => RayMul(i, index) \in Nat /\ RayMul(i, index) >= index
    <3>1. i >= Ray => i \in Nat
      BY <2>2
    <3> QED
      BY <3>1, RayMulGrows
  <2> QED
    BY <2>1, <2>2, <2>3, <2>4 DEF i
<1> QED
  BY <1>1, <1>2

-----------------------------------------------------------------------------
\* Types, and indexes.
PositionsInv == TypeOK /\ IndexesAtLeastOne

\* The indexes of now are not below those of the last update.
LEMMA IndexesOfNow ==
    ASSUME PositionsInv, NEW m \in Markets
    PROVE  /\ IncomeNow(m) \in Nat /\ IncomeNow(m) >= Ray
           /\ DebtIndexNow(m) \in Nat /\ DebtIndexNow(m) >= Ray
<1> DEFINE r == market[m]
           s == now - r.lastUpdateTimestamp
<1>1. /\ r.liquidityIndex \in Nat /\ r.variableBorrowIndex \in Nat
      /\ r.liquidityIndex >= Ray /\ r.variableBorrowIndex >= Ray
      /\ s \in Nat
  BY DEF PositionsInv, TypeOK, Reserve, IndexesAtLeastOne
<1>2. Config[m].liquidityRate \in Nat /\ Config[m].variableBorrowRate \in Nat
  BY ConfigAssumption DEF Numbers
<1> HIDE DEF s
<1>3. IncomeNow(m) \in Nat /\ IncomeNow(m) >= r.liquidityIndex
  <2>1. IncomeNow(m) = NormalizedIncome(r.liquidityIndex, Config[m].liquidityRate, s)
    BY DEF IncomeNow, s
  <2>2. s \in Int /\ s >= 0
    BY <1>1
  <2> HIDE DEF r
  <2> QED
    BY <1>1, <1>2, <2>1, <2>2, IncomeBounds
<1>4. CompoundedInterest(Config[m].variableBorrowRate, s) \in Nat
      /\ CompoundedInterest(Config[m].variableBorrowRate, s) >= Ray
  BY <1>1, <1>2, CompoundedGrows
<1>5. DebtIndexNow(m) \in Nat /\ DebtIndexNow(m) >= r.variableBorrowIndex
  BY <1>1, <1>4, RayMulGrows DEF DebtIndexNow, s
<1> QED
  BY <1>1, <1>3, <1>5

\* A market that accrues is one.
LEMMA AccruedType ==
    ASSUME PositionsInv, NEW m \in Markets
    PROVE  /\ Accrued(m) \in Reserve
           /\ Accrued(m).liquidityIndex >= Ray /\ Accrued(m).variableBorrowIndex >= Ray
           /\ Accrued(m).lastUpdateTimestamp = now
           /\ Accrued(m).availableLiquidity = market[m].availableLiquidity
           /\ Accrued(m).totalScaledVariableDebt = market[m].totalScaledVariableDebt
<1>1. market[m] \in Reserve /\ now \in 0..MaxTime
  BY DEF PositionsInv, TypeOK
<1> QED
  BY <1>1, IndexesOfNow DEF Accrued, Reserve

\* So is one that lends, whatever collateral it counts for.
LEMMA LentType ==
    ASSUME PositionsInv, NEW m \in Markets, NEW amount \in Amounts, NEW isolating,
           amount <= market[m].availableLiquidity
    PROVE  /\ Lent(m, amount, isolating) \in [Markets -> Reserve]
           /\ \A i \in Markets :
                LET r == Lent(m, amount, isolating)[i]
                IN  /\ r.liquidityIndex >= Ray /\ r.variableBorrowIndex >= Ray
                    /\ r.lastUpdateTimestamp <= now
<1> SUFFICES ASSUME NEW i \in Markets
             PROVE  LET r == Lent(m, amount, isolating)[i]
                    IN  /\ r \in Reserve
                        /\ r.liquidityIndex >= Ray /\ r.variableBorrowIndex >= Ray
                        /\ r.lastUpdateTimestamp <= now
  BY DEF Lent
<1> DEFINE more == RayDiv(amount, DebtIndexNow(m))
           a == [Accrued(m) EXCEPT !.availableLiquidity = @ - amount,
                                   !.totalScaledVariableDebt = @ + more]
           r == IF i = m THEN a ELSE market[i]
           value == amount * market[m].price
           c == [r EXCEPT !.isolationModeTotalDebt = @ + value]
<1>0. amount \in Nat \ {0} /\ now \in Nat
  BY ConfigAssumption DEF PositionsInv, TypeOK
<1>1. more \in Nat
  BY <1>0, IndexesOfNow, RayDivType
<1>2. value \in Nat
  <2>1. market[m].price \in Nat
    BY DEF PositionsInv, TypeOK, Reserve
  <2> QED
    BY <1>0, <2>1, ProductInNat
<1>3. Lent(m, amount, isolating)[i] = IF i \in isolating THEN c ELSE r
  BY DEF Lent
<1> HIDE DEF more, value
<1>4. /\ a \in Reserve /\ a.liquidityIndex >= Ray /\ a.variableBorrowIndex >= Ray
      /\ a.lastUpdateTimestamp <= now
  <2> DEFINE b == Accrued(m)
  <2>1. /\ b \in Reserve /\ b.liquidityIndex >= Ray /\ b.variableBorrowIndex >= Ray
        /\ b.lastUpdateTimestamp = now /\ amount <= b.availableLiquidity
    BY AccruedType
  <2> HIDE DEF b
  <2> DEFINE left == b.availableLiquidity - amount
             debt == b.totalScaledVariableDebt + more
             c0 == [b EXCEPT !.availableLiquidity = left, !.totalScaledVariableDebt = debt]
  <2>2. left \in Nat /\ debt \in Nat
    BY <1>0, <1>1, <2>1 DEF Reserve
  <2>3. a = c0
    BY DEF b
  <2> HIDE DEF left, debt
  <2>4. c0 \in Reserve
    BY <2>1, <2>2 DEF Reserve
  <2>5. /\ c0.liquidityIndex = b.liquidityIndex /\ c0.variableBorrowIndex = b.variableBorrowIndex
        /\ c0.lastUpdateTimestamp = b.lastUpdateTimestamp
    BY <2>1 DEF Reserve
  <2> HIDE DEF c0
  <2>6. now <= now
    BY <1>0
  <2> QED
    BY <2>1, <2>3, <2>4, <2>5, <2>6
<1> HIDE DEF a
<1>5. /\ r \in Reserve /\ r.liquidityIndex >= Ray /\ r.variableBorrowIndex >= Ray
      /\ r.lastUpdateTimestamp <= now
  BY <1>4 DEF PositionsInv, TypeOK, IndexesAtLeastOne
<1> HIDE DEF r
<1>6. /\ c \in Reserve /\ c.liquidityIndex >= Ray /\ c.variableBorrowIndex >= Ray
      /\ c.lastUpdateTimestamp <= now
  BY <1>2, <1>5 DEF Reserve
<1> QED
  BY <1>3, <1>5, <1>6

\* The bounds.
LEMMA BoundsType ==
    /\ MaxTime \in Nat /\ MaxMoves \in Nat
    /\ Amounts \subseteq Nat \ {0} /\ Prices \subseteq Nat \ {0}
BY ConfigAssumption

\* At first, for every portfolio.
LEMMA PositionsInit == Init => PositionsInv
<1> SUFFICES ASSUME Init PROVE PositionsInv
  OBVIOUS
<1>0. PICK p \in Portfolios :
        /\ now = 0 /\ moves = 0
        /\ user = p.user /\ mode = p.mode
        /\ market = [m \in Markets |->
             [NoReserve EXCEPT !.availableLiquidity = Config[m].liquidity,
                !.totalScaledVariableDebt = p.others[m] + p.user[m].scaledVariableDebt,
                !.totalPrincipalStableDebt = p.user[m].principalStableDebt,
                !.price = p.price[m]]]
        /\ seen = [market |-> [m \in Markets |-> NoReserve],
                   user |-> [m \in Markets |-> NoUserReserve], mode |-> 0]
        /\ step = "reserves"
  BY DEF Init
<1>1. /\ p.user \in [Markets -> UserReserve] /\ p.mode \in Modes
      /\ p.others \in [Markets -> Nat] /\ p.price \in [Markets -> Nat \ {0}]
  BY PortfoliosAssumption
<1>2. /\ NoReserve \in Reserve /\ NoUserReserve \in UserReserve /\ 0 \in Modes
      /\ NoReserve.liquidityIndex = Ray /\ NoReserve.variableBorrowIndex = Ray
  BY BoundsType DEF NoReserve, NoUserReserve, Reserve, UserReserve, Modes
<1>3. ASSUME NEW m \in Markets
      PROVE  /\ market[m] \in Reserve /\ market[m].liquidityIndex = Ray
             /\ market[m].variableBorrowIndex = Ray /\ market[m].lastUpdateTimestamp = 0
  <2>1. Config[m].liquidity \in Nat
    BY ConfigAssumption DEF Numbers
  <2>2. p.user[m].scaledVariableDebt \in Nat /\ p.user[m].principalStableDebt \in Nat
    BY <1>1 DEF UserReserve
  <2>3. p.others[m] + p.user[m].scaledVariableDebt \in Nat /\ p.price[m] \in Nat
    BY <1>1, <2>2
  <2> DEFINE debt == p.others[m] + p.user[m].scaledVariableDebt
  <2>4. market[m] = [NoReserve EXCEPT !.availableLiquidity = Config[m].liquidity,
                       !.totalScaledVariableDebt = debt,
                       !.totalPrincipalStableDebt = p.user[m].principalStableDebt,
                       !.price = p.price[m]]
    BY <1>0
  <2> HIDE DEF debt
  <2> QED
    BY <1>2, <2>1, <2>2, <2>3, <2>4 DEF NoReserve, Reserve, debt
<1>4. /\ market \in [Markets -> Reserve]
      /\ seen \in [market : [Markets -> Reserve], user : [Markets -> UserReserve], mode : Modes]
      /\ seen.market = [m \in Markets |-> NoReserve]
  <2>1. market = [m \in Markets |-> market[m]]
    BY <1>0
  <2> QED
    BY <1>0, <1>2, <1>3, <2>1
<1>a. /\ now = 0 /\ moves = 0 /\ user = p.user /\ mode = p.mode /\ step = "reserves"
  BY <1>0
<1>5. TypeOK
  <2>1. now \in 0..MaxTime /\ moves \in 0..MaxMoves
    BY <1>a, BoundsType
  <2> QED
    BY <1>a, <1>1, <1>4, <2>1 DEF TypeOK
<1>6. IndexesAtLeastOne
  <2> SUFFICES ASSUME NEW m \in Markets
               PROVE  /\ market[m].lastUpdateTimestamp <= now
                      /\ market[m].liquidityIndex >= Ray /\ market[m].variableBorrowIndex >= Ray
                      /\ seen.market[m].liquidityIndex >= Ray
                      /\ seen.market[m].variableBorrowIndex >= Ray
    BY DEF IndexesAtLeastOne
  <2>1. seen.market[m] = NoReserve
    BY <1>4
  <2>2. 0 <= 0 /\ Ray >= Ray
    OBVIOUS
  <2> QED
    BY <1>a, <1>2, <1>3, <2>1, <2>2
<1> QED
  BY <1>5, <1>6 DEF PositionsInv

\* Every step keeps them.
LEMMA PositionsStep == PositionsInv /\ [Next]_vars => PositionsInv'
<1> SUFFICES ASSUME PositionsInv, [Next]_vars PROVE PositionsInv'
  OBVIOUS
<1>0. /\ now \in 0..MaxTime /\ market \in [Markets -> Reserve]
      /\ user \in [Markets -> UserReserve] /\ mode \in Modes /\ moves \in 0..MaxMoves
      /\ seen \in [market : [Markets -> Reserve], user : [Markets -> UserReserve], mode : Modes]
      /\ \A m \in Markets : /\ seen.market[m].liquidityIndex >= Ray
                            /\ seen.market[m].variableBorrowIndex >= Ray
  BY DEF PositionsInv, TypeOK, IndexesAtLeastOne
<1>a. ASSUME NEW m \in Markets, NEW amount \in Amounts, NEW isolating,
             amount <= market[m].availableLiquidity, market' = Lent(m, amount, isolating),
             now' = now, seen' = seen
      PROVE  market' \in [Markets -> Reserve] /\ IndexesAtLeastOne'
  BY <1>0, <1>a, LentType DEF IndexesAtLeastOne
<1>1. ASSUME NEW m \in Markets, NEW amount \in Amounts, UserBorrows(m, amount)
      PROVE  PositionsInv'
  <2>1. RayDiv(amount, DebtIndexNow(m)) \in Nat
    BY ConfigAssumption, IndexesOfNow, RayDivType
  <2>2. user' \in [Markets -> UserReserve]
    <3> DEFINE more == RayDiv(amount, DebtIndexNow(m))
    <3> HIDE DEF more
    <3>1. [user[m] EXCEPT !.scaledVariableDebt = @ + more] \in UserReserve
      BY <1>0, <2>1 DEF UserReserve, more
    <3>2. user' = [user EXCEPT ![m] = [user[m] EXCEPT !.scaledVariableDebt = @ + more]]
      BY <1>0, <1>1 DEF UserBorrows, more
    <3> QED
      BY <1>0, <3>1, <3>2
  <2>3. market' \in [Markets -> Reserve] /\ IndexesAtLeastOne'
    BY <1>1, <1>a DEF UserBorrows
  <2> QED
    BY <1>0, <1>1, <2>2, <2>3, BoundsType DEF UserBorrows, Move, PositionsInv, TypeOK
<1>2. ASSUME NEW m \in Markets, NEW amount \in Amounts, UserSupplies(m, amount)
      PROVE  PositionsInv'
  <2>1. RayDiv(amount, IncomeNow(m)) \in Nat
    BY ConfigAssumption, IndexesOfNow, RayDivType
  <2>2. user' \in [Markets -> UserReserve]
    <3> DEFINE more == RayDiv(amount, IncomeNow(m))
    <3> HIDE DEF more
    <3>1. [user[m] EXCEPT !.scaledLBTokenBalance = @ + more] \in UserReserve
      BY <1>0, <2>1 DEF UserReserve, more
    <3>2. user' = [user EXCEPT ![m] = [user[m] EXCEPT !.scaledLBTokenBalance = @ + more]]
      BY <1>0, <1>2 DEF UserSupplies, more
    <3> QED
      BY <1>0, <3>1, <3>2
  <2> DEFINE a == [Accrued(m) EXCEPT !.availableLiquidity = @ + amount]
  <2>3. /\ a \in Reserve /\ a.liquidityIndex >= Ray /\ a.variableBorrowIndex >= Ray
        /\ a.lastUpdateTimestamp = now
    BY ConfigAssumption, AccruedType DEF Reserve
  <2>4. market' = [market EXCEPT ![m] = a]
    BY <1>2 DEF UserSupplies
  <2> HIDE DEF a
  <2>5. market' \in [Markets -> Reserve]
    BY <1>0, <2>3, <2>4
  <2>6. IndexesAtLeastOne'
    <3>1. ASSUME NEW i \in Markets
          PROVE  /\ market'[i].lastUpdateTimestamp <= now
                 /\ market'[i].liquidityIndex >= Ray /\ market'[i].variableBorrowIndex >= Ray
      <4>1. market'[i] = IF i = m THEN a ELSE market[i]
        BY <1>0, <2>4
      <4> QED
        BY <1>0, <2>3, <4>1 DEF PositionsInv, IndexesAtLeastOne
    <3> QED
      BY <1>0, <1>2, <3>1 DEF UserSupplies, IndexesAtLeastOne
  <2> QED
    BY <1>0, <1>2, <2>2, <2>5, <2>6, BoundsType DEF UserSupplies, Move, PositionsInv, TypeOK
<1>3. ASSUME NEW m \in Markets, NEW amount \in Amounts,
             NEW isolating \in {{}} \cup {{i} : i \in Isolated}, OthersBorrow(m, amount, isolating)
      PROVE  PositionsInv'
  <2>1. market' \in [Markets -> Reserve] /\ IndexesAtLeastOne'
    BY <1>3, <1>a DEF OthersBorrow
  <2> QED
    BY <1>0, <1>3, <2>1, BoundsType DEF OthersBorrow, Move, PositionsInv, TypeOK
<1>4. ASSUME NEW m \in Markets, NEW price \in Prices, PriceMoves(m, price) PROVE PositionsInv'
  <2>1. [market[m] EXCEPT !.price = price] \in Reserve
    BY <1>0, ConfigAssumption DEF Reserve
  <2>2. market' = [market EXCEPT ![m] = [market[m] EXCEPT !.price = price]]
    BY <1>0, <1>4 DEF PriceMoves
  <2>3. market' \in [Markets -> Reserve]
    BY <1>0, <2>1, <2>2
  <2>4. IndexesAtLeastOne'
    <3>1. \A i \in Markets : /\ market'[i].liquidityIndex = market[i].liquidityIndex
                             /\ market'[i].variableBorrowIndex = market[i].variableBorrowIndex
                             /\ market'[i].lastUpdateTimestamp = market[i].lastUpdateTimestamp
      BY <1>0, <2>2 DEF Reserve
    <3> QED
      BY <1>4, <3>1 DEF PriceMoves, PositionsInv, IndexesAtLeastOne
  <2> QED
    BY <1>0, <1>4, <2>3, <2>4, BoundsType DEF PriceMoves, Move, PositionsInv, TypeOK
<1>5. ASSUME NEW category \in Modes, UserSwitchesMode(category) PROVE PositionsInv'
  BY <1>5, BoundsType DEF UserSwitchesMode, Move, PositionsInv, TypeOK, IndexesAtLeastOne
<1>6. CASE Tick
  <2>1. \A m \in Markets : market[m].lastUpdateTimestamp \in Nat
    BY <1>0 DEF Reserve
  <2> QED
    BY <1>0, <1>6, <2>1, ConfigAssumption DEF Tick, chain, PositionsInv, TypeOK, IndexesAtLeastOne
<1>7. CASE ReadReserves
  BY <1>7 DEF ReadReserves, chain, PositionsInv, TypeOK, IndexesAtLeastOne
<1>8. CASE ReadUserReserves
  BY <1>8 DEF ReadUserReserves, chain, PositionsInv, TypeOK, IndexesAtLeastOne
<1>9. CASE UNCHANGED vars
  BY <1>9 DEF vars, chain, PositionsInv, TypeOK, IndexesAtLeastOne
<1> QED
  BY <1>1, <1>2, <1>3, <1>4, <1>5, <1>6, <1>7, <1>8, <1>9 DEF Next

\* The variables of Positions keep their types.
THEOREM PositionsTyped == Spec => []TypeOK
<1>1. PositionsInv => TypeOK
  BY DEF PositionsInv
<1> QED
  BY <1>1, PositionsInit, PositionsStep, PTL DEF Spec

\* Interest is only ever added: on the chain and in what was read of it no index
\* falls below one, whoever borrows, supplies or changes mode, and when.
THEOREM IndexesGrow == Spec => []IndexesAtLeastOne
<1>1. PositionsInv => IndexesAtLeastOne
  BY DEF PositionsInv
<1> QED
  BY <1>1, PositionsInit, PositionsStep, PTL DEF Spec

-----------------------------------------------------------------------------
\* Sets of numbers.
\* A set of naturals has a least element.
LEMMA LeastOf ==
    ASSUME NEW S \in SUBSET Nat, S # {}
    PROVE  Min(S) \in S /\ \A y \in S : Min(S) <= y
<1> DEFINE R == {nn \in Nat \X Nat : nn[1] < nn[2]}
<1>0. IsWellFoundedOn(R, Nat)
  BY NatLessThanWellFounded, Zenon DEF OpToRel
<1>1. PICK x \in S : \A y \in S : ~ (<<y, x>> \in R)
  <2> HIDE DEF R
  <2> QED
    BY <1>0, WFMin
<1>2. ASSUME NEW y \in S PROVE x <= y
  <2>1. x \in Nat /\ y \in Nat
    OBVIOUS
  <2>2. y < x => <<y, x>> \in R
    BY <2>1
  <2> HIDE DEF R
  <2>3. ~ (y < x)
    BY <1>1, <2>2
  <2> QED
    BY <2>1, <2>3
<1> QED
  BY <1>2 DEF Min

\* What is not negative of a number.
LEMMA AtLeastZero ==
    ASSUME NEW x \in Int
    PROVE  Max({0, x}) = IF x > 0 THEN x ELSE 0
<1> DEFINE y == IF x > 0 THEN x ELSE 0
<1>1. y \in {0, x} /\ \A z \in {0, x} : y >= z
  OBVIOUS
<1>2. \A u, v \in {0, x} : u >= v /\ v >= u => u = v
  OBVIOUS
<1> QED
  BY <1>1, <1>2 DEF Max

\* Sums whose terms are within k of each other, in units of p.
LEMMA SumWithin ==
    ASSUME NEW S, IsFiniteSet(S), NEW f, NEW g, NEW p, NEW k \in Nat,
           \A x \in S : f[x] \in Nat /\ g[x] \in Nat /\ p[x] \in Nat /\ f[x] <= g[x] + k * p[x]
    PROVE  Sum(f, S) <= Sum(g, S) + k * Sum(p, S)
<1> DEFINE more == [x \in S |-> k * p[x]]
           both == [x \in S |-> g[x] + more[x]]
<1>1. /\ \A x \in S : more[x] = k * p[x] /\ more[x] \in Nat
      /\ \A x \in S : both[x] = g[x] + more[x] /\ both[x] \in Nat /\ f[x] <= both[x]
  BY ProductInNat
<1> HIDE DEF more, both
<1>2. Sum(f, S) <= Sum(both, S)
  <2>1. /\ \A x \in S : f[x] \in Int /\ f[x] <= both[x]
        /\ \A x \in S : both[x] \in Int
        /\ \A x \in S \ S : 0 <= both[x]
    BY <1>1
  <2> QED
    BY <2>1, SumGrows DEF Sum
<1>3. Sum(both, S) = Sum(g, S) + Sum(more, S)
  <2>1. \A x \in S : g[x] \in Int /\ more[x] \in Int /\ both[x] = g[x] + more[x]
    BY <1>1
  <2> QED
    BY <2>1, SumPlus DEF Sum
<1>4. Sum(more, S) = k * Sum(p, S)
  <2>1. \A x \in S : p[x] \in Int /\ more[x] = k * p[x]
    BY <1>1
  <2> QED
    BY <2>1, SumTimes DEF Sum
<1> QED
  BY <1>2, <1>3, <1>4

-----------------------------------------------------------------------------
\* What is shown.
\* Loan to values and thresholds.
LEMMA LtvBounds ==
    ASSUME NEW category, NEW m \in Markets
    PROVE  /\ Ltv(category, m) \in Nat /\ Threshold(category, m) \in Nat
           /\ Ltv(category, m) <= Threshold(category, m)
           /\ Threshold(category, m) <= Percent
<1>1. /\ Config[m].baseLTVasCollateral \in Nat /\ Config[m].eModeLtv \in Nat
      /\ Config[m].reserveLiquidationThreshold \in Nat
      /\ Config[m].eModeLiquidationThreshold \in Nat
  BY ConfigAssumption DEF Numbers
<1> QED
  BY <1>1, ConfigAssumption DEF Ltv, Threshold

\* So is what is rounded to wads, an integer at least.
LEMMA RayToWadType ==
    /\ \A a \in Int : RayToWad(a) \in Int
    /\ \A a \in Nat : RayToWad(a) \in Nat
BY QuotientType DEF RayToWad

\* No supply is shown as negative, unless the clocks are too far apart.
LEMMA ShownSupplyType ==
    ASSUME PositionsInv, ClocksAgree, NEW m \in Markets, NEW t \in 0..MaxTime
    PROVE  ShownSupply(m, t) \in Nat
<1> DEFINE rate == Config[m].liquidityRate
           s == Elapsed(m, t)
           i == seen.market[m].liquidityIndex
           b == seen.user[m].scaledLBTokenBalance
<1>1. /\ i \in Nat /\ b \in Nat /\ seen.market[m].lastUpdateTimestamp \in 0..MaxTime
  BY DEF PositionsInv, TypeOK, Reserve, UserReserve
<1>2. rate \in Nat
  BY ConfigAssumption DEF Numbers
<1>3. s \in Int /\ -s <= MaxTime
  BY <1>1, BoundsType DEF Elapsed
<1>4. rate * (-s) <= Ray * Year
  <2>1. rate * MaxTime <= Ray * Year
    BY DEF ClocksAgree
  <2> HIDE DEF rate, s
  <2>2. rate * (-s) <= rate * MaxTime
    BY <1>2, <1>3, BoundsType, ProductGrows
  <2>3. rate * (-s) \in Int /\ rate * MaxTime \in Int /\ Ray * Year \in Int
    BY <1>2, <1>3, BoundsType
  <2> QED
    BY <2>1, <2>2, <2>3 DEF rate
<1> HIDE DEF rate, s, i, b
<1>5. NormalizedIncome(i, rate, s) \in Nat
  BY <1>1, <1>2, <1>3, <1>4, IncomeBounds
<1>6. WadToRay(b) \in Nat
  BY <1>1, ProductInNat DEF WadToRay
<1>7. ShownSupply(m, t) = RayToWad(RayMul(WadToRay(b), NormalizedIncome(i, rate, s)))
  BY DEF ShownSupply, LinearBalance, rate, s, i, b
<1> QED
  BY <1>5, <1>6, <1>7, RayMulRounds, RayToWadType

\* A debt that is shown is a number, at any time.
LEMMA ShownDebtType ==
    ASSUME PositionsInv, NEW m \in Markets, NEW t \in Nat
    PROVE  ShownDebt(m, t) \in Int
<1> DEFINE s == Elapsed(m, t)
           i == seen.market[m].variableBorrowIndex
           b == WadToRay(seen.user[m].scaledVariableDebt)
           p == WadToRay(seen.user[m].principalStableDebt)
           c == CompoundedInterest(Config[m].variableBorrowRate, s)
           d == CompoundedInterest(Config[m].stableBorrowRate, t)
<1>1. /\ i \in Nat /\ seen.user[m].scaledVariableDebt \in Nat
      /\ seen.user[m].principalStableDebt \in Nat
      /\ seen.market[m].lastUpdateTimestamp \in Int
  BY BoundsType DEF PositionsInv, TypeOK, Reserve, UserReserve
<1>2. Config[m].variableBorrowRate \in Nat /\ Config[m].stableBorrowRate \in Nat
  BY ConfigAssumption DEF Numbers
<1>3. s \in Int /\ b \in Int /\ p \in Int
  BY <1>1 DEF Elapsed, WadToRay
<1> HIDE DEF s, b, p, i
<1>4. c \in Int /\ d \in Int
  BY <1>2, <1>3, CompoundedType
<1> HIDE DEF c, d
<1>5. \A x, y \in Int : RayMul(x, y) \in Int
  <2> SUFFICES ASSUME NEW x \in Int, NEW y \in Int PROVE RayMul(x, y) \in Int
    OBVIOUS
  <2>1. Ray \div 2 + x * y \in Int
    OBVIOUS
  <2> QED
    BY <2>1, QuotientType DEF RayMul
<1>6. RayToWad(RayMul(b, RayMul(c, i))) \in Int /\ RayToWad(RayMul(p, d)) \in Int
  <2>1. i \in Int
    BY <1>1
  <2>2. RayMul(c, i) \in Int /\ RayMul(p, d) \in Int
    BY <1>3, <1>4, <1>5, <2>1
  <2>3. RayMul(b, RayMul(c, i)) \in Int
    BY <1>3, <1>5, <2>2
  <2> QED
    BY <2>2, <2>3, RayToWadType
<1>7. ShownDebt(m, t) = RayToWad(RayMul(b, RayMul(c, i))) + RayToWad(RayMul(p, d))
  BY DEF ShownDebt, CompoundedBalance, CompoundedStableBalance, b, c, d, i, p, s
<1> QED
  BY <1>6, <1>7

\* The sums that are shown.
LEMMA ShownTypes ==
    ASSUME PositionsInv, NEW t \in 0..MaxTime, \A m \in Markets : ShownSupply(m, t) \in Nat
    PROVE  /\ ShownLimit(t) \in Nat /\ ShownThreshold(t) \in Nat
           /\ ShownLimit(t) <= ShownThreshold(t)
           /\ ShownBorrows(t) \in Int
<1> DEFINE S == Collaterals(seen.user)
           f == [m \in Markets |-> ShownValue(m, t) * Ltv(seen.mode, m)]
           g == [m \in Markets |-> ShownValue(m, t) * Threshold(seen.mode, m)]
           d == [m \in Markets |-> seen.market[m].price * ShownDebt(m, t)]
<1>1. IsFiniteSet(Markets) /\ S \subseteq Markets /\ IsFiniteSet(S)
  BY ConfigAssumption, FS_Subset DEF Collaterals
<1>2. \A m \in Markets : seen.market[m].price \in Nat
  BY DEF PositionsInv, TypeOK, Reserve
<1>3. \A m \in Markets : ShownValue(m, t) \in Nat
  BY <1>2, ProductInNat DEF ShownValue
<1>4. \A m \in Markets : f[m] \in Nat /\ g[m] \in Nat /\ f[m] <= g[m]
  BY <1>3, LtvBounds, ProductInNat, ProductGrows
<1>5. t \in Nat
  OBVIOUS
<1>6. \A m \in Markets : d[m] \in Int
  <2> SUFFICES ASSUME NEW m \in Markets PROVE seen.market[m].price * ShownDebt(m, t) \in Int
    OBVIOUS
  <2> QED
    BY <1>2, <1>5, ShownDebtType
<1> HIDE DEF f, g, d, S
<1>7. Sum(f, S) \in Nat /\ Sum(g, S) \in Nat /\ Sum(d, Markets) \in Int
  BY <1>1, <1>4, <1>6, SumType, SumTypeNat DEF Sum
<1>8. Sum(f, S) <= Sum(g, S)
  <2>1. /\ \A m \in S : f[m] \in Int /\ f[m] <= g[m]
        /\ \A m \in S : g[m] \in Int
        /\ \A m \in S \ S : 0 <= g[m]
    BY <1>1, <1>4
  <2> QED
    BY <1>1, <2>1, SumGrows DEF Sum
<1> QED
  BY <1>7, <1>8 DEF ShownLimit, ShownThreshold, ShownBorrows, f, g, d, S

\* What is available is the least of what is covered and what is left of the
\* ceilings.
LEMMA AvailableIsLeast ==
    ASSUME PositionsInv, NEW t \in 0..MaxTime, \A m \in Markets : ShownSupply(m, t) \in Nat
    PROVE  LET covered == Max({0, ShownLimit(t) - Percent * ShownBorrows(t)})
               rooms == {Percent * Headroom(m) : m \in Isolating(seen.user)}
           IN  /\ covered = IF ShownLimit(t) - Percent * ShownBorrows(t) > 0
                            THEN ShownLimit(t) - Percent * ShownBorrows(t) ELSE 0
               /\ \A m \in Isolating(seen.user) : Headroom(m) \in Nat
               /\ AvailableBorrows(t) \in Nat
               /\ AvailableBorrows(t) \in {covered} \cup rooms
               /\ \A x \in {covered} \cup rooms : AvailableBorrows(t) <= x
<1> DEFINE d == ShownLimit(t) - Percent * ShownBorrows(t)
           covered == Max({0, d})
           rooms == {Percent * Headroom(m) : m \in Isolating(seen.user)}
<1>1. Percent \in Nat /\ d \in Int
  BY ShownTypes, ConfigAssumption
<1>2. AvailableBorrows(t) = Min({covered} \cup rooms)
  BY DEF AvailableBorrows
<1>3. \A m \in Isolating(seen.user) : Headroom(m) \in Nat
  <2> SUFFICES ASSUME NEW m \in Isolating(seen.user) PROVE Headroom(m) \in Nat
    OBVIOUS
  <2>1. m \in Markets
    BY DEF Isolating, Collaterals
  <2>2. Config[m].debtCeiling - seen.market[m].isolationModeTotalDebt \in Int
    <3>1. Config[m].debtCeiling \in Nat
      BY <2>1, ConfigAssumption DEF Numbers
    <3>2. seen.market[m].isolationModeTotalDebt \in Nat
      BY <2>1 DEF PositionsInv, TypeOK, Reserve
    <3> QED
      BY <3>1, <3>2
  <2> QED
    BY <2>2, AtLeastZero DEF Headroom
<1> HIDE DEF d
<1>4. covered = (IF d > 0 THEN d ELSE 0) /\ covered \in Nat
  BY <1>1, AtLeastZero
<1>5. rooms \subseteq Nat
  BY <1>1, <1>3, ProductInNat
<1> HIDE DEF covered, rooms
<1>6. {covered} \cup rooms \in SUBSET Nat /\ {covered} \cup rooms # {}
  BY <1>4, <1>5
<1>7. /\ AvailableBorrows(t) \in {covered} \cup rooms
      /\ \A x \in {covered} \cup rooms : AvailableBorrows(t) <= x
  BY <1>2, <1>6, LeastOf
<1>8. AvailableBorrows(t) \in Nat
  BY <1>6, <1>7
<1> QED
  BY <1>3, <1>4, <1>7, <1>8 DEF covered, rooms, d

\* All that is available is covered, whatever was read.
LEMMA CoveredIfBorrowable == PositionsInv /\ ClocksAgree => HealthyIfBorrowable
<1> SUFFICES ASSUME PositionsInv, ClocksAgree, NEW t \in 0..MaxTime, AvailableBorrows(t) > 0
             PROVE  HealthyWith(t, AvailableBorrows(t))
  BY DEF HealthyIfBorrowable
<1>0. \A m \in Markets : ShownSupply(m, t) \in Nat
  BY ShownSupplyType
<1> DEFINE a == AvailableBorrows(t)
           l == ShownLimit(t)
           h == ShownThreshold(t)
           b == Percent * ShownBorrows(t)
<1>1. l \in Nat /\ h \in Nat /\ l <= h /\ b \in Int
  BY <1>0, ShownTypes, ConfigAssumption
<1>2. a \in Nat /\ a > 0 /\ a <= (IF l - b > 0 THEN l - b ELSE 0)
  BY <1>0, AvailableIsLeast
<1>3. HealthyWith(t, a) = (b + a = 0 \/ h >= b + a)
  BY DEF HealthyWith
<1> HIDE DEF a, l, h, b
<1>4. h >= b + a
  BY <1>1, <1>2
<1>5. HealthyWith(t, a)
  BY <1>3, <1>4
<1> QED
  BY <1>5 DEF a

\* Whoever borrows all that is shown as available, keeps a health factor of one:
\* for any markets, positions, prices and torn or old reads, as long as no market
\* pays more than one in the time a client's clock may be behind.
THEOREM BorrowableStaysHealthy ==
    ASSUME ClocksAgree
    PROVE  Spec => []HealthyIfBorrowable
<1>1. PositionsInv => HealthyIfBorrowable
  BY CoveredIfBorrowable
<1> QED
  BY <1>1, PositionsInit, PositionsStep, PTL DEF Spec

-----------------------------------------------------------------------------
\* One snapshot.
\* A balance times an index, rounded once as the pool does or twice as the client
\* does.
LEMMA RoundedTwice ==
    ASSUME NEW b \in Nat, NEW i \in Nat
    PROVE  /\ RayToWad(RayMul(WadToRay(b), i)) \in Nat /\ RayMul(b, i) \in Nat
           /\ RayToWad(RayMul(WadToRay(b), i)) <= RayMul(b, i) + 1
           /\ RayMul(b, i) <= RayToWad(RayMul(WadToRay(b), i)) + 1
<1> DEFINE R == Ray
           W == WadRayRatio
           halfR == Ray \div 2
           halfW == WadRayRatio \div 2
           x == b * i
           s == RayMul(b, i)
           k == RayMul(WadToRay(b), i)
           h == RayToWad(k)
<1>1. /\ R \in Nat \ {0} /\ W \in Nat \ {0} /\ halfR \in Nat /\ halfW \in Nat
      /\ 2 * halfR = R /\ 2 * halfW = W /\ x \in Nat
  BY ProductInNat
<1>2. s \in Nat /\ R * s <= halfR + x /\ halfR + x < R * s + R
  BY RayMulRounds
<1>3. k \in Nat /\ R * k <= halfR + W * x /\ halfR + W * x < R * k + R
  <2>1. WadToRay(b) \in Nat
    BY ProductInNat DEF WadToRay
  <2>2. WadToRay(b) * i = W * x
    BY DEF WadToRay
  <2> QED
    BY <2>1, <2>2, RayMulRounds
<1> HIDE DEF k
<1>4. h \in Nat /\ W * h <= halfW + k /\ halfW + k < W * h + W
  <2>1. halfW + k \in Int /\ halfW + k >= 0
    BY <1>1, <1>3
  <2>2. h = Quotient(halfW + k, W)
    BY DEF RayToWad
  <2> HIDE DEF halfW, W
  <2> QED
    BY <1>1, <2>1, <2>2, QuotientRounds
<1> HIDE DEF R, W, halfR, halfW, x, s, h
<1> DEFINE wrs == W * (R * s)
           rw == R * W
<1>5. /\ wrs \in Nat /\ rw \in Nat /\ rw >= R
      /\ 2 * (R * halfW) = rw /\ 2 * (W * halfR) = rw
      /\ W * (R * s) = wrs /\ R * (W * s) = wrs
  BY <1>1, <1>2
<1>6. /\ W * x <= wrs + W * halfR /\ wrs - W * halfR <= W * x
  <2>1. x <= R * s + halfR /\ R * s - halfR <= x
    BY <1>1, <1>2
  <2>2. R * s + halfR \in Int /\ R * s - halfR \in Int
    BY <1>1, <1>2
  <2>3. W * x <= W * (R * s + halfR) /\ W * (R * s - halfR) <= W * x
    BY <1>1, <2>1, <2>2, ProductGrows
  <2>4. W * (R * s + halfR) = wrs + W * halfR /\ W * (R * s - halfR) = wrs - W * halfR
    BY <1>1, <1>2
  <2> QED
    BY <2>3, <2>4
<1>7. /\ R * halfW \in Nat /\ W * halfR \in Nat /\ R * k \in Nat /\ W * x \in Nat
      /\ W * s \in Nat /\ W * h \in Nat
  BY <1>1, <1>2, <1>3, <1>4, ProductInNat
<1>8. h <= s + 1
  <2> SUFFICES ASSUME s + 2 <= h PROVE FALSE
    BY <1>2, <1>4
  <2>1. W * (s + 2) <= W * h /\ W * (s + 2) = W * s + 2 * W
    BY <1>1, <1>2, <1>4, ProductGrows
  <2>2. W * s + 2 * W - halfW <= k /\ W * s + 2 * W - halfW \in Int
    BY <1>1, <1>3, <1>4, <1>7, <2>1
  <2>3. R * (W * s + 2 * W - halfW) <= R * k
    BY <1>1, <1>3, <2>2, ProductGrows
  <2>4. R * (W * s + 2 * W - halfW) = wrs + 2 * rw - R * halfW
    BY <1>1, <1>2
  <2> HIDE DEF wrs, rw
  <2>5. wrs + 2 * rw - R * halfW <= halfR + (wrs + W * halfR)
    BY <1>1, <1>3, <1>5, <1>6, <1>7, <2>3, <2>4
  <2> QED
    BY <1>1, <1>5, <1>7, <2>5
<1>9. s <= h + 1
  <2> SUFFICES ASSUME h + 2 <= s PROVE FALSE
    BY <1>2, <1>4
  <2>1. W * (h + 2) <= W * s /\ W * (h + 2) = W * h + 2 * W
    BY <1>1, <1>2, <1>4, ProductGrows
  <2>2. k <= W * s - W - halfW /\ W * s - W - halfW \in Int
    BY <1>1, <1>3, <1>4, <1>7, <2>1
  <2>3. R * k <= R * (W * s - W - halfW)
    BY <1>1, <1>3, <2>2, ProductGrows
  <2>4. R * (W * s - W - halfW) = wrs - rw - R * halfW
    BY <1>1, <1>2
  <2> HIDE DEF wrs, rw
  <2>5. halfR + (wrs - W * halfR) < wrs - rw - R * halfW + R
    BY <1>1, <1>3, <1>5, <1>6, <1>7, <2>3, <2>4
  <2> QED
    BY <1>1, <1>5, <1>7, <2>5
<1> QED
  BY <1>2, <1>4, <1>8, <1>9 DEF h, s, k

\* What one snapshot shows of a market is what the pool has it for, but for the
\* rounding.
LEMMA SnapshotShows ==
    ASSUME PositionsInv, OneSnapshot, NEW m \in Markets
    PROVE  /\ Supplied(m) \in Nat /\ ShownSupply(m, now) \in Nat
           /\ Owed(m) \in Nat /\ ShownDebt(m, now) \in Nat
           /\ ShownSupply(m, now) <= Supplied(m) + 1 /\ Supplied(m) <= ShownSupply(m, now) + 1
           /\ ShownDebt(m, now) <= Owed(m) + 2 /\ Owed(m) <= ShownDebt(m, now) + 2
<1> DEFINE b == user[m].scaledLBTokenBalance
           v == user[m].scaledVariableDebt
           p == user[m].principalStableDebt
           i == IncomeNow(m)
           j == DebtIndexNow(m)
           c == CompoundedInterest(Config[m].stableBorrowRate, now)
<1>1. seen.market = market /\ seen.user = user
  BY DEF OneSnapshot
<1>2. b \in Nat /\ v \in Nat /\ p \in Nat /\ now \in Nat
  BY DEF PositionsInv, TypeOK, UserReserve
<1>3. i \in Nat /\ j \in Nat
  BY IndexesOfNow
<1>4. c \in Nat
  <2>1. Config[m].stableBorrowRate \in Nat
    BY ConfigAssumption DEF Numbers
  <2> QED
    BY <1>2, <2>1, CompoundedGrows
<1>5. /\ Supplied(m) = RayMul(b, i)
      /\ ShownSupply(m, now) = RayToWad(RayMul(WadToRay(b), i))
  BY <1>1 DEF Supplied, ShownSupply, LinearBalance, Elapsed, IncomeNow
<1>6. /\ Owed(m) = RayMul(v, j) + RayMul(p, c)
      /\ ShownDebt(m, now) = RayToWad(RayMul(WadToRay(v), j)) + RayToWad(RayMul(WadToRay(p), c))
  BY <1>1 DEF Owed, StableNow, ShownDebt, CompoundedBalance, CompoundedStableBalance, Elapsed,
              DebtIndexNow
<1> HIDE DEF b, v, p, i, j, c
<1>7. /\ RayToWad(RayMul(WadToRay(b), i)) \in Nat /\ RayMul(b, i) \in Nat
      /\ RayToWad(RayMul(WadToRay(b), i)) <= RayMul(b, i) + 1
      /\ RayMul(b, i) <= RayToWad(RayMul(WadToRay(b), i)) + 1
  BY <1>2, <1>3, RoundedTwice
<1>8. /\ RayToWad(RayMul(WadToRay(v), j)) \in Nat /\ RayMul(v, j) \in Nat
      /\ RayToWad(RayMul(WadToRay(v), j)) <= RayMul(v, j) + 1
      /\ RayMul(v, j) <= RayToWad(RayMul(WadToRay(v), j)) + 1
  BY <1>2, <1>3, RoundedTwice
<1>9. /\ RayToWad(RayMul(WadToRay(p), c)) \in Nat /\ RayMul(p, c) \in Nat
      /\ RayToWad(RayMul(WadToRay(p), c)) <= RayMul(p, c) + 1
      /\ RayMul(p, c) <= RayToWad(RayMul(WadToRay(p), c)) + 1
  BY <1>2, <1>4, RoundedTwice
<1> QED
  BY <1>5, <1>6, <1>7, <1>8, <1>9

\* So the sums that are shown of one are within the rounding of the pool's.
LEMMA SnapshotSums ==
    ASSUME PositionsInv, OneSnapshot
    PROVE  LET K == Sum([m \in Markets |-> market[m].price], Markets)
           IN  /\ K \in Nat
               /\ CollateralValue \in Nat /\ DebtValue \in Nat /\ Weighted(mode) \in Nat
               /\ ShownLimit(now) \in Nat /\ ShownBorrows(now) \in Nat
               /\ ShownLimit(now) <= Weighted(mode) + Percent * K
               /\ Weighted(mode) <= ShownLimit(now) + Percent * K
               /\ ShownBorrows(now) <= DebtValue + 2 * K
               /\ DebtValue <= ShownBorrows(now) + 2 * K
               /\ Weighted(mode) <= Percent * CollateralValue
               /\ Sum([m \in Markets |-> Rounding(m)], Markets) = 3 * K
<1> DEFINE S == Collaterals(user)
           price == [m \in Markets |-> market[m].price]
           value == [m \in Markets |-> SuppliedValue(m)]
           weighted == [m \in Markets |-> SuppliedValue(m) * Ltv(mode, m)]
           limit == [m \in Markets |-> ShownValue(m, now) * Ltv(mode, m)]
           most == [m \in Markets |-> Percent * SuppliedValue(m)]
           owed == [m \in Markets |-> market[m].price * Owed(m)]
           shown == [m \in Markets |-> market[m].price * ShownDebt(m, now)]
           rounding == [m \in Markets |-> Rounding(m)]
<1>1. IsFiniteSet(Markets) /\ S \subseteq Markets /\ IsFiniteSet(S) /\ Percent \in Nat
  BY ConfigAssumption, FS_Subset DEF Collaterals
<1>2. ASSUME NEW m \in Markets
      PROVE  /\ price[m] \in Nat /\ value[m] \in Nat /\ weighted[m] \in Nat /\ limit[m] \in Nat
             /\ most[m] \in Nat /\ most[m] = Percent * value[m]
             /\ owed[m] \in Nat /\ shown[m] \in Nat
             /\ limit[m] <= weighted[m] + Percent * price[m]
             /\ weighted[m] <= limit[m] + Percent * price[m]
             /\ shown[m] <= owed[m] + 2 * price[m]
             /\ owed[m] <= shown[m] + 2 * price[m]
             /\ weighted[m] <= most[m]
             /\ rounding[m] = 3 * price[m]
  <2> DEFINE p == market[m].price
             l == Ltv(mode, m)
             s == Supplied(m)
             h == ShownSupply(m, now)
             o == Owed(m)
             d == ShownDebt(m, now)
  <2>1. p \in Nat
    BY DEF PositionsInv, TypeOK, Reserve
  <2>2. l \in Nat /\ l <= Percent
    <3>1. /\ Ltv(mode, m) \in Nat /\ Threshold(mode, m) \in Nat
          /\ Ltv(mode, m) <= Threshold(mode, m) /\ Threshold(mode, m) <= Percent
      BY LtvBounds
    <3> QED
      BY <1>1, <3>1
  <2>3. /\ s \in Nat /\ h \in Nat /\ o \in Nat /\ d \in Nat
        /\ h <= s + 1 /\ s <= h + 1 /\ d <= o + 2 /\ o <= d + 2
    BY SnapshotShows
  <2>4. /\ price[m] = p /\ value[m] = p * s /\ weighted[m] = (p * s) * l
        /\ limit[m] = (p * h) * l /\ most[m] = Percent * (p * s)
        /\ owed[m] = p * o /\ shown[m] = p * d /\ rounding[m] = 3 * p
    BY DEF SuppliedValue, ShownValue, OneSnapshot, Rounding
  <2> HIDE DEF p, l, s, h, o, d, price, value, weighted, limit, most, owed, shown, rounding
  <2>5. /\ p * s \in Nat /\ p * h \in Nat /\ p * o \in Nat /\ p * d \in Nat /\ p * l \in Nat
        /\ Percent * p \in Nat
    BY <1>1, <2>1, <2>2, <2>3, ProductInNat
  <2>6. /\ (p * s) * l \in Nat /\ (p * h) * l \in Nat /\ Percent * (p * s) \in Nat
    BY <1>1, <2>2, <2>5, ProductInNat
  <2>7. /\ (p * s) * l = (p * l) * s /\ (p * h) * l = (p * l) * h
        /\ (p * l) * (s + 1) = (p * l) * s + p * l /\ (p * l) * (h + 1) = (p * l) * h + p * l
    BY <2>1, <2>2, <2>3
  <2>8. (p * l) * h <= (p * l) * (s + 1) /\ (p * l) * s <= (p * l) * (h + 1)
    BY <2>3, <2>5, ProductGrows
  <2>9. p * l <= Percent * p /\ (p * s) * l <= Percent * (p * s)
    <3>1. p * l <= p * Percent /\ (p * s) * l <= (p * s) * Percent
      BY <1>1, <2>1, <2>2, <2>5, ProductGrows
    <3>2. p * Percent = Percent * p /\ (p * s) * Percent = Percent * (p * s)
      BY <1>1, <2>1, <2>3
    <3> QED
      BY <3>1, <3>2
  <2>10. /\ (p * h) * l <= (p * s) * l + Percent * p /\ (p * s) * l <= (p * h) * l + Percent * p
    <3> DEFINE u == (p * h) * l
               v == (p * s) * l
               w == p * l
               z == Percent * p
    <3>1. u \in Nat /\ v \in Nat /\ w \in Nat /\ z \in Nat /\ w <= z /\ u <= v + w /\ v <= u + w
      BY <2>5, <2>6, <2>7, <2>8, <2>9
    <3> HIDE DEF u, v, w, z
    <3>2. u <= v + z /\ v <= u + z
      BY <3>1
    <3> QED
      BY <3>2 DEF u, v, z
  <2>11. p * d <= p * o + 2 * p /\ p * o <= p * d + 2 * p
    <3>1. p * d <= p * (o + 2) /\ p * o <= p * (d + 2)
      BY <2>1, <2>3, ProductGrows
    <3>2. p * (o + 2) = p * o + 2 * p /\ p * (d + 2) = p * d + 2 * p
      BY <2>1, <2>3
    <3> QED
      BY <3>1, <3>2
  <2> QED
    BY <2>1, <2>4, <2>5, <2>6, <2>9, <2>10, <2>11
<1>3. /\ CollateralValue = Sum(value, S) /\ Weighted(mode) = Sum(weighted, S)
      /\ DebtValue = Sum(owed, Markets)
      /\ ShownLimit(now) = Sum(limit, S) /\ ShownBorrows(now) = Sum(shown, Markets)
  BY DEF CollateralValue, Weighted, DebtValue, ShownLimit, ShownBorrows, OneSnapshot
<1> DEFINE K == Sum(price, Markets)
<1> HIDE DEF S, price, value, weighted, limit, most, owed, shown, rounding
<1>4. /\ Sum(value, S) \in Nat /\ Sum(weighted, S) \in Nat /\ Sum(limit, S) \in Nat
      /\ Sum(owed, Markets) \in Nat /\ Sum(shown, Markets) \in Nat
      /\ K \in Nat /\ Sum(price, S) \in Nat
  <2>1. \A m \in S : /\ value[m] \in Nat /\ weighted[m] \in Nat /\ limit[m] \in Nat
                     /\ price[m] \in Nat
    BY <1>1, <1>2
  <2> QED
    BY <1>1, <1>2, <2>1, SumTypeNat DEF Sum
<1>5. Sum(price, S) <= K
  <2>1. /\ \A m \in S : price[m] \in Int /\ price[m] <= price[m]
        /\ \A m \in Markets : price[m] \in Int
        /\ \A m \in Markets \ S : 0 <= price[m]
    BY <1>1, <1>2
  <2> QED
    BY <1>1, <2>1, SumGrows DEF Sum
<1>6. Percent * Sum(price, S) <= Percent * K
  BY <1>1, <1>4, <1>5, ProductGrows
<1>7. Sum(limit, S) <= Sum(weighted, S) + Percent * Sum(price, S)
  <2>1. \A m \in S : /\ limit[m] \in Nat /\ weighted[m] \in Nat /\ price[m] \in Nat
                     /\ limit[m] <= weighted[m] + Percent * price[m]
    BY <1>1, <1>2
  <2> QED
    BY <1>1, <2>1, SumWithin
<1>8. Sum(weighted, S) <= Sum(limit, S) + Percent * Sum(price, S)
  <2>1. \A m \in S : /\ limit[m] \in Nat /\ weighted[m] \in Nat /\ price[m] \in Nat
                     /\ weighted[m] <= limit[m] + Percent * price[m]
    BY <1>1, <1>2
  <2> QED
    BY <1>1, <2>1, SumWithin
<1>9. Sum(shown, Markets) <= Sum(owed, Markets) + 2 * K
  <2>1. \A m \in Markets : /\ shown[m] \in Nat /\ owed[m] \in Nat /\ price[m] \in Nat
                           /\ shown[m] <= owed[m] + 2 * price[m]
    BY <1>2
  <2> QED
    BY <1>1, <2>1, SumWithin
<1>10. Sum(owed, Markets) <= Sum(shown, Markets) + 2 * K
  <2>1. \A m \in Markets : /\ shown[m] \in Nat /\ owed[m] \in Nat /\ price[m] \in Nat
                           /\ owed[m] <= shown[m] + 2 * price[m]
    BY <1>2
  <2> QED
    BY <1>1, <2>1, SumWithin
<1>11. Sum(weighted, S) <= Percent * Sum(value, S)
  <2>1. /\ \A m \in S : /\ weighted[m] \in Int /\ weighted[m] <= most[m] /\ value[m] \in Int
                        /\ most[m] \in Int /\ most[m] = Percent * value[m]
        /\ \A m \in S \ S : 0 <= most[m]
    BY <1>1, <1>2
  <2>2. Sum(weighted, S) <= Sum(most, S)
    BY <1>1, <2>1, SumGrows DEF Sum
  <2>3. Sum(most, S) = Percent * Sum(value, S)
    BY <1>1, <2>1, SumTimes DEF Sum
  <2> QED
    BY <2>2, <2>3
<1>12. Sum(rounding, Markets) = 3 * K
  <2>1. \A m \in Markets : price[m] \in Int /\ rounding[m] = 3 * price[m]
    BY <1>2
  <2>2. PICK k \in Int : k = 3
    OBVIOUS
  <2>3. Sum(rounding, Markets) = k * K
    BY <1>1, <2>1, <2>2, SumTimes DEF Sum
  <2> QED
    BY <2>2, <2>3
<1> DEFINE a == Percent * K
           b == Percent * Sum(price, S)
<1>13. a \in Nat /\ b \in Nat /\ b <= a
  BY <1>1, <1>4, <1>6, ProductInNat
<1> HIDE DEF a, b, K
<1>14. Sum(limit, S) <= Sum(weighted, S) + a /\ Sum(weighted, S) <= Sum(limit, S) + a
  BY <1>4, <1>7, <1>8, <1>13 DEF b
<1>15. a = Percent * Sum([m \in Markets |-> market[m].price], Markets)
       /\ K = Sum([m \in Markets |-> market[m].price], Markets)
       /\ Sum(rounding, Markets) = Sum([m \in Markets |-> Rounding(m)], Markets)
  BY DEF a, K, price, rounding
<1> QED
  BY <1>3, <1>4, <1>9, <1>10, <1>11, <1>12, <1>14, <1>15

\* The pool's average is rounded down, and so is what it lets the user borrow.
LEMMA PowerBounds ==
    ASSUME PositionsInv, OneSnapshot
    PROVE  \E q \in Nat :
             /\ BorrowingPower = IF q - DebtValue > 0 THEN q - DebtValue ELSE 0
             /\ Percent * q <= Weighted(mode)
             /\ Weighted(mode) <= Percent * q + Percent + CollateralValue
<1> DEFINE V == CollateralValue
           L == Weighted(mode)
           A == AverageLtv
           q == (V * A) \div Percent
<1>1. V \in Nat /\ L \in Nat /\ DebtValue \in Nat /\ L <= Percent * V /\ Percent \in Nat \ {0}
  BY SnapshotSums, ConfigAssumption
<1>2. AverageLtv = IF V = 0 THEN 0 ELSE L \div V
  BY DEF AverageLtv
<1>3. BorrowingPower = Max({0, q - DebtValue})
  BY DEF BorrowingPower
<1> HIDE DEF V, L
<1>4. A \in Nat /\ V * A <= L /\ L <= V * A + V
  <2>1. CASE V = 0
    <3>1. A = 0 /\ L = 0 /\ V * A = 0
      BY <1>1, <1>2, <2>1
    <3> QED
      BY <2>1, <3>1
  <2>2. CASE V # 0
    BY <1>1, <1>2, <2>2
  <2> QED
    BY <2>1, <2>2
<1> HIDE DEF A
<1>5. V * A \in Nat
  BY <1>1, <1>4, ProductInNat
<1>6. q \in Nat /\ Percent * q <= V * A /\ V * A < Percent * q + Percent
  <2> DEFINE n == V * A
  <2> HIDE DEF n
  <2>1. \A d \in Nat \ {0} : /\ n \div d \in Nat
                            /\ d * (n \div d) <= n /\ n < d * (n \div d) + d
    BY <1>5 DEF n
  <2> QED
    BY <1>1, <2>1 DEF n
<1> HIDE DEF q
<1>7. Percent * q \in Nat
  BY <1>1, <1>6, ProductInNat
<1>8. Percent * q <= L /\ L <= Percent * q + Percent + V
  BY <1>1, <1>4, <1>5, <1>6, <1>7
<1>9. BorrowingPower = IF q - DebtValue > 0 THEN q - DebtValue ELSE 0
  BY <1>1, <1>3, <1>6, AtLeastZero
<1> QED
  BY <1>6, <1>8, <1>9 DEF L, V

\* What is available in one snapshot is what the pool lends.
LEMMA MatchesPool == PositionsInv => AvailableMatchesPool
<1> DEFINE slack == Sum([m \in Markets |-> Rounding(m)], Markets) + 1
           room == {Max({0, Config[m].debtCeiling - market[m].isolationModeTotalDebt}) :
                      m \in Isolating(user)}
           lends == Min({BorrowingPower} \cup room)
           avail == AvailableBorrows(now)
           K == Sum([m \in Markets |-> market[m].price], Markets)
           l == ShownLimit(now)
           b == ShownBorrows(now)
           covered == IF l - Percent * b > 0 THEN l - Percent * b ELSE 0
<1> SUFFICES ASSUME PositionsInv, OneSnapshot
             PROVE  /\ Percent * lends <= avail + Percent * slack
                    /\ avail <= Percent * lends + CollateralValue + Percent * slack
  BY DEF AvailableMatchesPool
<1>0. Percent \in Nat \ {0}
  BY ConfigAssumption
<1>1. /\ K \in Nat /\ CollateralValue \in Nat /\ DebtValue \in Nat /\ Weighted(mode) \in Nat
      /\ l \in Nat /\ b \in Nat
      /\ l <= Weighted(mode) + Percent * K /\ Weighted(mode) <= l + Percent * K
      /\ b <= DebtValue + 2 * K /\ DebtValue <= b + 2 * K
      /\ slack = 3 * K + 1
  BY SnapshotSums
<1>2. PICK q \in Nat : /\ BorrowingPower = IF q - DebtValue > 0 THEN q - DebtValue ELSE 0
                       /\ Percent * q <= Weighted(mode)
                       /\ Weighted(mode) <= Percent * q + Percent + CollateralValue
  BY PowerBounds
<1>3. /\ avail \in Nat
      /\ \A m \in Isolating(user) : Headroom(m) \in Nat
      /\ avail \in {covered} \cup {Percent * Headroom(m) : m \in Isolating(user)}
      /\ \A x \in {covered} \cup {Percent * Headroom(m) : m \in Isolating(user)} : avail <= x
  <2>1. now \in 0..MaxTime /\ \A m \in Markets : ShownSupply(m, now) \in Nat
    BY SnapshotShows DEF PositionsInv, TypeOK
  <2>2. seen.user = user
    BY DEF OneSnapshot
  <2>3. Max({0, l - Percent * b}) = covered
    BY <2>1, AvailableIsLeast
  <2> QED
    BY <2>1, <2>2, <2>3, AvailableIsLeast
<1>4. room = {Headroom(m) : m \in Isolating(user)}
  BY DEF Headroom, OneSnapshot
<1> HIDE DEF room, K, slack, l, b
<1>5. room \subseteq Nat /\ BorrowingPower \in Nat
  BY <1>1, <1>2, <1>3, <1>4
<1>6. lends \in {BorrowingPower} \cup room /\ \A x \in {BorrowingPower} \cup room : lends <= x
  <2>1. {BorrowingPower} \cup room \in SUBSET Nat /\ {BorrowingPower} \cup room # {}
    BY <1>5
  <2> QED
    BY <2>1, LeastOf
<1>7. /\ avail = covered \/ \E x \in room : avail = Percent * x
      /\ avail <= covered /\ \A x \in room : avail <= Percent * x
  BY <1>3, <1>4
<1>8. lends \in Nat
  BY <1>5, <1>6
<1> HIDE DEF lends, avail, covered
<1> DEFINE pd == Percent * DebtValue
           pb == Percent * b
           pk == Percent * K
           pq == Percent * q
           ps == Percent * slack
           w == Weighted(mode)
           v == CollateralValue
<1>9. /\ pd \in Nat /\ pb \in Nat /\ pk \in Nat /\ pq \in Nat /\ w \in Nat /\ v \in Nat
      /\ ps = 3 * pk + Percent
      /\ pb <= pd + 2 * pk /\ pd <= pb + 2 * pk
      /\ l <= w + pk /\ w <= l + pk /\ pq <= w /\ w <= pq + Percent + v
  <2>1. pd \in Nat /\ pb \in Nat /\ pk \in Nat /\ pq \in Nat
    BY <1>0, <1>1, <1>2, ProductInNat
  <2>2. Percent * b <= Percent * (DebtValue + 2 * K) /\ Percent * DebtValue <= Percent * (b + 2 * K)
    <3>1. DebtValue + 2 * K \in Int /\ b + 2 * K \in Int
      BY <1>1
    <3> QED
      BY <1>0, <1>1, <3>1, ProductGrows
  <2>3. /\ Percent * (DebtValue + 2 * K) = pd + 2 * pk /\ Percent * (b + 2 * K) = pb + 2 * pk
        /\ Percent * (3 * K + 1) = 3 * pk + Percent
    BY <1>0, <1>1
  <2> QED
    BY <1>1, <1>2, <2>1, <2>2, <2>3
<1>10. Percent * (q - DebtValue) = pq - pd
  BY <1>0, <1>1, <1>2
<1>11. Percent * BorrowingPower = IF q - DebtValue > 0 THEN pq - pd ELSE 0
  BY <1>0, <1>2, <1>10
<1>12. Percent * BorrowingPower <= covered + ps
  <2>1. covered = (IF l - pb > 0 THEN l - pb ELSE 0) /\ covered \in Nat
    BY <1>1, <1>9 DEF covered
  <2> HIDE DEF pd, pb, pk, pq, ps, w, v
  <2> QED
    BY <1>0, <1>1, <1>9, <1>11, <2>1
<1>13. covered <= Percent * BorrowingPower + v + ps
  <2>1. covered = IF l - pb > 0 THEN l - pb ELSE 0
    BY DEF covered
  <2>2. q - DebtValue <= 0 => pq - pd <= 0
    <3> SUFFICES ASSUME q - DebtValue <= 0 PROVE pq - pd <= 0
      OBVIOUS
    <3>1. Percent * q <= Percent * DebtValue
      BY <1>0, <1>1, ProductGrows
    <3> QED
      BY <1>9, <3>1
  <2>3. q - DebtValue \in Int
    BY <1>1
  <2> HIDE DEF pd, pb, pk, pq, ps, w, v
  <2>4. pq - pd <= Percent * BorrowingPower /\ 0 <= Percent * BorrowingPower
    BY <1>0, <1>5, <1>9, <1>11, <2>2, <2>3
  <2>5. Percent * BorrowingPower \in Nat
    BY <1>0, <1>5, ProductInNat
  <2> QED
    BY <1>0, <1>1, <1>9, <2>1, <2>4, <2>5
<1>14. ps \in Nat /\ Percent * BorrowingPower \in Nat /\ Percent * lends \in Nat /\ covered \in Nat
  <2>1. covered \in Nat
    BY <1>1, <1>9 DEF covered
  <2> QED
    BY <1>0, <1>5, <1>8, <1>9, <2>1, ProductInNat
<1>15. Percent * lends <= avail + ps
  <2>1. CASE avail = covered
    <3>1. Percent * lends <= Percent * BorrowingPower
      BY <1>0, <1>5, <1>6, <1>8, ProductGrows
    <3> HIDE DEF ps
    <3> QED
      BY <2>1, <3>1, <1>12, <1>14
  <2>2. ASSUME NEW x \in room, avail = Percent * x PROVE Percent * lends <= avail + ps
    <3>1. Percent * lends <= Percent * x
      BY <1>0, <1>5, <1>6, <1>8, ProductGrows
    <3>2. avail \in Nat
      BY <1>3
    <3> HIDE DEF ps
    <3> QED
      BY <2>2, <3>1, <3>2, <1>14
  <2> QED
    BY <2>1, <2>2, <1>7
<1>16. avail <= Percent * lends + v + ps
  <2>1. CASE lends = BorrowingPower
    <3> HIDE DEF ps, v
    <3> QED
      BY <2>1, <1>3, <1>7, <1>9, <1>13, <1>14
  <2>2. CASE lends \in room
    <3>1. avail <= Percent * lends
      BY <2>2, <1>7
    <3> HIDE DEF ps, v
    <3> QED
      BY <3>1, <1>3, <1>9, <1>14
  <2> QED
    BY <2>1, <2>2, <1>6
<1> QED
  BY <1>15, <1>16

\* For any markets, positions and prices: what is shown as available of one state
\* of the pool is what it lends at that moment, within the rounding of the
\* balances, and but for the percents the pool rounds its average down by.
THEOREM AvailableIsLent == Spec => []AvailableMatchesPool
<1>1. PositionsInv => AvailableMatchesPool
  BY MatchesPool
<1> QED
  BY <1>1, PositionsInit, PositionsStep, PTL DEF Spec

-----------------------------------------------------------------------------
\* What a market can lend.
\* A debt times index and interest, rounded in between or not.
LEMMA RoundedApart ==
    ASSUME NEW S \in Nat, NEW I \in Nat, NEW C \in Nat, S <= Ray, C <= 2 * Ray
    PROVE  /\ RayMul(RayMul(S, I), C) \in Nat /\ RayMul(S, RayMul(C, I)) \in Nat
           /\ RayMul(RayMul(S, I), C) <= RayMul(S, RayMul(C, I)) + 2
           /\ RayMul(S, RayMul(C, I)) <= RayMul(RayMul(S, I), C) + 2
<1> DEFINE R == Ray
           half == Ray \div 2
           u == RayMul(S, I)
           w == RayMul(C, I)
           a == RayMul(u, C)
           b == RayMul(S, w)
<1>1. R \in Nat \ {0} /\ half \in Nat /\ 2 * half = R /\ S <= R /\ C <= 2 * R
  OBVIOUS
<1>2. u \in Nat /\ R * u <= half + S * I /\ half + S * I < R * u + R
  BY RayMulRounds
<1>3. w \in Nat /\ R * w <= half + C * I /\ half + C * I < R * w + R
  BY RayMulRounds
<1> HIDE DEF u, w
<1>4. a \in Nat /\ R * a <= half + u * C /\ half + u * C < R * a + R
  BY <1>2, RayMulRounds
<1>5. b \in Nat /\ R * b <= half + S * w /\ half + S * w < R * b + R
  BY <1>3, RayMulRounds
<1> HIDE DEF a, b, R, half
<1> DEFINE x == (S * I) * C
           rr == R * R
           rh == R * half
           ru == (R * u) * C
           rw == S * (R * w)
           ra == R * (R * a)
           rb == R * (R * b)
           hc == half * C
           sh == S * half
<1>6. /\ x \in Nat /\ rr \in Nat /\ rr >= 1 /\ 2 * rh = rr
      /\ ru \in Nat /\ rw \in Nat /\ ra \in Nat /\ rb \in Nat
      /\ hc \in Nat /\ sh \in Nat /\ rh \in Nat
  <2>1. /\ S * I \in Nat /\ R * u \in Nat /\ R * w \in Nat /\ R * a \in Nat /\ R * b \in Nat
    BY <1>1, <1>2, <1>3, <1>4, <1>5, ProductInNat
  <2>2. /\ x \in Nat /\ rr \in Nat /\ rh \in Nat /\ ru \in Nat /\ rw \in Nat /\ ra \in Nat
        /\ rb \in Nat /\ hc \in Nat /\ sh \in Nat
    BY <1>1, <2>1, ProductInNat
  <2>3. rr >= 1 /\ 2 * rh = rr
    BY <1>1
  <2> QED
    BY <2>2, <2>3
<1>7. hc <= rr /\ sh <= rh
  <2>1. half * C <= half * (2 * R) /\ half * (2 * R) = R * (2 * half)
    BY <1>1, ProductGrows
  <2>2. half * S <= half * R
    BY <1>1, ProductGrows
  <2>3. half * S = S * half /\ half * R = R * half
    BY <1>1
  <2> QED
    BY <1>1, <2>1, <2>2, <2>3
<1>8. ru <= x + hc /\ x <= ru + hc
  <2>1. R * u <= S * I + half /\ S * I <= R * u + half
    BY <1>1, <1>2
  <2>2. C * (R * u) <= C * (S * I + half) /\ C * (S * I) <= C * (R * u + half)
    <3>1. S * I \in Int /\ R * u \in Int
      BY <1>1, <1>2
    <3>2. S * I + half \in Int /\ R * u + half \in Int
      BY <1>1, <3>1
    <3> QED
      BY <2>1, <3>1, <3>2, ProductGrows
  <2>3. /\ C * (R * u) = ru /\ C * (S * I) = x
        /\ C * (S * I + half) = x + hc /\ C * (R * u + half) = ru + hc
    BY <1>1, <1>2
  <2> QED
    BY <2>2, <2>3
<1>9. rw <= x + sh /\ x <= rw + sh
  <2>1. R * w <= C * I + half /\ C * I <= R * w + half
    BY <1>1, <1>3
  <2>2. S * (R * w) <= S * (C * I + half) /\ S * (C * I) <= S * (R * w + half)
    <3>1. C * I \in Int /\ R * w \in Int
      BY <1>1, <1>3
    <3>2. C * I + half \in Int /\ R * w + half \in Int
      BY <1>1, <3>1
    <3> QED
      BY <2>1, <3>1, <3>2, ProductGrows
  <2>3. /\ S * (C * I) = x
        /\ S * (C * I + half) = x + sh /\ S * (R * w + half) = rw + sh
    BY <1>1, <1>3
  <2> QED
    BY <2>2, <2>3
<1>10. ra <= rh + ru /\ ru <= ra + rh
  <2>1. R * a <= half + u * C /\ u * C <= R * a + half
    BY <1>1, <1>2, <1>4
  <2>2. R * (R * a) <= R * (half + u * C) /\ R * (u * C) <= R * (R * a + half)
    <3>1. u * C \in Int /\ R * a \in Int
      BY <1>1, <1>2, <1>4
    <3>2. half + u * C \in Int /\ R * a + half \in Int
      BY <1>1, <3>1
    <3> QED
      BY <1>1, <2>1, <3>1, <3>2, ProductGrows
  <2>3. /\ R * (u * C) = ru
        /\ R * (half + u * C) = rh + ru /\ R * (R * a + half) = ra + rh
    BY <1>1, <1>2, <1>4
  <2> QED
    BY <2>2, <2>3
<1>11. rb <= rh + rw /\ rw <= rb + rh
  <2>1. R * b <= half + S * w /\ S * w <= R * b + half
    BY <1>1, <1>3, <1>5
  <2>2. R * (R * b) <= R * (half + S * w) /\ R * (S * w) <= R * (R * b + half)
    <3>1. S * w \in Int /\ R * b \in Int
      BY <1>1, <1>3, <1>5
    <3>2. half + S * w \in Int /\ R * b + half \in Int
      BY <1>1, <3>1
    <3> QED
      BY <1>1, <2>1, <3>1, <3>2, ProductGrows
  <2>3. /\ R * (S * w) = rw
        /\ R * (half + S * w) = rh + rw /\ R * (R * b + half) = rb + rh
    BY <1>1, <1>3, <1>5
  <2> QED
    BY <1>1, <1>6, <2>2, <2>3
<1>12. /\ a >= b + 3 => ra >= rb + 3 * rr
       /\ b >= a + 3 => rb >= ra + 3 * rr
  <2>1. /\ a >= b + 3 => rr * (b + 3) <= rr * a
        /\ b >= a + 3 => rr * (a + 3) <= rr * b
    BY <1>4, <1>5, <1>6, ProductGrows
  <2>2. /\ rr * (b + 3) = rb + 3 * rr /\ rr * a = ra
        /\ rr * (a + 3) = ra + 3 * rr /\ rr * b = rb
    BY <1>1, <1>4, <1>5
  <2> QED
    BY <2>1, <2>2
<1> HIDE DEF x, rr, rh, ru, rw, ra, rb, hc, sh
<1>13. a <= b + 2 /\ b <= a + 2
  BY <1>4, <1>5, <1>6, <1>7, <1>8, <1>9, <1>10, <1>11, <1>12
<1> QED
  BY <1>4, <1>5, <1>13 DEF a, b, u, w

\* What is lent is scaled down, so that debts and liquidity together grow by what
\* the user supplies and nothing else.
Lendable(most) ==
    \A m \in Markets :
        market[m].totalScaledVariableDebt + market[m].availableLiquidity
            + (MaxMoves - moves) * most <= Ray

\* Scaled down by an index, an amount does not grow.
LEMMA RayDivShrinks ==
    ASSUME NEW a \in Nat, NEW b \in Nat, b >= Ray
    PROVE  RayDiv(a, b) \in Nat /\ RayDiv(a, b) <= a
<1> DEFINE n == b \div 2 + a * Ray
           q == RayDiv(a, b)
<1>1. b \div 2 \in Nat /\ b \div 2 < b /\ a * Ray \in Nat /\ a * Ray <= a * b /\ b # 0
  BY ProductInNat, ProductGrows
<1>2. n \in Nat
  BY <1>1
<1>3. q \in Nat /\ b * q <= n
  BY <1>1, <1>2, QuotientRounds DEF RayDiv
<1>4. a * b = b * a /\ b * (a + 1) = b * a + b /\ b * a \in Nat
  BY ProductInNat
<1> HIDE DEF q
<1>5. b * q < b * (a + 1)
  BY <1>1, <1>3, <1>4
<1>6. q <= a
  <2> SUFFICES ASSUME a + 1 <= q PROVE FALSE
    BY <1>3
  <2>1. b * (a + 1) <= b * q
    BY <1>3, ProductGrows
  <2>2. b * (a + 1) \in Nat /\ b * q \in Nat
    BY <1>3, ProductInNat
  <2> QED
    BY <1>5, <2>1, <2>2
<1> QED
  BY <1>3, <1>6 DEF q

\* Both ways of lending keep the two together.
LEMMA LentKeeps ==
    ASSUME PositionsInv, NEW m \in Markets, NEW amount \in Amounts, NEW isolating,
           amount <= market[m].availableLiquidity, NEW i \in Markets
    PROVE  LET r == Lent(m, amount, isolating)[i]
           IN  /\ r.totalScaledVariableDebt \in Nat /\ r.availableLiquidity \in Nat
               /\ r.totalScaledVariableDebt + r.availableLiquidity
                    <= market[i].totalScaledVariableDebt + market[i].availableLiquidity
<1> DEFINE more == RayDiv(amount, DebtIndexNow(m))
           a == [Accrued(m) EXCEPT !.availableLiquidity = @ - amount,
                                   !.totalScaledVariableDebt = @ + more]
           r == IF i = m THEN a ELSE market[i]
           value == amount * market[m].price
           c == [r EXCEPT !.isolationModeTotalDebt = @ + value]
           l == Lent(m, amount, isolating)[i]
<1>0. amount \in Nat
  BY BoundsType
<1>1. more \in Nat /\ more <= amount
  BY <1>0, IndexesOfNow, RayDivShrinks
<1>2. l = IF i \in isolating THEN c ELSE r
  BY DEF Lent
<1> HIDE DEF more, value
<1>3. /\ market[i].totalScaledVariableDebt \in Nat /\ market[i].availableLiquidity \in Nat
      /\ market[i] \in Reserve
  BY DEF PositionsInv, TypeOK, Reserve
<1>4. /\ Accrued(m) \in Reserve
      /\ Accrued(m).availableLiquidity = market[m].availableLiquidity
      /\ Accrued(m).totalScaledVariableDebt = market[m].totalScaledVariableDebt
  BY AccruedType
<1>5. i = m => /\ a.availableLiquidity = market[i].availableLiquidity - amount
               /\ a.totalScaledVariableDebt = market[i].totalScaledVariableDebt + more
  BY <1>4 DEF Reserve
<1>6. /\ c.availableLiquidity = r.availableLiquidity
      /\ c.totalScaledVariableDebt = r.totalScaledVariableDebt
  <2>1. i = m => a.availableLiquidity = a.availableLiquidity
    OBVIOUS
  <2> QED
    BY <1>3, <1>4 DEF Reserve
<1> HIDE DEF a, c
<1>7. /\ l.availableLiquidity = r.availableLiquidity
      /\ l.totalScaledVariableDebt = r.totalScaledVariableDebt
  BY <1>2, <1>6
<1>8. i = m => amount <= market[i].availableLiquidity
  OBVIOUS
<1> HIDE DEF l
<1>9. /\ l.totalScaledVariableDebt \in Nat /\ l.availableLiquidity \in Nat
      /\ l.totalScaledVariableDebt + l.availableLiquidity
           <= market[i].totalScaledVariableDebt + market[i].availableLiquidity
  BY <1>0, <1>1, <1>3, <1>5, <1>7, <1>8
<1> QED
  BY <1>9 DEF l

\* Every step keeps the debts below one as a ray.
LEMMA LendableInit ==
    ASSUME NEW most \in Nat, ModestDebts(most), Init
    PROVE  Lendable(most)
<1>0. PICK p \in Portfolios :
        /\ moves = 0
        /\ market = [m \in Markets |->
             [NoReserve EXCEPT !.availableLiquidity = Config[m].liquidity,
                !.totalScaledVariableDebt = p.others[m] + p.user[m].scaledVariableDebt,
                !.totalPrincipalStableDebt = p.user[m].principalStableDebt,
                !.price = p.price[m]]]
  BY DEF Init
<1> SUFFICES ASSUME NEW m \in Markets
             PROVE  market[m].totalScaledVariableDebt + market[m].availableLiquidity
                      + (MaxMoves - moves) * most <= Ray
  BY DEF Lendable
<1> DEFINE l == Config[m].liquidity
           o == p.others[m]
           u == p.user[m].scaledVariableDebt
           k == MaxMoves * most
<1>1. l + o + u + k <= Ray
  BY DEF ModestDebts
<1>2. l \in Nat /\ o \in Nat /\ u \in Nat /\ k \in Nat /\ MaxMoves \in Nat
  <2>1. p.user[m] \in UserReserve /\ o \in Nat
    BY PortfoliosAssumption
  <2>2. l \in Nat
    BY ConfigAssumption DEF Numbers
  <2>3. k \in Nat /\ MaxMoves \in Nat
    BY BoundsType, ProductInNat
  <2> QED
    BY <2>1, <2>2, <2>3 DEF UserReserve
<1>3. /\ market[m].availableLiquidity = l /\ market[m].totalScaledVariableDebt = o + u
  BY <1>0 DEF NoReserve
<1>4. (MaxMoves - moves) * most = k
  <2>1. moves = 0
    BY <1>0
  <2>2. MaxMoves - 0 = MaxMoves
    BY <1>2
  <2> QED
    BY <2>1, <2>2
<1> HIDE DEF l, o, u, k
<1> QED
  BY <1>1, <1>2, <1>3, <1>4

\* A step takes of the room that is left no more than it supplies.
LEMMA LendableStep ==
    ASSUME NEW most \in Nat, ModestDebts(most), PositionsInv, Lendable(most), [Next]_vars
    PROVE  Lendable(most)'
<1> DEFINE Both(m) == market[m].totalScaledVariableDebt + market[m].availableLiquidity
           left == (MaxMoves - moves) * most
<1>0. /\ moves \in Nat /\ MaxMoves \in Nat /\ left \in Int
      /\ \A m \in Markets : /\ market[m] \in Reserve
                            /\ market[m].totalScaledVariableDebt \in Nat
                            /\ market[m].availableLiquidity \in Nat
                            /\ Both(m) + left <= Ray
  BY BoundsType DEF PositionsInv, TypeOK, Reserve, Lendable
<1>1. moves' = moves + 1 => left' = left - most
  <2>1. (MaxMoves - (moves + 1)) * most = (MaxMoves - moves) * most - most
    BY <1>0
  <2> QED
    BY <2>1
<1> HIDE DEF left
<1>a. ASSUME NEW m \in Markets, NEW amount \in Amounts, NEW isolating,
             amount <= market[m].availableLiquidity, market' = Lent(m, amount, isolating),
             moves' = moves + 1
      PROVE  Lendable(most)'
  <2>1. ASSUME NEW i \in Markets PROVE Both(i)' + left' <= Ray
    <3>1. /\ Both(i)' \in Nat /\ Both(i)' <= Both(i)
      <4>1. /\ Lent(m, amount, isolating)[i].totalScaledVariableDebt \in Nat
            /\ Lent(m, amount, isolating)[i].availableLiquidity \in Nat
            /\ Lent(m, amount, isolating)[i].totalScaledVariableDebt
                 + Lent(m, amount, isolating)[i].availableLiquidity <= Both(i)
        BY <1>a, LentKeeps
      <4> QED
        BY <1>a, <4>1
    <3>2. Both(i) \in Nat /\ Both(i) + left <= Ray /\ left' = left - most
      BY <1>0, <1>1, <1>a
    <3> HIDE DEF Both
    <3> QED
      BY <1>0, <3>1, <3>2
  <2> QED
    BY <2>1 DEF Lendable, left
<1>b. ASSUME left' <= left, left' \in Int,
             \A m \in Markets :
               /\ market'[m].totalScaledVariableDebt = market[m].totalScaledVariableDebt
               /\ market'[m].availableLiquidity = market[m].availableLiquidity
      PROVE  Lendable(most)'
  <2>1. ASSUME NEW i \in Markets PROVE Both(i)' + left' <= Ray
    <3>1. Both(i)' = Both(i) /\ Both(i) \in Nat /\ Both(i) + left <= Ray
      BY <1>0, <1>b
    <3> HIDE DEF Both
    <3> QED
      BY <1>0, <1>b, <3>1
  <2> QED
    BY <2>1 DEF Lendable, left
<1>c. /\ moves' = moves + 1 => left' <= left /\ left' \in Int
      /\ moves' = moves => left' <= left /\ left' \in Int
  <2>1. moves' = moves => left' = left
    BY DEF left
  <2> QED
    BY <1>0, <1>1, <2>1
<1>2. ASSUME NEW m \in Markets, NEW amount \in Amounts, UserBorrows(m, amount)
      PROVE  Lendable(most)'
  BY <1>2, <1>a DEF UserBorrows, Move
<1>3. ASSUME NEW m \in Markets, NEW amount \in Amounts,
             NEW isolating \in {{}} \cup {{i} : i \in Isolated}, OthersBorrow(m, amount, isolating)
      PROVE  Lendable(most)'
  BY <1>3, <1>a DEF OthersBorrow, Move
<1>4. ASSUME NEW m \in Markets, NEW amount \in Amounts, UserSupplies(m, amount)
      PROVE  Lendable(most)'
  <2> DEFINE a == [Accrued(m) EXCEPT !.availableLiquidity = @ + amount]
  <2>1. /\ market' = [market EXCEPT ![m] = a] /\ moves' = moves + 1
    BY <1>4 DEF UserSupplies, Move
  <2>2. /\ Accrued(m) \in Reserve
        /\ Accrued(m).availableLiquidity = market[m].availableLiquidity
        /\ Accrued(m).totalScaledVariableDebt = market[m].totalScaledVariableDebt
    BY AccruedType
  <2>3. /\ a.availableLiquidity = market[m].availableLiquidity + amount
        /\ a.totalScaledVariableDebt = market[m].totalScaledVariableDebt
    BY <2>2 DEF Reserve
  <2> HIDE DEF a
  <2>4. amount \in Nat /\ amount <= most
    BY BoundsType DEF ModestDebts
  <2>5. ASSUME NEW i \in Markets PROVE Both(i)' + left' <= Ray
    <3>1. market'[i] = IF i = m THEN a ELSE market[i]
      BY <2>1 DEF PositionsInv, TypeOK
    <3>2. Both(i)' \in Int /\ Both(i)' <= Both(i) + amount
      BY <1>0, <2>3, <2>4, <3>1
    <3>3. Both(i) \in Nat /\ Both(i) + left <= Ray /\ left' = left - most
      BY <1>0, <1>1, <2>1
    <3> HIDE DEF Both
    <3> QED
      BY <1>0, <2>4, <3>2, <3>3
  <2> QED
    BY <2>5 DEF Lendable, left
<1>5. ASSUME NEW m \in Markets, NEW price \in Prices, PriceMoves(m, price)
      PROVE  Lendable(most)'
  <2>1. market' = [market EXCEPT ![m].price = price] /\ moves' = moves + 1
    BY <1>5 DEF PriceMoves, Move
  <2>2. \A i \in Markets :
          /\ market'[i].totalScaledVariableDebt = market[i].totalScaledVariableDebt
          /\ market'[i].availableLiquidity = market[i].availableLiquidity
    BY <1>0, <2>1 DEF PositionsInv, TypeOK, Reserve
  <2> QED
    BY <2>1, <2>2, <1>b, <1>c
<1>6. ASSUME NEW category \in Modes, UserSwitchesMode(category) PROVE Lendable(most)'
  BY <1>6, <1>b, <1>c DEF UserSwitchesMode, Move
<1>7. CASE Tick \/ ReadReserves \/ ReadUserReserves \/ UNCHANGED vars
  BY <1>7, <1>b, <1>c DEF Tick, ReadReserves, ReadUserReserves, vars, chain
<1> QED
  BY <1>2, <1>3, <1>4, <1>5, <1>6, <1>7 DEF Next

\* The lesser of two numbers.
LEMMA LesserOf ==
    ASSUME NEW x \in Int, NEW y \in Int
    PROVE  Min({x, y}) = IF x <= y THEN x ELSE y
<1> DEFINE z == IF x <= y THEN x ELSE y
<1>1. z \in {x, y} /\ \A v \in {x, y} : z <= v
  OBVIOUS
<1>2. \A u, v \in {x, y} : u <= v /\ v <= u => u = v
  OBVIOUS
<1> QED
  BY <1>1, <1>2 DEF Min

\* The liquidity that is shown of one snapshot.
LEMMA LiquidityRight ==
    ASSUME NEW most \in Nat, ModestDebts(most), PositionsInv, Lendable(most)
    PROVE  LiquidityMatchesPool
<1> SUFFICES ASSUME OneSnapshot, NEW m \in Markets
             PROVE  LET shown == AvailableLiquidity(m, now)
                    IN  /\ Borrowable(m, shown)
                        /\ shown = market[m].availableLiquidity \/ ~WithinCap(m, shown + 3)
  BY DEF LiquidityMatchesPool
<1> DEFINE r == market[m]
           S == r.totalScaledVariableDebt
           I == r.variableBorrowIndex
           s == now - r.lastUpdateTimestamp
           C == CompoundedInterest(Config[m].variableBorrowRate, s)
           a == RayMul(RayMul(S, I), C)
           b == RayMul(S, RayMul(C, I))
           d == StableNow(m, r.totalPrincipalStableDebt)
           l == r.availableLiquidity
           cap == Config[m].borrowCap
           shown == AvailableLiquidity(m, now)
<1>1. /\ S \in Nat /\ I \in Nat /\ l \in Nat /\ s \in 0..MaxTime /\ s \in Nat /\ now \in Nat
      /\ r.totalPrincipalStableDebt \in Nat
  BY BoundsType DEF PositionsInv, TypeOK, Reserve, IndexesAtLeastOne
<1>2. C \in Nat /\ C <= 2 * Ray
  <2>1. Config[m].variableBorrowRate \in Nat
    BY ConfigAssumption DEF Numbers
  <2> HIDE DEF s
  <2> QED
    BY <1>1, <2>1, CompoundedGrows DEF ModestDebts
<1>3. S <= Ray
  <2> DEFINE left == (MaxMoves - moves) * most
  <2>1. left \in Nat
    <3>1. MaxMoves - moves \in Nat
      BY BoundsType DEF PositionsInv, TypeOK
    <3> QED
      BY <3>1, ProductInNat
  <2>2. S + l + left <= Ray
    BY DEF Lendable
  <2> HIDE DEF left, S, l
  <2> QED
    BY <1>1, <2>1, <2>2
<1>4. d \in Nat
  <2>1. Config[m].stableBorrowRate \in Nat
    BY ConfigAssumption DEF Numbers
  <2>2. CompoundedInterest(Config[m].stableBorrowRate, now) \in Nat
    BY <1>1, <2>1, CompoundedGrows
  <2> QED
    BY <1>1, <2>2, RayMulRounds DEF StableNow
<1>5. TotalDebt(m) = b + d
  BY DEF TotalDebt, DebtIndexNow
<1>6. ReserveDebt(m, now) = a + d
  BY DEF ReserveDebt, StableNow, Elapsed, OneSnapshot
<1>7. shown = IF cap = 0 THEN l ELSE Min({l, cap - (ReserveDebt(m, now) + 1)})
  BY DEF AvailableLiquidity, OneSnapshot
<1>8. cap \in Nat
  BY ConfigAssumption DEF Numbers
<1> HIDE DEF S, I, C, l, cap, d, shown
<1>9. a \in Nat /\ b \in Nat /\ a <= b + 2 /\ b <= a + 2
  BY <1>1, <1>2, <1>3, RoundedApart
<1> HIDE DEF a, b
<1>10. shown = IF cap = 0 THEN l
               ELSE IF l <= cap - (a + d + 1) THEN l ELSE cap - (a + d + 1)
  BY <1>1, <1>4, <1>6, <1>7, <1>8, <1>9, LesserOf
<1>11. shown \in Int /\ shown <= l
  BY <1>1, <1>4, <1>8, <1>9, <1>10
<1>12. cap # 0 => b + d + (shown - 2) < cap
  BY <1>1, <1>4, <1>8, <1>9, <1>10
<1>13. shown = l \/ (cap # 0 /\ ~ (b + d + (shown + 3) < cap))
  BY <1>1, <1>4, <1>8, <1>9, <1>10
<1>14. Borrowable(m, shown)
  BY <1>5, <1>11, <1>12 DEF Borrowable, WithinCap, l, cap
<1>15. shown = market[m].availableLiquidity \/ ~WithinCap(m, shown + 3)
  BY <1>5, <1>13 DEF WithinCap, l, cap
<1> QED
  BY <1>14, <1>15 DEF shown

\* For any markets whose debts stay below one as a ray and whose interest since
\* the last update does not exceed one, the liquidity that is shown of one state
\* of the pool is what it lends at that moment, and all of it, but for the units
\* by which the two round the debts differently.
THEOREM LiquidityIsLent ==
    ASSUME NEW most \in Nat, ModestDebts(most)
    PROVE  Spec => []LiquidityMatchesPool
<1> DEFINE Inv == PositionsInv /\ Lendable(most)
<1>1. Init => Inv
  BY PositionsInit, LendableInit
<1>2. Inv /\ [Next]_vars => Inv'
  BY PositionsStep, LendableStep
<1>3. Inv => LiquidityMatchesPool
  BY LiquidityRight
<1> QED
  BY <1>1, <1>2, <1>3, PTL DEF Spec

-----------------------------------------------------------------------------
\* Old reads.
\* A product of rays grows with a factor.
LEMMA RayMulMonotone ==
    ASSUME NEW a \in Nat, NEW b \in Nat, NEW c \in Nat, b <= c
    PROVE  RayMul(a, b) <= RayMul(a, c)
<1> DEFINE x == RayMul(a, b)
           y == RayMul(a, c)
           u == a * b
           v == a * c
           h == Ray \div 2
<1>1. u \in Nat /\ v \in Nat /\ u <= v /\ h \in Nat
  BY ProductInNat, ProductGrows
<1>2. /\ x \in Nat /\ Ray * x <= h + u
      /\ y \in Nat /\ h + v < Ray * y + Ray
  BY RayMulRounds
<1> HIDE DEF x, y, u, v, h
<1>3. Ray * x < Ray * (y + 1)
  <2>1. Ray * x \in Nat /\ Ray * y \in Nat /\ Ray * (y + 1) = Ray * y + Ray
    BY <1>2, ProductInNat
  <2> QED
    BY <1>1, <1>2, <2>1
<1>4. x < y + 1
  BY <1>2, <1>3
<1> QED
  BY <1>2, <1>4 DEF x, y

\* An index that accrues twice falls behind one that accrues once by the rounding
\* of the two products, and by what the parts of the interest miss of the whole.
LEMMA AccruedTwice ==
    ASSUME NEW first \in Nat, NEW second \in Nat, NEW whole \in Nat, NEW index \in Nat,
           NEW missing \in Nat, index >= Ray, whole >= Ray, second <= whole,
           first * second >= Ray * (whole - missing)
    PROVE  Ray * RayMul(second, RayMul(first, index))
             >= (Ray - (missing + 2)) * RayMul(whole, index)
<1> DEFINE h == Ray \div 2
           x == RayMul(first, index)
           z == RayMul(second, x)
           w == RayMul(whole, index)
<1>1. h \in Nat /\ 2 * h = Ray
  OBVIOUS
<1>2. /\ x \in Nat /\ h + first * index < Ray * x + Ray
  BY RayMulRounds
<1>3. /\ z \in Nat /\ h + second * x < Ray * z + Ray
  BY <1>2, RayMulRounds
<1>4. /\ w \in Nat /\ Ray * w <= h + whole * index /\ w >= index /\ w >= whole
  <2>1. RayMul(index, whole) = RayMul(whole, index)
    BY DEF RayMul
  <2> QED
    BY <2>1, RayMulRounds, RayMulGrows
<1> HIDE DEF h, x, z, w
<1> DEFINE fi == first * index
           sx == second * x
           wi == whole * index
           rz == Ray * z
           rw == Ray * w
           mi == missing * index
           mw == missing * w
<1>5. /\ fi \in Nat /\ sx \in Nat /\ wi \in Nat /\ rz \in Nat /\ rw \in Nat /\ mi \in Nat
      /\ mw \in Nat /\ mi <= mw
  BY <1>2, <1>3, <1>4, ProductInNat, ProductGrows
<1>6. Ray * sx >= Ray * (wi - mi) - second * h
  <2>1. second * (fi - h) <= second * (Ray * x)
    <3>1. fi - h \in Int /\ Ray * x \in Int /\ fi - h <= Ray * x
      BY <1>1, <1>2, <1>5
    <3> QED
      BY <3>1, ProductGrows
  <2>2. index * (Ray * (whole - missing)) <= index * (first * second)
    BY ProductGrows
  <2>3. /\ second * (fi - h) = index * (first * second) - second * h
        /\ second * (Ray * x) = Ray * sx
        /\ index * (Ray * (whole - missing)) = Ray * (wi - mi)
    BY <1>1, <1>2
  <2>4. second * h \in Int /\ Ray * (wi - mi) \in Int /\ Ray * sx \in Int
        /\ index * (first * second) \in Int
    BY <1>1, <1>5
  <2> QED
    BY <2>1, <2>2, <2>3, <2>4
<1>7. sx >= wi - mi - w
  <2>1. second * h <= Ray * w
    <3>1. h * second <= h * w /\ h * w <= Ray * w
      <4>1. second <= w
        BY <1>4
      <4>2. w * h <= w * Ray
        BY <1>1, <1>4, ProductGrows
      <4> QED
        BY <1>1, <1>4, <4>1, <4>2, ProductGrows
    <3>2. h * second \in Nat /\ h * w \in Nat /\ Ray * w \in Nat
      BY <1>1, <1>4, ProductInNat
    <3>3. second * h = h * second
      BY <1>1
    <3> QED
      BY <3>1, <3>2, <3>3
  <2>2. Ray * sx >= Ray * (wi - mi - w)
    <3>1. Ray * (wi - mi - w) = Ray * (wi - mi) - Ray * w
      BY <1>4, <1>5
    <3>2. Ray * sx \in Int /\ Ray * (wi - mi) \in Int /\ Ray * w \in Int /\ second * h \in Int
      BY <1>1, <1>4, <1>5
    <3> QED
      BY <1>6, <2>1, <3>1, <3>2
  <2> DEFINE v == wi - mi - w
  <2>3. v \in Int
    BY <1>4, <1>5
  <2> HIDE DEF v, sx
  <2> QED
    BY <1>5, <2>2, <2>3 DEF v
<1>8. (Ray - (missing + 2)) * w = rw - mw - 2 * w
  BY <1>4
<1> HIDE DEF fi, sx, wi, rz, rw, mi, mw
<1>9. rz >= rw - mw - 2 * w
  <2>1. Ray <= w
    BY <1>4
  <2> QED
    BY <1>1, <1>3, <1>4, <1>5, <1>7, <2>1 DEF rz, rw, wi, sx
<1> QED
  BY <1>8, <1>9 DEF z, x, w, rz

\* A rounded quotient of rays grows with what is divided.
LEMMA RayDivMonotone ==
    ASSUME NEW a \in Nat, NEW b \in Nat, NEW d \in Nat \ {0}, a <= b
    PROVE  RayDiv(a, d) <= RayDiv(b, d)
<1> DEFINE x == RayDiv(a, d)
           y == RayDiv(b, d)
           u == a * Ray
           v == b * Ray
           h == d \div 2
<1>1. u \in Nat /\ v \in Nat /\ u <= v /\ h \in Nat
  <2>1. Ray * a <= Ray * b
    BY ProductGrows
  <2> QED
    BY <2>1, ProductInNat
<1>2. /\ x \in Nat /\ d * x <= h + u
      /\ y \in Nat /\ h + v < d * y + d
  <2>1. h + u \in Nat /\ h + v \in Nat
    BY <1>1
  <2>2. x = Quotient(h + u, d) /\ y = Quotient(h + v, d)
    BY DEF RayDiv
  <2> HIDE DEF x, y, h, u, v
  <2> QED
    BY <2>1, <2>2, QuotientRounds
<1> HIDE DEF x, y, u, v, h
<1>3. d * x < d * (y + 1)
  <2>1. d * x \in Nat /\ d * y \in Nat /\ d * (y + 1) = d * y + d
    BY <1>2, ProductInNat
  <2> QED
    BY <1>1, <1>2, <2>1
<1>4. x < y + 1
  BY <1>2, <1>3
<1> QED
  BY <1>2, <1>4 DEF x, y

\* Linear interest of two spans of time misses of that of both what one division
\* and one product round off.
LEMMA LinearAdds ==
    ASSUME NEW rate \in Nat, NEW s \in Nat, NEW t \in Nat
    PROVE  LET first == LinearInterest(rate, s)
               second == LinearInterest(rate, t)
               whole == LinearInterest(rate, s + t)
           IN  /\ first \in Nat /\ second \in Nat /\ whole \in Nat
               /\ first >= Ray /\ second <= whole
               /\ first * second >= Ray * (whole - (rate \div Ray + 2))
<1> DEFINE d == WadToRay(Year)
           e == d \div 2
           n(v) == WadToRay(v) * Ray
           x(v) == RayDiv(WadToRay(v), d)
           y(v) == RayMul(rate, x(v))
           h == Ray \div 2
<1>1. /\ d \in Nat \ {0} /\ e \in Nat /\ 2 * e <= d /\ d <= 2 * e + 1 /\ 2 * e = d
      /\ h \in Nat /\ 2 * h = Ray
  <2>1. d \in Nat /\ d # 0
    BY DEF WadToRay
  <2>2. PICK k \in Nat : WadRayRatio = 2 * k
    BY DEF WadToRay
  <2>3. d = 2 * (Year * k)
    BY <2>2 DEF WadToRay
  <2> QED
    BY <2>1, <2>2, <2>3
<1>2. ASSUME NEW v \in Nat
      PROVE  /\ n(v) \in Nat /\ x(v) \in Nat
             /\ d * x(v) <= e + n(v) /\ e + n(v) < d * x(v) + d
  <2>1. WadToRay(v) \in Nat
    BY DEF WadToRay
  <2>2. n(v) \in Nat
    BY <2>1, ProductInNat
  <2>3. x(v) = Quotient(e + n(v), d)
    BY DEF RayDiv
  <2> DEFINE q == e + n(v)
             z == x(v)
  <2>4. q \in Nat
    BY <1>1, <2>2
  <2> HIDE DEF d, q
  <2>5. Quotient(q, d) \in Nat /\ d * Quotient(q, d) <= q /\ q < d * Quotient(q, d) + d
    BY <1>1, <2>4, QuotientRounds
  <2> QED
    BY <2>2, <2>3, <2>5 DEF q
<1>3. n(s + t) = n(s) + n(t)
  BY DEF WadToRay
<1>4. s + t \in Nat
  OBVIOUS
<1> HIDE DEF n, x, d, e
<1>5. x(s + t) <= x(s) + x(t) + 1
  <2> DEFINE k == x(s) + x(t) + 1
             dx == d * x(s)
             dt == d * x(t)
             dw == d * x(s + t)
  <2>1. x(s) \in Nat /\ x(t) \in Nat /\ x(s + t) \in Nat
    BY <1>2, <1>4
  <2>2. /\ dx \in Nat /\ dt \in Nat /\ dw \in Nat /\ d * k = dx + dt + d
        /\ d * (k + 1) = dx + dt + 2 * d
    BY <1>1, <2>1
  <2>3. /\ e + n(s) < dx + d /\ e + n(t) < dt + d /\ dw <= e + n(s + t)
        /\ n(s) \in Nat /\ n(t) \in Nat /\ n(s + t) \in Nat
    BY <1>2, <1>4
  <2>4. dw < d * (k + 1)
    <3> HIDE DEF dx, dt, dw, k
    <3> QED
      BY <1>1, <1>3, <2>2, <2>3
  <2> SUFFICES ASSUME k + 1 <= x(s + t) PROVE FALSE
    BY <2>1
  <2>5. d * (k + 1) <= d * x(s + t)
    BY <1>1, <2>1, ProductGrows
  <2> HIDE DEF k, dx, dt
  <2> QED
    BY <1>1, <2>2, <2>4, <2>5
<1>6. ASSUME NEW v \in Nat
      PROVE  /\ y(v) \in Nat /\ rate * x(v) \in Nat
             /\ Ray * y(v) <= h + rate * x(v) /\ h + rate * x(v) < Ray * y(v) + Ray
  BY <1>2, RayMulRounds, ProductInNat
<1>7. \A v \in Nat : LinearInterest(rate, v) = Ray + y(v)
  BY DEF LinearInterest, x, d
<1> HIDE DEF y, h
<1>8. y(s + t) <= y(s) + y(t) + (rate \div Ray + 2)
  <2> DEFINE c == rate \div Ray
             a == y(s) + y(t)
             u == rate * x(s)
             v == rate * x(t)
             w == rate * x(s + t)
             q == Ray * y(s + t)
  <2>1. c \in Nat /\ rate < Ray * c + Ray
    OBVIOUS
  <2>2. /\ y(s) \in Nat /\ y(t) \in Nat /\ y(s + t) \in Nat
        /\ x(s) \in Nat /\ x(t) \in Nat /\ x(s + t) \in Nat
    BY <1>2, <1>4, <1>6
  <2>3. w <= u + v + rate
    <3>1. rate * x(s + t) <= rate * (x(s) + x(t) + 1)
      BY <1>5, <2>2, ProductGrows
    <3>2. rate * (x(s) + x(t) + 1) = u + v + rate
      BY <2>2
    <3> QED
      BY <3>1, <3>2
  <2>4. /\ u \in Nat /\ v \in Nat /\ w \in Nat
        /\ h + u < Ray * y(s) + Ray /\ h + v < Ray * y(t) + Ray /\ q <= h + w
    BY <1>4, <1>6
  <2> SUFFICES ASSUME a + c + 3 <= y(s + t) PROVE FALSE
    BY <2>1, <2>2
  <2>5. Ray * (a + c + 3) <= q
    BY <2>1, <2>2, ProductGrows
  <2>6. /\ Ray * (a + c + 3) = Ray * y(s) + Ray * y(t) + Ray * c + 3 * Ray
        /\ Ray * y(s) \in Nat /\ Ray * y(t) \in Nat /\ Ray * c \in Nat /\ q \in Nat
    BY <2>1, <2>2, ProductInNat
  <2> HIDE DEF u, v, w, q, c, a
  <2> QED
    BY <1>1, <2>1, <2>3, <2>4, <2>5, <2>6
<1>9. y(t) <= y(s + t)
  <2>1. WadToRay(t) \in Nat /\ WadToRay(s + t) \in Nat /\ WadToRay(t) <= WadToRay(s + t)
    <3>1. WadRayRatio * t <= WadRayRatio * (s + t)
      BY <1>4, ProductGrows
    <3>2. /\ WadToRay(t) = WadRayRatio * t /\ WadToRay(s + t) = WadRayRatio * (s + t)
          /\ WadRayRatio * t \in Nat /\ WadRayRatio * (s + t) \in Nat
      BY <1>4 DEF WadToRay
    <3> QED
      BY <3>1, <3>2
  <2>2. x(t) <= x(s + t)
    BY <1>1, <2>1, RayDivMonotone DEF x
  <2> QED
    BY <1>2, <1>4, <2>2, RayMulMonotone DEF y
<1> DEFINE A == y(s)
           B == y(t)
           C == y(s + t)
           k == rate \div Ray + 2
<1>10. /\ A \in Nat /\ B \in Nat /\ C \in Nat /\ k \in Nat /\ C <= A + B + k /\ B <= C
  <2>1. k \in Nat
    OBVIOUS
  <2>2. A \in Nat /\ B \in Nat /\ C \in Nat
    BY <1>4, <1>6
  <2> QED
    BY <1>8, <1>9, <2>1, <2>2
<1> HIDE DEF A, B, C, k
<1>11. (Ray + A) * (Ray + B) >= Ray * (Ray + C - k)
  <2>1. Ray * (Ray + C - k) <= Ray * (Ray + A + B)
    BY <1>10, ProductGrows
  <2>2. (Ray + A) * (Ray + B) = Ray * (Ray + A + B) + A * B
    BY <1>10
  <2>3. A * B \in Nat /\ Ray * (Ray + C - k) \in Int /\ Ray * (Ray + A + B) \in Int
    BY <1>10, ProductInNat
  <2> QED
    BY <2>1, <2>2, <2>3
<1>12. /\ LinearInterest(rate, s) = Ray + A /\ LinearInterest(rate, t) = Ray + B
       /\ LinearInterest(rate, s + t) = Ray + C
  BY <1>4, <1>7 DEF A, B, C
<1> QED
  BY <1>10, <1>11, <1>12 DEF k

\* t pairs and u triples can be made of s seconds.
Combinations(s, t, u) ==
    t \in Nat /\ u \in Nat /\ 2 * t = s * (s - 1) /\ 6 * u = s * (s - 1) * (s - 2)

\* They are whole numbers, so that the binomial's divisions round nothing off.
LEMMA PairsAndTriples ==
    ASSUME NEW s \in Nat
    PROVE  \E t, u : Combinations(s, t, u)
<1> DEFINE Good(t, u) == /\ t \in Nat /\ u \in Nat
                         /\ 2 * t = s * (s - 1) /\ 6 * u = s * (s - 1) * (s - 2)
<1>0. \A t, u : Good(t, u) => Combinations(s, t, u)
  BY DEF Combinations
<1>1. PICK h \in Nat, r \in 0..5 : s = 6 * h + r
  <2>1. s \div 6 \in Nat /\ s - 6 * (s \div 6) \in 0..5
    OBVIOUS
  <2> QED
    BY <2>1
<1>2. h * h \in Nat /\ h * h * h \in Nat
  BY ProductInNat
<1> DEFINE q == h * h
           c == h * h * h
<1>3. q \in Nat /\ c \in Nat /\ h <= q /\ q <= c
  <2>1. CASE h = 0
    BY <2>1
  <2>2. CASE h # 0
    <3>1. h * 1 <= h * h /\ q * 1 <= q * h
      BY <1>2, <2>2, ProductGrows
    <3> QED
      BY <1>2, <3>1
  <2> QED
    BY <2>1, <2>2
<1>4. /\ s * (s - 1) = 36 * q + (12 * r - 6) * h + r * (r - 1)
      /\ s * (s - 1) * (s - 2)
           = 216 * c + (108 * r - 108) * q + (18 * (r * r) - 36 * r + 12) * h
             + r * (r - 1) * (r - 2)
  BY <1>1
<1> HIDE DEF q, c
<1>5. CASE r = 0
  <2>1. Good(18 * q - 3 * h, 36 * c - 18 * q + 2 * h)
    BY <1>1, <1>3, <1>4, <1>5
  <2> QED
    BY <1>0, <2>1
<1>6. CASE r = 1
  <2>1. Good(18 * q + 3 * h, 36 * c - h)
    BY <1>1, <1>3, <1>4, <1>6
  <2> QED
    BY <1>0, <2>1
<1>7. CASE r = 2
  <2>1. Good(18 * q + 9 * h + 1, 36 * c + 18 * q + 2 * h)
    BY <1>1, <1>3, <1>4, <1>7
  <2> QED
    BY <1>0, <2>1
<1>8. CASE r = 3
  <2>1. Good(18 * q + 15 * h + 3, 36 * c + 36 * q + 11 * h + 1)
    BY <1>1, <1>3, <1>4, <1>8
  <2> QED
    BY <1>0, <2>1
<1>9. CASE r = 4
  <2>1. Good(18 * q + 21 * h + 6, 36 * c + 54 * q + 26 * h + 4)
    BY <1>1, <1>3, <1>4, <1>9
  <2> QED
    BY <1>0, <2>1
<1>10. CASE r = 5
  <2>1. Good(18 * q + 27 * h + 10, 36 * c + 72 * q + 47 * h + 10)
    BY <1>1, <1>3, <1>4, <1>10
  <2> QED
    BY <1>0, <2>1
<1> QED
  BY <1>0, <1>1, <1>5, <1>6, <1>7, <1>8, <1>9, <1>10

\* What the three terms come to.
Binomial(s, t, u, base, squared, cubed) == Ray + s * base + t * squared + u * cubed

\* Compounded interest, of the pairs t and the triples u.
LEMMA CompoundedForm ==
    ASSUME NEW rate \in Nat, NEW s \in Nat, NEW t, NEW u, Combinations(s, t, u)
    PROVE  LET base == rate \div Year
               squared == RayMul(base, base)
           IN  CompoundedInterest(rate, s)
                 = Binomial(s, t, u, base, squared, RayMul(squared, base))
<1> DEFINE base == rate \div Year
           squared == RayMul(base, base)
           cubed == RayMul(squared, base)
           pairs == s * (s - 1)
           beyond == IF s > 2 THEN s - 2 ELSE 0
           second == Quotient(pairs * squared, 2)
           third == Quotient(pairs * beyond * cubed, 6)
<1>0. /\ t \in Nat /\ u \in Nat /\ 2 * t = pairs /\ 6 * u = s * (s - 1) * (s - 2)
  BY DEF Combinations
<1>1. base \in Nat
  OBVIOUS
<1>2. squared \in Nat /\ cubed \in Nat
  BY <1>1, RayMulRounds
<1>3. CompoundedInterest(rate, s) = Ray + s * base + second + third
  BY DEF CompoundedInterest
<1>4. pairs * beyond = 6 * u
  <2>1. CASE s > 2
    BY <1>0, <2>1
  <2>2. CASE s = 0 \/ s = 1 \/ s = 2
    <3>1. s * (s - 1) * (s - 2) = 0
      BY <2>2
    <3> QED
      BY <1>0, <2>2, <3>1
  <2> QED
    BY <2>1, <2>2
<1> HIDE DEF base, squared, cubed, beyond
<1>5. second = t * squared
  <2> DEFINE v == t * squared
  <2>1. v \in Nat /\ pairs * squared = 2 * v
    BY <1>0, <1>2, ProductInNat
  <2> HIDE DEF v
  <2>2. Quotient(2 * v, 2) = v
    BY <2>1 DEF Quotient
  <2> QED
    BY <2>1, <2>2 DEF v
<1>6. third = u * cubed
  <2> DEFINE v == u * cubed
  <2>1. v \in Nat /\ pairs * beyond * cubed = 6 * v
    BY <1>0, <1>2, <1>4, ProductInNat
  <2> HIDE DEF v
  <2>2. Quotient(6 * v, 6) = v
    BY <2>1 DEF Quotient
  <2> QED
    BY <2>1, <2>2 DEF v
<1> QED
  BY <1>3, <1>5, <1>6 DEF base, squared, cubed, Binomial

\* Squares and cubes of the time.
LEMMA SpansMultiply ==
    ASSUME NEW a \in Nat, NEW b \in Nat
    PROVE  4 * (a * b * (a + b)) <= (a + b) * (a + b) * (a + b)
<1> DEFINE s == a + b
           d == a - b
<1>1. d * d \in Nat
  OBVIOUS
<1>2. s \in Nat /\ (d * d) * s \in Nat
  BY <1>1, ProductInNat
<1>3. s * s * s = 4 * (a * b * s) + (d * d) * s
  OBVIOUS
<1>4. a * b * s \in Nat /\ s * s * s \in Nat
  BY <1>2, ProductInNat
<1> HIDE DEF s, d
<1>5. 4 * (a * b * s) <= s * s * s
  BY <1>2, <1>3, <1>4
<1> QED
  BY <1>5 DEF s

\* The compounded interest of two spans of time falls behind that of both by what
\* the powers of the rate are rounded up, once for each pair and triple of
\* seconds of different spans.
LEMMA CompoundedAdds ==
    ASSUME NEW rate \in Nat, NEW s \in Nat, NEW t \in Nat
    PROVE  LET first == CompoundedInterest(rate, s)
               second == CompoundedInterest(rate, t)
               whole == CompoundedInterest(rate, s + t)
               cube == (s + t) * (s + t) * (s + t)
           IN  /\ first \in Nat /\ second \in Nat /\ whole \in Nat
               /\ first >= Ray /\ second <= whole
               /\ first * second >= Ray * (whole - (cube \div 16 + 1))
<1> DEFINE b == rate \div Year
           q == RayMul(b, b)
           k == RayMul(q, b)
           h == Ray \div 2
           A == CompoundedInterest(rate, s)
           B == CompoundedInterest(rate, t)
           C == CompoundedInterest(rate, s + t)
           w == s + t
<1>0. w \in Nat /\ h \in Nat /\ 2 * h = Ray
  OBVIOUS
<1>1. A \in Nat /\ B \in Nat /\ C \in Nat /\ A >= Ray
  BY <1>0, CompoundedGrows
<1>2. /\ b \in Nat /\ q \in Nat /\ k \in Nat
      /\ Ray * q <= h + b * b /\ Ray * k <= h + q * b
  <2>1. b \in Nat
    OBVIOUS
  <2> HIDE DEF b
  <2> QED
    BY <2>1, RayMulRounds
<1>c. PICK t1, u1 : Combinations(s, t1, u1)
  BY PairsAndTriples
<1>d. PICK t2, u2 : Combinations(t, t2, u2)
  BY PairsAndTriples
<1>3. /\ t1 \in Nat /\ u1 \in Nat
      /\ 2 * t1 = s * (s - 1) /\ 6 * u1 = s * (s - 1) * (s - 2)
  BY <1>c DEF Combinations
<1>4. /\ t2 \in Nat /\ u2 \in Nat
      /\ 2 * t2 = t * (t - 1) /\ 6 * u2 = t * (t - 1) * (t - 2)
  BY <1>d DEF Combinations
<1> DEFINE p == s * t
           m == s * t2 + t * t1
<1>5. p \in Nat /\ m \in Nat
  BY <1>3, <1>4, ProductInNat
<1>6. 2 * (t1 + t2 + p) = w * (w - 1)
  BY <1>3, <1>4
<1>7. 6 * (u1 + u2 + m) = w * (w - 1) * (w - 2)
  <2>1. 6 * (s * t2) = 3 * s * (t * (t - 1)) /\ 6 * (t * t1) = 3 * t * (s * (s - 1))
    <3>1. 6 * (s * t2) = 3 * s * (2 * t2) /\ 6 * (t * t1) = 3 * t * (2 * t1)
      BY <1>3, <1>4
    <3> QED
      BY <1>3, <1>4, <3>1
  <2>2. w * (w - 1) * (w - 2)
          = s * (s - 1) * (s - 2) + t * (t - 1) * (t - 2)
            + 3 * s * (t * (t - 1)) + 3 * t * (s * (s - 1))
    OBVIOUS
  <2> DEFINE x == s * t2
             y == t * t1
  <2>3. x \in Nat /\ y \in Nat
    BY <1>3, <1>4, ProductInNat
  <2>4. 6 * (u1 + u2 + (x + y)) = 6 * u1 + 6 * u2 + 6 * x + 6 * y
    BY <1>3, <1>4, <2>3
  <2> QED
    BY <1>3, <1>4, <2>1, <2>2, <2>4
<1>8. 2 * (p + m) = s * t * (s + t)
  <2>1. 2 * (s * t2) = s * (t * (t - 1)) /\ 2 * (t * t1) = t * (s * (s - 1))
    <3>1. 2 * (s * t2) = s * (2 * t2) /\ 2 * (t * t1) = t * (2 * t1)
      BY <1>3, <1>4
    <3> QED
      BY <1>3, <1>4, <3>1
  <2>2. 2 * (p + m) = 2 * (s * t) + 2 * (s * t2) + 2 * (t * t1)
    BY <1>3, <1>4
  <2> QED
    BY <2>1, <2>2
<1>9. t1 + t2 + p \in Nat /\ u1 + u2 + m \in Nat
  BY <1>3, <1>4, <1>5
<1>10. /\ A = Ray + s * b + t1 * q + u1 * k
       /\ B = Ray + t * b + t2 * q + u2 * k
  <2>1. A = Binomial(s, t1, u1, b, q, k) /\ B = Binomial(t, t2, u2, b, q, k)
    BY <1>c, <1>d, CompoundedForm
  <2> QED
    BY <2>1 DEF Binomial
<1>11. C = Ray + w * b + (t1 + t2 + p) * q + (u1 + u2 + m) * k
  <2>1. Combinations(w, t1 + t2 + p, u1 + u2 + m)
    BY <1>6, <1>7, <1>9 DEF Combinations
  <2>2. C = Binomial(w, t1 + t2 + p, u1 + u2 + m, b, q, k)
    BY <1>0, <2>1, CompoundedForm
  <2> QED
    BY <2>2 DEF Binomial
<1> HIDE DEF A, B, C, b, q, k, h, p, m
<1>12. B <= C
  <2>1. /\ s * b \in Nat /\ t * b \in Nat /\ (t1 + p) * q \in Nat /\ (u1 + m) * k \in Nat
    BY <1>2, <1>3, <1>5, ProductInNat
  <2>2. C = B + (s * b + (t1 + p) * q + (u1 + m) * k)
    BY <1>2, <1>3, <1>4, <1>5, <1>10, <1>11
  <2> QED
    BY <1>1, <2>1, <2>2
\* The product has every term of the whole, but for those of both spans, which it
\* has in powers that are not rounded.
<1> DEFINE e == s * t2 * (b * q) + t * t1 * (q * b)
           rest == s * b * (u2 * k) + t1 * q * (t2 * q) + t1 * q * (u2 * k)
                   + u1 * k * (t * b) + u1 * k * (t2 * q) + u1 * k * (u2 * k)
<1>13. rest \in Nat
  <2>1. /\ s * b \in Nat /\ t * b \in Nat /\ t1 * q \in Nat /\ t2 * q \in Nat
        /\ u1 * k \in Nat /\ u2 * k \in Nat
    BY <1>2, <1>3, <1>4, ProductInNat
  <2> QED
    BY <2>1, ProductInNat
<1>14. A * B = Ray * (C - p * q - m * k) + p * (b * b) + m * (q * b) + rest
  BY <1>2, <1>3, <1>4, <1>10, <1>11 DEF p, m
<1>15. Ray * (p * q) <= p * h + p * (b * b) /\ Ray * (m * k) <= m * h + m * (q * b)
  <2>1. p * (Ray * q) <= p * (h + b * b) /\ m * (Ray * k) <= m * (h + q * b)
    <3>1. Ray * q \in Nat /\ h + b * b \in Nat /\ Ray * k \in Nat /\ h + q * b \in Nat
      BY <1>0, <1>2, ProductInNat
    <3> QED
      BY <1>2, <1>5, <3>1, ProductGrows
  <2> QED
    BY <1>0, <1>2, <1>5, <2>1
<1> DEFINE cube == w * w * w
           d == cube \div 16 + 1
<1>16. (p + m) * h <= Ray * d
  <2>1. 8 * (p + m) <= cube
    <3>1. 4 * (s * t * (s + t)) <= cube
      BY SpansMultiply
    <3> QED
      BY <1>5, <1>8, <3>1
  <2>2. cube \in Nat /\ d \in Nat /\ cube <= 16 * d
    <3>1. cube \in Nat
      BY <1>0, ProductInNat
    <3> HIDE DEF cube
    <3> QED
      BY <3>1
  <2>3. p + m <= 2 * d /\ p + m \in Nat
    <3> HIDE DEF cube, d
    <3> QED
      BY <1>5, <2>1, <2>2
  <2>4. h * (p + m) <= h * (2 * d)
    BY <1>0, <2>2, <2>3, ProductGrows
  <2>5. h * (2 * d) = Ray * d /\ h * (p + m) = (p + m) * h
    BY <1>0, <2>2, <2>3
  <2> QED
    BY <2>4, <2>5
<1>17. d \in Nat
  <2>1. cube \in Nat
    BY <1>0, ProductInNat
  <2> HIDE DEF cube
  <2> QED
    BY <2>1
<1>18. A * B >= Ray * (C - d)
  <2> DEFINE pq == p * q
             mk == m * k
             pb == p * (b * b)
             mq == m * (q * b)
             rc == Ray * C
             rd == Ray * d
             ph == p * h
             mh == m * h
  <2>1. /\ pq \in Nat /\ mk \in Nat /\ pb \in Nat /\ mq \in Nat /\ rc \in Nat /\ rd \in Nat
        /\ ph \in Nat /\ mh \in Nat
    BY <1>0, <1>1, <1>2, <1>5, <1>17, ProductInNat
  <2>2. /\ Ray * (C - p * q - m * k) = rc - Ray * pq - Ray * mk
        /\ Ray * (C - d) = rc - rd /\ (p + m) * h = ph + mh
    <3>1. Ray * (C - pq - mk) = Ray * C - Ray * pq - Ray * mk
      <4> HIDE DEF pq, mk
      <4> QED
        BY <1>1, <2>1
    <3>2. Ray * (C - d) = Ray * C - Ray * d
      <4> HIDE DEF d
      <4> QED
        BY <1>1, <1>17
    <3>3. (p + m) * h = p * h + m * h
      BY <1>0, <1>5
    <3> QED
      BY <3>1, <3>2, <3>3
  <2>3. Ray * pq \in Nat /\ Ray * mk \in Nat
    BY <2>1, ProductInNat
  <2> HIDE DEF pq, mk, pb, mq, rc, rd, ph, mh, rest, d
  <2>4. A * B = rc - Ray * pq - Ray * mk + pb + mq + rest
    BY <1>14, <2>2 DEF pb, mq
  <2>5. Ray * pq <= ph + pb /\ Ray * mk <= mh + mq /\ ph + mh <= rd
    BY <1>15, <1>16, <2>2 DEF pq, mk, pb, mq, ph, mh, rd
  <2> QED
    BY <1>13, <2>1, <2>2, <2>3, <2>4, <2>5
<1> QED
  BY <1>1, <1>12, <1>18 DEF A, B, C

\* A balance of an index that falls behind another, rounded once as the pool does,
\* falls behind that of the other, rounded twice as the client does, by a unit and
\* what it is behind.
LEMMA RoundedBehind ==
    ASSUME NEW b \in Nat, NEW i \in Nat, NEW j \in Nat, NEW e \in Nat,
           Ray * j >= (Ray - e) * i
    PROVE  LET shown == RayToWad(RayMul(WadToRay(b), i))
           IN  /\ shown \in Nat /\ RayMul(b, j) \in Nat /\ RayMul(e, shown + 1) \in Nat
               /\ shown <= RayMul(b, j) + 1 + RayMul(e, shown + 1)
<1> DEFINE R == Ray
           W == WadRayRatio
           hr == Ray \div 2
           hw == WadRayRatio \div 2
           x == b * i
           y == b * j
           k == RayMul(WadToRay(b), i)
           s == RayToWad(k)
           p == RayMul(b, j)
           v == e * (s + 1)
           g == RayMul(e, s + 1)
<1>1. /\ R \in Nat \ {0} /\ W \in Nat \ {0} /\ hr \in Nat /\ hw \in Nat
      /\ 2 * hr = R /\ 2 * hw = W /\ x \in Nat /\ y \in Nat
  BY ProductInNat
<1>2. k \in Nat /\ R * k <= hr + W * x /\ hr + W * x < R * k + R
  <2>1. WadToRay(b) \in Nat
    BY ProductInNat DEF WadToRay
  <2>2. WadToRay(b) * i = W * x
    BY DEF WadToRay
  <2> QED
    BY <2>1, <2>2, RayMulRounds
<1> HIDE DEF k
<1>3. s \in Nat /\ W * s <= hw + k /\ hw + k < W * s + W
  <2>1. hw + k \in Int /\ hw + k >= 0
    BY <1>1, <1>2
  <2>2. s = Quotient(hw + k, W)
    BY DEF RayToWad
  <2> HIDE DEF hw, W
  <2> QED
    BY <1>1, <2>1, <2>2, QuotientRounds
<1> HIDE DEF s
<1>4. p \in Nat /\ hr + y < R * p + R
  BY RayMulRounds
<1>5. g \in Nat /\ v \in Nat /\ hr + v < R * g + R
  <2>1. s + 1 \in Nat
    BY <1>3
  <2> QED
    BY <2>1, RayMulRounds, ProductInNat
<1>6. R * y >= R * x - e * x
  <2>1. b * ((R - e) * i) <= b * (R * j)
    BY <1>1, ProductGrows
  <2>2. b * ((R - e) * i) = R * x - e * x /\ b * (R * j) = R * y
    BY <1>1
  <2> QED
    BY <2>1, <2>2
<1> HIDE DEF R, W, hr, hw, x, y, p, v, g
\* What is shown is not less than the balance by more than a half.
<1>7. x <= R * (s + 1)
  <2>1. R * k <= R * (W * s + hw)
    <3>1. W * s \in Nat /\ k <= W * s + hw
      BY <1>1, <1>2, <1>3, ProductInNat
    <3> QED
      BY <1>1, <1>2, <3>1, ProductGrows
  <2>2. R * (W * s + hw) = W * (R * s) + R * hw /\ 2 * (R * hw) = R * W
        /\ W * (R * (s + 1)) = W * (R * s) + R * W
    <3>1. 2 * (R * hw) = R * (2 * hw)
      BY <1>1
    <3> QED
      BY <1>1, <1>3, <3>1
  <2>3. W * (R * s) \in Nat /\ R * W \in Nat /\ R * hw \in Nat /\ W * x \in Nat /\ R * k \in Nat
        /\ R * W >= R
    <3>1. R * s \in Nat
      BY <1>1, <1>3, ProductInNat
    <3>2. R * 1 <= R * W
      BY <1>1, ProductGrows
    <3> QED
      BY <1>1, <1>2, <3>1, <3>2, ProductInNat
  <2>4. W * x <= W * (R * (s + 1))
    <3> DEFINE rk == R * k
               wx == W * x
               rw == R * W
               u == W * (R * s)
    <3>1. /\ rk <= u + R * hw /\ hr + wx < rk + R /\ 2 * (R * hw) = rw
      BY <1>2, <2>1, <2>2
    <3>2. rk \in Nat /\ wx \in Nat /\ rw \in Nat /\ u \in Nat /\ rw >= R /\ R * hw \in Nat
      BY <2>3
    <3>3. W * (R * (s + 1)) = u + rw
      BY <2>2
    <3> HIDE DEF rk, wx, rw, u
    <3> QED
      BY <1>1, <3>1, <3>2, <3>3 DEF wx
  <2> SUFFICES ASSUME R * (s + 1) < x PROVE FALSE
    BY <1>1, <1>3
  <2> DEFINE z == R * (s + 1)
  <2>5. z \in Nat
    BY <1>1, <1>3, ProductInNat
  <2> HIDE DEF z
  <2>6. W * z < W * x
    BY <1>1, <2>5 DEF z
  <2> QED
    BY <1>1, <2>4, <2>5, <2>6 DEF z
<1>8. x <= y + v
  <2>1. e * x <= R * v
    <3>1. e * x <= e * (R * (s + 1))
      <4>1. R * (s + 1) \in Nat
        BY <1>1, <1>3, ProductInNat
      <4> QED
        BY <1>1, <1>7, <4>1, ProductGrows
    <3>2. e * (R * (s + 1)) = R * v
      BY <1>1, <1>3 DEF v
    <3> QED
      BY <3>1, <3>2
  <2>2. R * x <= R * (y + v)
    <3>1. R * (y + v) = R * y + R * v
      BY <1>1, <1>5
    <3>2. R * x \in Nat /\ R * y \in Nat /\ R * v \in Nat /\ e * x \in Nat
      BY <1>1, <1>5, ProductInNat
    <3> QED
      BY <1>6, <2>1, <3>1, <3>2
  <2> QED
    BY <1>1, <1>5, <2>2
\* And not more either.
<1>9. s <= p + 1 + g
  <2> SUFFICES ASSUME p + g + 2 <= s PROVE FALSE
    BY <1>3, <1>4, <1>5
  <2> DEFINE rp == R * p
             rg == R * g
             wp == W * rp
             wg == W * rg
             rw == R * W
  <2>1. rp \in Nat /\ rg \in Nat /\ wp \in Nat /\ wg \in Nat /\ rw \in Nat
    BY <1>1, <1>4, <1>5, ProductInNat
  <2>2. x <= rp + rg + R - 2
    <3> HIDE DEF rp, rg
    <3>1. hr + y < rp + R /\ hr + v < rg + R
      BY <1>4, <1>5 DEF rp, rg
    <3> QED
      BY <1>1, <1>5, <1>8, <2>1, <3>1
  <2>3. W * x <= wp + wg + rw - 2 * W
    <3>1. W * x <= W * (rp + rg + R - 2)
      <4>1. rp + rg + R - 2 \in Int
        BY <1>1, <2>1
      <4> QED
        BY <1>1, <2>2, <4>1, ProductGrows
    <3>2. W * (rp + rg + R - 2) = wp + wg + rw - 2 * W
      <4> HIDE DEF rp, rg
      <4> QED
        BY <1>1, <2>1
    <3> QED
      BY <3>1, <3>2
  <2>4. R * (W * s) <= R * hw + R * k
    <3>1. W * s \in Nat /\ hw + k \in Nat
      BY <1>1, <1>2, <1>3, ProductInNat
    <3>2. R * (W * s) <= R * (hw + k)
      BY <1>1, <1>3, <3>1, ProductGrows
    <3>3. R * (hw + k) = R * hw + R * k
      BY <1>1, <1>2
    <3> QED
      BY <3>2, <3>3
  <2>5. wp + wg + 2 * rw <= R * (W * s)
    <3>1. R * (W * (p + g + 2)) <= R * (W * s)
      <4>1. W * (p + g + 2) <= W * s
        BY <1>1, <1>3, <1>4, <1>5, ProductGrows
      <4>2. W * (p + g + 2) \in Nat /\ W * s \in Nat
        <5>1. p + g + 2 \in Nat
          BY <1>4, <1>5
        <5> QED
          BY <1>1, <1>3, <5>1, ProductInNat
      <4> QED
        BY <1>1, <4>1, <4>2, ProductGrows
    <3>2. R * (W * (p + g + 2)) = wp + wg + 2 * rw
      BY <1>1, <1>4, <1>5
    <3> QED
      BY <3>1, <3>2
  <2>6. 2 * (R * hw) = rw /\ R * hw \in Nat /\ R * k \in Nat /\ R * (W * s) \in Nat /\ W * x \in Nat
        /\ rw >= R
    <3>1. 2 * (R * hw) = R * (2 * hw)
      BY <1>1
    <3>2. R * 1 <= R * W
      BY <1>1, ProductGrows
    <3>3. W * s \in Nat
      BY <1>1, <1>3, ProductInNat
    <3> QED
      BY <1>1, <1>2, <3>1, <3>2, <3>3, ProductInNat
  <2> HIDE DEF rp, rg, wp, wg, rw
  <2> QED
    BY <1>1, <1>2, <2>1, <2>3, <2>4, <2>5, <2>6
<1> QED
  BY <1>3, <1>4, <1>5, <1>9 DEF s, k, p, g

\* The index of m that a reader of it carries forward to t: of the chain, or seen.
IncomeAt(of, m, t) ==
    NormalizedIncome(of[m].liquidityIndex, Config[m].liquidityRate,
                     t - of[m].lastUpdateTimestamp)

DebtIndexAt(of, m, t) ==
    RayMul(CompoundedInterest(Config[m].variableBorrowRate, t - of[m].lastUpdateTimestamp),
           of[m].variableBorrowIndex)

\* What was read falls behind the chain at no later time, but for the drift of as
\* many transactions as there were.
ReadsBehind ==
    \A m \in Markets :
        /\ seen.market[m].lastUpdateTimestamp <= now
        /\ \A t \in now..MaxTime :
             /\ Ray * IncomeAt(market, m, t)
                  >= (Ray - moves * LinearDrift(Config[m].liquidityRate))
                       * IncomeAt(seen.market, m, t)
             /\ Ray * DebtIndexAt(market, m, t)
                  >= (Ray - moves * CompoundedDrift(t)) * DebtIndexAt(seen.market, m, t)

\* Drifts are numbers.
LEMMA DriftType ==
    /\ \A m \in Markets : LinearDrift(Config[m].liquidityRate) \in Nat
    /\ \A t \in Nat : CompoundedDrift(t) \in Nat
<1>1. \A m \in Markets : Config[m].liquidityRate \in Nat
  BY ConfigAssumption DEF Numbers
<1>2. \A r \in Nat : LinearDrift(r) \in Nat
  BY DEF LinearDrift
<1>3. ASSUME NEW t \in Nat PROVE CompoundedDrift(t) \in Nat
  <2> DEFINE c == t * t * t
  <2>1. c \in Nat
    BY ProductInNat
  <2> HIDE DEF c
  <2>2. c \div 16 + 3 \in Nat
    BY <2>1
  <2> QED
    BY <2>2 DEF CompoundedDrift, c
<1> QED
  BY <1>1, <1>2, <1>3

\* So are the indexes carried forward.
LEMMA IndexAtType ==
    ASSUME NEW of \in [Markets -> Reserve], NEW m \in Markets, NEW t \in Nat,
           of[m].lastUpdateTimestamp <= t
    PROVE  IncomeAt(of, m, t) \in Nat /\ DebtIndexAt(of, m, t) \in Nat
<1> DEFINE s == t - of[m].lastUpdateTimestamp
           l == of[m].liquidityIndex
           v == of[m].variableBorrowIndex
           r == Config[m].liquidityRate
           d == Config[m].variableBorrowRate
<1>1. s \in Nat /\ l \in Nat /\ v \in Nat
  <2>1. of[m] \in Reserve
    OBVIOUS
  <2> QED
    BY <2>1, BoundsType DEF Reserve
<1>2. r \in Nat /\ d \in Nat
  BY ConfigAssumption DEF Numbers
<1>3. IncomeAt(of, m, t) = NormalizedIncome(l, r, s)
      /\ DebtIndexAt(of, m, t) = RayMul(CompoundedInterest(d, s), v)
  BY DEF IncomeAt, DebtIndexAt
<1> HIDE DEF s, l, v, r, d
<1>4. s \in Int /\ s >= 0
  BY <1>1
<1>5. NormalizedIncome(l, r, s) \in Nat
  BY <1>1, <1>2, <1>4, IncomeBounds
<1>6. RayMul(CompoundedInterest(d, s), v) \in Nat
  <2>1. CompoundedInterest(d, s) \in Nat
    BY <1>1, <1>2, CompoundedGrows
  <2> QED
    BY <1>1, <2>1, RayMulRounds
<1> QED
  BY <1>3, <1>5, <1>6

\* A market that accrues now falls behind one that does not, at any later time, by
\* the drift of one transaction.
LEMMA AccrualDrifts ==
    ASSUME PositionsInv, NEW m \in Markets, NEW t \in now..MaxTime
    PROVE  LET income == NormalizedIncome(IncomeNow(m), Config[m].liquidityRate, t - now)
               debt == RayMul(CompoundedInterest(Config[m].variableBorrowRate, t - now),
                              DebtIndexNow(m))
           IN  /\ Ray * income
                    >= (Ray - LinearDrift(Config[m].liquidityRate)) * IncomeAt(market, m, t)
               /\ Ray * debt >= (Ray - CompoundedDrift(t)) * DebtIndexAt(market, m, t)
<1> DEFINE u == market[m].lastUpdateTimestamp
           l == market[m].liquidityIndex
           v == market[m].variableBorrowIndex
           r == Config[m].liquidityRate
           d == Config[m].variableBorrowRate
           a == now - u
           b == t - now
           w == a + b
<1>1. /\ l \in Nat /\ v \in Nat /\ l >= Ray /\ v >= Ray /\ a \in Nat /\ b \in Nat
      /\ t \in Nat /\ w \in Nat /\ w <= t /\ w = t - u
  <2>1. /\ market[m] \in Reserve /\ u <= now /\ now \in 0..MaxTime
        /\ l >= Ray /\ v >= Ray
    BY DEF PositionsInv, TypeOK, IndexesAtLeastOne
  <2>2. l \in Nat /\ v \in Nat /\ u \in Nat
    BY <2>1, BoundsType DEF Reserve
  <2> HIDE DEF u, l, v
  <2> QED
    BY <2>1, <2>2, BoundsType
<1>2. r \in Nat /\ d \in Nat
  BY ConfigAssumption DEF Numbers
<1>3. /\ IncomeNow(m) = NormalizedIncome(l, r, a)
      /\ DebtIndexNow(m) = RayMul(CompoundedInterest(d, a), v)
      /\ IncomeAt(market, m, t) = NormalizedIncome(l, r, w)
      /\ DebtIndexAt(market, m, t) = RayMul(CompoundedInterest(d, w), v)
  <2>1. /\ IncomeAt(market, m, t) = NormalizedIncome(l, r, t - u)
        /\ DebtIndexAt(market, m, t) = RayMul(CompoundedInterest(d, t - u), v)
    BY DEF IncomeAt, DebtIndexAt
  <2>2. w = t - u
    BY <1>1
  <2> HIDE DEF w
  <2> QED
    BY <2>1, <2>2 DEF IncomeNow, DebtIndexNow
<1> HIDE DEF l, v, r, d, a, b
<1>4. Ray * NormalizedIncome(NormalizedIncome(l, r, a), r, b)
        >= (Ray - LinearDrift(r)) * NormalizedIncome(l, r, w)
  <2>1. CASE r = 0
    <3>1. NormalizedIncome(NormalizedIncome(l, r, a), r, b) = l /\ NormalizedIncome(l, r, w) = l
      BY <2>1 DEF NormalizedIncome
    <3>2. LinearDrift(r) \in Nat
      BY <1>2 DEF LinearDrift
    <3> DEFINE e == LinearDrift(r)
    <3>3. Ray * l >= (Ray - e) * l
      <4> HIDE DEF e
      <4>1. (Ray - e) * l = Ray * l - e * l /\ e * l \in Nat /\ Ray * l \in Nat
        BY <1>1, <3>2, ProductInNat DEF e
      <4> QED
        BY <4>1
    <3> QED
      BY <3>1, <3>3
  <2>2. CASE r # 0
    <3> DEFINE first == LinearInterest(r, a)
               second == LinearInterest(r, b)
               whole == LinearInterest(r, w)
               missing == r \div Ray + 2
    <3>1. /\ first \in Nat /\ second \in Nat /\ whole \in Nat /\ second <= whole
          /\ first * second >= Ray * (whole - missing)
      BY <1>1, <1>2, LinearAdds
    <3>2. whole >= Ray
      <4>1. w \in Int /\ w >= 0
        BY <1>1
      <4> HIDE DEF w
      <4> QED
        BY <1>2, <4>1, LinearBounds
    <3>3. missing \in Nat
      BY <1>2
    <3>4. missing + 2 = LinearDrift(r)
      <4>1. r \div Ray \in Nat
        BY <1>2
      <4> QED
        BY <4>1 DEF LinearDrift
    <3>5. /\ NormalizedIncome(NormalizedIncome(l, r, a), r, b) = RayMul(second, RayMul(first, l))
          /\ NormalizedIncome(l, r, w) = RayMul(whole, l)
      BY <2>2 DEF NormalizedIncome
    <3> HIDE DEF first, second, whole, missing
    <3>6. Ray * RayMul(second, RayMul(first, l)) >= (Ray - (missing + 2)) * RayMul(whole, l)
      BY <1>1, <3>1, <3>2, <3>3, AccruedTwice
    <3> QED
      BY <3>4, <3>5, <3>6
  <2> QED
    BY <2>1, <2>2
<1>5. Ray * RayMul(CompoundedInterest(d, b), RayMul(CompoundedInterest(d, a), v))
        >= (Ray - CompoundedDrift(t)) * RayMul(CompoundedInterest(d, w), v)
  <2> DEFINE first == CompoundedInterest(d, a)
             second == CompoundedInterest(d, b)
             whole == CompoundedInterest(d, w)
             cube == w * w * w
             missing == cube \div 16 + 1
             old == RayMul(whole, v)
             new == RayMul(second, RayMul(first, v))
             e == CompoundedDrift(t)
  <2>1. /\ first \in Nat /\ second \in Nat /\ whole \in Nat /\ second <= whole
        /\ first * second >= Ray * (whole - missing)
    BY <1>1, <1>2, CompoundedAdds
  <2>2. whole >= Ray
    BY <1>1, <1>2, CompoundedGrows
  <2>3. missing \in Nat /\ e \in Nat /\ missing + 2 <= e
    <3> DEFINE top == t * t * t
    <3>1. w * w <= t * t /\ w * w \in Nat /\ t * t \in Nat
      <4>1. w * w <= w * t /\ t * w <= t * t
        BY <1>1, ProductGrows
      <4>2. w * t = t * w /\ w * w \in Nat /\ t * t \in Nat /\ t * w \in Nat
        BY <1>1, ProductInNat
      <4> QED
        BY <4>1, <4>2
    <3>2. cube <= top /\ cube \in Nat /\ top \in Nat
      <4> DEFINE ww == w * w
                 tt == t * t
      <4>1. ww * w <= ww * t /\ t * ww <= t * tt
        BY <1>1, <3>1, ProductGrows
      <4>2. ww * w \in Nat /\ ww * t \in Nat /\ t * tt \in Nat /\ tt * t = t * tt /\ ww * t = t * ww
        BY <1>1, <3>1, ProductInNat
      <4> QED
        BY <4>1, <4>2
    <3>3. e = top \div 16 + 3
      BY DEF CompoundedDrift
    <3> HIDE DEF cube, top, e
    <3> QED
      BY <3>2, <3>3
  <2> HIDE DEF first, second, whole, missing, e
  <2>4. Ray * new >= (Ray - (missing + 2)) * old
    BY <1>1, <2>1, <2>2, <2>3, AccruedTwice
  <2>5. new \in Nat /\ old \in Nat
    BY <1>1, <2>1, RayMulRounds
  <2> HIDE DEF new, old
  <2>6. (missing + 2) * old <= e * old
    <3>1. old * (missing + 2) <= old * e
      BY <2>3, <2>5, ProductGrows
    <3> QED
      BY <2>3, <2>5, <3>1
  <2>7. /\ (Ray - (missing + 2)) * old = Ray * old - (missing + 2) * old
        /\ (Ray - e) * old = Ray * old - e * old
    BY <2>3, <2>5
  <2>8. Ray * new \in Nat /\ Ray * old \in Nat /\ e * old \in Nat /\ (missing + 2) * old \in Nat
    <3>1. missing + 2 \in Nat
      BY <2>3
    <3> QED
      BY <2>3, <2>5, <3>1, ProductInNat
  <2>9. Ray * new >= (Ray - e) * old
    BY <2>4, <2>6, <2>7, <2>8
  <2> QED
    BY <2>9 DEF new, old, first, second, whole, e
<1> QED
  BY <1>3, <1>4, <1>5 DEF r, d, b

\* Drifts add up, and more of them allow more.
LEMMA DriftsCompose ==
    ASSUME NEW a \in Nat, NEW b \in Nat, NEW c \in Nat, NEW n \in Nat, NEW d \in Nat,
           Ray * b >= (Ray - n * d) * c
    PROVE  /\ Ray * a >= (Ray - d) * b => Ray * a >= (Ray - (n + 1) * d) * c
           /\ Ray * b >= (Ray - (n + 1) * d) * c
<1> DEFINE e == n * d
           ec == e * c
           dc == d * c
           ra == Ray * a
           rb == Ray * b
           rc == Ray * c
<1>1. /\ e \in Nat /\ ra \in Nat /\ rb \in Nat /\ rc \in Nat /\ ec \in Nat /\ dc \in Nat
  BY ProductInNat
<1>2. (Ray - (n + 1) * d) * c = rc - ec - dc
  OBVIOUS
<1>3. (Ray - n * d) * c = rc - ec
  OBVIOUS
<1>4. rb >= rc - ec
  BY <1>3
<1>5. Ray * b >= (Ray - (n + 1) * d) * c
  <2> HIDE DEF e, ec, dc, rb, rc
  <2>1. rb >= rc - ec - dc
    BY <1>1, <1>4
  <2> QED
    BY <1>2, <2>1 DEF rb
<1>6. ASSUME Ray * a >= (Ray - d) * b PROVE ra >= rc - ec - dc
  <2>1. CASE d > Ray
    <3>1. Ray * c <= d * c
      <4>1. c * Ray <= c * d
        BY <2>1, ProductGrows
      <4> QED
        BY <4>1
    <3> HIDE DEF e, ec, ra, rb
    <3> QED
      BY <1>1, <3>1
  <2>2. CASE d <= Ray
    <3>1. (Ray - d) * (rc - ec) <= (Ray - d) * rb
      <4>1. Ray - d \in Nat /\ rc - ec \in Int /\ rb \in Int
        BY <1>1, <2>2
      <4> HIDE DEF rc, ec, rb
      <4> QED
        BY <1>4, <4>1, ProductGrows
    <3>2. Ray * ((Ray - d) * b) <= Ray * ra
      <4>1. (Ray - d) * b \in Int
        OBVIOUS
      <4> QED
        BY <1>1, <1>6, <4>1, ProductGrows
    <3>3. Ray * ((Ray - d) * b) = (Ray - d) * rb
      OBVIOUS
    <3>4. (Ray - d) * (rc - ec) = Ray * (rc - ec - dc) + d * ec
      <4>1. d * rc = Ray * dc
        OBVIOUS
      <4> HIDE DEF rc, ec, dc
      <4> QED
        BY <1>1, <4>1
    <3>5. d * ec \in Nat
      BY <1>1, ProductInNat
    <3> DEFINE z == rc - ec - dc
    <3>6. z \in Int
      BY <1>1
    <3>7. Ray * z <= Ray * ra
      <4>1. Ray * z \in Int /\ Ray * ra \in Int /\ (Ray - d) * rb \in Int
        BY <1>1, <3>6
      <4> HIDE DEF z, rc, ec, dc, ra, rb, e
      <4> QED
        BY <3>1, <3>2, <3>3, <3>4, <3>5, <4>1 DEF z
    <3> HIDE DEF z, ra
    <3>8. z <= ra
      BY <1>1, <3>6, <3>7
    <3> QED
      BY <3>8 DEF z
  <2> QED
    BY <2>1, <2>2
<1> QED
  BY <1>2, <1>5, <1>6

\* A step leaves the indexes of a market, or it is a transaction in which they
\* accrue.
IndexesStay(m) ==
    /\ market'[m].liquidityIndex = market[m].liquidityIndex
    /\ market'[m].variableBorrowIndex = market[m].variableBorrowIndex
    /\ market'[m].lastUpdateTimestamp = market[m].lastUpdateTimestamp

IndexesAccrue(m) ==
    /\ market'[m].liquidityIndex = IncomeNow(m)
    /\ market'[m].variableBorrowIndex = DebtIndexNow(m)
    /\ market'[m].lastUpdateTimestamp = now

\* Whoever borrows makes one market accrue.
LEMMA LentAccrues ==
    ASSUME PositionsInv, NEW m \in Markets, NEW amount, NEW isolating,
           market' = Lent(m, amount, isolating), NEW i \in Markets
    PROVE  IndexesStay(i) \/ IndexesAccrue(i)
<1> DEFINE more == RayDiv(amount, DebtIndexNow(m))
           a == [Accrued(m) EXCEPT !.availableLiquidity = @ - amount,
                                   !.totalScaledVariableDebt = @ + more]
           r == IF i = m THEN a ELSE market[i]
           value == amount * market[m].price
           c == [r EXCEPT !.isolationModeTotalDebt = @ + value]
<1>1. market'[i] = IF i \in isolating THEN c ELSE r
  BY DEF Lent
<1> HIDE DEF more, value
<1>2. market[i] \in Reserve /\ market[m] \in Reserve
  BY DEF PositionsInv, TypeOK
<1>3. /\ c.liquidityIndex = r.liquidityIndex /\ c.variableBorrowIndex = r.variableBorrowIndex
      /\ c.lastUpdateTimestamp = r.lastUpdateTimestamp
  BY <1>2 DEF Reserve, Accrued
<1>4. i = m => /\ a.liquidityIndex = IncomeNow(m) /\ a.variableBorrowIndex = DebtIndexNow(m)
               /\ a.lastUpdateTimestamp = now
  BY <1>2 DEF Reserve, Accrued
<1> HIDE DEF a, c
<1>5. /\ market'[i].liquidityIndex = r.liquidityIndex
      /\ market'[i].variableBorrowIndex = r.variableBorrowIndex
      /\ market'[i].lastUpdateTimestamp = r.lastUpdateTimestamp
  BY <1>1, <1>3
<1> QED
  BY <1>4, <1>5 DEF IndexesStay, IndexesAccrue

\* Whatever is done, an index accrues only in a transaction, at a time at which
\* nothing is read; what is read is the chain's, and time and transactions go on.
LEMMA IndexStep ==
    ASSUME PositionsInv, [Next]_vars
    PROVE  /\ now' >= now /\ moves' \in {moves, moves + 1}
           /\ \A m \in Markets : seen'.market[m] \in {seen.market[m], market[m]}
           /\ \A m \in Markets :
                \/ IndexesStay(m)
                \/ IndexesAccrue(m) /\ moves' = moves + 1 /\ now' = now /\ seen' = seen
           /\ \A m \in Markets : seen'.market[m] # seen.market[m] => market' = market
<1> DEFINE Goal == /\ now' >= now /\ moves' \in {moves, moves + 1}
                   /\ \A m \in Markets : seen'.market[m] \in {seen.market[m], market[m]}
                   /\ \A m \in Markets :
                        \/ IndexesStay(m)
                        \/ IndexesAccrue(m) /\ moves' = moves + 1 /\ now' = now /\ seen' = seen
                   /\ \A m \in Markets : seen'.market[m] # seen.market[m] => market' = market
<1>0. /\ now \in 0..MaxTime /\ now \in Int /\ market \in [Markets -> Reserve]
      /\ seen \in [market : [Markets -> Reserve], user : [Markets -> UserReserve], mode : Modes]
  BY BoundsType DEF PositionsInv, TypeOK
<1>a. ASSUME now' = now, moves' = moves + 1, seen' = seen,
             \A m \in Markets : IndexesStay(m) \/ IndexesAccrue(m)
      PROVE  Goal
  BY <1>0, <1>a
<1>b. ASSUME market' = market PROVE \A m \in Markets : IndexesStay(m)
  BY <1>b DEF IndexesStay
<1> HIDE DEF Goal
<1>1. ASSUME NEW m \in Markets, NEW amount \in Amounts, UserBorrows(m, amount) PROVE Goal
  BY <1>1, <1>a, LentAccrues DEF UserBorrows, Move
<1>2. ASSUME NEW m \in Markets, NEW amount \in Amounts,
             NEW isolating \in {{}} \cup {{i} : i \in Isolated}, OthersBorrow(m, amount, isolating)
      PROVE  Goal
  BY <1>2, <1>a, LentAccrues DEF OthersBorrow, Move
<1>3. ASSUME NEW m \in Markets, NEW amount \in Amounts, UserSupplies(m, amount) PROVE Goal
  <2> DEFINE a == [Accrued(m) EXCEPT !.availableLiquidity = @ + amount]
  <2>1. market' = [market EXCEPT ![m] = a]
    BY <1>3 DEF UserSupplies
  <2>2. /\ a.liquidityIndex = IncomeNow(m) /\ a.variableBorrowIndex = DebtIndexNow(m)
        /\ a.lastUpdateTimestamp = now
    BY <1>0 DEF Reserve, Accrued
  <2> HIDE DEF a
  <2>3. ASSUME NEW i \in Markets PROVE IndexesStay(i) \/ IndexesAccrue(i)
    <3>1. market'[i] = IF i = m THEN a ELSE market[i]
      BY <1>0, <2>1
    <3> QED
      BY <2>2, <3>1 DEF IndexesStay, IndexesAccrue
  <2> QED
    BY <1>3, <1>a, <2>3 DEF UserSupplies, Move
<1>4. ASSUME NEW m \in Markets, NEW price \in Prices, PriceMoves(m, price) PROVE Goal
  <2>1. market' = [market EXCEPT ![m].price = price]
    BY <1>4 DEF PriceMoves
  <2>2. \A i \in Markets : IndexesStay(i)
    BY <1>0, <2>1 DEF Reserve, IndexesStay
  <2> QED
    BY <1>4, <1>a, <2>2 DEF PriceMoves, Move
<1>5. ASSUME NEW category \in Modes, UserSwitchesMode(category) PROVE Goal
  BY <1>5, <1>a, <1>b DEF UserSwitchesMode, Move
<1>6. ASSUME Tick PROVE Goal
  BY <1>0, <1>6, <1>b DEF Tick, chain, Goal
<1>7. ASSUME ReadReserves PROVE Goal
  BY <1>0, <1>7, <1>b DEF ReadReserves, chain, Goal
<1>8. ASSUME ReadUserReserves PROVE Goal
  BY <1>0, <1>8, <1>b DEF ReadUserReserves, chain, Goal
<1>9. ASSUME UNCHANGED vars PROVE Goal
  BY <1>0, <1>9, <1>b DEF vars, chain, Goal
<1>10. Goal
  BY <1>1, <1>2, <1>3, <1>4, <1>5, <1>6, <1>7, <1>8, <1>9 DEF Next
<1> QED
  BY <1>10 DEF Goal

\* An index falls behind itself by nothing.
LEMMA NoDrift ==
    ASSUME NEW c \in Nat, NEW n \in Nat, NEW d \in Nat
    PROVE  Ray * c >= (Ray - n * d) * c
<1> DEFINE e == n * d
<1>1. e \in Nat
  BY ProductInNat
<1> HIDE DEF e
<1>2. (Ray - e) * c = Ray * c - e * c /\ e * c \in Nat /\ Ray * c \in Nat
  BY <1>1, ProductInNat
<1>3. Ray * c >= (Ray - e) * c
  BY <1>2
<1> QED
  BY <1>3 DEF e

\* The indexes start at one, in the chain and for a client that has read nothing.
LEMMA BehindInit == PositionsInv /\ Init => ReadsBehind
<1> SUFFICES ASSUME PositionsInv, Init, NEW m \in Markets
             PROVE  /\ seen.market[m].lastUpdateTimestamp <= now
                    /\ \A t \in now..MaxTime :
                         /\ Ray * IncomeAt(market, m, t)
                              >= (Ray - moves * LinearDrift(Config[m].liquidityRate))
                                   * IncomeAt(seen.market, m, t)
                         /\ Ray * DebtIndexAt(market, m, t)
                              >= (Ray - moves * CompoundedDrift(t)) * DebtIndexAt(seen.market, m, t)
  BY DEF ReadsBehind
<1>1. /\ now = 0 /\ moves = 0
      /\ market[m].liquidityIndex = Ray /\ market[m].variableBorrowIndex = Ray
      /\ market[m].lastUpdateTimestamp = 0 /\ seen.market[m] = NoReserve
  <2>1. PICK p \in Portfolios :
          /\ now = 0 /\ moves = 0
          /\ market = [i \in Markets |->
               [NoReserve EXCEPT !.availableLiquidity = Config[i].liquidity,
                  !.totalScaledVariableDebt = p.others[i] + p.user[i].scaledVariableDebt,
                  !.totalPrincipalStableDebt = p.user[i].principalStableDebt,
                  !.price = p.price[i]]]
          /\ seen = [market |-> [i \in Markets |-> NoReserve],
                     user |-> [i \in Markets |-> NoUserReserve], mode |-> 0]
    BY DEF Init
  <2> QED
    BY <2>1 DEF NoReserve
<1>2. /\ NoReserve.liquidityIndex = Ray /\ NoReserve.variableBorrowIndex = Ray
      /\ NoReserve.lastUpdateTimestamp = 0
  BY DEF NoReserve
<1>3. ASSUME NEW t \in now..MaxTime
      PROVE  /\ Ray * IncomeAt(market, m, t)
                  >= (Ray - moves * LinearDrift(Config[m].liquidityRate))
                       * IncomeAt(seen.market, m, t)
             /\ Ray * DebtIndexAt(market, m, t)
                  >= (Ray - moves * CompoundedDrift(t)) * DebtIndexAt(seen.market, m, t)
  <2>1. /\ IncomeAt(seen.market, m, t) = IncomeAt(market, m, t)
        /\ DebtIndexAt(seen.market, m, t) = DebtIndexAt(market, m, t)
    BY <1>1, <1>2 DEF IncomeAt, DebtIndexAt
  <2>2. t \in Nat /\ market \in [Markets -> Reserve] /\ market[m].lastUpdateTimestamp <= t
        /\ moves \in Nat
    BY <1>1, BoundsType DEF PositionsInv, TypeOK
  <2>3. IncomeAt(market, m, t) \in Nat /\ DebtIndexAt(market, m, t) \in Nat
    BY <2>2, IndexAtType
  <2> QED
    BY <2>1, <2>2, <2>3, DriftType, NoDrift
<1> QED
  BY <1>1, <1>2, <1>3

\* Every step keeps what was read behind.
LEMMA BehindStep == PositionsInv /\ ReadsBehind /\ [Next]_vars => ReadsBehind'
<1> SUFFICES ASSUME PositionsInv, ReadsBehind, [Next]_vars, NEW m \in Markets,
                    PositionsInv'
             PROVE  /\ seen'.market[m].lastUpdateTimestamp <= now'
                    /\ \A t \in now'..MaxTime :
                         /\ Ray * IncomeAt(market', m, t)
                              >= (Ray - moves' * LinearDrift(Config[m].liquidityRate))
                                   * IncomeAt(seen'.market, m, t)
                         /\ Ray * DebtIndexAt(market', m, t)
                              >= (Ray - moves' * CompoundedDrift(t))
                                   * DebtIndexAt(seen'.market, m, t)
  BY PositionsStep DEF ReadsBehind, IncomeAt, DebtIndexAt
<1>1. /\ now' >= now /\ moves' \in {moves, moves + 1}
      /\ seen'.market[m] \in {seen.market[m], market[m]}
      /\ \/ IndexesStay(m)
         \/ IndexesAccrue(m) /\ moves' = moves + 1 /\ now' = now /\ seen' = seen
      /\ seen'.market[m] # seen.market[m] => market' = market
  BY IndexStep
<1>2. /\ now \in Nat /\ now' \in Nat /\ moves \in Nat /\ moves' \in Nat /\ MaxTime \in Nat
      /\ market \in [Markets -> Reserve] /\ market' \in [Markets -> Reserve]
      /\ seen.market \in [Markets -> Reserve] /\ seen'.market \in [Markets -> Reserve]
      /\ market[m].lastUpdateTimestamp <= now /\ market'[m].lastUpdateTimestamp <= now'
      /\ seen.market[m].lastUpdateTimestamp <= now
  BY BoundsType DEF PositionsInv, TypeOK, IndexesAtLeastOne, ReadsBehind
<1>3. seen'.market[m].lastUpdateTimestamp <= now'
  <2>1. /\ seen.market[m].lastUpdateTimestamp \in Int /\ market[m].lastUpdateTimestamp \in Int
    BY <1>2, BoundsType DEF Reserve
  <2> QED
    BY <1>1, <1>2, <2>1
<1>4. ASSUME NEW t \in now'..MaxTime
      PROVE  /\ Ray * IncomeAt(market', m, t)
                  >= (Ray - moves' * LinearDrift(Config[m].liquidityRate))
                       * IncomeAt(seen'.market, m, t)
             /\ Ray * DebtIndexAt(market', m, t)
                  >= (Ray - moves' * CompoundedDrift(t)) * DebtIndexAt(seen'.market, m, t)
  <2> DEFINE r == LinearDrift(Config[m].liquidityRate)
             d == CompoundedDrift(t)
             x == IncomeAt(market, m, t)
             y == DebtIndexAt(market, m, t)
             xn == IncomeAt(market', m, t)
             yn == DebtIndexAt(market', m, t)
             xs == IncomeAt(seen.market, m, t)
             ys == DebtIndexAt(seen.market, m, t)
  <2>1. t \in Nat /\ t \in now..MaxTime /\ t >= now'
    BY <1>1, <1>2
  <2>2. r \in Nat /\ d \in Nat
    BY <2>1, DriftType
  <2>3. /\ x \in Nat /\ y \in Nat /\ xs \in Nat /\ ys \in Nat /\ xn \in Nat /\ yn \in Nat
    <3>1. /\ market[m].lastUpdateTimestamp <= t /\ market'[m].lastUpdateTimestamp <= t
          /\ seen.market[m].lastUpdateTimestamp <= t
      <4>1. /\ seen.market[m].lastUpdateTimestamp \in Int /\ market[m].lastUpdateTimestamp \in Int
            /\ market'[m].lastUpdateTimestamp \in Int
        BY <1>2, BoundsType DEF Reserve
      <4> QED
        BY <1>1, <1>2, <2>1, <4>1
    <3> QED
      BY <1>2, <2>1, <3>1, IndexAtType
  <2>4. Ray * x >= (Ray - moves * r) * xs /\ Ray * y >= (Ray - moves * d) * ys
    BY <2>1 DEF ReadsBehind
  <2>5. \/ xn = x /\ yn = y
        \/ /\ moves' = moves + 1 /\ seen' = seen
           /\ Ray * xn >= (Ray - r) * x /\ Ray * yn >= (Ray - d) * y
    <3>1. ASSUME IndexesStay(m) PROVE xn = x /\ yn = y
      BY <3>1 DEF IndexesStay, IncomeAt, DebtIndexAt
    <3>2. ASSUME IndexesAccrue(m)
          PROVE  Ray * xn >= (Ray - r) * x /\ Ray * yn >= (Ray - d) * y
      <4>1. /\ xn = NormalizedIncome(IncomeNow(m), Config[m].liquidityRate, t - now)
            /\ yn = RayMul(CompoundedInterest(Config[m].variableBorrowRate, t - now),
                           DebtIndexNow(m))
        BY <3>2 DEF IndexesAccrue, IncomeAt, DebtIndexAt
      <4> HIDE DEF x, y, xn, yn
      <4>2. /\ Ray * xn >= (Ray - r) * x /\ Ray * yn >= (Ray - d) * y
        BY <2>1, <4>1, AccrualDrifts DEF x, y
      <4> QED
        BY <4>2
    <3> QED
      BY <1>1, <3>1, <3>2
  <2>6. \/ /\ IncomeAt(seen'.market, m, t) = xs /\ DebtIndexAt(seen'.market, m, t) = ys
        \/ /\ IncomeAt(seen'.market, m, t) = xn /\ DebtIndexAt(seen'.market, m, t) = yn
    <3>1. CASE seen'.market[m] = seen.market[m]
      BY <3>1 DEF IncomeAt, DebtIndexAt
    <3>2. CASE seen'.market[m] # seen.market[m]
      <4>1. seen'.market[m] = market'[m]
        BY <1>1, <3>2
      <4> QED
        BY <4>1 DEF IncomeAt, DebtIndexAt
    <3> QED
      BY <3>1, <3>2
  <2> HIDE DEF r, d, x, y, xn, yn, xs, ys
  <2>7. Ray * xn >= (Ray - moves' * r) * xs /\ Ray * yn >= (Ray - moves' * d) * ys
    <3>1. CASE xn = x /\ yn = y /\ moves' = moves
      BY <2>4, <3>1
    <3>2. CASE xn = x /\ yn = y /\ moves' = moves + 1
      BY <1>2, <2>2, <2>3, <2>4, <3>2, DriftsCompose
    <3>3. CASE /\ moves' = moves + 1
               /\ Ray * xn >= (Ray - r) * x /\ Ray * yn >= (Ray - d) * y
      <4>1. Ray * xn >= (Ray - (moves + 1) * r) * xs
        BY <1>2, <2>2, <2>3, <2>4, <3>3, DriftsCompose
      <4>2. Ray * yn >= (Ray - (moves + 1) * d) * ys
        BY <1>2, <2>2, <2>3, <2>4, <3>3, DriftsCompose
      <4> QED
        BY <3>3, <4>1, <4>2
    <3> QED
      BY <1>1, <2>5, <3>1, <3>2, <3>3
  <2>8. Ray * xn >= (Ray - moves' * r) * xn /\ Ray * yn >= (Ray - moves' * d) * yn
    BY <1>2, <2>2, <2>3, NoDrift
  <2>9. /\ Ray * xn >= (Ray - moves' * r) * IncomeAt(seen'.market, m, t)
        /\ Ray * yn >= (Ray - moves' * d) * DebtIndexAt(seen'.market, m, t)
    BY <2>6, <2>7, <2>8
  <2> QED
    BY <2>9 DEF r, d, xn, yn
<1> QED
  BY <1>3, <1>4

\* The balances follow the indexes.
LEMMA NeverOverstated == PositionsInv /\ ReadsBehind => StaleNeverOverstates
<1> SUFFICES ASSUME PositionsInv, ReadsBehind, step = "done", NEW m \in Markets,
                    seen.user[m] = user[m]
             PROVE  LET supply == ShownSupply(m, now)
                        debt == ShownDebt(m, now)
                        lost(drift, balance) == RayMul(moves * drift, balance + 1)
                    IN  /\ supply <= Supplied(m) + 1
                                       + lost(LinearDrift(Config[m].liquidityRate), supply)
                        /\ debt <= Owed(m) + 2 + lost(CompoundedDrift(now), debt)
  BY DEF StaleNeverOverstates
<1> DEFINE b == user[m].scaledLBTokenBalance
           v == user[m].scaledVariableDebt
           p == user[m].principalStableDebt
           r == moves * LinearDrift(Config[m].liquidityRate)
           d == moves * CompoundedDrift(now)
           x == IncomeAt(market, m, now)
           y == DebtIndexAt(market, m, now)
           xs == IncomeAt(seen.market, m, now)
           ys == DebtIndexAt(seen.market, m, now)
           c == CompoundedInterest(Config[m].stableBorrowRate, now)
           supply == RayToWad(RayMul(WadToRay(b), xs))
           variable == RayToWad(RayMul(WadToRay(v), ys))
           stable == RayToWad(RayMul(WadToRay(p), c))
<1>1. /\ now \in Nat /\ now \in now..MaxTime /\ moves \in Nat
      /\ b \in Nat /\ v \in Nat /\ p \in Nat
      /\ market \in [Markets -> Reserve] /\ seen.market \in [Markets -> Reserve]
      /\ market[m].lastUpdateTimestamp <= now /\ seen.market[m].lastUpdateTimestamp <= now
  BY BoundsType DEF PositionsInv, TypeOK, IndexesAtLeastOne, ReadsBehind, UserReserve
<1>2. x \in Nat /\ y \in Nat /\ xs \in Nat /\ ys \in Nat
  BY <1>1, IndexAtType
<1>3. r \in Nat /\ d \in Nat
  <2>1. LinearDrift(Config[m].liquidityRate) \in Nat /\ CompoundedDrift(now) \in Nat
    BY <1>1, DriftType
  <2> QED
    BY <1>1, <2>1, ProductInNat
<1>4. c \in Nat
  <2>1. Config[m].stableBorrowRate \in Nat
    BY ConfigAssumption DEF Numbers
  <2> QED
    BY <1>1, <2>1, CompoundedGrows
<1>5. Ray * x >= (Ray - r) * xs /\ Ray * y >= (Ray - d) * ys
  BY <1>1 DEF ReadsBehind
<1>6. /\ Supplied(m) = RayMul(b, x)
      /\ Owed(m) = RayMul(v, y) + RayMul(p, c)
  BY DEF Supplied, Owed, StableNow, IncomeNow, DebtIndexNow, IncomeAt, DebtIndexAt
<1>7. /\ ShownSupply(m, now) = supply
      /\ ShownDebt(m, now) = variable + stable
  BY DEF ShownSupply, ShownDebt, LinearBalance, CompoundedBalance, CompoundedStableBalance,
         Elapsed, IncomeAt, DebtIndexAt
<1> HIDE DEF b, v, p, r, d, x, y, xs, ys, c
<1>8. supply <= RayMul(b, x) + 1 + RayMul(r, supply + 1)
  BY <1>1, <1>2, <1>3, <1>5, RoundedBehind
<1>9. /\ variable \in Nat /\ RayMul(v, y) \in Nat /\ RayMul(d, variable + 1) \in Nat
      /\ variable <= RayMul(v, y) + 1 + RayMul(d, variable + 1)
  BY <1>1, <1>2, <1>3, <1>5, RoundedBehind
<1>10. /\ stable \in Nat /\ RayMul(p, c) \in Nat /\ stable <= RayMul(p, c) + 1
  BY <1>1, <1>4, RoundedTwice
<1> HIDE DEF supply, variable, stable
<1>11. /\ RayMul(d, variable + 1) <= RayMul(d, variable + stable + 1)
       /\ RayMul(d, variable + stable + 1) \in Nat
  <2>1. /\ variable + 1 \in Nat /\ variable + stable + 1 \in Nat
        /\ variable + 1 <= variable + stable + 1
    BY <1>9, <1>10
  <2> QED
    BY <1>3, <2>1, RayMulMonotone, RayMulRounds
<1>12. variable + stable <= RayMul(v, y) + RayMul(p, c) + 2 + RayMul(d, variable + stable + 1)
  BY <1>9, <1>10, <1>11
<1> QED
  BY <1>6, <1>7, <1>8, <1>12 DEF r, d

\* For any markets, rates, amounts and times, what is shown of old reads overstates
\* neither the supply nor the debt of a user that did nothing, but for rounding and
\* the drift of the indexes that the transactions of others cause.
THEOREM OldReadsStayBehind == Spec => []StaleNeverOverstates
<1>1. Init => PositionsInv /\ ReadsBehind
  BY PositionsInit, BehindInit
<1>2. PositionsInv /\ ReadsBehind /\ [Next]_vars => (PositionsInv /\ ReadsBehind)'
  BY PositionsStep, BehindStep
<1>3. PositionsInv /\ ReadsBehind => StaleNeverOverstates
  BY NeverOverstated
<1> QED
  BY <1>1, <1>2, <1>3, PTL DEF Spec
=============================================================================
