------------------------------- MODULE RayMath -------------------------------
(***************************************************************************)
(* The fixed-point arithmetic of math-utils: balances in wads, indexes and *)
(* rates in rays.  A BigNumberZeroDecimal rounds its divisions toward zero *)
(* and nothing else, and the halves added first make that half up.         *)
(***************************************************************************)
EXTENDS Integers

CONSTANTS Ray,          \* one, as a ray: 10^27 in the code
          WadRayRatio,  \* rays in a wad: 10^9 in the code
          Year          \* SECONDS_PER_YEAR

ASSUME RayAssumption ==
    /\ Ray \in Nat \ {0} /\ Ray % 2 = 0
    /\ WadRayRatio \in Nat \ {0} /\ WadRayRatio % 2 = 0
    /\ Year \in Nat \ {0}

\* dividedBy of a BigNumberZeroDecimal, for d > 0: a client whose clock is behind
\* the chain's divides negative numbers of seconds.
Quotient(n, d) == IF n >= 0 THEN n \div d ELSE -((-n) \div d)

RayMul(a, b) == Quotient(Ray \div 2 + a * b, Ray)

RayDiv(a, b) == Quotient(b \div 2 + a * Ray, b)

RayToWad(a) == Quotient(WadRayRatio \div 2 + a, WadRayRatio)

WadToRay(a) == a * WadRayRatio

\* calculateCompoundedInterest, whose binomial approximation takes three terms.
CompoundedInterest(rate, seconds) ==
    LET base == rate \div Year
        squared == RayMul(base, base)
        pairs == seconds * (seconds - 1)
        beyond == IF seconds > 2 THEN seconds - 2 ELSE 0
    IN  Ray + seconds * base + Quotient(pairs * squared, 2)
            + Quotient(pairs * beyond * RayMul(squared, base), 6)

LinearInterest(rate, seconds) ==
    Ray + RayMul(rate, RayDiv(WadToRay(seconds), WadToRay(Year)))

\* A rate of 0 leaves the index as it is.
NormalizedIncome(index, rate, seconds) ==
    IF rate = 0 THEN index ELSE RayMul(LinearInterest(rate, seconds), index)

LinearBalance(balance, index, rate, seconds) ==
    RayToWad(RayMul(WadToRay(balance), NormalizedIncome(index, rate, seconds)))

CompoundedBalance(principal, index, rate, seconds) ==
    RayToWad(RayMul(WadToRay(principal), RayMul(CompoundedInterest(rate, seconds), index)))

CompoundedStableBalance(principal, rate, seconds) ==
    RayToWad(RayMul(WadToRay(principal), CompoundedInterest(rate, seconds)))
=============================================================================
