---------------------------- MODULE SumTheorems ----------------------------
(***************************************************************************)
(* Sums over finite sets, in the order in which SumFunctionOnSet adds.     *)
(*                                                                         *)
(* A fold is a recursive function over the subsets of a set.  That there   *)
(* is such a function, and what it computes, is proved here by induction   *)
(* over finite sets, in the form "there is no smallest counterexample",    *)
(* of which the library's well-foundedness of strict inclusion is the      *)
(* base.  The other lemmas then follow from the equation of SumAdds.       *)
(***************************************************************************)
EXTENDS Integers, FiniteSets, Functions, FiniteSetTheorems, WellFoundedInduction, TLAPS

\* A set of subsets of a finite set has a smallest one.
LEMMA SmallestSet ==
    ASSUME NEW S, IsFiniteSet(S), NEW B \in SUBSET SUBSET S, B # {}
    PROVE  \E T \in B : \A U \in B : U \subseteq T => U = T
<1>1. IsWellFoundedOn(StrictSubsetOrdering(S), SUBSET S)
  BY FS_StrictSubsetOrderingWellFounded, FS_FiniteSubsetsOfFinite
<1>2. PICK T \in B : \A U \in B : ~ (<<U, T>> \in StrictSubsetOrdering(S))
  BY <1>1, WFMin
<1> QED
  BY <1>2 DEF StrictSubsetOrdering

\* The element that a fold takes out of s.
First(s) == CHOOSE x \in s : TRUE

\* It is one of the elements.
LEMMA FirstIn == ASSUME NEW s, s # {} PROVE First(s) \in s
BY DEF First

\* A finite set is in G if the empty set is, and every set that is in G without
\* its first element.
LEMMA TakingOutFirst ==
    ASSUME NEW S, IsFiniteSet(S), NEW G, {} \in G,
           \A s \in SUBSET S : s # {} /\ s \ {First(s)} \in G => s \in G
    PROVE  S \in G
<1> DEFINE B == {s \in SUBSET S : s \notin G}
<1> SUFFICES ASSUME B # {} PROVE FALSE
  OBVIOUS
<1>0. B \in SUBSET SUBSET S
  OBVIOUS
<1>1. PICK s \in B : \A u \in B : u \subseteq s => u = s
  <2> HIDE DEF B
  <2> QED
    BY <1>0, SmallestSet
<1>2. s # {} /\ First(s) \in s
  BY FirstIn
<1>3. s \in SUBSET S /\ s \notin G
  OBVIOUS
<1>4. s \ {First(s)} \in G
  BY <1>1, <1>2, <1>3
<1> QED
  BY <1>2, <1>3, <1>4

-----------------------------------------------------------------------------
\* g is the function of subsets of S that adds the values of f.
Adds(g, f, S) ==
    g = [s \in SUBSET S |-> IF s = {} THEN 0 ELSE f[First(s)] + g[s \ {First(s)}]]

\* The sum is one of the values of such a function, by definition.
LEMMA SumIsFold ==
    ASSUME NEW f, NEW S
    PROVE  SumFunctionOnSet(f, S) = (CHOOSE g : Adds(g, f, S))[S]
BY DEF SumFunctionOnSet, FoldFunctionOnSet, MapThenFoldSet, Adds, First

\* The equation of such a function at one subset.
LEMMA AddsStep ==
    ASSUME NEW f, NEW S, NEW g, Adds(g, f, S), NEW s \in SUBSET S
    PROVE  g[s] = IF s = {} THEN 0 ELSE f[First(s)] + g[s \ {First(s)}]
<1> DEFINE e(x) == IF x = {} THEN 0 ELSE f[First(x)] + g[x \ {First(x)}]
<1>1. g = [x \in SUBSET S |-> e(x)]
  BY DEF Adds
<1> HIDE DEF e
<1>2. g[s] = e(s)
  BY <1>1
<1> QED
  BY <1>2 DEF e

\* Two such functions agree where both are defined.
LEMMA AddsUnique ==
    ASSUME NEW f, NEW S, NEW T, IsFiniteSet(S), NEW g, NEW h, Adds(g, f, S), Adds(h, f, T),
           S \subseteq T
    PROVE  g[S] = h[S]
<1> DEFINE G == {s \in SUBSET S : g[s] = h[s]}
<1>1. {} \in G
  BY AddsStep
<1>2. ASSUME NEW s \in SUBSET S, s # {}, s \ {First(s)} \in G PROVE s \in G
  <2>1. /\ g[s] = f[First(s)] + g[s \ {First(s)}]
        /\ h[s] = f[First(s)] + h[s \ {First(s)}]
    BY <1>2, AddsStep
  <2> QED
    BY <1>2, <2>1
<1>3. S \in G
  <2> HIDE DEF G
  <2> QED
    BY <1>1, <1>2, TakingOutFirst
<1> QED
  BY <1>3

\* There is such a function: the value of a subset is that of the function that
\* ends there.
LEMMA AddsExists ==
    ASSUME NEW f, NEW S, IsFiniteSet(S)
    PROVE  \E g : Adds(g, f, S)
<1> DEFINE B == {s \in SUBSET S : ~ \E g : Adds(g, f, s)}
<1> SUFFICES ASSUME B # {} PROVE FALSE
  OBVIOUS
<1>0. B \in SUBSET SUBSET S
  OBVIOUS
<1>1. PICK s \in B : \A u \in B : u \subseteq s => u = s
  <2> HIDE DEF B
  <2> QED
    BY <1>0, SmallestSet
<1> DEFINE run(u) == CHOOSE g : Adds(g, f, u)
<1>a. ASSUME NEW u \in SUBSET s, u # s PROVE Adds(run(u), f, u)
  BY <1>1, <1>a
<1>b. \A u \in SUBSET s : IsFiniteSet(u)
  BY FS_Subset
<1> DEFINE r == First(s)
           rest(u) == u \ {First(u)}
           g == [u \in SUBSET s |-> IF u = s /\ u # {} THEN f[r] + run(rest(s))[rest(s)]
                                    ELSE IF u = {} THEN 0 ELSE run(u)[u]]
<1>2. ASSUME NEW u \in SUBSET s
      PROVE  g[u] = IF u = {} THEN 0 ELSE f[First(u)] + g[rest(u)]
  <2>1. CASE u = {}
    BY <2>1
  <2> SUFFICES ASSUME u # {} PROVE g[u] = f[First(u)] + g[rest(u)]
    BY <2>1
  <2>2. First(u) \in u /\ rest(u) \in SUBSET u /\ rest(u) # u /\ rest(u) # s /\ rest(u) \in SUBSET s
    BY FirstIn
  <2>3. g[rest(u)] = run(rest(u))[rest(u)]
    <3>1. CASE rest(u) = {}
      <4>1. g[rest(u)] = 0
        BY <2>2, <3>1
      <4>2. Adds(run(rest(u)), f, rest(u))
        BY <1>a, <2>2
      <4> HIDE DEF run
      <4>3. run(rest(u))[rest(u)] = 0
        BY <4>2, <3>1, AddsStep
      <4> QED
        BY <4>1, <4>3
    <3>2. CASE rest(u) # {}
      <4> HIDE DEF run, rest
      <4> QED
        BY <2>2, <3>2
    <3> QED
      BY <3>1, <3>2
  <2>4. CASE u = s
    <3> HIDE DEF run, rest
    <3> QED
    BY <2>3, <2>4
  <2>5. CASE u # s
    <3>1. g[u] = run(u)[u]
      BY <2>5
    <3>2. Adds(run(u), f, u) /\ Adds(run(rest(u)), f, rest(u))
      BY <1>a, <2>2, <2>5
    <3> HIDE DEF run, g
    <3>3. run(u)[u] = f[First(u)] + run(u)[rest(u)]
      BY <3>2, AddsStep
    <3>4. run(rest(u))[rest(u)] = run(u)[rest(u)]
      BY <3>2, <2>2, <1>b, AddsUnique
    <3> QED
      BY <3>1, <3>3, <3>4, <2>3
  <2> QED
    BY <2>4, <2>5
<1>3. Adds(g, f, s)
  <2>1. g = [u \in SUBSET s |-> g[u]]
    OBVIOUS
  <2> HIDE DEF g
  <2> QED
    BY <1>2, <2>1 DEF Adds
<1> QED
  BY <1>1, <1>3

\* The empty sum is 0; any other is the first value and the sum of the rest.
LEMMA SumAdds ==
    ASSUME NEW f, NEW S, IsFiniteSet(S)
    PROVE  /\ S = {} => SumFunctionOnSet(f, S) = 0
           /\ S # {} => SumFunctionOnSet(f, S) =
                           f[First(S)] + SumFunctionOnSet(f, S \ {First(S)})
<1> DEFINE run(u) == CHOOSE g : Adds(g, f, u)
           rest == S \ {First(S)}
<1>1. IsFiniteSet(rest)
  BY FS_RemoveElement
<1>2. Adds(run(S), f, S) /\ Adds(run(rest), f, rest)
  BY <1>1, AddsExists
<1>3. SumFunctionOnSet(f, S) = run(S)[S] /\ SumFunctionOnSet(f, rest) = run(rest)[rest]
  BY SumIsFold
<1> HIDE DEF run
<1>4. run(rest)[rest] = run(S)[rest]
  BY <1>1, <1>2, AddsUnique
<1>5. CASE S = {}
  BY <1>2, <1>3, <1>5, AddsStep
<1>6. CASE S # {}
  <2>1. run(S)[S] = f[First(S)] + run(S)[rest]
    BY <1>2, <1>6, AddsStep
  <2> QED
    BY <2>1, <1>3, <1>4, <1>6
<1> QED
  BY <1>5, <1>6

-----------------------------------------------------------------------------
\* The empty sum.
LEMMA SumEmpty == \A f : SumFunctionOnSet(f, {}) = 0
<1>1. IsFiniteSet({})
  BY FS_EmptySet
<1> QED
  BY <1>1, SumAdds

\* The sum of integers is one.
LEMMA SumType ==
    ASSUME NEW f, NEW S, IsFiniteSet(S), \A x \in S : f[x] \in Int
    PROVE  SumFunctionOnSet(f, S) \in Int
<1> DEFINE G == {s \in SUBSET S : SumFunctionOnSet(f, s) \in Int}
<1>1. {} \in G
  BY SumEmpty, FS_EmptySet
<1>2. ASSUME NEW s \in SUBSET S, s # {}, s \ {First(s)} \in G PROVE s \in G
  <2>1. SumFunctionOnSet(f, s) = f[First(s)] + SumFunctionOnSet(f, s \ {First(s)})
    BY <1>2, FS_Subset, SumAdds
  <2>2. f[First(s)] \in Int
    BY <1>2, FirstIn
  <2> QED
    BY <1>2, <2>1, <2>2
<1>3. S \in G
  <2> HIDE DEF G
  <2> QED
    BY <1>1, <1>2, TakingOutFirst
<1> QED
  BY <1>3

\* Any element may be taken out first.
LEMMA SumTakeOut ==
    ASSUME NEW f, NEW S, IsFiniteSet(S), \A x \in S : f[x] \in Int
    PROVE  \A y \in S : SumFunctionOnSet(f, S) = f[y] + SumFunctionOnSet(f, S \ {y})
<1> DEFINE Right(s) == \A y \in s : SumFunctionOnSet(f, s) = f[y] + SumFunctionOnSet(f, s \ {y})
           B == {s \in SUBSET S : ~ Right(s)}
<1> SUFFICES ASSUME B # {} PROVE FALSE
  OBVIOUS
<1>0. B \in SUBSET SUBSET S
  OBVIOUS
<1>1. PICK s \in B : \A u \in B : u \subseteq s => u = s
  <2> HIDE DEF B
  <2> QED
    BY <1>0, SmallestSet
<1>2. s \in SUBSET S /\ ~ Right(s) /\ IsFiniteSet(s)
  BY FS_Subset
<1>3. PICK y \in s : SumFunctionOnSet(f, s) # f[y] + SumFunctionOnSet(f, s \ {y})
  BY <1>2
<1>4. PICK x \in s : SumFunctionOnSet(f, s) = f[x] + SumFunctionOnSet(f, s \ {x})
  BY <1>2, <1>3, FirstIn, SumAdds
<1>5. x # y
  BY <1>3, <1>4
<1>6. Right(s \ {x}) /\ Right(s \ {y})
  BY <1>1, <1>2, <1>3, <1>4
<1> DEFINE r == s \ {x, y}
<1>7. (s \ {x}) \ {y} = r /\ (s \ {y}) \ {x} = r
  OBVIOUS
<1>8. SumFunctionOnSet(f, s \ {x}) = f[y] + SumFunctionOnSet(f, r)
  BY <1>5, <1>6, <1>7
<1>9. SumFunctionOnSet(f, s \ {y}) = f[x] + SumFunctionOnSet(f, r)
  BY <1>5, <1>6, <1>7
<1>10. SumFunctionOnSet(f, r) \in Int
  <2>1. IsFiniteSet(r) /\ \A z \in r : f[z] \in Int
    BY <1>2, FS_Subset
  <2> QED
    BY <2>1, SumType
<1>11. f[x] \in Int /\ f[y] \in Int
  BY <1>2
<1>12. f[y] + (f[x] + SumFunctionOnSet(f, r)) = f[x] + (f[y] + SumFunctionOnSet(f, r))
  <2> HIDE DEF r
  <2> QED
    BY <1>10, <1>11
<1> QED
  BY <1>3, <1>4, <1>8, <1>9, <1>12

\* A sum grows with its terms, and with more terms that are not negative.
LEMMA SumGrows ==
    ASSUME NEW S, IsFiniteSet(S), NEW T \in SUBSET S, NEW f, NEW g,
           \A x \in T : f[x] \in Int /\ f[x] <= g[x],
           \A x \in S : g[x] \in Int,
           \A x \in S \ T : 0 <= g[x]
    PROVE  SumFunctionOnSet(f, T) <= SumFunctionOnSet(g, S)
<1> DEFINE G == {s \in SUBSET S : SumFunctionOnSet(f, T \cap s) <= SumFunctionOnSet(g, s)}
<1>1. {} \in G
  <2>1. T \cap {} = {}
    OBVIOUS
  <2>2. SumFunctionOnSet(f, {}) = 0 /\ SumFunctionOnSet(g, {}) = 0
    BY SumEmpty, FS_EmptySet
  <2> QED
    BY <2>1, <2>2
<1>2. ASSUME NEW s \in SUBSET S, s # {}, s \ {First(s)} \in G PROVE s \in G
  <2> DEFINE r == s \ {First(s)}
  <2>1. PICK x \in s : x = First(s)
    BY <1>2, FirstIn
  <2>2. SumFunctionOnSet(f, T \cap r) <= SumFunctionOnSet(g, r)
    BY <1>2
  <2>3. IsFiniteSet(s) /\ IsFiniteSet(r) /\ IsFiniteSet(T \cap s) /\ IsFiniteSet(T \cap r)
    BY FS_Subset
  <2>4. SumFunctionOnSet(g, s) = g[x] + SumFunctionOnSet(g, r) /\ g[x] \in Int
    BY <1>2, <2>1, <2>3, SumAdds
  <2>5. SumFunctionOnSet(g, r) \in Int /\ SumFunctionOnSet(f, T \cap r) \in Int
    <3>1. (\A z \in r : g[z] \in Int) /\ \A z \in T \cap r : f[z] \in Int
      OBVIOUS
    <3> HIDE DEF r
    <3> QED
      BY <2>3, <3>1, SumType
  <2>6. SumFunctionOnSet(f, T \cap s) <= SumFunctionOnSet(g, s)
    <3>1. CASE x \in T
      <4>1. (T \cap s) \ {x} = T \cap r
        BY <2>1
      <4>2. x \in T \cap s /\ \A z \in T \cap s : f[z] \in Int
        BY <3>1
      <4>3. SumFunctionOnSet(f, T \cap s) = f[x] + SumFunctionOnSet(f, (T \cap s) \ {x})
        BY <4>2, <2>3, SumTakeOut
      <4>4. SumFunctionOnSet(f, T \cap s) = f[x] + SumFunctionOnSet(f, T \cap r)
        BY <4>1, <4>3
      <4>5. f[x] \in Int /\ f[x] <= g[x]
        BY <3>1
      <4> HIDE DEF r
      <4> QED
        BY <2>2, <2>4, <2>5, <4>4, <4>5
    <3>2. CASE x \notin T
      <4>1. T \cap s = T \cap r
        BY <3>2, <2>1
      <4>2. 0 <= g[x]
        BY <3>2
      <4>3. SumFunctionOnSet(f, T \cap s) = SumFunctionOnSet(f, T \cap r)
        BY <4>1
      <4> HIDE DEF r
      <4> QED
        BY <2>2, <2>4, <2>5, <4>2, <4>3
    <3> QED
      BY <3>1, <3>2
  <2> QED
    BY <2>6
<1>3. S \in G
  <2> HIDE DEF G
  <2> QED
    BY <1>1, <1>2, TakingOutFirst
<1>4. T \cap S = T
  OBVIOUS
<1> QED
  BY <1>3, <1>4

\* Sums of the same terms may be added term by term.
LEMMA SumPlus ==
    ASSUME NEW S, IsFiniteSet(S), NEW f, NEW g, NEW h,
           \A x \in S : f[x] \in Int /\ g[x] \in Int /\ h[x] = f[x] + g[x]
    PROVE  SumFunctionOnSet(h, S) = SumFunctionOnSet(f, S) + SumFunctionOnSet(g, S)
<1> DEFINE G == {s \in SUBSET S : SumFunctionOnSet(h, s) =
                                      SumFunctionOnSet(f, s) + SumFunctionOnSet(g, s)}
<1>1. {} \in G
  BY SumEmpty, FS_EmptySet
<1>2. ASSUME NEW s \in SUBSET S, s # {}, s \ {First(s)} \in G PROVE s \in G
  <2> DEFINE r == s \ {First(s)}
  <2>1. PICK x \in s : x = First(s)
    BY <1>2, FirstIn
  <2>2. IsFiniteSet(s) /\ IsFiniteSet(r)
    BY FS_Subset
  <2>3. /\ SumFunctionOnSet(f, s) = f[x] + SumFunctionOnSet(f, r)
        /\ SumFunctionOnSet(g, s) = g[x] + SumFunctionOnSet(g, r)
        /\ SumFunctionOnSet(h, s) = h[x] + SumFunctionOnSet(h, r)
    BY <1>2, <2>1, <2>2, SumAdds
  <2>4. SumFunctionOnSet(f, r) \in Int /\ SumFunctionOnSet(g, r) \in Int
    <3>1. \A z \in r : f[z] \in Int /\ g[z] \in Int
      OBVIOUS
    <3> HIDE DEF r
    <3> QED
      BY <2>2, <3>1, SumType
  <2>5. SumFunctionOnSet(h, r) = SumFunctionOnSet(f, r) + SumFunctionOnSet(g, r)
    BY <1>2
  <2>6. f[x] \in Int /\ g[x] \in Int /\ h[x] = f[x] + g[x]
    OBVIOUS
  <2>7. SumFunctionOnSet(h, s) = SumFunctionOnSet(f, s) + SumFunctionOnSet(g, s)
    <3> HIDE DEF r
    <3> QED
      BY <2>3, <2>4, <2>5, <2>6
  <2> QED
    BY <2>7
<1>3. S \in G
  <2> HIDE DEF G
  <2> QED
    BY <1>1, <1>2, TakingOutFirst
<1> QED
  BY <1>3

\* A factor of all terms is one of their sum.
LEMMA SumTimes ==
    ASSUME NEW S, IsFiniteSet(S), NEW f, NEW k \in Int, NEW h,
           \A x \in S : f[x] \in Int /\ h[x] = k * f[x]
    PROVE  SumFunctionOnSet(h, S) = k * SumFunctionOnSet(f, S)
<1> DEFINE G == {s \in SUBSET S : SumFunctionOnSet(h, s) = k * SumFunctionOnSet(f, s)}
<1>1. {} \in G
  BY SumEmpty, FS_EmptySet
<1>2. ASSUME NEW s \in SUBSET S, s # {}, s \ {First(s)} \in G PROVE s \in G
  <2> DEFINE r == s \ {First(s)}
  <2>1. PICK x \in s : x = First(s)
    BY <1>2, FirstIn
  <2>2. IsFiniteSet(s) /\ IsFiniteSet(r)
    BY FS_Subset
  <2>3. /\ SumFunctionOnSet(f, s) = f[x] + SumFunctionOnSet(f, r)
        /\ SumFunctionOnSet(h, s) = h[x] + SumFunctionOnSet(h, r)
    BY <1>2, <2>1, <2>2, SumAdds
  <2>4. SumFunctionOnSet(f, r) \in Int
    <3>1. \A z \in r : f[z] \in Int
      OBVIOUS
    <3> HIDE DEF r
    <3> QED
      BY <2>2, <3>1, SumType
  <2>5. SumFunctionOnSet(h, r) = k * SumFunctionOnSet(f, r)
    BY <1>2
  <2>6. f[x] \in Int /\ h[x] = k * f[x]
    OBVIOUS
  <2>7. SumFunctionOnSet(h, s) = k * SumFunctionOnSet(f, s)
    <3> HIDE DEF r
    <3> QED
      BY <2>3, <2>4, <2>5, <2>6
  <2> QED
    BY <2>7
<1>3. S \in G
  <2> HIDE DEF G
  <2> QED
    BY <1>1, <1>2, TakingOutFirst
<1> QED
  BY <1>3

\* As many terms of the same value.
LEMMA SumConstant ==
    ASSUME NEW S, IsFiniteSet(S), NEW k \in Int, NEW h, \A x \in S : h[x] = k
    PROVE  SumFunctionOnSet(h, S) = k * Cardinality(S)
<1> DEFINE G == {s \in SUBSET S : SumFunctionOnSet(h, s) = k * Cardinality(s)}
<1>1. {} \in G
  BY SumEmpty, FS_EmptySet
<1>2. ASSUME NEW s \in SUBSET S, s # {}, s \ {First(s)} \in G PROVE s \in G
  <2> DEFINE r == s \ {First(s)}
  <2>1. PICK x \in s : x = First(s)
    BY <1>2, FirstIn
  <2>2. IsFiniteSet(s) /\ IsFiniteSet(r)
    BY FS_Subset
  <2>3. SumFunctionOnSet(h, s) = k + SumFunctionOnSet(h, r)
    BY <1>2, <2>1, <2>2, SumAdds
  <2>4. Cardinality(r) = Cardinality(s) - 1 /\ Cardinality(s) \in Nat
    BY <2>1, <2>2, FS_RemoveElement, FS_CardinalityType
  <2>5. SumFunctionOnSet(h, r) = k * Cardinality(r)
    BY <1>2
  <2>6. k + k * (Cardinality(s) - 1) = k * Cardinality(s)
    BY <2>4
  <2> QED
    BY <2>3, <2>4, <2>5, <2>6
<1>3. S \in G
  <2> HIDE DEF G
  <2> QED
    BY <1>1, <1>2, TakingOutFirst
<1> QED
  BY <1>3

\* A sum becomes smaller with terms that are not positive.
LEMMA SumShrinks ==
    ASSUME NEW S, IsFiniteSet(S), NEW T \in SUBSET S, NEW f, NEW g,
           \A x \in T : f[x] \in Int /\ g[x] <= f[x],
           \A x \in S : g[x] \in Int,
           \A x \in S \ T : g[x] <= 0
    PROVE  SumFunctionOnSet(g, S) <= SumFunctionOnSet(f, T)
<1>0. PICK k \in Int : k = -1
  OBVIOUS
<1> DEFINE nf == [x \in T |-> k * f[x]]
           ng == [x \in S |-> k * g[x]]
<1>1. IsFiniteSet(T)
  BY FS_Subset
<1>2. SumFunctionOnSet(nf, T) <= SumFunctionOnSet(ng, S)
  <2>1. /\ \A x \in T : nf[x] \in Int /\ nf[x] <= ng[x]
        /\ \A x \in S : ng[x] \in Int
        /\ \A x \in S \ T : 0 <= ng[x]
    BY <1>0
  <2> HIDE DEF nf, ng
  <2> QED
    BY <2>1, SumGrows
<1>3. /\ SumFunctionOnSet(nf, T) = k * SumFunctionOnSet(f, T)
      /\ SumFunctionOnSet(ng, S) = k * SumFunctionOnSet(g, S)
  <2>1. /\ \A x \in T : f[x] \in Int /\ nf[x] = k * f[x]
        /\ \A x \in S : g[x] \in Int /\ ng[x] = k * g[x]
    OBVIOUS
  <2> HIDE DEF nf, ng
  <2> QED
    BY <1>1, <2>1, SumTimes
<1>4. SumFunctionOnSet(f, T) \in Int /\ SumFunctionOnSet(g, S) \in Int
  BY <1>1, SumType
<1> QED
  BY <1>0, <1>2, <1>3, <1>4

\* The sum of natural numbers is one.
LEMMA SumTypeNat ==
    ASSUME NEW f, NEW S, IsFiniteSet(S), \A x \in S : f[x] \in Nat
    PROVE  SumFunctionOnSet(f, S) \in Nat
<1>1. SumFunctionOnSet(f, {}) <= SumFunctionOnSet(f, S)
  BY SumGrows
<1>2. SumFunctionOnSet(f, {}) = 0
  BY SumEmpty, FS_EmptySet
<1>3. SumFunctionOnSet(f, S) \in Int
  BY SumType
<1> QED
  BY <1>1, <1>2, <1>3
=============================================================================
