------------------------ MODULE TranchingLogicProofs ------------------------
(***************************************************************************)
(* The arithmetic of the waterfall, for all amounts: what its divisions    *)
(* lose, they lose on the depositors' side, and a slice's money goes to    *)
(* its tranches and the reserve, and nowhere else.  First the facts about  *)
(* sums over finite sets and sequences that every proof about ledgers uses.*)
(***************************************************************************)
EXTENDS TranchingLogic, Sequences, FiniteSetTheorems, TLAPS

-----------------------------------------------------------------------------
(* Sums (SumFunctionOnSet of the community module Functions).              *)

\* Induction over the subsets of a finite set: Good holds them all when a subset is
\* in it as soon as all that are smaller are.
LEMMA SubsetInduction ==
    ASSUME NEW S, IsFiniteSet(S), NEW Good,
           \A T \in SUBSET S : (\A U \in SUBSET T : U # T => U \in Good) => T \in Good
    PROVE  \A T \in SUBSET S : T \in Good
<1> DEFINE Bad == (SUBSET S) \ Good
<1> SUFFICES ASSUME Bad # {} PROVE FALSE
  OBVIOUS
<1>1. IsWellFoundedOn(StrictSubsetOrdering(S), FiniteSubsetsOf(S))
  BY FS_StrictSubsetOrderingWellFounded
<1>2. Bad \subseteq FiniteSubsetsOf(S)
  BY FS_FiniteSubsetsOfFinite
<1> HIDE DEF Bad
<1>3. PICK T \in Bad : \A U \in Bad : ~ (<<U, T>> \in StrictSubsetOrdering(S))
  BY <1>1, <1>2, WFMin
<1> USE DEF Bad
<1>4. ASSUME NEW U \in SUBSET T, U # T PROVE U \in Good
  BY <1>3, <1>4 DEF StrictSubsetOrdering
<1> QED
  BY <1>3, <1>4

\* Induction over the natural numbers.
LEMMA NaturalsFromZero ==
    ASSUME NEW E \in SUBSET Nat, 0 \in E, \A n \in E : n + 1 \in E
    PROVE  E = Nat
<1> SUFFICES ASSUME Nat \ E # {} PROVE FALSE
  OBVIOUS
<1>1. PICK m \in Nat \ E : \A k \in Nat \ E : ~ (<<k, m>> \in OpToRel(<, Nat))
  BY NatLessThanWellFounded, WFMin
<1>2. m # 0 /\ m - 1 \in Nat /\ m - 1 < m
  OBVIOUS
<1>3. m - 1 \in E
  BY <1>1, <1>2 DEF OpToRel
<1> QED
  BY <1>2, <1>3

\* The element that a sum takes out first.
First(s) == CHOOSE x \in s : TRUE

\* The equation that the sums of f over the subsets of S solve.
Sums(f, S, g) ==
    g = [s \in SUBSET S |-> IF s = {} THEN 0 ELSE f[First(s)] + g[s \ {First(s)}]]

LEMMA SumsExist ==
    ASSUME NEW f, NEW S, IsFiniteSet(S)
    PROVE  \E g : Sums(f, S, g)
<1> DEFINE
      step(g, s) == IF s = {} THEN 0 ELSE f[First(s)] + g[s \ {First(s)}]
      Upto(n) == {s \in SUBSET S : Cardinality(s) <= n}
      E == {n \in Nat : \E g : \A s \in Upto(n) : g[s] = step(g, s)}
<1>0. ASSUME NEW s \in SUBSET S
      PROVE  /\ IsFiniteSet(s) /\ Cardinality(s) \in Nat
             /\ s # {} => /\ First(s) \in s
                          /\ s \ {First(s)} \in SUBSET S
                          /\ Cardinality(s \ {First(s)}) = Cardinality(s) - 1
             /\ s = {} <=> Cardinality(s) = 0
  <2>1. IsFiniteSet(s)
    BY FS_Subset
  <2>2. s # {} => First(s) \in s
    BY DEF First
  <2> QED
    BY <2>1, <2>2, FS_CardinalityType, FS_EmptySet, FS_RemoveElement
<1>1. 0 \in E
  <2> DEFINE g == [s \in SUBSET S |-> 0]
  <2>1. ASSUME NEW s \in Upto(0) PROVE g[s] = step(g, s)
    <3>1. s \in SUBSET S /\ Cardinality(s) <= 0
      OBVIOUS
    <3>2. Cardinality(s) \in Nat /\ (Cardinality(s) = 0 => s = {})
      BY <1>0, <3>1
    <3>3. s = {}
      BY <3>1, <3>2
    <3> QED
      BY <3>3
  <2> HIDE DEF g
  <2> QED
    BY <2>1
<1>2. ASSUME NEW n \in E PROVE n + 1 \in E
  <2>1. n \in Nat /\ n + 1 \in Nat
    OBVIOUS
  <2>2. PICK g : \A s \in Upto(n) : g[s] = step(g, s)
    OBVIOUS
  <2> DEFINE h == [s \in SUBSET S |-> step(g, s)]
  <2>3. ASSUME NEW s \in Upto(n) PROVE h[s] = g[s]
    BY <2>2, <2>3
  <2>4. ASSUME NEW s \in Upto(n + 1) PROVE h[s] = step(h, s)
    <3>1. CASE s = {}
      BY <3>1
    <3>2. CASE s # {}
      <4>1. s \ {First(s)} \in Upto(n)
        BY <1>0, <2>1, <3>2
      <4>2. h[s \ {First(s)}] = g[s \ {First(s)}]
        BY <2>3, <4>1
      <4> QED
        BY <3>2, <4>2
    <3> QED
      BY <3>1, <3>2
  <2> HIDE DEF h
  <2> QED
    BY <2>1, <2>4
<1> HIDE DEF E
<1>3. E = Nat
  <2>1. E \subseteq Nat
    BY DEF E
  <2> QED
    BY <1>1, <1>2, <2>1, NaturalsFromZero
<1>4. Cardinality(S) \in E
  BY <1>3, FS_CardinalityType
<1>5. PICK g : \A s \in Upto(Cardinality(S)) : g[s] = step(g, s)
  BY <1>4 DEF E
<1>6. Upto(Cardinality(S)) = SUBSET S
  BY FS_Subset
<1> DEFINE h == [s \in SUBSET S |-> g[s]]
<1>7. ASSUME NEW s \in SUBSET S PROVE h[s] = step(h, s)
  BY <1>0, <1>5, <1>6
<1>8. Sums(f, S, h)
  BY <1>7 DEF Sums
<1> QED
  BY <1>8

\* The sums over the subsets of a finite set, as the definition computes them.
SumsOf(f, S) == CHOOSE g : Sums(f, S, g)

LEMMA SumsEquation ==
    ASSUME NEW f, NEW S, IsFiniteSet(S), NEW T \in SUBSET S
    PROVE  SumsOf(f, S)[T] = IF T = {} THEN 0
                             ELSE f[First(T)] + SumsOf(f, S)[T \ {First(T)}]
<1>1. Sums(f, S, SumsOf(f, S))
  BY SumsExist DEF SumsOf
<1> QED
  BY <1>1 DEF Sums

LEMMA SumUnfolds ==
    ASSUME NEW f, NEW S
    PROVE  SumFunctionOnSet(f, S) = SumsOf(f, S)[S]
BY DEF SumFunctionOnSet, FoldFunctionOnSet, MapThenFoldSet, SumsOf, Sums, First

\* The sum over a subset does not depend on the set that it is a subset of.
LEMMA SumsAgree ==
    ASSUME NEW f, NEW S, IsFiniteSet(S), NEW T \in SUBSET S
    PROVE  SumsOf(f, S)[T] = SumFunctionOnSet(f, T)
<1> DEFINE Good == {U \in SUBSET T : SumsOf(f, S)[U] = SumsOf(f, T)[U]}
<1>1. IsFiniteSet(T)
  BY FS_Subset
<1>2. ASSUME NEW U \in SUBSET T, \A V \in SUBSET U : V # U => V \in Good
      PROVE  U \in Good
  <2>1. CASE U = {}
    BY <1>1, <2>1, SumsEquation
  <2>2. CASE U # {}
    <3> DEFINE V == U \ {First(U)}
    <3>1. V \in SUBSET U /\ V # U /\ U \in SUBSET S
      BY <2>2 DEF First
    <3>2. SumsOf(f, S)[V] = SumsOf(f, T)[V]
      BY <1>2, <3>1
    <3>3. SumsOf(f, S)[U] = SumsOf(f, T)[U]
      BY <1>1, <2>2, <3>1, <3>2, SumsEquation
    <3> QED
      BY <3>3
  <2> QED
    BY <2>1, <2>2
<1> HIDE DEF Good
<1>3. T \in Good
  BY <1>1, <1>2, SubsetInduction
<1>4. SumsOf(f, S)[T] = SumsOf(f, T)[T]
  BY <1>3 DEF Good
<1> QED
  BY <1>4, SumUnfolds

\* Nothing sums up to zero.
LEMMA SumOfNone ==
    ASSUME NEW f PROVE SumFunctionOnSet(f, {}) = 0
BY SumUnfolds, SumsEquation, FS_EmptySet

\* A sum is what the definition takes out first and the sum of the rest.
LEMMA SumFirst ==
    ASSUME NEW f, NEW S, IsFiniteSet(S), S # {}
    PROVE  SumFunctionOnSet(f, S) = f[First(S)] + SumFunctionOnSet(f, S \ {First(S)})
<1>1. SumFunctionOnSet(f, S) = f[First(S)] + SumsOf(f, S)[S \ {First(S)}]
  BY SumUnfolds, SumsEquation
<1> QED
  BY <1>1, SumsAgree

\* A sum of integers is an integer.
LEMMA SumType ==
    ASSUME NEW f, NEW S, IsFiniteSet(S), \A x \in S : f[x] \in Int
    PROVE  SumFunctionOnSet(f, S) \in Int
<1> DEFINE Good == {T \in SUBSET S : SumFunctionOnSet(f, T) \in Int}
<1>1. ASSUME NEW T \in SUBSET S, \A U \in SUBSET T : U # T => U \in Good
      PROVE  T \in Good
  <2>1. CASE T = {}
    BY <2>1, SumOfNone
  <2>2. CASE T # {}
    <3> DEFINE rest == T \ {First(T)}
    <3>1. /\ First(T) \in T /\ f[First(T)] \in Int
          /\ rest \in SUBSET T /\ rest # T
      BY <2>2 DEF First
    <3>2. SumFunctionOnSet(f, rest) \in Int
      BY <1>1, <3>1
    <3>3. IsFiniteSet(T)
      BY FS_Subset
    <3>4. SumFunctionOnSet(f, T) = f[First(T)] + SumFunctionOnSet(f, rest)
      BY <2>2, <3>3, SumFirst
    <3> QED
      BY <3>1, <3>2, <3>4
  <2> QED
    BY <2>1, <2>2
<1> HIDE DEF Good
<1>2. S \in Good
  BY <1>1, SubsetInduction
<1> QED
  BY <1>2 DEF Good

\* The order in which a sum is taken does not matter: any element may go first.
LEMMA SumRemove ==
    ASSUME NEW f, NEW S, IsFiniteSet(S), \A x \in S : f[x] \in Int, NEW x \in S
    PROVE  SumFunctionOnSet(f, S) = f[x] + SumFunctionOnSet(f, S \ {x})
<1> DEFINE Sum(T) == SumFunctionOnSet(f, T)
           Good == {T \in SUBSET S : \A y \in T : Sum(T) = f[y] + Sum(T \ {y})}
<1>1. ASSUME NEW T \in SUBSET S PROVE Sum(T) \in Int /\ IsFiniteSet(T)
  <2>1. IsFiniteSet(T)
    BY FS_Subset
  <2> QED
    BY <2>1, SumType
<1>2. ASSUME NEW T \in SUBSET S, \A U \in SUBSET T : U # T => U \in Good,
             NEW y \in T
      PROVE  Sum(T) = f[y] + Sum(T \ {y})
  <2> DEFINE c == First(T)
             both == (T \ {c}) \ {y}
  <2>1. c \in T
    BY DEF First
  <2>2. Sum(T) = f[c] + Sum(T \ {c})
    BY <1>1, SumFirst
  <2> HIDE DEF c
  <2>3. CASE c = y
    BY <2>2, <2>3
  <2>4. CASE c # y
    <3>1. T \ {c} \in Good /\ y \in T \ {c}
      BY <1>2, <2>1, <2>4
    <3>2. T \ {y} \in Good /\ c \in T \ {y}
      BY <1>2, <2>1, <2>4
    <3>3. Sum(T \ {c}) = f[y] + Sum(both)
      BY <3>1
    <3>4. Sum(T \ {y}) = f[c] + Sum((T \ {y}) \ {c})
      BY <3>2
    <3>5. (T \ {y}) \ {c} = both
      OBVIOUS
    <3>6. f[c] \in Int /\ f[y] \in Int /\ Sum(both) \in Int
      BY <1>1, <2>1
    <3> HIDE DEF Sum, both
    <3>7. f[c] + (f[y] + Sum(both)) = f[y] + (f[c] + Sum(both))
      BY <3>6
    <3> QED
      BY <2>2, <3>3, <3>4, <3>5, <3>7
  <2> QED
    BY <2>3, <2>4
<1>3. ASSUME NEW T \in SUBSET S, \A U \in SUBSET T : U # T => U \in Good
      PROVE  T \in Good
  BY <1>2, <1>3
<1> HIDE DEF Good
<1>4. S \in Good
  BY <1>3, SubsetInduction
<1> QED
  BY <1>4 DEF Good

\* A function that is nowhere greater has no greater sum.
LEMMA SumMonotone ==
    ASSUME NEW f, NEW h, NEW S, IsFiniteSet(S),
           \A x \in S : f[x] \in Int /\ h[x] \in Int /\ f[x] <= h[x]
    PROVE  SumFunctionOnSet(f, S) <= SumFunctionOnSet(h, S)
<1> DEFINE Sum(g, T) == SumFunctionOnSet(g, T)
           Good == {T \in SUBSET S : Sum(f, T) <= Sum(h, T)}
<1>1. ASSUME NEW T \in SUBSET S
      PROVE  IsFiniteSet(T) /\ Sum(f, T) \in Int /\ Sum(h, T) \in Int
  <2>1. IsFiniteSet(T)
    BY FS_Subset
  <2> QED
    BY <2>1, SumType
<1>2. ASSUME NEW T \in SUBSET S, \A U \in SUBSET T : U # T => U \in Good
      PROVE  T \in Good
  <2>1. CASE T = {}
    BY <2>1, SumOfNone
  <2>2. CASE T # {}
    <3>1. PICK x \in T : TRUE
      BY <2>2
    <3> DEFINE rest == T \ {x}
    <3>2. Sum(f, T) = f[x] + Sum(f, rest) /\ Sum(h, T) = h[x] + Sum(h, rest)
      BY <1>1, SumRemove
    <3>3. rest \in Good /\ rest \in SUBSET S
      BY <1>2
    <3>4. Sum(f, rest) <= Sum(h, rest)
      BY <3>3
    <3>5. Sum(f, rest) \in Int /\ Sum(h, rest) \in Int
      BY <1>1, <3>3
    <3>6. f[x] \in Int /\ h[x] \in Int /\ f[x] <= h[x]
      OBVIOUS
    <3> HIDE DEF Sum
    <3>7. Sum(f, T) <= Sum(h, T)
      BY <3>2, <3>4, <3>5, <3>6
    <3> QED
      BY <3>7
  <2> QED
    BY <2>1, <2>2
<1> HIDE DEF Good
<1>3. S \in Good
  BY <1>2, SubsetInduction
<1> QED
  BY <1>3 DEF Good

\* Sums are linear.
LEMMA SumLinear ==
    ASSUME NEW f, NEW h, NEW k, NEW c \in Int, NEW S, IsFiniteSet(S),
           \A x \in S : f[x] \in Int /\ h[x] \in Int /\ k[x] = c * f[x] + h[x]
    PROVE  SumFunctionOnSet(k, S) = c * SumFunctionOnSet(f, S) + SumFunctionOnSet(h, S)
<1> DEFINE Sum(g, T) == SumFunctionOnSet(g, T)
           Good == {T \in SUBSET S : Sum(k, T) = c * Sum(f, T) + Sum(h, T)}
<1>1. \A x \in S : k[x] \in Int
  OBVIOUS
<1>2. ASSUME NEW T \in SUBSET S
      PROVE  IsFiniteSet(T) /\ Sum(f, T) \in Int /\ Sum(h, T) \in Int
  <2>1. IsFiniteSet(T)
    BY FS_Subset
  <2> QED
    BY <2>1, SumType
<1>3. ASSUME NEW T \in SUBSET S, \A U \in SUBSET T : U # T => U \in Good
      PROVE  T \in Good
  <2>1. CASE T = {}
    <3>1. Sum(f, T) = 0 /\ Sum(h, T) = 0 /\ Sum(k, T) = 0
      BY <2>1, SumOfNone
    <3>2. 0 = c * 0 + 0
      OBVIOUS
    <3> HIDE DEF Sum
    <3> QED
      BY <3>1, <3>2
  <2>2. CASE T # {}
    <3>1. PICK x \in T : TRUE
      BY <2>2
    <3> DEFINE rest == T \ {x}
    <3>2. /\ Sum(f, T) = f[x] + Sum(f, rest) /\ Sum(h, T) = h[x] + Sum(h, rest)
          /\ Sum(k, T) = k[x] + Sum(k, rest)
      BY <1>1, <1>2, SumRemove
    <3>3. rest \in Good /\ rest \in SUBSET S
      BY <1>3
    <3>4. Sum(k, rest) = c * Sum(f, rest) + Sum(h, rest)
      BY <3>3
    <3>5. Sum(f, rest) \in Int /\ Sum(h, rest) \in Int
      BY <1>2, <3>3
    <3>6. f[x] \in Int /\ h[x] \in Int /\ k[x] = c * f[x] + h[x]
      OBVIOUS
    <3> HIDE DEF Sum, rest
    <3>7. c * (f[x] + Sum(f, rest)) = c * f[x] + c * Sum(f, rest)
      BY <3>5, <3>6
    <3>8. c * f[x] \in Int /\ c * Sum(f, rest) \in Int
      BY <3>5, <3>6
    <3>9. Sum(k, T) = c * Sum(f, T) + Sum(h, T)
      BY <3>2, <3>4, <3>5, <3>6, <3>7, <3>8
    <3> QED
      BY <3>9
  <2> QED
    BY <2>1, <2>2
<1> HIDE DEF Good
<1>4. S \in Good
  BY <1>3, SubsetInduction
<1> QED
  BY <1>4 DEF Good

\* Functions that agree on a set have the same sum over it.
LEMMA SumSame ==
    ASSUME NEW f, NEW h, NEW S, IsFiniteSet(S),
           \A x \in S : f[x] \in Int /\ h[x] = f[x]
    PROVE  SumFunctionOnSet(h, S) = SumFunctionOnSet(f, S)
<1>1. SumFunctionOnSet(f, S) \in Int /\ SumFunctionOnSet(h, S) \in Int
  BY SumType
<1>2. /\ SumFunctionOnSet(h, S) <= SumFunctionOnSet(f, S)
      /\ SumFunctionOnSet(f, S) <= SumFunctionOnSet(h, S)
  BY SumMonotone
<1> QED
  BY <1>1, <1>2

\* The sum of two functions is the sum of their sums.
LEMMA SumPlus ==
    ASSUME NEW f, NEW h, NEW k, NEW S, IsFiniteSet(S),
           \A x \in S : f[x] \in Int /\ h[x] \in Int /\ k[x] = f[x] + h[x]
    PROVE  SumFunctionOnSet(k, S) = SumFunctionOnSet(f, S) + SumFunctionOnSet(h, S)
<1>1. \A x \in S : k[x] = 1 * f[x] + h[x]
  OBVIOUS
<1>2. SumFunctionOnSet(k, S) = 1 * SumFunctionOnSet(f, S) + SumFunctionOnSet(h, S)
  BY <1>1, SumLinear
<1>3. SumFunctionOnSet(f, S) \in Int
  BY SumType
<1> QED
  BY <1>2, <1>3

\* Summing commutes with a factor.
LEMMA SumScaled ==
    ASSUME NEW f, NEW k, NEW c \in Int, NEW S, IsFiniteSet(S),
           \A x \in S : f[x] \in Int /\ k[x] = c * f[x]
    PROVE  SumFunctionOnSet(k, S) = c * SumFunctionOnSet(f, S)
<1> DEFINE zero == [x \in S |-> 0]
<1>1. \A x \in S : zero[x] \in Int /\ zero[x] = zero[x] + zero[x]
  OBVIOUS
<1>2. \A x \in S : f[x] \in Int /\ zero[x] \in Int /\ k[x] = c * f[x] + zero[x]
  OBVIOUS
<1> HIDE DEF zero
<1>3. SumFunctionOnSet(zero, S) \in Int /\ SumFunctionOnSet(f, S) \in Int
  BY <1>1, SumType
<1>4. SumFunctionOnSet(zero, S) = SumFunctionOnSet(zero, S) + SumFunctionOnSet(zero, S)
  BY <1>1, SumPlus
<1>5. SumFunctionOnSet(k, S) = c * SumFunctionOnSet(f, S) + SumFunctionOnSet(zero, S)
  BY <1>2, SumLinear
<1> QED BY <1>3, <1>4, <1>5

\* When one value changes, the sum changes by as much.
LEMMA SumUpdate ==
    ASSUME NEW f, NEW h, NEW S, IsFiniteSet(S), NEW x \in S,
           \A y \in S : f[y] \in Int /\ h[y] \in Int,
           \A y \in S \ {x} : h[y] = f[y]
    PROVE  SumFunctionOnSet(h, S) = SumFunctionOnSet(f, S) - f[x] + h[x]
<1> DEFINE rest == S \ {x}
<1>1. /\ SumFunctionOnSet(f, S) = f[x] + SumFunctionOnSet(f, rest)
      /\ SumFunctionOnSet(h, S) = h[x] + SumFunctionOnSet(h, rest)
  BY SumRemove
<1>2. IsFiniteSet(rest)
  BY FS_RemoveElement
<1>3. SumFunctionOnSet(h, rest) = SumFunctionOnSet(f, rest)
  BY <1>2, SumSame
<1>4. SumFunctionOnSet(f, rest) \in Int /\ f[x] \in Int /\ h[x] \in Int
  BY <1>2, SumType
<1> QED
  BY <1>1, <1>3, <1>4

\* A new element adds its value.
LEMMA SumAdd ==
    ASSUME NEW f, NEW h, NEW S, IsFiniteSet(S), NEW x, x \notin S, h[x] \in Int,
           \A y \in S : f[y] \in Int /\ h[y] = f[y]
    PROVE  SumFunctionOnSet(h, S \cup {x}) = SumFunctionOnSet(f, S) + h[x]
<1> DEFINE all == S \cup {x}
<1>1. IsFiniteSet(all)
  BY FS_AddElement
<1>2. \A y \in all : h[y] \in Int
  OBVIOUS
<1>3. x \in all /\ all \ {x} = S
  OBVIOUS
<1> HIDE DEF all
<1>4. SumFunctionOnSet(h, all) = h[x] + SumFunctionOnSet(h, all \ {x})
  BY <1>1, <1>2, <1>3, SumRemove
<1>5. SumFunctionOnSet(h, S) = SumFunctionOnSet(f, S) /\ SumFunctionOnSet(f, S) \in Int
  BY SumSame, SumType
<1>6. SumFunctionOnSet(h, all) = h[x] + SumFunctionOnSet(f, S)
  BY <1>3, <1>4, <1>5
<1>7. SumFunctionOnSet(h, all) = SumFunctionOnSet(f, S) + h[x]
  BY <1>5, <1>6
<1> QED
  BY <1>7 DEF all

\* The sum of natural numbers is one, and no less than any of them.
LEMMA SumOfNaturals ==
    ASSUME NEW f, NEW S, IsFiniteSet(S), \A x \in S : f[x] \in Nat
    PROVE  /\ SumFunctionOnSet(f, S) \in Nat
           /\ \A x \in S : f[x] <= SumFunctionOnSet(f, S)
<1> DEFINE zero == [x \in S |-> 0]
<1>1. ASSUME NEW T \in SUBSET S PROVE SumFunctionOnSet(f, T) \in Nat
  <2>1. IsFiniteSet(T)
    BY FS_Subset
  <2>2. SumFunctionOnSet(zero, T) <= SumFunctionOnSet(f, T)
    BY <2>1, SumMonotone
  <2>3. SumFunctionOnSet(zero, T) = SumFunctionOnSet(zero, T) + SumFunctionOnSet(zero, T)
    BY <2>1, SumPlus
  <2>4. SumFunctionOnSet(f, T) \in Int /\ SumFunctionOnSet(zero, T) \in Int
    BY <2>1, SumType
  <2> QED
    BY <2>2, <2>3, <2>4
<1>2. ASSUME NEW x \in S PROVE f[x] <= SumFunctionOnSet(f, S)
  <2>1. SumFunctionOnSet(f, S) = f[x] + SumFunctionOnSet(f, S \ {x})
    BY SumRemove
  <2>2. SumFunctionOnSet(f, S \ {x}) \in Nat
    BY <1>1
  <2> QED
    BY <2>1, <2>2
<1> QED
  BY <1>1, <1>2

\* The sum over one element.
LEMMA SumOfOne ==
    ASSUME NEW f, NEW x, f[x] \in Int PROVE SumFunctionOnSet(f, {x}) = f[x]
<1>1. SumFunctionOnSet(f, {x}) = f[x] + SumFunctionOnSet(f, {x} \ {x})
  BY FS_Singleton, SumRemove
<1>2. {x} \ {x} = {}
  OBVIOUS
<1> QED BY <1>1, <1>2, SumOfNone

-----------------------------------------------------------------------------
(* Divisions.                                                              *)

\* A quotient is the largest number of divisors that fits.
LEMMA FloorFacts ==
    ASSUME NEW a \in Nat, NEW b \in Nat \ {0}
    PROVE  /\ a \div b \in Nat
           /\ (a \div b) * b <= a
           /\ a < (a \div b + 1) * b
OBVIOUS

LEMMA FloorBelow ==
    ASSUME NEW a \in Nat, NEW b \in Nat \ {0}, NEW q \in Int, a < (q + 1) * b
    PROVE  a \div b <= q
<1>1. (a \div b) * b <= a /\ a \div b \in Nat
  BY FloorFacts
<1>2. (a \div b) * b < (q + 1) * b
  BY <1>1
<1> DEFINE d == a \div b
<1>3. d \in Nat /\ d * b < (q + 1) * b
  BY <1>1, <1>2
<1> HIDE DEF d
<1>4. d < q + 1
  <2> SUFFICES ASSUME d >= q + 1 PROVE FALSE
    BY <1>3
  <2>1. d * b >= (q + 1) * b
    BY <1>3
  <2> QED BY <2>1, <1>3
<1> QED BY <1>3, <1>4 DEF d

LEMMA FloorAbove ==
    ASSUME NEW a \in Nat, NEW b \in Nat \ {0}, NEW q \in Int, q * b <= a
    PROVE  q <= a \div b
<1> DEFINE d == a \div b
<1>1. d \in Nat /\ a < (d + 1) * b
  BY FloorFacts
<1> HIDE DEF d
<1>2. q < d + 1
  <2> SUFFICES ASSUME q >= d + 1 PROVE FALSE
    BY <1>1
  <2>1. q * b >= (d + 1) * b
    BY <1>1
  <2>2. q * b \in Int /\ (d + 1) * b \in Int
    BY <1>1
  <2> QED BY <2>1, <2>2, <1>1
<1> QED BY <1>1, <1>2 DEF d

LEMMA FloorMonotone ==
    ASSUME NEW a \in Nat, NEW c \in Nat, NEW b \in Nat \ {0}, a <= c
    PROVE  a \div b <= c \div b
<1>1. a \div b \in Nat /\ (a \div b) * b <= a
  BY FloorFacts
<1> DEFINE q == a \div b
<1>2. q \in Int /\ q * b \in Int /\ q * b <= a
  BY <1>1
<1> HIDE DEF q
<1>3. q * b <= c
  BY <1>2
<1>4. q <= c \div b
  BY <1>2, <1>3, FloorAbove
<1> QED BY <1>4 DEF q

\* A factor on both sides of an inequality.
LEMMA Cancel ==
    ASSUME NEW a \in Int, NEW b \in Int, NEW c \in Nat \ {0}, a * c <= b * c
    PROVE  a <= b
<1> SUFFICES ASSUME a >= b + 1 PROVE FALSE
  OBVIOUS
<1>1. a * c >= (b + 1) * c
  OBVIOUS
<1>2. (b + 1) * c = b * c + c /\ a * c \in Int /\ b * c \in Int
  OBVIOUS
<1> QED BY <1>1, <1>2

LEMMA Multiply ==
    ASSUME NEW a \in Int, NEW b \in Int, NEW c \in Nat, a <= b
    PROVE  a * c <= b * c
OBVIOUS

LEMMA WholeQuotient ==
    ASSUME NEW a \in Nat, NEW b \in Nat \ {0}
    PROVE  (a * b) \div b = a
<1> DEFINE m == a * b
<1>1. m \in Nat /\ a * b <= m /\ m < (a + 1) * b
  OBVIOUS
<1> HIDE DEF m
<1>2. m \div b \in Nat /\ m \div b <= a
  BY <1>1, FloorFacts, FloorBelow
<1>3. a * b <= m
  BY <1>1
<1>4. a <= m \div b
  BY <1>1, <1>3, FloorAbove
<1> QED BY <1>2, <1>4 DEF m

-----------------------------------------------------------------------------
(* Parts and prices.                                                       *)

LEMMA Scaling == FP_SCALING_FACTOR \in Nat \ {0}
BY TranchingAssumption

\* A part is at most its share of the amount.
LEMMA ScaleFacts ==
    ASSUME NEW a \in Nat, NEW f \in Nat, NEW t \in Nat \ {0}
    PROVE  /\ scaleByFraction(a, f, t) \in Nat
           /\ scaleByFraction(a, f, t) * t <= a * f
           /\ f <= t => scaleByFraction(a, f, t) <= a
           /\ f = t => scaleByFraction(a, f, t) = a
<1> DEFINE F == FP_SCALING_FACTOR
           q == (f * F) \div t
           s == (q * a) \div F
<1>0. F \in Nat \ {0} /\ f * F \in Nat
  BY Scaling
<1>1. q \in Nat /\ q * t <= f * F
  BY <1>0, FloorFacts
<1>2. f = t => q = F
  <2>1. f = t => f * F = F * t
    BY <1>0
  <2>2. (F * t) \div t = F
    BY <1>0, WholeQuotient
  <2> QED BY <2>1, <2>2
<1> HIDE DEF F, q
<1>3. q * a \in Nat
  BY <1>1
<1>4. s \in Nat /\ s * F <= q * a
  BY <1>0, <1>3, FloorFacts
<1>5. f = t => s = a
  <2>1. f = t => q * a = a * F
    BY <1>0, <1>2
  <2>2. (a * F) \div F = a
    BY <1>0, WholeQuotient
  <2> QED BY <2>1, <2>2
<1> HIDE DEF s
<1>6. s * t <= a * f
  <2>1. (s * F) * t <= (q * a) * t
    BY <1>0, <1>3, <1>4, Multiply
  <2>2. (q * t) * a <= (f * F) * a
    BY <1>0, <1>1, Multiply
  <2>3. (s * F) * t = (s * t) * F /\ (q * a) * t = (q * t) * a /\ (f * F) * a = (a * f) * F
    BY <1>0, <1>1, <1>4
  <2>4. (s * t) * F \in Int /\ (q * t) * a \in Int /\ (a * f) * F \in Int
    BY <1>0, <1>1, <1>4
  <2>5. (s * t) * F <= (a * f) * F
    BY <2>1, <2>2, <2>3, <2>4
  <2>6. s * t \in Int /\ a * f \in Int
    BY <1>4
  <2> QED BY <1>0, <2>5, <2>6, Cancel
<1>7. f <= t => s <= a
  <2> SUFFICES ASSUME f <= t PROVE s <= a
    OBVIOUS
  <2>1. f * a <= t * a
    BY Multiply
  <2>2. s * t <= a * t
    BY <1>4, <1>6, <2>1
  <2> QED BY <1>4, <2>2, Cancel
<1>8. s = scaleByFraction(a, f, t)
  BY DEF s, q, F, scaleByFraction
<1> QED BY <1>4, <1>5, <1>6, <1>7, <1>8

LEMMA SharePriceFacts ==
    ASSUME NEW a \in Nat, NEW n \in Nat
    PROVE  /\ usdcToSharePrice(a, n) \in Nat
           /\ usdcToSharePrice(a, n) * n <= a * FP_SCALING_FACTOR
<1>0. FP_SCALING_FACTOR \in Nat \ {0} /\ a * FP_SCALING_FACTOR \in Nat
  BY Scaling
<1>1. CASE n = 0
  BY <1>0, <1>1 DEF usdcToSharePrice
<1>2. CASE n # 0
  BY <1>0, <1>2, FloorFacts DEF usdcToSharePrice
<1> QED BY <1>1, <1>2

LEMMA NothingToPrice ==
    ASSUME NEW n \in Nat PROVE usdcToSharePrice(0, n) = 0
<1>1. CASE n = 0
  BY <1>1 DEF usdcToSharePrice
<1>2. CASE n # 0
  <2>1. (0 * n) \div n = 0
    BY <1>2, WholeQuotient
  <2>2. 0 * n = 0 /\ 0 * FP_SCALING_FACTOR = 0
    BY Scaling
  <2> QED BY <1>2, <2>1, <2>2 DEF usdcToSharePrice
<1> QED BY <1>1, <1>2

LEMMA UsdcFacts ==
    ASSUME NEW p \in Nat, NEW n \in Nat
    PROVE  /\ sharePriceToUsdc(p, n) \in Nat
           /\ sharePriceToUsdc(p, n) * FP_SCALING_FACTOR <= p * n
           /\ p * n < (sharePriceToUsdc(p, n) + 1) * FP_SCALING_FACTOR
<1>0. FP_SCALING_FACTOR \in Nat \ {0} /\ p * n \in Nat
  BY Scaling
<1> QED BY <1>0, FloorFacts DEF sharePriceToUsdc

LEMMA EntitlementFacts ==
    ASSUME NEW tranche \in TrancheType PROVE Entitlement(tranche) \in Nat
<1> DEFINE n == tranche.principalDeposited
           ip == tranche.interestSharePrice
           pp == tranche.principalSharePrice
<1>1. n \in Nat /\ ip \in Nat /\ pp \in Nat
  BY DEF TrancheType
<1> HIDE DEF n, ip, pp
<1>2. sharePriceToUsdc(pp, n) \in Nat /\ sharePriceToUsdc(ip, n) \in Nat
  BY <1>1, UsdcFacts
<1>3. Entitlement(tranche) = sharePriceToUsdc(pp, n) + sharePriceToUsdc(ip, n)
  BY DEF Entitlement, pp, ip, n
<1> QED BY <1>2, <1>3

\* At par a deposit is worth what was deposited.
LEMMA ParFacts ==
    ASSUME NEW n \in Nat
    PROVE  /\ sharePriceToUsdc(FP_SCALING_FACTOR, n) = n
           /\ sharePriceToUsdc(0, n) = 0
<1> DEFINE F == FP_SCALING_FACTOR
<1>0. F \in Nat \ {0}
  BY Scaling
<1>1. F * n = n * F /\ 0 * n = 0 * F
  BY <1>0
<1>2. (n * F) \div F = n /\ (0 * F) \div F = 0
  BY <1>0, WholeQuotient
<1> QED BY <1>1, <1>2 DEF sharePriceToUsdc

\* The price at which an amount is shared by a slice's tranches: for all deposits
\* together it is not worth more than the amount.
LEMMA ExpectedPriceFacts ==
    ASSUME NEW tranche \in TrancheType, NEW slice \in SliceType, NEW a \in Nat,
           Deposited(slice) > 0
    PROVE  /\ calculateExpectedSharePrice(tranche, a, slice) \in Nat
           /\ calculateExpectedSharePrice(tranche, a, slice) * Deposited(slice)
                <= a * FP_SCALING_FACTOR
<1> DEFINE n == tranche.principalDeposited
           D == Deposited(slice)
           u == usdcToSharePrice(a, n)
           e == scaleByFraction(u, n, D)
<1>1. n \in Nat /\ D \in Nat \ {0}
  BY DEF TrancheType, SliceType, Deposited
<1>2. u \in Nat /\ u * n <= a * FP_SCALING_FACTOR
  BY <1>1, SharePriceFacts
<1> HIDE DEF n, D, u
<1>3. e \in Nat /\ e * D <= u * n
  BY <1>1, <1>2, ScaleFacts
<1>4. e * D \in Int /\ u * n \in Int /\ a * FP_SCALING_FACTOR \in Int
  BY <1>1, <1>2, <1>3, Scaling
<1>5. e * D <= a * FP_SCALING_FACTOR
  BY <1>2, <1>3, <1>4
<1> QED BY <1>3, <1>5 DEF calculateExpectedSharePrice, e, u, n, D

\* A price that is raised by an amount is worth at most that amount more.
LEMMA RaisedPrice ==
    ASSUME NEW p \in Nat, NEW a \in Nat, NEW n \in Nat
    PROVE  LET q == p + usdcToSharePrice(a, n)
           IN  /\ q \in Nat /\ p <= q
               /\ sharePriceToUsdc(q, n) <= sharePriceToUsdc(p, n) + a
<1> DEFINE F == FP_SCALING_FACTOR
           u == usdcToSharePrice(a, n)
           w == sharePriceToUsdc(p, n)
<1>0. F \in Nat \ {0}
  BY Scaling
<1>1. u \in Nat /\ u * n <= a * F
  BY SharePriceFacts
<1>2. w \in Nat /\ p * n < (w + 1) * F
  BY UsdcFacts
<1> HIDE DEF F, u, w
<1>3. (p + u) * n = p * n + u * n /\ (w + a + 1) * F = (w + 1) * F + a * F
  BY <1>0, <1>1, <1>2
<1>4. p * n \in Nat /\ u * n \in Nat /\ a * F \in Nat /\ (w + 1) * F \in Nat
  BY <1>0, <1>1, <1>2
<1>5. (p + u) * n < (w + a + 1) * F
  BY <1>1, <1>2, <1>3, <1>4
<1>6. (p + u) * n \in Nat /\ w + a \in Int
  BY <1>1, <1>2, <1>3, <1>4
<1>7. ((p + u) * n) \div F <= w + a
  BY <1>0, <1>5, <1>6, FloorBelow
<1> QED BY <1>1, <1>2, <1>7 DEF sharePriceToUsdc, F, u, w

-----------------------------------------------------------------------------
(* One tranche.                                                            *)

\* What goes into a price and what remains are the amount, but for rounding.
LEMMA ApplyToPriceFacts ==
    ASSUME NEW amount \in Nat, NEW price \in Nat, NEW desired \in Nat, NEW n \in Nat
    PROVE  LET r == applyToSharePrice(amount, price, desired, n)
           IN  /\ r.remaining \in 0..amount
               /\ r.price \in Nat /\ price <= r.price
               /\ sharePriceToUsdc(r.price, n) + r.remaining
                    <= sharePriceToUsdc(price, n) + amount
               /\ r.price <= price + usdcToSharePrice(desired, n)
               /\ desired = amount => r.remaining = 0
<1> DEFINE applied == IF amount < desired THEN amount ELSE desired
           q == price + usdcToSharePrice(applied, n)
<1>1. applied \in Nat /\ applied <= amount /\ applied <= desired
      /\ (desired = amount => applied = amount)
  OBVIOUS
<1>2. usdcToSharePrice(applied, n) \in Nat /\ usdcToSharePrice(desired, n) \in Nat
  BY <1>1, SharePriceFacts
<1>3. usdcToSharePrice(applied, n) <= usdcToSharePrice(desired, n)
  <2>1. applied * FP_SCALING_FACTOR <= desired * FP_SCALING_FACTOR
    BY <1>1, Scaling, Multiply
  <2>2. applied * FP_SCALING_FACTOR \in Nat /\ desired * FP_SCALING_FACTOR \in Nat
    BY <1>1, Scaling
  <2>3. CASE n = 0
    BY <2>3 DEF usdcToSharePrice
  <2>4. CASE n # 0
    BY <2>1, <2>2, <2>4, FloorMonotone DEF usdcToSharePrice
  <2> QED BY <2>3, <2>4
<1>4. q \in Nat /\ price <= q
      /\ sharePriceToUsdc(q, n) <= sharePriceToUsdc(price, n) + applied
  BY <1>1, RaisedPrice
<1>5. applyToSharePrice(amount, price, desired, n)
        = [remaining |-> amount - applied, price |-> q]
  BY DEF applyToSharePrice
<1>6. sharePriceToUsdc(q, n) \in Nat /\ sharePriceToUsdc(price, n) \in Nat
  BY <1>4, UsdcFacts
<1> HIDE DEF applied
<1>7. amount - applied \in 0..amount /\ (desired = amount => amount - applied = 0)
  BY <1>1
<1>8. sharePriceToUsdc(q, n) + (amount - applied) <= sharePriceToUsdc(price, n) + amount
  BY <1>1, <1>4, <1>6
<1>9. q <= price + usdcToSharePrice(desired, n)
  BY <1>2, <1>3
<1> HIDE DEF q
<1> QED BY <1>4, <1>5, <1>7, <1>8, <1>9

\* Applying what a price falls short of another does not raise it above.
LEMMA DesiredFacts ==
    ASSUME NEW desired \in Nat, NEW actual \in Nat, NEW n \in Nat
    PROVE  LET d == desiredAmountFromSharePrice(desired, actual, n)
           IN  /\ d \in Nat
               /\ \/ actual + usdcToSharePrice(d, n) <= desired
                  \/ usdcToSharePrice(d, n) = 0
<1> DEFINE F == FP_SCALING_FACTOR
           d == desiredAmountFromSharePrice(desired, actual, n)
           u == usdcToSharePrice(d, n)
<1>0. F \in Nat \ {0}
  BY Scaling
<1>1. CASE desired < actual
  <2>1. d = 0
    BY <1>1 DEF desiredAmountFromSharePrice
  <2>3. u = 0
    BY <2>1, NothingToPrice
  <2> QED BY <2>1, <2>3
<1>2. CASE ~ (desired < actual)
  <2>1. d = sharePriceToUsdc(desired - actual, n) /\ desired - actual \in Nat
    BY <1>2 DEF desiredAmountFromSharePrice
  <2>2. d \in Nat /\ d * F <= (desired - actual) * n
    BY <2>1, UsdcFacts
  <2>3. CASE n = 0
    BY <2>2, <2>3 DEF usdcToSharePrice
  <2>4. CASE n # 0
    <3> HIDE DEF d
    <3>1. u \in Nat /\ u * n <= d * F
      BY <2>2, SharePriceFacts
    <3> HIDE DEF u, F
    <3>2. u * n <= (desired - actual) * n
      BY <1>0, <2>1, <2>2, <3>1
    <3>3. n \in Nat \ {0}
      BY <2>4
    <3>4. u <= desired - actual
      BY <2>1, <3>1, <3>2, <3>3, Cancel
    <3>5. actual + u <= desired
      BY <3>1, <3>4
    <3> QED BY <2>2, <3>5 DEF u, d
  <2> QED BY <2>3, <2>4
<1> QED BY <1>1, <1>2

\* Nothing that is applied to a tranche is lost on the way or counted twice.
LEMMA ApplyByAmountFacts ==
    ASSUME NEW tranche \in TrancheType, NEW interest \in Nat, NEW principal \in Nat,
           NEW desiredInterest \in Nat, NEW desiredPrincipal \in Nat
    PROVE  LET r == applyByAmount(tranche, interest, principal,
                                  desiredInterest, desiredPrincipal)
           IN  /\ r.tranche \in TrancheType
               /\ r.tranche.principalDeposited = tranche.principalDeposited
               /\ r.tranche.lockedUntil = tranche.lockedUntil
               /\ r.interest \in 0..interest /\ r.principal \in 0..principal
               /\ desiredInterest = interest => r.interest = 0
               /\ Entitlement(r.tranche) + r.interest + r.principal
                    <= Entitlement(tranche) + interest + principal
               /\ r.tranche.principalSharePrice
                    <= tranche.principalSharePrice
                         + usdcToSharePrice(desiredPrincipal, tranche.principalDeposited)
<1> DEFINE n == tranche.principalDeposited
           ip == tranche.interestSharePrice
           pp == tranche.principalSharePrice
           i == applyToSharePrice(interest, ip, desiredInterest, n)
           p == applyToSharePrice(principal, pp, desiredPrincipal, n)
           t == [tranche EXCEPT !.interestSharePrice = i.price,
                                !.principalSharePrice = p.price]
<1>1. n \in Nat /\ ip \in Nat /\ pp \in Nat
  BY DEF TrancheType
<1> HIDE DEF n, ip, pp
<1>2. /\ i.remaining \in 0..interest
      /\ i.price \in Nat
      /\ sharePriceToUsdc(i.price, n) + i.remaining <= sharePriceToUsdc(ip, n) + interest
      /\ desiredInterest = interest => i.remaining = 0
  BY <1>1, ApplyToPriceFacts
<1>3. /\ p.remaining \in 0..principal
      /\ p.price \in Nat
      /\ sharePriceToUsdc(p.price, n) + p.remaining <= sharePriceToUsdc(pp, n) + principal
      /\ p.price <= pp + usdcToSharePrice(desiredPrincipal, n)
  BY <1>1, ApplyToPriceFacts
<1>4. applyByAmount(tranche, interest, principal, desiredInterest, desiredPrincipal)
        = [tranche |-> t, interest |-> i.remaining, principal |-> p.remaining]
  BY DEF applyByAmount, t, i, p, n, ip, pp
<1> HIDE DEF i, p
<1>5. /\ t \in TrancheType
      /\ t.principalDeposited = n /\ t.lockedUntil = tranche.lockedUntil
      /\ t.interestSharePrice = i.price /\ t.principalSharePrice = p.price
  BY <1>2, <1>3 DEF TrancheType, n
<1> HIDE DEF t
<1>6. Entitlement(t) = sharePriceToUsdc(p.price, n) + sharePriceToUsdc(i.price, n)
  BY <1>5 DEF Entitlement
<1>7. Entitlement(tranche) = sharePriceToUsdc(pp, n) + sharePriceToUsdc(ip, n)
  BY DEF Entitlement, pp, ip, n
<1>8. /\ sharePriceToUsdc(p.price, n) \in Nat /\ sharePriceToUsdc(i.price, n) \in Nat
      /\ sharePriceToUsdc(pp, n) \in Nat /\ sharePriceToUsdc(ip, n) \in Nat
  BY <1>1, <1>2, <1>3, UsdcFacts
<1>9. Entitlement(t) + i.remaining + p.remaining <= Entitlement(tranche) + interest + principal
  BY <1>2, <1>3, <1>6, <1>7, <1>8
<1> QED BY <1>2, <1>3, <1>4, <1>5, <1>9 DEF n, pp

\* Nor does the principal price rise above both what it was and what is desired.
LEMMA ApplyBySharePriceFacts ==
    ASSUME NEW tranche \in TrancheType, NEW interest \in Nat, NEW principal \in Nat,
           NEW interestPrice \in Nat, NEW principalPrice \in Nat
    PROVE  LET r == applyBySharePrice(tranche, interest, principal,
                                      interestPrice, principalPrice)
           IN  /\ r.tranche \in TrancheType
               /\ r.tranche.principalDeposited = tranche.principalDeposited
               /\ r.tranche.lockedUntil = tranche.lockedUntil
               /\ r.interest \in 0..interest /\ r.principal \in 0..principal
               /\ Entitlement(r.tranche) + r.interest + r.principal
                    <= Entitlement(tranche) + interest + principal
               /\ \/ r.tranche.principalSharePrice <= tranche.principalSharePrice
                  \/ r.tranche.principalSharePrice <= principalPrice
<1> DEFINE n == tranche.principalDeposited
           di == desiredAmountFromSharePrice(interestPrice, tranche.interestSharePrice, n)
           dp == desiredAmountFromSharePrice(principalPrice, tranche.principalSharePrice, n)
<1>1. n \in Nat /\ tranche.interestSharePrice \in Nat /\ tranche.principalSharePrice \in Nat
  BY DEF TrancheType
<1>2. di \in Nat
  BY <1>1, DesiredFacts
<1>3. /\ dp \in Nat
      /\ \/ tranche.principalSharePrice + usdcToSharePrice(dp, n) <= principalPrice
         \/ usdcToSharePrice(dp, n) = 0
  BY <1>1, DesiredFacts
<1>4. applyBySharePrice(tranche, interest, principal, interestPrice, principalPrice)
        = applyByAmount(tranche, interest, principal, di, dp)
  BY DEF applyBySharePrice
<1>5. usdcToSharePrice(dp, n) \in Nat
  BY <1>1, <1>3, SharePriceFacts
<1> HIDE DEF di, dp
<1>6a. di \in Nat /\ dp \in Nat
  BY <1>2, <1>3
<1> DEFINE r == applyByAmount(tranche, interest, principal, di, dp)
<1>6. /\ r.tranche \in TrancheType
      /\ r.tranche.principalDeposited = tranche.principalDeposited
      /\ r.tranche.lockedUntil = tranche.lockedUntil
      /\ r.interest \in 0..interest /\ r.principal \in 0..principal
      /\ Entitlement(r.tranche) + r.interest + r.principal
           <= Entitlement(tranche) + interest + principal
      /\ r.tranche.principalSharePrice
           <= tranche.principalSharePrice + usdcToSharePrice(dp, n)
  <2>1. /\ r.tranche \in TrancheType
        /\ r.tranche.principalDeposited = tranche.principalDeposited
        /\ r.tranche.lockedUntil = tranche.lockedUntil
    BY <1>6a, ApplyByAmountFacts
  <2>2. /\ r.interest \in 0..interest /\ r.principal \in 0..principal
    BY <1>6a, ApplyByAmountFacts
  <2>3. Entitlement(r.tranche) + r.interest + r.principal
           <= Entitlement(tranche) + interest + principal
    BY <1>6a, ApplyByAmountFacts
  <2>4. r.tranche.principalSharePrice
           <= tranche.principalSharePrice + usdcToSharePrice(dp, n)
    BY <1>6a, ApplyByAmountFacts
  <2> QED BY <2>1, <2>2, <2>3, <2>4
<1>7. r.tranche.principalSharePrice \in Nat
  BY <1>6 DEF TrancheType
<1> HIDE DEF r, n
<1>8. \/ r.tranche.principalSharePrice <= tranche.principalSharePrice
      \/ r.tranche.principalSharePrice <= principalPrice
  BY <1>1, <1>3, <1>5, <1>6, <1>7
<1> QED BY <1>4, <1>6, <1>8 DEF r

-----------------------------------------------------------------------------
(* One slice.                                                              *)

\* A tranche has been served from what its slice was given: what it received, what
\* is passed on and the reserve's fee are no more than that; and its part of the
\* principal is no more than of the principal accrued, unless it was before.
Served(r, tranche, slice, interest, principal, accrued) ==
    LET t == r.applied.tranche
    IN  /\ r.reserve \in Nat
        /\ t \in TrancheType
        /\ t.principalDeposited = tranche.principalDeposited
        /\ t.lockedUntil = tranche.lockedUntil
        /\ r.applied.interest \in Nat /\ r.applied.principal \in Nat
        /\ r.reserve + r.applied.interest + r.applied.principal <= interest + principal
        /\ Entitlement(t) + r.applied.interest + r.applied.principal + r.reserve
             <= Entitlement(tranche) + interest + principal
        /\ \/ t.principalSharePrice <= tranche.principalSharePrice
           \/ t.principalSharePrice * Deposited(slice) <= accrued * FP_SCALING_FACTOR

LEMMA SeniorTrancheFacts ==
    ASSUME NEW slice \in SliceType, NEW interest \in Nat, NEW principal \in Nat,
           NEW accrued \in Nat, Deposited(slice) > 0
    PROVE  Served(applyToSeniorTranche(slice, interest, principal, accrued),
                  slice.senior, slice, interest, principal, accrued)
<1> DEFINE reserve == scaleByFraction(interest, ReserveFeePercent, 100)
           gross == calculateExpectedSharePrice(slice.senior, slice.totalInterestAccrued, slice)
           net == scaleByFraction(gross, 100 - (JuniorFeePercent + ReserveFeePercent), 100)
           price == calculateExpectedSharePrice(slice.senior, accrued, slice)
           a == applyBySharePrice(slice.senior, interest - reserve, principal, net, price)
<1>1. slice.senior \in TrancheType /\ slice.totalInterestAccrued \in Nat
  BY DEF SliceType
<1>2. reserve \in Nat /\ reserve <= interest
  BY TranchingAssumption, ScaleFacts
<1>3. gross \in Nat
  BY <1>1, ExpectedPriceFacts
<1>4. price \in Nat /\ price * Deposited(slice) <= accrued * FP_SCALING_FACTOR
  BY <1>1, ExpectedPriceFacts
<1>5. 100 - (JuniorFeePercent + ReserveFeePercent) \in Nat
  BY TranchingAssumption
<1> HIDE DEF reserve, gross, price
<1>6. net \in Nat
  <2> DEFINE k == 100 - (JuniorFeePercent + ReserveFeePercent)
  <2>1. k \in Nat /\ 100 \in Nat \ {0}
    BY <1>5
  <2> HIDE DEF k
  <2>2. scaleByFraction(gross, k, 100) \in Nat
    BY <1>3, <2>1, ScaleFacts
  <2> QED BY <2>2 DEF k
<1>7. applyToSeniorTranche(slice, interest, principal, accrued)
        = [reserve |-> reserve, applied |-> a]
  BY DEF applyToSeniorTranche, reserve, gross, net, price, a
<1> HIDE DEF net
<1>8. interest - reserve \in Nat
  BY <1>2
<1>9. /\ a.tranche \in TrancheType
      /\ a.tranche.principalDeposited = slice.senior.principalDeposited
      /\ a.tranche.lockedUntil = slice.senior.lockedUntil
      /\ a.interest \in 0..(interest - reserve) /\ a.principal \in 0..principal
      /\ Entitlement(a.tranche) + a.interest + a.principal
           <= Entitlement(slice.senior) + (interest - reserve) + principal
      /\ \/ a.tranche.principalSharePrice <= slice.senior.principalSharePrice
         \/ a.tranche.principalSharePrice <= price
  BY <1>1, <1>4, <1>6, <1>8, ApplyBySharePriceFacts
<1> HIDE DEF a
<1>10. a.tranche.principalSharePrice \in Nat /\ Deposited(slice) \in Nat
  BY <1>9 DEF TrancheType, SliceType, Deposited
<1>11. a.tranche.principalSharePrice <= price =>
         a.tranche.principalSharePrice * Deposited(slice) <= accrued * FP_SCALING_FACTOR
  <2>1. a.tranche.principalSharePrice <= price =>
          a.tranche.principalSharePrice * Deposited(slice) <= price * Deposited(slice)
    BY <1>4, <1>10, Multiply
  <2>2. /\ a.tranche.principalSharePrice * Deposited(slice) \in Int
        /\ price * Deposited(slice) \in Int /\ accrued * FP_SCALING_FACTOR \in Int
    BY <1>4, <1>10, Scaling
  <2> QED BY <1>4, <2>1, <2>2
<1>12. Entitlement(a.tranche) \in Int /\ Entitlement(slice.senior) \in Int
  BY <1>1, <1>9, EntitlementFacts
<1>13. /\ a.interest \in Nat /\ a.principal \in Nat
       /\ reserve + a.interest + a.principal <= interest + principal
       /\ Entitlement(a.tranche) + a.interest + a.principal + reserve
            <= Entitlement(slice.senior) + interest + principal
  BY <1>2, <1>9, <1>12
<1> QED BY <1>2, <1>7, <1>9, <1>11, <1>13 DEF Served

LEMMA JuniorTrancheFacts ==
    ASSUME NEW slice \in SliceType, NEW interest \in Nat, NEW principal \in Nat,
           NEW accrued \in Nat, Deposited(slice) > 0
    PROVE  Served(applyToJuniorTranche(slice, interest, principal, accrued),
                  slice.junior, slice, interest, principal, accrued)
<1> DEFINE junior == slice.junior
           toInterest == junior.interestSharePrice
                           + usdcToSharePrice(interest, junior.principalDeposited)
           price == calculateExpectedSharePrice(junior, accrued, slice)
           f == applyBySharePrice(junior, interest, principal, toInterest, price)
           reserve == scaleByFraction(f.principal, ReserveFeePercent, 100)
           rest == f.interest + f.principal - reserve
           a == applyByAmount(f.tranche, rest, 0, rest, 0)
<1>1. junior \in TrancheType
  BY DEF SliceType
<1>2. toInterest \in Nat
  <2>1. junior.interestSharePrice \in Nat /\ junior.principalDeposited \in Nat
    BY <1>1 DEF TrancheType
  <2>2. usdcToSharePrice(interest, junior.principalDeposited) \in Nat
    BY <2>1, SharePriceFacts
  <2> QED BY <2>1, <2>2
<1>3. price \in Nat /\ price * Deposited(slice) <= accrued * FP_SCALING_FACTOR
  BY <1>1, ExpectedPriceFacts
<1>4. applyToJuniorTranche(slice, interest, principal, accrued)
        = [reserve |-> reserve, applied |-> a]
  BY DEF applyToJuniorTranche
<1> HIDE DEF junior, toInterest, price
<1>5. /\ f.tranche \in TrancheType
      /\ f.tranche.principalDeposited = junior.principalDeposited
      /\ f.tranche.lockedUntil = junior.lockedUntil
      /\ f.interest \in 0..interest /\ f.principal \in 0..principal
  <2>1. f.tranche \in TrancheType
    BY <1>1, <1>2, <1>3, ApplyBySharePriceFacts
  <2>2. f.tranche.principalDeposited = junior.principalDeposited
    BY <1>1, <1>2, <1>3, ApplyBySharePriceFacts
  <2>3. f.tranche.lockedUntil = junior.lockedUntil
    BY <1>1, <1>2, <1>3, ApplyBySharePriceFacts
  <2>4. f.interest \in 0..interest /\ f.principal \in 0..principal
    BY <1>1, <1>2, <1>3, ApplyBySharePriceFacts
  <2> QED BY <2>1, <2>2, <2>3, <2>4
<1>6. Entitlement(f.tranche) + f.interest + f.principal
           <= Entitlement(junior) + interest + principal
  BY <1>1, <1>2, <1>3, ApplyBySharePriceFacts
<1>7. \/ f.tranche.principalSharePrice <= junior.principalSharePrice
      \/ f.tranche.principalSharePrice <= price
  BY <1>1, <1>2, <1>3, ApplyBySharePriceFacts
<1> HIDE DEF f
<1>8. reserve \in Nat /\ reserve <= f.principal
  <2>1. f.principal \in Nat /\ ReserveFeePercent \in Nat /\ ReserveFeePercent <= 100
        /\ 100 \in Nat \ {0}
    BY <1>5, TranchingAssumption
  <2> QED BY <2>1, ScaleFacts
<1> HIDE DEF reserve
<1>9. rest \in Nat
  BY <1>5, <1>8
<1> HIDE DEF rest
<1>10. f.tranche \in TrancheType /\ rest \in Nat /\ 0 \in Nat
  BY <1>5, <1>9
<1>11. /\ a.tranche \in TrancheType
       /\ a.tranche.principalDeposited = f.tranche.principalDeposited
       /\ a.tranche.lockedUntil = f.tranche.lockedUntil
  <2>1. a.tranche \in TrancheType
    BY <1>10, ApplyByAmountFacts
  <2>2. a.tranche.principalDeposited = f.tranche.principalDeposited
    BY <1>10, ApplyByAmountFacts
  <2>3. a.tranche.lockedUntil = f.tranche.lockedUntil
    BY <1>10, ApplyByAmountFacts
  <2> QED BY <2>1, <2>2, <2>3
<1>12. a.interest = 0 /\ a.principal \in 0..0
  <2>1. a.interest = 0
    BY <1>10, ApplyByAmountFacts
  <2>2. a.principal \in 0..0
    BY <1>10, ApplyByAmountFacts
  <2> QED BY <2>1, <2>2
<1>13. Entitlement(a.tranche) + a.interest + a.principal <= Entitlement(f.tranche) + rest + 0
  BY <1>10, ApplyByAmountFacts
<1>14. a.tranche.principalSharePrice
         <= f.tranche.principalSharePrice
              + usdcToSharePrice(0, f.tranche.principalDeposited)
  BY <1>10, ApplyByAmountFacts
<1> HIDE DEF a
<1>15. usdcToSharePrice(0, f.tranche.principalDeposited) = 0
  BY <1>5, NothingToPrice DEF TrancheType
<1>16. /\ a.tranche.principalSharePrice \in Nat /\ f.tranche.principalSharePrice \in Nat
       /\ junior.principalSharePrice \in Nat
  BY <1>1, <1>5, <1>11 DEF TrancheType
<1>17. \/ a.tranche.principalSharePrice <= junior.principalSharePrice
       \/ a.tranche.principalSharePrice <= price
  BY <1>3, <1>7, <1>14, <1>15, <1>16
<1>18. a.tranche.principalSharePrice <= price =>
         a.tranche.principalSharePrice * Deposited(slice) <= accrued * FP_SCALING_FACTOR
  <2>0. Deposited(slice) \in Nat
    BY DEF SliceType, TrancheType, Deposited
  <2>1. a.tranche.principalSharePrice <= price =>
          a.tranche.principalSharePrice * Deposited(slice) <= price * Deposited(slice)
    BY <1>3, <1>16, <2>0, Multiply
  <2>2. /\ a.tranche.principalSharePrice * Deposited(slice) \in Int
        /\ price * Deposited(slice) \in Int /\ accrued * FP_SCALING_FACTOR \in Int
    BY <1>3, <1>16, <2>0, Scaling
  <2> QED BY <1>3, <2>1, <2>2
<1>19. /\ Entitlement(a.tranche) \in Int /\ Entitlement(f.tranche) \in Int
       /\ Entitlement(junior) \in Int
  BY <1>1, <1>5, <1>11, EntitlementFacts
<1>20. /\ a.interest \in Nat /\ a.principal \in Nat
       /\ reserve + a.interest + a.principal <= interest + principal
       /\ Entitlement(a.tranche) + a.interest + a.principal + reserve
            <= Entitlement(junior) + interest + principal
  BY <1>5, <1>6, <1>8, <1>12, <1>13, <1>19 DEF rest
<1> QED BY <1>4, <1>5, <1>8, <1>11, <1>17, <1>18, <1>20 DEF Served, junior

-----------------------------------------------------------------------------
(* All slices.                                                             *)

\* The parts of an amount that go to the slices are together not more than it.
LEMMA PartsFacts ==
    ASSUME NEW S, IsFiniteSet(S), NEW deployed \in [S -> Nat],
           NEW total \in Nat \ {0}, SumFunctionOnSet(deployed, S) = total,
           NEW a \in Nat, NEW part,
           \A i \in S : part[i] = scaleByFraction(a, deployed[i], total)
    PROVE  /\ \A i \in S : part[i] \in Nat
           /\ SumFunctionOnSet(part, S) \in Nat
           /\ SumFunctionOnSet(part, S) <= a
<1>1. \A i \in S : part[i] \in Nat /\ part[i] * total <= a * deployed[i]
  <2> TAKE i \in S
  <2>1. deployed[i] \in Nat
    OBVIOUS
  <2>2. scaleByFraction(a, deployed[i], total) \in Nat
    BY <2>1, ScaleFacts
  <2>3. scaleByFraction(a, deployed[i], total) * total <= a * deployed[i]
    BY <2>1, ScaleFacts
  <2> QED BY <2>2, <2>3
<1>2. SumFunctionOnSet(part, S) \in Nat
  BY <1>1, SumOfNaturals
<1> DEFINE scaled == [i \in S |-> total * part[i]]
           given == [i \in S |-> a * deployed[i]]
<1>3. \A i \in S : part[i] \in Int /\ scaled[i] = total * part[i]
  BY <1>1
<1>4. \A i \in S : deployed[i] \in Int /\ given[i] = a * deployed[i]
  OBVIOUS
<1>5. \A i \in S : scaled[i] \in Int /\ given[i] \in Int /\ scaled[i] <= given[i]
  BY <1>1
<1> HIDE DEF scaled, given
<1>6. SumFunctionOnSet(scaled, S) = total * SumFunctionOnSet(part, S)
  BY <1>3, SumScaled
<1>7. SumFunctionOnSet(given, S) = a * SumFunctionOnSet(deployed, S)
  BY <1>4, SumScaled
<1>10. SumFunctionOnSet(scaled, S) <= SumFunctionOnSet(given, S)
  BY <1>5, SumMonotone
<1>11. SumFunctionOnSet(part, S) * total <= a * total
  BY <1>2, <1>6, <1>7, <1>10
<1>12. SumFunctionOnSet(part, S) <= a
  BY <1>2, <1>11, Cancel
<1> QED BY <1>1, <1>2, <1>12

\* What holds of each slice's ledger holds of all of them together.
LEMMA LedgerSums ==
    ASSUME NEW S, IsFiniteSet(S),
           NEW a, NEW b, NEW c, NEW d, NEW e, NEW f, NEW g,
           \A i \in S : /\ a[i] \in Int /\ b[i] \in Int /\ c[i] \in Int /\ d[i] \in Int
                        /\ e[i] \in Int /\ f[i] \in Int /\ g[i] \in Int
                        /\ a[i] + b[i] + c[i] + d[i] <= e[i] + f[i] + g[i]
    PROVE  SumFunctionOnSet(a, S) + SumFunctionOnSet(b, S)
             + SumFunctionOnSet(c, S) + SumFunctionOnSet(d, S)
             <= SumFunctionOnSet(e, S) + SumFunctionOnSet(f, S) + SumFunctionOnSet(g, S)
<1> DEFINE ab == [i \in S |-> a[i] + b[i]]
           cd == [i \in S |-> c[i] + d[i]]
           abcd == [i \in S |-> ab[i] + cd[i]]
           ef == [i \in S |-> e[i] + f[i]]
           efg == [i \in S |-> ef[i] + g[i]]
<1>1. \A i \in S : ab[i] \in Int /\ ab[i] = a[i] + b[i]
  OBVIOUS
<1>2. \A i \in S : cd[i] \in Int /\ cd[i] = c[i] + d[i]
  OBVIOUS
<1>3. \A i \in S : ef[i] \in Int /\ ef[i] = e[i] + f[i]
  OBVIOUS
<1> HIDE DEF ab, cd, ef
<1>4. \A i \in S : abcd[i] \in Int /\ abcd[i] = ab[i] + cd[i]
  BY <1>1, <1>2
<1>5. \A i \in S : efg[i] \in Int /\ efg[i] = ef[i] + g[i]
  BY <1>3
<1> HIDE DEF abcd, efg
<1>6. \A i \in S : abcd[i] <= efg[i]
  BY <1>1, <1>2, <1>3, <1>4, <1>5
<1>7. SumFunctionOnSet(abcd, S) <= SumFunctionOnSet(efg, S)
  BY <1>4, <1>5, <1>6, SumMonotone
<1>8. SumFunctionOnSet(ab, S) = SumFunctionOnSet(a, S) + SumFunctionOnSet(b, S)
  BY <1>1, SumPlus
<1>9. SumFunctionOnSet(cd, S) = SumFunctionOnSet(c, S) + SumFunctionOnSet(d, S)
  BY <1>2, SumPlus
<1>10. SumFunctionOnSet(abcd, S) = SumFunctionOnSet(ab, S) + SumFunctionOnSet(cd, S)
  BY <1>1, <1>2, <1>4, SumPlus
<1>11. SumFunctionOnSet(ef, S) = SumFunctionOnSet(e, S) + SumFunctionOnSet(f, S)
  BY <1>3, SumPlus
<1>12. SumFunctionOnSet(efg, S) = SumFunctionOnSet(ef, S) + SumFunctionOnSet(g, S)
  BY <1>3, <1>5, SumPlus
<1>13. /\ SumFunctionOnSet(a, S) \in Int /\ SumFunctionOnSet(b, S) \in Int
       /\ SumFunctionOnSet(c, S) \in Int /\ SumFunctionOnSet(d, S) \in Int
       /\ SumFunctionOnSet(e, S) \in Int /\ SumFunctionOnSet(f, S) \in Int
       /\ SumFunctionOnSet(g, S) \in Int
  <2>1. \A i \in S : /\ a[i] \in Int /\ b[i] \in Int /\ c[i] \in Int /\ d[i] \in Int
                     /\ e[i] \in Int /\ f[i] \in Int /\ g[i] \in Int
    OBVIOUS
  <2> QED BY <2>1, SumType
<1> QED BY <1>7, <1>8, <1>9, <1>10, <1>11, <1>12, <1>13

SliceEntitlement(slice) == Entitlement(slice.senior) + Entitlement(slice.junior)

\* A payment changes a slice by its prices alone; no principal price goes above its
\* part of the principal accrued, unless it was there before.
Paid(before, after, accrued) ==
    /\ after \in SliceType
    /\ after.totalInterestAccrued = before.totalInterestAccrued
    /\ after.principalDeployed = before.principalDeployed
    /\ \A kind \in Kinds :
          /\ after[kind].principalDeposited = before[kind].principalDeposited
          /\ after[kind].lockedUntil = before[kind].lockedUntil
          /\ \/ after[kind].principalSharePrice <= before[kind].principalSharePrice
             \/ after[kind].principalSharePrice * Deposited(before)
                  <= accrued * FP_SCALING_FACTOR

LEMMA SliceFacts ==
    ASSUME NEW slice \in SliceType
    PROVE  /\ slice.senior \in TrancheType /\ slice.junior \in TrancheType
           /\ slice.totalInterestAccrued \in Nat /\ slice.principalDeployed \in Nat
           /\ slice.senior.principalDeposited \in Nat
           /\ slice.junior.principalDeposited \in Nat
           /\ Deposited(slice) \in Nat
           /\ SliceEntitlement(slice) \in Nat
<1>1. /\ slice.senior \in TrancheType /\ slice.junior \in TrancheType
      /\ slice.totalInterestAccrued \in Nat /\ slice.principalDeployed \in Nat
  BY DEF SliceType
<1>2. /\ slice.senior.principalDeposited \in Nat
      /\ slice.junior.principalDeposited \in Nat
  BY <1>1 DEF TrancheType
<1>3. Entitlement(slice.senior) \in Nat /\ Entitlement(slice.junior) \in Nat
  BY <1>1, EntitlementFacts
<1> QED BY <1>1, <1>2, <1>3 DEF Deposited, SliceEntitlement

LEMMA SumPlusEntitlements ==
    ASSUME NEW S, IsFiniteSet(S), NEW slices, \A i \in S : slices[i] \in SliceType
    PROVE  /\ SumFunctionOnSet([i \in S |-> SliceEntitlement(slices[i])], S)
                = SumFunctionOnSet([i \in S |-> Entitlement(slices[i].senior)], S)
                    + SumFunctionOnSet([i \in S |-> Entitlement(slices[i].junior)], S)
           /\ SumFunctionOnSet([i \in S |-> Entitlement(slices[i].senior)], S) \in Nat
           /\ SumFunctionOnSet([i \in S |-> Entitlement(slices[i].junior)], S) \in Nat
<1> DEFINE s == [i \in S |-> Entitlement(slices[i].senior)]
           j == [i \in S |-> Entitlement(slices[i].junior)]
           b == [i \in S |-> SliceEntitlement(slices[i])]
<1>1. \A i \in S : s[i] \in Nat /\ j[i] \in Nat
  <2> SUFFICES ASSUME NEW i \in S PROVE s[i] \in Nat /\ j[i] \in Nat
    OBVIOUS
  <2>1. slices[i].senior \in TrancheType /\ slices[i].junior \in TrancheType
    BY DEF SliceType
  <2> QED BY <2>1, EntitlementFacts
<1>2. \A i \in S : s[i] \in Int /\ j[i] \in Int /\ b[i] = s[i] + j[i]
  BY <1>1 DEF SliceEntitlement
<1> HIDE DEF s, j, b
<1>3. SumFunctionOnSet(b, S) = SumFunctionOnSet(s, S) + SumFunctionOnSet(j, S)
  BY <1>2, SumPlus
<1>4. SumFunctionOnSet(s, S) \in Nat /\ SumFunctionOnSet(j, S) \in Nat
  BY <1>1, SumOfNaturals
<1> QED BY <1>3, <1>4 DEF s, j, b

\* The waterfall gives the tranches and the reserve no more than the payment.
LEMMA ApplyToAllSlicesFacts ==
    ASSUME NEW slices \in Seq(SliceType), NEW interest \in Nat, NEW principal \in Nat,
           NEW total \in Nat, NEW balance \in Nat, NEW owed \in Nat,
           CanApply(slices, total, balance),
           SumOfSlices(slices, LAMBDA i : slices[i].principalDeployed) = total
    PROVE  LET S == DOMAIN slices
               r == applyToAllSlices(slices, interest, principal, total, balance, owed)
           IN  /\ DOMAIN r.slices = S
               /\ \A i \in S : Paid(slices[i], r.slices[i],
                      SlicePrincipalAccrued(slices[i], total - balance + owed, total))
               /\ r.reserve \in 0..(interest + principal)
               /\ SumFunctionOnSet([i \in S |-> SliceEntitlement(r.slices[i])], S) + r.reserve
                    <= SumFunctionOnSet([i \in S |-> SliceEntitlement(slices[i])], S)
                         + interest + principal
<1> DEFINE S == DOMAIN slices
<1>2. IsFiniteSet(S) /\ \A i \in S : slices[i] \in SliceType
  <2>1. S = 1..Len(slices) /\ Len(slices) \in Int /\ 1 \in Int
    OBVIOUS
  <2>2. IsFiniteSet(1..Len(slices))
    BY <2>1, FS_Interval
  <2> QED BY <2>1, <2>2
<1> DEFINE returned == total - balance + owed
           part(amount, i) == scaleByFraction(amount, slices[i].principalDeployed, total)
           accrued(i) == SlicePrincipalAccrued(slices[i], returned, total)
           senior == [i \in S |-> applyToSeniorTranche(slices[i], part(interest, i),
                                       part(principal, i), accrued(i))]
           iLeft == [i \in S |-> senior[i].applied.interest]
           pLeft == [i \in S |-> senior[i].applied.principal]
           interestLeft == SumFunctionOnSet(iLeft, S)
           principalLeft == SumFunctionOnSet(pLeft, S)
           junior == [i \in S |-> applyToJuniorTranche(slices[i], part(interestLeft, i),
                                       part(principalLeft, i), accrued(i))]
           out == [i \in S |-> [slices[i] EXCEPT !.senior = senior[i].applied.tranche,
                                                 !.junior = junior[i].applied.tranche]]
           fees == [i \in S |-> senior[i].reserve + junior[i].reserve]
<1>1. applyToAllSlices(slices, interest, principal, total, balance, owed)
        = [slices |-> out, reserve |-> SumFunctionOnSet(fees, S)]
  <2>1. DOMAIN iLeft = S /\ DOMAIN pLeft = S /\ DOMAIN fees = S
    OBVIOUS
  <2> QED BY <2>1 DEF applyToAllSlices, SumOfSlices, SumFunction
<1>3. \A i \in S : slices[i].principalDeployed \in Nat
  BY <1>2, SliceFacts
<1> DEFINE deployed == [i \in S |-> slices[i].principalDeployed]
<1>4. total \in Nat \ {0} /\ SumFunctionOnSet(deployed, S) = total
      /\ deployed \in [S -> Nat]
  <2>1. SumFunctionOnSet(deployed, S) = total
    <3>1. DOMAIN deployed = S
      OBVIOUS
    <3> QED BY <3>1 DEF SumOfSlices, SumFunction
  <2> QED BY <1>3, <2>1 DEF CanApply
<1>5. \A i \in S : Deposited(slices[i]) > 0 /\ accrued(i) \in Nat
  <2> SUFFICES ASSUME NEW i \in S PROVE Deposited(slices[i]) > 0 /\ accrued(i) \in Nat
    OBVIOUS
  <2>1. /\ Deposited(slices[i]) > 0 /\ slices[i].principalDeployed <= Deposited(slices[i])
        /\ returned \in Nat
    BY DEF CanApply
  <2>2. slices[i].principalDeployed \in Nat /\ Deposited(slices[i]) \in Nat
    <3>1. slices[i] \in SliceType
      BY <1>2
    <3> QED BY <3>1, SliceFacts
  <2> HIDE DEF returned
  <2>3. scaleByFraction(returned, slices[i].principalDeployed, total) \in Nat
    BY <1>4, <2>1, <2>2, ScaleFacts
  <2> QED BY <2>1, <2>2, <2>3 DEF SlicePrincipalAccrued
<1> HIDE DEF accrued
\* What each slice gets of an amount.
<1>6. ASSUME NEW a \in Nat
      PROVE  /\ \A i \in S : part(a, i) \in Nat
             /\ SumFunctionOnSet([i \in S |-> part(a, i)], S) \in Nat
             /\ SumFunctionOnSet([i \in S |-> part(a, i)], S) <= a
  <2> DEFINE parts == [i \in S |-> part(a, i)]
  <2>1. \A i \in S : parts[i] = scaleByFraction(a, deployed[i], total)
    OBVIOUS
  <2>2. \A i \in S : parts[i] = part(a, i)
    OBVIOUS
  <2> HIDE DEF parts, deployed
  <2>3. /\ \A i \in S : parts[i] \in Nat
        /\ SumFunctionOnSet(parts, S) \in Nat
        /\ SumFunctionOnSet(parts, S) <= a
    <3> HIDE DEF S, senior, junior, iLeft, pLeft, interestLeft, principalLeft
    <3> QED BY <1>2, <1>4, <2>1, PartsFacts
  <2> HIDE DEF part, S
  <2> QED BY <2>2, <2>3 DEF parts
<1> HIDE DEF deployed, part
\* The senior tranches.
<1>7. \A i \in S : Served(senior[i], slices[i].senior, slices[i],
                          part(interest, i), part(principal, i), accrued(i))
  <2> SUFFICES ASSUME NEW i \in S
               PROVE  Served(senior[i], slices[i].senior, slices[i],
                             part(interest, i), part(principal, i), accrued(i))
    OBVIOUS
  <2>1. slices[i] \in SliceType /\ Deposited(slices[i]) > 0 /\ accrued(i) \in Nat
    BY <1>2, <1>5
  <2>2. part(interest, i) \in Nat /\ part(principal, i) \in Nat
    BY <1>6
  <2>3. senior[i] = applyToSeniorTranche(slices[i], part(interest, i),
                                         part(principal, i), accrued(i))
    OBVIOUS
  <2> HIDE DEF senior, S
  <2> QED BY <2>1, <2>2, <2>3, SeniorTrancheFacts
<1>8. interestLeft \in Nat /\ principalLeft \in Nat
  <2>1. \A i \in S : iLeft[i] \in Nat /\ pLeft[i] \in Nat
    BY <1>7 DEF Served
  <2> HIDE DEF iLeft, pLeft
  <2> QED BY <1>2, <2>1, SumOfNaturals
<1> HIDE DEF senior
<1> HIDE DEF interestLeft, principalLeft
\* The junior tranches.
<1>9. \A i \in S : Served(junior[i], slices[i].junior, slices[i],
                          part(interestLeft, i), part(principalLeft, i), accrued(i))
  <2> SUFFICES ASSUME NEW i \in S
               PROVE  Served(junior[i], slices[i].junior, slices[i],
                             part(interestLeft, i), part(principalLeft, i), accrued(i))
    OBVIOUS
  <2>1. slices[i] \in SliceType /\ Deposited(slices[i]) > 0 /\ accrued(i) \in Nat
    BY <1>2, <1>5
  <2>2. part(interestLeft, i) \in Nat /\ part(principalLeft, i) \in Nat
    BY <1>6, <1>8
  <2>3. junior[i] = applyToJuniorTranche(slices[i], part(interestLeft, i),
                                         part(principalLeft, i), accrued(i))
    OBVIOUS
  <2> HIDE DEF junior, S
  <2> QED BY <2>1, <2>2, <2>3, JuniorTrancheFacts
<1> HIDE DEF junior
<1>10. \A i \in S : Paid(slices[i], out[i], accrued(i))
  <2> SUFFICES ASSUME NEW i \in S PROVE Paid(slices[i], out[i], accrued(i))
    OBVIOUS
  <2>1. slices[i] \in SliceType
    BY <1>2
  <2>2. Served(senior[i], slices[i].senior, slices[i],
               part(interest, i), part(principal, i), accrued(i))
    BY <1>7
  <2>3. Served(junior[i], slices[i].junior, slices[i],
               part(interestLeft, i), part(principalLeft, i), accrued(i))
    BY <1>9
  <2> DEFINE s == senior[i].applied.tranche
             j == junior[i].applied.tranche
  <2>4. out[i] = [slices[i] EXCEPT !.senior = s, !.junior = j]
    OBVIOUS
  <2>5. s \in TrancheType /\ j \in TrancheType
    BY <2>2, <2>3 DEF Served
  <2>6. /\ s.principalDeposited = slices[i].senior.principalDeposited
        /\ s.lockedUntil = slices[i].senior.lockedUntil
        /\ \/ s.principalSharePrice <= slices[i].senior.principalSharePrice
           \/ s.principalSharePrice * Deposited(slices[i]) <= accrued(i) * FP_SCALING_FACTOR
    BY <2>2 DEF Served
  <2>7. /\ j.principalDeposited = slices[i].junior.principalDeposited
        /\ j.lockedUntil = slices[i].junior.lockedUntil
        /\ \/ j.principalSharePrice <= slices[i].junior.principalSharePrice
           \/ j.principalSharePrice * Deposited(slices[i]) <= accrued(i) * FP_SCALING_FACTOR
    BY <2>3 DEF Served
  <2> HIDE DEF s, j
  <2>8. [slices[i] EXCEPT !.senior = s, !.junior = j] \in SliceType
    BY <2>1, <2>5 DEF SliceType
  <2>9. /\ out[i].senior = s /\ out[i].junior = j
        /\ out[i].totalInterestAccrued = slices[i].totalInterestAccrued
        /\ out[i].principalDeployed = slices[i].principalDeployed
    BY <2>1, <2>4 DEF SliceType
  <2> HIDE DEF out
  <2>10. out[i]["senior"] = s /\ out[i]["junior"] = j
    BY <2>9
  <2>11. \A kind \in Kinds :
          /\ out[i][kind].principalDeposited = slices[i][kind].principalDeposited
          /\ out[i][kind].lockedUntil = slices[i][kind].lockedUntil
          /\ \/ out[i][kind].principalSharePrice <= slices[i][kind].principalSharePrice
             \/ out[i][kind].principalSharePrice * Deposited(slices[i])
                  <= accrued(i) * FP_SCALING_FACTOR
    BY <2>6, <2>7, <2>10 DEF Kinds
  <2> QED BY <2>4, <2>8, <2>9, <2>11 DEF Paid
\* The sums.
<1> DEFINE es == [i \in S |-> Entitlement(slices[i].senior)]
           ej == [i \in S |-> Entitlement(slices[i].junior)]
           esOut == [i \in S |-> Entitlement(out[i].senior)]
           ejOut == [i \in S |-> Entitlement(out[i].junior)]
           rs == [i \in S |-> senior[i].reserve]
           rj == [i \in S |-> junior[i].reserve]
           iRest == [i \in S |-> junior[i].applied.interest]
           pRest == [i \in S |-> junior[i].applied.principal]
           iPart == [i \in S |-> part(interest, i)]
           pPart == [i \in S |-> part(principal, i)]
           iNext == [i \in S |-> part(interestLeft, i)]
           pNext == [i \in S |-> part(principalLeft, i)]
<1>11. \A i \in S : /\ out[i].senior = senior[i].applied.tranche
                    /\ out[i].junior = junior[i].applied.tranche
  BY <1>2 DEF SliceType
<1>12. \A i \in S :
         /\ esOut[i] \in Int /\ iLeft[i] \in Int /\ pLeft[i] \in Int /\ rs[i] \in Int
         /\ es[i] \in Int /\ iPart[i] \in Int /\ pPart[i] \in Int
         /\ esOut[i] + iLeft[i] + pLeft[i] + rs[i] <= es[i] + iPart[i] + pPart[i]
  <2> SUFFICES ASSUME NEW i \in S
      PROVE /\ esOut[i] \in Int /\ iLeft[i] \in Int /\ pLeft[i] \in Int /\ rs[i] \in Int
            /\ es[i] \in Int /\ iPart[i] \in Int /\ pPart[i] \in Int
            /\ esOut[i] + iLeft[i] + pLeft[i] + rs[i] <= es[i] + iPart[i] + pPart[i]
    OBVIOUS
  <2>1. Served(senior[i], slices[i].senior, slices[i],
               part(interest, i), part(principal, i), accrued(i))
    BY <1>7
  <2>2. slices[i].senior \in TrancheType
    BY <1>2 DEF SliceType
  <2>3. /\ senior[i].applied.tranche \in TrancheType /\ senior[i].reserve \in Nat
        /\ senior[i].applied.interest \in Nat /\ senior[i].applied.principal \in Nat
        /\ Entitlement(senior[i].applied.tranche) + senior[i].applied.interest
             + senior[i].applied.principal + senior[i].reserve
             <= Entitlement(slices[i].senior) + part(interest, i) + part(principal, i)
    BY <2>1 DEF Served
  <2>4. part(interest, i) \in Nat /\ part(principal, i) \in Nat
    BY <1>6
  <2>5. /\ Entitlement(senior[i].applied.tranche) \in Nat
        /\ Entitlement(slices[i].senior) \in Nat
    BY <2>2, <2>3, EntitlementFacts
  <2>6. out[i].senior = senior[i].applied.tranche
    BY <1>11
  <2> HIDE DEF out
  <2> QED BY <2>3, <2>4, <2>5, <2>6
<1>13. \A i \in S :
         /\ ejOut[i] \in Int /\ iRest[i] \in Int /\ pRest[i] \in Int /\ rj[i] \in Int
         /\ ej[i] \in Int /\ iNext[i] \in Int /\ pNext[i] \in Int
         /\ ejOut[i] + iRest[i] + pRest[i] + rj[i] <= ej[i] + iNext[i] + pNext[i]
         /\ iRest[i] \in Nat /\ pRest[i] \in Nat
  <2> SUFFICES ASSUME NEW i \in S
      PROVE /\ ejOut[i] \in Int /\ iRest[i] \in Int /\ pRest[i] \in Int /\ rj[i] \in Int
            /\ ej[i] \in Int /\ iNext[i] \in Int /\ pNext[i] \in Int
            /\ ejOut[i] + iRest[i] + pRest[i] + rj[i] <= ej[i] + iNext[i] + pNext[i]
            /\ iRest[i] \in Nat /\ pRest[i] \in Nat
    OBVIOUS
  <2>1. Served(junior[i], slices[i].junior, slices[i],
               part(interestLeft, i), part(principalLeft, i), accrued(i))
    BY <1>9
  <2>2. slices[i].junior \in TrancheType
    BY <1>2 DEF SliceType
  <2>3. /\ junior[i].applied.tranche \in TrancheType /\ junior[i].reserve \in Nat
        /\ junior[i].applied.interest \in Nat /\ junior[i].applied.principal \in Nat
        /\ Entitlement(junior[i].applied.tranche) + junior[i].applied.interest
             + junior[i].applied.principal + junior[i].reserve
             <= Entitlement(slices[i].junior) + part(interestLeft, i) + part(principalLeft, i)
    BY <2>1 DEF Served
  <2>4. part(interestLeft, i) \in Nat /\ part(principalLeft, i) \in Nat
    BY <1>6, <1>8
  <2>5. /\ Entitlement(junior[i].applied.tranche) \in Nat
        /\ Entitlement(slices[i].junior) \in Nat
    BY <2>2, <2>3, EntitlementFacts
  <2>6. out[i].junior = junior[i].applied.tranche
    BY <1>11
  <2> HIDE DEF out
  <2> QED BY <2>3, <2>4, <2>5, <2>6
<1>14. \A i \in S : rs[i] \in Nat /\ rj[i] \in Nat /\ fees[i] = rs[i] + rj[i]
                    /\ rs[i] + iLeft[i] + pLeft[i] <= iPart[i] + pPart[i]
                    /\ rj[i] + iRest[i] + pRest[i] <= iNext[i] + pNext[i]
  BY <1>7, <1>9 DEF Served
<1> HIDE DEF es, ej, esOut, ejOut, rs, rj, iRest, pRest, iPart, pPart, iNext, pNext
<1> HIDE DEF iLeft, pLeft, fees
<1>15. /\ SumFunctionOnSet(iPart, S) \in Nat /\ SumFunctionOnSet(iPart, S) <= interest
       /\ SumFunctionOnSet(pPart, S) \in Nat /\ SumFunctionOnSet(pPart, S) <= principal
  BY <1>6 DEF iPart, pPart
<1>16. /\ SumFunctionOnSet(iNext, S) \in Nat /\ SumFunctionOnSet(iNext, S) <= interestLeft
       /\ SumFunctionOnSet(pNext, S) \in Nat /\ SumFunctionOnSet(pNext, S) <= principalLeft
  BY <1>6, <1>8 DEF iNext, pNext
<1> HIDE DEF S
<1>17. SumFunctionOnSet(esOut, S) + SumFunctionOnSet(iLeft, S)
             + SumFunctionOnSet(pLeft, S) + SumFunctionOnSet(rs, S)
             <= SumFunctionOnSet(es, S) + SumFunctionOnSet(iPart, S) + SumFunctionOnSet(pPart, S)
  BY <1>2, <1>12, LedgerSums
<1>18. SumFunctionOnSet(ejOut, S) + SumFunctionOnSet(iRest, S)
             + SumFunctionOnSet(pRest, S) + SumFunctionOnSet(rj, S)
             <= SumFunctionOnSet(ej, S) + SumFunctionOnSet(iNext, S) + SumFunctionOnSet(pNext, S)
  <2>1. \A i \in S :
         /\ ejOut[i] \in Int /\ iRest[i] \in Int /\ pRest[i] \in Int /\ rj[i] \in Int
         /\ ej[i] \in Int /\ iNext[i] \in Int /\ pNext[i] \in Int
         /\ ejOut[i] + iRest[i] + pRest[i] + rj[i] <= ej[i] + iNext[i] + pNext[i]
    BY <1>13
  <2> QED BY <1>2, <2>1, LedgerSums
<1>19. /\ SumFunctionOnSet(iRest, S) \in Nat /\ SumFunctionOnSet(pRest, S) \in Nat
       /\ SumFunctionOnSet(rs, S) \in Nat /\ SumFunctionOnSet(rj, S) \in Nat
  <2>1. \A i \in S : iRest[i] \in Nat
    BY <1>13
  <2>2. \A i \in S : pRest[i] \in Nat
    BY <1>13
  <2>3. \A i \in S : rs[i] \in Nat
    BY <1>14
  <2>4. \A i \in S : rj[i] \in Nat
    BY <1>14
  <2> QED BY <1>2, <2>1, <2>2, <2>3, <2>4, SumOfNaturals
<1>20. SumFunctionOnSet(fees, S) = SumFunctionOnSet(rs, S) + SumFunctionOnSet(rj, S)
  <2>1. \A i \in S : rs[i] \in Int /\ rj[i] \in Int /\ fees[i] = rs[i] + rj[i]
    BY <1>14
  <2> QED BY <1>2, <2>1, SumPlus
<1>21. interestLeft = SumFunctionOnSet(iLeft, S) /\ principalLeft = SumFunctionOnSet(pLeft, S)
  BY DEF interestLeft, principalLeft
\* The reserve: the senior tranches' fees and what they pass on come from the payment,
\* the junior tranches' fees from what was passed on.
<1> DEFINE zero == [i \in S |-> 0]
<1>22. SumFunctionOnSet(zero, S) \in Int
  BY <1>2, SumType
<1>23. SumFunctionOnSet(rs, S) + SumFunctionOnSet(iLeft, S) + SumFunctionOnSet(pLeft, S)
         <= SumFunctionOnSet(iPart, S) + SumFunctionOnSet(pPart, S)
  <2>1. \A i \in S :
         /\ zero[i] \in Int /\ iLeft[i] \in Int /\ pLeft[i] \in Int /\ rs[i] \in Int
         /\ zero[i] \in Int /\ iPart[i] \in Int /\ pPart[i] \in Int
         /\ zero[i] + iLeft[i] + pLeft[i] + rs[i] <= zero[i] + iPart[i] + pPart[i]
    BY <1>12, <1>14
  <2> HIDE DEF zero
  <2>2. SumFunctionOnSet(zero, S) + SumFunctionOnSet(iLeft, S)
             + SumFunctionOnSet(pLeft, S) + SumFunctionOnSet(rs, S)
             <= SumFunctionOnSet(zero, S) + SumFunctionOnSet(iPart, S) + SumFunctionOnSet(pPart, S)
    BY <1>2, <2>1, LedgerSums
  <2>3. SumFunctionOnSet(iLeft, S) \in Nat /\ SumFunctionOnSet(pLeft, S) \in Nat
    BY <1>8, <1>21
  <2> QED BY <1>15, <1>19, <1>22, <2>2, <2>3
<1>24. SumFunctionOnSet(rj, S) <= SumFunctionOnSet(iNext, S) + SumFunctionOnSet(pNext, S)
  <2>1. \A i \in S :
         /\ zero[i] \in Int /\ iRest[i] \in Int /\ pRest[i] \in Int /\ rj[i] \in Int
         /\ zero[i] \in Int /\ iNext[i] \in Int /\ pNext[i] \in Int
         /\ zero[i] + iRest[i] + pRest[i] + rj[i] <= zero[i] + iNext[i] + pNext[i]
    BY <1>13, <1>14
  <2> HIDE DEF zero
  <2>2. SumFunctionOnSet(zero, S) + SumFunctionOnSet(iRest, S)
             + SumFunctionOnSet(pRest, S) + SumFunctionOnSet(rj, S)
             <= SumFunctionOnSet(zero, S) + SumFunctionOnSet(iNext, S) + SumFunctionOnSet(pNext, S)
    BY <1>2, <2>1, LedgerSums
  <2> QED BY <1>16, <1>19, <1>22, <2>2
<1>25. SumFunctionOnSet(fees, S) \in 0..(interest + principal)
  <2>1. SumFunctionOnSet(rs, S) + interestLeft + principalLeft <= interest + principal
    BY <1>8, <1>15, <1>19, <1>21, <1>23
  <2>2. SumFunctionOnSet(rj, S) <= interestLeft + principalLeft
    BY <1>8, <1>16, <1>19, <1>24
  <2>3. SumFunctionOnSet(fees, S) \in Nat
    BY <1>19, <1>20
  <2>4. SumFunctionOnSet(fees, S) <= interest + principal
    BY <1>8, <1>19, <1>20, <2>1, <2>2
  <2> QED BY <2>3, <2>4
\* What the tranches are entitled to.
<1>26. /\ SumFunctionOnSet([i \in S |-> SliceEntitlement(slices[i])], S)
            = SumFunctionOnSet(es, S) + SumFunctionOnSet(ej, S)
       /\ SumFunctionOnSet(es, S) \in Nat /\ SumFunctionOnSet(ej, S) \in Nat
  BY <1>2, SumPlusEntitlements DEF es, ej
<1>27. \A i \in S : out[i] \in SliceType
  BY <1>10 DEF Paid
<1> HIDE DEF out
<1>28. /\ SumFunctionOnSet([i \in S |-> SliceEntitlement(out[i])], S)
            = SumFunctionOnSet(esOut, S) + SumFunctionOnSet(ejOut, S)
       /\ SumFunctionOnSet(esOut, S) \in Nat /\ SumFunctionOnSet(ejOut, S) \in Nat
  BY <1>2, <1>27, SumPlusEntitlements DEF esOut, ejOut
<1>29. SumFunctionOnSet([i \in S |-> SliceEntitlement(out[i])], S) + SumFunctionOnSet(fees, S)
         <= SumFunctionOnSet([i \in S |-> SliceEntitlement(slices[i])], S)
              + interest + principal
  <2> DEFINE senBefore == SumFunctionOnSet(es, S)
             junBefore == SumFunctionOnSet(ej, S)
             senAfter == SumFunctionOnSet(esOut, S)
             junAfter == SumFunctionOnSet(ejOut, S)
             senFees == SumFunctionOnSet(rs, S)
             junFees == SumFunctionOnSet(rj, S)
             iGiven == SumFunctionOnSet(iPart, S)
             pGiven == SumFunctionOnSet(pPart, S)
             iAgain == SumFunctionOnSet(iNext, S)
             pAgain == SumFunctionOnSet(pNext, S)
             iOver == SumFunctionOnSet(iRest, S)
             pOver == SumFunctionOnSet(pRest, S)
  <2>1. /\ senBefore \in Nat /\ junBefore \in Nat /\ senAfter \in Nat /\ junAfter \in Nat
        /\ senFees \in Nat /\ junFees \in Nat /\ iOver \in Nat /\ pOver \in Nat
        /\ iGiven \in Nat /\ iGiven <= interest /\ pGiven \in Nat /\ pGiven <= principal
        /\ iAgain \in Nat /\ iAgain <= interestLeft /\ pAgain \in Nat /\ pAgain <= principalLeft
    BY <1>15, <1>16, <1>19, <1>26, <1>28
  <2>2. senAfter + interestLeft + principalLeft + senFees <= senBefore + iGiven + pGiven
    BY <1>17, <1>21
  <2>3. junAfter + iOver + pOver + junFees <= junBefore + iAgain + pAgain
    BY <1>18
  <2>6. SumFunctionOnSet(fees, S) = senFees + junFees
    BY <1>20
  <2>4. SumFunctionOnSet([i \in S |-> SliceEntitlement(out[i])], S)
          = senAfter + junAfter
    BY <1>28
  <2>5. SumFunctionOnSet([i \in S |-> SliceEntitlement(slices[i])], S)
          = senBefore + junBefore
    BY <1>26
  <2> HIDE DEF senBefore, junBefore, senAfter, junAfter, senFees, junFees, iGiven, pGiven, iAgain, pAgain, iOver, pOver
  <2>7. senAfter + junAfter + (senFees + junFees) <= senBefore + junBefore + interest + principal
    <3>1. iGiven \in Nat /\ pGiven \in Nat /\ iGiven <= interest /\ pGiven <= principal
      BY <2>1
    <3>2. iAgain \in Nat /\ pAgain \in Nat
          /\ iAgain <= interestLeft /\ pAgain <= principalLeft
      BY <2>1
    <3>3. senBefore \in Nat /\ senAfter \in Nat /\ senFees \in Nat
      BY <2>1
    <3>4. junBefore \in Nat /\ junAfter \in Nat /\ junFees \in Nat
      BY <2>1
    <3>5. iOver \in Nat /\ pOver \in Nat
      BY <2>1
    <3>6. PICK left \in Nat, given \in Nat :
             left = interestLeft + principalLeft /\ given = interest + principal
      BY <1>8
    <3>7. PICK paid \in Nat, again \in Nat :
             /\ paid = iGiven + pGiven /\ again = iAgain + pAgain
             /\ paid <= given /\ again <= left
      BY <1>8, <3>1, <3>2, <3>6
    <3>8. PICK over \in Nat : over = iOver + pOver
      BY <3>5
    <3>9. senAfter + senFees + left <= senBefore + paid
      <4>1. senAfter + interestLeft + principalLeft + senFees = senAfter + senFees + left
        BY <1>8, <3>3, <3>6
      <4>2. senBefore + iGiven + pGiven = senBefore + paid
        BY <3>1, <3>3, <3>7
      <4> QED BY <2>2, <4>1, <4>2
    <3>10. junAfter + junFees + over <= junBefore + again
      <4>1. junAfter + iOver + pOver + junFees = junAfter + junFees + over
        BY <3>4, <3>5, <3>8
      <4>2. junBefore + iAgain + pAgain = junBefore + again
        BY <3>2, <3>4, <3>7
      <4> QED BY <2>3, <4>1, <4>2
    <3>11. senAfter + senFees + left <= senBefore + given
      BY <3>3, <3>7, <3>9
    <3>12. junAfter + junFees <= junBefore + left
      BY <3>4, <3>7, <3>10
    <3>13. (senAfter + senFees) + (junAfter + junFees) <= (senBefore + junBefore) + given
      <4>1. PICK a \in Nat, b \in Nat : a = senAfter + senFees /\ b = junAfter + junFees
        BY <3>3, <3>4
      <4>2. PICK c \in Nat, d \in Nat : c = senBefore /\ d = junBefore
        BY <3>3, <3>4
      <4>3. a + left <= c + given /\ b <= d + left
        BY <3>11, <3>12, <4>1, <4>2
      <4>4. a + b <= (c + d) + given
        BY <4>3
      <4> QED BY <4>1, <4>2, <4>4
    <3>14. (senBefore + junBefore) + given = senBefore + junBefore + interest + principal
      BY <3>3, <3>4, <3>6
    <3>15. (senAfter + senFees) + (junAfter + junFees) = senAfter + junAfter + (senFees + junFees)
      BY <3>3, <3>4
    <3> QED BY <3>13, <3>14, <3>15
  <2> QED BY <2>4, <2>5, <2>6, <2>7
<1>30. DOMAIN out = S
  BY DEF out
<1> QED BY <1>1, <1>10, <1>25, <1>29, <1>30 DEF accrued, S

-----------------------------------------------------------------------------
(* One slice: senior before junior.                                        *)

\* A price that is worth no more than an amount for the slice's deposits is hardly
\* above the senior tranche's price for the amount, which lacks what three divisions
\* round off.
LEMMA ExpectedPriceLacksLittle ==
    ASSUME NEW slice \in SliceType, NEW a \in Nat, a <= Deposited(slice),
           slice.senior.principalDeposited > 0,
           NEW g \in Nat, g * Deposited(slice) <= a * FP_SCALING_FACTOR
    PROVE  LET n == slice.senior.principalDeposited
               e == calculateExpectedSharePrice(slice.senior, a, slice)
           IN  g * n <= (e + 2) * n + Deposited(slice)
<1> DEFINE F == FP_SCALING_FACTOR
           n == slice.senior.principalDeposited
           D == Deposited(slice)
           u == usdcToSharePrice(a, n)
           k == (n * F) \div D
           e == (k * u) \div F
<1>1. /\ slice.senior \in TrancheType /\ slice.junior \in TrancheType
      /\ n \in Nat \ {0} /\ slice.junior.principalDeposited \in Nat
      /\ F \in Nat \ {0}
  BY SliceFacts, Scaling
<1>2. D \in Nat \ {0} /\ n <= D
  BY <1>1 DEF Deposited
<1>3. g * D <= a * F
  OBVIOUS
<1>4. e = calculateExpectedSharePrice(slice.senior, a, slice)
  BY DEF calculateExpectedSharePrice, scaleByFraction
<1>5. u \in Nat /\ u * n <= a * F /\ u = (a * F) \div n
  <2>1. u = (a * F) \div n
    BY <1>1 DEF usdcToSharePrice
  <2>2. u \in Nat /\ u * n <= a * F
    BY <1>1, SharePriceFacts
  <2> QED BY <2>1, <2>2
<1> HIDE DEF F, n, D
<1>6. a * F < (u + 1) * n
  <2>1. a * F \in Nat
    BY <1>1
  <2> HIDE DEF u
  <2> QED BY <1>1, <1>5, <2>1, FloorFacts
<1> HIDE DEF u
<1>7. k \in Nat /\ k * D <= n * F /\ n * F < (k + 1) * D
  <2>1. n * F \in Nat
    BY <1>1
  <2> QED BY <1>2, <2>1, FloorFacts
<1> HIDE DEF k
<1>8. e \in Nat /\ k * u < (e + 1) * F
  <2>1. k * u \in Nat
    BY <1>5, <1>7
  <2> QED BY <1>1, <2>1, FloorFacts
<1> HIDE DEF e
<1>9. k <= F
  <2>1. n * F <= D * F
    BY <1>1, <1>2, Multiply
  <2>2. k * D <= F * D
    BY <1>1, <1>2, <1>7, <2>1
  <2> QED BY <1>1, <1>2, <1>7, <2>2, Cancel
\* F * F * a is less than (k + 1) * (u + 1) * D.
<1>10. F * (a * F) <= ((u + 1) * (k + 1)) * D
  <2>1. (n * F) * (a * F) <= ((k + 1) * D) * ((u + 1) * n)
    <3>0. /\ n * F \in Nat /\ a * F \in Nat /\ (k + 1) * D \in Nat /\ (u + 1) * n \in Nat
          /\ n * F <= (k + 1) * D /\ a * F <= (u + 1) * n
      BY <1>1, <1>2, <1>5, <1>6, <1>7
    <3>1. PICK x \in Nat, y \in Nat, z \in Nat, w \in Nat :
             /\ x = n * F /\ y = a * F /\ z = (k + 1) * D /\ w = (u + 1) * n
             /\ x <= z /\ y <= w
      BY <3>0
    <3>2. x * y <= z * y
      BY <3>1, Multiply
    <3>3. y * z <= w * z
      BY <3>1, Multiply
    <3>4. x * y <= z * w
      BY <3>1, <3>2, <3>3
    <3> QED BY <3>1, <3>4
  <2>2. (n * F) * (a * F) = (F * (a * F)) * n
    BY <1>1
  <2>3. ((k + 1) * D) * ((u + 1) * n) = (((u + 1) * (k + 1)) * D) * n
    BY <1>1, <1>2, <1>5, <1>7
  <2>4. F * (a * F) \in Int /\ ((u + 1) * (k + 1)) * D \in Int
    BY <1>1, <1>2, <1>5, <1>7
  <2> QED BY <1>1, <2>1, <2>2, <2>3, <2>4, Cancel
<1>11. (u + 1) * (k + 1) <= (e + 2) * F + u
  <2>1. (u + 1) * (k + 1) = k * u + k + u + 1
    BY <1>5, <1>7
  <2>2. (e + 2) * F = (e + 1) * F + F
    BY <1>1, <1>8
  <2>3. PICK x \in Nat, y \in Nat : x = k * u /\ y = (e + 1) * F /\ x < y
    BY <1>1, <1>5, <1>7, <1>8
  <2> QED BY <1>1, <1>5, <1>7, <1>9, <2>1, <2>2, <2>3
<1>12. F * (a * F) <= ((e + 2) * F + u) * D
  <2>1. ((u + 1) * (k + 1)) * D <= ((e + 2) * F + u) * D
    <3>1. (u + 1) * (k + 1) \in Int /\ (e + 2) * F + u \in Int
      BY <1>1, <1>5, <1>7, <1>8
    <3> QED BY <1>2, <1>11, <3>1, Multiply
  <2>2. /\ F * (a * F) \in Int /\ ((u + 1) * (k + 1)) * D \in Int
        /\ ((e + 2) * F + u) * D \in Int
    BY <1>1, <1>2, <1>5, <1>7, <1>8
  <2> QED BY <1>10, <2>1, <2>2
\* Multiplied by n, u * n is at most a * F, which cancels F.
<1>13. (a * F) * n <= ((e + 2) * n) * D + a * D
  <2>1. (F * (a * F)) * n <= (((e + 2) * F + u) * D) * n
    <3>1. F * (a * F) \in Int /\ ((e + 2) * F + u) * D \in Int
      BY <1>1, <1>2, <1>5, <1>8
    <3> QED BY <1>1, <1>12, <3>1, Multiply
  <2>2. (((e + 2) * F + u) * D) * n = (((e + 2) * n) * D) * F + (u * n) * D
    BY <1>1, <1>2, <1>5, <1>8
  <2>3. (u * n) * D <= (a * F) * D
    <3>1. u * n \in Int /\ a * F \in Int
      BY <1>1, <1>5
    <3> QED BY <1>2, <1>5, <3>1, Multiply
  <2>4. (a * F) * D = (a * D) * F
    BY <1>1, <1>2
  <2>5. (F * (a * F)) * n = ((a * F) * n) * F
    BY <1>1
  <2>6. ((a * F) * n) * F <= (((e + 2) * n) * D + a * D) * F
    <3>1. (((e + 2) * n) * D + a * D) * F = (((e + 2) * n) * D) * F + (a * D) * F
      BY <1>1, <1>2, <1>8
    <3>2. /\ (((e + 2) * n) * D) * F \in Int /\ (u * n) * D \in Int /\ (a * D) * F \in Int
          /\ ((a * F) * n) * F \in Int
      BY <1>1, <1>2, <1>5, <1>8
    <3> QED BY <2>1, <2>2, <2>3, <2>4, <2>5, <3>1, <3>2
  <2>7. (a * F) * n \in Int /\ ((e + 2) * n) * D + a * D \in Int
    BY <1>1, <1>2, <1>8
  <2> QED BY <1>1, <2>6, <2>7, Cancel
<1>14. (g * n) * D <= ((e + 2) * n + D) * D
  <2>1. (g * D) * n <= (a * F) * n
    <3>1. g * D \in Int /\ a * F \in Int
      BY <1>1, <1>2, <1>3
    <3> QED BY <1>1, <1>3, <3>1, Multiply
  <2>2. a * D <= D * D
    BY <1>2, Multiply DEF D
  <2>3. /\ (g * D) * n = (g * n) * D
        /\ ((e + 2) * n + D) * D = ((e + 2) * n) * D + D * D
    BY <1>1, <1>2, <1>3, <1>8
  <2>4. /\ (g * n) * D \in Int /\ (a * F) * n \in Int /\ ((e + 2) * n) * D \in Int
        /\ a * D \in Int /\ D * D \in Int
    BY <1>1, <1>2, <1>3, <1>8
  <2> QED BY <1>13, <2>1, <2>2, <2>3, <2>4
<1>15. g * n <= (e + 2) * n + D
  <2>1. g * n \in Int /\ (e + 2) * n + D \in Int
    BY <1>1, <1>2, <1>3, <1>8
  <2> QED BY <1>2, <1>14, <2>1, Cancel
<1> QED BY <1>4, <1>15 DEF n, D

\* What a price is raised by, up to an expected one, when all that is desired can be
\* applied: it lacks two roundings, of the amount and of the price.
LEMMA FullyApplied ==
    ASSUME NEW price \in Nat, NEW desired \in Nat, NEW n \in Nat \ {0}
    PROVE  LET d == desiredAmountFromSharePrice(desired, price, n)
           IN  desired * n <= (price + usdcToSharePrice(d, n)) * n + n + FP_SCALING_FACTOR
<1> DEFINE F == FP_SCALING_FACTOR
           d == desiredAmountFromSharePrice(desired, price, n)
           v == usdcToSharePrice(d, n)
<1>1. F \in Nat \ {0}
  BY Scaling
<1>2. d \in Nat
  BY DesiredFacts
<1>3. v \in Nat
  BY <1>2, SharePriceFacts
<1>4. CASE desired < price
  <2> HIDE DEF v, F
  <2>1. desired * n <= (price + v) * n
    BY <1>3, <1>4, Multiply
  <2> QED BY <1>1, <1>3, <2>1 DEF v, F
<1>5. CASE ~ (desired < price)
  <2>1. desired - price \in Nat /\ d = sharePriceToUsdc(desired - price, n)
    BY <1>5 DEF desiredAmountFromSharePrice
  <2>2. (desired - price) * n < (d + 1) * F
    BY <2>1, UsdcFacts
  <2>3. d * F < (v + 1) * n
    <3>1. v = (d * F) \div n
      BY DEF usdcToSharePrice
    <3>2. d * F \in Nat
      BY <1>1, <1>2
    <3> HIDE DEF v, d, F
    <3> QED BY <3>1, <3>2, FloorFacts
  <2> HIDE DEF v, d, F
  <2>4. (d + 1) * F = d * F + F /\ (v + 1) * n = v * n + n
        /\ (desired - price) * n = desired * n - price * n
        /\ (price + v) * n = price * n + v * n
    BY <1>1, <1>2, <1>3
  <2>5. /\ d * F \in Int /\ v * n \in Int /\ desired * n \in Int /\ price * n \in Int
    BY <1>1, <1>2, <1>3
  <2>6. desired * n <= (price + v) * n + n + F
    BY <1>1, <2>2, <2>3, <2>4, <2>5
  <2> QED BY <2>6 DEF v, d, F
<1> QED BY <1>4, <1>5

\* A price is raised; when there is more than what is desired, by all of that.
LEMMA AppliedToPrice ==
    ASSUME NEW amount \in Nat, NEW price \in Nat, NEW desired \in Nat, NEW n \in Nat
    PROVE  LET r == applyToSharePrice(amount, price, desired, n)
           IN  /\ price <= r.price
               /\ r.remaining # 0 => r.price = price + usdcToSharePrice(desired, n)
               /\ amount = 0 => r.price = price
<1>1. price <= applyToSharePrice(amount, price, desired, n).price
  BY ApplyToPriceFacts
<1>2. usdcToSharePrice(0, n) = 0
  BY NothingToPrice
<1>3. amount = 0 => ~ (desired < amount) /\ (amount < desired \/ desired = 0)
  OBVIOUS
<1> QED BY <1>1, <1>2, <1>3 DEF applyToSharePrice

\* The senior tranche passes principal on only when it has all that it is to have.
LEMMA SeniorServedFirst ==
    ASSUME NEW slice \in SliceType, NEW interest \in Nat, NEW principal \in Nat,
           NEW accrued \in Nat, slice.senior.principalDeposited > 0
    PROVE  LET n == slice.senior.principalDeposited
               r == applyToSeniorTranche(slice, interest, principal, accrued).applied
               e == calculateExpectedSharePrice(slice.senior, accrued, slice)
               q == r.tranche.principalSharePrice
           IN  /\ slice.senior.principalSharePrice <= q
               /\ r.principal # 0 => e * n <= q * n + n + FP_SCALING_FACTOR
<1> DEFINE n == slice.senior.principalDeposited
           p == slice.senior.principalSharePrice
           e == calculateExpectedSharePrice(slice.senior, accrued, slice)
           d == desiredAmountFromSharePrice(e, p, n)
           x == applyToSharePrice(principal, p, d, n)
           r == applyToSeniorTranche(slice, interest, principal, accrued).applied
<1>1. /\ slice.senior \in TrancheType /\ n \in Nat \ {0} /\ p \in Nat
      /\ Deposited(slice) > 0
  BY SliceFacts DEF TrancheType, Deposited
<1>2. e \in Nat
  BY <1>1, ExpectedPriceFacts
<1>3. /\ r.tranche.principalSharePrice = x.price
      /\ r.principal = x.remaining
  <2> HIDE DEF x
  <2> QED BY <1>1 DEF applyToSeniorTranche, applyBySharePrice, applyByAmount, TrancheType, x
<1> HIDE DEF e, r
<1>4. d \in Nat
  BY <1>1, <1>2, DesiredFacts
<1>5. e * n <= (p + usdcToSharePrice(d, n)) * n + n + FP_SCALING_FACTOR
  BY <1>1, <1>2, FullyApplied
<1> HIDE DEF d, n, p
<1>6. /\ p <= x.price
      /\ x.remaining # 0 => x.price = p + usdcToSharePrice(d, n)
  BY <1>1, <1>4, AppliedToPrice
<1> QED BY <1>3, <1>5, <1>6 DEF r, e, n, p

\* The junior tranche has no principal but what is passed on.
LEMMA JuniorServedLast ==
    ASSUME NEW slice \in SliceType, NEW interest \in Nat, NEW accrued \in Nat,
           Deposited(slice) > 0
    PROVE  applyToJuniorTranche(slice, interest, 0, accrued).applied.tranche.principalSharePrice
             = slice.junior.principalSharePrice
<1> DEFINE junior == slice.junior
           m == junior.principalDeposited
           toInterest == junior.interestSharePrice + usdcToSharePrice(interest, m)
           price == calculateExpectedSharePrice(junior, accrued, slice)
           di == desiredAmountFromSharePrice(toInterest, junior.interestSharePrice, m)
           d == desiredAmountFromSharePrice(price, junior.principalSharePrice, m)
           i == applyToSharePrice(interest, junior.interestSharePrice, di, m)
           x == applyToSharePrice(0, junior.principalSharePrice, d, m)
           f == [junior EXCEPT !.interestSharePrice = i.price, !.principalSharePrice = x.price]
           rest == i.remaining + x.remaining
                     - scaleByFraction(x.remaining, ReserveFeePercent, 100)
           y == applyToSharePrice(0, f.principalSharePrice, 0, f.principalDeposited)
           r == applyToJuniorTranche(slice, interest, 0, accrued).applied
<1>1. junior \in TrancheType /\ m \in Nat /\ junior.principalSharePrice \in Nat
  BY SliceFacts DEF TrancheType
<1>2. price \in Nat
  BY <1>1, ExpectedPriceFacts
<1>3. d \in Nat
  <2> HIDE DEF price, junior, m
  <2> QED BY <1>1, <1>2, DesiredFacts
<1>4. f.principalSharePrice = x.price /\ f.principalDeposited = m
  <2> HIDE DEF i, x
  <2> QED BY <1>1 DEF TrancheType
<1>5. r.tranche.principalSharePrice = y.price
  <2>1. applyBySharePrice(junior, interest, 0, toInterest, price)
          = [tranche |-> f, interest |-> i.remaining, principal |-> x.remaining]
    BY DEF applyBySharePrice, applyByAmount
  <2> DEFINE first == applyBySharePrice(junior, interest, 0, toInterest, price)
             over == first.interest + first.principal
                       - scaleByFraction(first.principal, ReserveFeePercent, 100)
  <2>2. r = applyByAmount(f, rest, 0, rest, 0)
    <3>1. r = applyByAmount(first.tranche, over, 0, over, 0)
      BY DEF applyToJuniorTranche
    <3> HIDE DEF first, f, i, x
    <3>2. first.tranche = f /\ first.interest = i.remaining /\ first.principal = x.remaining
      BY <2>1 DEF first
    <3>3. over = rest
      BY <3>2
    <3> HIDE DEF over, rest
    <3> QED BY <3>1, <3>2, <3>3
  <2> HIDE DEF first, over
  <2>3. f \in [DOMAIN junior -> UNION {Nat, {i.price, x.price}}]
    <3> HIDE DEF i, x
    <3> QED BY <1>1 DEF TrancheType
  <2> HIDE DEF f, rest
  <2>4. r.tranche = [f EXCEPT
             !.interestSharePrice =
                applyToSharePrice(rest, f.interestSharePrice, rest, f.principalDeposited).price,
             !.principalSharePrice = y.price]
    <3> HIDE DEF y
    <3> QED BY <2>2 DEF applyByAmount, y
  <2>5. DOMAIN f = DOMAIN junior
    BY <2>3
  <2>6. "principalSharePrice" \in DOMAIN f
    BY <1>1, <2>5 DEF TrancheType
  <2> HIDE DEF y
  <2> QED BY <2>4, <2>6
<1> HIDE DEF price, junior, m, d, r
<1>6. x.price = junior.principalSharePrice
  BY <1>1, <1>3, AppliedToPrice
<1>7. y.price = x.price
  <2>1. f.principalSharePrice \in Nat /\ f.principalDeposited \in Nat
    BY <1>1, <1>4, <1>6
  <2> HIDE DEF f, x
  <2>2. y.price = f.principalSharePrice
    BY <2>1, AppliedToPrice
  <2> QED BY <1>4, <2>2
<1> QED BY <1>5, <1>6, <1>7 DEF r, junior

\* With one slice, which has all that is deployed, every part is the whole.
LEMMA WholePart ==
    ASSUME NEW a \in Nat, NEW t \in Nat \ {0} PROVE scaleByFraction(a, t, t) = a
<1> DEFINE F == FP_SCALING_FACTOR
<1>1. F \in Nat \ {0} /\ t * F = F * t /\ F * a = a * F
  BY Scaling
<1>2. (t * F) \div t = F
  BY <1>1, WholeQuotient
<1>3. (F * a) \div F = a
  BY <1>1, WholeQuotient
<1> QED BY <1>2, <1>3 DEF scaleByFraction

\* A sequence of one element.
LEMMA OneElement ==
    ASSUME NEW S, NEW q \in Seq(S), Len(q) = 1 PROVE q[1] \in S /\ DOMAIN q = {1}
  BY SMT

\* What the price of a slice's senior tranche may lack by rounding.
Lacking(slice) ==
    (FP_SCALING_FACTOR + Deposited(slice)) \div slice.senior.principalDeposited + 3

\* A payment to a pool with one slice: either the junior tranche gets no principal, or
\* the senior tranche has, but for rounding, all that the slice has back.
LEMMA OneSliceServed ==
    ASSUME NEW pool \in Seq(SliceType), NEW interest \in Nat, NEW principal \in Nat,
           NEW total \in Nat, NEW left \in Nat, NEW owed \in Nat,
           CanApply(pool, total, left),
           Len(pool) = 1, pool[1].principalDeployed = total,
           pool[1].senior.principalDeposited > 0,
           SlicePrincipalAccrued(pool[1], total - left + owed, total) \in Nat,
           SlicePrincipalAccrued(pool[1], total - left + owed, total)
             <= Deposited(pool[1])
    PROVE  LET before == pool[1]
               after == applyToAllSlices(pool, interest, principal, total, left, owed).slices[1]
               ps == before.senior.principalSharePrice
               qs == after.senior.principalSharePrice
               pj == before.junior.principalSharePrice
               qj == after.junior.principalSharePrice
           IN  /\ ps <= qs
               /\ qj <= pj \/ qj <= qs + Lacking(before)
<1> DEFINE slice == pool[1]
           n == slice.senior.principalDeposited
           D == Deposited(slice)
           F == FP_SCALING_FACTOR
           accrued == SlicePrincipalAccrued(slice, total - left + owed, total)
           s == applyToSeniorTranche(slice, interest, principal, accrued)
           i1 == s.applied.interest
           p1 == s.applied.principal
           j == applyToJuniorTranche(slice, i1, p1, accrued)
           out == applyToAllSlices(pool, interest, principal, total, left, owed).slices[1]
           qs == s.applied.tranche.principalSharePrice
           qj == j.applied.tranche.principalSharePrice
           e == calculateExpectedSharePrice(slice.senior, accrued, slice)
<1>1. /\ slice \in SliceType /\ DOMAIN pool = {1} /\ F \in Nat \ {0}
      /\ n \in Nat \ {0} /\ D \in Nat \ {0} /\ n <= D
      /\ total \in Nat \ {0}
      /\ accrued \in Nat /\ accrued <= D
  <2>1. slice \in SliceType /\ DOMAIN pool = {1}
    BY OneElement
  <2>2. n \in Nat /\ slice.junior.principalDeposited \in Nat
    BY <2>1, SliceFacts
  <2> QED BY <2>1, <2>2, Scaling DEF Deposited, CanApply
<1>2. Served(s, slice.senior, slice, interest, principal, accrued)
  BY <1>1, SeniorTrancheFacts
<1>3. i1 \in Nat /\ p1 \in Nat
  BY <1>2 DEF Served
<1>4. out.senior = s.applied.tranche /\ out.junior = j.applied.tranche
  <2> DEFINE part(amount, i) ==
                 scaleByFraction(amount, pool[i].principalDeployed, total)
             acc(i) == SlicePrincipalAccrued(pool[i], total - left + owed, total)
             senior == [i \in DOMAIN pool |-> applyToSeniorTranche(pool[i],
                           part(interest, i), part(principal, i), acc(i))]
             iLeft == [i \in DOMAIN pool |-> senior[i].applied.interest]
             pLeft == [i \in DOMAIN pool |-> senior[i].applied.principal]
             interestLeft == SumFunctionOnSet(iLeft, DOMAIN pool)
             principalLeft == SumFunctionOnSet(pLeft, DOMAIN pool)
             junior == [i \in DOMAIN pool |-> applyToJuniorTranche(pool[i],
                           part(interestLeft, i), part(principalLeft, i), acc(i))]
             all == [i \in DOMAIN pool |->
                        [pool[i] EXCEPT !.senior = senior[i].applied.tranche,
                                          !.junior = junior[i].applied.tranche]]
  <2>1. out = all[1]
    <3>1. DOMAIN iLeft = DOMAIN pool /\ DOMAIN pLeft = DOMAIN pool
      OBVIOUS
    <3> QED BY <3>1 DEF applyToAllSlices, SumOfSlices, SumFunction
  <2>2. \A a \in Nat : part(a, 1) = a
    BY <1>1, WholePart
  <2>3. senior[1] = s
    <3>1. senior[1] = applyToSeniorTranche(pool[1], part(interest, 1), part(principal, 1),
                                           acc(1))
      BY <1>1
    <3> HIDE DEF part, senior
    <3> QED BY <2>2, <3>1
  <2>4. iLeft[1] = i1 /\ pLeft[1] = p1
    <3>1. 1 \in DOMAIN pool
      BY <1>1
    <3> HIDE DEF senior, s
    <3>2. iLeft[1] = senior[1].applied.interest /\ pLeft[1] = senior[1].applied.principal
      BY <3>1
    <3> QED BY <2>3, <3>2
  <2>5. interestLeft = i1 /\ principalLeft = p1
    <3> HIDE DEF iLeft, pLeft, i1, p1, slice, D, accrued, n
    <3>1. iLeft[1] \in Int /\ pLeft[1] \in Int
      BY <1>3, <2>4
    <3>2. SumFunctionOnSet(iLeft, {1}) = iLeft[1]
      BY <3>1, SumOfOne
    <3>3. SumFunctionOnSet(pLeft, {1}) = pLeft[1]
      BY <3>1, SumOfOne
    <3>4. DOMAIN pool = {1}
      BY <1>1
    <3> QED BY <2>4, <3>2, <3>3, <3>4
  <2>6. junior[1] = j
    <3>1. junior[1] = applyToJuniorTranche(pool[1], part(interestLeft, 1),
                                           part(principalLeft, 1), acc(1))
      BY <1>1
    <3> HIDE DEF part, junior, interestLeft, principalLeft, i1, p1
    <3> QED BY <1>3, <2>2, <2>5, <3>1
  <2>7. all[1] = [pool[1] EXCEPT !.senior = senior[1].applied.tranche,
                                   !.junior = junior[1].applied.tranche]
    BY <1>1
  <2> DEFINE before == pool[1]
             st == senior[1].applied.tranche
             jt == junior[1].applied.tranche
  <2>8. before \in SliceType
    BY <1>1
  <2> HIDE DEF all, st, jt, out
  <2>9. all[1] = [before EXCEPT !.senior = st, !.junior = jt]
    BY <2>7 DEF st, jt
  <2> HIDE DEF before
  <2>10. all[1].senior = st /\ all[1].junior = jt
    BY <2>8, <2>9 DEF SliceType
  <2> HIDE DEF senior, junior, s, j
  <2> QED BY <2>1, <2>3, <2>6, <2>10 DEF st, jt
<1>5. /\ slice.senior.principalSharePrice <= qs
      /\ p1 # 0 => e * n <= qs * n + n + F
  BY <1>1, SeniorServedFirst
<1>6. p1 = 0 => qj = slice.junior.principalSharePrice
  <2> HIDE DEF s, p1, i1
  <2> QED BY <1>1, <1>3, JuniorServedLast DEF j
<1>7. /\ qj \in Nat /\ qs \in Nat /\ slice.junior.principalSharePrice \in Nat
      /\ e \in Nat
      /\ qj <= slice.junior.principalSharePrice \/ qj * D <= accrued * F
  <2>1. Served(j, slice.junior, slice, i1, p1, accrued)
    <3> HIDE DEF i1, p1, s
    <3> QED BY <1>1, <1>3, JuniorTrancheFacts
  <2>2. slice.junior \in TrancheType /\ slice.senior \in TrancheType
    BY <1>1, SliceFacts
  <2>3. e \in Nat
    <3>1. Deposited(slice) > 0 /\ accrued \in Nat /\ slice \in SliceType
      BY <1>1
    <3> HIDE DEF accrued, slice
    <3> QED BY <2>2, <3>1, ExpectedPriceFacts DEF e
  <2> HIDE DEF e, s, j, i1, p1
  <2> QED BY <1>2, <2>1, <2>2, <2>3 DEF Served, TrancheType
<1> HIDE DEF s, j, qs, qj, e, p1, i1
\* The price that is due to all of the slice is the senior tranche's, but for rounding.
<1>8. ASSUME p1 # 0, qj * D <= accrued * F PROVE qj <= qs + Lacking(slice)
  <2>1. qj * n <= (e + 2) * n + D
    <3> HIDE DEF accrued
    <3> QED BY <1>1, <1>7, <1>8, ExpectedPriceLacksLittle DEF e
  <2>2. e * n <= qs * n + n + F
    BY <1>5, <1>8
  <2> HIDE DEF n, D, F, slice, accrued
  <2>3. (qj - qs - 3) * n <= F + D
    <3>1. /\ (e + 2) * n = e * n + 2 * n
          /\ (qj - qs - 3) * n = qj * n - qs * n - 3 * n
      BY <1>1, <1>7
    <3>2. e * n \in Int /\ qj * n \in Int /\ qs * n \in Int
      BY <1>1, <1>7
    <3> QED BY <1>1, <2>1, <2>2, <3>1, <3>2
  <2>4. qj - qs - 3 <= (F + D) \div n
    <3>1. F + D \in Nat /\ qj - qs - 3 \in Int
      BY <1>1, <1>7
    <3> QED BY <1>1, <2>3, <3>1, FloorAbove
  <2>5. (F + D) \div n \in Nat
    <3>1. F + D \in Nat
      BY <1>1
    <3> QED BY <1>1, <3>1, FloorFacts
  <2>6. qj <= qs + ((F + D) \div n + 3)
    BY <1>7, <2>4, <2>5
  <2> QED BY <2>6 DEF Lacking, F, D, n
<1>9. qj <= slice.junior.principalSharePrice \/ qj <= qs + Lacking(slice)
  BY <1>6, <1>7, <1>8
<1> HIDE DEF out
<1> QED BY <1>4, <1>5, <1>9 DEF qs, qj, out
=============================================================================
