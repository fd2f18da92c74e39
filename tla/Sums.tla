---------------------------------- MODULE Sums ----------------------------------
(***************************************************************************)
(* What a set of amounts comes to.  The library's folds run down a set one *)
(* chosen element at a time: Sum is what they compute, taken as the one    *)
(* function on the subsets of S that unfolds so.  What is wrong of some    *)
(* subset is wrong of a smallest one, since the subsets of a finite set    *)
(* are well founded, and that one is wrong only if a smaller one is.       *)
(***************************************************************************)
EXTENDS Integers, FiniteSets, FiniteSetTheorems, WellFoundedInduction, TLAPS

Pick(s) == CHOOSE x \in s : TRUE
Unfolds(a, S, g) ==
    g = [s \in SUBSET S |-> IF s = {} THEN 0 ELSE a[Pick(s)] + g[s \ {Pick(s)}]]
Fold(a, S) == CHOOSE g : Unfolds(a, S, g)
Sum(a, S) == Fold(a, S)[S]

LEMMA PickIn == \A s : s # {} => Pick(s) \in s
BY Zenon DEF Pick

(* Induction over the subsets of a finite set.                             *)
LEMMA SmallestSubset ==
  ASSUME NEW S, IsFiniteSet(S), NEW B, B \subseteq SUBSET S, B # {}
  PROVE  \E T \in B : \A U \in B : ~(U \subseteq T /\ U # T)
<1>1. PICK T \in B : \A U \in B : <<U, T>> \notin StrictSubsetOrdering(S)
  <2>1. IsWellFoundedOn(StrictSubsetOrdering(S), SUBSET S)
    BY FS_StrictSubsetOrderingWellFounded, FS_FiniteSubsetsOfFinite
  <2> HIDE DEF StrictSubsetOrdering
  <2> QED
    BY <2>1, WFMin
<1> QED
  BY <1>1 DEF StrictSubsetOrdering

LEMMA FoldIsUnique ==
  ASSUME NEW S, IsFiniteSet(S), NEW a, NEW g, NEW h, NEW T \in SUBSET S, Unfolds(a, S, g), Unfolds(a, T, h)
  PROVE  \A s \in SUBSET T : g[s] = h[s]
<1> DEFINE B == {s \in SUBSET T : g[s] # h[s]}
<1> SUFFICES ASSUME B # {} PROVE FALSE
  OBVIOUS
<1>1. PICK s \in B : \A u \in B : ~(u \subseteq s /\ u # s)
  <2>1. IsFiniteSet(T)
    BY FS_Subset
  <2>2. B \subseteq SUBSET T
    OBVIOUS
  <2> HIDE DEF B
  <2> QED
    BY <2>1, <2>2, SmallestSubset
<1>2. s # {}
  <2>1. g[{}] = 0 /\ h[{}] = 0
    BY DEF Unfolds
  <2> QED
    BY <2>1
<1>3. Pick(s) \in s
  BY <1>2, PickIn
<1>4. g[s \ {Pick(s)}] = h[s \ {Pick(s)}]
  BY <1>1, <1>3
<1>5. g[s] = a[Pick(s)] + g[s \ {Pick(s)}] /\ h[s] = a[Pick(s)] + h[s \ {Pick(s)}]
  <2>1. s \in SUBSET S /\ s \in SUBSET T
    OBVIOUS
  <2> QED
    BY <1>2, <2>1 DEF Unfolds
<1> QED
  BY <1>4, <1>5

LEMMA FoldUnfolds ==
  ASSUME NEW S, IsFiniteSet(S), NEW a
  PROVE  Unfolds(a, S, Fold(a, S))
<1> DEFINE B == {T \in SUBSET S : ~\E g : Unfolds(a, T, g)}
<1>0. SUFFICES B = {}
  <2>1. \E g : Unfolds(a, S, g)
    BY <1>0
  <2> QED
    BY <2>1 DEF Fold
<1> SUFFICES ASSUME B # {} PROVE FALSE
  OBVIOUS
<1>1. PICK T \in B : \A U \in B : ~(U \subseteq T /\ U # T)
  <2>1. B \subseteq SUBSET S
    OBVIOUS
  <2> HIDE DEF B
  <2> QED
    BY <2>1, SmallestSubset
<1>2. \A U \in SUBSET T : U # T => Unfolds(a, U, Fold(a, U))
  <2>1. \A U \in SUBSET T : U # T => \E g : Unfolds(a, U, g)
    BY <1>1
  <2> QED
    BY <2>1 DEF Fold
<1>3. \A U \in SUBSET T : U # T => Sum(a, U) = IF U = {} THEN 0 ELSE a[Pick(U)] + Sum(a, U \ {Pick(U)})
  <2> SUFFICES ASSUME NEW U \in SUBSET T, U # T
               PROVE  Sum(a, U) = IF U = {} THEN 0 ELSE a[Pick(U)] + Sum(a, U \ {Pick(U)})
    OBVIOUS
  <2>1. Unfolds(a, U, Fold(a, U))
    BY <1>2
  <2>2. Fold(a, U)[U] = IF U = {} THEN 0 ELSE a[Pick(U)] + Fold(a, U)[U \ {Pick(U)}]
    BY <2>1 DEF Unfolds
  <2>3. CASE U = {}
    BY <2>2, <2>3 DEF Sum
  <2>4. CASE U # {}
    <3> DEFINE V == U \ {Pick(U)}
    <3>1. V \in SUBSET U /\ V \in SUBSET T /\ V # T
      BY <2>4, PickIn
    <3>2. Unfolds(a, V, Fold(a, V))
      BY <1>2, <3>1
    <3>3. IsFiniteSet(U)
      BY FS_Subset
    <3>4. Fold(a, U)[V] = Fold(a, V)[V]
      <4> HIDE DEF V
      <4> QED
        BY <2>1, <3>1, <3>2, <3>3, FoldIsUnique
    <3> QED
      BY <2>2, <2>4, <3>4 DEF Sum
  <2> QED
    BY <2>3, <2>4
<1> DEFINE g == [s \in SUBSET T |-> IF s = {} THEN 0 ELSE a[Pick(s)] + Sum(a, s \ {Pick(s)})]
<1>4. \A s \in SUBSET T : s # T => g[s] = Sum(a, s)
  BY <1>3
<1>5. Unfolds(a, T, g)
  <2>1. \A s \in SUBSET T : s # {} => g[s \ {Pick(s)}] = Sum(a, s \ {Pick(s)})
    <3> SUFFICES ASSUME NEW s \in SUBSET T, s # {}
                 PROVE  g[s \ {Pick(s)}] = Sum(a, s \ {Pick(s)})
      OBVIOUS
    <3>1. s \ {Pick(s)} \in SUBSET T /\ s \ {Pick(s)} # T
      BY PickIn
    <3> HIDE DEF g
    <3> QED
      BY <1>4, <3>1
  <2>2. g = [s \in SUBSET T |-> IF s = {} THEN 0 ELSE a[Pick(s)] + g[s \ {Pick(s)}]]
    <3> DEFINE e(s) == IF s = {} THEN 0 ELSE a[Pick(s)] + Sum(a, s \ {Pick(s)})
               f(s) == IF s = {} THEN 0 ELSE a[Pick(s)] + g[s \ {Pick(s)}]
    <3>1. \A s \in SUBSET T : e(s) = f(s)
      BY <2>1
    <3>2. g = [s \in SUBSET T |-> e(s)]
      OBVIOUS
    <3> HIDE DEF e, f, g
    <3>3. [s \in SUBSET T |-> e(s)] = [s \in SUBSET T |-> f(s)]
      BY <3>1
    <3>4. g = [s \in SUBSET T |-> f(s)]
      BY <3>2, <3>3
    <3> QED
      BY <3>4 DEF f
  <2> QED
    BY <2>2 DEF Unfolds
<1> QED
  BY <1>1, <1>5

LEMMA SumIs ==
  ASSUME NEW S, IsFiniteSet(S), NEW a
  PROVE  /\ Sum(a, {}) = 0
         /\ S # {} => Pick(S) \in S /\ Sum(a, S) = a[Pick(S)] + Sum(a, S \ {Pick(S)})
<1>1. Sum(a, {}) = 0
  BY FoldUnfolds, FS_EmptySet DEF Unfolds, Sum
<1>2. ASSUME S # {} PROVE Sum(a, S) = a[Pick(S)] + Sum(a, S \ {Pick(S)})
  <2> DEFINE V == S \ {Pick(S)}
  <2>1. Unfolds(a, S, Fold(a, S)) /\ V \in SUBSET S
    BY FoldUnfolds
  <2>2. IsFiniteSet(V)
    BY FS_Subset
  <2>3. Unfolds(a, V, Fold(a, V))
    BY <2>2, FoldUnfolds
  <2>4. Fold(a, S)[V] = Fold(a, V)[V]
    <3> HIDE DEF V
    <3> QED
      BY <2>1, <2>3, FoldIsUnique
  <2>5. Fold(a, S)[S] = a[Pick(S)] + Fold(a, S)[V]
    BY <1>2, <2>1 DEF Unfolds
  <2> QED
    BY <2>4, <2>5 DEF Sum
<1> QED
  BY <1>1, <1>2, PickIn

LEMMA SumType ==
  ASSUME NEW S, IsFiniteSet(S), NEW a, \A x \in S : a[x] \in Nat
  PROVE  Sum(a, S) \in Nat
<1> DEFINE B == {T \in SUBSET S : Sum(a, T) \notin Nat}
<1> SUFFICES ASSUME B # {} PROVE FALSE
  OBVIOUS
<1>1. PICK T \in B : \A U \in B : ~(U \subseteq T /\ U # T)
  <2>1. B \subseteq SUBSET S
    OBVIOUS
  <2> HIDE DEF B
  <2> QED
    BY <2>1, SmallestSubset
<1>2. IsFiniteSet(T)
  BY FS_Subset
<1>3. T # {}
  <2>1. Sum(a, {}) = 0
    BY SumIs
  <2> QED
    BY <2>1
<1>4. Pick(T) \in T /\ Sum(a, T) = a[Pick(T)] + Sum(a, T \ {Pick(T)})
  BY <1>2, <1>3, SumIs
<1>5. T \ {Pick(T)} \notin B
  BY <1>1, <1>4
<1> QED
  BY <1>4, <1>5

(* Any element may be taken out first.                                     *)
LEMMA SumTakes ==
  ASSUME NEW S, IsFiniteSet(S), NEW a, \A x \in S : a[x] \in Nat, NEW x \in S
  PROVE  Sum(a, S) = a[x] + Sum(a, S \ {x})
<1> DEFINE B == {T \in SUBSET S : \E y \in T : Sum(a, T) # a[y] + Sum(a, T \ {y})}
<1> SUFFICES ASSUME B # {} PROVE FALSE
  OBVIOUS
<1>1. PICK T \in B : \A U \in B : ~(U \subseteq T /\ U # T)
  <2>1. B \subseteq SUBSET S
    OBVIOUS
  <2> HIDE DEF B
  <2> QED
    BY <2>1, SmallestSubset
<1>2. PICK y \in T : Sum(a, T) # a[y] + Sum(a, T \ {y})
  OBVIOUS
<1> DEFINE z == Pick(T)
<1>3. \A U \in SUBSET S : IsFiniteSet(U) /\ Sum(a, U) \in Nat
  BY FS_Subset, SumType
<1>4. z \in T /\ Sum(a, T) = a[z] + Sum(a, T \ {z}) /\ z # y
  BY <1>2, <1>3, SumIs
<1>5. T \ {z} \notin B /\ T \ {y} \notin B
  BY <1>1, <1>4
<1>6. Sum(a, T \ {z}) = a[y] + Sum(a, (T \ {z}) \ {y})
  BY <1>4, <1>5
<1>7. Sum(a, T \ {y}) = a[z] + Sum(a, (T \ {y}) \ {z})
  BY <1>4, <1>5
<1>8. (T \ {z}) \ {y} = (T \ {y}) \ {z}
  OBVIOUS
<1>9. a[y] \in Nat /\ a[z] \in Nat /\ Sum(a, (T \ {y}) \ {z}) \in Nat
  BY <1>3, <1>4
<1> DEFINE rest == Sum(a, (T \ {y}) \ {z})
<1>10. Sum(a, T) = a[z] + (a[y] + rest) /\ Sum(a, T \ {y}) = a[z] + rest
  BY <1>4, <1>6, <1>7, <1>8, Zenon
<1> HIDE DEF z, rest, B
<1>11. a[z] + (a[y] + rest) = a[y] + (a[z] + rest)
  BY <1>9 DEF rest
<1> QED
  BY <1>2, <1>10, <1>11, Zenon

LEMMA SumAdds ==
  ASSUME NEW S, IsFiniteSet(S), NEW x, x \notin S, NEW a, \A y \in S \cup {x} : a[y] \in Nat
  PROVE  Sum(a, S \cup {x}) = a[x] + Sum(a, S)
<1>1. IsFiniteSet(S \cup {x}) /\ (S \cup {x}) \ {x} = S
  BY FS_AddElement
<1> QED
  BY <1>1, SumTakes

LEMMA SumSame ==
  ASSUME NEW S, IsFiniteSet(S), NEW a, NEW b, \A x \in S : a[x] = b[x]
  PROVE  Sum(a, S) = Sum(b, S)
<1> DEFINE B == {T \in SUBSET S : Sum(a, T) # Sum(b, T)}
<1> SUFFICES ASSUME B # {} PROVE FALSE
  OBVIOUS
<1>1. PICK T \in B : \A U \in B : ~(U \subseteq T /\ U # T)
  <2>1. B \subseteq SUBSET S
    OBVIOUS
  <2> HIDE DEF B
  <2> QED
    BY <2>1, SmallestSubset
<1>2. IsFiniteSet(T)
  BY FS_Subset
<1>3. T # {}
  BY <1>2, SumIs
<1>4. /\ Pick(T) \in T /\ Sum(a, T) = a[Pick(T)] + Sum(a, T \ {Pick(T)})
      /\ Sum(b, T) = b[Pick(T)] + Sum(b, T \ {Pick(T)})
  BY <1>2, <1>3, SumIs
<1>5. T \ {Pick(T)} \notin B
  BY <1>1, <1>4
<1> QED
  BY <1>4, <1>5

LEMMA SumUnion ==
  ASSUME NEW S, IsFiniteSet(S), NEW T \in SUBSET S, NEW a, \A x \in S : a[x] \in Nat
  PROVE  Sum(a, S) = Sum(a, T) + Sum(a, S \ T)
<1> DEFINE B == {U \in SUBSET S : Sum(a, U) # Sum(a, U \cap T) + Sum(a, U \ T)}
<1>0. SUFFICES ASSUME B # {} PROVE FALSE
  <2>1. S \notin B
    BY <1>0
  <2> QED
    BY <2>1
<1>1. PICK U \in B : \A V \in B : ~(V \subseteq U /\ V # U)
  <2>1. B \subseteq SUBSET S
    OBVIOUS
  <2> HIDE DEF B
  <2> QED
    BY <1>0, <2>1, SmallestSubset
<1>2. \A V \in SUBSET S : IsFiniteSet(V) /\ Sum(a, V) \in Nat
  BY FS_Subset, SumType
<1>3. U # {}
  <2>1. Sum(a, {}) = 0
    BY SumIs
  <2>2. {} \cap T = {} /\ {} \ T = {} /\ 0 = 0 + 0
    OBVIOUS
  <2> SUFFICES ASSUME U = {} PROVE FALSE
    OBVIOUS
  <2>3. Sum(a, U) # Sum(a, U \cap T) + Sum(a, U \ T)
    OBVIOUS
  <2>4. U \cap T = {} /\ U \ T = {}
    BY <2>2
  <2> QED
    BY <2>1, <2>2, <2>3, <2>4, Zenon
<1>4. PICK y \in U : TRUE
  BY <1>3
<1> DEFINE V == U \ {y}
<1>5. Sum(a, V) = Sum(a, V \cap T) + Sum(a, V \ T)
  BY <1>1, <1>4
<1>6. Sum(a, U) = a[y] + Sum(a, V)
  BY <1>2, SumTakes
<1>7. CASE y \in T
  <2>1. y \in U \cap T /\ (U \cap T) \ {y} = V \cap T /\ U \ T = V \ T
    BY <1>7
  <2>2. Sum(a, U \cap T) = a[y] + Sum(a, V \cap T)
    BY <1>2, <2>1, SumTakes
  <2>3. a[y] \in Nat /\ Sum(a, V \cap T) \in Nat /\ Sum(a, V \ T) \in Nat
    BY <1>2
  <2> DEFINE m == Sum(a, V \cap T)
             n == Sum(a, V \ T)
  <2>4. Sum(a, U) # Sum(a, U \cap T) + Sum(a, U \ T)
    OBVIOUS
  <2>5. Sum(a, U) = a[y] + (m + n)
    BY <1>5, <1>6, Zenon
  <2>6. Sum(a, U \cap T) + Sum(a, U \ T) = (a[y] + m) + n
    BY <2>1, <2>2, Zenon
  <2>7. a[y] + (m + n) = (a[y] + m) + n
    BY <2>3
  <2> QED
    BY <2>4, <2>5, <2>6, <2>7, Zenon
<1>8. CASE y \notin T
  <2>1. y \in U \ T /\ (U \ T) \ {y} = V \ T /\ U \cap T = V \cap T
    BY <1>8
  <2>2. Sum(a, U \ T) = a[y] + Sum(a, V \ T)
    BY <1>2, <2>1, SumTakes
  <2>3. a[y] \in Nat /\ Sum(a, V \cap T) \in Nat /\ Sum(a, V \ T) \in Nat
    BY <1>2
  <2> DEFINE m == Sum(a, V \cap T)
             n == Sum(a, V \ T)
  <2>4. Sum(a, U) # Sum(a, U \cap T) + Sum(a, U \ T)
    OBVIOUS
  <2>5. Sum(a, U) = a[y] + (m + n)
    BY <1>5, <1>6, Zenon
  <2>6. Sum(a, U \cap T) + Sum(a, U \ T) = m + (a[y] + n)
    BY <2>1, <2>2, Zenon
  <2>7. a[y] + (m + n) = m + (a[y] + n)
    BY <2>3
  <2> QED
    BY <2>4, <2>5, <2>6, <2>7, Zenon
<1> QED
  BY <1>7, <1>8

LEMMA SumGrows ==
  ASSUME NEW S, IsFiniteSet(S), NEW T \in SUBSET S, NEW a, \A x \in S : a[x] \in Nat
  PROVE  Sum(a, T) <= Sum(a, S)
<1>1. IsFiniteSet(T) /\ IsFiniteSet(S \ T)
  BY FS_Subset
<1>2. Sum(a, T) \in Nat /\ Sum(a, S \ T) \in Nat
  BY <1>1, SumType
<1> QED
  BY <1>2, SumUnion

(* One amount changes.                                                     *)
LEMMA SumChanges ==
  ASSUME NEW S, IsFiniteSet(S), NEW a, NEW b, NEW x \in S,
         \A y \in S : a[y] \in Nat /\ b[y] \in Nat, \A y \in S \ {x} : b[y] = a[y]
  PROVE  Sum(b, S) + a[x] = Sum(a, S) + b[x]
<1> DEFINE T == S \ {x}
<1>1. IsFiniteSet(T)
  BY FS_Subset
<1>2. Sum(a, S) = a[x] + Sum(a, T) /\ Sum(b, S) = b[x] + Sum(b, T)
  BY SumTakes
<1>3. Sum(a, T) = Sum(b, T) /\ Sum(a, T) \in Nat
  <2> HIDE DEF T
  <2>1. \A y \in T : a[y] = b[y] /\ a[y] \in Nat
    BY DEF T
  <2> QED
    BY <1>1, <2>1, SumSame, SumType
<1> QED
  BY <1>2, <1>3

(* All amounts are the same.                                               *)
LEMMA SumOfEqual ==
  ASSUME NEW S, IsFiniteSet(S), NEW a, NEW k \in Nat, \A x \in S : a[x] = k
  PROVE  Sum(a, S) = k * Cardinality(S)
<1> DEFINE B == {T \in SUBSET S : Sum(a, T) # k * Cardinality(T)}
<1> SUFFICES ASSUME B # {} PROVE FALSE
  OBVIOUS
<1>1. PICK T \in B : \A U \in B : ~(U \subseteq T /\ U # T)
  <2>1. B \subseteq SUBSET S
    OBVIOUS
  <2> HIDE DEF B
  <2> QED
    BY <2>1, SmallestSubset
<1>2. IsFiniteSet(T) /\ \A x \in T : a[x] \in Nat
  BY FS_Subset
<1>3. T # {}
  <2>1. Sum(a, {}) = 0 /\ Cardinality({}) = 0
    BY SumIs, FS_EmptySet
  <2> QED
    BY <2>1
<1>4. PICK x \in T : TRUE
  BY <1>3
<1> DEFINE U == T \ {x}
<1>5. Sum(a, U) = k * Cardinality(U)
  BY <1>1, <1>4
<1>6. Sum(a, T) = k + Sum(a, U)
  <2>1. Sum(a, T) = a[x] + Sum(a, U)
    BY <1>2, <1>4, SumTakes
  <2> QED
    BY <1>4, <2>1
<1>7. Cardinality(U) \in Nat /\ Cardinality(T) = Cardinality(U) + 1
  <2>1. Cardinality(U) = Cardinality(T) - 1 /\ IsFiniteSet(U) /\ Cardinality(T) \in Nat
    BY <1>2, <1>4, FS_RemoveElement, FS_CardinalityType
  <2>2. Cardinality(U) \in Nat
    BY <2>1, FS_CardinalityType
  <2> QED
    BY <2>1, <2>2
<1>8. k * (Cardinality(U) + 1) = k + k * Cardinality(U)
  BY <1>7
<1>9. Sum(a, T) # k * Cardinality(T)
  BY <1>1
<1> QED
  BY <1>5, <1>6, <1>7, <1>8, <1>9
=================================================================================
