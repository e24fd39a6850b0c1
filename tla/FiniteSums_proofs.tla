-------------------------- MODULE FiniteSums_proofs --------------------------
(***************************************************************************)
(* Sums over finite sets.  Each fact is shown by a smallest subset of which *)
(* it is false: the folds define a sum by a recursive function on subsets.  *)
(***************************************************************************)
EXTENDS FiniteSums, Integers, FiniteSetTheorems, WellFoundedInduction, TLAPS

\* Induction over the subsets of a finite set, by a smallest counterexample.
LEMMA SmallestSubset ==
  ASSUME NEW I, IsFiniteSet(I), NEW W, W \subseteq SUBSET I, W # {}
  PROVE  \E T \in W : \A U \in W : U \subseteq T => U = T
<1>1. IsWellFoundedOn(StrictSubsetOrdering(I), SUBSET I)
  BY FS_StrictSubsetOrderingWellFounded, FS_FiniteSubsetsOfFinite
<1>2. PICK T \in W : \A U \in W : ~(<<U, T>> \in StrictSubsetOrdering(I))
  BY <1>1, WFMin
<1>3. QED
  BY <1>2 DEF StrictSubsetOrdering

\* the element a fold takes next
Pick(S) == CHOOSE x \in S : TRUE

\* what the folds define a sum by
Sums(f, I, g) == g = [S \in SUBSET I |-> IF S = {} THEN 0 ELSE f[Pick(S)] + g[S \ {Pick(S)}]]

LEMMA SumIs == \A f, I : Sum(f, I) = (CHOOSE g : Sums(f, I, g))[I]
BY DEF Sum, MapThenSumSet, MapThenFoldSet, Sums, Pick

LEMMA PickIn == \A S : S # {} => Pick(S) \in S
BY DEF Pick

LEMMA SumsUnique ==
  ASSUME NEW f, NEW I, NEW J, IsFiniteSet(I), NEW g, NEW h, Sums(f, I, g), Sums(f, J, h)
  PROVE  \A S \in SUBSET I : S \subseteq J => g[S] = h[S]
<1> DEFINE W == {S \in SUBSET I : S \subseteq J /\ g[S] # h[S]}
<1>1. SUFFICES ASSUME W # {} PROVE FALSE
  OBVIOUS
<1>2. PICK T \in W : \A U \in W : U \subseteq T => U = T
  <2>1. W \subseteq SUBSET I
    OBVIOUS
  <2> HIDE DEF W
  <2>2. QED
    BY <1>1, <2>1, SmallestSubset
<1>3. T # {}
  BY <1>2 DEF Sums
<1>4. Pick(T) \in T /\ T \ {Pick(T)} \subseteq T /\ T \ {Pick(T)} # T
  BY <1>3, PickIn
<1>5. g[T \ {Pick(T)}] = h[T \ {Pick(T)}]
  BY <1>2, <1>4
<1>6. g[T] = f[Pick(T)] + g[T \ {Pick(T)}] /\ h[T] = f[Pick(T)] + h[T \ {Pick(T)}]
  BY <1>3 DEF Sums
<1>7. QED
  BY <1>2, <1>5, <1>6

LEMMA SumsExist ==
  ASSUME NEW f, NEW I, IsFiniteSet(I)
  PROVE  \E g : Sums(f, I, g)
<1> DEFINE W == {S \in SUBSET I : ~\E g : Sums(f, S, g)}
<1>1. SUFFICES ASSUME W # {} PROVE FALSE
  OBVIOUS
<1>2. PICK T \in W : \A U \in W : U \subseteq T => U = T
  <2>1. W \subseteq SUBSET I
    OBVIOUS
  <2> HIDE DEF W
  <2>2. QED
    BY <1>1, <2>1, SmallestSubset
<1> DEFINE G(U) == CHOOSE g : Sums(f, U, g)
           all == [S \in SUBSET T |->
                     IF S = {} THEN 0 ELSE f[Pick(S)] + G(S \ {Pick(S)})[S \ {Pick(S)}]]
<1>3. ASSUME NEW U \in SUBSET T, U # T PROVE Sums(f, U, G(U)) /\ IsFiniteSet(U)
  BY <1>2, <1>3, FS_Subset
<1>4. ASSUME NEW S \in SUBSET T, S # {}
      PROVE  G(S \ {Pick(S)})[S \ {Pick(S)}] = all[S \ {Pick(S)}]
  <2> DEFINE U == S \ {Pick(S)}
  <2>1. U \in SUBSET T /\ U # T /\ Sums(f, U, G(U))
    BY <1>3, <1>4, PickIn
  <2>2. CASE U = {}
    BY <2>1, <2>2 DEF Sums
  <2>3. CASE U # {}
    <3> DEFINE V == U \ {Pick(U)}
    <3>1. V \in SUBSET U /\ V # T /\ Sums(f, V, G(V)) /\ IsFiniteSet(V)
      BY <1>3, <2>1, <2>3, PickIn
    <3>2. G(U)[V] = G(V)[V]
      BY <2>1, <3>1, SumsUnique
    <3>3. G(U)[U] = f[Pick(U)] + G(U)[V]
      BY <2>1, <2>3 DEF Sums
    <3>4. all[U] = f[Pick(U)] + G(V)[V]
      BY <2>1, <2>3
    <3>5. QED
      BY <3>2, <3>3, <3>4
  <2>4. QED
    BY <2>2, <2>3
<1>5. Sums(f, T, all)
  <2>1. ASSUME NEW S \in SUBSET T
        PROVE  all[S] = IF S = {} THEN 0 ELSE f[Pick(S)] + all[S \ {Pick(S)}]
    <3>1. all[S] = IF S = {} THEN 0 ELSE f[Pick(S)] + G(S \ {Pick(S)})[S \ {Pick(S)}]
      OBVIOUS
    <3>2. CASE S = {}
      BY <3>1, <3>2
    <3>3. CASE S # {}
      <4> HIDE DEF all, G
      <4>1. QED
        BY <1>4, <3>1, <3>3
    <3>4. QED
      BY <3>2, <3>3
  <2> HIDE DEF all
  <2>2. all = [S \in SUBSET T |-> all[S]]
    BY DEF all
  <2>3. QED
    BY <2>1, <2>2 DEF Sums
<1>6. QED
  BY <1>2, <1>5

LEMMA SumStep ==
  ASSUME NEW f, NEW I, IsFiniteSet(I)
  PROVE  Sum(f, I) = IF I = {} THEN 0 ELSE f[Pick(I)] + Sum(f, I \ {Pick(I)})
<1> DEFINE J == I \ {Pick(I)}
           G(U) == CHOOSE g : Sums(f, U, g)
<1>1. IsFiniteSet(J) /\ J \subseteq I
  BY FS_Subset
<1>2. Sums(f, I, G(I)) /\ Sums(f, J, G(J))
  BY <1>1, SumsExist
<1> HIDE DEF G
<1>3. G(J)[J] = G(I)[J]
  BY <1>1, <1>2, SumsUnique
<1>4. G(I)[I] = IF I = {} THEN 0 ELSE f[Pick(I)] + G(I)[J]
  BY <1>2 DEF Sums
<1>5. Sum(f, I) = G(I)[I] /\ Sum(f, J) = G(J)[J]
  BY SumIs DEF G
<1>6. QED
  BY <1>3, <1>4, <1>5

LEMMA SumEmpty == \A f : Sum(f, {}) = 0
<1>1. IsFiniteSet({})
  BY FS_EmptySet
<1>2. QED
  BY <1>1, SumStep

Ints(f, I) == \A i \in I : f[i] \in Int

LEMMA SumType ==
  ASSUME NEW f, NEW I, IsFiniteSet(I), Ints(f, I)
  PROVE  Sum(f, I) \in Int
<1> DEFINE W == {S \in SUBSET I : Sum(f, S) \notin Int}
<1>1. SUFFICES ASSUME W # {} PROVE FALSE
  OBVIOUS
<1>2. PICK T \in W : \A U \in W : U \subseteq T => U = T
  <2>1. W \subseteq SUBSET I
    OBVIOUS
  <2> HIDE DEF W
  <2>2. QED
    BY <1>1, <2>1, SmallestSubset
<1>3. T \subseteq I /\ IsFiniteSet(T) /\ Sum(f, T) \notin Int
  BY FS_Subset
<1>4. CASE T = {}
  <2>1. Sum(f, T) = 0
    BY <1>4, SumEmpty
  <2>2. QED
    BY <1>3, <2>1
<1>5. CASE T # {}
  <2>1. Pick(T) \in T /\ f[Pick(T)] \in Int
    BY <1>3, <1>5, PickIn DEF Ints
  <2>2. Sum(f, T \ {Pick(T)}) \in Int
    BY <1>2, <2>1
  <2>3. Sum(f, T) = f[Pick(T)] + Sum(f, T \ {Pick(T)})
    BY <1>3, <1>5, SumStep
  <2>4. QED
    BY <1>3, <2>1, <2>2, <2>3
<1>6. QED
  BY <1>4, <1>5

\* The order of the elements does not matter.
LEMMA SumLess ==
  ASSUME NEW f, NEW I, IsFiniteSet(I), Ints(f, I), NEW i \in I
  PROVE  Sum(f, I) = f[i] + Sum(f, I \ {i})
<1> DEFINE W == {S \in SUBSET I : \E x \in S : Sum(f, S) # f[x] + Sum(f, S \ {x})}
<1>1. SUFFICES ASSUME W # {} PROVE FALSE
  OBVIOUS
<1>2. PICK T \in W : \A U \in W : U \subseteq T => U = T
  <2>1. W \subseteq SUBSET I
    OBVIOUS
  <2> HIDE DEF W
  <2>2. QED
    BY <1>1, <2>1, SmallestSubset
<1>3. PICK x \in T : Sum(f, T) # f[x] + Sum(f, T \ {x})
  BY <1>2
<1> DEFINE y == Pick(T)
<1>4. y \in T /\ \A S \in SUBSET I : IsFiniteSet(S) /\ Sum(f, S) \in Int
  BY <1>3, FS_Subset, SumType, PickIn DEF Ints
<1>5. Sum(f, T) = f[y] + Sum(f, T \ {y})
  BY <1>3, <1>4, SumStep
<1>6. y # x
  BY <1>3, <1>5
<1>7. /\ Sum(f, T \ {y}) = f[x] + Sum(f, T \ {y, x})
      /\ Sum(f, T \ {x}) = f[y] + Sum(f, T \ {y, x})
  <2>1. T \ {y} \in SUBSET T /\ T \ {y} \notin W /\ T \ {x} \in SUBSET T /\ T \ {x} \notin W
    BY <1>2, <1>4
  <2>2. (T \ {y}) \ {x} = T \ {y, x} /\ (T \ {x}) \ {y} = T \ {y, x}
    OBVIOUS
  <2>3. QED
    BY <1>4, <1>6, <2>1, <2>2
<1>8. f[x] \in Int /\ f[y] \in Int /\ Sum(f, T \ {y, x}) \in Int
  BY <1>4 DEF Ints
<1>9. QED
  BY <1>3, <1>5, <1>7, <1>8

LEMMA SumLe ==
  ASSUME NEW f, NEW g, NEW I, IsFiniteSet(I), Ints(f, I), Ints(g, I),
         \A i \in I : f[i] <= g[i]
  PROVE  Sum(f, I) <= Sum(g, I)
<1> DEFINE W == {S \in SUBSET I : ~(Sum(f, S) <= Sum(g, S))}
<1>1. SUFFICES ASSUME W # {} PROVE FALSE
  OBVIOUS
<1>2. PICK T \in W : \A U \in W : U \subseteq T => U = T
  <2>1. W \subseteq SUBSET I
    OBVIOUS
  <2> HIDE DEF W
  <2>2. QED
    BY <1>1, <2>1, SmallestSubset
<1>3. T \subseteq I /\ IsFiniteSet(T) /\ ~(Sum(f, T) <= Sum(g, T))
  BY FS_Subset
<1>4. CASE T = {}
  <2>1. Sum(f, T) = 0 /\ Sum(g, T) = 0
    BY <1>4, SumEmpty
  <2>2. QED
    BY <1>3, <2>1
<1>5. CASE T # {}
  <2> DEFINE x == Pick(T)
             U == T \ {x}
  <2>1. x \in T /\ f[x] \in Int /\ g[x] \in Int /\ f[x] <= g[x]
    BY <1>3, <1>5, PickIn DEF Ints
  <2>2. Sum(f, U) <= Sum(g, U)
    BY <1>2, <2>1
  <2>3. Sum(f, T) = f[x] + Sum(f, U) /\ Sum(g, T) = g[x] + Sum(g, U)
    BY <1>3, <1>5, SumStep
  <2>4. Sum(f, U) \in Int /\ Sum(g, U) \in Int
    BY <1>3, FS_Subset, SumType DEF Ints
  <2> HIDE DEF U, x
  <2>5. QED
    BY <1>3, <2>1, <2>2, <2>3, <2>4
<1>6. QED
  BY <1>4, <1>5

LEMMA SumSame ==
  ASSUME NEW f, NEW g, NEW I, IsFiniteSet(I), Ints(f, I), \A i \in I : f[i] = g[i]
  PROVE  Sum(f, I) = Sum(g, I)
<1>1. Ints(g, I)
  BY DEF Ints
<1>2. Sum(f, I) \in Int /\ Sum(g, I) \in Int
  BY <1>1, SumType
<1>3. (\A i \in I : f[i] <= g[i]) /\ (\A i \in I : g[i] <= f[i])
  BY <1>1 DEF Ints
<1>4. Sum(f, I) <= Sum(g, I) /\ Sum(g, I) <= Sum(f, I)
  BY <1>1, <1>3, SumLe
<1>5. QED
  BY <1>2, <1>4

LEMMA SumUnion ==
  ASSUME NEW f, NEW I, NEW J, IsFiniteSet(I), IsFiniteSet(J), I \cap J = {}, Ints(f, I \cup J)
  PROVE  Sum(f, I \cup J) = Sum(f, I) + Sum(f, J)
<1> DEFINE W == {S \in SUBSET J : Sum(f, I \cup S) # Sum(f, I) + Sum(f, S)}
<1>1. SUFFICES ASSUME W # {} PROVE FALSE
  OBVIOUS
<1>2. PICK T \in W : \A U \in W : U \subseteq T => U = T
  <2>1. W \subseteq SUBSET J
    OBVIOUS
  <2> HIDE DEF W
  <2>2. QED
    BY <1>1, <2>1, SmallestSubset
<1>3. T \subseteq J /\ IsFiniteSet(T) /\ Sum(f, I \cup T) # Sum(f, I) + Sum(f, T)
  BY FS_Subset
<1>4. IsFiniteSet(I \cup T)
  BY <1>3, FS_Union
<1>5. \A S \in SUBSET (I \cup T) : IsFiniteSet(S) /\ Ints(f, S) /\ Sum(f, S) \in Int
  BY <1>3, <1>4, FS_Subset, SumType DEF Ints
<1>6. CASE T = {}
  <2>1. I \cup T = I /\ Sum(f, T) = 0
    BY <1>6, SumEmpty
  <2>2. QED
    BY <1>3, <1>5, <2>1
<1>7. CASE T # {}
  <2> DEFINE x == Pick(T)
             U == T \ {x}
  <2>1. x \in T /\ f[x] \in Int
    BY <1>3, <1>7, PickIn DEF Ints
  <2>2. Sum(f, I \cup U) = Sum(f, I) + Sum(f, U)
    BY <1>2, <2>1
  <2>3. (I \cup T) \ {x} = I \cup U
    BY <1>3, <2>1
  <2>4. Sum(f, I \cup T) = f[x] + Sum(f, I \cup U)
    BY <1>4, <1>5, <2>1, <2>3, SumLess
  <2>5. Sum(f, T) = f[x] + Sum(f, U)
    BY <1>5, <2>1, SumLess
  <2>6. Sum(f, I) \in Int /\ Sum(f, U) \in Int
    BY <1>5
  <2> HIDE DEF U, x
  <2>7. QED
    BY <1>3, <2>1, <2>2, <2>4, <2>5, <2>6
<1>8. QED
  BY <1>6, <1>7

LEMMA SumZero ==
  ASSUME NEW z, NEW I, IsFiniteSet(I), \A i \in I : z[i] = 0
  PROVE  Sum(z, I) = 0
<1> DEFINE W == {S \in SUBSET I : Sum(z, S) # 0}
<1>1. SUFFICES ASSUME W # {} PROVE FALSE
  OBVIOUS
<1>2. PICK T \in W : \A U \in W : U \subseteq T => U = T
  <2>1. W \subseteq SUBSET I
    OBVIOUS
  <2> HIDE DEF W
  <2>2. QED
    BY <1>1, <2>1, SmallestSubset
<1>3. T \subseteq I /\ IsFiniteSet(T) /\ Sum(z, T) # 0
  BY FS_Subset
<1>4. T # {}
  BY <1>3, SumEmpty
<1>5. Pick(T) \in T /\ z[Pick(T)] = 0
  BY <1>3, <1>4, PickIn
<1>6. Sum(z, T \ {Pick(T)}) = 0
  BY <1>2, <1>5
<1>7. Sum(z, T) = z[Pick(T)] + Sum(z, T \ {Pick(T)})
  BY <1>3, <1>4, SumStep
<1>8. QED
  BY <1>3, <1>5, <1>6, <1>7

\* A sum of naturals is one, and no part of it exceeds it.
LEMMA SumNat ==
  ASSUME NEW f, NEW I, IsFiniteSet(I), \A i \in I : f[i] \in Nat
  PROVE  Sum(f, I) \in Nat
<1> DEFINE z == [i \in I |-> 0]
<1>1. Ints(f, I) /\ Ints(z, I) /\ \A i \in I : z[i] <= f[i]
  BY DEF Ints
<1>2. Sum(z, I) = 0
  BY SumZero
<1>3. Sum(f, I) \in Int /\ Sum(z, I) <= Sum(f, I)
  BY <1>1, SumType, SumLe
<1>4. QED
  BY <1>2, <1>3

LEMMA SumPart ==
  ASSUME NEW f, NEW I, IsFiniteSet(I), \A i \in I : f[i] \in Nat, NEW J \in SUBSET I
  PROVE  Sum(f, J) <= Sum(f, I)
<1>1. IsFiniteSet(J) /\ IsFiniteSet(I \ J) /\ I = J \cup (I \ J) /\ J \cap (I \ J) = {}
  BY FS_Subset
<1>2. Ints(f, I)
  BY DEF Ints
<1>3. Sum(f, I) = Sum(f, J) + Sum(f, I \ J)
  BY <1>1, <1>2, SumUnion
<1>4. Sum(f, J) \in Nat /\ Sum(f, I \ J) \in Nat
  BY <1>1, SumNat
<1>5. QED
  BY <1>3, <1>4
=============================================================================
