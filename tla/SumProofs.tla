----------------------------- MODULE SumProofs -----------------------------
(***************************************************************************)
(* What SumOf returns.  It is a fold, and a fold is a recursive function   *)
(* on the subsets of a finite set: that there is one (SumsExist), that it  *)
(* depends on the terms alone (SumAgree), that any element may be taken    *)
(* out first (SumRemove), and that sizes of sets that have nothing in common  *)
(* add up (SumOfSizes).  Each is an induction on the size of a set, put as *)
(* the least size of a counterexample.                                     *)
(***************************************************************************)
EXTENDS Sums, FiniteSetTheorems, WellFoundedInduction, TLAPS

\* Every nonempty set of numbers has a least element: what the inductions
\* below start from.
LEMMA Least ==
  ASSUME NEW T, T \subseteq Nat, T # {}
  PROVE  \E n \in T : \A m \in T : n <= m
<1> DEFINE R == OpToRel(<, Nat)
<1>1. IsWellFoundedOn(R, Nat)
  BY NatLessThanWellFounded
<1>2. \A m, n \in Nat : m < n => <<m, n>> \in R
  BY DEF OpToRel
<1> HIDE DEF R
<1>3. PICK n \in T : \A m \in T : ~ (<<m, n>> \in R)
  BY <1>1, WFMin
<1>4. ASSUME NEW m \in T PROVE n <= m
  <2>1. m \in Nat /\ n \in Nat /\ ~ (m < n)
    BY <1>2, <1>3
  <2>2. QED
    BY <2>1
<1>5. QED
  BY <1>4

\* The element that the fold takes next.
First(s) == CHOOSE x \in s : TRUE

\* The recursive function of the definition, on any set of sets.
Sums(f, D, g) ==
  g = [s \in D |-> IF s = {} THEN 0 ELSE f[First(s)] + g[s \ {First(s)}]]

\* The same on the subsets of S, which is the one the fold is defined by.
Solves(f, S, g) == Sums(f, SUBSET S, g)

\* What SumOf is once the operators of the community modules are expanded.
LEMMA SumUnfold ==
  ASSUME NEW f, NEW S
  PROVE  SumOf(f, S) = (CHOOSE g : Sums(f, SUBSET S, g))[S]
BY DEF SumOf, MapThenSumSet, MapThenFoldSet, Sums, First

\* The subsets of up to n elements.
Small(S, n) == {s \in SUBSET S : Cardinality(s) <= n}

\* Sizes of subsets, and of what is left when an element is taken.
LEMMA SubsetCard ==
  ASSUME NEW S, IsFiniteSet(S), NEW s \in SUBSET S
  PROVE  /\ IsFiniteSet(s) /\ Cardinality(s) \in Nat
         /\ Cardinality(s) = 0 <=> s = {}
         /\ s # {} => /\ First(s) \in s
                      /\ s \ {First(s)} \in SUBSET S
                      /\ Cardinality(s \ {First(s)}) = Cardinality(s) - 1
         /\ \A x \in s : Cardinality(s \ {x}) = Cardinality(s) - 1
<1>1. IsFiniteSet(s)
  BY FS_Subset
<1>2. Cardinality(s) \in Nat /\ (Cardinality(s) = 0 <=> s = {})
  BY <1>1, FS_CardinalityType, FS_EmptySet
<1>3. \A x \in s : Cardinality(s \ {x}) = Cardinality(s) - 1
  BY <1>1, FS_RemoveElement
<1>4. s # {} => First(s) \in s
  BY DEF First
<1>5. QED
  BY <1>1, <1>2, <1>3, <1>4

\* The recursion has a solution on the subsets of up to n elements, for every
\* n: one step of the recursion after another.
LEMMA SumsExist ==
  ASSUME NEW f, NEW S, IsFiniteSet(S), NEW n \in Nat
  PROVE  \E g : Sums(f, Small(S, n), g)
<1> DEFINE None == {m \in Nat : ~ \E g : Sums(f, Small(S, m), g)}
<1>1. SUFFICES ASSUME None # {} PROVE FALSE
  OBVIOUS
<1>2. PICK m \in None : \A k \in None : m <= k
  BY <1>1, Least
<1>3. CASE m = 0
  <2> DEFINE g == [s \in Small(S, 0) |-> 0]
  <2>1. ASSUME NEW s \in Small(S, 0) PROVE s = {}
    <3>1. s \in SUBSET S /\ Cardinality(s) <= 0
      BY DEF Small
    <3>2. Cardinality(s) \in Nat
      BY <3>1, SubsetCard
    <3>3. Cardinality(s) = 0
      BY <3>1, <3>2
    <3>4. QED
      BY <3>1, <3>3, SubsetCard
  <2>2. g = [s \in Small(S, 0) |->
               IF s = {} THEN 0 ELSE f[First(s)] + g[s \ {First(s)}]]
    BY <2>1
  <2>3. QED
    BY <1>2, <1>3, <2>2 DEF Sums
<1>4. CASE m # 0
  <2>1. m \in Nat /\ m - 1 \in Nat /\ m - 1 \notin None
    BY <1>2, <1>4
  <2>2. PICK h : Sums(f, Small(S, m - 1), h)
    BY <2>1
  <2> DEFINE Value(s) == IF s = {} THEN 0 ELSE f[First(s)] + h[s \ {First(s)}]
             g == [s \in Small(S, m) |-> Value(s)]
  <2>3. ASSUME NEW s \in Small(S, m), s # {}
        PROVE  s \ {First(s)} \in Small(S, m - 1)
    BY <2>1, <2>3, SubsetCard DEF Small
  <2>4. Small(S, m - 1) \subseteq Small(S, m)
    <3>1. ASSUME NEW s \in SUBSET S, Cardinality(s) <= m - 1
          PROVE  Cardinality(s) <= m
      <4>1. Cardinality(s) \in Nat
        BY SubsetCard
      <4>2. QED
        BY <2>1, <3>1, <4>1
    <3>2. QED
      BY <3>1 DEF Small
  <2>5. ASSUME NEW s \in Small(S, m - 1) PROVE h[s] = Value(s)
    BY <2>2 DEF Sums
  <2>6. ASSUME NEW s \in Small(S, m), s # {}
        PROVE  g[s \ {First(s)}] = h[s \ {First(s)}]
    BY <2>3, <2>4, <2>5, <2>6
  <2>7. g = [s \in Small(S, m) |->
               IF s = {} THEN 0 ELSE f[First(s)] + g[s \ {First(s)}]]
    BY <2>6
  <2>8. QED
    BY <1>2, <2>1, <2>7 DEF Sums
<1>5. QED
  BY <1>3, <1>4

\* So the sum is one of its values.
LEMMA SumIsSolution ==
  ASSUME NEW f, NEW S, IsFiniteSet(S)
  PROVE  \E g : Solves(f, S, g) /\ SumOf(f, S) = g[S]
<1>1. Cardinality(S) \in Nat
  BY FS_CardinalityType
<1>2. SUBSET S = Small(S, Cardinality(S))
  <2>1. ASSUME NEW s \in SUBSET S PROVE Cardinality(s) <= Cardinality(S)
    BY FS_Subset
  <2>2. QED
    BY <2>1 DEF Small
<1>3. \E g : Sums(f, Small(S, Cardinality(S)), g)
  BY <1>1, SumsExist
<1>4. Sums(f, SUBSET S, CHOOSE g : Sums(f, SUBSET S, g))
  BY <1>2, <1>3
<1>5. QED
  BY <1>4, SumUnfold DEF Solves

\* Two solutions agree on what both are defined for, and it does not matter
\* which function holds the terms as long as the terms are the same.
LEMMA SumsAgree ==
  ASSUME NEW f, NEW g, NEW S, NEW T, IsFiniteSet(S), T \subseteq S,
         NEW F, Solves(f, S, F), NEW G, Solves(g, T, G),
         \A x \in T : f[x] = g[x]
  PROVE  F[T] = G[T]
<1> DEFINE Bad == {s \in SUBSET T : F[s] # G[s]}
           Sizes == {n \in Nat : \E s \in Bad : Cardinality(s) = n}
<1>1. SUFFICES ASSUME Bad # {} PROVE FALSE
  OBVIOUS
<1>2. \A s \in SUBSET T : s \in SUBSET S
  OBVIOUS
<1>3. Sizes # {}
  <2>1. PICK s : s \in Bad
    BY <1>1
  <2>2. Cardinality(s) \in Nat
    BY <2>1, <1>2, SubsetCard
  <2>3. QED
    BY <2>1, <2>2
<1>4. PICK n \in Sizes : \A m \in Sizes : n <= m
  <2>1. Sizes \subseteq Nat
    OBVIOUS
  <2> HIDE DEF Sizes
  <2>2. QED
    BY <1>3, <2>1, Least
<1>5. PICK s \in Bad : Cardinality(s) = n
  BY <1>4
<1>6. F[s] = IF s = {} THEN 0 ELSE f[First(s)] + F[s \ {First(s)}]
  BY <1>2, <1>5 DEF Solves, Sums
<1>7. G[s] = IF s = {} THEN 0 ELSE g[First(s)] + G[s \ {First(s)}]
  BY <1>5 DEF Solves, Sums
<1>8. CASE s = {}
  BY <1>5, <1>6, <1>7, <1>8
<1>9. CASE s # {}
  <2> DEFINE r == s \ {First(s)}
  <2>1. /\ n \in Nat /\ First(s) \in s /\ r \in SUBSET T
        /\ Cardinality(r) = n - 1 /\ n - 1 \in Nat
    <3>1. Cardinality(s) \in Nat /\ Cardinality(s) # 0 /\ First(s) \in s
          /\ Cardinality(r) = Cardinality(s) - 1
      BY <1>2, <1>5, <1>9, SubsetCard
    <3>2. QED
      BY <1>5, <3>1
  <2>2. n - 1 \notin Sizes
    BY <1>4, <2>1
  <2>3. F[r] = G[r]
    BY <2>1, <2>2
  <2>4. f[First(s)] = g[First(s)]
    BY <1>5, <2>1
  <2>5. QED
    BY <1>5, <1>6, <1>7, <1>9, <2>3, <2>4
<1>10. QED
  BY <1>8, <1>9

\* The sum depends on the terms alone.
LEMMA SumAgree ==
  ASSUME NEW f, NEW g, NEW S, IsFiniteSet(S), \A x \in S : f[x] = g[x]
  PROVE  SumOf(f, S) = SumOf(g, S)
<1>1. PICK F : Solves(f, S, F) /\ SumOf(f, S) = F[S]
  BY SumIsSolution
<1>2. PICK G : Solves(g, S, G) /\ SumOf(g, S) = G[S]
  BY SumIsSolution
<1>3. F[S] = G[S]
  <2>1. S \subseteq S
    OBVIOUS
  <2>2. QED
    BY <1>1, <1>2, <2>1, SumsAgree
<1>4. QED
  BY <1>1, <1>2, <1>3

\* The sum of nothing, and the sum of what its first element leaves.
LEMMA SumFirst ==
  ASSUME NEW f, NEW S, IsFiniteSet(S)
  PROVE  SumOf(f, S) =
           IF S = {} THEN 0 ELSE f[First(S)] + SumOf(f, S \ {First(S)})
<1>1. PICK F : Solves(f, S, F) /\ SumOf(f, S) = F[S]
  BY SumIsSolution
<1>2. F[S] = IF S = {} THEN 0 ELSE f[First(S)] + F[S \ {First(S)}]
  BY <1>1 DEF Solves, Sums
<1>3. SumOf(f, S \ {First(S)}) = F[S \ {First(S)}]
  <2> DEFINE T == S \ {First(S)}
  <2>1. T \subseteq S /\ IsFiniteSet(T)
    BY FS_Subset
  <2> HIDE DEF T
  <2>2. PICK G : Solves(f, T, G) /\ SumOf(f, T) = G[T]
    BY <2>1, SumIsSolution
  <2>3. \A x \in T : f[x] = f[x]
    OBVIOUS
  <2>4. F[T] = G[T]
    BY <1>1, <2>1, <2>2, <2>3, SumsAgree
  <2>5. QED
    BY <2>2, <2>4 DEF T
<1>4. QED
  BY <1>1, <1>2, <1>3

\* A sum of integers is one.
LEMMA SumType ==
  ASSUME NEW f, NEW S, IsFiniteSet(S), \A x \in S : f[x] \in Int
  PROVE  SumOf(f, S) \in Int
<1> DEFINE Bad == {s \in SUBSET S : SumOf(f, s) \notin Int}
           Sizes == {n \in Nat : \E s \in Bad : Cardinality(s) = n}
<1>1. SUFFICES ASSUME Bad # {} PROVE FALSE
  OBVIOUS
<1>2. Sizes # {}
  <2>1. PICK s : s \in Bad
    BY <1>1
  <2>2. Cardinality(s) \in Nat
    BY <2>1, SubsetCard
  <2>3. QED
    BY <2>1, <2>2
<1>3. PICK n \in Sizes : \A m \in Sizes : n <= m
  <2>1. Sizes \subseteq Nat
    OBVIOUS
  <2> HIDE DEF Sizes
  <2>2. QED
    BY <1>2, <2>1, Least
<1>4. PICK s \in Bad : Cardinality(s) = n
  BY <1>3
<1>5. SumOf(f, s) = IF s = {} THEN 0 ELSE f[First(s)] + SumOf(f, s \ {First(s)})
  BY <1>4, SubsetCard, SumFirst
<1>6. s # {}
  BY <1>4, <1>5
<1> DEFINE r == s \ {First(s)}
<1>7. /\ n \in Nat /\ First(s) \in S /\ r \in SUBSET S
      /\ Cardinality(r) = n - 1 /\ n - 1 \in Nat
  <2>1. Cardinality(s) \in Nat /\ Cardinality(s) # 0 /\ First(s) \in s
        /\ Cardinality(r) = Cardinality(s) - 1
    BY <1>4, <1>6, SubsetCard
  <2>2. QED
    BY <1>4, <2>1
<1>8. n - 1 \notin Sizes
  BY <1>3, <1>7
<1>9. SumOf(f, r) \in Int /\ f[First(s)] \in Int
  BY <1>7, <1>8
<1>10. SumOf(f, s) \in Int
  BY <1>5, <1>6, <1>9
<1>11. QED
  BY <1>4, <1>10

\* Any element may be taken out first.
LEMMA SumRemove ==
  ASSUME NEW f, NEW S, IsFiniteSet(S), \A x \in S : f[x] \in Int,
         NEW y \in S
  PROVE  SumOf(f, S) = f[y] + SumOf(f, S \ {y})
<1> DEFINE Bad == {s \in SUBSET S :
                     \E x \in s : SumOf(f, s) # f[x] + SumOf(f, s \ {x})}
           Sizes == {n \in Nat : \E s \in Bad : Cardinality(s) = n}
<1>1. SUFFICES ASSUME Bad # {} PROVE FALSE
  OBVIOUS
<1>2. Sizes # {}
  <2>1. PICK s : s \in Bad
    BY <1>1
  <2>2. Cardinality(s) \in Nat
    BY <2>1, SubsetCard
  <2>3. QED
    BY <2>1, <2>2
<1>3. PICK n \in Sizes : \A m \in Sizes : n <= m
  <2>1. Sizes \subseteq Nat
    OBVIOUS
  <2> HIDE DEF Sizes
  <2>2. QED
    BY <1>2, <2>1, Least
<1>4. PICK s \in Bad : Cardinality(s) = n
  BY <1>3
<1>5. PICK x \in s : SumOf(f, s) # f[x] + SumOf(f, s \ {x})
  BY <1>4
<1> DEFINE w == First(s)
           r == s \ {w}
           q == s \ {x}
           p == s \ {w, x}
<1>6. SumOf(f, s) = f[w] + SumOf(f, r)
  BY <1>4, <1>5, SubsetCard, SumFirst
<1>7. w # x
  BY <1>5, <1>6
<1>8. /\ n \in Nat /\ w \in s /\ w \in S /\ x \in S
      /\ r \in SUBSET S /\ q \in SUBSET S /\ p \in SUBSET S
      /\ Cardinality(r) = n - 1 /\ Cardinality(q) = n - 1 /\ n - 1 \in Nat
  <2>1. Cardinality(s) \in Nat /\ Cardinality(s) # 0 /\ First(s) \in s
        /\ Cardinality(r) = Cardinality(s) - 1
        /\ Cardinality(q) = Cardinality(s) - 1
    BY <1>4, <1>5, SubsetCard
  <2>2. QED
    BY <1>4, <1>5, <2>1
<1>9. n - 1 \notin Sizes
  BY <1>3, <1>8
<1>10. r \notin Bad /\ q \notin Bad
  BY <1>8, <1>9
<1>11. SumOf(f, r) = f[x] + SumOf(f, p)
  <2>1. x \in r /\ r \ {x} = p
    BY <1>5, <1>7
  <2>2. QED
    BY <1>8, <1>10, <2>1
<1>12. SumOf(f, q) = f[w] + SumOf(f, p)
  <2>1. w \in q /\ q \ {w} = p
    BY <1>7, <1>8
  <2>2. QED
    BY <1>8, <1>10, <2>1
<1>13. SumOf(f, p) \in Int
  <2>1. IsFiniteSet(p) /\ \A z \in p : f[z] \in Int
    BY <1>8, FS_Subset
  <2> HIDE DEF p
  <2>2. QED
    BY <2>1, SumType
<1>14. f[w] \in Int /\ f[x] \in Int
  BY <1>8
<1>15. QED
  BY <1>5, <1>6, <1>11, <1>12, <1>13, <1>14

\* The sum of the sizes of sets that have nothing in common is the size of what
\* they make up together.
LEMMA SumOfSizes ==
  ASSUME NEW f, NEW u, NEW S, IsFiniteSet(S),
         \A x \in S : IsFiniteSet(u[x]) /\ f[x] = Cardinality(u[x]),
         \A x, y \in S : x # y => u[x] \intersect u[y] = {}
  PROVE  /\ IsFiniteSet(UNION {u[x] : x \in S})
         /\ SumOf(f, S) = Cardinality(UNION {u[x] : x \in S})
<1> DEFINE U(s) == UNION {u[x] : x \in s}
           Good(s) == IsFiniteSet(U(s)) /\ SumOf(f, s) = Cardinality(U(s))
           Bad == {s \in SUBSET S : ~Good(s)}
           Sizes == {n \in Nat : \E s \in Bad : Cardinality(s) = n}
<1>1. SUFFICES ASSUME Bad # {} PROVE FALSE
  OBVIOUS
<1>2. Sizes # {}
  <2>1. PICK s : s \in Bad
    BY <1>1
  <2>2. Cardinality(s) \in Nat
    BY <2>1, SubsetCard
  <2>3. QED
    BY <2>1, <2>2
<1>3. PICK n \in Sizes : \A m \in Sizes : n <= m
  <2>1. Sizes \subseteq Nat
    OBVIOUS
  <2> HIDE DEF Sizes
  <2>2. QED
    BY <1>2, <2>1, Least
<1>4. PICK s \in Bad : Cardinality(s) = n
  BY <1>3
<1>5. SumOf(f, s) = IF s = {} THEN 0 ELSE f[First(s)] + SumOf(f, s \ {First(s)})
  <2>1. s \in SUBSET S
    BY <1>4
  <2>2. IsFiniteSet(s)
    BY <2>1, SubsetCard
  <2> HIDE DEF Bad, Good, U
  <2>3. QED
    BY <2>2, SumFirst
<1>6. s # {}
  <2>1. CASE s = {}
    <3>1. U(s) = {}
      BY <2>1
    <3>2. Good(s)
      BY <1>5, <2>1, <3>1, FS_EmptySet
    <3>3. QED
      BY <1>4, <3>2
  <2>2. QED
    BY <2>1
<1> DEFINE w == First(s)
           r == s \ {w}
<1>7. /\ n \in Nat /\ w \in s /\ w \in S /\ r \in SUBSET S
      /\ Cardinality(r) = n - 1 /\ n - 1 \in Nat
  <2>1. Cardinality(s) \in Nat /\ Cardinality(s) # 0 /\ First(s) \in s
        /\ Cardinality(r) = Cardinality(s) - 1
    BY <1>4, <1>6, SubsetCard
  <2>2. QED
    BY <1>4, <2>1
<1>8. n - 1 \notin Sizes
  <2>1. ~ (n <= n - 1)
    BY <1>7
  <2> HIDE DEF Sizes
  <2>2. QED
    BY <1>3, <2>1
<1>9. Good(r)
  BY <1>7, <1>8
<1>10. U(s) = u[w] \union U(r) /\ u[w] \intersect U(r) = {}
  <2>1. s = {w} \union r /\ r \subseteq S /\ w \notin r
    BY <1>4, <1>7
  <2>2. ASSUME NEW x \in r PROVE u[w] \intersect u[x] = {}
    BY <1>7, <2>1
  <2> HIDE DEF w, r
  <2>3. QED
    BY <2>1, <2>2
<1>11. IsFiniteSet(u[w]) /\ f[w] = Cardinality(u[w]) /\ Cardinality(u[w]) \in Nat
  BY <1>7, FS_CardinalityType
<1>12. IsFiniteSet(U(r)) /\ SumOf(f, r) = Cardinality(U(r)) /\ Cardinality(U(r)) \in Nat
  BY <1>9, FS_CardinalityType
<1>13. IsFiniteSet(U(s)) /\ Cardinality(U(s)) = Cardinality(u[w]) + Cardinality(U(r))
  <2> HIDE DEF U, w, r
  <2>1. /\ IsFiniteSet(u[w] \union U(r))
        /\ Cardinality(u[w] \union U(r)) =
             Cardinality(u[w]) + Cardinality(U(r)) - Cardinality(u[w] \intersect U(r))
    BY <1>11, <1>12, FS_Union
  <2>2. Cardinality(u[w] \intersect U(r)) = 0
    BY <1>10, FS_EmptySet
  <2>3. QED
    BY <1>10, <1>11, <1>12, <2>1, <2>2
<1>14. Good(s)
  BY <1>5, <1>6, <1>11, <1>12, <1>13
<1>15. QED
  BY <1>4, <1>14

\* What the sets u[x] hold together.
AllOf(u, S) == UNION {u[x] : x \in S}

\* f counts what the finitely many sets u[x] hold, which have nothing in common with each
\* other or with own.
Counts(f, u, S, own) ==
  /\ IsFiniteSet(S) /\ IsFiniteSet(own)
  /\ \A x \in S : IsFiniteSet(u[x]) /\ f[x] = Cardinality(u[x])
  /\ \A x, y \in S : x # y => u[x] \intersect u[y] = {}
  /\ \A x \in S : own \intersect u[x] = {}

\* The same with a set beside them that has nothing in common with any of them.
LEMMA SumOfSizesBeside ==
  ASSUME NEW f, NEW u, NEW S, NEW own, Counts(f, u, S, own)
  PROVE  /\ IsFiniteSet(own \union AllOf(u, S))
         /\ Cardinality(own) + SumOf(f, S) = Cardinality(own \union AllOf(u, S))
<1> DEFINE all == UNION {u[x] : x \in S}
<1>1. IsFiniteSet(all) /\ SumOf(f, S) = Cardinality(all)
  BY SumOfSizes DEF Counts
<1>2. own \intersect all = {} /\ IsFiniteSet(own)
  BY DEF Counts
<1> HIDE DEF all
<1>3. Cardinality(own) \in Nat /\ Cardinality(all) \in Nat
  BY <1>1, <1>2, FS_CardinalityType
<1>4. /\ IsFiniteSet(own \union all)
      /\ Cardinality(own \union all) =
           Cardinality(own) + Cardinality(all) - Cardinality(own \intersect all)
  BY <1>1, <1>2, FS_Union
<1>5. Cardinality(own \intersect all) = 0
  BY <1>2, FS_EmptySet
<1>6. Cardinality(own \union all) = Cardinality(own) + Cardinality(all)
  BY <1>3, <1>4, <1>5
<1>7. QED
  BY <1>1, <1>4, <1>6 DEF all, AllOf
=============================================================================
