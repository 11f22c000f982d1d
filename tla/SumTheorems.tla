---------------------------- MODULE SumTheorems -----------------------------
(***************************************************************************)
(* SumFunctionOnSet, the sum of f[x] for the x of a finite set.  The fold   *)
(* behind it takes out the elements of the set in an order of its own, by   *)
(* CHOOSE.  These lemmas say that the fold is what it looks like, that the  *)
(* order does not matter, and how the sum changes with the set and with f.  *)
(* Induction over sets is taken from the least number and the smallest set: *)
(* a statement that is false for some set is false for a smallest one.      *)
(***************************************************************************)
EXTENDS Integers, FiniteSets, Functions, FiniteSetTheorems, WellFoundedInduction, TLAPS

\* A set of numbers has a least one.
LEMMA LeastNumber ==
    ASSUME NEW B \in SUBSET Nat, B # {}
    PROVE  \E n \in B : \A m \in B : n <= m
<1> DEFINE R == {p \in Nat \X Nat : p[1] < p[2]}
<1>1. IsWellFoundedOn(R, Nat)
  BY NatLessThanWellFounded DEF OpToRel
<1>2. PICK n \in B : \A m \in B : ~(<<m, n>> \in R)
  <2> HIDE DEF R
  <2> QED
    BY <1>1, WFMin
<1>3. \A m \in B : m \in Nat /\ n \in Nat /\ ~(m < n)
  BY <1>2
<1> QED
  BY <1>3

\* Among subsets of a finite set there is one that contains no other.
LEMMA SmallestSet ==
    ASSUME NEW S, IsFiniteSet(S), NEW B \in SUBSET (SUBSET S), B # {}
    PROVE  \E s \in B : \A t \in B : t \subseteq s => t = s
<1>1. IsWellFoundedOn(StrictSubsetOrdering(S), SUBSET S)
  BY FS_StrictSubsetOrderingWellFounded, FS_FiniteSubsetsOfFinite
<1>2. PICK s \in B : \A t \in B : ~(<<t, s>> \in StrictSubsetOrdering(S))
  BY <1>1, WFMin
<1> QED
  BY <1>2 DEF StrictSubsetOrdering

Some(s) == CHOOSE x \in s : TRUE

\* The equation of the fold at s.
FoldsAt(f, g, s) == g[s] = IF s = {} THEN 0 ELSE f[Some(s)] + g[s \ {Some(s)}]

\* g is the fold of f over the subsets of S.
IsFold(f, g, S) == g \in [SUBSET S -> Int] /\ \A s \in SUBSET S : FoldsAt(f, g, s)

\* CHOOSE picks an element where there is one.
LEMMA SomeInSet == \A s : s # {} => Some(s) \in s
BY DEF Some

\* The recursive definition has a solution.
LEMMA FoldExists ==
    ASSUME NEW S, IsFiniteSet(S), NEW f, \A x \in S : f[x] \in Int
    PROVE  \E g : IsFold(f, g, S)
<1> DEFINE UpTo(n, g) == /\ g \in [SUBSET S -> Int]
                         /\ \A s \in SUBSET S : Cardinality(s) <= n => FoldsAt(f, g, s)
           Bad == {n \in Nat : ~\E g : UpTo(n, g)}
<1>0. \A s \in SUBSET S : IsFiniteSet(s) /\ Cardinality(s) \in Nat
                          /\ (Cardinality(s) = 0 <=> s = {})
  BY FS_Subset, FS_CardinalityType, FS_EmptySet
<1>1. 0 \notin Bad
  <2> DEFINE g == [s \in SUBSET S |-> 0]
  <2>1. UpTo(0, g)
    BY <1>0 DEF FoldsAt
  <2> QED
    BY <2>1
<1>2. ASSUME NEW n \in Nat, n \notin Bad PROVE n + 1 \notin Bad
  <2>1. PICK g : UpTo(n, g)
    BY <1>2
  <2> DEFINE h == [s \in SUBSET S |-> IF Cardinality(s) <= n THEN g[s]
                                      ELSE f[Some(s)] + g[s \ {Some(s)}]]
  <2>2. \A s \in SUBSET S : s # {} =>
           /\ Some(s) \in S /\ Some(s) \in s /\ s \ {Some(s)} \in SUBSET S
           /\ Cardinality(s \ {Some(s)}) = Cardinality(s) - 1
    BY <1>0, SomeInSet, FS_RemoveElement
  <2>3. h \in [SUBSET S -> Int]
    <3>1. ASSUME NEW s \in SUBSET S, ~(Cardinality(s) <= n) PROVE s # {}
      BY <1>0, <3>1
    <3> QED
      BY <2>1, <2>2, <3>1
  <2>4. ASSUME NEW s \in SUBSET S, Cardinality(s) <= n + 1 PROVE FoldsAt(f, h, s)
    <3>1. CASE s = {}
      BY <1>0, <2>1, <3>1 DEF FoldsAt
    <3>2. CASE s # {} /\ Cardinality(s) <= n
      BY <1>0, <2>1, <2>2, <3>2 DEF FoldsAt
    <3>3. CASE s # {} /\ ~(Cardinality(s) <= n)
      <4>1. Cardinality(s \ {Some(s)}) <= n
        BY <1>0, <2>2, <2>4, <3>3
      <4> QED
        BY <2>2, <3>3, <4>1 DEF FoldsAt
    <3> QED
      BY <3>1, <3>2, <3>3
  <2>5. UpTo(n + 1, h)
    BY <2>3, <2>4
  <2> QED
    BY <2>5
<1>3. Bad = {}
  <2> SUFFICES ASSUME Bad # {} PROVE FALSE
    OBVIOUS
  <2>1. PICK n \in Bad : \A m \in Bad : n <= m
    <3>1. Bad \in SUBSET Nat
      OBVIOUS
    <3> HIDE DEF Bad
    <3> QED
      BY <3>1, LeastNumber
  <2>2. n \in Nat /\ n # 0
    BY <1>1
  <2>3. n - 1 \in Nat /\ n - 1 \notin Bad
    <3> HIDE DEF Bad
    <3> QED
      BY <2>1, <2>2
  <2>4. (n - 1) + 1 \notin Bad
    BY <1>2, <2>3
  <2> HIDE DEF Bad
  <2> QED
    BY <2>1, <2>2, <2>4
<1>4. PICK g : UpTo(Cardinality(S), g)
  <2>1. Cardinality(S) \in Nat
    BY FS_CardinalityType
  <2> QED
    BY <1>3, <2>1
<1>5. \A s \in SUBSET S : Cardinality(s) <= Cardinality(S)
  BY FS_Subset
<1> QED
  BY <1>4, <1>5 DEF IsFold

\* And only one.
LEMMA FoldUnique ==
    ASSUME NEW S, IsFiniteSet(S), NEW f, NEW g, NEW h,
           \A s \in SUBSET S : FoldsAt(f, g, s) /\ FoldsAt(f, h, s)
    PROVE  \A s \in SUBSET S : g[s] = h[s]
<1> DEFINE Bad == {s \in SUBSET S : g[s] # h[s]}
<1> SUFFICES ASSUME Bad # {} PROVE FALSE
  OBVIOUS
<1>1. PICK s \in Bad : \A t \in Bad : t \subseteq s => t = s
  <2>1. Bad \in SUBSET (SUBSET S)
    OBVIOUS
  <2> HIDE DEF Bad
  <2> QED
    BY <2>1, SmallestSet
<1>2. s # {} /\ Some(s) \in s
  BY SomeInSet DEF FoldsAt
<1>3. s \ {Some(s)} \notin Bad
  BY <1>1, <1>2
<1> QED
  BY <1>2, <1>3 DEF FoldsAt

\* What SumFunctionOnSet returns for T is the value of every fold over a larger
\* set at T.
LEMMA SumIsFold ==
    ASSUME NEW S, IsFiniteSet(S), NEW f, \A x \in S : f[x] \in Int,
           NEW g, IsFold(f, g, S), NEW T \in SUBSET S
    PROVE  SumFunctionOnSet(f, T) = g[T]
<1> DEFINE Solves(k) == k = [s \in SUBSET T |-> IF s = {} THEN 0
                                               ELSE f[Some(s)] + k[s \ {Some(s)}]]
           h == CHOOSE k : Solves(k)
<1>1. PICK k : IsFold(f, k, T)
  BY FS_Subset, FoldExists
<1>2. Solves(k)
  BY <1>1 DEF IsFold, FoldsAt
<1>3. Solves(h)
  BY <1>2
<1>4. SumFunctionOnSet(f, T) = h[T]
  BY DEF SumFunctionOnSet, FoldFunctionOnSet, MapThenFoldSet, Some
<1>5. \A s \in SUBSET T : FoldsAt(f, h, s)
  <2> HIDE DEF h
  <2> QED
    BY <1>3 DEF FoldsAt
<1>6. \A s \in SUBSET T : FoldsAt(f, g, s)
  BY DEF IsFold
<1>7. h[T] = g[T]
  <2> HIDE DEF h
  <2>1. IsFiniteSet(T)
    BY FS_Subset
  <2>2. \A s \in SUBSET T : FoldsAt(f, h, s) /\ FoldsAt(f, g, s)
    BY <1>5, <1>6
  <2>3. \A s \in SUBSET T : h[s] = g[s]
    BY ONLY <2>1, <2>2, FoldUnique
  <2> QED
    BY <2>3
<1> QED
  BY <1>4, <1>7

\* The order in which the elements are taken does not matter.
LEMMA FoldAnyOrder ==
    ASSUME NEW S, IsFiniteSet(S), NEW f, \A x \in S : f[x] \in Int,
           NEW g, IsFold(f, g, S)
    PROVE  \A s \in SUBSET S : \A x \in s : g[s] = f[x] + g[s \ {x}]
<1> DEFINE Bad == {s \in SUBSET S : \E x \in s : g[s] # f[x] + g[s \ {x}]}
<1> SUFFICES ASSUME Bad # {} PROVE FALSE
  OBVIOUS
<1>1. PICK s \in Bad : \A t \in Bad : t \subseteq s => t = s
  <2>1. Bad \in SUBSET (SUBSET S)
    OBVIOUS
  <2> HIDE DEF Bad
  <2> QED
    BY <2>1, SmallestSet
<1>2. PICK x \in s : g[s] # f[x] + g[s \ {x}]
  OBVIOUS
<1> DEFINE y == Some(s)
<1>3. y \in s /\ g[s] = f[y] + g[s \ {y}]
  BY SomeInSet DEF IsFold, FoldsAt
<1>4. x # y /\ x \in s \ {y} /\ y \in s \ {x}
  BY <1>2, <1>3
<1>5. s \ {y} \notin Bad /\ s \ {x} \notin Bad
  BY <1>1, <1>2, <1>3
<1>6. /\ g[s \ {y}] = f[x] + g[(s \ {y}) \ {x}]
      /\ g[s \ {x}] = f[y] + g[(s \ {x}) \ {y}]
  BY <1>4, <1>5
<1>7. (s \ {y}) \ {x} = (s \ {x}) \ {y}
  OBVIOUS
<1>8. /\ f[x] \in Int /\ f[y] \in Int
      /\ g[(s \ {x}) \ {y}] \in Int /\ g[s \ {x}] \in Int /\ g[s \ {y}] \in Int
  BY <1>3 DEF IsFold
<1>9. g[s] = f[x] + g[s \ {x}]
  <2> HIDE DEF y, Bad
  <2> DEFINE r == g[(s \ {x}) \ {y}]
  <2>1. g[s] = f[y] + (f[x] + r) /\ g[s \ {x}] = f[y] + r
    BY <1>3, <1>6, <1>7
  <2>2. r \in Int
    BY <1>8
  <2> HIDE DEF r
  <2> QED
    BY <1>8, <2>1, <2>2
<1> QED
  BY <1>2, <1>9

(***************************************************************************)
(* What proofs about sums need.                                             *)
(***************************************************************************)

\* The empty sum is zero, a sum of integers is one, and any element can be
\* taken out first.
LEMMA SumFacts ==
    ASSUME NEW S, IsFiniteSet(S), NEW f, \A x \in S : f[x] \in Int
    PROVE  /\ SumFunctionOnSet(f, {}) = 0
           /\ SumFunctionOnSet(f, S) \in Int
           /\ \A x \in S : SumFunctionOnSet(f, S) = f[x] + SumFunctionOnSet(f, S \ {x})
<1>1. PICK g : IsFold(f, g, S)
  BY FoldExists
<1>2. \A T \in SUBSET S : SumFunctionOnSet(f, T) = g[T]
  BY <1>1, SumIsFold
<1>3. g[{}] = 0
  BY <1>1 DEF IsFold, FoldsAt
<1>4. g[S] \in Int
  BY <1>1 DEF IsFold
<1>5. \A x \in S : g[S] = f[x] + g[S \ {x}]
  BY <1>1, FoldAnyOrder
<1> QED
  BY <1>2, <1>3, <1>4, <1>5

\* The sum depends on the values in the set only.
LEMMA SumAgrees ==
    ASSUME NEW S, IsFiniteSet(S), NEW f, NEW h,
           \A x \in S : f[x] \in Int /\ h[x] = f[x]
    PROVE  SumFunctionOnSet(h, S) = SumFunctionOnSet(f, S)
<1>1. PICK g : IsFold(f, g, S)
  BY FoldExists
<1>2. IsFold(h, g, S)
  BY <1>1, SomeInSet DEF IsFold, FoldsAt
<1> QED
  BY <1>1, <1>2, SumIsFold

\* One more element.
LEMMA SumAdd ==
    ASSUME NEW S, IsFiniteSet(S), NEW f, NEW x, x \notin S,
           \A y \in S \cup {x} : f[y] \in Int
    PROVE  SumFunctionOnSet(f, S \cup {x}) = SumFunctionOnSet(f, S) + f[x]
<1>1. IsFiniteSet(S \cup {x}) /\ (S \cup {x}) \ {x} = S
  BY FS_AddElement
<1> QED
  BY <1>1, SumFacts

\* A sum of natural numbers is one.
LEMMA SumNat ==
    ASSUME NEW S, IsFiniteSet(S), NEW f, \A x \in S : f[x] \in Nat
    PROVE  SumFunctionOnSet(f, S) \in Nat
<1> DEFINE Bad == {s \in SUBSET S : SumFunctionOnSet(f, s) \notin Nat}
<1> SUFFICES ASSUME Bad # {} PROVE FALSE
  OBVIOUS
<1>1. PICK s \in Bad : \A t \in Bad : t \subseteq s => t = s
  <2>1. Bad \in SUBSET (SUBSET S)
    OBVIOUS
  <2> HIDE DEF Bad
  <2> QED
    BY <2>1, SmallestSet
<1>2. IsFiniteSet(s) /\ s # {}
  <2>1. IsFiniteSet(s)
    BY FS_Subset
  <2>2. SumFunctionOnSet(f, {}) = 0
    BY SumFacts
  <2> QED
    BY <2>1, <2>2
<1>3. PICK x \in s : TRUE
  BY <1>2
<1>4. s \ {x} \notin Bad
  BY <1>1, <1>3
<1> QED
  BY <1>2, <1>3, <1>4, SumFacts

\* A sum of zeros is zero.
LEMMA SumZero ==
    ASSUME NEW S, IsFiniteSet(S), NEW f, \A x \in S : f[x] = 0
    PROVE  SumFunctionOnSet(f, S) = 0
<1> DEFINE Bad == {s \in SUBSET S : SumFunctionOnSet(f, s) # 0}
<1> SUFFICES ASSUME Bad # {} PROVE FALSE
  OBVIOUS
<1>1. PICK s \in Bad : \A t \in Bad : t \subseteq s => t = s
  <2>1. Bad \in SUBSET (SUBSET S)
    OBVIOUS
  <2> HIDE DEF Bad
  <2> QED
    BY <2>1, SmallestSet
<1>2. IsFiniteSet(s) /\ s # {}
  <2>1. IsFiniteSet(s)
    BY FS_Subset
  <2>2. SumFunctionOnSet(f, {}) = 0
    BY SumFacts
  <2> QED
    BY <2>1, <2>2
<1>3. PICK x \in s : TRUE
  BY <1>2
<1>4. s \ {x} \notin Bad
  BY <1>1, <1>3
<1> QED
  BY <1>2, <1>3, <1>4, SumFacts
=============================================================================
