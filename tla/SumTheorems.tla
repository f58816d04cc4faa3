----------------------------- MODULE SumTheorems -----------------------------
(***************************************************************************)
(* What the sums of the model add up to, for finite sets of every size: the *)
(* marks of a window, what orders have on the way.  Induction is stated for *)
(* a set and not for a predicate, so that a lemma can be cited with the set *)
(* it is needed for.                                                       *)
(***************************************************************************)
EXTENDS Integers, FiniteSetsExt, FiniteSetTheorems, TLAPS

\* A set that holds 0 and the successor of each of its natural numbers holds
\* every natural number.
LEMMA SetInduction ==
  ASSUME NEW T, 0 \in T, \A n \in Nat : n \in T => n + 1 \in T
  PROVE  Nat \subseteq T
<1> DEFINE Missing  == Nat \ T
           Segments == {0..n : n \in Missing}
<1>1. SUFFICES ASSUME Missing # {} PROVE FALSE
  OBVIOUS
<1>2. \A n \in Nat : IsFiniteSet(0..n)
  BY FS_Interval
<1>3. Segments \subseteq FiniteSubsetsOf(Nat) /\ Segments # {}
  BY <1>1, <1>2 DEF FiniteSubsetsOf
<1>4. IsWellFoundedOn(StrictSubsetOrdering(Nat), FiniteSubsetsOf(Nat))
  BY FS_StrictSubsetOrderingWellFounded
<1>5. PICK X \in Segments :
         \A Y \in Segments : ~ (<<Y, X>> \in StrictSubsetOrdering(Nat))
  <2> HIDE DEF Segments
  <2> QED BY <1>3, <1>4, WFMin, Zenon
<1>6. PICK n \in Missing : X = 0..n
  BY <1>5
<1>7. n \in Nat /\ n # 0
  BY <1>6
<1>8. n - 1 \in Nat /\ (n - 1) + 1 = n
  BY <1>7
<1>9. n - 1 \in Missing
  BY <1>6, <1>8
<1>10. 0..(n - 1) \subseteq 0..n /\ 0..(n - 1) # 0..n
  <2>1. n \in 0..n /\ n \notin 0..(n - 1)
    BY <1>7
  <2> QED BY <2>1, <1>7
<1>11. <<0..(n - 1), X>> \in StrictSubsetOrdering(Nat)
  BY <1>6, <1>7, <1>10 DEF StrictSubsetOrdering
<1> QED BY <1>5, <1>9, <1>11

\* The least of some numbers.
LEMMA LeastIs ==
  ASSUME NEW S \in SUBSET Nat, S # {}
  PROVE  Min(S) \in S /\ \A y \in S : Min(S) <= y
<1>1. \E x \in S : \A y \in S : x <= y
  <2>1. SUFFICES ASSUME \A x \in S : \E y \in S : ~ (x <= y) PROVE FALSE
    OBVIOUS
  <2> DEFINE T == {n \in Nat : \A m \in 0..n : m \notin S}
  <2>2. \A x \in S : \E y \in S : y < x
    BY <2>1
  <2>3. 0 \in T
    BY <2>2
  <2>4. ASSUME NEW n \in Nat, n \in T PROVE n + 1 \in T
    <3>1. \A m \in 0..(n + 1) : m \in 0..n \/ m = n + 1
      OBVIOUS
    <3>2. ASSUME n + 1 \in S PROVE FALSE
      <4>1. PICK y \in S : y < n + 1
        BY <2>2, <3>2
      <4>2. y \in 0..n
        BY <4>1
      <4> QED BY <2>4, <4>2
    <3> QED BY <2>4, <3>1, <3>2
  <2>5. Nat \subseteq T
    <3> HIDE DEF T
    <3> QED BY <2>3, <2>4, SetInduction
  <2>6. PICK n \in S : TRUE
    OBVIOUS
  <2> QED BY <2>5, <2>6
<1> QED BY <1>1 DEF Min

-----------------------------------------------------------------------------
(* Sums over the subsets of a finite set.                                   *)

SumOver(f, S) == MapThenSumSet(LAMBDA x : f[x], S)

\* The subsets of D with at most n elements.
Few(D, n) == {S \in SUBSET D : Cardinality(S) <= n}

\* t adds up f over each set of X, taking out one element after the other.
IsSum(t, f, X) ==
  t = [S \in X |-> IF S = {} THEN 0
                   ELSE f[CHOOSE x \in S : TRUE] + t[S \ {CHOOSE x \in S : TRUE}]]

\* t is what SumOver(f, S) is for every subset of D.
IsSumOver(t, f, D) ==
  IsSum(t, f, SUBSET D) /\ \A S \in SUBSET D : SumOver(f, S) = t[S]

\* What is left of a set when one of its elements is taken out.
LEMMA TakeAway ==
  ASSUME NEW D, IsFiniteSet(D), NEW S \in SUBSET D, NEW x \in S
  PROVE  /\ x \in D /\ S \ {x} \in SUBSET D /\ IsFiniteSet(S)
         /\ Cardinality(S) \in Nat /\ Cardinality(S \ {x}) = Cardinality(S) - 1
<1>1. IsFiniteSet(S)
  BY FS_Subset
<1> QED BY <1>1, FS_RemoveElement, FS_CardinalityType

LEMMA TakeOne ==
  ASSUME NEW D, IsFiniteSet(D), NEW S \in SUBSET D, S # {}
  PROVE  LET d == CHOOSE x \in S : TRUE IN
         /\ d \in S /\ d \in D /\ S \ {d} \in SUBSET D
         /\ Cardinality(S) \in Nat /\ Cardinality(S \ {d}) = Cardinality(S) - 1
<1> DEFINE d == CHOOSE x \in S : TRUE
<1>1. d \in S
  OBVIOUS
<1> HIDE DEF d
<1>2. /\ d \in D /\ S \ {d} \in SUBSET D
      /\ Cardinality(S) \in Nat /\ Cardinality(S \ {d}) = Cardinality(S) - 1
  BY <1>1, TakeAway
<1> QED BY <1>1, <1>2 DEF d

\* A set without elements is the only one of at most 0.
LEMMA FewestIsEmpty ==
  ASSUME NEW D, IsFiniteSet(D), NEW S \in Few(D, 0)
  PROVE  S = {}
<1>1. S \in SUBSET D /\ Cardinality(S) <= 0
  BY DEF Few
<1> QED BY <1>1, TakeOne, FS_CardinalityType, FS_Subset, FS_EmptySet

\* One element less, one set smaller.
LEMMA FewerLeft ==
  ASSUME NEW D, IsFiniteSet(D), NEW n \in Nat, NEW S \in Few(D, n + 1), NEW x \in S
  PROVE  S \in SUBSET D /\ x \in D /\ S \ {x} \in Few(D, n)
<1>1. S \in SUBSET D /\ Cardinality(S) <= n + 1
  BY DEF Few
<1>2. /\ x \in D /\ S \ {x} \in SUBSET D
      /\ Cardinality(S) \in Nat /\ Cardinality(S \ {x}) = Cardinality(S) - 1
  BY <1>1, TakeAway
<1> QED BY <1>1, <1>2 DEF Few

LEMMA FewIsMore ==
  ASSUME NEW D, IsFiniteSet(D), NEW n \in Nat, NEW S \in Few(D, n)
  PROVE  S \in Few(D, n + 1)
<1>1. S \in SUBSET D /\ Cardinality(S) <= n
  BY DEF Few
<1>2. Cardinality(S) \in Nat
  BY <1>1, FS_Subset, FS_CardinalityType
<1> QED BY <1>1, <1>2 DEF Few

LEMMA FewAreAll ==
  ASSUME NEW D, IsFiniteSet(D)
  PROVE  Cardinality(D) \in Nat /\ Few(D, Cardinality(D)) = SUBSET D
<1>1. Cardinality(D) \in Nat
  BY FS_CardinalityType
<1>2. ASSUME NEW S \in SUBSET D PROVE Cardinality(S) <= Cardinality(D)
  BY FS_Subset
<1> QED BY <1>1, <1>2 DEF Few

\* What holds of the sets of at most n elements for every n holds of all.
LEMMA FewInduction ==
  ASSUME NEW D, IsFiniteSet(D), NEW P,
         Few(D, 0) \subseteq P,
         \A n \in Nat : Few(D, n) \subseteq P => Few(D, n + 1) \subseteq P
  PROVE  SUBSET D \subseteq P
<1> DEFINE T == {n \in Nat : Few(D, n) \subseteq P}
<1>1. 0 \in T
  OBVIOUS
<1>2. \A n \in Nat : n \in T => n + 1 \in T
  OBVIOUS
<1>3. Nat \subseteq T
  <2> HIDE DEF T
  <2> QED BY <1>1, <1>2, SetInduction
<1> QED BY <1>3, FewAreAll

-----------------------------------------------------------------------------

\* What t[S] is, read off its definition.
LEMMA SumStep ==
  ASSUME NEW t, NEW f, NEW X, IsSum(t, f, X), NEW S \in X
  PROVE  t[S] = IF S = {} THEN 0
                ELSE f[CHOOSE x \in S : TRUE] + t[S \ {CHOOSE x \in S : TRUE}]
  BY DEF IsSum

\* Every function has sums.
LEMMA SumExists ==
  ASSUME NEW D, IsFiniteSet(D), NEW f
  PROVE  \E t : IsSum(t, f, SUBSET D)
<1> DEFINE T == {n \in Nat : \E t : IsSum(t, f, Few(D, n))}
<1>1. 0 \in T
  <2> DEFINE t == [S \in Few(D, 0) |-> 0]
  <2>1. \A S \in Few(D, 0) : S = {}
    BY FewestIsEmpty
  <2>2. IsSum(t, f, Few(D, 0))
    BY <2>1 DEF IsSum
  <2> QED BY <2>2
<1>2. ASSUME NEW n \in Nat, n \in T PROVE n + 1 \in T
  <2>1. PICK t : IsSum(t, f, Few(D, n))
    BY <1>2
  <2> DEFINE next(g, S) == IF S = {} THEN 0
                           ELSE f[CHOOSE x \in S : TRUE]
                                  + g[S \ {CHOOSE x \in S : TRUE}]
             u == [S \in Few(D, n + 1) |-> next(t, S)]
  <2>2. ASSUME NEW S \in Few(D, n) PROVE u[S] = t[S]
    <3>1. S \in Few(D, n + 1)
      BY FewIsMore
    <3> QED BY <2>1, <3>1, SumStep
  <2>3. ASSUME NEW S \in Few(D, n + 1) PROVE u[S] = next(u, S)
    <3>1. CASE S = {}
      BY <3>1
    <3>2. CASE S # {}
      <4> DEFINE d == CHOOSE x \in S : TRUE
      <4>1. d \in S
        BY <3>2
      <4>2. S \ {d} \in Few(D, n)
        <5> HIDE DEF d
        <5> QED BY <4>1, FewerLeft
      <4>3. u[S \ {d}] = t[S \ {d}]
        BY <2>2, <4>2
      <4> QED BY <3>2, <4>3
    <3> QED BY <3>1, <3>2
  <2>4. u = [S \in Few(D, n + 1) |-> u[S]]
    OBVIOUS
  <2>5. IsSum(u, f, Few(D, n + 1))
    <3> HIDE DEF u
    <3> QED BY <2>3, <2>4 DEF IsSum
  <2> QED BY <2>5
<1>3. Nat \subseteq T
  <2> HIDE DEF T
  <2> QED BY <1>1, <1>2, SetInduction
<1>4. PICK t : IsSum(t, f, Few(D, Cardinality(D)))
  BY <1>3, FewAreAll
<1> QED BY <1>4, FewAreAll

\* Two functions that add up f agree where both do.
LEMMA SumUnique ==
  ASSUME NEW D, IsFiniteSet(D), NEW C \in SUBSET D, NEW f, NEW t, NEW u,
         IsSum(t, f, SUBSET C), IsSum(u, f, SUBSET D), NEW S \in SUBSET C
  PROVE  t[S] = u[S]
<1> DEFINE P == {R \in SUBSET C : t[R] = u[R]}
<1>1. IsFiniteSet(C)
  BY FS_Subset
<1>2. Few(C, 0) \subseteq P
  <2>1. ASSUME NEW R \in Few(C, 0) PROVE R \in P
    <3>1. R = {} /\ R \in SUBSET C /\ R \in SUBSET D
      BY <1>1, FewestIsEmpty
    <3> QED BY <3>1, SumStep
  <2> QED BY <2>1
<1>3. ASSUME NEW n \in Nat, Few(C, n) \subseteq P PROVE Few(C, n + 1) \subseteq P
  <2>1. ASSUME NEW R \in Few(C, n + 1) PROVE R \in P
    <3>1. R \in SUBSET C /\ R \in SUBSET D
      BY DEF Few
    <3>2. CASE R = {}
      BY <3>1, <3>2, SumStep
    <3>3. CASE R # {}
      <4> DEFINE d == CHOOSE x \in R : TRUE
      <4>1. d \in R
        BY <3>3
      <4>2. t[R] = f[d] + t[R \ {d}]
        BY <3>1, <3>3, SumStep
      <4>3. u[R] = f[d] + u[R \ {d}]
        BY <3>1, <3>3, SumStep
      <4> HIDE DEF d
      <4>4. R \ {d} \in Few(C, n)
        BY <1>1, <4>1, FewerLeft
      <4> QED BY <1>3, <3>1, <4>2, <4>3, <4>4
    <3> QED BY <3>2, <3>3
  <2> QED BY <2>1
<1>4. SUBSET C \subseteq P
  <2> HIDE DEF P
  <2> QED BY <1>1, <1>2, <1>3, FewInduction
<1> QED BY <1>4

\* The sums over subsets of D are those of one function that adds up f.
LEMMA SumIs ==
  ASSUME NEW D, IsFiniteSet(D), NEW f
  PROVE  \E t : IsSumOver(t, f, D)
<1>1. PICK t : IsSum(t, f, SUBSET D)
  BY SumExists
<1>2. ASSUME NEW S \in SUBSET D PROVE SumOver(f, S) = t[S]
  <2>1. IsFiniteSet(S)
    BY FS_Subset
  <2> DEFINE Adds(u) ==
               u = [R \in SUBSET S |->
                      IF R = {} THEN 0
                      ELSE f[CHOOSE x \in R : TRUE] + u[R \ {CHOOSE x \in R : TRUE}]]
  <2>2. \E u : Adds(u)
    <3>1. PICK u : IsSum(u, f, SUBSET S)
      BY <2>1, SumExists
    <3>2. Adds(u)
      BY <3>1 DEF IsSum
    <3> HIDE DEF Adds
    <3> QED BY <3>2
  <2>3. PICK u : u = CHOOSE v : Adds(v)
    OBVIOUS
  <2>4. Adds(u)
    <3> HIDE DEF Adds
    <3> QED BY <2>2, <2>3
  <2>5. SumOver(f, S) = u[S]
    BY <2>3, Zenon DEF SumOver, MapThenSumSet, MapThenFoldSet
  <2>6. IsSum(u, f, SUBSET S)
    BY <2>4 DEF IsSum
  <2> QED BY <1>1, <2>5, <2>6, SumUnique
<1> QED BY <1>1, <1>2 DEF IsSumOver

-----------------------------------------------------------------------------
(* What the proofs use of sums.                                             *)

LEMMA SumEmpty ==
  ASSUME NEW f
  PROVE  SumOver(f, {}) = 0
<1>1. PICK D : D = {}
  OBVIOUS
<1>2. IsFiniteSet(D)
  BY <1>1, FS_EmptySet
<1>3. PICK t : IsSumOver(t, f, D)
  BY <1>2, SumIs
<1>4. D \in SUBSET D
  OBVIOUS
<1>5. t[D] = 0
  BY <1>1, <1>3, <1>4, SumStep DEF IsSumOver
<1> QED BY <1>1, <1>3, <1>4, <1>5 DEF IsSumOver

\* A sum of integers is one, and it does not matter which of them comes last.
LEMMA SumTakeOut ==
  ASSUME NEW D, IsFiniteSet(D), NEW f, \A x \in D : f[x] \in Int
  PROVE  \A S \in SUBSET D :
           /\ SumOver(f, S) \in Int
           /\ \A x \in S : SumOver(f, S) = f[x] + SumOver(f, S \ {x})
<1>1. PICK t : IsSumOver(t, f, D)
  BY SumIs
<1>0. \A S \in SUBSET D : S = {} => t[S] = 0
  BY <1>1, SumStep DEF IsSumOver
<1> DEFINE P == {S \in SUBSET D :
                   t[S] \in Int /\ \A x \in S : t[S] = f[x] + t[S \ {x}]}
<1>2. Few(D, 0) \subseteq P
  <2>1. ASSUME NEW S \in Few(D, 0) PROVE S \in P
    <3>1. S = {} /\ S \in SUBSET D
      BY FewestIsEmpty
    <3> QED BY <1>0, <3>1
  <2> QED BY <2>1
<1>3. ASSUME NEW n \in Nat, Few(D, n) \subseteq P PROVE Few(D, n + 1) \subseteq P
  <2>1. ASSUME NEW S \in Few(D, n + 1) PROVE S \in P
    <3>1. S \in SUBSET D
      BY DEF Few
    <3>2. CASE S = {}
      BY <1>0, <3>1, <3>2
    <3>3. CASE S # {}
      <4> DEFINE d == CHOOSE x \in S : TRUE
      <4>1. d \in S
        BY <3>3
      <4>2. t[S] = f[d] + t[S \ {d}]
        BY <1>1, <3>1, <3>3, SumStep DEF IsSumOver
      <4> HIDE DEF d
      <4>3. S \ {d} \in Few(D, n) /\ d \in D /\ f[d] \in Int
        BY <4>1, FewerLeft
      <4>4. t[S \ {d}] \in Int /\ \A x \in S \ {d} : t[S \ {d}] = f[x] + t[(S \ {d}) \ {x}]
        BY <1>3, <4>3
      <4>5. ASSUME NEW x \in S PROVE t[S] = f[x] + t[S \ {x}]
        <5>1. CASE x = d
          BY <4>2, <5>1
        <5>2. CASE x # d
          <6>1. S \ {x} \in Few(D, n) /\ f[x] \in Int
            BY FewerLeft
          <6>2. d \in S \ {x}
            BY <4>1, <5>2
          <6>3. t[S \ {x}] \in Int /\ t[S \ {x}] = f[d] + t[(S \ {x}) \ {d}]
            BY <1>3, <6>1, <6>2
          <6>4. (S \ {x}) \ {d} = (S \ {d}) \ {x}
            OBVIOUS
          <6>5. t[S \ {d}] = f[x] + t[(S \ {x}) \ {d}]
            BY <4>4, <5>2, <6>4
          <6>6. (S \ {x}) \ {d} \in Few(D, n)
            <7>1. S \ {x} \in SUBSET D /\ Cardinality(S \ {x}) <= n
              BY <6>1 DEF Few
            <7>2. /\ (S \ {x}) \ {d} \in SUBSET D /\ Cardinality(S \ {x}) \in Nat
                  /\ Cardinality((S \ {x}) \ {d}) = Cardinality(S \ {x}) - 1
              <8>1. PICK R : R = S \ {x}
                OBVIOUS
              <8>2. R \in SUBSET D /\ d \in R
                BY <6>2, <7>1, <8>1
              <8> QED BY <8>1, <8>2, TakeAway
            <7> QED BY <7>1, <7>2 DEF Few
          <6>7. t[(S \ {x}) \ {d}] \in Int
            BY <1>3, <6>6
          <6> HIDE DEF P
          <6> QED BY <4>2, <4>3, <6>1, <6>3, <6>5, <6>7
        <5> QED BY <5>1, <5>2
      <4>6. t[S] \in Int
        BY <4>2, <4>3, <4>4
      <4> QED BY <3>1, <4>5, <4>6
    <3> QED BY <3>2, <3>3
  <2> QED BY <2>1
<1>4. SUBSET D \subseteq P
  <2> HIDE DEF P
  <2> QED BY <1>2, <1>3, FewInduction
<1> QED BY <1>1, <1>4 DEF IsSumOver

\* A larger set, and more for each of its elements, have a larger sum.
LEMMA SumMonotone ==
  ASSUME NEW D, IsFiniteSet(D), NEW f, NEW g,
         \A x \in D : f[x] \in Int /\ g[x] \in Nat,
         NEW C \in SUBSET D, \A x \in C : f[x] <= g[x]
  PROVE  /\ SumOver(f, C) \in Int /\ SumOver(g, D) \in Nat
         /\ SumOver(f, C) <= SumOver(g, D)
<1>1. \A S \in SUBSET D :
        /\ SumOver(f, S) \in Int
        /\ \A x \in S : SumOver(f, S) = f[x] + SumOver(f, S \ {x})
  BY SumTakeOut
<1>2. \A S \in SUBSET D :
        /\ SumOver(g, S) \in Int
        /\ \A x \in S : SumOver(g, S) = g[x] + SumOver(g, S \ {x})
  BY SumTakeOut
<1> DEFINE P == {S \in SUBSET D :
                   SumOver(g, S) >= 0 /\ SumOver(f, C \cap S) <= SumOver(g, S)}
<1>3. Few(D, 0) \subseteq P
  <2>1. ASSUME NEW S \in Few(D, 0) PROVE S \in P
    <3>1. S = {} /\ C \cap S = {} /\ S \in SUBSET D
      BY FewestIsEmpty
    <3> QED BY <3>1, SumEmpty
  <2> QED BY <2>1
<1>4. ASSUME NEW n \in Nat, Few(D, n) \subseteq P PROVE Few(D, n + 1) \subseteq P
  <2>1. ASSUME NEW S \in Few(D, n + 1) PROVE S \in P
    <3>1. S \in SUBSET D
      BY DEF Few
    <3>2. CASE S = {}
      BY <3>1, <3>2, SumEmpty
    <3>3. CASE S # {}
      <4>1. PICK d : d \in S
        BY <3>3
      <4>2. S \ {d} \in Few(D, n) /\ d \in D /\ f[d] \in Int /\ g[d] \in Nat
        BY <4>1, FewerLeft
      <4>3. SumOver(g, S \ {d}) >= 0 /\ SumOver(f, C \cap (S \ {d})) <= SumOver(g, S \ {d})
        BY <1>4, <4>2
      <4>4. SumOver(g, S) = g[d] + SumOver(g, S \ {d}) /\ SumOver(g, S \ {d}) \in Int
        BY <1>2, <3>1, <4>1
      <4>5. CASE d \in C
        <5>1. (C \cap S) \ {d} = C \cap (S \ {d}) /\ C \cap (S \ {d}) \in SUBSET D
          OBVIOUS
        <5>2. SumOver(f, C \cap S) = f[d] + SumOver(f, C \cap (S \ {d}))
          BY <1>1, <3>1, <4>1, <4>5, <5>1
        <5>3. SumOver(f, C \cap (S \ {d})) \in Int /\ f[d] <= g[d]
          BY <1>1, <4>5, <5>1
        <5>4. SumOver(g, S) >= 0 /\ SumOver(f, C \cap S) <= SumOver(g, S)
          <6> HIDE DEF P
          <6> QED BY <4>2, <4>3, <4>4, <5>2, <5>3
        <5> QED BY <3>1, <5>4
      <4>6. CASE d \notin C
        <5>1. C \cap S = C \cap (S \ {d}) /\ C \cap S \in SUBSET D
          BY <4>6
        <5>2. SumOver(f, C \cap S) \in Int
          BY <1>1, <5>1
        <5>3. SumOver(g, S) >= 0 /\ SumOver(f, C \cap S) <= SumOver(g, S)
          <6> HIDE DEF P
          <6> QED BY <4>2, <4>3, <4>4, <5>1, <5>2
        <5> QED BY <3>1, <5>3
      <4> QED BY <4>5, <4>6
    <3> QED BY <3>2, <3>3
  <2> QED BY <2>1
<1>5. SUBSET D \subseteq P
  <2> HIDE DEF P
  <2> QED BY <1>3, <1>4, FewInduction
<1>6. C \cap D = C /\ D \in P
  BY <1>5
<1>7. SumOver(f, C) \in Int /\ SumOver(g, D) \in Int
  BY <1>1, <1>2
<1>8. SumOver(g, D) >= 0 /\ SumOver(f, C) <= SumOver(g, D)
  BY <1>6
<1> QED BY <1>7, <1>8

\* Zeros do not count.
LEMMA SumOfTheRest ==
  ASSUME NEW D, IsFiniteSet(D), NEW f, \A x \in D : f[x] \in Int,
         NEW C \in SUBSET D, \A x \in D \ C : f[x] = 0
  PROVE  SumOver(f, D) = SumOver(f, C)
<1>1. \A S \in SUBSET D :
        /\ SumOver(f, S) \in Int
        /\ \A x \in S : SumOver(f, S) = f[x] + SumOver(f, S \ {x})
  BY SumTakeOut
<1> DEFINE P == {S \in SUBSET D : SumOver(f, S) = SumOver(f, C \cap S)}
<1>2. Few(D, 0) \subseteq P
  <2>1. ASSUME NEW S \in Few(D, 0) PROVE S \in P
    <3>1. S = C \cap S /\ S \in SUBSET D
      BY FewestIsEmpty
    <3> QED BY <3>1
  <2> QED BY <2>1
<1>3. ASSUME NEW n \in Nat, Few(D, n) \subseteq P PROVE Few(D, n + 1) \subseteq P
  <2>1. ASSUME NEW S \in Few(D, n + 1) PROVE S \in P
    <3>1. S \in SUBSET D
      BY DEF Few
    <3>2. CASE S \subseteq C
      <4>1. S = C \cap S
        BY <3>2
      <4> QED BY <3>1, <4>1
    <3>3. CASE ~ (S \subseteq C)
      <4>1. PICK d : d \in S \ C
        BY <3>3
      <4>2. S \ {d} \in Few(D, n) /\ d \in D \ C
        BY <4>1, FewerLeft
      <4>3. C \cap (S \ {d}) = C \cap S /\ S \ {d} \in SUBSET D
        BY <3>1, <4>1
      <4>4. SumOver(f, S \ {d}) = SumOver(f, C \cap S)
        BY <1>3, <4>2, <4>3
      <4>5. SumOver(f, S) = 0 + SumOver(f, S \ {d}) /\ SumOver(f, S \ {d}) \in Int
        BY <1>1, <3>1, <4>1, <4>2, <4>3
      <4>6. SumOver(f, S) = SumOver(f, S \ {d})
        <5> HIDE DEF P
        <5> QED BY <4>5
      <4> QED BY <3>1, <4>4, <4>6
    <3> QED BY <3>2, <3>3
  <2> QED BY <2>1
<1>4. SUBSET D \subseteq P
  <2> HIDE DEF P
  <2> QED BY <1>2, <1>3, FewInduction
<1>5. C \cap D = C /\ D \in P
  BY <1>4
<1> QED BY <1>5

\* Only what is added up matters.
LEMMA SumSame ==
  ASSUME NEW S, IsFiniteSet(S), NEW f, NEW g, \A x \in S : f[x] = g[x]
  PROVE  SumOver(f, S) = SumOver(g, S)
<1>1. PICK t : IsSumOver(t, f, S)
  BY SumIs
<1>2. \A R \in SUBSET S : R # {} => (CHOOSE x \in R : TRUE) \in S
  OBVIOUS
<1>3. IsSum(t, g, SUBSET S)
  <2>1. ASSUME NEW R \in SUBSET S
        PROVE  (IF R = {} THEN 0
                ELSE f[CHOOSE x \in R : TRUE] + t[R \ {CHOOSE x \in R : TRUE}])
               = (IF R = {} THEN 0
                  ELSE g[CHOOSE x \in R : TRUE] + t[R \ {CHOOSE x \in R : TRUE}])
    BY <1>2
  <2> QED BY <1>1, <2>1 DEF IsSum, IsSumOver
<1>4. PICK u : IsSumOver(u, g, S)
  BY SumIs
<1>5. S \in SUBSET S
  OBVIOUS
<1> QED BY <1>1, <1>3, <1>4, <1>5, SumUnique DEF IsSumOver

\* No more than the greatest of the parts, as often as there are parts.
LEMMA SumBounded ==
  ASSUME NEW D, IsFiniteSet(D), NEW f, NEW w \in Nat,
         \A x \in D : f[x] \in Int /\ f[x] <= w
  PROVE  SumOver(f, D) <= Cardinality(D) * w
<1> DEFINE P == {S \in SUBSET D : SumOver(f, S) <= Cardinality(S) * w}
<1>1. \A S \in SUBSET D :
        /\ SumOver(f, S) \in Int
        /\ \A x \in S : SumOver(f, S) = f[x] + SumOver(f, S \ {x})
  BY SumTakeOut
<1>2. Few(D, 0) \subseteq P
  <2>1. ASSUME NEW S \in Few(D, 0) PROVE S \in P
    <3>1. S = {} /\ S \in SUBSET D
      BY FewestIsEmpty
    <3>2. Cardinality(S) = 0 /\ SumOver(f, S) = 0
      BY <3>1, FS_EmptySet, SumEmpty
    <3>3. 0 * w = 0
      OBVIOUS
    <3> QED BY <3>1, <3>2, <3>3
  <2> QED BY <2>1
<1>3. ASSUME NEW n \in Nat, Few(D, n) \subseteq P PROVE Few(D, n + 1) \subseteq P
  <2>1. ASSUME NEW S \in Few(D, n + 1), S # {} PROVE S \in P
    <3>1. PICK x : x \in S
      BY <2>1
    <3>2. S \in SUBSET D /\ x \in D /\ S \ {x} \in Few(D, n)
      BY <3>1, FewerLeft
    <3>3. SumOver(f, S \ {x}) <= Cardinality(S \ {x}) * w
      BY <1>3, <3>2
    <3>4. Cardinality(S) \in Nat /\ Cardinality(S \ {x}) = Cardinality(S) - 1
      BY <3>1, <3>2, TakeAway
    <3>5. SumOver(f, S) = f[x] + SumOver(f, S \ {x})
      BY <1>1, <3>1, <3>2
    <3>6. f[x] \in Int /\ f[x] <= w /\ SumOver(f, S \ {x}) \in Int
      BY <1>1, <3>2
    <3>7. (Cardinality(S) - 1) * w + w = Cardinality(S) * w
      BY <3>4
    <3>8. Cardinality(S) * w \in Int /\ (Cardinality(S) - 1) * w \in Int
      BY <3>4
    <3>9. SumOver(f, S) <= Cardinality(S) * w
      BY <3>3, <3>4, <3>5, <3>6, <3>7, <3>8
    <3> QED BY <3>2, <3>9
  <2>2. {} \in P
    BY <1>2, FS_EmptySet DEF Few
  <2> QED BY <2>1, <2>2
<1>4. SUBSET D \subseteq P
  <2> HIDE DEF P
  <2> QED BY <1>2, <1>3, FewInduction
<1> QED BY <1>4

=============================================================================
