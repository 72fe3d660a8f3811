---------------------------- MODULE FiniteFolds ----------------------------
(* Induction over finite sets without an operator as a parameter: what is to  *)
(* be shown of every subset is given as the set of subsets it holds of.       *)
EXTENDS Integers, FiniteSets, FiniteSetsExt, SequencesExt, FiniteSetTheorems, SequenceTheorems,
  WellFoundedInduction, TLAPS

\* What holds of a set whenever it holds of all its proper subsets holds of every set.
LEMMA SubsetInduction ==
  ASSUME NEW S, IsFiniteSet(S), NEW T \in SUBSET (SUBSET S),
         \A A \in SUBSET S : (\A B \in SUBSET A : B # A => B \in T) => A \in T
  PROVE  T = SUBSET S
<1> SUFFICES ASSUME T # SUBSET S PROVE FALSE
  OBVIOUS
<1> DEFINE Bad == (SUBSET S) \ T
<1>1. IsWellFoundedOn(StrictSubsetOrdering(S), FiniteSubsetsOf(S))
  BY FS_StrictSubsetOrderingWellFounded
<1>2. FiniteSubsetsOf(S) = SUBSET S
  BY FS_FiniteSubsetsOfFinite
<1>3. Bad \subseteq FiniteSubsetsOf(S) /\ Bad # {}
  BY <1>2
<1> HIDE DEF Bad
<1>4. PICK A \in Bad : \A C \in Bad : <<C, A>> \notin StrictSubsetOrdering(S)
  BY <1>1, <1>3, WFMin
<1>5. A \in SUBSET S /\ A \notin T
  BY <1>4 DEF Bad
<1>6. ASSUME NEW B \in SUBSET A, B # A, B \notin T PROVE FALSE
  <2>1. <<B, A>> \in StrictSubsetOrdering(S)
    BY <1>5, <1>6 DEF StrictSubsetOrdering
  <2> QED  BY <1>4, <1>5, <1>6, <2>1 DEF Bad
<1> QED  BY <1>5, <1>6

\* A family of subsets that has the empty set, and with a set the set and one more.
LEMMA SetInduction ==
  ASSUME NEW S, IsFiniteSet(S), NEW T \in SUBSET (SUBSET S), {} \in T,
         \A A \in T : \A x \in S \ A : A \cup {x} \in T
  PROVE  T = SUBSET S
<1>1. ASSUME NEW A \in SUBSET S, \A B \in SUBSET A : B # A => B \in T
      PROVE  A \in T
  <2>1. CASE A = {}
    BY <2>1
  <2>2. CASE A # {}
    <3>1. PICK x \in A : TRUE
      BY <2>2
    <3>2. A \ {x} \in T /\ x \in S \ (A \ {x}) /\ (A \ {x}) \cup {x} = A
      BY <1>1
    <3>3. (A \ {x}) \cup {x} \in T
      BY <3>2
    <3> QED  BY <3>2, <3>3
  <2> QED  BY <2>1, <2>2
<1> QED  BY <1>1, SubsetInduction

\* The same with one element taken off, any one that will do.
LEMMA FoldInduction ==
  ASSUME NEW S, IsFiniteSet(S), NEW T \in SUBSET (SUBSET S), {} \in T,
         \A A \in SUBSET S : A # {} => \E x \in A : A \ {x} \in T => A \in T
  PROVE  T = SUBSET S
<1>1. ASSUME NEW A \in SUBSET S, \A B \in SUBSET A : B # A => B \in T
      PROVE  A \in T
  <2>1. CASE A = {}
    BY <2>1
  <2>2. CASE A # {}
    <3>1. PICK x \in A : A \ {x} \in T => A \in T
      BY <2>2
    <3>2. A \ {x} \in T
      BY <1>1
    <3> QED  BY <3>1, <3>2
  <2> QED  BY <2>1, <2>2
<1> QED  BY <1>1, SubsetInduction

\* A finite set of integers has a least and a greatest element.
LEMMA Extremes ==
  ASSUME NEW S \in SUBSET Int, IsFiniteSet(S), S # {}
  PROVE  /\ Min(S) \in S /\ \A y \in S : Min(S) <= y
         /\ Max(S) \in S /\ \A y \in S : y <= Max(S)
<1> DEFINE T == {A \in SUBSET S : A # {} =>
                   /\ \E x \in A : \A y \in A : x <= y
                   /\ \E x \in A : \A y \in A : x >= y}
<1>1. \A A \in T : \A x \in S \ A : A \cup {x} \in T
  <2> SUFFICES ASSUME NEW A \in T, NEW x \in S \ A
               PROVE  /\ \E z \in A \cup {x} : \A y \in A \cup {x} : z <= y
                      /\ \E z \in A \cup {x} : \A y \in A \cup {x} : z >= y
    OBVIOUS
  <2>1. CASE A = {}
    BY <2>1
  <2>2. CASE A # {}
    <3>1. PICK l \in A : \A y \in A : l <= y
      BY <2>2
    <3>2. PICK g \in A : \A y \in A : g >= y
      BY <2>2
    <3>3. l \in Int /\ g \in Int /\ x \in Int /\ A \subseteq Int
      OBVIOUS
    <3>4. \E z \in A \cup {x} : \A y \in A \cup {x} : z <= y
      <4>1. CASE x <= l
        BY <3>1, <3>3, <4>1
      <4>2. CASE l <= x
        BY <3>1, <3>3, <4>2
      <4> QED  BY <3>3, <4>1, <4>2
    <3>5. \E z \in A \cup {x} : \A y \in A \cup {x} : z >= y
      <4>1. CASE x >= g
        BY <3>2, <3>3, <4>1
      <4>2. CASE g >= x
        BY <3>2, <3>3, <4>2
      <4> QED  BY <3>3, <4>1, <4>2
    <3> QED  BY <3>4, <3>5
  <2> QED  BY <2>1, <2>2
<1>2. T \in SUBSET (SUBSET S) /\ {} \in T
  OBVIOUS
<1> HIDE DEF T
<1>3. T = SUBSET S
  BY <1>1, <1>2, SetInduction
<1>4. /\ \E x \in S : \A y \in S : x <= y
      /\ \E x \in S : \A y \in S : x >= y
  BY <1>3 DEF T
<1> QED  BY <1>4 DEF Min, Max

\* The greater of two.
LEMMA MaxOfTwo ==
  ASSUME NEW a \in Int, NEW b \in Int
  PROVE  Max({a, b}) = IF a <= b THEN b ELSE a
<1>1. IsFiniteSet({a, b})
  <2>1. IsFiniteSet({a})
    BY FS_Singleton
  <2>2. IsFiniteSet({a} \cup {b})
    BY <2>1, FS_AddElement
  <2> QED  BY <2>2
<1>2. {a, b} \in SUBSET Int /\ {a, b} # {}
  OBVIOUS
<1>3. Max({a, b}) \in {a, b} /\ \A y \in {a, b} : y <= Max({a, b})
  BY <1>1, <1>2, Extremes
<1> QED  BY <1>3

\* The lesser of two.
LEMMA MinOfTwo ==
  ASSUME NEW a \in Int, NEW b \in Int
  PROVE  Min({a, b}) = IF a <= b THEN a ELSE b
<1>1. IsFiniteSet({a, b})
  <2>1. IsFiniteSet({a})
    BY FS_Singleton
  <2>2. IsFiniteSet({a} \cup {b})
    BY <2>1, FS_AddElement
  <2> QED  BY <2>2
<1>2. {a, b} \in SUBSET Int /\ {a, b} # {}
  OBVIOUS
<1>3. Min({a, b}) \in {a, b} /\ \A y \in {a, b} : Min({a, b}) <= y
  BY <1>1, <1>2, Extremes
<1> QED  BY <1>3

-----------------------------------------------------------------------------
(* A fold as the community modules define it: a function on the subsets that  *)
(* takes one element off at a time, here with its operators as functions.     *)
Folds(S, base, pick, step, iter) ==
  iter = [s \in SUBSET S |-> IF s = {} THEN base ELSE step[<<pick[s], iter[s \ {pick[s]}]>>]]

\* Two folds over the same set agree on what they share.
LEMMA FoldsAgree ==
  ASSUME NEW S, IsFiniteSet(S), NEW base, NEW pick, NEW step,
         \A s \in SUBSET S : s # {} => pick[s] \in s,
         NEW A \in SUBSET S, NEW B \in SUBSET S, NEW f, NEW g,
         Folds(A, base, pick, step, f), Folds(B, base, pick, step, g)
  PROVE  \A s \in SUBSET (A \cap B) : f[s] = g[s]
<1> DEFINE Bad == {s \in SUBSET (A \cap B) : f[s] # g[s]}
<1> SUFFICES ASSUME Bad # {} PROVE FALSE
  OBVIOUS
<1>1. IsWellFoundedOn(StrictSubsetOrdering(S), FiniteSubsetsOf(S))
  BY FS_StrictSubsetOrderingWellFounded
<1>2. FiniteSubsetsOf(S) = SUBSET S
  BY FS_FiniteSubsetsOfFinite
<1>3. Bad \subseteq FiniteSubsetsOf(S)
  BY <1>2
<1>4. PICK s \in Bad : \A t \in Bad : <<t, s>> \notin StrictSubsetOrdering(S)
  <2> HIDE DEF Bad
  <2> QED  BY <1>1, <1>3, WFMin
<1>5. s \in SUBSET A /\ s \in SUBSET B /\ s \in SUBSET S
  OBVIOUS
<1>6. CASE s = {}
  BY <1>5, <1>6 DEF Folds
<1>7. CASE s # {}
  <2>1. pick[s] \in s
    BY <1>5, <1>7
  <2> DEFINE t == s \ {pick[s]}
  <2>2. t \in SUBSET (A \cap B) /\ <<t, s>> \in StrictSubsetOrdering(S)
    BY <1>5, <2>1 DEF StrictSubsetOrdering
  <2>3. f[t] = g[t]
    BY <1>4, <2>2
  <2>4. f[s] = step[<<pick[s], f[t]>>]
    BY <1>5, <1>7 DEF Folds
  <2>5. g[s] = step[<<pick[s], g[t]>>]
    BY <1>5, <1>7 DEF Folds
  <2> QED  BY <2>3, <2>4, <2>5
<1> QED  BY <1>6, <1>7

\* Every finite set can be folded.
LEMMA FoldExists ==
  ASSUME NEW S, IsFiniteSet(S), NEW base, NEW pick, NEW step,
         \A s \in SUBSET S : s # {} => pick[s] \in s
  PROVE  \E iter : Folds(S, base, pick, step, iter)
<1> DEFINE Folded(A) == \E iter : Folds(A, base, pick, step, iter)
           Bad == {A \in SUBSET S : ~Folded(A)}
<1> SUFFICES ASSUME Bad # {} PROVE FALSE
  OBVIOUS
<1>1. IsWellFoundedOn(StrictSubsetOrdering(S), FiniteSubsetsOf(S))
  BY FS_StrictSubsetOrderingWellFounded
<1>2. FiniteSubsetsOf(S) = SUBSET S
  BY FS_FiniteSubsetsOfFinite
<1>3. Bad \subseteq FiniteSubsetsOf(S)
  BY <1>2
<1>4. PICK A \in Bad : \A B \in Bad : <<B, A>> \notin StrictSubsetOrdering(S)
  <2> HIDE DEF Bad
  <2> QED  BY <1>1, <1>3, WFMin
<1>5. \A B \in SUBSET A : B # A => Folded(B)
  <2> SUFFICES ASSUME NEW B \in SUBSET A, B # A, ~Folded(B) PROVE FALSE
    OBVIOUS
  <2>1. <<B, A>> \in StrictSubsetOrdering(S)
    BY DEF StrictSubsetOrdering
  <2> QED  BY <1>4, <2>1
<1> DEFINE F(B) == CHOOSE iter : Folds(B, base, pick, step, iter)
           V(B) == F(B)[B]
           Next(s) == IF s = {} THEN base ELSE step[<<pick[s], V(s \ {pick[s]})>>]
           it == [s \in SUBSET A |-> IF s = A THEN Next(A) ELSE V(s)]
<1>6. \A B \in SUBSET A : B # A => Folds(B, base, pick, step, F(B))
  BY <1>5
<1> HIDE DEF F
<1>7. ASSUME NEW s \in SUBSET A, s # A PROVE V(s) = Next(s)
  <2>1. Folds(s, base, pick, step, F(s))
    BY <1>6, <1>7
  <2>2. CASE s = {}
    BY <2>1, <2>2 DEF Folds
  <2>3. CASE s # {}
    <3> DEFINE t == s \ {pick[s]}
    <3>1. pick[s] \in s /\ t \in SUBSET A /\ t # A /\ t \in SUBSET s
      BY <2>3
    <3>2. Folds(t, base, pick, step, F(t))
      BY <1>6, <3>1
    <3>3. \A u \in SUBSET (s \cap t) : F(s)[u] = F(t)[u]
      BY <2>1, <3>1, <3>2, FoldsAgree
    <3>4. F(s)[t] = F(t)[t]
      BY <3>1, <3>3
    <3>5. F(s)[s] = step[<<pick[s], F(s)[t]>>]
      BY <2>1, <2>3 DEF Folds
    <3> QED  BY <2>3, <3>4, <3>5
  <2> QED  BY <2>2, <2>3
<1> HIDE DEF V
<1>8. \A s \in SUBSET A : it[s] = IF s = {} THEN base ELSE step[<<pick[s], it[s \ {pick[s]}]>>]
  <2> SUFFICES ASSUME NEW s \in SUBSET A
               PROVE  it[s] = IF s = {} THEN base ELSE step[<<pick[s], it[s \ {pick[s]}]>>]
    OBVIOUS
  <2>1. it[s] = Next(s)
    BY <1>7
  <2>2. CASE s = {}
    BY <2>1, <2>2
  <2>3. CASE s # {}
    <3>1. pick[s] \in s /\ s \ {pick[s]} \in SUBSET A /\ s \ {pick[s]} # A
      BY <2>3
    <3>2. it[s \ {pick[s]}] = V(s \ {pick[s]})
      BY <3>1
    <3> QED  BY <2>1, <2>3, <3>2
  <2> QED  BY <2>2, <2>3
<1>9. Folds(A, base, pick, step, it)
  <2>1. it = [s \in SUBSET A |-> it[s]]
    OBVIOUS
  <2> HIDE DEF it
  <2> QED  BY <1>8, <2>1 DEF Folds
<1> QED  BY <1>9
\* The community modules pick by CHOOSE.
AnyOf(S) == [s \in SUBSET S |-> CHOOSE x \in s : TRUE]

\* It picks an element.
LEMMA AnyIsOf == ASSUME NEW S, NEW s \in SUBSET S, s # {} PROVE AnyOf(S)[s] \in s
<1>1. \E x \in s : TRUE
  OBVIOUS
<1>2. (CHOOSE x \in s : TRUE) \in s
  BY <1>1
<1> QED  BY <1>2 DEF AnyOf

\* Such a fold exists.
LEMMA AnyFoldExists ==
  ASSUME NEW S, IsFiniteSet(S), NEW base, NEW step
  PROVE  \E iter : Folds(S, base, AnyOf(S), step, iter)
<1>1. \A s \in SUBSET S : s # {} => AnyOf(S)[s] \in s
  BY AnyIsOf
<1> QED  BY <1>1, FoldExists

\* And what it passes through can be shown by induction.
LEMMA AnyFoldInduction ==
  ASSUME NEW S, IsFiniteSet(S), NEW T \in SUBSET (SUBSET S), {} \in T,
         \A A \in SUBSET S : A # {} /\ A \ {AnyOf(S)[A]} \in T => A \in T
  PROVE  T = SUBSET S
<1>1. \A A \in SUBSET S : A # {} => \E x \in A : A \ {x} \in T => A \in T
  BY AnyIsOf
<1> QED  BY <1>1, FoldInduction

\* The values a function takes on a finite set are finitely many.
LEMMA ImageFinite ==
  ASSUME NEW S, IsFiniteSet(S), NEW f
  PROVE  IsFiniteSet({f[x] : x \in S})
<1> DEFINE T == {f[x] : x \in S}  g == [x \in S |-> f[x]]
<1>1. g \in Surjection(S, T)
  BY DEF Surjection
<1> HIDE DEF T, g
<1>2. IsFiniteSet(T)
  BY <1>1, FS_Surjection
<1> QED  BY <1>2 DEF T
-----------------------------------------------------------------------------
(* Sums.  The order the elements are taken in does not matter.                *)
Summed(S, f, iter) ==
  iter = [s \in SUBSET S |-> IF s = {} THEN 0
                             ELSE LET x == CHOOSE x \in s : TRUE IN f[x] + iter[s \ {x}]]

Total(S, f) == (CHOOSE iter : Summed(S, f, iter))[S]

\* A sum of integers exists for every part of the set.
LEMMA SumExists ==
  ASSUME NEW S, IsFiniteSet(S), NEW f, \A x \in S : f[x] \in Int
  PROVE  \E iter : Summed(S, f, iter) /\ \A A \in SUBSET S : iter[A] \in Int
<1> DEFINE step == [p \in S \X Int |-> f[p[1]] + p[2]]
<1>1. PICK iter : Folds(S, 0, AnyOf(S), step, iter)
  <2> HIDE DEF step
  <2> QED  BY AnyFoldExists
<1>2. ASSUME NEW A \in SUBSET S, A # {}
      PROVE  /\ iter[A] = step[<<AnyOf(S)[A], iter[A \ {AnyOf(S)[A]}]>>]
             /\ AnyOf(S)[A] \in S /\ AnyOf(S)[A] = CHOOSE x \in A : TRUE
  <2>1. AnyOf(S)[A] \in A
    BY <1>2, AnyIsOf
  <2> QED  BY <1>1, <1>2, <2>1 DEF Folds, AnyOf
<1>3. iter[{}] = 0 /\ iter = [A \in SUBSET S |-> iter[A]]
  BY <1>1 DEF Folds
<1> DEFINE T == {A \in SUBSET S : iter[A] \in Int}
<1>4. ASSUME NEW A \in SUBSET S, A # {}, A \ {AnyOf(S)[A]} \in T PROVE A \in T
  <2>1. step[<<AnyOf(S)[A], iter[A \ {AnyOf(S)[A]}]>>] = f[AnyOf(S)[A]] + iter[A \ {AnyOf(S)[A]}]
    BY <1>2, <1>4
  <2> HIDE DEF step
  <2> QED  BY <1>2, <1>4, <2>1
<1>5. T \in SUBSET (SUBSET S) /\ {} \in T
  BY <1>3
<1> HIDE DEF T
<1>6. T = SUBSET S
  <2> HIDE DEF step
  <2> QED  BY <1>4, <1>5, AnyFoldInduction
<1>7. \A A \in SUBSET S : iter[A] \in Int
  BY <1>6 DEF T
<1>8. ASSUME NEW A \in SUBSET S, A # {}
      PROVE  iter[A] = LET x == CHOOSE x \in A : TRUE IN f[x] + iter[A \ {x}]
  <2>1. step[<<AnyOf(S)[A], iter[A \ {AnyOf(S)[A]}]>>] = f[AnyOf(S)[A]] + iter[A \ {AnyOf(S)[A]}]
    BY <1>2, <1>7, <1>8
  <2> HIDE DEF step
  <2> QED  BY <1>2, <1>8, <2>1
<1> HIDE DEF step
<1> QED  BY <1>3, <1>7, <1>8 DEF Summed

\* Sums over a set and a part of it agree on that part.
LEMMA SumsAgree ==
  ASSUME NEW S, IsFiniteSet(S), NEW f, \A x \in S : f[x] \in Int,
         NEW A \in SUBSET S, NEW it, Summed(S, f, it)
  PROVE  it[A] = Total(A, f)
<1>1. IsFiniteSet(A) /\ \A x \in A : f[x] \in Int
  BY FS_Subset
<1> DEFINE of == CHOOSE iter : Summed(A, f, iter)
<1>2. Summed(A, f, of)
  BY <1>1, SumExists
<1>3. Total(A, f) = of[A]
  BY DEF Total
<1> HIDE DEF of
<1> DEFINE T == {B \in SUBSET A : it[B] = of[B]}
<1>4. ASSUME NEW B \in SUBSET A, B # {} PROVE \E x \in B : B \ {x} \in T => B \in T
  <2> DEFINE x == CHOOSE x \in B : TRUE
  <2>1. x \in B
    BY <1>4
  <2>2. it[B] = f[x] + it[B \ {x}]
    BY <1>4 DEF Summed
  <2>3. of[B] = f[x] + of[B \ {x}]
    BY <1>2, <1>4 DEF Summed
  <2> HIDE DEF x
  <2> QED  BY <2>1, <2>2, <2>3
<1>5. {} \in T /\ T \in SUBSET (SUBSET A)
  BY <1>2 DEF Summed
<1> HIDE DEF T
<1>6. T = SUBSET A
  BY <1>1, <1>4, <1>5, FoldInduction
<1> QED  BY <1>3, <1>6 DEF T

\* Any element may be the first.
LEMMA TotalRest ==
  ASSUME NEW S, IsFiniteSet(S), NEW f, \A x \in S : f[x] \in Int
  PROVE  /\ Total(S, f) \in Int /\ Total({}, f) = 0
         /\ \A A \in SUBSET S : \A x \in A : Total(A, f) = f[x] + Total(A \ {x}, f)
<1>1. PICK it : Summed(S, f, it) /\ \A A \in SUBSET S : it[A] \in Int
  BY SumExists
<1>2. \A A \in SUBSET S : it[A] = Total(A, f)
  BY <1>1, SumsAgree
<1> DEFINE T == {A \in SUBSET S : \A x \in A : it[A] = f[x] + it[A \ {x}]}
<1>3. ASSUME NEW A \in SUBSET S, \A B \in SUBSET A : B # A => B \in T PROVE A \in T
  <2> SUFFICES ASSUME NEW x \in A PROVE it[A] = f[x] + it[A \ {x}]
    OBVIOUS
  <2> DEFINE p == CHOOSE p \in A : TRUE
  <2>1. p \in A
    OBVIOUS
  <2>2. it[A] = f[p] + it[A \ {p}]
    BY <1>1 DEF Summed
  <2> HIDE DEF p
  <2>3. CASE x = p
    BY <2>2, <2>3
  <2>4. CASE x # p
    <3>1. A \ {p} \in T /\ A \ {x} \in T
      BY <1>3, <2>1
    <3>2. it[A \ {p}] = f[x] + it[(A \ {p}) \ {x}]
      BY <2>4, <3>1
    <3>3. it[A \ {x}] = f[p] + it[(A \ {x}) \ {p}]
      BY <2>1, <2>4, <3>1
    <3>4. (A \ {p}) \ {x} = (A \ {x}) \ {p}
      OBVIOUS
    <3>5. it[(A \ {x}) \ {p}] \in Int /\ f[x] \in Int /\ f[p] \in Int
      BY <1>1, <2>1
    <3> DEFINE r == it[(A \ {x}) \ {p}]
    <3>6. it[A \ {p}] = f[x] + r /\ it[A \ {x}] = f[p] + r /\ r \in Int
      BY <3>2, <3>3, <3>4, <3>5
    <3> HIDE DEF r
    <3>7. f[p] + (f[x] + r) = f[x] + (f[p] + r)
      BY <3>5, <3>6
    <3> QED  BY <2>2, <3>6, <3>7
  <2> QED  BY <2>3, <2>4
<1>4. T \in SUBSET (SUBSET S)
  OBVIOUS
<1> HIDE DEF T
<1>5. T = SUBSET S
  BY <1>3, <1>4, SubsetInduction
<1>6. \A A \in SUBSET S : \A x \in A : it[A] = f[x] + it[A \ {x}]
  BY <1>5 DEF T
<1>7. it[{}] = 0
  BY <1>1 DEF Summed
<1>8. S \in SUBSET S /\ {} \in SUBSET S /\ \A A \in SUBSET S : \A x \in A : A \ {x} \in SUBSET S
  OBVIOUS
<1> QED  BY <1>1, <1>2, <1>6, <1>7, <1>8

\* A sum of numbers that are not negative is positive if one of them is.
LEMMA TotalPositive ==
  ASSUME NEW S, IsFiniteSet(S), NEW f, \A x \in S : f[x] \in Nat
  PROVE  Total(S, f) \in Nat /\ (Total(S, f) > 0 <=> \E x \in S : f[x] > 0)
<1>1. /\ Total({}, f) = 0
      /\ \A A \in SUBSET S : \A x \in A : Total(A, f) = f[x] + Total(A \ {x}, f)
  BY TotalRest
<1> DEFINE T == {A \in SUBSET S : Total(A, f) \in Nat /\ (Total(A, f) > 0 <=> \E x \in A : f[x] > 0)}
<1>2. ASSUME NEW A \in SUBSET S, A # {} PROVE \E x \in A : A \ {x} \in T => A \in T
  <2>1. PICK x \in A : TRUE
    BY <1>2
  <2>2. Total(A, f) = f[x] + Total(A \ {x}, f) /\ f[x] \in Nat
    BY <1>1
  <2>3. ASSUME A \ {x} \in T PROVE A \in T
    <3> DEFINE r == Total(A \ {x}, f)  t == Total(A, f)
    <3>1. r \in Nat /\ (r > 0 <=> \E y \in A \ {x} : f[y] > 0)
      BY <2>3
    <3>2. t = f[x] + r
      BY <2>2
    <3> HIDE DEF r, t
    <3>3. t \in Nat /\ (t > 0 <=> f[x] > 0 \/ r > 0)
      BY <2>2, <3>1, <3>2
    <3>4. t > 0 <=> \E y \in A : f[y] > 0
      BY <3>1, <3>3
    <3> QED  BY <3>3, <3>4 DEF t
  <2> QED  BY <2>3
<1>3. {} \in T /\ T \in SUBSET (SUBSET S)
  BY <1>1
<1> HIDE DEF T
<1>4. T = SUBSET S
  BY <1>2, <1>3, FoldInduction
<1> QED  BY <1>4 DEF T
-----------------------------------------------------------------------------
(* Order by rank (Ranks).                                                     *)

\* A relation that brings the elements of a set into one order.
OrdersAll(S, R) ==
  /\ \A x \in S : <<x, x>> \notin R
  /\ \A x, y, z \in S : <<x, y>> \in R /\ <<y, z>> \in R => <<x, z>> \in R
  /\ \A x, y \in S : x # y => <<x, y>> \in R \/ <<y, x>> \in R

InOrder(S, R) ==
  [n \in 1..Cardinality(S) |-> CHOOSE x \in S : Cardinality({y \in S : <<y, x>> \in R}) = n - 1]

\* Elements taken by rank come in order, and none is left out.
LEMMA RanksOrder ==
  ASSUME NEW S, IsFiniteSet(S), NEW R, OrdersAll(S, R)
  PROVE  /\ InOrder(S, R) \in [1..Cardinality(S) -> S]
         /\ \A i, j \in 1..Cardinality(S) :
              i < j <=> <<InOrder(S, R)[i], InOrder(S, R)[j]>> \in R
         /\ \A x \in S : \E i \in 1..Cardinality(S) : InOrder(S, R)[i] = x
<1> DEFINE N == Cardinality(S)
           below(x) == {y \in S : <<y, x>> \in R}
           rank == [x \in S |-> Cardinality(below(x))]
           ranks == 0..(N - 1)
           s == InOrder(S, R)
<1>1. N \in Nat
  BY FS_CardinalityType
<1>2. ASSUME NEW x \in S
      PROVE  IsFiniteSet(below(x)) /\ rank[x] \in Nat /\ rank[x] < N /\ rank[x] = Cardinality(below(x))
  <2>1. below(x) \in SUBSET S /\ x \notin below(x)
    BY DEF OrdersAll
  <2>2. below(x) # S
    BY <2>1
  <2> HIDE DEF below
  <2>3. IsFiniteSet(below(x)) /\ Cardinality(below(x)) < Cardinality(S)
    <3>1. below(x) \in SUBSET S
      BY <2>1
    <3>2. IsFiniteSet(below(x)) /\ Cardinality(below(x)) <= Cardinality(S) /\ Cardinality(S) # Cardinality(below(x))
      BY <2>2, <3>1, FS_Subset
    <3>3. Cardinality(below(x)) \in Nat
      BY <3>2, FS_CardinalityType
    <3> QED  BY <1>1, <3>2, <3>3
  <2>4. Cardinality(below(x)) \in Nat
    BY <2>3, FS_CardinalityType
  <2> QED  BY <2>3, <2>4
<1>3. ASSUME NEW x \in S, NEW y \in S, <<x, y>> \in R
      PROVE  rank[x] < rank[y]
  <2>1. below(x) \in SUBSET below(y) /\ x \in below(y) /\ x \notin below(x)
    BY <1>3 DEF OrdersAll
  <2>2. IsFiniteSet(below(y)) /\ rank[x] = Cardinality(below(x)) /\ rank[y] = Cardinality(below(y))
    BY <1>2
  <2> HIDE DEF below, rank
  <2>3. below(x) # below(y)
    BY <2>1
  <2>4. Cardinality(below(x)) < Cardinality(below(y))
    <3>1. below(x) \in SUBSET below(y) /\ IsFiniteSet(below(y))
      BY <2>1, <2>2
    <3>2. IsFiniteSet(below(x)) /\ Cardinality(below(x)) <= Cardinality(below(y))
          /\ Cardinality(below(y)) # Cardinality(below(x))
      BY <2>3, <3>1, FS_Subset
    <3>3. Cardinality(below(x)) \in Nat /\ Cardinality(below(y)) \in Nat
      BY <3>1, <3>2, FS_CardinalityType
    <3> QED  BY <3>2, <3>3
  <2> QED  BY <2>2, <2>4
<1>4. rank \in Injection(S, ranks)
  <2>1. rank \in [S -> ranks]
    <3>1. \A x \in S : rank[x] \in ranks
      <4> TAKE x \in S
      <4>1. rank[x] \in Nat /\ rank[x] < N
        BY <1>2
      <4> HIDE DEF rank, N
      <4> QED  BY <1>1, <4>1
    <3>2. rank = [x \in S |-> rank[x]]
      OBVIOUS
    <3> HIDE DEF rank, ranks
    <3> QED  BY <3>1, <3>2
  <2>2. \A x, y \in S : rank[x] = rank[y] => x = y
    <3> HIDE DEF rank
    <3> TAKE x, y \in S
    <3>1. rank[x] \in Nat
      BY <1>2
    <3>2. <<x, y>> \in R => rank[x] < rank[y]
      BY <1>3
    <3>3. <<y, x>> \in R => rank[y] < rank[x]
      BY <1>3
    <3>4. x # y => <<x, y>> \in R \/ <<y, x>> \in R
      BY DEF OrdersAll
    <3> QED  BY <3>1, <3>2, <3>3, <3>4
  <2> HIDE DEF rank, ranks
  <2> QED  BY <2>1, <2>2 DEF Injection, IsInjective
<1>5. IsFiniteSet(ranks) /\ Cardinality(ranks) = N
  <2>1. N - 1 \in Int /\ (0 > N - 1 <=> N = 0)
    BY <1>1
  <2>2. IsFiniteSet(ranks) /\ Cardinality(ranks) = IF 0 > N - 1 THEN 0 ELSE (N - 1) - 0 + 1
    BY <2>1, FS_Interval
  <2> HIDE DEF ranks
  <2> QED  BY <1>1, <2>1, <2>2
<1>6. rank \in Surjection(S, ranks)
  <2> HIDE DEF rank, ranks
  <2> QED  BY <1>4, <1>5, FS_Injection
<1>7. ASSUME NEW i \in 1..N
      PROVE  s[i] \in S /\ rank[s[i]] = i - 1
  <2>1. i - 1 \in ranks
    BY <1>1
  <2>2. PICK x \in S : rank[x] = i - 1
    <3> HIDE DEF rank, ranks
    <3> QED  BY <1>6, <2>1 DEF Surjection
  <2>3. s[i] = CHOOSE z \in S : Cardinality(below(z)) = i - 1
    <3> HIDE DEF rank
    <3> QED  BY Zenon DEF InOrder
  <2>4. Cardinality(below(x)) = i - 1
    BY <1>2, <2>2
  <2> HIDE DEF below, s
  <2>5. s[i] \in S /\ Cardinality(below(s[i])) = i - 1
    BY <2>3, <2>4
  <2> QED  BY <1>2, <2>5
<1>8. s \in [1..N -> S]
  <2>1. s = [i \in 1..N |-> s[i]]
    <3> DEFINE e(n) == CHOOSE x \in S : Cardinality({y \in S : <<y, x>> \in R}) = n - 1
    <3>1. s = [n \in 1..N |-> e(n)]
      BY Zenon DEF InOrder
    <3> HIDE DEF e, s
    <3> QED  BY <3>1
  <2> HIDE DEF s, rank
  <2> QED  BY <1>7, <2>1
<1>9. ASSUME NEW i \in 1..N, NEW j \in 1..N
      PROVE  i < j <=> <<s[i], s[j]>> \in R
  <2>1. /\ s[i] \in S /\ s[j] \in S /\ rank[s[i]] = i - 1 /\ rank[s[j]] = j - 1
    BY <1>7
  <2> HIDE DEF s, rank
  <2>2. i \in Int /\ j \in Int
    OBVIOUS
  <2>3. ASSUME <<s[i], s[j]>> \in R PROVE i < j
    BY <1>3, <2>1, <2>2, <2>3
  <2>4. ASSUME i < j PROVE <<s[i], s[j]>> \in R
    <3>1. s[i] # s[j]
      BY <2>1, <2>2, <2>4
    <3>2. <<s[j], s[i]>> \in R => j - 1 < i - 1
      BY <1>3, <2>1
    <3> QED  BY <2>1, <2>2, <2>4, <3>1, <3>2 DEF OrdersAll
  <2> QED  BY <2>3, <2>4
<1>10. ASSUME NEW x \in S PROVE \E i \in 1..N : s[i] = x
  <2> DEFINE i == rank[x] + 1
  <2> HIDE DEF s, rank
  <2>1. i \in 1..N /\ rank[x] \in Nat /\ i - 1 = rank[x]
    <3>1. rank[x] \in Nat /\ rank[x] < N
      BY <1>2
    <3> HIDE DEF N
    <3> QED  BY <1>1, <3>1
  <2>2. s[i] \in S /\ rank[s[i]] = rank[x]
    BY <1>7, <2>1
  <2>3. s[i] = x
    <3> HIDE DEF i
    <3> QED  BY <1>4, <2>2 DEF Injection, IsInjective
  <2> QED  BY <2>1, <2>3
<1> QED  BY <1>8, <1>9, <1>10

-----------------------------------------------------------------------------
(* Folds of lists.                                                            *)

\* What holds of nothing and with a prefix of the next longer one holds up to the end.
LEMMA PrefixInduction ==
  ASSUME NEW n \in Nat, NEW T, 0 \in T, \A k \in 0..n : k \in T /\ k < n => k + 1 \in T
  PROVE  \A k \in 0..n : k \in T
<1> DEFINE Bad == {k \in 0..n : k \notin T}
<1> SUFFICES ASSUME Bad # {} PROVE FALSE
  OBVIOUS
<1>1. IsFiniteSet(Bad) /\ Bad \in SUBSET Int
  <2>1. IsFiniteSet(0..n)
    BY FS_Interval
  <2> QED  BY <2>1, FS_Subset
<1> DEFINE m == Min(Bad)
<1>2. m \in Bad /\ \A y \in Bad : m <= y
  <2> HIDE DEF Bad
  <2> QED  BY <1>1, Extremes
<1> HIDE DEF m
<1>3. m \in 1..n /\ m \notin T
  <2>1. m \in 0..n /\ m \notin T /\ m # 0
    BY <1>2
  <2> QED  BY <2>1
<1>4. m - 1 \in 0..n /\ m - 1 < n /\ m - 1 < m
  BY <1>3
<1>5. m - 1 \notin Bad
  <2> HIDE DEF Bad
  <2> QED  BY <1>1, <1>2, <1>3, <1>4
<1>6. m - 1 \in T
  BY <1>4, <1>5
<1>7. (m - 1) + 1 \in T
  BY <1>4, <1>6
<1>8. (m - 1) + 1 = m
  BY <1>3
<1> QED  BY <1>3, <1>7, <1>8

\* A list is folded from its end; there is such a fold, and it stays in its type.
LeftFolds(n, base, step, iter) ==
  iter = [A \in SUBSET (1..n) |-> IF A = {} THEN base ELSE step[<<Max(A), iter[A \ {Max(A)}]>>]]

\* There is such a fold.
LEMMA LeftFoldExists ==
  ASSUME NEW n \in Nat, NEW Acc, NEW base \in Acc, NEW step \in [(1..n) \X Acc -> Acc]
  PROVE  \E iter : LeftFolds(n, base, step, iter) /\ \A A \in SUBSET (1..n) : iter[A] \in Acc
<1> DEFINE D == 1..n  pick == [A \in SUBSET D |-> Max(A)]
<1>1. IsFiniteSet(D)
  BY FS_Interval
<1>2. \A A \in SUBSET D : A # {} => Max(A) \in A
  <2> TAKE A \in SUBSET D
  <2>1. IsFiniteSet(A)
    <3> HIDE DEF D
    <3> QED  BY <1>1, FS_Subset
  <2>2. A \in SUBSET Int
    OBVIOUS
  <2> QED  BY <2>1, <2>2, Extremes
<1>3. \A A \in SUBSET D : A # {} => pick[A] \in A
  BY <1>2
<1>4. PICK iter : Folds(D, base, pick, step, iter)
  <2> HIDE DEF D, pick
  <2> QED  BY <1>1, <1>3, FoldExists
<1>5. iter = [A \in SUBSET D |-> IF A = {} THEN base ELSE step[<<pick[A], iter[A \ {pick[A]}]>>]]
  BY <1>4 DEF Folds
<1>6. \A A \in SUBSET D : iter[A] = IF A = {} THEN base ELSE step[<<Max(A), iter[A \ {Max(A)}]>>]
  <2> TAKE A \in SUBSET D
  <2>1. pick[A] = Max(A)
    OBVIOUS
  <2> HIDE DEF pick, D
  <2> QED  BY <1>5, <2>1
<1> DEFINE T == {A \in SUBSET D : iter[A] \in Acc}
<1>7. \A A \in SUBSET D : A # {} => \E x \in A : A \ {x} \in T => A \in T
  <2> SUFFICES ASSUME NEW A \in SUBSET D, A # {}
               PROVE  \E x \in A : A \ {x} \in T => A \in T
    OBVIOUS
  <2>1. Max(A) \in A /\ Max(A) \in D
    BY <1>2
  <2>2. iter[A] = step[<<Max(A), iter[A \ {Max(A)}]>>]
    BY <1>6
  <2>3. iter[A \ {Max(A)}] \in Acc => iter[A] \in Acc
    BY <2>1, <2>2
  <2> QED  BY <2>1, <2>3
<1>8. {} \in T /\ T \in SUBSET (SUBSET D)
  BY <1>6
<1>9. T = SUBSET D
  <2> HIDE DEF T, D
  <2> QED  BY <1>1, <1>7, <1>8, FoldInduction
<1>10. \A A \in SUBSET D : iter[A] \in Acc
  BY <1>9
<1>11. iter = [A \in SUBSET D |-> iter[A]]
  BY <1>5
<1>12. iter = [A \in SUBSET D |-> IF A = {} THEN base ELSE step[<<Max(A), iter[A \ {Max(A)}]>>]]
  BY <1>6, <1>11
<1>13. LeftFolds(n, base, step, iter)
  BY <1>12 DEF LeftFolds
<1> HIDE DEF D, pick, T
<1> QED  BY <1>10, <1>13 DEF D

\* The greatest of a prefix is its end.
LEMMA PrefixEnd ==
  ASSUME NEW n \in Nat, NEW k \in 1..n
  PROVE  1..k \in SUBSET (1..n) /\ 1..k # {} /\ Max(1..k) = k /\ (1..k) \ {k} = 1..(k - 1)
<1>0. IsFiniteSet(1..k)
  BY FS_Interval
<1>1. IsFiniteSet(1..k) /\ 1..k \in SUBSET Int /\ 1..k # {} /\ k \in 1..k
  BY <1>0
<1>2. Max(1..k) \in 1..k /\ \A y \in 1..k : y <= Max(1..k)
  BY <1>1, Extremes
<1>3. Max(1..k) = k
  BY <1>1, <1>2
<1> QED  BY <1>1, <1>3

\* A list with one element more.
LEMMA Joined ==
  ASSUME NEW T, NEW F \in Seq(T), NEW x \in T
  PROVE  /\ F \o <<x>> \in Seq(T) /\ Len(F \o <<x>>) = Len(F) + 1
         /\ \A i \in 1..(Len(F) + 1) : (F \o <<x>>)[i] = IF i = Len(F) + 1 THEN x ELSE F[i]
<1>1. <<x>> \in Seq(T) /\ Len(<<x>>) = 1 /\ <<x>>[1] = x
  OBVIOUS
<1>2. F \o <<x>> \in Seq(T)
  BY <1>1
<1>3. Len(F \o <<x>>) = Len(F) + 1
  BY <1>1
<1> QED  BY <1>1, <1>2, <1>3

\* A new last element.
LEMMA NewLast ==
  ASSUME NEW T, NEW G \in Seq(T), G # <<>>, NEW x \in T
  PROVE  /\ Front(G) \o <<x>> \in Seq(T) /\ Len(Front(G) \o <<x>>) = Len(G)
         /\ \A i \in 1..Len(G) : (Front(G) \o <<x>>)[i] = IF i = Len(G) THEN x ELSE G[i]
<1> DEFINE F == Front(G)
<1>1. Len(G) \in Nat /\ Len(G) >= 1
  OBVIOUS
<1>7. /\ Len(G) - 1 \in Int /\ \A i \in 1..(Len(G) - 1) : G[i] \in T
      /\ F = SubSeq(G, 1, Len(G) - 1)
  BY <1>1 DEF Front
<1>8. /\ F \in Seq(T) /\ Len(F) = IF 1 <= Len(G) - 1 THEN Len(G) - 1 - 1 + 1 ELSE 0
      /\ \A i \in 1..(Len(G) - 1 - 1 + 1) : F[i] = G[1 + i - 1]
  <2> HIDE DEF F
  <2> QED  BY <1>7, SubSeqProperties
<1>2. F \in Seq(T) /\ Len(F) = Len(G) - 1
  <2> DEFINE l == Len(G)
  <2>1. l \in Nat /\ l >= 1 /\ Len(F) = IF 1 <= l - 1 THEN l - 1 - 1 + 1 ELSE 0
    BY <1>1, <1>8
  <2> HIDE DEF F, l
  <2>2. Len(F) = l - 1
    BY <2>1
  <2> QED  BY <1>8, <2>2 DEF l
<1>3. \A i \in 1..(Len(G) - 1) : F[i] = G[i]
  <2> HIDE DEF F
  <2> TAKE i \in 1..(Len(G) - 1)
  <2>1. i \in 1..(Len(G) - 1 - 1 + 1) /\ 1 + i - 1 = i
    BY <1>1
  <2>2. F[i] = G[1 + i - 1]
    BY <1>8, <2>1
  <2> QED  BY <2>1, <2>2
<1> HIDE DEF F
<1>4. /\ F \o <<x>> \in Seq(T) /\ Len(F \o <<x>>) = Len(F) + 1
      /\ \A i \in 1..(Len(F) + 1) : (F \o <<x>>)[i] = IF i = Len(F) + 1 THEN x ELSE F[i]
  BY <1>2, Joined
<1>5. Len(F) + 1 = Len(G)
  BY <1>1, <1>2
<1>6. \A i \in 1..Len(G) : (F \o <<x>>)[i] = IF i = Len(G) THEN x ELSE G[i]
  <2> TAKE i \in 1..Len(G)
  <2>1. (F \o <<x>>)[i] = IF i = Len(F) + 1 THEN x ELSE F[i]
    BY <1>4, <1>5
  <2>2. i # Len(G) => F[i] = G[i]
    BY <1>1, <1>3
  <2> QED  BY <1>5, <2>1, <2>2
<1> QED  BY <1>4, <1>5, <1>6 DEF F

-----------------------------------------------------------------------------
(* Recursion along a rank, and extremes.                                      *)

\* A recursion on finitely many, in which a value depends on those of lower rank only.
DefinedByRank(S, V, rank, step) ==
  /\ IsFiniteSet(S) /\ V # {} /\ rank \in [S -> Int] /\ step \in [[S -> V] -> [S -> V]]
  /\ \A f, g \in [S -> V] : \A x \in S :
       (\A y \in S : rank[y] < rank[x] => f[y] = g[y]) => step[f][x] = step[g][x]

\* Of finitely many there is one of the highest rank.
LEMMA HighestRank ==
  ASSUME NEW A, IsFiniteSet(A), A # {}, NEW rank, \A x \in A : rank[x] \in Int
  PROVE  /\ \E x \in A : \A y \in A : rank[y] <= rank[x]
         /\ \E x \in A : \A y \in A : rank[x] <= rank[y]
<1> DEFINE ranks == {rank[x] : x \in A}
<1>1. ranks \in SUBSET Int /\ ranks # {} /\ IsFiniteSet(ranks)
  <2>1. IsFiniteSet(ranks)
    BY ImageFinite
  <2> QED  BY <2>1
<1>2. Max(ranks) \in ranks /\ Min(ranks) \in ranks
      /\ \A y \in ranks : y <= Max(ranks) /\ Min(ranks) <= y
  <2> HIDE DEF ranks
  <2> QED  BY <1>1, Extremes
<1>3. PICK x \in A : rank[x] = Max(ranks)
  BY <1>2
<1>4. PICK z \in A : rank[z] = Min(ranks)
  BY <1>2
<1>5. \A y \in A : rank[y] \in ranks
  OBVIOUS
<1> HIDE DEF ranks
<1> QED  BY <1>2, <1>3, <1>4, <1>5

\* Such a recursion has a solution.
LEMMA RecursionExists ==
  ASSUME NEW S, NEW V, NEW rank, NEW step, DefinedByRank(S, V, rank, step)
  PROVE  \E f \in [S -> V] : step[f] = f
<1> /\ IsFiniteSet(S) /\ V # {} /\ rank \in [S -> Int] /\ step \in [[S -> V] -> [S -> V]]
  BY DEF DefinedByRank
<1> DEFINE Below(A) == \A x \in A, y \in S : rank[y] < rank[x] => y \in A
           Solves(f, A) == \A x \in A : f[x] = step[f][x]
           T == {A \in SUBSET S : Below(A) => \E f \in [S -> V] : Solves(f, A)}
<1>1. {} \in T
  <2>1. PICK v \in V : TRUE
    OBVIOUS
  <2>2. [x \in S |-> v] \in [S -> V]
    OBVIOUS
  <2>3. Solves([x \in S |-> v], {})
    OBVIOUS
  <2> QED  BY <2>2, <2>3
<1>2. ASSUME NEW A \in SUBSET S, A # {}
      PROVE  \E x \in A : A \ {x} \in T => A \in T
  <2>1. IsFiniteSet(A) /\ \A x \in A : rank[x] \in Int
    BY <1>2, FS_Subset
  <2>2. PICK x \in A : \A y \in A : rank[y] <= rank[x]
    BY <1>2, <2>1, HighestRank
  <2>3. ASSUME A \ {x} \in T, Below(A)
        PROVE  \E f \in [S -> V] : Solves(f, A)
    <3>1. Below(A \ {x})
      BY <2>1, <2>2, <2>3
    <3>2. PICK f \in [S -> V] : Solves(f, A \ {x})
      BY <2>3, <3>1
    <3> DEFINE g == [f EXCEPT ![x] = step[f][x]]
    <3>3. g \in [S -> V] /\ g[x] = step[f][x] /\ \A y \in S : y # x => g[y] = f[y]
      BY <3>2
    <3> HIDE DEF g
    <3>4. ASSUME NEW z \in A
          PROVE  step[g][z] = step[f][z]
      <4>1. \A y \in S : rank[y] < rank[z] => y # x
        BY <2>1, <2>2
      <4>2. \A y \in S : rank[y] < rank[z] => g[y] = f[y]
        BY <3>3, <4>1
      <4> QED  BY <3>2, <3>3, <4>2 DEF DefinedByRank
    <3>5. Solves(g, A)
      <4> SUFFICES ASSUME NEW z \in A PROVE g[z] = step[g][z]
        OBVIOUS
      <4>1. CASE z = x
        BY <3>3, <3>4, <4>1
      <4>2. CASE z # x
        BY <3>2, <3>3, <3>4, <4>2
      <4> QED  BY <4>1, <4>2
    <3> QED  BY <3>3, <3>5
  <2> QED  BY <2>2, <2>3
<1>3. T = SUBSET S
  <2>1. T \in SUBSET (SUBSET S)
    OBVIOUS
  <2> HIDE DEF T
  <2> QED  BY <1>1, <1>2, <2>1, FoldInduction
<1>4. S \in T
  BY <1>3
<1>5. PICK f \in [S -> V] : Solves(f, S)
  BY <1>4
<1>6. step[f] \in [S -> V]
  OBVIOUS
<1>7. step[f] = f
  BY <1>5, <1>6
<1> QED  BY <1>7

\* What holds wherever it holds of all of lower rank holds everywhere.
LEMMA RankInduction ==
  ASSUME NEW S, IsFiniteSet(S), NEW rank \in [S -> Int], NEW G \in SUBSET S,
         \A x \in S : (\A y \in S : rank[y] < rank[x] => y \in G) => x \in G
  PROVE  G = S
<1> SUFFICES ASSUME S \ G # {} PROVE FALSE
  OBVIOUS
<1>1. IsFiniteSet(S \ G) /\ \A x \in S \ G : rank[x] \in Int
  BY FS_Subset
<1>2. PICK x \in S \ G : \A y \in S \ G : rank[x] <= rank[y]
  BY <1>1, HighestRank
<1>3. \A y \in S : rank[y] < rank[x] => y \in G
  BY <1>2
<1> QED  BY <1>2, <1>3

\* The latest of a day and of those of finitely many, and the earliest.
LEMMA ExtremesOver ==
  ASSUME NEW x \in Int, NEW S, IsFiniteSet(S), NEW f, \A s \in S : f[s] \in Int,
         NEW days, \A d : d \in days <=> d = x \/ \E s \in S : d = f[s]
  PROVE  /\ Max(days) \in Int /\ x <= Max(days) /\ \A s \in S : f[s] <= Max(days)
         /\ Max(days) = x \/ \E s \in S : Max(days) = f[s]
         /\ Min(days) \in Int /\ Min(days) <= x /\ \A s \in S : Min(days) <= f[s]
         /\ Min(days) = x \/ \E s \in S : Min(days) = f[s]
<1> DEFINE image == {f[s] : s \in S}
<1>1. IsFiniteSet(image)
  BY ImageFinite
<1>2. IsFiniteSet({x})
  BY FS_Singleton
<1>3. /\ days \in SUBSET Int /\ days # {} /\ x \in days /\ \A s \in S : f[s] \in days
      /\ days = {x} \cup image
  OBVIOUS
<1>4. IsFiniteSet(days)
  <2> HIDE DEF image
  <2> QED  BY <1>1, <1>2, <1>3, FS_Union
<1>5. /\ Max(days) \in days /\ Min(days) \in days
      /\ \A d \in days : d <= Max(days) /\ Min(days) <= d
  BY <1>3, <1>4, Extremes
<1> QED  BY <1>3, <1>5

-----------------------------------------------------------------------------
(* What is reached in rounds.                                                *)

\* What is reached from a base along a relation, in rounds.
Rounds(N, B, E, r) ==
  /\ r[0] = B
  /\ \A n \in 1..N : \A x : x \in r[n] <=> x \in r[n - 1] \/ \E f \in r[n - 1] : <<f, x>> \in E

\* There are such rounds.
LEMMA RoundsExist ==
  ASSUME NEW N \in Nat, NEW D, NEW B \in SUBSET D, NEW E \in SUBSET (D \X D)
  PROVE  \E r \in [0..N -> SUBSET D] : Rounds(N, B, E, r)
<1> DEFINE S == 0..N
           V == SUBSET D
           next(A) == A \cup {x \in D : \E f \in A : <<f, x>> \in E}
           value(f, n) == IF n = 0 THEN B ELSE next(f[n - 1])
           rank == [n \in S |-> n]
           step == [f \in [S -> V] |-> [n \in S |-> value(f, n)]]
<1>1. IsFiniteSet(S) /\ V # {} /\ rank \in [S -> Int]
  <2>1. IsFiniteSet(S)
    BY FS_Interval, 0 \in Int, N \in Int
  <2> QED  BY <2>1
<1>2. \A n \in S : n # 0 => n - 1 \in S /\ n - 1 < n
  OBVIOUS
<1>3. \A A \in V : next(A) \in V
  OBVIOUS
<1>4. \A f \in [S -> V] : \A n \in S : value(f, n) \in V
  <2> HIDE DEF next, S
  <2> QED  BY <1>2, <1>3
<1>5. step \in [[S -> V] -> [S -> V]]
  <2> HIDE DEF value, S, V
  <2> QED  BY <1>4
<1>6. ASSUME NEW f \in [S -> V], NEW g \in [S -> V], NEW n \in S,
             \A k \in S : rank[k] < rank[n] => f[k] = g[k]
      PROVE  step[f][n] = step[g][n]
  <2>1. value(f, n) = value(g, n)
    <3>1. CASE n = 0
      BY <3>1
    <3>2. CASE n # 0
      <4>1. f[n - 1] = g[n - 1]
        BY <1>2, <1>6, <3>2
      <4> QED  BY <3>2, <4>1
    <3> QED  BY <3>1, <3>2
  <2> HIDE DEF value
  <2> QED  BY <2>1
<1>7. DefinedByRank(S, V, rank, step)
  <2> HIDE DEF S, V, rank, step
  <2> QED  BY <1>1, <1>5, <1>6 DEF DefinedByRank
<1>8. PICK f \in [S -> V] : step[f] = f
  <2> HIDE DEF S, V, rank, step
  <2> QED  BY <1>7, RecursionExists
<1>9. \A n \in S : f[n] = value(f, n)
  <2> HIDE DEF value
  <2> QED  BY <1>8
<1>10. f[0] = B
  <2>1. 0 \in S
    OBVIOUS
  <2> QED  BY <1>9, <2>1
<1>11. ASSUME NEW n \in 1..N, NEW x
       PROVE  x \in f[n] <=> x \in f[n - 1] \/ \E y \in f[n - 1] : <<y, x>> \in E
  <2>1. n \in S /\ n # 0 /\ n - 1 \in S
    OBVIOUS
  <2>2. f[n] = next(f[n - 1])
    BY <1>9, <2>1
  <2> QED  BY <2>2
<1> QED  BY <1>8, <1>10, <1>11 DEF Rounds

\* S is what can be reached from B along E: the least set closed under E.
AllReached(D, B, E, S) ==
  /\ S \in SUBSET D /\ B \subseteq S
  /\ \A f \in S : \A x : <<f, x>> \in E => x \in S
  /\ \A C : B \subseteq C /\ (\A f \in C : \A x : <<f, x>> \in E => x \in C) => S \subseteq C

\* In as many rounds as there are elements, all that can be reached is, and no more.
LEMMA RoundsReach ==
  ASSUME NEW D, IsFiniteSet(D), NEW N, N = Cardinality(D), NEW B \in SUBSET D,
         NEW E \in SUBSET (D \X D), NEW r, Rounds(N, B, E, r)
  PROVE  AllReached(D, B, E, r[N])
<1> DEFINE Closed(A) == \A f \in A : \A x : <<f, x>> \in E => x \in A
           T == {n \in 0..N : /\ r[n] \in SUBSET D /\ B \subseteq r[n]
                              /\ Closed(r[n]) \/ Cardinality(r[n]) >= n}
<1>1. N \in Nat /\ \A f, x : <<f, x>> \in E => x \in D
  BY FS_CardinalityType
<1>2. \A A \in SUBSET D : IsFiniteSet(A) /\ Cardinality(A) \in Nat
  BY FS_Subset, FS_CardinalityType
<1>3. 0 \in T
  <2>1. r[0] = B /\ 0 \in 0..N
    BY <1>1 DEF Rounds
  <2> HIDE DEF Closed
  <2> QED  BY <1>2, <2>1
<1>4. ASSUME NEW n \in 0..N, n \in T, n < N PROVE n + 1 \in T
  <2>1. n + 1 \in 1..N /\ (n + 1) - 1 = n /\ n + 1 \in 0..N
    BY <1>1, <1>4
  <2>2. \A x : x \in r[n + 1] <=> x \in r[n] \/ \E f \in r[n] : <<f, x>> \in E
    BY <2>1 DEF Rounds
  <2>3. r[n] \in SUBSET D /\ B \subseteq r[n] /\ (Closed(r[n]) \/ Cardinality(r[n]) >= n)
    BY <1>4
  <2>4. r[n + 1] \in SUBSET D /\ r[n] \subseteq r[n + 1]
    BY <1>1, <2>2, <2>3
  <2>5. CASE Closed(r[n])
    <3>1. r[n + 1] = r[n]
      BY <2>2, <2>5
    <3> HIDE DEF Closed
    <3> QED  BY <2>1, <2>3, <2>5, <3>1
  <2>6. CASE ~Closed(r[n])
    <3>1. r[n + 1] # r[n]
      BY <2>2, <2>6
    <3> HIDE DEF Closed
    <3>2. Cardinality(r[n]) < Cardinality(r[n + 1])
      BY <1>2, <2>4, <3>1, FS_Subset
    <3>3. Cardinality(r[n]) \in Nat /\ Cardinality(r[n + 1]) \in Nat /\ Cardinality(r[n]) >= n /\ n \in Nat
      BY <1>1, <1>2, <2>3, <2>4, <2>6
    <3> QED  BY <2>1, <2>3, <2>4, <3>2, <3>3
  <2> QED  BY <2>5, <2>6
<1>5. \A n \in 0..N : n \in T
  <2> HIDE DEF T
  <2> QED  BY <1>1, <1>3, <1>4, PrefixInduction
<1>6. N \in 0..N
  BY <1>1
<1>7. r[N] \in SUBSET D /\ B \subseteq r[N] /\ (Closed(r[N]) \/ Cardinality(r[N]) >= N)
  BY <1>5, <1>6
<1>8. Closed(r[N])
  <2>1. CASE Cardinality(r[N]) >= N
    <3> HIDE DEF Closed
    <3>1. ~(Cardinality(r[N]) < Cardinality(D)) /\ r[N] \in SUBSET D
      BY <1>1, <1>2, <1>7, <2>1
    <3>2. r[N] = D
      <4> DEFINE A == r[N]
      <4>1. A \in SUBSET D /\ IsFiniteSet(D) /\ ~(Cardinality(A) < Cardinality(D))
        BY <3>1
      <4> HIDE DEF A
      <4>2. Cardinality(A) \in Nat /\ Cardinality(D) \in Nat /\ Cardinality(A) <= Cardinality(D)
        BY <1>2, <4>1, FS_CardinalityType, FS_Subset
      <4>3. Cardinality(D) = Cardinality(A)
        BY <4>1, <4>2
      <4>4. D = A
        BY <4>1, <4>3, FS_Subset
      <4> QED  BY <4>4 DEF A
    <3> QED  BY <1>1, <3>2 DEF Closed
  <2> QED  BY <1>7, <2>1
<1>9. ASSUME NEW C, B \subseteq C, Closed(C) PROVE r[N] \subseteq C
  <2> DEFINE U == {n \in 0..N : r[n] \subseteq C}
  <2>1. 0 \in U
    BY <1>1, <1>9 DEF Rounds
  <2>2. ASSUME NEW n \in 0..N, n \in U, n < N PROVE n + 1 \in U
    <3>1. n + 1 \in 1..N /\ (n + 1) - 1 = n /\ n + 1 \in 0..N
      BY <1>1, <2>2
    <3>2. \A x : x \in r[n + 1] <=> x \in r[n] \/ \E f \in r[n] : <<f, x>> \in E
      BY <3>1 DEF Rounds
    <3> QED  BY <1>9, <2>2, <3>1, <3>2
  <2>3. \A n \in 0..N : n \in U
    <3> HIDE DEF U
    <3> QED  BY <1>1, <2>1, <2>2, PrefixInduction
  <2> QED  BY <1>6, <2>3
<1> QED  BY <1>7, <1>8, <1>9 DEF AllReached
=============================================================================
