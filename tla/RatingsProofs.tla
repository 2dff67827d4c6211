---------------------------- MODULE RatingsProofs ----------------------------
(***************************************************************************)
(* What holds of the integer Elo system for any ratings and scores.  Three *)
(* tools carry it: an expected score interpolates between two anchors of a *)
(* table that rises and is symmetric; a sum over a finite set, which the   *)
(* model folds, takes its elements out in any order, because no smallest   *)
(* set can be an exception; and rounding moves a quotient by at most half. *)
(* The two sides of a pair then nearly cancel, so the deltas of a match    *)
(* nearly add up to nothing, and so do those of a season.                  *)
(***************************************************************************)
EXTENDS MCElo, FiniteSetTheorems, WellFoundedInduction, TLAPS

-----------------------------------------------------------------------------
(* Expected scores *)

\* The anchors k and k + 1 of the table of expected scores rise within it.
Rises(k) ==
  /\ ExpectedScoreTable[k] \in 91..909
  /\ ExpectedScoreTable[k + 1] \in 91..909
  /\ ExpectedScoreTable[k] < ExpectedScoreTable[k + 1]

\* The table of system.py runs from 91 to 909, strictly rising.
LEMMA Anchors ==
  /\ ExpectedScoreTable[1] = 91 /\ ExpectedScoreTable[33] = 909
  /\ \A k \in 1..32 : Rises(k)
<1>1. ExpectedScoreTable[1] = 91 /\ ExpectedScoreTable[33] = 909
  BY DEF ExpectedScoreTable
<1>2. ASSUME NEW k \in 1..32 PROVE Rises(k)
  BY DEF Rises, ExpectedScoreTable
<1> QED BY <1>1, <1>2

\* The expected score between two anchors.
Interpolated(k, r) ==
  IF r = 0 THEN ExpectedScoreTable[k]
  ELSE ExpectedScoreTable[k]
       + ((ExpectedScoreTable[k + 1] - ExpectedScoreTable[k]) * r) \div AnchorStep

\* Interpolating between two anchors stays between them and never falls.
LEMMA InterpolationRises ==
  ASSUME NEW k \in 1..32, NEW r \in 0..24
  PROVE  /\ Interpolated(k, r) \in 91..909
         /\ Interpolated(k, r) >= ExpectedScoreTable[k]
         /\ Interpolated(k, r) <= ExpectedScoreTable[k + 1]
         /\ r < 24 => Interpolated(k, r) <= Interpolated(k, r + 1)
<1> DEFINE low == ExpectedScoreTable[k]
           gap == ExpectedScoreTable[k + 1] - low
<1>0. Rises(k)
  BY Anchors
<1>1. low \in 91..909 /\ low + gap \in 91..909 /\ gap > 0 /\ gap \in Int
      /\ ExpectedScoreTable[k + 1] = low + gap
  <2> DEFINE high == ExpectedScoreTable[k + 1]
  <2>1. low \in 91..909 /\ high \in 91..909 /\ low < high
    BY <1>0 DEF Rises
  <2> HIDE DEF low, high
  <2>2. low \in 91..909 /\ low + (high - low) \in 91..909 /\ high - low > 0
        /\ high - low \in Int /\ high = low + (high - low)
    BY <2>1
  <2> QED BY <2>2 DEF high
<1>2. \A x \in 0..24 : gap * x \in Int /\ gap * x >= 0 /\ gap * x <= gap * 25
  <2> HIDE DEF gap
  <2> SUFFICES ASSUME NEW x \in 0..24 PROVE gap * x \in Int /\ gap * x >= 0 /\ gap * x <= gap * 25
    OBVIOUS
  <2>1. gap * x \in Int /\ gap * (25 - x) \in Int /\ gap * x >= 0 /\ gap * (25 - x) >= 0
    BY <1>1
  <2>2. gap * 25 = gap * x + gap * (25 - x)
    BY <1>1
  <2> QED BY <2>1, <2>2
<1>3. gap * (r + 1) = gap * r + gap
  BY <1>1
<1>4. \A x \in 0..24 : (gap * x) \div 25 \in 0..gap
  <2> HIDE DEF gap
  <2> SUFFICES ASSUME NEW x \in 0..24 PROVE (gap * x) \div 25 \in 0..gap
    OBVIOUS
  <2> DEFINE p == gap * x
  <2>1. p \in Int /\ p >= 0 /\ p <= gap * 25
    BY <1>2
  <2> HIDE DEF p
  <2>2. p \div 25 \in 0..gap
    BY <2>1, <1>1
  <2> QED BY <2>2 DEF p
<1>5. r < 24 => (gap * r) \div 25 <= (gap * (r + 1)) \div 25
  <2> DEFINE p == gap * r
             q == gap * (r + 1)
  <2>1. p \in Int /\ q = p + gap
    BY <1>2, <1>3
  <2> HIDE DEF p, q, gap
  <2>2. p \div 25 <= q \div 25
    BY <2>1, <1>1
  <2> QED BY <2>2 DEF p, q
<1>6. \A x \in 0..24 : Interpolated(k, x) = IF x = 0 THEN low ELSE low + (gap * x) \div 25
  BY DEF Interpolated, AnchorStep
<1>7. r < 24 => r + 1 \in 0..24 /\ r + 1 # 0
  OBVIOUS
<1> HIDE DEF low, gap
<1>8. low \in Int /\ (gap * r) \div 25 \in 0..gap
      /\ (r < 24 => (gap * (r + 1)) \div 25 \in 0..gap)
  BY <1>1, <1>4, <1>7
<1>9. Interpolated(k, r) = low \/ Interpolated(k, r) = low + (gap * r) \div 25
  BY <1>6
<1>10. ExpectedScoreTable[k] = low
  BY DEF low
<1>11. Interpolated(k, r) \in low..(low + gap)
  BY <1>1, <1>8, <1>9
<1>12. r < 24 => Interpolated(k, r) <= Interpolated(k, r + 1)
  BY <1>1, <1>5, <1>6, <1>7, <1>8
<1>13. low + gap = ExpectedScoreTable[k + 1]
  BY <1>1
<1>14. Interpolated(k, r) \in 91..909
  BY <1>1, <1>11
<1>15. Interpolated(k, r) >= low /\ Interpolated(k, r) <= low + gap
  BY <1>1, <1>11
<1> QED BY <1>10, <1>12, <1>13, <1>14, <1>15

\* Where 25 points take a place in the table of anchors.
LEMMA Division ==
  ASSUME NEW s \in 0..800
  PROVE  /\ s \div 25 \in 0..32 /\ s % 25 \in 0..24
         /\ s = 25 * (s \div 25) + (s % 25)
         /\ s \div 25 = 32 => s % 25 = 0
         /\ s % 25 < 24 => /\ (s + 1) \div 25 = s \div 25
                           /\ (s + 1) % 25 = (s % 25) + 1
         /\ s % 25 = 24 => /\ (s + 1) \div 25 = (s \div 25) + 1
                           /\ (s + 1) % 25 = 0
  OBVIOUS

\* A difference beyond 400 points counts as 400.
LEMMA ClampedOK ==
  ASSUME NEW d \in Int
  PROVE  /\ Clamped(d) + 400 \in 0..800
         /\ d < -400 => Clamped(d) = -400 /\ Clamped(d + 1) = -400
         /\ d >= 400 => Clamped(d) = 400 /\ Clamped(d + 1) = 400
         /\ d >= -400 /\ d < 400 => Clamped(d) = d /\ Clamped(d + 1) = d + 1
  BY DEF Clamped, AnchorMax

\* _expected_score_millipoints reads the table and interpolates.
LEMMA ExpectationAt ==
  ASSUME NEW d \in Int
  PROVE  LET s == Clamped(d) + 400 IN
         ExpectedMillipoints(d) = Interpolated((s \div 25) + 1, s % 25)
  BY DEF ExpectedMillipoints, Interpolated, AnchorMax, AnchorStep

\* It never falls as the difference grows, and stays within the table.
LEMMA ExpectationRises ==
  ASSUME NEW d \in Int
  PROVE  /\ ExpectedMillipoints(d) \in 91..909
         /\ ExpectedMillipoints(d) <= ExpectedMillipoints(d + 1)
<1> DEFINE s == Clamped(d) + 400
           k == (s \div 25) + 1
           r == s % 25
<1>1. s \in 0..800
  BY ClampedOK
<1>2. k \in 1..33 /\ r \in 0..24 /\ (k = 33 => r = 0)
  BY <1>1, Division
<1>3. ExpectedMillipoints(d) = Interpolated(k, r)
  BY ExpectationAt
<1>4. Interpolated(33, 0) = 909
  BY Anchors DEF Interpolated
<1>5. ExpectedMillipoints(d) \in 91..909
  <2>1. CASE k = 33
    BY <2>1, <1>2, <1>3, <1>4
  <2>2. CASE k \in 1..32
    <3> HIDE DEF k, r
    <3>1. Interpolated(k, r) \in 91..909
      BY <2>2, <1>2, InterpolationRises
    <3> QED BY <3>1, <1>3
  <2> QED BY <2>1, <2>2, <1>2
<1>6. CASE d < -400 \/ d >= 400
  <2>1. Clamped(d + 1) = Clamped(d)
    BY <1>6, ClampedOK
  <2>2. ExpectedMillipoints(d + 1) = ExpectedMillipoints(d)
    BY <2>1, ExpectationAt
  <2> QED BY <1>5, <2>2
<1>7. CASE d >= -400 /\ d < 400
  <2>1. Clamped(d) = d /\ Clamped(d + 1) = d + 1
    BY <1>7, ClampedOK
  <2>2. s \in 0..799 /\ Clamped(d + 1) + 400 = s + 1
    BY <2>1, <1>7
  <2>3. ExpectedMillipoints(d + 1) = Interpolated(((s + 1) \div 25) + 1, (s + 1) % 25)
    BY <2>2, ExpectationAt
  <2>4. k \in 1..32
    <3> HIDE DEF s
    <3> QED BY <2>2
  <2>5. CASE r < 24
    <3>1. ExpectedMillipoints(d + 1) = Interpolated(k, r + 1)
      <4>1. (s + 1) \div 25 = s \div 25 /\ (s + 1) % 25 = (s % 25) + 1
        <5> HIDE DEF s
        <5> QED BY <1>1, <2>5, Division
      <4> QED BY <2>3, <4>1
    <3> HIDE DEF k, r
    <3>2. Interpolated(k, r) <= Interpolated(k, r + 1)
      <4>1. k \in 1..32 /\ r \in 0..24 /\ r < 24
        BY <1>2, <2>4, <2>5
      <4> QED BY <4>1, InterpolationRises
    <3> QED BY <3>1, <3>2, <1>3, <1>5
  <2>6. CASE r = 24
    <3>1. ExpectedMillipoints(d + 1) = Interpolated(k + 1, 0)
      <4>1. (s + 1) \div 25 = (s \div 25) + 1 /\ (s + 1) % 25 = 0
        <5> HIDE DEF s
        <5> QED BY <1>1, <2>6, Division
      <4> QED BY <2>3, <4>1
    <3>2. ExpectedMillipoints(d + 1) = ExpectedScoreTable[k + 1]
      BY <3>1 DEF Interpolated
    <3> HIDE DEF k, r
    <3>3. Interpolated(k, r) <= ExpectedScoreTable[k + 1]
      BY <1>2, <2>4, InterpolationRises
    <3> QED BY <3>2, <3>3, <1>3, <1>5
  <2> QED BY <2>5, <2>6, <1>2
<1> QED BY <1>5, <1>6, <1>7

-----------------------------------------------------------------------------
(* Sums over finite sets *)

LEMMA LeastElement ==
  ASSUME NEW S \in SUBSET Nat, S # {}
  PROVE  \E k \in S : \A j \in S : k <= j
<1>1. PICK k \in S : \A j \in S : <<j, k>> \notin OpToRel(<, Nat)
  BY NatLessThanWellFounded, WFMin
<1>2. ASSUME NEW j \in S, j < k PROVE FALSE
  <2>1. <<j, k>> \in Nat \X Nat /\ <<j, k>>[1] < <<j, k>>[2] BY <1>2
  <2>2. <<j, k>> \in {p \in Nat \X Nat : p[1] < p[2]} BY <2>1, Zenon
  <2>. QED BY <1>1, <2>2, Zenon DEF OpToRel
<1>. QED BY <1>2

\* A set of subsets of a finite set has a member from which taking any element
\* out leads out of it.
LEMMA SmallestSet ==
  ASSUME NEW S, IsFiniteSet(S), NEW B \in SUBSET (SUBSET S), B # {}
  PROVE  \E s \in B : \A x \in s : s \ {x} \notin B
<1> DEFINE Sizes == {n \in Nat : \E s \in B : Cardinality(s) = n}
<1>1. \A s \in B : IsFiniteSet(s) /\ Cardinality(s) \in Nat
  BY FS_Subset, FS_CardinalityType
<1>2. Sizes # {} /\ Sizes \in SUBSET Nat
  BY <1>1
<1>3. PICK n \in Sizes : \A m \in Sizes : n <= m
  <2> HIDE DEF Sizes
  <2> QED BY <1>2, LeastElement
<1>4. PICK s \in B : Cardinality(s) = n
  BY <1>3
<1>5. ASSUME NEW x \in s, s \ {x} \in B PROVE FALSE
  <2>1. Cardinality(s \ {x}) = n - 1
    BY <1>1, <1>4, FS_RemoveElement
  <2>2. Cardinality(s \ {x}) \in Sizes
    BY <1>1, <1>5
  <2>3. n \in Nat
    OBVIOUS
  <2> HIDE DEF Sizes
  <2> QED BY <1>3, <2>1, <2>2, <2>3
<1> QED BY <1>5

\* The element that the fold of the community modules takes first.
Picked(s) == CHOOSE x \in s : TRUE

\* The sum of the weights w over s, when f gives the sums of smaller sets.
SumStep(f, w, s) ==
  IF s = {} THEN 0 ELSE w[Picked(s)] + f[s \ {Picked(s)}]

\* f gives the sum of the weights w over every set of D.
Sums(f, w, D) == f = [s \in D |-> SumStep(f, w, s)]

\* f gives the sum of every part of S.
SumsUpTo(f, w, S) == Sums(f, w, SUBSET S)

\* The sum of the weights w over S.
Total(w, S) == MapThenSumSet(LAMBDA x : w[x], S)

\* Taking the picked element out of a set leaves a smaller one.
LEMMA PickedOut ==
  ASSUME NEW S, IsFiniteSet(S), NEW s \in SUBSET S, s # {}
  PROVE  /\ Picked(s) \in s
         /\ s \ {Picked(s)} \in SUBSET S
         /\ Cardinality(s) \in Nat /\ Cardinality(s \ {Picked(s)}) = Cardinality(s) - 1
<1>1. Picked(s) \in s
  BY DEF Picked
<1>2. IsFiniteSet(s)
  BY FS_Subset
<1>3. Cardinality(s \ {Picked(s)}) = Cardinality(s) - 1
  BY <1>1, <1>2, FS_RemoveElement
<1> QED BY <1>1, <1>2, <1>3, FS_CardinalityType

\* The recursion that sums over a finite set has a solution: there is
\* no least cardinality for which it lacks one.
LEMMA SumsExist ==
  ASSUME NEW w, NEW S, IsFiniteSet(S)
  PROVE  \E f : Sums(f, w, SUBSET S)
<1> DEFINE D(n) == {s \in SUBSET S : Cardinality(s) <= n}
           Without == {n \in Nat : ~ \E f : Sums(f, w, D(n))}
<1>1. Without = {}
  <2> SUFFICES ASSUME Without # {} PROVE FALSE
    OBVIOUS
  <2>1. PICK n \in Without : \A m \in Without : n <= m
    BY LeastElement
  <2>2. CASE n = 0
    <3>1. \A s \in D(0) : s = {}
      <4> SUFFICES ASSUME NEW s \in D(0) PROVE s = {}
        OBVIOUS
      <4>1. IsFiniteSet(s)
        BY FS_Subset
      <4> QED BY <4>1, FS_CardinalityType, FS_EmptySet
    <3> DEFINE f == [s \in D(0) |-> 0]
    <3>2. f = [s \in D(0) |-> SumStep(f, w, s)]
      BY <3>1 DEF SumStep
    <3>3. Sums(f, w, D(0))
      BY <3>2 DEF Sums
    <3> QED BY <2>2, <3>3
  <2>3. CASE n # 0
    <3>1. n - 1 \in Nat /\ n - 1 \notin Without
      <4>1. n \in Nat
        OBVIOUS
      <4> HIDE DEF Without
      <4> QED BY <2>1, <2>3, <4>1
    <3>2. PICK f : Sums(f, w, D(n - 1))
      BY <3>1
    <3> DEFINE g == [s \in D(n) |-> SumStep(f, w, s)]
    <3>3. ASSUME NEW s \in D(n), s # {}
          PROVE  s \ {Picked(s)} \in D(n - 1) /\ s \ {Picked(s)} \in D(n)
      <4>1. Cardinality(s \ {Picked(s)}) = Cardinality(s) - 1 /\ Cardinality(s) \in Nat
            /\ s \ {Picked(s)} \in SUBSET S
        BY <3>3, PickedOut
      <4>2. Cardinality(s) <= n /\ n \in Nat
        BY <2>1
      <4> QED BY <4>1, <4>2
    <3>4. ASSUME NEW s \in D(n - 1) PROVE g[s] = f[s]
      <4>1. s \in D(n)
        <5>1. IsFiniteSet(s)
          BY FS_Subset
        <5>2. Cardinality(s) \in Nat /\ Cardinality(s) <= n - 1 /\ n \in Nat
          BY <2>1, <5>1, FS_CardinalityType
        <5> QED BY <5>2
      <4>2. f[s] = SumStep(f, w, s)
        BY <3>2 DEF Sums
      <4> QED BY <4>1, <4>2
    <3>5. \A s \in D(n) : SumStep(f, w, s) = SumStep(g, w, s)
      <4> SUFFICES ASSUME NEW s \in D(n)
                   PROVE  SumStep(f, w, s) = SumStep(g, w, s)
        OBVIOUS
      <4>1. CASE s = {}
        BY <4>1 DEF SumStep
      <4>2. CASE s # {}
        <5>1. g[s \ {Picked(s)}] = f[s \ {Picked(s)}]
          BY <3>3, <3>4, <4>2
        <5> HIDE DEF g
        <5> QED BY <5>1 DEF SumStep
      <4> QED BY <4>1, <4>2
    <3>6. g = [s \in D(n) |-> SumStep(g, w, s)]
      <4> DEFINE h == [s \in D(n) |-> SumStep(g, w, s)]
      <4>1. \A s \in D(n) : g[s] = h[s]
        BY <3>5
      <4> QED BY <4>1
    <3>7. Sums(g, w, D(n))
      BY <3>6 DEF Sums
    <3> QED BY <2>1, <3>7
  <2> QED BY <2>2, <2>3
<1>2. Cardinality(S) \in Nat /\ Cardinality(S) \notin Without
  BY <1>1, FS_CardinalityType
<1>3. D(Cardinality(S)) = SUBSET S
  <2>1. \A s \in SUBSET S : Cardinality(s) <= Cardinality(S)
    BY FS_Subset
  <2> QED BY <2>1
<1> QED BY <1>2, <1>3

\* It has one.
LEMMA SumsAgree ==
  ASSUME NEW w, NEW S, IsFiniteSet(S), NEW T, T \subseteq S,
         NEW f, SumsUpTo(f, w, S), NEW g, SumsUpTo(g, w, T)
  PROVE  f[T] = g[T]
<1> DEFINE Apart == {s \in SUBSET T : f[s] # g[s]}
<1>1. \A s \in SUBSET T : f[s] = SumStep(f, w, s) /\ g[s] = SumStep(g, w, s)
  BY DEF Sums, SumsUpTo
<1>2. Apart = {}
  <2> SUFFICES ASSUME Apart # {} PROVE FALSE
    OBVIOUS
  <2>1. IsFiniteSet(T) /\ Apart \in SUBSET (SUBSET T)
    BY FS_Subset
  <2>2. PICK s \in Apart : \A x \in s : s \ {x} \notin Apart
    <3> HIDE DEF Apart
    <3> QED BY <2>1, SmallestSet
  <2>3. CASE s = {}
    BY <1>1, <2>3 DEF SumStep
  <2>4. CASE s # {}
    <3>1. Picked(s) \in s
      BY <2>4 DEF Picked
    <3>2. f[s \ {Picked(s)}] = g[s \ {Picked(s)}]
      BY <2>2, <3>1
    <3> QED BY <1>1, <2>4, <3>2 DEF SumStep
  <2> QED BY <2>3, <2>4
<1> QED BY <1>2

\* The fold of the community modules, over an operator that gives the weights,
\* computes that sum.
LEMMA TotalUnfolds ==
  ASSUME NEW w, NEW S, IsFiniteSet(S)
  PROVE  \E f : Sums(f, w, SUBSET S) /\ Total(w, S) = f[S]
<1> DEFINE iter == CHOOSE f : f = [s \in SUBSET S |->
                     IF s = {} THEN 0
                     ELSE w[CHOOSE x \in s : TRUE] + f[s \ {CHOOSE x \in s : TRUE}]]
<1>1. Total(w, S) = iter[S]
  BY Zenon DEF Total, MapThenSumSet, MapThenFoldSet
<1>2. \E f : f = [s \in SUBSET S |->
                     IF s = {} THEN 0
                     ELSE w[CHOOSE x \in s : TRUE] + f[s \ {CHOOSE x \in s : TRUE}]]
  <2>1. \E f : Sums(f, w, SUBSET S)
    BY SumsExist
  <2> QED BY <2>1, Zenon DEF Sums, SumStep, Picked
<1>3. iter = [s \in SUBSET S |->
                     IF s = {} THEN 0
                     ELSE w[CHOOSE x \in s : TRUE] + iter[s \ {CHOOSE x \in s : TRUE}]]
  BY <1>2, Zenon
<1>4. Sums(iter, w, SUBSET S)
  <2> HIDE DEF iter
  <2> QED BY <1>3, Zenon DEF Sums, SumStep, Picked
<1> QED BY <1>1, <1>4

\* So it sums by taking out the picked element ...
LEMMA TotalTakesPicked ==
  ASSUME NEW w, NEW S, IsFiniteSet(S)
  PROVE  /\ S = {} => Total(w, S) = 0
         /\ S # {} => Total(w, S) = w[Picked(S)] + Total(w, S \ {Picked(S)})
<1>1. PICK f : Sums(f, w, SUBSET S) /\ Total(w, S) = f[S]
  BY TotalUnfolds
<1>2. f[S] = SumStep(f, w, S)
  BY <1>1 DEF Sums
<1>3. CASE S = {}
  BY <1>1, <1>2, <1>3 DEF SumStep
<1>4. CASE S # {}
  <2> DEFINE T == S \ {Picked(S)}
  <2>1. T \in SUBSET S /\ IsFiniteSet(T)
    BY FS_Subset
  <2> HIDE DEF T
  <2>2. PICK g : Sums(g, w, SUBSET T) /\ Total(w, T) = g[T]
    BY <2>1, TotalUnfolds
  <2>3. f[T] = g[T]
    <3>1. T \subseteq S /\ SumsUpTo(f, w, S) /\ SumsUpTo(g, w, T)
      BY <1>1, <2>1, <2>2 DEF SumsUpTo
    <3> QED BY <3>1, SumsAgree
  <2> QED BY <1>1, <1>2, <1>4, <2>2, <2>3 DEF SumStep, T
<1> QED BY <1>3, <1>4

\* Weights that are integers, on a finite set.
Weighs(w, S) == IsFiniteSet(S) /\ \A x \in S : w[x] \in Int

LEMMA WeighsParts ==
  ASSUME NEW w, NEW S, Weighs(w, S), NEW T \in SUBSET S
  PROVE  Weighs(w, T)
  BY FS_Subset DEF Weighs

LEMMA TotalIsInt ==
  ASSUME NEW w, NEW S, Weighs(w, S)
  PROVE  Total(w, S) \in Int
<1> DEFINE Bad == {s \in SUBSET S : Total(w, s) \notin Int}
<1>1. SUFFICES ASSUME Bad # {} PROVE FALSE
  BY DEF Bad
<1>2. PICK s \in Bad : \A x \in s : s \ {x} \notin Bad
  <2>1. Bad \in SUBSET (SUBSET S)
    OBVIOUS
  <2> HIDE DEF Bad
  <2> QED BY <1>1, <2>1, SmallestSet DEF Weighs
<1>3. IsFiniteSet(s) /\ s \in SUBSET S
  BY FS_Subset DEF Weighs
<1>4. CASE s = {}
  <2>1. Total(w, s) = 0
    BY <1>3, <1>4, TotalTakesPicked
  <2> QED BY <2>1
<1>5. CASE s # {}
  <2> DEFINE x == Picked(s)
  <2>1. x \in s /\ w[x] \in Int
    BY <1>3, <1>5 DEF Picked, Weighs
  <2>2. Total(w, s) = w[x] + Total(w, s \ {x})
    BY <1>3, <1>5, TotalTakesPicked
  <2> HIDE DEF x
  <2>3. Total(w, s \ {x}) \in Int
    BY <1>2, <1>3, <2>1
  <2> QED BY <1>2, <2>1, <2>2, <2>3
<1> QED BY <1>4, <1>5

\* ... or any other.
LEMMA TotalTakes ==
  ASSUME NEW w, NEW S, Weighs(w, S), NEW a \in S
  PROVE  Total(w, S) = w[a] + Total(w, S \ {a})
<1> DEFINE Bad == {s \in SUBSET S : \E x \in s : Total(w, s) # w[x] + Total(w, s \ {x})}
<1>1. SUFFICES ASSUME Bad # {} PROVE FALSE
  BY DEF Bad
<1>2. PICK s \in Bad : \A x \in s : s \ {x} \notin Bad
  <2>1. Bad \in SUBSET (SUBSET S)
    OBVIOUS
  <2> HIDE DEF Bad
  <2> QED BY <1>1, <2>1, SmallestSet DEF Weighs
<1>3. PICK x \in s : Total(w, s) # w[x] + Total(w, s \ {x})
  OBVIOUS
<1> DEFINE p == Picked(s)
<1>4. p \in s /\ s \in SUBSET S /\ IsFiniteSet(s) /\ IsFiniteSet(s \ {x})
  BY FS_Subset DEF Weighs, Picked
<1>5. Total(w, s) = w[p] + Total(w, s \ {p})
  BY <1>3, <1>4, TotalTakesPicked
<1> HIDE DEF p
<1>6. x # p
  BY <1>3, <1>5
<1>7. s \ {p} \notin Bad /\ s \ {x} \notin Bad
  BY <1>2, <1>3, <1>4
<1>8. Total(w, s \ {p}) = w[x] + Total(w, (s \ {p}) \ {x})
  BY <1>3, <1>4, <1>6, <1>7
<1>9. Total(w, s \ {x}) = w[p] + Total(w, (s \ {x}) \ {p})
  BY <1>4, <1>6, <1>7
<1>10. (s \ {p}) \ {x} = (s \ {x}) \ {p}
  OBVIOUS
<1> DEFINE rest == Total(w, (s \ {x}) \ {p})
<1>11. rest \in Int /\ w[x] \in Int /\ w[p] \in Int
  <2>1. Weighs(w, (s \ {x}) \ {p})
    BY <1>4, WeighsParts
  <2> QED BY <1>3, <1>4, <2>1, TotalIsInt DEF Weighs
<1> HIDE DEF rest
<1>12. Total(w, s) = w[p] + (w[x] + rest) /\ Total(w, s \ {x}) = w[p] + rest
  BY <1>5, <1>8, <1>9, <1>10 DEF rest
<1> QED BY <1>3, <1>11, <1>12

\* Weights added up give sums added up.
LEMMA TotalAdds ==
  ASSUME NEW u, NEW v, NEW w, NEW S, Weighs(u, S), Weighs(v, S),
         \A x \in S : w[x] = u[x] + v[x]
  PROVE  Total(w, S) = Total(u, S) + Total(v, S)
<1> DEFINE Bad == {s \in SUBSET S : Total(w, s) # Total(u, s) + Total(v, s)}
<1>1. SUFFICES ASSUME Bad # {} PROVE FALSE
  BY DEF Bad
<1>2. PICK s \in Bad : \A x \in s : s \ {x} \notin Bad
  <2>1. Bad \in SUBSET (SUBSET S)
    OBVIOUS
  <2> HIDE DEF Bad
  <2> QED BY <1>1, <2>1, SmallestSet DEF Weighs
<1>3. IsFiniteSet(s) /\ s \in SUBSET S
  BY FS_Subset DEF Weighs
<1>4. CASE s = {}
  <2>1. Total(w, s) = 0 /\ Total(u, s) = 0 /\ Total(v, s) = 0
    BY <1>3, <1>4, TotalTakesPicked
  <2> QED BY <2>1
<1>5. CASE s # {}
  <2> DEFINE x == Picked(s)
             r == s \ {x}
  <2>1. x \in s /\ u[x] \in Int /\ v[x] \in Int /\ w[x] = u[x] + v[x]
    BY <1>3, <1>5 DEF Picked, Weighs
  <2>2. /\ Total(w, s) = w[x] + Total(w, r)
        /\ Total(u, s) = u[x] + Total(u, r)
        /\ Total(v, s) = v[x] + Total(v, r)
    BY <1>3, <1>5, TotalTakesPicked
  <2> HIDE DEF x
  <2>3. Total(w, r) = Total(u, r) + Total(v, r)
    BY <1>2, <1>3, <2>1
  <2>4. r \in SUBSET S
    BY <1>3
  <2> HIDE DEF r
  <2>5. Total(u, r) \in Int /\ Total(v, r) \in Int
    BY <2>4, WeighsParts, TotalIsInt
  <2>6. Total(w, s) = Total(u, s) + Total(v, s)
    BY <2>1, <2>2, <2>3, <2>5
  <2> QED BY <2>6
<1> QED BY <1>4, <1>5

\* The same weights give the same sum.
LEMMA TotalSame ==
  ASSUME NEW u, NEW w, NEW S, IsFiniteSet(S), \A x \in S : w[x] = u[x]
  PROVE  Total(w, S) = Total(u, S)
<1> DEFINE Bad == {s \in SUBSET S : Total(w, s) # Total(u, s)}
<1>1. SUFFICES ASSUME Bad # {} PROVE FALSE
  BY DEF Bad
<1>2. PICK s \in Bad : \A x \in s : s \ {x} \notin Bad
  <2>1. Bad \in SUBSET (SUBSET S)
    OBVIOUS
  <2> HIDE DEF Bad
  <2> QED BY <1>1, <2>1, SmallestSet
<1>3. IsFiniteSet(s) /\ s \in SUBSET S
  BY FS_Subset
<1>4. CASE s = {}
  <2>1. Total(w, s) = 0 /\ Total(u, s) = 0
    BY <1>3, <1>4, TotalTakesPicked
  <2> QED BY <2>1
<1>5. CASE s # {}
  <2> DEFINE x == Picked(s)
  <2>1. x \in s /\ w[x] = u[x]
    BY <1>3, <1>5 DEF Picked
  <2>2. Total(w, s) = w[x] + Total(w, s \ {x}) /\ Total(u, s) = u[x] + Total(u, s \ {x})
    BY <1>3, <1>5, TotalTakesPicked
  <2> HIDE DEF x
  <2>3. Total(w, s \ {x}) = Total(u, s \ {x})
    BY <1>2, <1>3, <2>1
  <2> QED BY <2>1, <2>2, <2>3
<1> QED BY <1>4, <1>5

\* The sum over two disjoint sets is the sum of their sums.
LEMMA TotalOfParts ==
  ASSUME NEW w, NEW S, NEW T, Weighs(w, S \cup T), S \cap T = {}
  PROVE  Total(w, S \cup T) = Total(w, S) + Total(w, T)
<1> DEFINE Bad == {s \in SUBSET S : Total(w, s \cup T) # Total(w, s) + Total(w, T)}
<1>0. Weighs(w, S) /\ Weighs(w, T)
  BY WeighsParts
<1>1. SUFFICES ASSUME Bad # {} PROVE FALSE
  BY DEF Bad
<1>2. PICK s \in Bad : \A x \in s : s \ {x} \notin Bad
  <2>1. Bad \in SUBSET (SUBSET S)
    OBVIOUS
  <2> HIDE DEF Bad
  <2> QED BY <1>0, <1>1, <2>1, SmallestSet DEF Weighs
<1>3. s \in SUBSET S /\ Weighs(w, s) /\ Weighs(w, s \cup T)
  BY <1>0, WeighsParts
<1>4. Total(w, T) \in Int
  BY <1>0, TotalIsInt
<1>5. CASE s = {}
  <2>1. Total(w, s) = 0 /\ s \cup T = T
    BY <1>3, <1>5, TotalTakesPicked DEF Weighs
  <2> QED BY <1>4, <2>1
<1>6. CASE s # {}
  <2>1. PICK x \in s : TRUE
    BY <1>6
  <2> DEFINE r == s \ {x}
  <2>2. Total(w, s) = w[x] + Total(w, r)
    BY <1>3, TotalTakes
  <2>3. Total(w, s \cup T) = w[x] + Total(w, r \cup T)
    <3>1. Total(w, s \cup T) = w[x] + Total(w, (s \cup T) \ {x})
      BY <1>3, TotalTakes
    <3>2. (s \cup T) \ {x} = r \cup T
      BY <1>3
    <3> QED BY <3>1, <3>2
  <2>4. Total(w, r \cup T) = Total(w, r) + Total(w, T)
    BY <1>2, <1>3
  <2>5. w[x] \in Int /\ r \in SUBSET s
    BY <1>3 DEF Weighs
  <2> HIDE DEF r
  <2>6. Total(w, r) \in Int
    BY <1>3, <2>5, WeighsParts, TotalIsInt
  <2>7. Total(w, s \cup T) = Total(w, s) + Total(w, T)
    BY <1>4, <2>2, <2>3, <2>4, <2>5, <2>6
  <2> QED BY <2>7
<1> QED BY <1>5, <1>6

\* Weights of at least 0 have sums of at least 0, and bounds on the weights
\* bound the sum.
LEMMA TotalGrows ==
  ASSUME NEW u, NEW w, NEW S, Weighs(u, S), Weighs(w, S), \A x \in S : u[x] <= w[x]
  PROVE  Total(u, S) <= Total(w, S)
<1> DEFINE Bad == {s \in SUBSET S : ~(Total(u, s) <= Total(w, s))}
<1>1. SUFFICES ASSUME Bad # {} PROVE FALSE
  BY DEF Bad
<1>2. PICK s \in Bad : \A x \in s : s \ {x} \notin Bad
  <2>1. Bad \in SUBSET (SUBSET S)
    OBVIOUS
  <2> HIDE DEF Bad
  <2> QED BY <1>1, <2>1, SmallestSet DEF Weighs
<1>3. IsFiniteSet(s) /\ s \in SUBSET S
  BY FS_Subset DEF Weighs
<1>4. CASE s = {}
  <2>1. Total(w, s) = 0 /\ Total(u, s) = 0
    BY <1>3, <1>4, TotalTakesPicked
  <2> QED BY <2>1
<1>5. CASE s # {}
  <2> DEFINE x == Picked(s)
             r == s \ {x}
  <2>1. x \in s /\ u[x] \in Int /\ w[x] \in Int /\ u[x] <= w[x]
    BY <1>3, <1>5 DEF Picked, Weighs
  <2>2. Total(w, s) = w[x] + Total(w, r) /\ Total(u, s) = u[x] + Total(u, r)
    BY <1>3, <1>5, TotalTakesPicked
  <2> HIDE DEF x
  <2>3. Total(u, r) <= Total(w, r)
    BY <1>2, <1>3, <2>1
  <2>4. r \in SUBSET S
    BY <1>3
  <2> HIDE DEF r
  <2>5. Total(u, r) \in Int /\ Total(w, r) \in Int
    BY <2>4, WeighsParts, TotalIsInt
  <2>6. Total(u, s) <= Total(w, s)
    BY <2>1, <2>2, <2>3, <2>5
  <2> QED BY <2>6
<1> QED BY <1>4, <1>5

\* The sum of a constant weight.
LEMMA TotalOfConstant ==
  ASSUME NEW c \in Int, NEW w, NEW S, IsFiniteSet(S), \A x \in S : w[x] = c
  PROVE  Total(w, S) = c * Cardinality(S)
<1> DEFINE Bad == {s \in SUBSET S : Total(w, s) # c * Cardinality(s)}
<1>1. SUFFICES ASSUME Bad # {} PROVE FALSE
  BY DEF Bad
<1>2. PICK s \in Bad : \A x \in s : s \ {x} \notin Bad
  <2>1. Bad \in SUBSET (SUBSET S)
    OBVIOUS
  <2> HIDE DEF Bad
  <2> QED BY <1>1, <2>1, SmallestSet
<1>3. IsFiniteSet(s) /\ s \in SUBSET S
  BY FS_Subset
<1>4. CASE s = {}
  <2>1. Total(w, s) = 0 /\ Cardinality(s) = 0
    BY <1>3, <1>4, TotalTakesPicked, FS_EmptySet
  <2> QED BY <2>1
<1>5. CASE s # {}
  <2> DEFINE x == Picked(s)
             r == s \ {x}
             n == Cardinality(r)
  <2>1. x \in s /\ w[x] = c
    BY <1>3, <1>5 DEF Picked
  <2>2. Total(w, s) = w[x] + Total(w, r)
    BY <1>3, <1>5, TotalTakesPicked
  <2> HIDE DEF x
  <2>3. Total(w, r) = c * n
    BY <1>2, <1>3, <2>1
  <2>4. Cardinality(s) = n + 1 /\ n \in Nat
    <3>1. Cardinality(r) = Cardinality(s) - 1 /\ IsFiniteSet(r) /\ Cardinality(s) \in Nat
      BY <1>3, <2>1, FS_RemoveElement, FS_CardinalityType
    <3>2. Cardinality(r) \in Nat
      BY <3>1, FS_CardinalityType
    <3> HIDE DEF r
    <3> QED BY <3>1, <3>2
  <2> HIDE DEF r, n
  <2>5. c + c * n = c * (n + 1)
    BY <2>4
  <2>6. Total(w, s) = c * Cardinality(s)
    BY <2>1, <2>2, <2>3, <2>4, <2>5
  <2> QED BY <2>6
<1> QED BY <1>4, <1>5

\* A factor of all the weights is one of the sum.
LEMMA TotalScales ==
  ASSUME NEW c \in Int, NEW u, NEW w, NEW S, Weighs(u, S), \A x \in S : w[x] = c * u[x]
  PROVE  Total(w, S) = c * Total(u, S)
<1> DEFINE Bad == {s \in SUBSET S : Total(w, s) # c * Total(u, s)}
<1>1. SUFFICES ASSUME Bad # {} PROVE FALSE
  BY DEF Bad
<1>2. PICK s \in Bad : \A x \in s : s \ {x} \notin Bad
  <2>1. Bad \in SUBSET (SUBSET S)
    OBVIOUS
  <2> HIDE DEF Bad
  <2> QED BY <1>1, <2>1, SmallestSet DEF Weighs
<1>3. IsFiniteSet(s) /\ s \in SUBSET S
  BY FS_Subset DEF Weighs
<1>4. CASE s = {}
  <2>1. Total(w, s) = 0 /\ Total(u, s) = 0
    BY <1>3, <1>4, TotalTakesPicked
  <2> QED BY <2>1
<1>5. CASE s # {}
  <2> DEFINE x == Picked(s)
             r == s \ {x}
  <2>1. x \in s /\ u[x] \in Int /\ w[x] = c * u[x]
    BY <1>3, <1>5 DEF Picked, Weighs
  <2>2. Total(w, s) = w[x] + Total(w, r) /\ Total(u, s) = u[x] + Total(u, r)
    BY <1>3, <1>5, TotalTakesPicked
  <2> HIDE DEF x
  <2>3. Total(w, r) = c * Total(u, r)
    BY <1>2, <1>3, <2>1
  <2>4. r \in SUBSET S
    BY <1>3
  <2> HIDE DEF r
  <2>5. Total(u, r) \in Int
    BY <2>4, WeighsParts, TotalIsInt
  <2> DEFINE a == u[x]
             z == Total(u, r)
  <2> HIDE DEF a, z
  <2>6. c * (a + z) = c * a + c * z
    BY <2>1, <2>5 DEF a, z
  <2>7. Total(w, s) = c * Total(u, s)
    BY <2>1, <2>2, <2>3, <2>6 DEF a, z
  <2> QED BY <2>7
<1> QED BY <1>4, <1>5

-----------------------------------------------------------------------------
(* The deltas *)

\* What a pair of places p adds to the numerator of the first.
Contribution(ratings, outcome, p) ==
  PairNumerator(ratings, outcome[p[1]], outcome[p[2]])

\* What the pairs in S contribute, as compute_deltas adds it up.
PairSum(ratings, outcome, S) ==
  MapThenSumSet(LAMBDA p : Contribution(ratings, outcome, p), S)

LEMMA PairSumIsTotal ==
  ASSUME NEW ratings, NEW outcome, NEW S, IsFiniteSet(S), NEW w,
         \A p \in S : w[p] = Contribution(ratings, outcome, p)
  PROVE  PairSum(ratings, outcome, S) = Total(w, S)
<1> DEFINE Step(f, s) == IF s = {} THEN 0
                         ELSE Contribution(ratings, outcome, CHOOSE p \in s : TRUE)
                              + f[s \ {CHOOSE p \in s : TRUE}]
           iter == CHOOSE f : f = [s \in SUBSET S |-> Step(f, s)]
<1>1. PairSum(ratings, outcome, S) = iter[S]
  BY Zenon DEF PairSum, MapThenSumSet, MapThenFoldSet
<1>2. ASSUME NEW f, NEW s \in SUBSET S PROVE Step(f, s) = SumStep(f, w, s)
  <2>1. CASE s = {}
    BY <2>1 DEF SumStep
  <2>2. CASE s # {}
    <3>1. Picked(s) \in S
      BY <2>2 DEF Picked
    <3>2. Contribution(ratings, outcome, Picked(s)) = w[Picked(s)]
      BY <3>1
    <3> QED BY <2>2, <3>2 DEF SumStep, Picked
  <2> QED BY <2>1, <2>2
<1> HIDE DEF Step
<1>3. \A f : [s \in SUBSET S |-> Step(f, s)] = [s \in SUBSET S |-> SumStep(f, w, s)]
  BY <1>2
<1>4. \E f : f = [s \in SUBSET S |-> Step(f, s)]
  <2>1. PICK f : Sums(f, w, SUBSET S)
    BY SumsExist
  <2>2. f = [s \in SUBSET S |-> Step(f, s)]
    BY <1>3, <2>1 DEF Sums
  <2> QED BY <2>2
<1>5. iter = [s \in SUBSET S |-> Step(iter, s)]
  BY <1>4, Zenon
<1> HIDE DEF iter
<1>6. SumsUpTo(iter, w, S)
  BY <1>3, <1>5 DEF SumsUpTo, Sums
<1>7. PICK g : SumsUpTo(g, w, S) /\ Total(w, S) = g[S]
  BY TotalUnfolds DEF SumsUpTo
<1>8. iter[S] = g[S]
  BY <1>6, <1>7, SumsAgree
<1> QED BY <1>1, <1>7, <1>8

\* A pair is worth an integer, and so is a set of pairs.
LEMMA PairSumIsInt ==
  ASSUME NEW ratings, NEW outcome, NEW S, IsFiniteSet(S),
         \A p \in S : Contribution(ratings, outcome, p) \in Int
  PROVE  PairSum(ratings, outcome, S) \in Int
<1> DEFINE w == [p \in S |-> Contribution(ratings, outcome, p)]
<1>1. Weighs(w, S) /\ \A p \in S : w[p] = Contribution(ratings, outcome, p)
  BY DEF Weighs
<1> HIDE DEF w
<1> QED BY <1>1, PairSumIsTotal, TotalIsInt

LEMMA PairSumOfOne ==
  ASSUME NEW ratings, NEW outcome, NEW p, Contribution(ratings, outcome, p) \in Int
  PROVE  PairSum(ratings, outcome, {p}) = Contribution(ratings, outcome, p)
<1> DEFINE w == [q \in {p} |-> Contribution(ratings, outcome, q)]
<1>1. /\ Weighs(w, {p}) /\ w[p] = Contribution(ratings, outcome, p)
      /\ \A q \in {p} : w[q] = Contribution(ratings, outcome, q)
  BY FS_Singleton DEF Weighs
<1> HIDE DEF w
<1>2. Total(w, {p}) = w[p] + Total(w, {p} \ {p})
  BY <1>1, TotalTakes
<1>3. {p} \ {p} = {} /\ Total(w, {}) = 0
  BY FS_EmptySet, TotalTakesPicked
<1>4. PairSum(ratings, outcome, {p}) = Total(w, {p})
  <2> DEFINE S == {p}
  <2>1. IsFiniteSet(S) /\ \A q \in S : w[q] = Contribution(ratings, outcome, q)
    BY <1>1, FS_Singleton
  <2> HIDE DEF S
  <2>2. PairSum(ratings, outcome, S) = Total(w, S)
    BY <2>1, PairSumIsTotal
  <2> QED BY <2>2 DEF S
<1> DEFINE c == Contribution(ratings, outcome, p)
           sum == PairSum(ratings, outcome, {p})
           one == Total(w, {p})
           none == Total(w, {p} \ {p})
<1>5. c \in Int /\ sum = one /\ one = w[p] + none /\ none = 0 /\ w[p] = c
  BY <1>1, <1>2, <1>3, <1>4
<1> HIDE DEF c, sum, one, none
<1>6. sum = c
  BY <1>5
<1> QED BY <1>6 DEF c, sum

\* The pairs of places that compute_deltas compares identity i in.
PairsOf(outcome, i) ==
  {p \in (1..Len(outcome)) \X (1..Len(outcome)) : p[1] # p[2] /\ outcome[p[1]].identity = i}

\* What the sum of an identity's pairs is divided by.
Share(outcome) == 1000 * (Len(outcome) - 1)

\* compute_deltas, with its sums named.
LEMMA DeltasAre ==
  ASSUME NEW ratings, NEW outcome, NEW i \in OutcomeIdentities(outcome)
  PROVE  EloDeltas(ratings, outcome)[i] =
           RoundHalfAwayFromZero(PairSum(ratings, outcome, PairsOf(outcome, i)), Share(outcome))
  BY Zenon DEF EloDeltas, PairSum, PairsOf, Contribution, Share

\* _round_half_away_from_zero gives integers.
LEMMA RoundedIsInt ==
  ASSUME NEW a \in Int, NEW b \in Nat \ {0}
  PROVE  RoundHalfAwayFromZero(a, b) \in Int
  BY DEF RoundHalfAwayFromZero

\* So does _pair_numerator, for integer ratings and scores.
LEMMA ContributionIsInt ==
  ASSUME NEW Id, NEW ratings \in [Id -> Int], NEW outcome \in Seq([identity : Id, score : Int]),
         NEW p, p[1] \in DOMAIN outcome, p[2] \in DOMAIN outcome
  PROVE  Contribution(ratings, outcome, p) \in Int
<1> DEFINE mine == outcome[p[1]]
           theirs == outcome[p[2]]
           Entries == [identity : Id, score : Int]
           d == ratings[mine.identity] - ratings[theirs.identity]
<1>1. mine \in Entries /\ theirs \in Entries
  <2> HIDE DEF Entries
  <2>1. outcome \in Seq(Entries)
    BY DEF Entries
  <2> QED BY <2>1
<1>2. /\ mine.identity \in Id /\ theirs.identity \in Id
      /\ mine.score \in Int /\ theirs.score \in Int
  <2> HIDE DEF mine, theirs
  <2> QED BY <1>1
<1>3. d \in Int
  <2> HIDE DEF mine, theirs
  <2>1. ratings[mine.identity] \in Int /\ ratings[theirs.identity] \in Int
    BY <1>2
  <2> QED BY <2>1
<1>4. Contribution(ratings, outcome, p) =
        KFactor * (ActualMillipoints(mine.score, theirs.score) - ExpectedMillipoints(d))
  BY DEF Contribution, PairNumerator
<1> HIDE DEF mine, theirs, d
<1>5. ExpectedMillipoints(d) \in 91..909
  BY <1>3, ExpectationRises
<1>6. ActualMillipoints(mine.score, theirs.score) \in Int
  BY <1>2 DEF ActualMillipoints
<1>7. \A a, e \in Int : KFactor * (a - e) \in Int
  BY DEF KFactor
<1>8. ExpectedMillipoints(d) \in Int
  <2>1. \A e \in 91..909 : e \in Int
    OBVIOUS
  <2> QED BY <1>5, <2>1, Zenon
<1> QED BY <1>4, <1>6, <1>7, <1>8

\* compute_deltas of IntegerEloRatingSystem gives every participant of an
\* outcome of two or more an integer delta, whatever the integer ratings and
\* scores.
THEOREM EloGivesIntegers ==
  ASSUME NEW Id, NEW ratings \in [Id -> Int], NEW outcome \in Seq([identity : Id, score : Int]),
         Len(outcome) >= 2, NEW k \in DOMAIN outcome
  PROVE  EloDeltas(ratings, outcome)[outcome[k].identity] \in Int
<1> DEFINE i == outcome[k].identity
           P == PairsOf(outcome, i)
<1>1. i \in OutcomeIdentities(outcome)
  BY DEF OutcomeIdentities
<1>2. DOMAIN outcome = 1..Len(outcome) /\ Len(outcome) \in Nat
  OBVIOUS
<1>3. IsFiniteSet(P)
  <2> DEFINE N == 1..Len(outcome)
  <2>1. IsFiniteSet(N)
    BY <1>2, FS_Interval
  <2> HIDE DEF N
  <2>2. IsFiniteSet(N \X N)
    BY <2>1, FS_Product, Zenon
  <2>3. P \subseteq N \X N
    BY Zenon DEF PairsOf, N
  <2> QED BY <2>2, <2>3, FS_Subset, Zenon
<1>4. \A p \in P : p[1] \in DOMAIN outcome /\ p[2] \in DOMAIN outcome
  BY <1>2 DEF PairsOf
<1>5. \A p \in P : Contribution(ratings, outcome, p) \in Int
  BY <1>4, ContributionIsInt
<1>6. PairSum(ratings, outcome, P) \in Int
  BY <1>3, <1>5, PairSumIsInt
<1>7. Share(outcome) \in Nat \ {0}
  BY <1>2 DEF Share
<1>8. RoundHalfAwayFromZero(PairSum(ratings, outcome, P), Share(outcome)) \in Int
  BY <1>6, <1>7, RoundedIsInt
<1> QED BY <1>1, <1>8, DeltasAre

-----------------------------------------------------------------------------
(* Duels *)

\* The lower-rated side is expected to score at most half, the other at least.
LEMMA SidesOfEven ==
  ASSUME NEW d \in Int
  PROVE  /\ d <= 0 => ExpectedMillipoints(d) <= 500
         /\ d >= 0 => ExpectedMillipoints(d) >= 500
<1> DEFINE s == Clamped(d) + 400
           k == (s \div 25) + 1
           r == s % 25
<1>1. s \in 0..800 /\ (d <= 0 => s <= 400) /\ (d >= 0 => s >= 400)
  BY ClampedOK
<1>2. k \in 1..33 /\ r \in 0..24 /\ s = 25 * (k - 1) + r
  <2> HIDE DEF s
  <2> QED BY <1>1, Division
<1>3. ExpectedMillipoints(d) = Interpolated(k, r)
  BY ExpectationAt
<1>4. /\ \A j \in 1..16 : ExpectedScoreTable[j + 1] <= 500
      /\ \A j \in 17..33 : ExpectedScoreTable[j] >= 500
      /\ \A j \in 1..33 : ExpectedScoreTable[j] \in Int
  BY DEF ExpectedScoreTable
<1>5. Interpolated(17, 0) = 500 /\ Interpolated(33, 0) = 909
  BY DEF Interpolated, ExpectedScoreTable
<1> HIDE DEF s, k, r
<1>6. ASSUME d <= 0 PROVE ExpectedMillipoints(d) <= 500
  <2>1. CASE k \in 1..16
    <3>0. k \in 1..32
      BY <2>1
    <3>1. Interpolated(k, r) \in 91..909
      BY <1>2, <3>0, InterpolationRises
    <3>4. Interpolated(k, r) <= ExpectedScoreTable[k + 1]
      BY <1>2, <3>0, InterpolationRises
    <3>2. ExpectedScoreTable[k + 1] <= 500 /\ k + 1 \in 1..33
      BY <1>4, <2>1
    <3>3. ExpectedScoreTable[k + 1] \in Int
      BY <1>4, <3>2
    <3> QED BY <1>3, <3>1, <3>2, <3>3, <3>4
  <2>2. CASE k \in 17..33
    <3>1. k = 17 /\ r = 0
      BY <1>1, <1>2, <1>6, <2>2
    <3> QED BY <1>3, <1>5, <3>1
  <2> QED BY <1>2, <2>1, <2>2
<1>7. ASSUME d >= 0 PROVE ExpectedMillipoints(d) >= 500
  <2>1. CASE k \in 17..32
    <3>0. k \in 1..32
      BY <2>1
    <3>1. Interpolated(k, r) \in 91..909
      BY <1>2, <3>0, InterpolationRises
    <3>4. Interpolated(k, r) >= ExpectedScoreTable[k]
      BY <1>2, <3>0, InterpolationRises
    <3>2. ExpectedScoreTable[k] >= 500 /\ ExpectedScoreTable[k] \in Int
      BY <1>4, <2>1
    <3> QED BY <1>3, <3>1, <3>2, <3>4
  <2>2. CASE k = 33
    <3>1. r = 0
      BY <1>1, <1>2, <2>2
    <3> QED BY <1>3, <1>5, <2>2, <3>1
  <2>3. k >= 17
    BY <1>1, <1>2, <1>7
  <2> QED BY <1>2, <2>1, <2>2, <2>3
<1> QED BY <1>6, <1>7

\* The ratings and the outcome of a duel at difference d, for hard scores x and y.
Duelists(d) ==
  [p \in {"first", "second"} |-> IF p = "first" THEN EloInitialRating + d ELSE EloInitialRating]

DuelOutcome(x, y) ==
  << [identity |-> "first", score |-> x], [identity |-> "second", score |-> y] >>

\* What whoever has a single pair to compare in takes.
LEMMA OnePairPays ==
  ASSUME NEW ratings, NEW outcome, NEW i \in OutcomeIdentities(outcome), NEW p,
         PairsOf(outcome, i) = {p}, Contribution(ratings, outcome, p) \in Int
  PROVE  EloDeltas(ratings, outcome)[i] =
           RoundHalfAwayFromZero(Contribution(ratings, outcome, p), Share(outcome))
<1>1. PairSum(ratings, outcome, {p}) = Contribution(ratings, outcome, p)
  BY PairSumOfOne
<1> QED BY <1>1, DeltasAre

\* What a duellist takes who was expected to score e millipoints.
Takes(actual, e) == RoundHalfAwayFromZero(32 * (actual - e), 1000)

\* What the two sides of a duel take.
LEMMA DuelPays ==
  ASSUME NEW d \in Int, NEW x \in Int, NEW y \in Int
  PROVE  /\ EloDeltas(Duelists(d), DuelOutcome(x, y))["first"] =
              Takes(ActualMillipoints(x, y), ExpectedMillipoints(d))
         /\ EloDeltas(Duelists(d), DuelOutcome(x, y))["second"] =
              Takes(ActualMillipoints(y, x), ExpectedMillipoints(-d))
<1> DEFINE ratings == Duelists(d)
           outcome == DuelOutcome(x, y)
           one == <<1, 2>>
           two == <<2, 1>>
<1>1. /\ Len(outcome) = 2 /\ DOMAIN outcome = 1..2
      /\ outcome[1].identity = "first" /\ outcome[1].score = x
      /\ outcome[2].identity = "second" /\ outcome[2].score = y
  BY DEF DuelOutcome
<1>2. ratings["first"] = 1500 + d /\ ratings["second"] = 1500
  BY DEF Duelists, EloInitialRating
<1> HIDE DEF ratings, outcome
<1>3. "first" \in OutcomeIdentities(outcome) /\ "second" \in OutcomeIdentities(outcome)
  <2>1. 1 \in DOMAIN outcome /\ 2 \in DOMAIN outcome
    BY <1>1
  <2> QED BY <1>1, <2>1 DEF OutcomeIdentities
<1>4. PairsOf(outcome, "first") = {one} /\ PairsOf(outcome, "second") = {two}
  <2>1. ASSUME NEW p \in (1..2) \X (1..2)
        PROVE  /\ p[1] # p[2] /\ outcome[p[1]].identity = "first" <=> p = one
               /\ p[1] # p[2] /\ outcome[p[1]].identity = "second" <=> p = two
    <3>1. p = <<p[1], p[2]>> /\ p[1] \in {1, 2} /\ p[2] \in {1, 2}
      OBVIOUS
    <3>2. outcome[1].identity = "first" /\ outcome[2].identity = "second" /\ "first" # "second"
      BY <1>1
    <3> QED BY <3>1, <3>2
  <2>2. one \in (1..2) \X (1..2) /\ two \in (1..2) \X (1..2)
    OBVIOUS
  <2>3. \A i : PairsOf(outcome, i) = {p \in (1..2) \X (1..2) : p[1] # p[2] /\ outcome[p[1]].identity = i}
    BY <1>1 DEF PairsOf
  <2> HIDE DEF one, two
  <2> QED BY <2>1, <2>2, <2>3
<1> DEFINE first == 32 * (ActualMillipoints(x, y) - ExpectedMillipoints(d))
           second == 32 * (ActualMillipoints(y, x) - ExpectedMillipoints(-d))
<1>5. Contribution(ratings, outcome, one) = first /\ Contribution(ratings, outcome, two) = second
  <2>1. (1500 + d) - 1500 = d /\ 1500 - (1500 + d) = -d
    OBVIOUS
  <2>2. one[1] = 1 /\ one[2] = 2 /\ two[1] = 2 /\ two[2] = 1
    OBVIOUS
  <2> HIDE DEF one, two
  <2> QED BY <1>1, <1>2, <2>1, <2>2 DEF Contribution, PairNumerator, KFactor
<1>6. first \in Int /\ second \in Int
  <2> DEFINE a == ActualMillipoints(x, y)
             b == ActualMillipoints(y, x)
             e == ExpectedMillipoints(d)
             f == ExpectedMillipoints(-d)
  <2>1. e \in 91..909 /\ f \in 91..909
    BY ExpectationRises
  <2>2. a \in Int /\ b \in Int
    BY DEF ActualMillipoints
  <2> HIDE DEF a, b, e, f
  <2>3. 32 * (a - e) \in Int /\ 32 * (b - f) \in Int
    BY <2>1, <2>2
  <2> QED BY <2>3 DEF a, b, e, f
<1> HIDE DEF one, two, first, second
<1>7. Share(outcome) = 1000
  BY <1>1 DEF Share
<1>8. /\ EloDeltas(ratings, outcome)["first"] = RoundHalfAwayFromZero(first, 1000)
      /\ EloDeltas(ratings, outcome)["second"] = RoundHalfAwayFromZero(second, 1000)
  BY <1>3, <1>4, <1>5, <1>6, <1>7, OnePairPays
<1> QED BY <1>8 DEF ratings, outcome, first, second, Takes

\* What the sides of a duel take that are expected to score e and f.
FairlyPaid(e, f) ==
  /\ Takes(1000, e) \in 3..29 /\ Takes(0, e) \in -29..-3
  /\ e <= 500 => Takes(500, e) >= 0
  /\ f >= 500 => Takes(500, f) <= 0
  /\ e <= f => Takes(1000, e) >= Takes(1000, f)

\* A win pays, a loss costs, and a draw never costs who was expected to score
\* less than half.
LEMMA Taken ==
  ASSUME NEW e \in 91..909, NEW f \in 91..909
  PROVE  FairlyPaid(e, f)
<1>1. Takes(1000, e) \in 3..29 /\ Takes(0, e) \in -29..-3
  BY DEF Takes, RoundHalfAwayFromZero
<1>2. (e <= 500 => Takes(500, e) >= 0) /\ (f >= 500 => Takes(500, f) <= 0)
  BY DEF Takes, RoundHalfAwayFromZero
<1>3. ASSUME e <= f PROVE Takes(1000, e) >= Takes(1000, f)
  BY <1>3 DEF Takes, RoundHalfAwayFromZero
<1> QED BY <1>1, <1>2, <1>3 DEF FairlyPaid

-----------------------------------------------------------------------------
(* Drift: what a match adds to the total of all ratings *)

\* The anchor k of the table and the one as far from its other end.
Mirrors(k) ==
  /\ ExpectedScoreTable[k] \in 91..909
  /\ ExpectedScoreTable[34 - k] = 1000 - ExpectedScoreTable[k]

\* The table is symmetric.
LEMMA TableMirrors ==
  ASSUME NEW k \in 1..33
  PROVE  Mirrors(k)
  BY DEF Mirrors, ExpectedScoreTable

\* What both sides of an interpolation lose to the floor is less than a point.
LEMMA InterpolationMirrors ==
  ASSUME NEW k \in 1..32, NEW r \in 1..24
  PROVE  Interpolated(k, r) + Interpolated(33 - k, 25 - r) \in 999..1000
<1> DEFINE low == ExpectedScoreTable[k]
           high == ExpectedScoreTable[k + 1]
           gap == high - low
<1>1. low \in 91..909 /\ high \in 91..909
  <2>1. k \in 1..33 /\ k + 1 \in 1..33
    OBVIOUS
  <2>2. Mirrors(k) /\ Mirrors(k + 1)
    BY <2>1, TableMirrors
  <2> QED BY <2>2 DEF Mirrors
<1>2. ExpectedScoreTable[33 - k] = 1000 - high /\ ExpectedScoreTable[(33 - k) + 1] = 1000 - low
  <2>1. k + 1 \in 1..33 /\ 34 - (k + 1) = 33 - k /\ (33 - k) + 1 = 34 - k
    OBVIOUS
  <2>2. Mirrors(k) /\ Mirrors(k + 1)
    BY <2>1, TableMirrors
  <2> QED BY <2>1, <2>2 DEF Mirrors
<1>3. Interpolated(k, r) = low + (gap * r) \div 25
  BY DEF Interpolated, AnchorStep
<1>4. Interpolated(33 - k, 25 - r) = (1000 - high) + (gap * (25 - r)) \div 25
  <2>1. 25 - r # 0 /\ (1000 - low) - (1000 - high) = gap
    <3> HIDE DEF low, high
    <3> QED BY <1>1
  <2> HIDE DEF low, high, gap
  <2> QED BY <1>2, <2>1 DEF Interpolated, AnchorStep
<1>5. gap \in Int /\ low \in Int /\ high \in Int /\ high = low + gap
  <2> HIDE DEF low, high
  <2> QED BY <1>1
<1> DEFINE x == gap * r
<1>6. x \in Int /\ gap * (25 - r) = 25 * gap - x
  <2> HIDE DEF gap
  <2> QED BY <1>5
<1> HIDE DEF x
<1>7. (x \div 25) + ((25 * gap - x) \div 25) \in (gap - 1)..gap
  <2> HIDE DEF gap
  <2> QED BY <1>5, <1>6
<1>8. Interpolated(k, r) + Interpolated(33 - k, 25 - r)
        = (1000 - gap) + ((x \div 25) + ((25 * gap - x) \div 25))
  <2>1. (x \div 25) \in Int /\ ((25 * gap - x) \div 25) \in Int
    <3> HIDE DEF gap
    <3> QED BY <1>5, <1>6
  <2> HIDE DEF low, high, gap
  <2> QED BY <1>3, <1>4, <1>5, <1>6, <2>1 DEF x
<1> HIDE DEF gap
<1> QED BY <1>5, <1>7, <1>8

\* The two sides of a pair expect a point between them, or a thousandth less.
LEMMA ExpectationsMirror ==
  ASSUME NEW d \in Int
  PROVE  ExpectedMillipoints(d) + ExpectedMillipoints(-d) \in 999..1000
<1> DEFINE s == Clamped(d) + 400
           k == (s \div 25) + 1
           r == s % 25
<1>1. s \in 0..800 /\ Clamped(-d) + 400 = 800 - s
  BY DEF Clamped, AnchorMax
<1>2. ExpectedMillipoints(d) = Interpolated(k, r)
  BY ExpectationAt
<1>3. ExpectedMillipoints(-d) = Interpolated(((800 - s) \div 25) + 1, (800 - s) % 25)
  BY <1>1, ExpectationAt
<1>4. k \in 1..33 /\ r \in 0..24 /\ s = 25 * (k - 1) + r /\ (k = 33 => r = 0)
  <2> HIDE DEF s
  <2> QED BY <1>1, Division
<1> HIDE DEF k, r, s
<1>5. CASE r = 0
  <2>1. ((800 - s) \div 25) + 1 = 34 - k /\ (800 - s) % 25 = 0
    BY <1>1, <1>4, <1>5
  <2>2. ExpectedMillipoints(d) = ExpectedScoreTable[k]
        /\ ExpectedMillipoints(-d) = ExpectedScoreTable[34 - k]
    BY <1>2, <1>3, <1>5, <2>1 DEF Interpolated
  <2>3. ExpectedScoreTable[k] \in 91..909
        /\ ExpectedScoreTable[34 - k] = 1000 - ExpectedScoreTable[k]
    <3>1. Mirrors(k)
      BY <1>4, TableMirrors
    <3> QED BY <3>1 DEF Mirrors
  <2> DEFINE e == ExpectedScoreTable[k]
  <2> HIDE DEF e
  <2>4. e + (1000 - e) = 1000
    BY <2>3 DEF e
  <2> QED BY <2>2, <2>3, <2>4 DEF e
<1>6. CASE r # 0
  <2>1. ((800 - s) \div 25) + 1 = 33 - k /\ (800 - s) % 25 = 25 - r
    BY <1>1, <1>4, <1>6
  <2>2. k \in 1..32 /\ r \in 1..24
    BY <1>4, <1>6
  <2> QED BY <1>2, <1>3, <2>1, <2>2, InterpolationMirrors
<1> QED BY <1>5, <1>6

\* Rounding moves a quotient by at most half: d is the quotient of a by 1000 m.
Rounds(d, a, m) == (1000 * m) * d \in (a - 500 * m)..(a + 500 * m)

\* d is a divided by 1000 m the way compute_deltas divides.
Quotient(d, a, m) == d = RoundHalfAwayFromZero(a, 1000 * m)

LEMMA RoundsHalf ==
  ASSUME NEW a \in Int, NEW m \in Nat \ {0}, NEW d, Quotient(d, a, m)
  PROVE  d \in Int /\ Rounds(d, a, m)
<1> DEFINE b == 1000 * m
           half == 500 * m
           up == (a + half) \div b
           down == (-a + half) \div b
<1>1. b \in Nat \ {0} /\ half \in Nat /\ b \div 2 = half /\ b = half + half
  OBVIOUS
<1>2. d = IF a >= 0 THEN up ELSE -down
  BY <1>1 DEF RoundHalfAwayFromZero, Quotient
<1> HIDE DEF b, half
<1>3. CASE a >= 0
  <2>1. a + half \in Nat
    BY <1>1, <1>3
  <2>2. up \in Int /\ b * up <= a + half /\ a + half < b * up + b /\ b * up \in Int
    BY <1>1, <2>1
  <2> HIDE DEF up
  <2>3. b * up \in (a - half)..(a + half)
    BY <1>1, <2>2
  <2> QED BY <1>2, <1>3, <2>2, <2>3 DEF Rounds, b, half
<1>4. CASE a < 0
  <2>1. -a + half \in Nat
    BY <1>1, <1>4
  <2>2. down \in Int /\ b * down <= -a + half /\ -a + half < b * down + b /\ b * down \in Int
    BY <1>1, <2>1
  <2> HIDE DEF down
  <2>3. b * (-down) = -(b * down)
    BY <1>1, <2>2
  <2>4. b * (-down) \in (a - half)..(a + half)
    BY <1>1, <2>2, <2>3
  <2>5. ~(a >= 0) /\ -down \in Int
    BY <1>4, <2>2
  <2> QED BY <1>2, <2>4, <2>5 DEF Rounds, b, half
<1> QED BY <1>3, <1>4

-----------------------------------------------------------------------------
(* What a match adds up to *)

\* The pairs of places of an outcome, and those whose first place holds an
\* identity of I.
Pairs(outcome) ==
  {p \in (1..Len(outcome)) \X (1..Len(outcome)) : p[1] # p[2]}

PairsOfAll(outcome, I) == {p \in Pairs(outcome) : outcome[p[1]].identity \in I}

Swapped(p) == <<p[2], p[1]>>

\* The outcomes that integer ratings of Id rate.
RatesOutcome(Id, ratings, outcome) ==
  /\ ratings \in [Id -> Int]
  /\ outcome \in Seq([identity : Id, score : Int])
  /\ Len(outcome) >= 2

\* There are at most as many pairs as places times places, and as identities
\* as places.
LEMMA PairsFinite ==
  ASSUME NEW Id, NEW ratings, NEW outcome, RatesOutcome(Id, ratings, outcome)
  PROVE  /\ IsFiniteSet(Pairs(outcome))
         /\ Cardinality(Pairs(outcome)) \in 0..(Len(outcome) * Len(outcome))
         /\ IsFiniteSet(OutcomeIdentities(outcome))
         /\ Cardinality(OutcomeIdentities(outcome)) \in 0..Len(outcome)
<1> DEFINE n == Len(outcome)
           N == 1..n
<1>1. DOMAIN outcome = N /\ n \in Nat
  BY DEF RatesOutcome
<1>2. IsFiniteSet(N) /\ Cardinality(N) = n
  <2> HIDE DEF n
  <2>1. n \in Int /\ 1 \in Int /\ (IF 1 > n THEN 0 ELSE n - 1 + 1) = n
    BY <1>1
  <2> QED BY <2>1, FS_Interval
<1>3. IsFiniteSet(Pairs(outcome)) /\ Cardinality(Pairs(outcome)) \in 0..(n * n)
  <2> HIDE DEF N
  <2>1. IsFiniteSet(N \X N) /\ Cardinality(N \X N) = Cardinality(N) * Cardinality(N)
    BY <1>2, FS_Product, Zenon
  <2>2. Pairs(outcome) \subseteq N \X N
    BY Zenon DEF Pairs, N
  <2>3. IsFiniteSet(Pairs(outcome)) /\ Cardinality(Pairs(outcome)) <= Cardinality(N \X N)
    BY <2>1, <2>2, FS_Subset, Zenon
  <2>4. Cardinality(Pairs(outcome)) \in Nat
    BY <2>3, FS_CardinalityType
  <2>5. Cardinality(N \X N) = n * n
    BY <1>2, <2>1
  <2> HIDE DEF n
  <2> QED BY <1>1, <2>3, <2>4, <2>5
<1>4. /\ IsFiniteSet(OutcomeIdentities(outcome))
      /\ Cardinality(OutcomeIdentities(outcome)) \in 0..n
  <2> DEFINE first == [k \in N |-> outcome[k].identity]
             D == OutcomeIdentities(outcome)
  <2>1. first \in Surjection(N, D)
    BY <1>1 DEF OutcomeIdentities, Surjection
  <2>2. IsFiniteSet(D) /\ Cardinality(D) <= Cardinality(N)
    <3> HIDE DEF first, D, N
    <3> QED BY <1>2, <2>1, FS_Surjection
  <2>3. Cardinality(D) \in Nat
    BY <2>2, FS_CardinalityType
  <2> HIDE DEF D
  <2>4. Cardinality(D) \in 0..n
    BY <1>1, <1>2, <2>2, <2>3
  <2> QED BY <2>2, <2>4 DEF D
<1> QED BY <1>3, <1>4

\* Renaming the elements renames the weights.
LEMMA TotalRenamed ==
  ASSUME NEW S, IsFiniteSet(S), NEW f, \A x, y \in S : f[x] = f[y] => x = y,
         NEW w, Weighs(w, {f[x] : x \in S}), NEW v, \A x \in S : v[x] = w[f[x]]
  PROVE  Total(v, S) = Total(w, {f[x] : x \in S})
<1> DEFINE Img(s) == {f[x] : x \in s}
           Bad == {s \in SUBSET S : Total(v, s) # Total(w, Img(s))}
<1>1. SUFFICES ASSUME Bad # {} PROVE FALSE
  BY DEF Bad
<1>2. PICK s \in Bad : \A x \in s : s \ {x} \notin Bad
  <2>1. Bad \in SUBSET (SUBSET S)
    OBVIOUS
  <2> HIDE DEF Bad
  <2> QED BY <1>1, <2>1, SmallestSet
<1>3. IsFiniteSet(s) /\ s \in SUBSET S /\ Total(v, s) # Total(w, Img(s))
  BY FS_Subset
<1>4. CASE s = {}
  <2>1. Img(s) = {} /\ IsFiniteSet({})
    BY <1>4, FS_EmptySet
  <2> HIDE DEF Img
  <2>2. Total(v, s) = 0 /\ Total(w, Img(s)) = 0
    BY <1>4, <2>1, TotalTakesPicked
  <2> QED BY <1>3, <2>2
<1>5. CASE s # {}
  <2>1. PICK x \in s : TRUE
    BY <1>5
  <2>2. Total(v, s \ {x}) = Total(w, Img(s \ {x}))
    BY <1>2, <1>3
  <2>3. Img(s) \subseteq Img(S) /\ f[x] \in Img(s) /\ Img(s) \ {f[x]} = Img(s \ {x})
    BY <1>3
  <2>4. Weighs(w, Img(s))
    <3>1. Weighs(w, Img(S))
      OBVIOUS
    <3> HIDE DEF Img
    <3> QED BY <2>3, <3>1, WeighsParts
  <2>5. v[x] = w[f[x]] /\ x \in S
    BY <1>3
  <2>6. Weighs(v, s)
    <3>1. \A y \in s : f[y] \in Img(S) /\ v[y] = w[f[y]]
      BY <1>3
    <3>2. \A z \in Img(S) : w[z] \in Int
      BY DEF Weighs
    <3> HIDE DEF Img
    <3> QED BY <1>3, <3>1, <3>2 DEF Weighs
  <2> HIDE DEF Img
  <2>7. Total(v, s) = v[x] + Total(v, s \ {x})
    BY <2>6, TotalTakes
  <2>8. Total(w, Img(s)) = w[f[x]] + Total(w, Img(s) \ {f[x]})
    BY <2>3, <2>4, TotalTakes
  <2>9. Total(v, s) = Total(w, Img(s))
    BY <2>2, <2>3, <2>5, <2>7, <2>8
  <2> QED BY <1>3, <2>9
<1> QED BY <1>4, <1>5

\* What the two sides of a pair take together is what the floor loses.
LEMMA PairsBalance ==
  ASSUME NEW Id, NEW ratings, NEW outcome, RatesOutcome(Id, ratings, outcome),
         NEW p \in Pairs(outcome)
  PROVE  /\ Swapped(p) \in Pairs(outcome) /\ Swapped(Swapped(p)) = p
         /\ Contribution(ratings, outcome, p) \in Int
         /\ Contribution(ratings, outcome, Swapped(p)) \in Int
         /\ Contribution(ratings, outcome, p) + Contribution(ratings, outcome, Swapped(p)) \in 0..32
<1> DEFINE q == Swapped(p)
<1>1. DOMAIN outcome = 1..Len(outcome)
  BY DEF RatesOutcome
<1>2. /\ q \in Pairs(outcome) /\ Swapped(q) = p /\ q[1] = p[2] /\ q[2] = p[1]
      /\ p[1] \in DOMAIN outcome /\ p[2] \in DOMAIN outcome
  BY <1>1 DEF Pairs, Swapped
<1> HIDE DEF q
<1>3. Contribution(ratings, outcome, p) \in Int /\ Contribution(ratings, outcome, q) \in Int
  <2>1. ratings \in [Id -> Int] /\ outcome \in Seq([identity : Id, score : Int])
    BY DEF RatesOutcome
  <2> QED BY <1>2, <2>1, ContributionIsInt
<1> DEFINE mine == outcome[p[1]]
           theirs == outcome[p[2]]
           d == ratings[mine.identity] - ratings[theirs.identity]
           a == ActualMillipoints(mine.score, theirs.score)
           b == ActualMillipoints(theirs.score, mine.score)
           e == ExpectedMillipoints(d)
           f == ExpectedMillipoints(-d)
<1>4. mine \in [identity : Id, score : Int] /\ theirs \in [identity : Id, score : Int]
  <2> DEFINE Entries == [identity : Id, score : Int]
  <2>1. outcome \in Seq(Entries)
    BY DEF RatesOutcome
  <2> HIDE DEF Entries
  <2>2. mine \in Entries /\ theirs \in Entries
    BY <1>2, <2>1
  <2> QED BY <2>2 DEF Entries
<1>5. d \in Int /\ ratings[theirs.identity] - ratings[mine.identity] = -d
      /\ mine.score \in Int /\ theirs.score \in Int
  <2> HIDE DEF mine, theirs
  <2>1. ratings[mine.identity] \in Int /\ ratings[theirs.identity] \in Int
    BY <1>4 DEF RatesOutcome
  <2> QED BY <1>4, <2>1
<1>6. Contribution(ratings, outcome, p) = 32 * (a - e) /\ Contribution(ratings, outcome, q) = 32 * (b - f)
  BY <1>2, <1>5 DEF Contribution, PairNumerator, KFactor
<1> HIDE DEF d, mine, theirs
<1>7. e + f \in 999..1000 /\ e \in 91..909 /\ f \in 91..909
  <2>1. -d \in Int
    BY <1>5
  <2> QED BY <1>5, <2>1, ExpectationsMirror, ExpectationRises
<1>8. a + b = 1000 /\ a \in Int /\ b \in Int
  BY <1>5 DEF ActualMillipoints
<1> HIDE DEF a, b, e, f
<1>9. 32 * (a - e) + 32 * (b - f) \in 0..32
  BY <1>7, <1>8
<1> QED BY <1>2, <1>3, <1>6, <1>9 DEF q

\* So all pairs together take next to nothing.
LEMMA AllPairsBalance ==
  ASSUME NEW Id, NEW ratings, NEW outcome, RatesOutcome(Id, ratings, outcome),
         NEW c, \A p \in Pairs(outcome) : c[p] = Contribution(ratings, outcome, p)
  PROVE  /\ Weighs(c, Pairs(outcome))
         /\ Total(c, Pairs(outcome)) \in 0..(16 * (Len(outcome) * Len(outcome)))
<1> DEFINE P == Pairs(outcome)
           nn == Len(outcome) * Len(outcome)
           swap == [p \in P |-> Swapped(p)]
           v == [p \in P |-> c[Swapped(p)]]
           u == [p \in P |-> c[p] + v[p]]
           zero == [p \in P |-> 0]
           full == [p \in P |-> 32]
<1>1. IsFiniteSet(P) /\ Cardinality(P) \in 0..nn
  BY PairsFinite
<1>2. ASSUME NEW p \in P
      PROVE  /\ Swapped(p) \in P /\ Swapped(Swapped(p)) = p
             /\ c[p] \in Int /\ v[p] \in Int /\ u[p] \in 0..32
  <2>1. /\ Swapped(p) \in P /\ Swapped(Swapped(p)) = p
        /\ Contribution(ratings, outcome, p) \in Int
        /\ Contribution(ratings, outcome, Swapped(p)) \in Int
        /\ Contribution(ratings, outcome, p) + Contribution(ratings, outcome, Swapped(p)) \in 0..32
    BY PairsBalance
  <2>2. c[p] = Contribution(ratings, outcome, p)
        /\ v[p] = Contribution(ratings, outcome, Swapped(p))
    BY <2>1
  <2>3. u[p] = c[p] + v[p]
    OBVIOUS
  <2> HIDE DEF u, v
  <2> QED BY <2>1, <2>2, <2>3
<1>3. Weighs(c, P) /\ Weighs(v, P) /\ Weighs(u, P) /\ Weighs(zero, P) /\ Weighs(full, P)
  <2>1. \A p \in P : c[p] \in Int /\ v[p] \in Int /\ u[p] \in Int
    <3> HIDE DEF u, v
    <3> QED BY <1>2
  <2>2. \A p \in P : zero[p] \in Int /\ full[p] \in Int
    OBVIOUS
  <2> HIDE DEF u, v, zero, full, P
  <2> QED BY <1>1, <2>1, <2>2 DEF Weighs
<1>4. Total(v, P) = Total(c, P)
  <2>1. {swap[p] : p \in P} = P
    <3>1. \A p \in P : swap[p] \in P /\ swap[Swapped(p)] = p /\ Swapped(p) \in P
      BY <1>2
    <3> HIDE DEF swap, P
    <3> QED BY <3>1
  <2>2. \A p, q \in P : swap[p] = swap[q] => p = q
    <3>1. \A p \in P : Swapped(swap[p]) = p
      BY <1>2
    <3> HIDE DEF swap, P
    <3> QED BY <3>1
  <2>3. \A p \in P : v[p] = c[swap[p]]
    OBVIOUS
  <2> HIDE DEF swap, v, P
  <2>4. Weighs(c, {swap[p] : p \in P})
    BY <1>3, <2>1
  <2>5. Total(v, P) = Total(c, {swap[p] : p \in P})
    BY <1>1, <2>2, <2>3, <2>4, TotalRenamed
  <2> QED BY <2>1, <2>5
<1>5. Total(u, P) = Total(c, P) + Total(v, P)
  <2>1. \A p \in P : u[p] = c[p] + v[p]
    OBVIOUS
  <2> HIDE DEF u, v, P
  <2> QED BY <1>3, <2>1, TotalAdds
<1>6. Total(zero, P) <= Total(u, P) /\ Total(u, P) <= Total(full, P)
  <2>1. \A p \in P : zero[p] <= u[p] /\ u[p] <= full[p]
    <3>1. \A p \in P : zero[p] = 0 /\ full[p] = 32
      OBVIOUS
    <3> HIDE DEF u, v, zero, full, P
    <3> QED BY <1>2, <3>1
  <2> HIDE DEF u, v, zero, full, P
  <2> QED BY <1>3, <2>1, TotalGrows
<1>7. Total(zero, P) = 0 * Cardinality(P) /\ Total(full, P) = 32 * Cardinality(P)
  <2>1. \A p \in P : zero[p] = 0 /\ full[p] = 32
    OBVIOUS
  <2> HIDE DEF zero, full, P
  <2>2. 0 \in Int /\ 32 \in Int
    OBVIOUS
  <2> QED BY <1>1, <2>1, <2>2, TotalOfConstant
<1>8. Total(c, P) \in Int /\ Len(outcome) \in Nat /\ nn \in Nat
  <2>1. Total(c, P) \in Int
    <3> HIDE DEF P
    <3> QED BY <1>3, TotalIsInt
  <2>2. Len(outcome) \in Nat
    BY DEF RatesOutcome
  <2> QED BY <2>1, <2>2
<1> HIDE DEF P, u, v, zero, full, nn
<1>9. Total(c, P) \in 0..(16 * nn)
  BY <1>1, <1>4, <1>5, <1>6, <1>7, <1>8
<1> QED BY <1>3, <1>9 DEF P, nn

\* What the identities' numerators add up to is what all pairs do.
LEMMA NumeratorsAddUp ==
  ASSUME NEW outcome, NEW c, Weighs(c, Pairs(outcome)), IsFiniteSet(OutcomeIdentities(outcome)),
         DOMAIN outcome = 1..Len(outcome), NEW w,
         \A i \in OutcomeIdentities(outcome) : w[i] = Total(c, PairsOf(outcome, i))
  PROVE  /\ Weighs(w, OutcomeIdentities(outcome))
         /\ Total(w, OutcomeIdentities(outcome)) = Total(c, Pairs(outcome))
<1> DEFINE D == OutcomeIdentities(outcome)
           P(s) == PairsOfAll(outcome, s)
           Bad == {s \in SUBSET D : Total(w, s) # Total(c, P(s))}
<1>1. /\ P(D) = Pairs(outcome) /\ P({}) = {}
      /\ \A s : P(s) \in SUBSET Pairs(outcome)
      /\ \A i : PairsOf(outcome, i) \in SUBSET Pairs(outcome)
  BY DEF PairsOfAll, Pairs, PairsOf, OutcomeIdentities
<1>2. Weighs(w, D)
  <2>1. ASSUME NEW i \in D PROVE w[i] \in Int
    <3>1. Weighs(c, PairsOf(outcome, i))
      BY <1>1, WeighsParts
    <3>2. w[i] = Total(c, PairsOf(outcome, i))
      OBVIOUS
    <3> QED BY <3>1, <3>2, TotalIsInt
  <2> HIDE DEF D
  <2> QED BY <2>1 DEF Weighs, D
<1>3. Bad = {}
  <2> SUFFICES ASSUME Bad # {} PROVE FALSE
    OBVIOUS
  <2>1. PICK s \in Bad : \A x \in s : s \ {x} \notin Bad
    <3>1. Bad \in SUBSET (SUBSET D)
      OBVIOUS
    <3> HIDE DEF Bad
    <3> QED BY <3>1, SmallestSet DEF D
  <2>2. s \in SUBSET D /\ Weighs(w, s) /\ Total(w, s) # Total(c, P(s))
    <3>1. s \in SUBSET D
      OBVIOUS
    <3> HIDE DEF D
    <3> QED BY <1>2, <3>1, WeighsParts
  <2>3. CASE s = {}
    <3>1. Total(w, {}) = 0 /\ Total(c, {}) = 0
      BY FS_EmptySet, TotalTakesPicked
    <3> QED BY <1>1, <2>2, <2>3, <3>1
  <2>4. CASE s # {}
    <3>1. PICK x \in s : TRUE
      BY <2>4
    <3> DEFINE A == PairsOf(outcome, x)
               B == P(s \ {x})
    <3>2. Total(w, s) = w[x] + Total(w, s \ {x})
      BY <2>2, TotalTakes
    <3>3. Total(w, s \ {x}) = Total(c, B)
      BY <2>1, <2>2
    <3>4. w[x] = Total(c, A)
      BY <2>2
    <3>5. P(s) = A \cup B /\ A \cap B = {}
      BY DEF PairsOfAll, Pairs, PairsOf
    <3>6. P(s) \in SUBSET Pairs(outcome)
      BY <1>1
    <3> HIDE DEF A, B, P
    <3>7. Weighs(c, A \cup B)
      BY <3>5, <3>6, WeighsParts
    <3>8. Total(c, A \cup B) = Total(c, A) + Total(c, B)
      BY <3>5, <3>7, TotalOfParts
    <3>9. Total(w, s) = Total(c, P(s))
      BY <3>2, <3>3, <3>4, <3>5, <3>8
    <3> QED BY <2>2, <3>9
  <2> QED BY <2>3, <2>4
<1>4. Total(w, D) = Total(c, P(D))
  <2>1. D \notin Bad /\ D \in SUBSET D
    BY <1>3
  <2> QED BY <2>1
<1> QED BY <1>1, <1>2, <1>4

\* The bounds that the deltas of a match keep, times the divisor they share.
LEMMA DriftArithmetic ==
  ASSUME NEW n \in Nat, n >= 2, NEW s \in Int, NEW t \in 0..(16 * (n * n)), NEW k \in 0..n,
         (1000 * (n - 1)) * s >= t + (-(500 * (n - 1))) * k,
         (1000 * (n - 1)) * s <= t + (500 * (n - 1)) * k
  PROVE  1000 * s \in (-(500 * n))..(532 * n)
<1> DEFINE m == n - 1
           mk == m * k
           mn == m * n
           ms == m * s
           nn == n * n
<1>1. m \in Nat /\ m >= 1 /\ n = m + 1
  OBVIOUS
<1>2. /\ mk \in Int /\ mn \in Int /\ ms \in Int /\ nn \in Int
      /\ (1000 * m) * s = 1000 * ms /\ (500 * m) * k = 500 * mk
      /\ (-(500 * m)) * k = -(500 * mk)
  <2> HIDE DEF m
  <2> QED BY <1>1
<1>3. mk <= mn /\ mk >= 0
  <2>1. m * (n - k) >= 0 /\ m * (n - k) = mn - mk
    <3> HIDE DEF m
    <3> QED BY <1>1
  <2> HIDE DEF m
  <2> QED BY <1>1, <1>2, <2>1
<1>4. nn <= 2 * mn
  <2>1. nn = mn + n /\ mn = m * m + m /\ m * m >= m
    <3> HIDE DEF m
    <3> QED BY <1>1
  <2>2. m * m \in Int
    BY <1>1
  <2> DEFINE mm == m * m
  <2> HIDE DEF mm, mn, nn, m
  <2> QED BY <1>1, <1>2, <2>1, <2>2 DEF mm
<1>5. 1000 * ms >= -(500 * mn) /\ 1000 * ms <= 532 * mn
  <2>1. 1000 * ms >= t - 500 * mk /\ 1000 * ms <= t + 500 * mk /\ t >= 0 /\ t <= 16 * nn /\ t \in Int
    <3>1. 1000 * ms >= t + (-(500 * mk)) /\ 1000 * ms <= t + 500 * mk
      BY <1>2
    <3>2. t >= 0 /\ t <= 16 * nn /\ t \in Int
      BY <1>2
    <3> HIDE DEF ms, mk, mn, nn, m
    <3> QED BY <1>2, <3>1, <3>2
  <2> HIDE DEF ms, mk, mn, nn, m
  <2> QED BY <1>2, <1>3, <1>4, <2>1
<1>6. m * (1000 * s + 500 * n) >= 0 /\ m * (532 * n - 1000 * s) >= 0
  <2>1. m * (1000 * s + 500 * n) = 1000 * ms + 500 * mn
        /\ m * (532 * n - 1000 * s) = 532 * mn - 1000 * ms
    <3> HIDE DEF m
    <3> QED BY <1>1
  <2> HIDE DEF m, ms, mn
  <2> QED BY <1>2, <1>5, <2>1
<1>7. \A z \in Int : m * z >= 0 => z >= 0
  <2> SUFFICES ASSUME NEW z \in Int, z < 0 PROVE ~(m * z >= 0)
    <3> HIDE DEF m
    <3> QED OBVIOUS
  <2>1. m * (-z) >= -z
    <3>1. (m - 1) * (-z) >= 0 /\ (m - 1) * (-z) = m * (-z) - (-z)
      <4> HIDE DEF m
      <4> QED BY <1>1
    <3> HIDE DEF m
    <3> QED BY <1>1, <3>1
  <2>2. m * (-z) = -(m * z) /\ m * z \in Int
    <3> HIDE DEF m
    <3> QED BY <1>1
  <2> HIDE DEF m
  <2> QED BY <2>1, <2>2
<1>8. 1000 * s + 500 * n >= 0 /\ 532 * n - 1000 * s >= 0
  <2> HIDE DEF m
  <2>1. 1000 * s + 500 * n \in Int /\ 532 * n - 1000 * s \in Int
    OBVIOUS
  <2> QED BY <1>6, <1>7, <2>1
<1> QED BY <1>8

\* The deltas that compute_deltas gives the n participants of a match add up to
\* at most half a point for each, and for each 32 thousandths more upwards:
\* rounding and interpolation create and destroy next to nothing, whatever the
\* ratings and scores, and however often an identity takes part.
THEOREM EloBarelyDrifts ==
  ASSUME NEW Id, NEW ratings, NEW outcome, RatesOutcome(Id, ratings, outcome)
  PROVE  /\ Weighs(EloDeltas(ratings, outcome), OutcomeIdentities(outcome))
         /\ 1000 * Total(EloDeltas(ratings, outcome), OutcomeIdentities(outcome))
              \in (-(500 * Len(outcome)))..(532 * Len(outcome))
<1> DEFINE n == Len(outcome)
           m == n - 1
           D == OutcomeIdentities(outcome)
           delta == EloDeltas(ratings, outcome)
           c == [p \in Pairs(outcome) |-> Contribution(ratings, outcome, p)]
           w == [i \in D |-> Total(c, PairsOf(outcome, i))]
           scaled == [i \in D |-> (1000 * m) * delta[i]]
           less == [i \in D |-> -(500 * m)]
           more == [i \in D |-> 500 * m]
           low == [i \in D |-> w[i] + less[i]]
           high == [i \in D |-> w[i] + more[i]]
<1>1. n \in Nat /\ n >= 2 /\ m \in Nat \ {0} /\ DOMAIN outcome = 1..n
  <2> DEFINE Entries == [identity : Id, score : Int]
  <2>1. outcome \in Seq(Entries) /\ n >= 2
    BY DEF RatesOutcome
  <2> HIDE DEF Entries
  <2>2. n \in Nat /\ DOMAIN outcome = 1..n
    BY <2>1
  <2> HIDE DEF n
  <2> QED BY <2>1, <2>2
<1>2. IsFiniteSet(D) /\ Cardinality(D) \in 0..n
  BY PairsFinite
<1>3. /\ Weighs(c, Pairs(outcome))
      /\ Total(c, Pairs(outcome)) \in 0..(16 * (n * n))
  <2>1. \A p \in Pairs(outcome) : c[p] = Contribution(ratings, outcome, p)
    OBVIOUS
  <2> HIDE DEF c
  <2> QED BY <2>1, AllPairsBalance
<1>4. Weighs(w, D) /\ Total(w, D) = Total(c, Pairs(outcome))
  <2>1. \A i \in OutcomeIdentities(outcome) : w[i] = Total(c, PairsOf(outcome, i))
    OBVIOUS
  <2>2. DOMAIN outcome = 1..Len(outcome) /\ IsFiniteSet(OutcomeIdentities(outcome))
    BY <1>1, <1>2
  <2> HIDE DEF w, c
  <2> QED BY <1>3, <2>1, <2>2, NumeratorsAddUp
<1>5. ASSUME NEW i \in D PROVE delta[i] \in Int /\ w[i] \in Int /\ Rounds(delta[i], w[i], m)
  <2>1. w[i] \in Int
    <3> HIDE DEF w, D
    <3> QED BY <1>4 DEF Weighs
  <2>2. w[i] = PairSum(ratings, outcome, PairsOf(outcome, i))
    <3>1. PairsOf(outcome, i) \in SUBSET Pairs(outcome)
      BY DEF PairsOf, Pairs
    <3>2. \A p \in PairsOf(outcome, i) : c[p] = Contribution(ratings, outcome, p)
      BY <3>1
    <3>3. w[i] = Total(c, PairsOf(outcome, i))
      OBVIOUS
    <3>4. IsFiniteSet(PairsOf(outcome, i))
      BY <3>1, PairsFinite, FS_Subset
    <3> HIDE DEF c, w
    <3>5. PairSum(ratings, outcome, PairsOf(outcome, i)) = Total(c, PairsOf(outcome, i))
      BY <3>2, <3>4, PairSumIsTotal
    <3> QED BY <3>3, <3>5
  <2>3. delta[i] = RoundHalfAwayFromZero(w[i], 1000 * m)
    <3>1. delta[i] = RoundHalfAwayFromZero(PairSum(ratings, outcome, PairsOf(outcome, i)), Share(outcome))
      BY DeltasAre
    <3>2. Share(outcome) = 1000 * m
      BY DEF Share
    <3> HIDE DEF w, m, delta
    <3> QED BY <2>2, <3>1, <3>2
  <2> HIDE DEF w, m, delta, D
  <2>4. Quotient(delta[i], w[i], m) /\ m \in Nat \ {0}
    BY <1>1, <2>3 DEF Quotient
  <2> QED BY <2>1, <2>4, RoundsHalf
<1>6. Weighs(delta, D)
  <2> HIDE DEF delta, D, w, m
  <2> QED BY <1>2, <1>5 DEF Weighs
<1>7. ASSUME NEW i \in D
      PROVE  /\ scaled[i] = (1000 * m) * delta[i] /\ scaled[i] \in Int
             /\ less[i] = -(500 * m) /\ less[i] \in Int
             /\ more[i] = 500 * m /\ more[i] \in Int
             /\ low[i] = w[i] + less[i] /\ low[i] \in Int
             /\ high[i] = w[i] + more[i] /\ high[i] \in Int
             /\ low[i] <= scaled[i] /\ scaled[i] <= high[i]
  <2>1. /\ scaled[i] = (1000 * m) * delta[i] /\ less[i] = -(500 * m) /\ more[i] = 500 * m
        /\ low[i] = w[i] + less[i] /\ high[i] = w[i] + more[i]
    OBVIOUS
  <2> HIDE DEF scaled, less, more, low, high, w, delta, m, D
  <2>2. (1000 * m) * delta[i] \in Int /\ 500 * m \in Int /\ -(500 * m) \in Int
    BY <1>1, <1>5
  <2>3. (1000 * m) * delta[i] \in (w[i] - 500 * m)..(w[i] + 500 * m)
    BY <1>5 DEF Rounds
  <2> DEFINE b == (1000 * m) * delta[i]
             h == 500 * m
  <2> HIDE DEF b, h
  <2>4. w[i] + (-h) \in Int /\ w[i] + h \in Int /\ w[i] + (-h) <= b /\ b <= w[i] + h
    BY <1>5, <2>2, <2>3 DEF b, h
  <2> QED BY <2>1, <2>2, <2>4 DEF b, h
<1> HIDE DEF scaled, less, more, low, high, w, c, delta, m, D
<1>8. Weighs(scaled, D) /\ Weighs(less, D) /\ Weighs(more, D) /\ Weighs(low, D) /\ Weighs(high, D)
  BY <1>2, <1>7 DEF Weighs
<1> DEFINE s == Total(delta, D)
           t == Total(w, D)
           k == Cardinality(D)
<1>9. Total(scaled, D) = (1000 * m) * s /\ s \in Int
  <2>1. 1000 * m \in Int
    BY <1>1
  <2> QED BY <1>6, <1>7, <2>1, TotalScales, TotalIsInt
<1>10. Total(low, D) = t + Total(less, D) /\ Total(high, D) = t + Total(more, D)
  BY <1>4, <1>7, <1>8, TotalAdds
<1>11. Total(less, D) = (-(500 * m)) * k /\ Total(more, D) = (500 * m) * k
  <2>1. -(500 * m) \in Int /\ 500 * m \in Int
    BY <1>1
  <2> QED BY <1>2, <1>7, <2>1, TotalOfConstant
<1>12. Total(low, D) <= Total(scaled, D) /\ Total(scaled, D) <= Total(high, D)
  BY <1>7, <1>8, TotalGrows
<1> HIDE DEF s, t, k, n
<1>13. /\ t \in 0..(16 * (n * n)) /\ k \in 0..n
       /\ (1000 * m) * s >= t + (-(500 * m)) * k
       /\ (1000 * m) * s <= t + (500 * m) * k
  <2>1. t \in 0..(16 * (n * n)) /\ k \in 0..n
    BY <1>2, <1>3, <1>4 DEF t, k
  <2>2. (1000 * m) * s \in Int /\ t \in Int /\ (-(500 * m)) * k \in Int /\ (500 * m) * k \in Int
    BY <1>1, <1>9, <2>1
  <2> QED BY <1>9, <1>10, <1>11, <1>12, <2>1, <2>2
<1>14. 1000 * s \in (-(500 * n))..(532 * n)
  BY <1>1, <1>9, <1>13, DriftArithmetic DEF m
<1> QED BY <1>6, <1>14 DEF s, delta, D, n

-----------------------------------------------------------------------------
(* The walk over the differences *)

\* The walk stays among the integers.
LeagueInv == diff \in Int

LEMMA LeagueSteps ==
  ASSUME MaxDiff \in Int
  PROVE  /\ MCInit => LeagueInv
         /\ LeagueInv /\ [Walk \/ PlaySeason]_<<vars, diff>> => LeagueInv'
  BY DEF MCInit, LeagueInv, Walk, PlaySeason

\* At every difference of rating that a walk reaches, the expected score lies
\* within the table and does not fall at the next (system.py,
\* _expected_score_millipoints).
THEOREM ExpectationsRise ==
  ASSUME MaxDiff \in Int
  PROVE  MCSpec => []ExpectationMonotone
<1>1. LeagueInv => ExpectationMonotone
  BY ExpectationRises DEF LeagueInv, ExpectationMonotone
<1> QED BY <1>1, LeagueSteps, PTL DEF MCSpec

\* The property at one difference.
LEMMA WinnerPaid ==
  ASSUME LeagueInv PROVE WinnerGainsLoserPays
<1> DEFINE E == ExpectedMillipoints(diff)
           F == ExpectedMillipoints(-diff)
<1>0. diff \in Int /\ -diff \in Int
  BY DEF LeagueInv
<1>1. E \in 91..909 /\ F \in 91..909
  BY <1>0, ExpectationRises
<1>2. diff <= 0 => E <= 500 /\ F >= 500
  BY <1>0, SidesOfEven
<1>3. \A x, y : Duel(x, y) = EloDeltas(Duelists(diff), DuelOutcome(x, y))
  BY Zenon DEF Duel, Duelists, DuelOutcome
<1>4. /\ ActualMillipoints(1, 0) = 1000 /\ ActualMillipoints(0, 1) = 0
      /\ ActualMillipoints(1, 1) = 500
  BY DEF ActualMillipoints
<1>5. \A x, y \in Int :
        /\ Duel(x, y)["first"] = Takes(ActualMillipoints(x, y), E)
        /\ Duel(x, y)["second"] = Takes(ActualMillipoints(y, x), F)
  <2> SUFFICES ASSUME NEW x \in Int, NEW y \in Int
               PROVE /\ Duel(x, y)["first"] = Takes(ActualMillipoints(x, y), E)
                     /\ Duel(x, y)["second"] = Takes(ActualMillipoints(y, x), F)
    OBVIOUS
  <2>1. Duel(x, y) = EloDeltas(Duelists(diff), DuelOutcome(x, y))
    BY <1>3
  <2> QED BY <1>0, <2>1, DuelPays
<1>6. /\ Duel(1, 0)["first"] = Takes(1000, E)
      /\ Duel(0, 1)["first"] = Takes(0, E)
      /\ Duel(0, 1)["second"] = Takes(1000, F)
      /\ Duel(1, 1)["first"] = Takes(500, E)
      /\ Duel(1, 1)["second"] = Takes(500, F)
  BY <1>4, <1>5
<1> HIDE DEF E, F
<1>7. /\ Takes(1000, E) \in 3..29
      /\ Takes(0, E) \in -29..-3
      /\ diff <= 0 => /\ Takes(500, E) >= 0 /\ Takes(500, F) <= 0
                      /\ Takes(1000, E) >= Takes(1000, F)
  <2>1. FairlyPaid(E, F)
    <3> DEFINE Chances == 91..909
    <3>1. \A e, f \in Chances : FairlyPaid(e, f)
      BY Taken
    <3>2. E \in Chances /\ F \in Chances
      BY <1>1
    <3> HIDE DEF Chances
    <3> QED BY <3>1, <3>2
  <2>2. E \in Int /\ F \in Int
    BY <1>1
  <2> QED BY <1>2, <2>1, <2>2 DEF FairlyPaid
<1> QED BY <1>6, <1>7 DEF WinnerGainsLoserPays

\* However the players are rated, a win pays 3 to 29 points and a loss costs as
\* many, a draw never costs the lower-rated side, and an upset pays no less
\* than the favourite's win (compute_deltas of system.py).
THEOREM WinnersGain ==
  ASSUME MaxDiff \in Int
  PROVE  MCSpec => []WinnerGainsLoserPays
<1>1. LeagueInv => WinnerGainsLoserPays
  BY WinnerPaid
<1> QED BY <1>1, LeagueSteps, PTL DEF MCSpec

-----------------------------------------------------------------------------
(* A season *)

\* How far ratings r are from a league of newcomers.
DriftOf(r) == Total(r, Identities) - EloInitialRating * Cardinality(Identities)

\* A match of at most three moves the total by at most a point.
LEMMA MatchDrifts ==
  ASSUME IsFiniteSet(Identities), NEW r, NEW outcome, RatesOutcome(Identities, r, outcome),
         Len(outcome) \in 2..3, NEW q,
         \A i \in Identities : q[i] = IF i \in OutcomeIdentities(outcome)
                                        THEN r[i] + EloDeltas(r, outcome)[i] ELSE r[i]
  PROVE  DriftOf(r) \in Int /\ DriftOf(q) \in Int /\ DriftOf(q) - DriftOf(r) \in -1..1
<1> DEFINE D == OutcomeIdentities(outcome)
           Rest == Identities \ D
           n == Len(outcome)
           delta == EloDeltas(r, outcome)
           change == [i \in Identities |-> IF i \in D THEN delta[i] ELSE 0]
<1>1. Weighs(delta, D) /\ 1000 * Total(delta, D) \in (-(500 * n))..(532 * n)
  BY EloBarelyDrifts
<1>2. D \cup Rest = Identities /\ D \cap Rest = {} /\ D \subseteq Identities /\ IsFiniteSet(Rest)
  <2> DEFINE Entries == [identity : Identities, score : Int]
  <2>1. outcome \in Seq(Entries)
    BY DEF RatesOutcome
  <2>2. \A e \in Entries : e.identity \in Identities
    OBVIOUS
  <2> HIDE DEF Entries
  <2>3. \A k \in DOMAIN outcome : outcome[k] \in Entries
    BY <2>1
  <2>4. D \subseteq Identities
    BY <2>2, <2>3 DEF OutcomeIdentities
  <2>5. IsFiniteSet(Rest)
    BY FS_Subset
  <2> HIDE DEF D
  <2> QED BY <2>4, <2>5
<1>3. /\ \A i \in D : change[i] = delta[i]
      /\ \A i \in Rest : change[i] = 0
      /\ \A i \in Identities : q[i] = r[i] + change[i] /\ r[i] \in Int /\ change[i] \in Int
  <2>1. \A i \in D : delta[i] \in Int
    BY <1>1 DEF Weighs
  <2>2. \A i \in Identities : r[i] \in Int
    BY DEF RatesOutcome
  <2>3. \A i \in Identities : q[i] = IF i \in D THEN r[i] + delta[i] ELSE r[i]
    OBVIOUS
  <2>4. \A i \in Identities : change[i] = IF i \in D THEN delta[i] ELSE 0
    OBVIOUS
  <2> HIDE DEF change, delta, D
  <2> QED BY <1>2, <2>1, <2>2, <2>3, <2>4
<1> HIDE DEF change, delta, D, Rest
<1>4. Weighs(r, Identities) /\ Weighs(change, Identities) /\ IsFiniteSet(D)
  BY <1>1, <1>3 DEF Weighs
<1>5. Total(q, Identities) = Total(r, Identities) + Total(change, Identities)
  BY <1>3, <1>4, TotalAdds
<1>6. Total(change, Identities) = Total(change, D) + Total(change, Rest)
  <2>1. Weighs(change, D \cup Rest)
    BY <1>2, <1>4
  <2>2. Total(change, D \cup Rest) = Total(change, D) + Total(change, Rest)
    BY <1>2, <2>1, TotalOfParts
  <2> QED BY <1>2, <2>2
<1>7. Total(change, D) = Total(delta, D)
  BY <1>3, <1>4, TotalSame
<1>8. Total(change, Rest) = 0 * Cardinality(Rest) /\ Cardinality(Rest) \in Nat
  <2>1. 0 \in Int
    OBVIOUS
  <2> QED BY <1>2, <1>3, <2>1, TotalOfConstant, FS_CardinalityType
<1> DEFINE s == Total(delta, D)
           t == Total(r, Identities)
           rest == Cardinality(Rest)
<1>9. s \in Int /\ t \in Int /\ Cardinality(Identities) \in Nat
  BY <1>1, <1>4, TotalIsInt, FS_CardinalityType
<1>10. s \in -1..1
  <2>1. 1000 * s \in (-(500 * n))..(532 * n) /\ n \in 2..3
    BY <1>1
  <2> HIDE DEF s, n
  <2> QED BY <1>9, <2>1
<1>11. Total(q, Identities) = t + s
  <2>1. Total(q, Identities) = t + (s + 0 * rest) /\ rest \in Nat
    BY <1>5, <1>6, <1>7, <1>8
  <2> HIDE DEF s, t, rest
  <2> QED BY <1>9, <2>1
<1> DEFINE start == EloInitialRating * Cardinality(Identities)
<1>12. start \in Int /\ DriftOf(r) = t - start /\ DriftOf(q) = (t + s) - start
  BY <1>9, <1>11 DEF DriftOf, EloInitialRating
<1> HIDE DEF s, t, start
<1> QED BY <1>9, <1>10, <1>12

\* The entries that a season records: their ratings are integers.
Recorded == [match : MatchIds, delta : Int, rating : Int]

HistoriesOK ==
  played \in 0..MaxMatches /\ history \in [Identities -> Seq(Recorded)]

LEMMA RatingsAreInt ==
  ASSUME HistoriesOK
  PROVE  Ratings \in [Identities -> Int]
<1>1. ASSUME NEW i \in Identities PROVE Rating(i) \in Int
  <2>1. history[i] \in Seq(Recorded)
    BY DEF HistoriesOK
  <2>2. CASE history[i] = << >>
    BY <2>2 DEF Rating, EloInitialRating
  <2>3. CASE history[i] # << >>
    <3>1. Last(history[i]) \in Recorded
      <4> HIDE DEF Recorded
      <4> QED BY <2>1, <2>3 DEF Last
    <3> QED BY <2>3, <3>1 DEF Rating, Recorded
  <2> QED BY <2>2, <2>3
<1> QED BY <1>1 DEF Ratings

\* Every outcome of a season is one that its ratings rate.
LEMMA OutcomesAreRated ==
  ASSUME Scores \subseteq Int, HistoriesOK, NEW outcome \in Outcomes
  PROVE  RatesOutcome(Identities, Ratings, outcome) /\ Len(outcome) \in 2..MaxParticipants
<1> DEFINE Scored == [identity : Identities, score : Scores]
           Entries == [identity : Identities, score : Int]
<1>1. PICK n \in 2..MaxParticipants : outcome \in [1..n -> Scored]
  BY DEF Outcomes
<1>2. Scored \subseteq Entries
  OBVIOUS
<1> HIDE DEF Scored, Entries
<1>3. outcome \in Seq(Entries) /\ Len(outcome) = n
  BY <1>1, <1>2
<1>4. n \in Int /\ n >= 2
  OBVIOUS
<1> QED BY <1>1, <1>3, <1>4, RatingsAreInt DEF RatesOutcome, Entries

\* record_match appends to the histories of the identities involved one entry
\* each, chained to the last, and adds their deltas to their ratings.
LEMMA MatchAppends ==
  ASSUME Scores \subseteq Int, MaxMatches \in Nat, HistoriesOK, played < MaxMatches,
         NEW outcome \in Outcomes, RecordMatch(outcome)
  PROVE  /\ HistoriesOK'
         /\ \A i \in Identities :
              Ratings'[i] = IF i \in OutcomeIdentities(outcome)
                              THEN Ratings[i] + EloDeltas(Ratings, outcome)[i]
                              ELSE Ratings[i]
         /\ Contract!Record(OutcomeIdentities(outcome), played)
<1> DEFINE D == OutcomeIdentities(outcome)
           delta == EloDeltas(Ratings, outcome)
           Entry(i) == [match |-> played, delta |-> delta[i], rating |-> Rating(i) + delta[i]]
<1>1. RatesOutcome(Identities, Ratings, outcome) /\ Ratings \in [Identities -> Int]
  BY OutcomesAreRated, RatingsAreInt
<1>2. Weighs(delta, D)
  BY <1>1, EloBarelyDrifts
<1>3. D # {} /\ D \subseteq Identities
  <2> DEFINE Entries == [identity : Identities, score : Int]
  <2>1. outcome \in Seq(Entries) /\ Len(outcome) >= 2
    BY <1>1 DEF RatesOutcome
  <2>2. \A e \in Entries : e.identity \in Identities
    OBVIOUS
  <2> HIDE DEF Entries
  <2>3. 1 \in DOMAIN outcome /\ \A k \in DOMAIN outcome : outcome[k] \in Entries
    BY <2>1
  <2> QED BY <2>2, <2>3 DEF OutcomeIdentities
<1>4. /\ history' = [i \in Identities |->
             IF i \in D THEN Append(history[i], Entry(i)) ELSE history[i]]
      /\ played' = played + 1
  BY DEF RecordMatch
<1>5. \A i \in Identities : Ratings[i] = Rating(i) /\ Rating(i) \in Int
  BY <1>1 DEF Ratings
<1>6. played' \in 0..MaxMatches /\ played \in MatchIds
  BY <1>4 DEF HistoriesOK, MatchIds
<1> HIDE DEF delta, D
<1>7. \A i \in D : delta[i] \in Int
  BY <1>2 DEF Weighs
<1>8. ASSUME NEW i \in Identities
      PROVE  /\ history'[i] \in Seq(Recorded)
             /\ Rating(i)' = IF i \in D THEN Rating(i) + delta[i] ELSE Rating(i)
             /\ i \in D => Contract!Appended(i, played)
             /\ i \notin D => history'[i] = history[i]
  <2>1. history[i] \in Seq(Recorded)
    BY DEF HistoriesOK
  <2>2. CASE i \in D
    <3> DEFINE h == history[i]
               g == history'[i]
               e == Entry(i)
               n == Len(h)
    <3>1. g = Append(h, e)
      BY <1>4, <2>2
    <3>2. /\ e \in Recorded /\ e.match = played /\ e.delta \in Int
          /\ e.rating = Rating(i) + delta[i] /\ e.rating = Rating(i) + e.delta
      BY <1>5, <1>6, <1>7, <2>2 DEF Recorded
    <3>3. Rating(i) = Contract!RatingAt(h, n)
      <4> HIDE DEF Recorded
      <4> QED BY <2>1 DEF Rating, Contract!RatingAt, Last
    <3> HIDE DEF e
    <3>4. /\ g \in Seq(Recorded) /\ g # << >> /\ Last(g) = e /\ Len(g) = n + 1 /\ g[n + 1] = e
          /\ \A k \in 1..n : g[k] = h[k]
      <4> HIDE DEF Recorded, g
      <4> QED BY <2>1, <3>1, <3>2 DEF Last
    <3>5. Contract!Appended(i, played)
      <4>1. Contract!Entry = Recorded
        BY DEF Contract!Entry, Recorded
      <4> HIDE DEF Recorded
      <4> QED BY <3>2, <3>3, <3>4, <4>1 DEF Contract!Appended
    <3> QED BY <2>2, <3>2, <3>4, <3>5 DEF Rating
  <2>3. CASE i \notin D
    <3>1. history'[i] = history[i]
      BY <1>4, <2>3
    <3> QED BY <2>1, <2>3, <3>1 DEF Rating
  <2> QED BY <2>2, <2>3
<1>9. \A i \in Identities : Ratings'[i] = IF i \in D THEN Ratings[i] + delta[i] ELSE Ratings[i]
  <2>1. \A i \in Identities : Ratings'[i] = Rating(i)'
    BY DEF Ratings
  <2> QED BY <1>5, <1>8, <2>1
<1>10. history' \in [Identities -> Seq(Recorded)]
  <2> HIDE DEF Entry, Recorded
  <2> QED BY <1>4, <1>8
<1>11. Contract!Record(D, played)
  <2>1. Contract!Entry = Recorded
    BY DEF Contract!Entry, Recorded
  <2> HIDE DEF Recorded
  <2> QED BY <1>3, <1>8, <1>10, <2>1 DEF Contract!Record
<1> QED BY <1>6, <1>9, <1>10, <1>11 DEF HistoriesOK, D, delta

\* The reference store keeps the contract of RatingLedgerStore: whatever the
\* scores, every match of a season appends one chained entry to the history of
\* each identity involved, and leaves the others alone.
THEOREM SeasonKeepsContract ==
  ASSUME Scores \subseteq Int
  PROVE  MCSpec => KeepsLedgerContract
<1>1. MCInit => HistoriesOK /\ Contract!Init
  BY BoundsAssumption DEF MCInit, Init, HistoriesOK, Contract!Init
<1>2. HistoriesOK /\ [Walk \/ PlaySeason]_<<vars, diff>> => HistoriesOK' /\ [Contract!Next]_history
  <2> SUFFICES ASSUME HistoriesOK, [Walk \/ PlaySeason]_<<vars, diff>>
               PROVE  HistoriesOK' /\ [Contract!Next]_history
    OBVIOUS
  <2>1. ASSUME UNCHANGED vars PROVE HistoriesOK' /\ UNCHANGED history
    BY <2>1 DEF HistoriesOK, vars
  <2>2. ASSUME PlaySeason PROVE HistoriesOK' /\ Contract!Next
    <3>1. PICK outcome \in Outcomes : RecordMatch(outcome)
      BY <2>2 DEF PlaySeason, Next
    <3>2. HistoriesOK' /\ Contract!Record(OutcomeIdentities(outcome), played)
      BY <2>2, <3>1, BoundsAssumption, MatchAppends DEF PlaySeason, Next
    <3>3. OutcomeIdentities(outcome) \subseteq Identities
      <4> DEFINE Entries == [identity : Identities, score : Int]
      <4>1. outcome \in Seq(Entries)
        BY OutcomesAreRated DEF RatesOutcome
      <4>2. \A e \in Entries : e.identity \in Identities
        OBVIOUS
      <4> HIDE DEF Entries
      <4> QED BY <4>1, <4>2 DEF OutcomeIdentities
    <3>4. played \in MatchIds
      BY DEF HistoriesOK, MatchIds
    <3> QED BY <3>2, <3>3, <3>4 DEF Contract!Next
  <2> QED BY <2>1, <2>2 DEF Walk
<1> QED BY <1>1, <1>2, PTL DEF MCSpec, KeepsLedgerContract, Contract!Spec

\* Such a league has drifted by at most a point for each match.
SeasonInv == HistoriesOK /\ DriftOf(Ratings) \in -played..played

\* A finite league of integer scores whose matches have at most three sides.
LeagueAssumptions ==
  IsFiniteSet(Identities) /\ Scores \subseteq Int /\ MaxParticipants \in 2..3

\* The total that TotalDrift folds is the total of the ratings.
LEMMA DriftIsTotal ==
  ASSUME IsFiniteSet(Identities)
  PROVE  TotalDrift = DriftOf(Ratings)
<1> DEFINE Step(f, s) == IF s = {} THEN 0
                         ELSE Rating(CHOOSE x \in s : TRUE) + f[s \ {CHOOSE x \in s : TRUE}]
           iter == CHOOSE f : f = [s \in SUBSET Identities |-> Step(f, s)]
           w == Ratings
<1>1. MapThenSumSet(Rating, Identities) = iter[Identities]
  BY Zenon DEF MapThenSumSet, MapThenFoldSet
<1>2. ASSUME NEW f, NEW s \in SUBSET Identities PROVE Step(f, s) = SumStep(f, w, s)
  <2>1. CASE s = {}
    BY <2>1 DEF SumStep
  <2>2. CASE s # {}
    <3>1. Picked(s) \in Identities
      BY <2>2 DEF Picked
    <3>2. Rating(Picked(s)) = w[Picked(s)]
      BY <3>1 DEF Ratings
    <3> HIDE DEF w
    <3> QED BY <2>2, <3>2 DEF SumStep, Picked
  <2> QED BY <2>1, <2>2
<1> HIDE DEF Step, w
<1>3. \A f : [s \in SUBSET Identities |-> Step(f, s)] = [s \in SUBSET Identities |-> SumStep(f, w, s)]
  BY <1>2
<1>4. \E f : f = [s \in SUBSET Identities |-> Step(f, s)]
  <2>1. PICK f : Sums(f, w, SUBSET Identities)
    BY SumsExist
  <2>2. f = [s \in SUBSET Identities |-> Step(f, s)]
    BY <1>3, <2>1 DEF Sums
  <2> QED BY <2>2
<1>5. iter = [s \in SUBSET Identities |-> Step(iter, s)]
  BY <1>4, Zenon
<1> HIDE DEF iter
<1>6. SumsUpTo(iter, w, Identities)
  BY <1>3, <1>5 DEF SumsUpTo, Sums
<1>7. PICK g : SumsUpTo(g, w, Identities) /\ Total(w, Identities) = g[Identities]
  BY TotalUnfolds DEF SumsUpTo
<1>8. iter[Identities] = g[Identities]
  <2>1. Identities \subseteq Identities
    OBVIOUS
  <2> QED BY <1>6, <1>7, <2>1, SumsAgree
<1> QED BY <1>1, <1>7, <1>8 DEF TotalDrift, DriftOf, w

\* Nobody has a rating of his own yet.
LEMMA SeasonStarts ==
  ASSUME LeagueAssumptions, Init PROVE SeasonInv
<1>1. played = 0 /\ history = [i \in Identities |-> << >>]
  BY DEF Init
<1>2. \A i \in Identities : Ratings[i] = 1500
  BY <1>1 DEF Ratings, Rating, EloInitialRating
<1>3. Total(Ratings, Identities) = 1500 * Cardinality(Identities) /\ Cardinality(Identities) \in Nat
  <2> DEFINE w == Ratings
  <2>1. \A i \in Identities : w[i] = 1500
    BY <1>2
  <2>2. IsFiniteSet(Identities) /\ 1500 \in Int
    BY DEF LeagueAssumptions
  <2> HIDE DEF w
  <2>3. Total(w, Identities) = 1500 * Cardinality(Identities)
    BY <2>1, <2>2, TotalOfConstant
  <2> QED BY <2>2, <2>3, FS_CardinalityType DEF w
<1>4. DriftOf(Ratings) = 0
  BY <1>3 DEF DriftOf, EloInitialRating
<1>5. HistoriesOK
  BY <1>1, BoundsAssumption DEF HistoriesOK
<1> QED BY <1>1, <1>4, <1>5 DEF SeasonInv

LEMMA MatchKeepsSeason ==
  ASSUME LeagueAssumptions, SeasonInv, played < MaxMatches,
         NEW outcome \in Outcomes, RecordMatch(outcome)
  PROVE  SeasonInv'
<1> DEFINE r == Ratings
           q == Ratings'
<1>1. IsFiniteSet(Identities) /\ Scores \subseteq Int /\ MaxParticipants \in 2..3 /\ MaxMatches \in Nat
  BY BoundsAssumption DEF LeagueAssumptions
<1>2. HistoriesOK /\ DriftOf(r) \in -played..played /\ played \in Int /\ played' = played + 1
  <2>1. HistoriesOK /\ DriftOf(r) \in -played..played
    BY DEF SeasonInv
  <2>2. played \in Int
    BY <2>1 DEF HistoriesOK
  <2>3. played' = played + 1
    BY DEF RecordMatch
  <2> QED BY <2>1, <2>2, <2>3
<1>3. RatesOutcome(Identities, r, outcome) /\ Len(outcome) \in 2..3
  <2>1. RatesOutcome(Identities, Ratings, outcome) /\ Len(outcome) \in 2..MaxParticipants
    BY <1>1, <1>2, OutcomesAreRated
  <2> DEFINE n == Len(outcome)
  <2>2. n \in 2..MaxParticipants
    BY <2>1
  <2> HIDE DEF n
  <2>3. n \in 2..3
    BY <1>1, <2>2
  <2> QED BY <2>1, <2>3 DEF n
<1>4. /\ HistoriesOK'
      /\ \A i \in Identities : q[i] = IF i \in OutcomeIdentities(outcome)
                                        THEN r[i] + EloDeltas(r, outcome)[i] ELSE r[i]
  BY <1>1, <1>2, MatchAppends
<1>5. DriftOf(r) \in Int /\ DriftOf(q) \in Int /\ DriftOf(q) - DriftOf(r) \in -1..1
  <2> HIDE DEF q, r
  <2> QED BY <1>1, <1>3, <1>4, MatchDrifts
<1>6. DriftOf(q) \in -(played + 1)..(played + 1)
  <2> DEFINE x == DriftOf(r)
             y == DriftOf(q)
  <2>1. x \in -played..played /\ x \in Int /\ y \in Int /\ y - x \in -1..1
    BY <1>2, <1>5
  <2> HIDE DEF x, y
  <2>2. y \in -(played + 1)..(played + 1)
    BY <1>2, <2>1
  <2> QED BY <2>2 DEF y
<1>7. DriftOf(Ratings)' = DriftOf(q)
  BY DEF DriftOf
<1> HIDE DEF q, r
<1> QED BY <1>2, <1>4, <1>6, <1>7 DEF SeasonInv

\* However unequal the opponents and however long the season: as long as no
\* match has more than three participants, rounding and interpolation move the
\* total of all ratings by at most one point per recorded match
\* (InMemoryRatingLedgerStore.record_match).
THEOREM SeasonDrifts ==
  ASSUME LeagueAssumptions
  PROVE  MCSpec => []DriftAtMostOnePerMatch
<1>1. MCInit => SeasonInv
  BY SeasonStarts DEF MCInit
<1>2. SeasonInv /\ [Walk \/ PlaySeason]_<<vars, diff>> => SeasonInv'
  <2> SUFFICES ASSUME SeasonInv, [Walk \/ PlaySeason]_<<vars, diff>> PROVE SeasonInv'
    OBVIOUS
  <2>1. ASSUME UNCHANGED vars PROVE SeasonInv'
    BY <2>1 DEF SeasonInv, HistoriesOK, vars, Ratings, Rating
  <2>2. ASSUME PlaySeason PROVE SeasonInv'
    BY <2>2, MatchKeepsSeason DEF PlaySeason, Next
  <2> QED BY <2>1, <2>2 DEF Walk
<1>3. SeasonInv => DriftAtMostOnePerMatch
  <2> SUFFICES ASSUME SeasonInv PROVE DriftAtMostOnePerMatch
    OBVIOUS
  <2>1. TotalDrift = DriftOf(Ratings)
    BY DriftIsTotal DEF LeagueAssumptions
  <2> QED BY <2>1 DEF SeasonInv, DriftAtMostOnePerMatch
<1> QED BY <1>1, <1>2, <1>3, PTL DEF MCSpec
=============================================================================
