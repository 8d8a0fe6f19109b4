---------------------------- MODULE SumTheorems ----------------------------
(***************************************************************************)
(* Facts about sums over finite sets, for the proofs about the components  *)
(* that add up costs and sizes with MapThenSumSet.                         *)
(*                                                                         *)
(* The provers cannot instantiate the induction theorems of the library,   *)
(* whose hypothesis is an operator.  The well-founded ordering of the      *)
(* finite subsets is a set, though: an induction is a set of               *)
(* counterexamples here, and a contradiction about its smallest element.   *)
(***************************************************************************)
EXTENDS FiniteSetsExt, FiniteSetTheorems, TLAPS

\* The sum of the values of the function c at the elements of S.
SumOf(c, S) == MapThenSumSet(LAMBDA x : c[x], S)

\* A set of subsets of a finite set has an element that is smallest in it.
LEMMA SmallestSet ==
  ASSUME NEW S, IsFiniteSet(S), NEW C \in SUBSET SUBSET S, C # {}
  PROVE  \E T \in C : \A U \in C : U \subseteq T => U = T
<1>1. IsWellFoundedOn(StrictSubsetOrdering(S), SUBSET S)
  BY FS_StrictSubsetOrderingWellFounded, FS_FiniteSubsetsOfFinite
<1>2. PICK T \in C : \A U \in C : <<U, T>> \notin StrictSubsetOrdering(S)
  BY <1>1, WFMin, Zenon
<1>3. ASSUME NEW U \in C, U \subseteq T, U # T PROVE FALSE
  <2>1. <<U, T>> \in (SUBSET S) \X (SUBSET S)
    OBVIOUS
  <2>2. <<U, T>> \in StrictSubsetOrdering(S)
    BY <1>3, <2>1 DEF StrictSubsetOrdering
  <2> QED
    BY <1>2, <2>2
<1> QED
  BY <1>3, Zenon

\* One step of the fold behind SumOf: g is the sum of the smaller sets.
SumStep(c, g, s) ==
  IF s = {} THEN 0 ELSE c[CHOOSE x \in s : TRUE] + g[s \ {CHOOSE x \in s : TRUE}]

\* The function w satisfies the step of the fold at every subset of S.
SumSolution(c, S, w) == w = [s \in SUBSET S |-> SumStep(c, w, s)]

\* The fold is a function that the step defines, if there is one.
LEMMA SumIsChosen ==
  ASSUME NEW S, NEW c
  PROVE  SumOf(c, S) = (CHOOSE h : SumSolution(c, S, h))[S]
BY DEF SumOf, MapThenSumSet, MapThenFoldSet, SumStep, SumSolution

\* A set with c[x] elements for every x of S: its cardinality is the sum.
SumUnits(c, S) == UNION {{x} \X (1 .. c[x]) : x \in S}

\* An element of S accounts for c[x] of the units.
LEMMA AddUnits ==
  ASSUME NEW c, NEW S, NEW x \in S, c[x] \in Nat, IsFiniteSet(SumUnits(c, S \ {x}))
  PROVE  /\ IsFiniteSet(SumUnits(c, S))
         /\ Cardinality(SumUnits(c, S)) = c[x] + Cardinality(SumUnits(c, S \ {x}))
<1> DEFINE own == {x} \X (1 .. c[x])
           rest == SumUnits(c, S \ {x})
<1>1. IsFiniteSet(own) /\ Cardinality(own) = c[x]
  <2>1. IsFiniteSet({x}) /\ Cardinality({x}) = 1
    BY FS_Singleton, Zenon
  <2>2. IsFiniteSet(1 .. c[x]) /\ Cardinality(1 .. c[x]) = c[x]
    <3>1. /\ IsFiniteSet(1 .. c[x])
          /\ Cardinality(1 .. c[x]) = IF 1 > c[x] THEN 0 ELSE c[x] - 1 + 1
      BY FS_Interval
    <3> QED BY <3>1
  <2>3. IsFiniteSet(own) /\ Cardinality(own) = Cardinality({x}) * Cardinality(1 .. c[x])
    BY <2>1, <2>2, FS_Product, Zenon
  <2> QED BY <2>1, <2>2, <2>3
<1>2. SumUnits(c, S) = own \cup rest
  BY Zenon DEF SumUnits
<1>3. own \cap rest = {}
  BY DEF SumUnits
<1>4. /\ IsFiniteSet(own \cup rest)
      /\ Cardinality(own \cup rest)
           = Cardinality(own) + Cardinality(rest) - Cardinality(own \cap rest)
  BY <1>1, FS_Union, Zenon
<1>5. Cardinality(rest) \in Nat
  BY FS_CardinalityType
<1>6. Cardinality(own \cap rest) = 0
  BY <1>3, FS_EmptySet
<1>7. Cardinality(SumUnits(c, S)) = c[x] + Cardinality(rest)
  <2> HIDE DEF own, rest
  <2> QED BY <1>1, <1>2, <1>4, <1>5, <1>6
<1> QED
  BY <1>2, <1>4, <1>7

\* The units of every subset of S are finitely many.
LEMMA UnitsFinite ==
  ASSUME NEW S, IsFiniteSet(S), NEW c, \A x \in S : c[x] \in Nat
  PROVE  \A T \in SUBSET S : IsFiniteSet(SumUnits(c, T))
<1> DEFINE C == {T \in SUBSET S : ~IsFiniteSet(SumUnits(c, T))}
<1> SUFFICES ASSUME C # {} PROVE FALSE
  OBVIOUS
<1>1. PICK T \in C : \A U \in C : U \subseteq T => U = T
  <2>1. C \in SUBSET SUBSET S
    OBVIOUS
  <2> HIDE DEF C
  <2> QED BY <2>1, SmallestSet
<1>2. CASE T = {}
  BY <1>2, FS_EmptySet DEF SumUnits
<1>3. CASE T # {}
  <2>1. PICK x \in T : TRUE
    BY <1>3
  <2>2. IsFiniteSet(SumUnits(c, T \ {x}))
    BY <1>1
  <2> QED
    BY <2>1, <2>2, AddUnits
<1> QED BY <1>2, <1>3

\* The number of units satisfies the step of the fold.
LEMMA UnitsRecursion ==
  ASSUME NEW S, IsFiniteSet(S), NEW c, \A x \in S : c[x] \in Nat,
         NEW w, w = [s \in SUBSET S |-> Cardinality(SumUnits(c, s))]
  PROVE  SumSolution(c, S, w)
<1>1. ASSUME NEW s \in SUBSET S PROVE Cardinality(SumUnits(c, s)) = SumStep(c, w, s)
  <2>1. CASE s = {}
    BY <2>1, FS_EmptySet DEF SumUnits, SumStep
  <2>2. CASE s # {}
    <3> DEFINE x == CHOOSE y \in s : TRUE
    <3>1. x \in s
      BY <2>2
    <3>2. Cardinality(SumUnits(c, s)) = c[x] + Cardinality(SumUnits(c, s \ {x}))
      <4>1. c[x] \in Nat /\ s \ {x} \in SUBSET S
        BY <3>1
      <4>2. IsFiniteSet(SumUnits(c, s \ {x}))
        BY <4>1, UnitsFinite
      <4> HIDE DEF x
      <4> QED BY <3>1, <4>1, <4>2, AddUnits
    <3> QED
      BY <2>2, <3>1, <3>2 DEF SumStep
  <2> QED BY <2>1, <2>2
<1> QED BY <1>1 DEF SumSolution

\* Two functions that satisfy the step of the fold are the same: no order in
\* which the fold takes the elements makes a difference.
LEMMA StepIsUnique ==
  ASSUME NEW S, IsFiniteSet(S), NEW c, NEW g, SumSolution(c, S, g), NEW w, SumSolution(c, S, w)
  PROVE  \A s \in SUBSET S : g[s] = w[s]
<1> DEFINE C == {s \in SUBSET S : g[s] # w[s]}
<1> SUFFICES ASSUME C # {} PROVE FALSE
  OBVIOUS
<1>1. PICK T \in C : \A U \in C : U \subseteq T => U = T
  <2>1. C \in SUBSET SUBSET S
    OBVIOUS
  <2>2. C # {}
    OBVIOUS
  <2> HIDE DEF C
  <2> QED BY <2>1, <2>2, SmallestSet
<1>2. g[T] = SumStep(c, g, T) /\ w[T] = SumStep(c, w, T)
  BY DEF SumSolution
<1>3. T # {} => g[T \ {CHOOSE x \in T : TRUE}] = w[T \ {CHOOSE x \in T : TRUE}]
  BY <1>1
<1> QED
  BY <1>1, <1>2, <1>3 DEF SumStep

\* Whatever satisfies the step of the fold is the sum.
LEMMA SumIsSolution ==
  ASSUME NEW S, IsFiniteSet(S), NEW c, NEW w, SumSolution(c, S, w)
  PROVE  SumOf(c, S) = w[S]
<1> DEFINE g == CHOOSE h : SumSolution(c, S, h)
<1>1. SumSolution(c, S, g)
  BY Zenon
<1>2. SumOf(c, S) = g[S]
  BY SumIsChosen
<1> HIDE DEF g
<1>3. \A s \in SUBSET S : g[s] = w[s]
  BY <1>1, StepIsUnique
<1> QED
  BY <1>2, <1>3

\* The sum is the number of units.
LEMMA SumIsCount ==
  ASSUME NEW S, IsFiniteSet(S), NEW c, \A x \in S : c[x] \in Nat
  PROVE  SumOf(c, S) = Cardinality(SumUnits(c, S))
<1> DEFINE w == [s \in SUBSET S |-> Cardinality(SumUnits(c, s))]
<1>1. SumSolution(c, S, w)
  BY UnitsRecursion
<1>2. w[S] = Cardinality(SumUnits(c, S))
  OBVIOUS
<1> HIDE DEF w
<1>3. SumOf(c, S) = w[S]
  BY <1>1, SumIsSolution
<1> QED
  BY <1>2, <1>3

-----------------------------------------------------------------------------
\* A sum of natural numbers is a natural number.
LEMMA SumIsNat ==
  ASSUME NEW S, IsFiniteSet(S), NEW c, \A x \in S : c[x] \in Nat
  PROVE  SumOf(c, S) \in Nat
<1>1. IsFiniteSet(SumUnits(c, S))
  BY UnitsFinite
<1> QED BY <1>1, SumIsCount, FS_CardinalityType

\* The sum over no element.
LEMMA SumOfNone == ASSUME NEW c PROVE SumOf(c, {}) = 0
<1>1. SumUnits(c, {}) = {}
  BY DEF SumUnits
<1>2. SumOf(c, {}) = Cardinality(SumUnits(c, {}))
  BY SumIsCount, FS_EmptySet
<1> QED BY <1>1, <1>2, FS_EmptySet

\* An element adds its value.
LEMMA SumOfRest ==
  ASSUME NEW S, IsFiniteSet(S), NEW c, \A x \in S : c[x] \in Nat, NEW x \in S
  PROVE  SumOf(c, S) = c[x] + SumOf(c, S \ {x})
<1>1. IsFiniteSet(S \ {x})
  BY FS_RemoveElement
<1>2. SumOf(c, S) = Cardinality(SumUnits(c, S))
  BY SumIsCount
<1>3. SumOf(c, S \ {x}) = Cardinality(SumUnits(c, S \ {x}))
  BY <1>1, SumIsCount
<1>4. IsFiniteSet(SumUnits(c, S \ {x}))
  BY UnitsFinite
<1> QED BY <1>2, <1>3, <1>4, AddUnits

\* Functions that agree on S have the same sum over it.
LEMMA SumOfSame ==
  ASSUME NEW S, IsFiniteSet(S), NEW c, NEW d, \A x \in S : c[x] \in Nat /\ d[x] = c[x]
  PROVE  SumOf(c, S) = SumOf(d, S)
<1>1. SumUnits(c, S) = SumUnits(d, S)
  BY DEF SumUnits
<1> QED BY <1>1, SumIsCount

\* A larger function has a larger sum.
LEMMA SumOfLarger ==
  ASSUME NEW S, IsFiniteSet(S), NEW c, NEW d,
         \A x \in S : c[x] \in Nat /\ d[x] \in Nat /\ c[x] <= d[x]
  PROVE  SumOf(c, S) <= SumOf(d, S)
<1>1. \A x \in S : 1 .. c[x] \subseteq 1 .. d[x]
  OBVIOUS
<1>2. SumUnits(c, S) \subseteq SumUnits(d, S)
  BY <1>1 DEF SumUnits
<1>3. IsFiniteSet(SumUnits(d, S))
  BY UnitsFinite
<1>4. Cardinality(SumUnits(c, S)) <= Cardinality(SumUnits(d, S))
  BY <1>2, <1>3, FS_Subset
<1> QED BY <1>4, SumIsCount

\* The sum over a subset is no larger, and the same if nothing else has a value.
LEMMA SumOfSubset ==
  ASSUME NEW S, IsFiniteSet(S), NEW T \in SUBSET S, NEW c, \A x \in S : c[x] \in Nat
  PROVE  /\ SumOf(c, T) <= SumOf(c, S)
         /\ (\A x \in S \ T : c[x] = 0) => SumOf(c, T) = SumOf(c, S)
<1>1. SumUnits(c, T) \subseteq SumUnits(c, S)
  BY DEF SumUnits
<1>2. IsFiniteSet(T) /\ IsFiniteSet(SumUnits(c, S))
  BY FS_Subset, UnitsFinite
<1>3. SumOf(c, T) = Cardinality(SumUnits(c, T)) /\ SumOf(c, S) = Cardinality(SumUnits(c, S))
  BY <1>2, SumIsCount
<1>4. Cardinality(SumUnits(c, T)) <= Cardinality(SumUnits(c, S))
  BY <1>1, <1>2, FS_Subset
<1>5. ASSUME \A x \in S \ T : c[x] = 0 PROVE SumUnits(c, T) = SumUnits(c, S)
  <2>1. \A x \in S \ T : 1 .. c[x] = {}
    BY <1>5
  <2> QED BY <2>1 DEF SumUnits
<1> QED BY <1>3, <1>4, <1>5

\* A change at one element changes the sum by as much.
LEMMA SumOfChange ==
  ASSUME NEW S, IsFiniteSet(S), NEW c, \A y \in S : c[y] \in Nat, NEW x \in S,
         NEW d, d[x] \in Nat, \A y \in S \ {x} : d[y] = c[y]
  PROVE  SumOf(d, S) + c[x] = SumOf(c, S) + d[x]
<1>1. SumOf(c, S) = c[x] + SumOf(c, S \ {x}) /\ SumOf(d, S) = d[x] + SumOf(d, S \ {x})
  BY SumOfRest
<1>2. IsFiniteSet(S \ {x})
  BY FS_RemoveElement
<1>3. SumOf(c, S \ {x}) = SumOf(d, S \ {x}) /\ SumOf(c, S \ {x}) \in Nat
  BY <1>2, SumOfSame, SumIsNat
<1> QED
  BY <1>1, <1>3

\* The difference of two sums satisfies the step of the fold.
LEMMA DifferenceIsSolution ==
  ASSUME NEW S, IsFiniteSet(S), NEW b, NEW c, NEW d,
         \A x \in S : b[x] \in Nat /\ c[x] \in Nat /\ d[x] = b[x] - c[x],
         NEW w, w = [s \in SUBSET S |-> SumOf(b, s) - SumOf(c, s)]
  PROVE  SumSolution(d, S, w)
<1>1. ASSUME NEW s \in SUBSET S PROVE SumOf(b, s) - SumOf(c, s) = SumStep(d, w, s)
  <2>1. CASE s = {}
    BY <2>1, SumOfNone DEF SumStep
  <2>2. CASE s # {}
    <3> DEFINE x == CHOOSE y \in s : TRUE
    <3>1. x \in s /\ s \ {x} \in SUBSET S
      BY <2>2
    <3>2. IsFiniteSet(s) /\ IsFiniteSet(s \ {x})
      BY FS_Subset
    <3> HIDE DEF x
    <3>3. SumOf(b, s) = b[x] + SumOf(b, s \ {x}) /\ SumOf(c, s) = c[x] + SumOf(c, s \ {x})
      BY <3>1, <3>2, SumOfRest
    <3>4. SumOf(b, s \ {x}) \in Nat /\ SumOf(c, s \ {x}) \in Nat
      BY <3>2, SumIsNat
    <3>5. w[s \ {x}] = SumOf(b, s \ {x}) - SumOf(c, s \ {x})
      BY <3>1
    <3>6. SumStep(d, w, s) = d[x] + w[s \ {x}]
      BY <2>2 DEF SumStep, x
    <3>7. b[x] \in Nat /\ c[x] \in Nat /\ d[x] = b[x] - c[x]
      BY <3>1
    <3> QED
      BY <3>3, <3>4, <3>5, <3>6, <3>7
  <2> QED
    BY <2>1, <2>2
<1> QED
  BY <1>1 DEF SumSolution

\* The sum of the differences is the difference of the sums.
LEMMA SumOfDifferences ==
  ASSUME NEW S, IsFiniteSet(S), NEW b, NEW c, NEW d,
         \A x \in S : b[x] \in Nat /\ c[x] \in Nat /\ d[x] = b[x] - c[x]
  PROVE  SumOf(d, S) = SumOf(b, S) - SumOf(c, S)
<1> DEFINE w == [s \in SUBSET S |-> SumOf(b, s) - SumOf(c, s)]
<1>1. SumSolution(d, S, w)
  BY DifferenceIsSolution
<1>2. w[S] = SumOf(b, S) - SumOf(c, S)
  OBVIOUS
<1> HIDE DEF w
<1>3. SumOf(d, S) = w[S]
  BY <1>1, SumIsSolution
<1> QED
  BY <1>2, <1>3

\* Integers can be summed: they are differences of natural numbers.
LEMMA SumIsDefined ==
  ASSUME NEW S, IsFiniteSet(S), NEW d, \A x \in S : d[x] \in Int
  PROVE  \E w : SumSolution(d, S, w)
<1> DEFINE b == [x \in S |-> IF d[x] >= 0 THEN d[x] ELSE 0]
           c == [x \in S |-> IF d[x] >= 0 THEN 0 ELSE -d[x]]
           w == [s \in SUBSET S |-> SumOf(b, s) - SumOf(c, s)]
<1>1. \A x \in S : b[x] \in Nat /\ c[x] \in Nat /\ d[x] = b[x] - c[x]
  OBVIOUS
<1> HIDE DEF b, c
<1>2. SumSolution(d, S, w)
  BY <1>1, DifferenceIsSolution
<1> HIDE DEF w
<1> QED
  BY <1>2

\* The sum of the totals is the total of the sums.
LEMMA SumOfTotals ==
  ASSUME NEW S, IsFiniteSet(S), NEW b, NEW c, NEW d,
         \A x \in S : b[x] \in Nat /\ c[x] \in Nat /\ d[x] = b[x] + c[x]
  PROVE  SumOf(d, S) = SumOf(b, S) + SumOf(c, S)
<1>1. \A x \in S : d[x] \in Nat /\ b[x] = d[x] - c[x]
  OBVIOUS
<1>2. SumOf(b, S) = SumOf(d, S) - SumOf(c, S)
  BY <1>1, SumOfDifferences
<1>3. SumOf(b, S) \in Nat /\ SumOf(c, S) \in Nat /\ SumOf(d, S) \in Nat
  BY <1>1, SumIsNat
<1> QED
  BY <1>2, <1>3

\* A finite set of numbers that is not empty has a greatest element.
LEMMA GreatestElement ==
  ASSUME NEW S, IsFiniteSet(S), \A x \in S : x \in Nat, S # {}
  PROVE  \E m \in S : \A x \in S : x <= m
<1> DEFINE C == {s \in SUBSET S : s # {} /\ ~\E m \in s : \A x \in s : x <= m}
<1> SUFFICES ASSUME C # {} PROVE FALSE
  OBVIOUS
<1>1. PICK T \in C : \A U \in C : U \subseteq T => U = T
  <2>1. C \in SUBSET SUBSET S
    OBVIOUS
  <2>2. C # {}
    OBVIOUS
  <2> HIDE DEF C
  <2> QED BY <2>1, <2>2, SmallestSet
<1>2. PICK x \in T : TRUE
  OBVIOUS
<1>3. CASE T = {x}
  BY <1>3
<1>4. CASE T # {x}
  <2>1. T \ {x} \in SUBSET S /\ T \ {x} # {} /\ T \ {x} \notin C
    BY <1>1, <1>2, <1>4
  <2>2. PICK m \in T \ {x} : \A y \in T \ {x} : y <= m
    BY <2>1
  <2>3. \E k \in T : \A y \in T : y <= k
    <3>1. CASE x <= m
      BY <2>2, <3>1
    <3>2. CASE m <= x
      <4>1. \A y \in T : y <= x
        BY <2>2, <3>2
      <4> QED BY <1>2, <4>1
    <3> QED BY <2>2, <1>2, <3>1, <3>2
  <2> QED BY <2>3
<1> QED BY <1>3, <1>4
=============================================================================
