-------------------------------- MODULE SetSums --------------------------------
(* Sums over finite sets: what MapThenSumSet, with which the store adds up the  *)
(* cpus of the running attempts (GumStore, CpuInUse), returns when an element   *)
(* is added to the set.                                                         *)
(*                                                                              *)
(* The community module defines the sum by a recursive function over subsets.   *)
(* Instead of an induction over it, the sum is shown to be the number of        *)
(* elements of a set, Units, for which the library counts.                      *)
EXTENDS Integers, FiniteSets, FiniteSetsExt, FiniteSetTheorems, WellFoundedInduction, TLAPS

Chosen(s) == CHOOSE x \in s : TRUE

\* The recursive equation of MapThenSumSet for the weights w, on subsets of S.
SumEquation(S, w, f) ==
  f = [s \in SUBSET S |-> IF s = {} THEN 0 ELSE w[Chosen(s)] + f[s \ {Chosen(s)}]]

\* As many units for each element as its weight says.
UnitsOf(w, x) == {x} \X (1 .. w[x])

Units(w, s) == UNION {UnitsOf(w, x) : x \in s}

LEMMA UnitsOfOne ==
  ASSUME NEW w, NEW x, w[x] \in Nat
  PROVE  IsFiniteSet(UnitsOf(w, x)) /\ Cardinality(UnitsOf(w, x)) = w[x]
<1>1. IsFiniteSet({x}) /\ Cardinality({x}) = 1
  BY FS_Singleton
<1>2. IsFiniteSet(1 .. w[x]) /\ Cardinality(1 .. w[x]) = w[x]
  <2>1. \A n \in Nat : IsFiniteSet(1 .. n) /\ Cardinality(1 .. n) = n
    BY FS_Interval
  <2> QED  BY <2>1
<1>3. /\ IsFiniteSet({x} \X (1 .. w[x]))
      /\ Cardinality({x} \X (1 .. w[x])) = Cardinality({x}) * Cardinality(1 .. w[x])
  BY <1>1, <1>2, FS_Product
<1> QED  BY <1>1, <1>2, <1>3 DEF UnitsOf

\* The units of a finite set are finitely many.
LEMMA UnitsFinite ==
  ASSUME NEW s, IsFiniteSet(s), NEW w, \A x \in s : w[x] \in Nat
  PROVE  IsFiniteSet(Units(w, s))
<1> DEFINE f == [x \in s |-> UnitsOf(w, x)]
           all == {UnitsOf(w, x) : x \in s}
<1>1. IsFiniteSet(all)
  <2>1. f \in Surjection(s, all)
    BY DEF Surjection
  <2> QED  BY <2>1, FS_Surjection
<1>2. \A T \in all : IsFiniteSet(T)
  BY UnitsOfOne
<1> QED  BY <1>1, <1>2, FS_UNION DEF Units

\* An element that is added adds its weight.
LEMMA UnitsAdd ==
  ASSUME NEW s, IsFiniteSet(s), NEW w, NEW x, x \notin s,
         w[x] \in Nat, \A y \in s : w[y] \in Nat
  PROVE  Cardinality(Units(w, s \cup {x})) = w[x] + Cardinality(Units(w, s))
<1>1. Units(w, s \cup {x}) = Units(w, s) \cup UnitsOf(w, x)
  BY DEF Units
<1>2. Units(w, s) \cap UnitsOf(w, x) = {}
  BY DEF Units, UnitsOf
<1>3. IsFiniteSet(Units(w, s)) /\ Cardinality(Units(w, s)) \in Nat
  BY UnitsFinite, FS_CardinalityType
<1>4. IsFiniteSet(UnitsOf(w, x)) /\ Cardinality(UnitsOf(w, x)) = w[x]
  BY UnitsOfOne
<1>5. Cardinality({}) = 0
  BY FS_EmptySet
<1>6. Cardinality(Units(w, s) \cup UnitsOf(w, x)) =
        Cardinality(Units(w, s)) + Cardinality(UnitsOf(w, x))
          - Cardinality(Units(w, s) \cap UnitsOf(w, x))
  BY <1>3, <1>4, FS_Union
<1>7. Cardinality(Units(w, s \cup {x})) = Cardinality(Units(w, s)) + w[x] - 0
  BY <1>1, <1>2, <1>4, <1>5, <1>6, Zenon
<1> DEFINE n == Cardinality(Units(w, s))
<1>8. n \in Nat /\ n + w[x] - 0 = w[x] + n
  <2> HIDE DEF n
  <2>1. n \in Nat => n + w[x] - 0 = w[x] + n
    OBVIOUS
  <2> QED  BY <1>3, <2>1 DEF n
<1> QED  BY <1>7, <1>8, Zenon

LEMMA ChosenIn == ASSUME NEW s, s # {} PROVE Chosen(s) \in s
BY DEF Chosen

\* Counting units solves the equation.
LEMMA UnitsSolve ==
  ASSUME NEW S, IsFiniteSet(S), NEW w, \A x \in S : w[x] \in Nat
  PROVE  SumEquation(S, w, [s \in SUBSET S |-> Cardinality(Units(w, s))])
<1> DEFINE f == [s \in SUBSET S |-> Cardinality(Units(w, s))]
<1> SUFFICES ASSUME NEW s \in SUBSET S
             PROVE  f[s] = IF s = {} THEN 0 ELSE w[Chosen(s)] + f[s \ {Chosen(s)}]
  BY DEF SumEquation
<1>1. CASE s = {}
  <2>1. Units(w, s) = {}
    BY <1>1 DEF Units
  <2> QED  BY <1>1, <2>1, FS_EmptySet
<1>2. CASE s # {}
  <2> DEFINE x == Chosen(s)
             rest == s \ {x}
  <2>1. x \in s
    BY <1>2, ChosenIn
  <2>2. rest \in SUBSET S /\ s = rest \cup {x} /\ x \notin rest
    BY <2>1
  <2>3. IsFiniteSet(rest)
    BY <2>2, FS_Subset
  <2>4. w[x] \in Nat /\ \A y \in rest : w[y] \in Nat
    BY <2>1, <2>2
  <2> HIDE DEF x, rest
  <2>5. Cardinality(Units(w, s)) = w[x] + Cardinality(Units(w, rest))
    BY <2>2, <2>3, <2>4, UnitsAdd
  <2>6. f[s] = w[x] + f[rest]
    BY <2>2, <2>5
  <2> QED  BY <1>2, <2>6 DEF x, rest
<1> QED  BY <1>1, <1>2

\* Nothing else does: of two solutions that differed on some subset, look at a
\* smallest one.
LEMMA OneSolution ==
  ASSUME NEW S, IsFiniteSet(S), NEW w, NEW f, NEW g,
         SumEquation(S, w, f), SumEquation(S, w, g)
  PROVE  \A s \in SUBSET S : f[s] = g[s]
<1> DEFINE differ == {s \in SUBSET S : f[s] # g[s]}
<1> SUFFICES ASSUME differ # {} PROVE FALSE
  OBVIOUS
<1>1. PICK T \in differ : \A U \in differ : <<U, T>> \notin StrictSubsetOrdering(S)
  <2>1. IsWellFoundedOn(StrictSubsetOrdering(S), SUBSET S)
    BY FS_StrictSubsetOrderingWellFounded, FS_FiniteSubsetsOfFinite
  <2>2. differ \subseteq SUBSET S
    OBVIOUS
  <2> HIDE DEF differ
  <2> QED  BY <2>1, <2>2, WFMin, Zenon
<1>2. T \in SUBSET S /\ f[T] # g[T]
  OBVIOUS
<1>3. f[T] = IF T = {} THEN 0 ELSE w[Chosen(T)] + f[T \ {Chosen(T)}]
  BY <1>2 DEF SumEquation
<1>4. g[T] = IF T = {} THEN 0 ELSE w[Chosen(T)] + g[T \ {Chosen(T)}]
  BY <1>2 DEF SumEquation
<1>5. T # {}
  BY <1>2, <1>3, <1>4
<1> DEFINE U == T \ {Chosen(T)}
<1>6. U \in SUBSET S /\ U \subseteq T /\ U # T
  BY <1>2, <1>5, ChosenIn
<1>7. U \in differ
  BY <1>2, <1>3, <1>4, <1>5, <1>6
<1> HIDE DEF U, differ
<1>8. <<U, T>> \in StrictSubsetOrdering(S)
  BY <1>2, <1>6 DEF StrictSubsetOrdering
<1> QED  BY <1>1, <1>7, <1>8

===============================================================================
