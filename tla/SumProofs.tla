------------------------------ MODULE SumProofs ------------------------------
(***************************************************************************)
(* Sums over finite sets: what SumFunctionOnSet of the community modules   *)
(* gives, from its definition as a recursive function on the subsets of    *)
(* the set.  That such a function exists, and each fact about it, follows  *)
(* by taking a smallest set for which it fails.                            *)
(***************************************************************************)
EXTENDS Integers, Functions, FiniteSetTheorems, WellFoundedInduction, TLAPS

Picked(s) == CHOOSE x \in s : TRUE

\* f sums fun over each subset of S, taking the picked elements one by one.
Sums(f, fun, S) ==
  f = [s \in SUBSET S |-> IF s = {} THEN 0 ELSE fun[Picked(s)] + f[s \ {Picked(s)}]]

LEMMA SumIs ==
  ASSUME NEW fun, NEW S
  PROVE  SumFunctionOnSet(fun, S) = (CHOOSE f : Sums(f, fun, S))[S]
BY DEF SumFunctionOnSet, FoldFunctionOnSet, MapThenFoldSet, Sums, Picked

\* A set of naturals has a smallest.
LEMMA LeastNatural ==
  ASSUME NEW T, T \subseteq Nat, T # {}
  PROVE  \E x \in T : \A y \in T : x <= y
<1>1. PICK x \in T : \A y \in T : ~(<<y, x>> \in OpToRel(<, Nat))
  BY NatLessThanWellFounded, WFMin
<1>2. ASSUME NEW y \in T PROVE x <= y
  <2>1. x \in Nat /\ y \in Nat
    OBVIOUS
  <2>2. ~(y < x)
    BY <1>1, <2>1 DEF OpToRel
  <2>. QED
    BY <2>1, <2>2
<1>. QED
  BY <1>2

\* Of finite sets, one has no other of them within it.
LEMMA LeastSet ==
  ASSUME NEW C, C # {}, \A S \in C : IsFiniteSet(S)
  PROVE  \E S \in C : \A U \in C : U \subseteq S => U = S
<1>. DEFINE T == {Cardinality(S) : S \in C}
<1>1. PICK n \in T : \A m \in T : n <= m
  <2>1. T \subseteq Nat /\ T # {}
    BY FS_CardinalityType
  <2>. HIDE DEF T
  <2>. QED
    BY <2>1, LeastNatural
<1>2. PICK S \in C : n = Cardinality(S)
  OBVIOUS
<1>3. ASSUME NEW U \in C, U \subseteq S PROVE U = S
  <2>1. Cardinality(U) <= Cardinality(S) /\ (Cardinality(S) = Cardinality(U) => S = U)
    BY <1>3, FS_Subset
  <2>2. Cardinality(S) \in Nat /\ Cardinality(U) \in Nat
    BY FS_CardinalityType
  <2>3. Cardinality(S) <= Cardinality(U)
    BY <1>1, <1>2
  <2>. QED
    BY <2>1, <2>2, <2>3
<1>. QED
  BY <1>3

LEMMA PickedIs ==
  ASSUME NEW s, s # {}
  PROVE  Picked(s) \in s
BY DEF Picked

\* There is only one such function ...
LEMMA SumsAgree ==
  ASSUME NEW fun, NEW S, IsFiniteSet(S), NEW f, Sums(f, fun, S), NEW g, Sums(g, fun, S)
  PROVE  f = g
<1>. DEFINE C == {s \in SUBSET S : f[s] # g[s]}
<1>1. CASE C # {}
  <2>1. \A s \in C : IsFiniteSet(s)
    BY FS_Subset
  <2>2. PICK s \in C : \A t \in C : t \subseteq s => t = s
    <3>. HIDE DEF C
    <3>. QED
      BY <1>1, <2>1, LeastSet
  <2>3. s # {}
    BY DEF Sums
  <2>4. /\ s \ {Picked(s)} \in SUBSET S /\ s \ {Picked(s)} # s
    BY <2>3, PickedIs
  <2>5. f[s \ {Picked(s)}] = g[s \ {Picked(s)}]
    BY <2>2, <2>4
  <2>. QED
    BY <2>3, <2>5 DEF Sums
<1>2. CASE C = {}
  BY <1>2 DEF Sums
<1>. QED
  BY <1>1, <1>2

\* ... and it is one for every subset, too.
LEMMA SumsWithin ==
  ASSUME NEW fun, NEW S, NEW f, Sums(f, fun, S), NEW T \in SUBSET S
  PROVE  Sums([s \in SUBSET T |-> f[s]], fun, T)
<1>1. \A s \in SUBSET T : s \in SUBSET S /\ s \ {Picked(s)} \in SUBSET T
  OBVIOUS
<1>. QED
  BY <1>1 DEF Sums

\* Where there is one, it gives the sum of every part of the set.
LEMMA SumsGiveParts ==
  ASSUME NEW fun, NEW S, IsFiniteSet(S), NEW f, Sums(f, fun, S), NEW T \in SUBSET S
  PROVE  SumFunctionOnSet(fun, T) = f[T]
<1>. DEFINE g == [s \in SUBSET T |-> f[s]]
<1>1. Sums(g, fun, T)
  BY SumsWithin
<1>2. Sums(CHOOSE h : Sums(h, fun, T), fun, T)
  BY <1>1
<1>3. g = CHOOSE h : Sums(h, fun, T)
  <2>1. IsFiniteSet(T)
    BY FS_Subset
  <2>. HIDE DEF g
  <2>. QED
    BY <1>1, <1>2, <2>1, SumsAgree
<1>4. g[T] = f[T]
  OBVIOUS
<1>. QED
  BY <1>3, <1>4, SumIs

LEMMA SumsExist ==
  ASSUME NEW fun, NEW S, IsFiniteSet(S)
  PROVE  \E f : Sums(f, fun, S)
<1>. DEFINE C == {T \in SUBSET S : ~\E f : Sums(f, fun, T)}
<1>1. CASE C # {}
  <2>1. \A T \in C : IsFiniteSet(T)
    BY FS_Subset
  <2>2. PICK T \in C : \A U \in C : U \subseteq T => U = T
    <3>. HIDE DEF C
    <3>. QED
      BY <1>1, <2>1, LeastSet
  <2>. DEFINE rest == T \ {Picked(T)}
              V == [s \in SUBSET T |-> SumFunctionOnSet(fun, s)]
              F == [s \in SUBSET T |-> IF s = T /\ T # {} THEN fun[Picked(T)] + V[rest] ELSE V[s]]
  <2>3. ASSUME NEW s \in SUBSET T, s # T \/ T = {}
        PROVE  V[s] = IF s = {} THEN 0 ELSE fun[Picked(s)] + V[s \ {Picked(s)}]
    <3>1. \E f : Sums(f, fun, s)
      <4>1. CASE s = {}
        <5>1. Sums([t \in SUBSET {} |-> 0], fun, {})
          BY DEF Sums
        <5>. QED
          BY <4>1, <5>1
      <4>2. CASE s # {}
        <5>1. s \in SUBSET S /\ s \notin C
          BY <2>2, <2>3, <4>2
        <5>. QED
          BY <5>1
      <4>. QED
        BY <4>1, <4>2
    <3>2. PICK f : Sums(f, fun, s)
      BY <3>1
    <3>3. IsFiniteSet(s)
      <4>1. s \in SUBSET S
        OBVIOUS
      <4>. QED
        BY <4>1, FS_Subset
    <3>4. V[s] = f[s] /\ V[s \ {Picked(s)}] = f[s \ {Picked(s)}]
      <4>1. s \in SUBSET s /\ s \ {Picked(s)} \in SUBSET s
        OBVIOUS
      <4>2. SumFunctionOnSet(fun, s) = f[s]
        BY <3>2, <3>3, <4>1, SumsGiveParts
      <4>3. SumFunctionOnSet(fun, s \ {Picked(s)}) = f[s \ {Picked(s)}]
        BY <3>2, <3>3, <4>1, SumsGiveParts
      <4>. QED
        BY <4>2, <4>3
    <3>5. f[s] = IF s = {} THEN 0 ELSE fun[Picked(s)] + f[s \ {Picked(s)}]
      BY <3>2 DEF Sums
    <3>. HIDE DEF V
    <3>. QED
      BY <3>4, <3>5
  <2>4. ASSUME NEW s \in SUBSET T
        PROVE  F[s] = IF s = {} THEN 0 ELSE fun[Picked(s)] + F[s \ {Picked(s)}]
    <3>. HIDE DEF V
    <3>1. s # {} => s \ {Picked(s)} # T /\ s \ {Picked(s)} \in SUBSET T
      BY PickedIs
    <3>2. CASE s = T /\ T # {}
      BY <3>1, <3>2
    <3>3. CASE ~(s = T /\ T # {})
      BY <2>3, <3>1, <3>3
    <3>. QED
      BY <3>2, <3>3
  <2>5. F = [s \in SUBSET T |-> IF s = {} THEN 0 ELSE fun[Picked(s)] + F[s \ {Picked(s)}]]
    <3>1. F = [s \in SUBSET T |-> F[s]]
      OBVIOUS
    <3>. HIDE DEF F
    <3>. QED
      BY <2>4, <3>1
  <2>. HIDE DEF F
  <2>6. Sums(F, fun, T)
    BY <2>5 DEF Sums
  <2>. QED
    BY <2>6
<1>2. CASE C = {}
  BY <1>2
<1>. QED
  BY <1>1, <1>2

\* The recursion a sum satisfies.
LEMMA SumStep ==
  ASSUME NEW fun, NEW S, IsFiniteSet(S)
  PROVE  /\ SumFunctionOnSet(fun, {}) = 0
         /\ S # {} => SumFunctionOnSet(fun, S)
                        = fun[Picked(S)] + SumFunctionOnSet(fun, S \ {Picked(S)})
<1>1. PICK f : Sums(f, fun, S)
  BY SumsExist
<1>2. \A T \in SUBSET S : SumFunctionOnSet(fun, T) = f[T]
  BY <1>1, SumsGiveParts
<1>3. \A s \in SUBSET S : f[s] = IF s = {} THEN 0 ELSE fun[Picked(s)] + f[s \ {Picked(s)}]
  BY <1>1 DEF Sums
<1>4. {} \in SUBSET S /\ S \in SUBSET S /\ S \ {Picked(S)} \in SUBSET S
  OBVIOUS
<1>. QED
  BY <1>2, <1>3, <1>4

\* Naturals sum up to a natural.
LEMMA SumType ==
  ASSUME NEW fun, NEW S, IsFiniteSet(S), \A x \in S : fun[x] \in Nat
  PROVE  SumFunctionOnSet(fun, S) \in Nat
<1>. DEFINE C == {T \in SUBSET S : SumFunctionOnSet(fun, T) \notin Nat}
<1>1. CASE C # {}
  <2>1. \A T \in C : IsFiniteSet(T)
    BY FS_Subset
  <2>2. PICK T \in C : \A U \in C : U \subseteq T => U = T
    <3>. HIDE DEF C
    <3>. QED
      BY <1>1, <2>1, LeastSet
  <2>3. IsFiniteSet(T) /\ T # {}
    <3>1. IsFiniteSet(T)
      BY <2>1
    <3>2. SumFunctionOnSet(fun, {}) = 0
      BY <3>1, SumStep
    <3>3. SumFunctionOnSet(fun, T) \notin Nat
      OBVIOUS
    <3>. QED
      BY <3>1, <3>2, <3>3
  <2>4. T \ {Picked(T)} # T /\ Picked(T) \in S /\ T \ {Picked(T)} \in SUBSET S
    BY <2>3, PickedIs
  <2>5. SumFunctionOnSet(fun, T \ {Picked(T)}) \in Nat /\ fun[Picked(T)] \in Nat
    BY <2>2, <2>4
  <2>6. SumFunctionOnSet(fun, T) = fun[Picked(T)] + SumFunctionOnSet(fun, T \ {Picked(T)})
    BY <2>3, SumStep
  <2>7. SumFunctionOnSet(fun, T) \in Nat
    BY <2>5, <2>6
  <2>. QED
    BY <2>7
<1>2. CASE C = {}
  BY <1>2
<1>. QED
  BY <1>1, <1>2

\* Functions that agree on a set have one sum.
LEMMA SumSame ==
  ASSUME NEW fun, NEW gun, NEW S, IsFiniteSet(S), \A x \in S : fun[x] = gun[x]
  PROVE  SumFunctionOnSet(fun, S) = SumFunctionOnSet(gun, S)
<1>. DEFINE C == {T \in SUBSET S : SumFunctionOnSet(fun, T) # SumFunctionOnSet(gun, T)}
<1>1. CASE C # {}
  <2>1. \A T \in C : IsFiniteSet(T)
    BY FS_Subset
  <2>2. PICK T \in C : \A U \in C : U \subseteq T => U = T
    <3>. HIDE DEF C
    <3>. QED
      BY <1>1, <2>1, LeastSet
  <2>3. IsFiniteSet(T) /\ T # {}
    BY <2>1, SumStep
  <2>4. T \ {Picked(T)} # T /\ Picked(T) \in S /\ T \ {Picked(T)} \in SUBSET S
    BY <2>3, PickedIs
  <2>5. SumFunctionOnSet(fun, T \ {Picked(T)}) = SumFunctionOnSet(gun, T \ {Picked(T)})
    BY <2>2, <2>4
  <2>6. fun[Picked(T)] = gun[Picked(T)]
    BY <2>4
  <2>. QED
    BY <2>3, <2>5, <2>6, SumStep
<1>2. CASE C = {}
  BY <1>2
<1>. QED
  BY <1>1, <1>2

\* One element more, in whatever order the sum takes them.
LEMMA SumAdd ==
  ASSUME NEW fun, NEW S, IsFiniteSet(S), NEW x, x \notin S,
         \A y \in S \cup {x} : fun[y] \in Nat
  PROVE  SumFunctionOnSet(fun, S \cup {x}) = SumFunctionOnSet(fun, S) + fun[x]
<1>. DEFINE Total(T) == SumFunctionOnSet(fun, T)
            All == S \cup {x}
            C == {T \in SUBSET All : \E y \in All \ T : Total(T \cup {y}) # Total(T) + fun[y]}
<1>0. IsFiniteSet(All) /\ \A T \in SUBSET All : IsFiniteSet(T) /\ Total(T) \in Nat
  <2>1. IsFiniteSet(All)
    BY FS_AddElement
  <2>. HIDE DEF All
  <2>. QED
    BY <2>1, FS_Subset, SumType DEF All
<1>1. CASE C # {}
  <2>2. PICK T \in C : \A U \in C : U \subseteq T => U = T
    <3>1. \A T \in C : IsFiniteSet(T)
      BY <1>0
    <3>. HIDE DEF C
    <3>. QED
      BY <1>1, <3>1, LeastSet
  <2>3. PICK y \in All \ T : Total(T \cup {y}) # Total(T) + fun[y]
    OBVIOUS
  <2>. DEFINE p == Picked(T \cup {y})
  <2>4. T \cup {y} \in SUBSET All /\ IsFiniteSet(T \cup {y}) /\ p \in T \cup {y}
    BY <1>0, PickedIs
  <2>5. Total(T \cup {y}) = fun[p] + Total((T \cup {y}) \ {p})
    BY <2>4, SumStep
  <2>. HIDE DEF p
  <2>6. CASE p = y
    <3>1. (T \cup {y}) \ {p} = T
      BY <2>6
    <3>2. fun[y] \in Nat /\ Total(T) \in Nat
      BY <1>0
    <3>. HIDE DEF Total
    <3>. QED
      BY <2>3, <2>5, <2>6, <3>1, <3>2
  <2>7. CASE p # y
    <3>. DEFINE R == T \ {p}
    <3>1. p \in T /\ R \in SUBSET All /\ R # T /\ R \subseteq T
      BY <2>4, <2>7
    <3>2. R \notin C
      BY <2>2, <3>1
    <3>3. (T \cup {y}) \ {p} = R \cup {y} /\ R \cup {p} = T
      BY <2>7, <3>1
    <3>4. y \in All \ R /\ p \in All \ R
      BY <3>1
    <3>5. Total(R \cup {y}) = Total(R) + fun[y] /\ Total(R \cup {p}) = Total(R) + fun[p]
      BY <3>1, <3>2, <3>4
    <3>6. fun[y] \in Nat /\ fun[p] \in Nat /\ Total(R) \in Nat
      BY <1>0, <3>1, <3>4
    <3>. HIDE DEF Total, R
    <3>. QED
      BY <2>3, <2>5, <3>3, <3>5, <3>6
  <2>. QED
    BY <2>6, <2>7
<1>2. CASE C = {}
  <2>1. S \in SUBSET All /\ x \in All \ S
    OBVIOUS
  <2>. QED
    BY <1>2, <2>1
<1>. QED
  BY <1>1, <1>2
=============================================================================
