----------------------------- MODULE SetInduction -----------------------------
(***************************************************************************)
(* Induction without an operator as a parameter.  A property of the        *)
(* naturals, or of the subsets of a finite set, is given as the set of     *)
(* those that have it, so that the lemmas here can be cited for any        *)
(* property; from them follow the existence of the functions that the      *)
(* folds of the community modules define by recursion over a finite set,   *)
(* and a bound of the sums they compute.                                   *)
(***************************************************************************)
EXTENDS Integers, FiniteSetTheorems, WellFoundedInduction, TLAPS

\* WFMin in the form in which the provers find its instances.
LEMMA MinimalElement ==
  \A R, S : IsWellFoundedOn(R, S) =>
    \A T : T \subseteq S /\ T # {} => \E x \in T : \A y \in T : ~(<<y, x>> \in R)
<1> SUFFICES ASSUME NEW R, NEW S, IsWellFoundedOn(R, S), NEW T, T \subseteq S, T # {}
             PROVE  \E x \in T : \A y \in T : ~(<<y, x>> \in R)
  OBVIOUS
<1> QED BY WFMin, SMTT(30)

\* The naturals under the relation that the operator < makes on them.
LEMMA LessThanIsWellFounded ==
  /\ IsWellFoundedOn(OpToRel(<, Nat), Nat)
  /\ \A m, n \in Nat : m < n => <<m, n>> \in OpToRel(<, Nat)
<1>1. IsWellFoundedOn(OpToRel(<, Nat), Nat)
  BY NatLessThanWellFounded, Zenon
<1>2. \A m, n \in Nat : m < n => <<m, n>> \in OpToRel(<, Nat)
  BY DEF OpToRel
<1>3. QED BY <1>1, <1>2, Zenon

LEMMA LeastByRelation ==
  ASSUME NEW R, \A m, n \in Nat : m < n => <<m, n>> \in R,
         NEW T, T \subseteq Nat, \E x \in T : \A y \in T : ~(<<y, x>> \in R)
  PROVE  \E n \in T : \A m \in T : n <= m
<1>1. PICK n \in T : \A m \in T : ~(<<m, n>> \in R)
  OBVIOUS
<1>2. ASSUME NEW m \in T PROVE n <= m
  <2>1. ~(m < n) BY <1>1
  <2>2. QED BY <2>1
<1>3. QED BY <1>2

\* A set of naturals that is not empty has a least element.
LEMMA LeastNatural ==
  ASSUME NEW T, T \subseteq Nat, T # {}
  PROVE  \E n \in T : \A m \in T : n <= m
<1>1. \E x \in T : \A y \in T : ~(<<y, x>> \in OpToRel(<, Nat))
  BY NatLessThanWellFounded, MinimalElement, Zenon
<1>2. QED BY <1>1, LessThanIsWellFounded, LeastByRelation, Zenon

\* Induction, for a property given as the set of the naturals that have it.
LEMMA SetOfAllNaturals ==
  ASSUME NEW T, 0 \in T, \A n \in Nat : n \in T => n + 1 \in T
  PROVE  Nat \subseteq T
<1>1. SUFFICES ASSUME Nat \ T # {} PROVE FALSE
  OBVIOUS
<1>2. PICK n \in Nat \ T : \A m \in Nat \ T : n <= m
  <2>1. Nat \ T \subseteq Nat OBVIOUS
  <2>2. QED BY <1>1, <2>1, LeastNatural, Zenon
<1>3. n # 0 /\ n - 1 \in Nat BY <1>2
<1>4. n - 1 \in T BY <1>2, <1>3
<1>5. n - 1 + 1 = n BY <1>2
<1>6. QED BY <1>2, <1>3, <1>4, <1>5

\* The same for the subsets of a finite set.
LEMMA SetOfAllSubsets ==
  ASSUME NEW U, IsFiniteSet(U), NEW F, {} \in F,
         \A T \in SUBSET U : T # {} /\ (\A x \in T : T \ {x} \in F) => T \in F
  PROVE  SUBSET U \subseteq F
<1> DEFINE G == {n \in Nat : \A T \in SUBSET U : Cardinality(T) = n => T \in F}
<1>1. \A T \in SUBSET U : IsFiniteSet(T) /\ Cardinality(T) \in Nat
  BY FS_Subset, FS_CardinalityType
<1>2. 0 \in G
  BY <1>1, FS_EmptySet
<1>3. ASSUME NEW n \in Nat, n \in G PROVE n + 1 \in G
  <2>1. SUFFICES ASSUME NEW T \in SUBSET U, Cardinality(T) = n + 1 PROVE T \in F
    OBVIOUS
  <2>2. T # {} BY <1>1, <2>1, FS_EmptySet
  <2>3. ASSUME NEW x \in T PROVE T \ {x} \in F
    <3>1. Cardinality(T \ {x}) = n BY <1>1, <2>1, FS_RemoveElement
    <3>2. QED BY <1>3, <3>1
  <2>4. T # {} /\ (\A x \in T : T \ {x} \in F) => T \in F OBVIOUS
  <2>5. QED BY <2>2, <2>3, <2>4
<1>4. Nat \subseteq G
  <2> HIDE DEF G
  <2> QED BY <1>2, <1>3, SetOfAllNaturals
<1>5. QED BY <1>1, <1>4

\* A recursion over the subsets of U with values in V: c chooses the element
\* that is taken out of a subset, H[T] makes of the value for the rest the one
\* for T.
IsRecursion(U, V, base, c, H) ==
  /\ IsFiniteSet(U) /\ base \in V
  /\ \A T \in SUBSET U : T # {} => c[T] \in T
  /\ \A T \in SUBSET U : \A v \in V : T # {} => H[T][v] \in V

\* g is the function it defines.
Solution(g, U, V, base, c, H) ==
  /\ g \in [SUBSET U -> V]
  /\ \A T \in SUBSET U : g[T] = IF T = {} THEN base ELSE H[T][g[T \ {c[T]}]]

\* There is such a function.
LEMMA RecursionOnSubsets ==
  ASSUME NEW U, NEW V, NEW base, NEW c, NEW H, IsRecursion(U, V, base, c, H)
  PROVE  \E g : Solution(g, U, V, base, c, H)
<1> USE DEF IsRecursion
<1> DEFINE D(n) == {T \in SUBSET U : Cardinality(T) <= n}
           Solves(g, n) == /\ g \in [D(n) -> V]
                           /\ \A T \in D(n) : g[T] = IF T = {} THEN base ELSE H[T][g[T \ {c[T]}]]
           K == {n \in Nat : \E g : Solves(g, n)}
<1>1. \A T \in SUBSET U : IsFiniteSet(T) /\ Cardinality(T) \in Nat
  BY FS_Subset, FS_CardinalityType
<1>2. 0 \in K
  <2>1. \A T \in D(0) : T = {} BY <1>1, FS_EmptySet
  <2> DEFINE g == [T \in D(0) |-> base]
  <2>2. g \in [D(0) -> V] OBVIOUS
  <2>3. Solves(g, 0) BY <2>1, <2>2
  <2>4. QED BY <2>3
<1>3. ASSUME NEW n \in Nat, n \in K PROVE n + 1 \in K
  <2>1. PICK g : Solves(g, n) BY <1>3
  <2> DEFINE h == [T \in D(n + 1) |-> IF T = {} THEN base ELSE H[T][g[T \ {c[T]}]]]
  <2>2. \A T \in D(n + 1) : T # {} => T \ {c[T]} \in D(n)
    BY <1>1, FS_RemoveElement
  <2>3. \A T \in D(n) : T \in D(n + 1) /\ h[T] = g[T]
    BY <1>1, <2>1
  <2>4. h \in [D(n + 1) -> V]
    BY <2>1, <2>2
  <2>5. Solves(h, n + 1)
    BY <2>2, <2>3, <2>4
  <2>6. QED
    <3> HIDE DEF Solves, h, D
    <3> QED BY <2>5
<1>4. Nat \subseteq K
  <2> HIDE DEF K
  <2> QED BY <1>2, <1>3, SetOfAllNaturals
<1>5. D(Cardinality(U)) = SUBSET U /\ Cardinality(U) \in Nat
  BY <1>1, FS_Subset, FS_CardinalityType
<1>6. PICK g : Solves(g, Cardinality(U))
  BY <1>4, <1>5
<1>7. QED BY <1>5, <1>6 DEF Solution

--------------------------------------------------------------------------------
(* Sums over a finite set, as MapThenSumSet of FiniteSetsExt computes them: one   *)
(* function gives the sum over every subset.                                      *)

SumsUp(g, w, S) ==
  g = [T \in SUBSET S |-> IF T = {} THEN 0
                         ELSE w[CHOOSE x \in T : TRUE] + g[T \ {CHOOSE x \in T : TRUE}]]

\* The function exists.
LEMMA SumExists ==
  ASSUME NEW S, IsFiniteSet(S), NEW w, \A s \in S : w[s] \in Int
  PROVE  \E g : SumsUp(g, w, S)
<1> DEFINE c == [T \in SUBSET S |-> CHOOSE x \in T : TRUE]
           V == Int
           H == [T \in SUBSET S |-> [v \in V |-> w[c[T]] + v]]
           base == 0
<1>1. \A T \in SUBSET S : T # {} => c[T] \in T
  OBVIOUS
<1>2. IsRecursion(S, V, base, c, H)
  BY <1>1 DEF IsRecursion
<1>3. \E g : Solution(g, S, V, base, c, H)
  <2> HIDE DEF c, H, V, base
  <2> QED BY <1>2, RecursionOnSubsets
<1>4. PICK g \in [SUBSET S -> V] :
      \A T \in SUBSET S : g[T] = IF T = {} THEN base ELSE H[T][g[T \ {c[T]}]]
  <2> HIDE DEF c, H, V, base
  <2> QED BY <1>3 DEF Solution
<1> DEFINE Next(T) == IF T = {} THEN 0
                      ELSE w[CHOOSE x \in T : TRUE] + g[T \ {CHOOSE x \in T : TRUE}]
<1>5. ASSUME NEW T \in SUBSET S PROVE g[T] = Next(T)
  <2>1. CASE T = {} BY <1>4, <2>1
  <2>2. CASE T # {}
    <3>1. g[T] = H[T][g[T \ {c[T]}]] BY <1>4, <2>2
    <3>2. g[T \ {c[T]}] \in Int BY <1>4
    <3>3. c[T] = CHOOSE x \in T : TRUE OBVIOUS
    <3>4. H[T][g[T \ {c[T]}]] = w[c[T]] + g[T \ {c[T]}]
      <4> HIDE DEF c
      <4> QED BY <3>2
    <3>5. QED
      <4> HIDE DEF c, H
      <4> QED BY <2>2, <3>1, <3>3, <3>4
  <2>3. QED BY <2>1, <2>2
<1>6. g = [T \in SUBSET S |-> g[T]] BY <1>4
<1>7. g = [T \in SUBSET S |-> Next(T)]
  <2> HIDE DEF Next
  <2> QED BY <1>5, <1>6
<1>8. QED BY <1>7 DEF SumsUp

\* A sum of naturals up to B is at most B for each of them that is not zero.
LEMMA SumBound ==
  ASSUME NEW S, IsFiniteSet(S), NEW w, NEW B \in Nat, \A s \in S : w[s] \in 0..B,
         NEW g, SumsUp(g, w, S)
  PROVE  g[S] \in Nat /\ g[S] <= B * Cardinality({s \in S : w[s] # 0})
<1> DEFINE Counts(T) == Cardinality({s \in T : w[s] # 0})
           F == {T \in SUBSET S : g[T] \in Nat /\ g[T] <= B * Counts(T)}
<1>1. \A T \in SUBSET S : Counts(T) \in Nat
  BY FS_Subset, FS_CardinalityType
<1>2. {} \in F
  <2>1. g[{}] = 0 BY DEF SumsUp
  <2>2. QED BY <1>1, <2>1
<1>3. ASSUME NEW T \in SUBSET S, T # {}, \A x \in T : T \ {x} \in F
      PROVE  T \in F
  <2> DEFINE x == CHOOSE y \in T : TRUE
             rest == T \ {x}
  <2>1. x \in T BY <1>3
  <2>2. g[T] = w[x] + g[rest] BY <1>3 DEF SumsUp
  <2> HIDE DEF x
  <2>3. g[rest] \in Nat /\ g[rest] <= B * Counts(rest) BY <1>3, <2>1
  <2>4. CASE w[x] = 0
    <3>1. {s \in rest : w[s] # 0} = {s \in T : w[s] # 0} BY <2>4
    <3>2. g[T] = g[rest]
      <4> HIDE DEF rest
      <4> QED BY <2>2, <2>3, <2>4
    <3>3. Counts(T) = Counts(rest) BY <3>1
    <3>4. QED BY <2>3, <3>2, <3>3
  <2>5. CASE w[x] # 0
    <3>1. {s \in rest : w[s] # 0} = {s \in T : w[s] # 0} \ {x} OBVIOUS
    <3>2. IsFiniteSet({s \in T : w[s] # 0}) BY FS_Subset
    <3>3. Counts(rest) = Counts(T) - 1
      <4>1. x \in {s \in T : w[s] # 0} BY <2>1, <2>5
      <4>2. Cardinality({s \in T : w[s] # 0} \ {x}) = Cardinality({s \in T : w[s] # 0}) - 1
        <5> HIDE DEF x
        <5> QED BY <3>2, <4>1, FS_RemoveElement
      <4>3. QED BY <3>1, <4>2
    <3>4. B * Counts(T) = B * Counts(rest) + B
      <4> HIDE DEF Counts
      <4> QED BY <1>1, <3>3
    <3>5. w[x] \in Nat /\ w[x] <= B BY <2>1
    <3>6. g[T] \in Nat /\ g[T] <= B * Counts(T)
      <4> HIDE DEF Counts
      <4>1. Counts(rest) \in Nat /\ Counts(T) \in Nat BY <1>1
      <4>2. QED BY <2>2, <2>3, <3>4, <3>5, <4>1
    <3>7. QED BY <3>6
  <2>6. QED BY <2>4, <2>5
<1>4. SUBSET S \subseteq F
  <2> HIDE DEF F
  <2> QED BY <1>2, <1>3, SetOfAllSubsets
<1>5. S \in F BY <1>4
<1>6. QED BY <1>5

\* The sum of a set is that of its first element and of the others.
LEMMA SumUnfolds ==
  ASSUME NEW S, NEW w, NEW g, SumsUp(g, w, S), NEW T \in SUBSET S
  PROVE  /\ T = {} => g[T] = 0
         /\ T # {} => LET x == CHOOSE y \in T : TRUE
                      IN  x \in T /\ g[T] = w[x] + g[T \ {x}]
<1>1. g[T] = IF T = {} THEN 0
             ELSE w[CHOOSE x \in T : TRUE] + g[T \ {CHOOSE x \in T : TRUE}]
  BY DEF SumsUp
<1>2. T # {} => (CHOOSE y \in T : TRUE) \in T
  OBVIOUS
<1>3. QED
  BY <1>1, <1>2

LEMMA SumInt ==
  ASSUME NEW S, IsFiniteSet(S), NEW w, \A s \in S : w[s] \in Int, NEW g, SumsUp(g, w, S)
  PROVE  \A T \in SUBSET S : g[T] \in Int
<1> DEFINE F == {T \in SUBSET S : g[T] \in Int}
<1>1. {} \in F
  <2>1. g[{}] = 0
    BY SumUnfolds
  <2>2. QED
    BY <2>1
<1>2. ASSUME NEW T \in SUBSET S, T # {}, \A x \in T : T \ {x} \in F
      PROVE  T \in F
  <2> DEFINE x == CHOOSE y \in T : TRUE
  <2>1. x \in T /\ g[T] = w[x] + g[T \ {x}]
    BY <1>2, SumUnfolds
  <2> HIDE DEF x
  <2>2. g[T \ {x}] \in Int /\ w[x] \in Int
    BY <1>2, <2>1
  <2>3. QED
    BY <2>1, <2>2
<1>3. SUBSET S \subseteq F
  <2> HIDE DEF F
  <2> QED BY <1>1, <1>2, SetOfAllSubsets
<1>4. QED
  BY <1>3

\* A sum of naturals is a natural, and no term exceeds it.
LEMMA SumNat ==
  ASSUME NEW S, IsFiniteSet(S), NEW w, \A s \in S : w[s] \in Nat, NEW g, SumsUp(g, w, S)
  PROVE  g[S] \in Nat /\ \A s \in S : w[s] <= g[S]
<1> DEFINE F == {T \in SUBSET S : g[T] \in Nat /\ \A s \in T : w[s] <= g[T]}
<1>1. {} \in F
  <2>1. g[{}] = 0
    BY SumUnfolds
  <2>2. QED
    BY <2>1
<1>2. ASSUME NEW T \in SUBSET S, T # {}, \A x \in T : T \ {x} \in F
      PROVE  T \in F
  <2> DEFINE x == CHOOSE y \in T : TRUE
  <2>1. x \in T /\ g[T] = w[x] + g[T \ {x}]
    BY <1>2, SumUnfolds
  <2> HIDE DEF x
  <2>2. /\ g[T \ {x}] \in Nat /\ w[x] \in Nat
        /\ \A s \in T \ {x} : w[s] <= g[T \ {x}]
    BY <1>2, <2>1
  <2>3. ASSUME NEW s \in T
        PROVE  w[s] <= g[T]
    <3>1. CASE s = x
      BY <2>1, <2>2, <3>1
    <3>2. CASE s # x
      <4>1. w[s] <= g[T \ {x}] /\ w[s] \in Nat
        BY <2>2, <3>2
      <4>2. QED
        BY <2>1, <2>2, <4>1
    <3>3. QED
      BY <3>1, <3>2
  <2>4. g[T] \in Nat
    BY <2>1, <2>2
  <2>5. QED
    BY <2>3, <2>4
<1>3. SUBSET S \subseteq F
  <2> HIDE DEF F
  <2> QED BY <1>1, <1>2, SetOfAllSubsets
<1>4. QED
  BY <1>3

\* Term by term a comparison of multiples carries over to the sums.
LEMMA SumsCompare ==
  ASSUME NEW S, IsFiniteSet(S), NEW w, NEW v, NEW a \in Int, NEW b \in Int,
         \A s \in S : w[s] \in Int /\ v[s] \in Int /\ a * w[s] <= b * v[s],
         NEW g, SumsUp(g, w, S), NEW h, SumsUp(h, v, S)
  PROVE  a * g[S] <= b * h[S]
<1> DEFINE F == {T \in SUBSET S : a * g[T] <= b * h[T]}
<1>1. {} \in F
  <2>1. g[{}] = 0 /\ h[{}] = 0
    BY SumUnfolds
  <2>2. a * 0 <= b * 0
    OBVIOUS
  <2>3. QED
    BY <2>1, <2>2
<1>2. ASSUME NEW T \in SUBSET S, T # {}, \A x \in T : T \ {x} \in F
      PROVE  T \in F
  <2> DEFINE x == CHOOSE y \in T : TRUE
             rest == T \ {x}
  <2>1. /\ x \in T /\ g[T] = w[x] + g[rest] /\ h[T] = v[x] + h[rest]
    BY <1>2, SumUnfolds
  <2> HIDE DEF x
  <2>2. a * g[rest] <= b * h[rest]
    BY <1>2, <2>1
  <2>3. g[rest] \in Int /\ h[rest] \in Int
    BY SumInt
  <2>4. w[x] \in Int /\ v[x] \in Int /\ a * w[x] <= b * v[x]
    BY <2>1
  <2>5. ASSUME NEW p \in Int, NEW q \in Int, NEW m \in Int, NEW n \in Int,
               a * p <= b * q, a * m <= b * n
        PROVE  a * (p + m) <= b * (q + n)
    <3>1. /\ a * (p + m) = a * p + a * m
          /\ b * (q + n) = b * q + b * n
      OBVIOUS
    <3>2. /\ a * p \in Int /\ a * m \in Int
          /\ b * q \in Int /\ b * n \in Int
      OBVIOUS
    <3>3. QED
      BY <2>5, <3>1, <3>2
  <2>6. a * g[T] <= b * h[T]
    <3> HIDE DEF rest
    <3>1. QED
      BY <2>1, <2>2, <2>3, <2>4, <2>5
  <2>7. QED
    BY <2>6
<1>3. SUBSET S \subseteq F
  <2> HIDE DEF F
  <2> QED BY <1>1, <1>2, SetOfAllSubsets
<1>4. QED
  BY <1>3

--------------------------------------------------------------------------------
(* Folds over a sequence, as FoldLeft of SequencesExt computes them: a recursion  *)
(* over the sets of positions that takes out the last one.                        *)

LastOf(T) == CHOOSE x \in T : \A y \in T : x >= y

LEMMA LastIsThere ==
  ASSUME NEW n \in Nat, NEW T \in SUBSET (1..n), T # {}
  PROVE  LastOf(T) \in T
<1> DEFINE D == {n - x : x \in T}
<1>1. D \subseteq Nat /\ D # {}
  <2>1. \A x \in T : x \in Int /\ n - x \in Nat
    OBVIOUS
  <2>2. QED BY <2>1
<1>2. PICK d \in D : \A e \in D : d <= e
  <2> HIDE DEF D
  <2> QED BY <1>1, LeastNatural
<1>3. PICK x \in T : d = n - x
  OBVIOUS
<1>4. ASSUME NEW y \in T PROVE x >= y
  <2>1. n - x <= n - y BY <1>2, <1>3
  <2>2. x \in Nat /\ y \in Nat OBVIOUS
  <2>3. QED BY <2>1, <2>2
<1>5. QED
  BY <1>4 DEF LastOf

LEMMA LastOfPrefix ==
  ASSUME NEW k \in Nat
  PROVE  /\ LastOf(1..(k + 1)) = k + 1
         /\ (1..(k + 1)) \ {k + 1} = 1..k
<1> DEFINE x == LastOf(1..(k + 1))
<1>1. k + 1 \in 1..(k + 1) /\ \A y \in 1..(k + 1) : k + 1 >= y
  OBVIOUS
<1>2. x \in 1..(k + 1) /\ \A y \in 1..(k + 1) : x >= y
  BY <1>1 DEF LastOf
<1>3. x = k + 1
  <2> HIDE DEF x
  <2> QED BY <1>1, <1>2
<1>4. (1..(k + 1)) \ {k + 1} = 1..k
  OBVIOUS
<1>5. QED
  BY <1>3, <1>4

\* A fold over n positions: H[i] makes of what is accumulated before position i
\* what is accumulated with it.
IsFold(n, V, base, H) ==
  /\ n \in Nat /\ base \in V
  /\ \A i \in 1..n : \A v \in V : H[i][v] \in V

\* g is the function that carries it out.
FoldSolution(g, n, V, base, H) ==
  /\ g \in [SUBSET (1..n) -> V]
  /\ \A T \in SUBSET (1..n) :
       g[T] = IF T = {} THEN base ELSE H[LastOf(T)][g[T \ {LastOf(T)}]]

\* There is such a function.
LEMMA FoldExists ==
  ASSUME NEW n, NEW V, NEW base, NEW H, IsFold(n, V, base, H)
  PROVE  \E g : FoldSolution(g, n, V, base, H)
<1> USE DEF IsFold
<1> DEFINE U == 1..n
           c == [T \in SUBSET U |-> LastOf(T)]
           K == [T \in SUBSET U |-> H[LastOf(T)]]
<1>1. \A T \in SUBSET U : T # {} => LastOf(T) \in T
  BY LastIsThere
<1>2. IsFiniteSet(U)
  <2>1. 1 \in Int /\ n \in Int OBVIOUS
  <2>2. QED BY <2>1, FS_Interval, Zenon
<1>3. \A T \in SUBSET U : c[T] = LastOf(T) /\ K[T] = H[LastOf(T)]
  OBVIOUS
<1> HIDE DEF c, K, U
<1>4. \A T \in SUBSET U : \A v \in V : T # {} => K[T][v] \in V
  <2> SUFFICES ASSUME NEW T \in SUBSET U, NEW v \in V, T # {} PROVE K[T][v] \in V
    OBVIOUS
  <2>1. LastOf(T) \in 1..n BY <1>1 DEF U
  <2>2. QED BY <2>1, <1>3
<1>5. IsRecursion(U, V, base, c, K)
  BY <1>1, <1>2, <1>3, <1>4 DEF IsRecursion
<1>6. PICK g : Solution(g, U, V, base, c, K)
  BY <1>5, RecursionOnSubsets
<1>7. /\ g \in [SUBSET U -> V]
      /\ \A T \in SUBSET U : g[T] = IF T = {} THEN base ELSE K[T][g[T \ {c[T]}]]
  BY <1>6 DEF Solution
<1>8. \A T \in SUBSET U : g[T] = IF T = {} THEN base ELSE H[LastOf(T)][g[T \ {LastOf(T)}]]
  BY <1>3, <1>7
<1>9. QED
  <2> HIDE DEF LastOf
  <2> QED BY <1>7, <1>8, Zenon DEF U, FoldSolution

================================================================================
