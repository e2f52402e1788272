--------------------------- MODULE CapacityProofs ---------------------------
(***************************************************************************)
(* The theorems of Capacity, for any Swarm, service and request: the       *)
(* Agent's verdict means what it says.  Most of it is arithmetic.  The     *)
(* folds of the algorithm and of the definition of room are recursive      *)
(* functions, so first that they exist and obey their equations; then what *)
(* holds of sums (any element first, monotonic, what is within the sum of  *)
(* limits can be spread within them); then that the saturated sums are the *)
(* true ones up to the width, that a division counts what fits on a node,  *)
(* and that the nodes' capacities add up to the room there is.  Induction  *)
(* is by least counterexample throughout.                                  *)
(***************************************************************************)
EXTENDS Capacity, FiniteSetTheorems, WellFoundedInduction, TLAPS

-----------------------------------------------------------------------------
(* Induction over a finite set *)

Less == {p \in Nat \X Nat : p[1] < p[2]}

\* Naturals can be counted down.
LEMMA LessWellFounded == IsWellFoundedOn(Less, Nat)
  <1>1. OpToRel(<, Nat) = Less
    BY Zenon DEF OpToRel, Less
  <1> QED
    BY <1>1, NatLessThanWellFounded, Zenon

\* A non-empty set of naturals has a least element.
LEMMA LeastOf ==
    ASSUME NEW T \in SUBSET Nat, T # {}
    PROVE  \E m \in T : \A k \in T : m <= k
  <1>1. PICK m \in T : \A k \in T : <<k, m>> \notin Less
    BY Zenon, LessWellFounded, WFMin
  <1>2. ASSUME NEW k \in T PROVE m <= k
    <2>1. m \in Nat /\ k \in Nat
      BY Zenon
    <2>2. <<k, m>> \in Less <=> k < m
      BY Zenon, <2>1 DEF Less
    <2> QED
      BY <1>1, <2>1, <2>2
  <1> QED
    BY Zenon, <1>2

\* A property of sets is the set of the subsets of S that have it.  All have it
\* when a set has it as soon as it is empty or all sets with one element less
\* have it: among the ones without it one has the least cardinality.
LEMMA SubsetInduction ==
    ASSUME NEW S, IsFiniteSet(S), NEW Good,
           \A s \in SUBSET S : (\A x \in s : s \ {x} \in Good) => s \in Good
    PROVE  \A s \in SUBSET S : s \in Good
  <1> DEFINE Counts == {k \in Nat : \E s \in SUBSET S : s \notin Good /\ Cardinality(s) = k}
  <1> SUFFICES ASSUME NEW b \in SUBSET S, b \notin Good PROVE FALSE
    OBVIOUS
  <1>1. \A s \in SUBSET S : IsFiniteSet(s) /\ Cardinality(s) \in Nat
    BY Zenon, FS_Subset, FS_CardinalityType
  <1>2. Counts \in SUBSET Nat /\ Cardinality(b) \in Counts
    BY Zenon, <1>1
  <1>3. PICK m \in Counts : \A k \in Counts : m <= k
    <2> HIDE DEF Counts
    <2> QED
      BY Zenon, <1>2, LeastOf
  <1>4. PICK s \in SUBSET S : s \notin Good /\ Cardinality(s) = m
    BY Zenon, <1>3
  <1>5. PICK x \in s : s \ {x} \notin Good
    BY Zenon, <1>4
  <1>6. s \ {x} \in SUBSET S /\ Cardinality(s \ {x}) = m - 1 /\ m \in Nat
    BY Zenon, <1>1, <1>4, <1>5, FS_RemoveElement
  <1>7. Cardinality(s \ {x}) \in Counts
    BY Zenon, <1>1, <1>5, <1>6
  <1>8. m <= m - 1
    <2> HIDE DEF Counts
    <2>1. m <= Cardinality(s \ {x})
      BY Zenon, <1>3, <1>7
    <2> QED
      BY Zenon, <1>6, <2>1
  <1> QED
    BY <1>6, <1>8

-----------------------------------------------------------------------------
(* Recursion over a finite set, the way the folds of the library do it *)

First(s) == CHOOSE x \in s : TRUE

\* The element a fold takes out is one of the set.
LEMMA FirstIn == ASSUME NEW s, s # {} PROVE First(s) \in s
  BY Zenon DEF First

\* One more step of a recursion whose results so far are in h.
Unfold(h, S, F, b) == [s \in SUBSET S |-> IF s = {} THEN b ELSE F[<<First(s), h[s \ {First(s)}]>>]]
Solves(h, S, F, b) == h = Unfold(h, S, F, b)

\* A step of a recursion keeps to the values its operation returns.
LEMMA UnfoldType ==
    ASSUME NEW S, NEW V, NEW b \in V, NEW F \in [S \X V -> V], NEW h \in [SUBSET S -> V]
    PROVE  Unfold(h, S, F, b) \in [SUBSET S -> V]
  <1>1. ASSUME NEW s \in SUBSET S, s # {} PROVE F[<<First(s), h[s \ {First(s)}]>>] \in V
    <2>1. First(s) \in S /\ s \ {First(s)} \in SUBSET S
      BY Zenon, <1>1, FirstIn
    <2>2. <<First(s), h[s \ {First(s)}]>> \in S \X V
      BY Zenon, <2>1
    <2> QED
      BY Zenon, <2>2
  <1> QED
    BY Zenon, <1>1 DEF Unfold

\* The recursion has a solution: starting from any function, n steps of it give
\* one that is right on the sets of at most n elements.
LEMMA RecursionExists ==
    ASSUME NEW S, IsFiniteSet(S), NEW V, NEW b \in V, NEW F \in [S \X V -> V]
    PROVE  \E h \in [SUBSET S -> V] : Solves(h, S, F, b)
  <1> DEFINE Right(h, n) == \A s \in SUBSET S : Cardinality(s) <= n => h[s] = Unfold(h, S, F, b)[s]
             Bad == {n \in Nat : ~ \E h \in [SUBSET S -> V] : Right(h, n)}
  <1>1. \A s \in SUBSET S : IsFiniteSet(s) /\ Cardinality(s) \in Nat /\ Cardinality(s) <= Cardinality(S)
    BY Zenon, FS_Subset, FS_CardinalityType
  <1>2. Cardinality(S) \in Nat
    BY Zenon, FS_CardinalityType
  <1>3. \E h \in [SUBSET S -> V] : Right(h, 0)
    <2> DEFINE h == [s \in SUBSET S |-> b]
    <2>1. ASSUME NEW s \in SUBSET S, Cardinality(s) <= 0 PROVE h[s] = Unfold(h, S, F, b)[s]
      <3>1. Cardinality(s) = 0
        BY <1>1, <2>1
      <3>2. s = {}
        BY Zenon, <3>1, <1>1, FS_EmptySet
      <3> QED
        BY Zenon, <3>2 DEF Unfold
    <2>2. h \in [SUBSET S -> V]
      BY Zenon
    <2> HIDE DEF h
    <2> QED
      BY Zenon, <2>1, <2>2
  <1>4. ASSUME NEW n \in Nat, NEW h \in [SUBSET S -> V], Right(h, n)
        PROVE  \E g \in [SUBSET S -> V] : Right(g, n + 1)
    <2> DEFINE g == Unfold(h, S, F, b)
    <2>1. g \in [SUBSET S -> V]
      BY Zenon, UnfoldType
    <2>2. ASSUME NEW s \in SUBSET S, Cardinality(s) <= n + 1 PROVE g[s] = Unfold(g, S, F, b)[s]
      <3>1. CASE s = {}
        BY Zenon, <3>1 DEF Unfold
      <3>2. CASE s # {}
        <4> DEFINE r == s \ {First(s)}
        <4>1. First(s) \in s /\ r \in SUBSET S
          BY Zenon, <3>2, FirstIn
        <4>2. Cardinality(r) <= n
          BY <4>1, <2>2, <1>1, FS_RemoveElement
        <4>3. h[r] = g[r]
          BY Zenon, <4>1, <4>2, <1>4
        <4>4. g[s] = F[<<First(s), h[r]>>]
          BY Zenon, <3>2 DEF Unfold
        <4>5. Unfold(g, S, F, b)[s] = F[<<First(s), g[r]>>]
          <5> HIDE DEF g
          <5> QED
            BY Zenon, <3>2 DEF Unfold
        <4> QED
          BY Zenon, <4>3, <4>4, <4>5
      <3> QED
        BY Zenon, <3>1, <3>2
    <2> HIDE DEF g
    <2> QED
      BY Zenon, <2>1, <2>2
  <1>5. Bad = {}
    <2> SUFFICES ASSUME Bad # {} PROVE FALSE
      BY Zenon
    <2>1. PICK m \in Bad : \A k \in Bad : m <= k
      <3>1. Bad \in SUBSET Nat
        BY Zenon
      <3> HIDE DEF Bad
      <3> QED
        BY Zenon, <3>1, LeastOf
    <2>2. m \in Nat /\ m # 0
      BY Zenon, <1>3
    <2>3. m - 1 \in Nat /\ (m - 1) + 1 = m /\ ~(m <= m - 1)
      BY <2>2
    <2>4. m - 1 \notin Bad
      BY Zenon, <2>1, <2>3
    <2>5. PICK h \in [SUBSET S -> V] : Right(h, m - 1)
      BY Zenon, <2>3, <2>4
    <2>6. \E g \in [SUBSET S -> V] : Right(g, (m - 1) + 1)
      <3> HIDE DEF Right
      <3> QED
        BY Zenon, <1>4, <2>3, <2>5
    <2> QED
      BY Zenon, <2>1, <2>3, <2>6
  <1>6. PICK h \in [SUBSET S -> V] : Right(h, Cardinality(S))
    BY Zenon, <1>2, <1>5
  <1>7. Unfold(h, S, F, b) \in [SUBSET S -> V]
    BY Zenon, UnfoldType
  <1>8. \A s \in SUBSET S : h[s] = Unfold(h, S, F, b)[s]
    BY Zenon, <1>1, <1>6
  <1>9. h = Unfold(h, S, F, b)
    <2> DEFINE g == Unfold(h, S, F, b)
    <2>1. g \in [SUBSET S -> V] /\ \A s \in SUBSET S : h[s] = g[s]
      BY Zenon, <1>7, <1>8
    <2> HIDE DEF g
    <2>2. h = g
      BY SMT, <2>1
    <2> QED
      BY Zenon, <2>2 DEF g
  <1> QED
    BY Zenon, <1>9 DEF Solves

-----------------------------------------------------------------------------
(* Sums *)

Sum(f, S) == MapThenSumSet(LAMBDA x : f[x], S)

\* The function by which the library computes it.
SumFun(f, S) == CHOOSE h : h = [s \in SUBSET S |-> IF s = {} THEN 0 ELSE f[First(s)] + h[s \ {First(s)}]]

\* The library's sum is that function's value.
LEMMA SumIsFun == ASSUME NEW f, NEW S PROVE Sum(f, S) = SumFun(f, S)[S]
  BY Zenon DEF Sum, MapThenSumSet, MapThenFoldSet, SumFun, First

\* The function obeys the equation by which it is defined.
LEMMA SumFunDef ==
    ASSUME NEW S, IsFiniteSet(S), NEW f, \A x \in S : f[x] \in Nat
    PROVE  /\ \A s \in SUBSET S : SumFun(f, S)[s] \in Nat
           /\ SumFun(f, S)[{}] = 0
           /\ \A s \in SUBSET S : s # {} =>
                  SumFun(f, S)[s] = f[First(s)] + SumFun(f, S)[s \ {First(s)}]
  <1> DEFINE F == [p \in S \X Nat |-> f[p[1]] + p[2]]
             Next1(h) == [s \in SUBSET S |-> IF s = {} THEN 0 ELSE f[First(s)] + h[s \ {First(s)}]]
  <1>1. F \in [S \X Nat -> Nat]
    OBVIOUS
  <1>2. PICK h \in [SUBSET S -> Nat] : h = Unfold(h, S, F, 0)
    <2> HIDE DEF F
    <2>1. \E h \in [SUBSET S -> Nat] : Solves(h, S, F, 0)
      BY Zenon, <1>1, RecursionExists
    <2> QED
      BY Zenon, <2>1 DEF Solves
  <1>3. ASSUME NEW s \in SUBSET S, s # {} PROVE F[<<First(s), h[s \ {First(s)}]>>] = f[First(s)] + h[s \ {First(s)}]
    <2>1. First(s) \in S /\ s \ {First(s)} \in SUBSET S
      BY Zenon, <1>3, FirstIn
    <2>2. ASSUME NEW x \in S, NEW v \in Nat PROVE F[<<x, v>>] = f[x] + v
      <3>1. F[<<x, v>>] = f[<<x, v>>[1]] + <<x, v>>[2]
        BY Zenon
      <3>2. <<x, v>>[1] = x /\ <<x, v>>[2] = v
        OBVIOUS
      <3> QED
        BY Zenon, <3>1, <3>2
    <2> HIDE DEF F
    <2> QED
      BY Zenon, <2>1, <2>2
  <1>4. h = Next1(h)
    <2> HIDE DEF F
    <2> QED
      BY Zenon, <1>2, <1>3 DEF Unfold
  <1>5. SumFun(f, S) = Next1(SumFun(f, S))
    BY Zenon, <1>4 DEF SumFun
  <1> DEFINE g == SumFun(f, S)
  <1> HIDE DEF g
  <1>6. g = Next1(g)
    BY Zenon, <1>5 DEF g
  <1>7. g[{}] = 0 /\ \A s \in SUBSET S : s # {} => g[s] = f[First(s)] + g[s \ {First(s)}]
    BY Zenon, <1>6
  <1>8. \A s \in SUBSET S : g[s] \in Nat
    <2> DEFINE Good == {s \in SUBSET S : g[s] \in Nat}
    <2>1. ASSUME NEW s \in SUBSET S, \A x \in s : s \ {x} \in Good PROVE s \in Good
      <3>1. CASE s = {}
        BY <3>1, <1>7
      <3>2. CASE s # {}
        <4>1. First(s) \in s /\ g[s \ {First(s)}] \in Nat
          BY Zenon, <3>2, <2>1, FirstIn
        <4>2. f[First(s)] \in Nat
          BY Zenon, <4>1
        <4>3. f[First(s)] + g[s \ {First(s)}] \in Nat
          BY <4>1, <4>2
        <4> QED
          BY Zenon, <4>3, <3>2, <1>7
      <3> QED
        BY Zenon, <3>1, <3>2
    <2>2. \A s \in SUBSET S : s \in Good
      <3> HIDE DEF Good
      <3> QED
        BY Zenon, <2>1, SubsetInduction
    <2> QED
      BY Zenon, <2>2
  <1> QED
    BY Zenon, <1>7, <1>8 DEF g

\* The function for a set is the one for a larger set.
LEMMA SumFunSubset ==
    ASSUME NEW S, IsFiniteSet(S), NEW f, \A x \in S : f[x] \in Nat, NEW T \in SUBSET S
    PROVE  Sum(f, T) = SumFun(f, S)[T]
  <1> DEFINE g == SumFun(f, S)
             h == SumFun(f, T)
             Good == {s \in SUBSET T : h[s] = g[s]}
  <1>1. IsFiniteSet(T) /\ \A x \in T : f[x] \in Nat
    BY Zenon, FS_Subset
  <1>2. /\ g[{}] = 0 /\ \A s \in SUBSET T : s # {} => g[s] = f[First(s)] + g[s \ {First(s)}]
        /\ h[{}] = 0 /\ \A s \in SUBSET T : s # {} => h[s] = f[First(s)] + h[s \ {First(s)}]
    BY Zenon, <1>1, SumFunDef
  <1> HIDE DEF g, h
  <1>3. ASSUME NEW s \in SUBSET T, \A x \in s : s \ {x} \in Good PROVE s \in Good
    <2>1. CASE s = {}
      BY Zenon, <2>1, <1>2
    <2>2. CASE s # {}
      <3>1. h[s \ {First(s)}] = g[s \ {First(s)}]
        BY Zenon, <2>2, <1>3, FirstIn
      <3> QED
        BY Zenon, <3>1, <2>2, <1>2
    <2> QED
      BY Zenon, <2>1, <2>2
  <1>4. \A s \in SUBSET T : s \in Good
    <2> HIDE DEF Good
    <2> QED
      BY Zenon, <1>1, <1>3, SubsetInduction
  <1>5. h[T] = g[T]
    BY Zenon, <1>4
  <1> QED
    BY Zenon, <1>5, SumIsFun DEF g, h

\* A sum of naturals is one, and any element may be taken out of it.
SumLaws(f, S) ==
    /\ Sum(f, {}) = 0
    /\ \A s \in SUBSET S : Sum(f, s) \in Nat
    /\ \A s \in SUBSET S : \A x \in s : Sum(f, s) = f[x] + Sum(f, s \ {x})

LEMMA SumTake ==
    ASSUME NEW S, IsFiniteSet(S), NEW f, \A x \in S : f[x] \in Nat
    PROVE  SumLaws(f, S)
  <1> DEFINE g == SumFun(f, S)
             Good == {s \in SUBSET S : \A x \in s : g[s] = f[x] + g[s \ {x}]}
  <1>1. \A s \in SUBSET S : Sum(f, s) = g[s]
    BY Zenon, SumFunSubset
  <1>2. /\ g[{}] = 0 /\ \A s \in SUBSET S : g[s] \in Nat
        /\ \A s \in SUBSET S : s # {} => g[s] = f[First(s)] + g[s \ {First(s)}]
    BY Zenon, SumFunDef
  <1> HIDE DEF g
  <1>3. ASSUME NEW s \in SUBSET S, \A x \in s : s \ {x} \in Good PROVE s \in Good
    <2>1. ASSUME NEW x \in s PROVE g[s] = f[x] + g[s \ {x}]
      <3> DEFINE c == First(s)
      <3>1. c \in s /\ g[s] = f[c] + g[s \ {c}]
        BY Zenon, <2>1, <1>2, FirstIn
      <3>2. CASE x = c
        BY Zenon, <3>1, <3>2
      <3>3. CASE x # c
        <4> HIDE DEF c
        <4>1. x \in s \ {c} /\ c \in s \ {x}
          BY Zenon, <3>1, <3>3, <2>1
        <4>2. g[s \ {c}] = f[x] + g[(s \ {c}) \ {x}]
          BY Zenon, <4>1, <1>3, <3>1
        <4>3. g[s \ {x}] = f[c] + g[(s \ {x}) \ {c}]
          BY Zenon, <4>1, <1>3, <2>1
        <4>4. (s \ {c}) \ {x} = (s \ {x}) \ {c} /\ (s \ {x}) \ {c} \in SUBSET S
          BY Zenon
        <4>5. f[x] \in Nat /\ f[c] \in Nat /\ g[(s \ {x}) \ {c}] \in Nat
          BY Zenon, <4>4, <1>2, <3>1, <2>1
        <4>6. g[s] = f[c] + (f[x] + g[(s \ {x}) \ {c}])
          BY Zenon, <3>1, <4>2, <4>4
        <4>7. f[c] + (f[x] + g[(s \ {x}) \ {c}]) = f[x] + (f[c] + g[(s \ {x}) \ {c}])
          BY <4>5
        <4> QED
          BY Zenon, <4>6, <4>7, <4>3
      <3> QED
        BY Zenon, <3>2, <3>3
    <2> QED
      BY Zenon, <2>1
  <1>4. \A s \in SUBSET S : s \in Good
    <2> HIDE DEF Good
    <2> QED
      BY Zenon, <1>3, SubsetInduction
  <1>5. ASSUME NEW s \in SUBSET S, NEW x \in s PROVE Sum(f, s) = f[x] + Sum(f, s \ {x})
    BY Zenon, <1>1, <1>4
  <1>6. Sum(f, {}) = 0 /\ \A s \in SUBSET S : Sum(f, s) \in Nat
    BY Zenon, <1>1, <1>2
  <1> QED
    BY Zenon, <1>5, <1>6 DEF SumLaws

\* A sum grows with its terms.
LEMMA SumMono ==
    ASSUME NEW S, IsFiniteSet(S), NEW f, NEW g, \A x \in S : f[x] \in Nat /\ g[x] \in Nat /\ f[x] <= g[x]
    PROVE  Sum(f, S) <= Sum(g, S)
  <1> DEFINE Good == {s \in SUBSET S : Sum(f, s) <= Sum(g, s)}
  <1>0. SumLaws(f, S) /\ SumLaws(g, S)
    BY Zenon, SumTake
  <1>1. ASSUME NEW s \in SUBSET S, \A x \in s : s \ {x} \in Good PROVE s \in Good
    <2>1. CASE s = {}
      <3>1. Sum(f, {}) = 0 /\ Sum(g, {}) = 0
        BY Zenon, <1>0 DEF SumLaws
      <3>2. 0 <= 0
        OBVIOUS
      <3> QED
        BY Zenon, <3>1, <3>2, <2>1
    <2>2. CASE s # {}
      <3>1. PICK x \in s : s \ {x} \in SUBSET S
        BY Zenon, <2>2
      <3>2. Sum(f, s) = f[x] + Sum(f, s \ {x}) /\ Sum(g, s) = g[x] + Sum(g, s \ {x})
        BY Zenon, <1>0 DEF SumLaws
      <3>3. Sum(f, s \ {x}) \in Nat /\ Sum(g, s \ {x}) \in Nat
        BY Zenon, <1>0 DEF SumLaws
      <3>4. Sum(f, s \ {x}) <= Sum(g, s \ {x}) /\ f[x] \in Nat /\ g[x] \in Nat /\ f[x] <= g[x]
        BY Zenon, <1>1, <3>1
      <3>5. Sum(f, s) <= Sum(g, s)
        BY <3>2, <3>3, <3>4
      <3> QED
        BY Zenon, <3>5
    <2> QED
      BY Zenon, <2>1, <2>2
  <1>2. \A s \in SUBSET S : s \in Good
    <2> HIDE DEF Good
    <2> QED
      BY Zenon, <1>1, SubsetInduction
  <1> QED
    BY Zenon, <1>2

\* Equal terms, equal sums.
LEMMA SumSame ==
    ASSUME NEW S, IsFiniteSet(S), NEW f, NEW g, \A x \in S : f[x] \in Nat /\ f[x] = g[x]
    PROVE  Sum(f, S) = Sum(g, S)
  <1>1. \A x \in S : f[x] \in Nat /\ g[x] \in Nat /\ f[x] <= g[x] /\ g[x] <= f[x]
    OBVIOUS
  <1>2. Sum(f, S) <= Sum(g, S) /\ Sum(g, S) <= Sum(f, S)
    BY Zenon, <1>1, SumMono
  <1>3. Sum(f, S) \in Nat /\ Sum(g, S) \in Nat
    BY Zenon, <1>1, SumTake DEF SumLaws
  <1> QED
    BY <1>2, <1>3

\* Terms that are 0 do not count.
LEMMA SumSupport ==
    ASSUME NEW S, IsFiniteSet(S), NEW f, \A x \in S : f[x] \in Nat,
           NEW E \in SUBSET S, \A x \in S \ E : f[x] = 0
    PROVE  Sum(f, S) = Sum(f, E)
  <1> DEFINE Good == {s \in SUBSET S : Sum(f, s) = Sum(f, s \cap E)}
  <1>0. SumLaws(f, S)
    BY Zenon, SumTake
  <1>1. ASSUME NEW s \in SUBSET S, \A x \in s : s \ {x} \in Good PROVE s \in Good
    <2>1. CASE s = {}
      <3>1. s \cap E = s
        BY Zenon, <2>1
      <3> QED
        BY Zenon, <3>1
    <2>2. CASE s # {}
      <3>1. PICK x \in s : TRUE
        BY Zenon, <2>2
      <3>2. Sum(f, s) = f[x] + Sum(f, s \ {x}) /\ Sum(f, s \ {x}) = Sum(f, (s \ {x}) \cap E)
        BY Zenon, <1>0, <1>1 DEF SumLaws
      <3>3. CASE x \in E
        <4>1. Sum(f, s \cap E) = f[x] + Sum(f, (s \cap E) \ {x})
          BY Zenon, <1>0, <3>3 DEF SumLaws
        <4>2. (s \cap E) \ {x} = (s \ {x}) \cap E
          BY Zenon
        <4> QED
          BY Zenon, <4>1, <4>2, <3>2
      <3>4. CASE x \notin E
        <4>1. (s \ {x}) \cap E = s \cap E /\ s \cap E \in SUBSET S
          BY Zenon, <3>4
        <4>2. Sum(f, s \cap E) \in Nat /\ f[x] = 0
          BY Zenon, <4>1, <3>4, <1>0 DEF SumLaws
        <4>3. Sum(f, s) = 0 + Sum(f, s \cap E)
          BY Zenon, <4>1, <4>2, <3>2
        <4>4. Sum(f, s) = Sum(f, s \cap E)
          BY <4>2, <4>3
        <4> QED
          BY Zenon, <4>4
      <3> QED
        BY Zenon, <3>3, <3>4
    <2> QED
      BY Zenon, <2>1, <2>2
  <1>2. \A s \in SUBSET S : s \in Good
    <2> HIDE DEF Good
    <2> QED
      BY Zenon, <1>1, SubsetInduction
  <1>3. S \cap E = E
    BY Zenon
  <1> QED
    BY Zenon, <1>2, <1>3

\* One more in one term is one more in the sum.
LEMMA SumBump ==
    ASSUME NEW S, IsFiniteSet(S), NEW f \in [S -> Nat], NEW x \in S
    PROVE  Sum([f EXCEPT ![x] = f[x] + 1], S) = Sum(f, S) + 1
  <1> DEFINE g == [f EXCEPT ![x] = f[x] + 1]
  <1>1. g \in [S -> Nat] /\ g[x] = f[x] + 1 /\ \A y \in S \ {x} : g[y] = f[y]
    OBVIOUS
  <1> HIDE DEF g
  <1>2. SumLaws(f, S) /\ SumLaws(g, S)
    <2>1. (\A y \in S : f[y] \in Nat) /\ (\A y \in S : g[y] \in Nat)
      BY Zenon, <1>1
    <2> QED
      BY Zenon, <2>1, SumTake
  <1>3. S \in SUBSET S /\ S \ {x} \in SUBSET S /\ IsFiniteSet(S \ {x})
    BY Zenon, FS_RemoveElement
  <1>4. Sum(f, S) = f[x] + Sum(f, S \ {x}) /\ Sum(g, S) = g[x] + Sum(g, S \ {x})
    BY Zenon, <1>2, <1>3 DEF SumLaws
  <1>5. Sum(f, S \ {x}) = Sum(g, S \ {x})
    <2>1. \A y \in S \ {x} : f[y] \in Nat /\ f[y] = g[y]
      BY Zenon, <1>1
    <2> QED
      BY Zenon, <2>1, <1>3, SumSame
  <1>6. Sum(f, S \ {x}) \in Nat /\ f[x] \in Nat
    BY Zenon, <1>2, <1>3 DEF SumLaws
  <1>7. Sum(g, S) = Sum(f, S) + 1
    BY <1>1, <1>4, <1>5, <1>6
  <1> QED
    BY Zenon, <1>7 DEF g

\* Whatever is at most the sum of the limits can be spread within the limits.
SpreadOf(f, c, S, k) == f \in [S -> Nat] /\ (\A x \in S : f[x] <= c[x]) /\ Sum(f, S) = k

LEMMA SumSpread ==
    ASSUME NEW S, IsFiniteSet(S), NEW c \in [S -> Nat], NEW k \in Nat, k <= Sum(c, S)
    PROVE  \E f : SpreadOf(f, c, S, k)
  <1> DEFINE Bad == {j \in Nat : j <= Sum(c, S) /\ ~ \E f : SpreadOf(f, c, S, j)}
  <1>0. Sum(c, S) \in Nat
    BY Zenon, SumTake DEF SumLaws
  <1>1. \E f : SpreadOf(f, c, S, 0)
    <2> DEFINE z == [x \in S |-> 0]
    <2>1. z \in [S -> Nat] /\ \A x \in S : z[x] <= c[x] /\ z[x] = 0 /\ z[x] \in Nat
      OBVIOUS
    <2> HIDE DEF z
    <2>2. {} \in SUBSET S /\ \A x \in S \ {} : z[x] = 0
      BY Zenon, <2>1
    <2>3. Sum(z, S) = Sum(z, {})
      BY Zenon, <2>1, <2>2, SumSupport
    <2>4. Sum(z, {}) = 0
      BY Zenon, <2>1, SumTake DEF SumLaws
    <2> QED
      BY Zenon, <2>1, <2>3, <2>4 DEF SpreadOf
  <1>2. ASSUME NEW j \in Nat, j + 1 <= Sum(c, S), NEW f, SpreadOf(f, c, S, j)
        PROVE  \E g : SpreadOf(g, c, S, j + 1)
    <2>1. f \in [S -> Nat] /\ (\A x \in S : f[x] <= c[x]) /\ Sum(f, S) = j
      BY Zenon, <1>2 DEF SpreadOf
    <2>2. PICK x \in S : ~(c[x] <= f[x])
      <3> SUFFICES ASSUME \A x \in S : c[x] <= f[x] PROVE FALSE
        OBVIOUS
      <3>1. Sum(c, S) <= Sum(f, S)
        BY Zenon, <2>1, SumMono
      <3> QED
        BY <3>1, <2>1, <1>2, <1>0
    <2> DEFINE g == [f EXCEPT ![x] = f[x] + 1]
    <2>3. g \in [S -> Nat] /\ \A y \in S : g[y] <= c[y]
      BY <2>1, <2>2
    <2>4. Sum(g, S) = j + 1
      BY Zenon, <2>1, SumBump
    <2> HIDE DEF g
    <2> QED
      BY Zenon, <2>3, <2>4 DEF SpreadOf
  <1>3. Bad = {}
    <2> SUFFICES ASSUME Bad # {} PROVE FALSE
      OBVIOUS
    <2>1. PICK m \in Bad : \A j \in Bad : m <= j
      <3>1. Bad \in SUBSET Nat
        BY Zenon
      <3> HIDE DEF Bad
      <3> QED
        BY Zenon, <3>1, LeastOf
    <2>2. m \in Nat /\ m # 0 /\ m <= Sum(c, S) /\ ~ \E f : SpreadOf(f, c, S, m)
      BY Zenon, <1>1
    <2>3. m - 1 \in Nat /\ (m - 1) + 1 = m /\ ~(m <= m - 1) /\ m - 1 <= Sum(c, S)
      BY <2>2, <1>0
    <2>4. m - 1 \notin Bad
      BY Zenon, <2>1, <2>3
    <2>5. \E f : SpreadOf(f, c, S, m - 1)
      BY Zenon, <2>3, <2>4
    <2>6. \E g : SpreadOf(g, c, S, (m - 1) + 1)
      BY Zenon, <1>2, <2>2, <2>3, <2>5
    <2> QED
      BY Zenon, <2>2, <2>3, <2>6
  <1> QED
    BY Zenon, <1>3

-----------------------------------------------------------------------------
(* The numbers *)

\* What a quotient times the divisor leaves is less than the divisor.
LEMMA DivBounds ==
    ASSUME NEW a \in Nat, NEW r \in Nat \ {0}
    PROVE  a \div r \in Nat /\ (a \div r) * r <= a /\ a < (a \div r) * r + r
  OBVIOUS

\* Multiplication is monotonic, and distributes over adding one.
LEMMA TimesMono ==
    ASSUME NEW j \in Nat, NEW k \in Nat, NEW r \in Nat, j <= k
    PROVE  j * r \in Nat /\ k * r \in Nat /\ j * r <= k * r
  OBVIOUS

\* One more reservation is one more times the reservation.
LEMMA TimesNext ==
    ASSUME NEW j \in Nat, NEW r \in Nat
    PROVE  (j + 1) * r = j * r + r
  OBVIOUS

\* Division with the remainder dropped counts how many reservations fit.
LEMMA DivCounts ==
    ASSUME NEW a \in Nat, NEW r \in Nat \ {0}, NEW k \in Nat
    PROVE  k * r <= a <=> k <= a \div r
  <1> DEFINE q == a \div r
  <1>1. q \in Nat /\ q * r <= a /\ a < q * r + r
    BY DivBounds
  <1> HIDE DEF q
  <1>2. CASE k <= q
    BY <1>1, <1>2, TimesMono
  <1>3. CASE ~(k <= q)
    <2>1. q + 1 <= k
      BY <1>1, <1>3
    <2>2. (q + 1) * r <= k * r /\ (q + 1) * r \in Nat /\ k * r \in Nat
      BY <2>1, <1>1, TimesMono
    <2>3. (q + 1) * r = q * r + r
      BY <1>1, TimesNext
    <2>4. q * r \in Nat
      BY <1>1, TimesMono
    <2> QED
      BY <1>1, <1>3, <2>2, <2>3, <2>4
  <1> QED
    BY <1>2, <1>3 DEF q

\* slotsForResource is what its name says.
LEMMA SlotsFit ==
    ASSUME NEW a \in Nat, NEW r \in Nat, NEW cap \in Nat
    PROVE  /\ slotsForResource(a, r, cap) \in Nat /\ slotsForResource(a, r, cap) <= cap
           /\ \A k \in Nat : k <= slotsForResource(a, r, cap) /\ r > 0 => k * r <= a
           /\ \A k \in Nat : (r > 0 => k * r <= a) => minUint64(k, cap) <= slotsForResource(a, r, cap)
  <1>1. CASE r = 0
    <2>1. slotsForResource(a, r, cap) = cap
      BY <1>1 DEF slotsForResource
    <2> QED
      BY <1>1, <2>1 DEF minUint64
  <1>2. CASE r > 0
    <2> DEFINE q == a \div r
    <2>1. q \in Nat
      BY <1>2, DivBounds
    <2>2. \A k \in Nat : k * r <= a <=> k <= q
      BY <1>2, DivCounts
    <2>3. slotsForResource(a, r, cap) = minUint64(q, cap)
      <3>1. CASE a > 0
        BY <3>1, <1>2 DEF slotsForResource
      <3>2. CASE a = 0
        <4>1. slotsForResource(a, r, cap) = 0
          BY <3>2, <1>2 DEF slotsForResource
        <4>2. q = 0
          BY <3>2, <1>2
        <4> QED
          BY <4>1, <4>2 DEF minUint64
      <3> QED
        BY <3>1, <3>2
    <2> HIDE DEF q
    <2> QED
      BY <2>1, <2>2, <2>3, <1>2 DEF minUint64
  <1> QED
    BY <1>1, <1>2

-----------------------------------------------------------------------------
(* capacityUsage: the reservations, capped at the width *)

Saturated(f, S) == FoldSet(LAMBDA t, sum : saturatingInt64Add(sum, f[t]), 0, S)

SaturatedFun(f, S) ==
    CHOOSE h : h = [s \in SUBSET S |-> IF s = {} THEN 0 ELSE saturatingInt64Add(h[s \ {First(s)}], f[First(s)])]

\* The Agent's fold is that function's value.
LEMMA SaturatedIsFun == ASSUME NEW f, NEW S PROVE Saturated(f, S) = SaturatedFun(f, S)[S]
  BY Zenon DEF Saturated, FoldSet, MapThenFoldSet, SaturatedFun, First

Capped(v, m) == IF v > m THEN m ELSE v

\* Saturating at every addition is saturating once, at the end.
LEMMA SaturatedSum ==
    ASSUME NEW S, IsFiniteSet(S), NEW f, \A x \in S : f[x] \in Nat
    PROVE  Saturated(f, S) = Capped(Sum(f, S), MaxInt)
  <1> DEFINE F == [p \in S \X Nat |-> saturatingInt64Add(p[2], f[p[1]])]
             Next1(h) == [s \in SUBSET S |-> IF s = {} THEN 0 ELSE saturatingInt64Add(h[s \ {First(s)}], f[First(s)])]
  <1>0. MaxInt \in Nat
    BY Zenon, CapacityAssumption
  <1>1. F \in [S \X Nat -> Nat]
    BY <1>0 DEF saturatingInt64Add
  <1>2. PICK h \in [SUBSET S -> Nat] : h = Unfold(h, S, F, 0)
    <2> HIDE DEF F
    <2>1. \E h \in [SUBSET S -> Nat] : Solves(h, S, F, 0)
      BY Zenon, <1>1, RecursionExists
    <2> QED
      BY Zenon, <2>1 DEF Solves
  <1>3. ASSUME NEW s \in SUBSET S, s # {}
        PROVE  F[<<First(s), h[s \ {First(s)}]>>] = saturatingInt64Add(h[s \ {First(s)}], f[First(s)])
    <2>1. First(s) \in S /\ s \ {First(s)} \in SUBSET S
      BY Zenon, <1>3, FirstIn
    <2>2. ASSUME NEW x \in S, NEW v \in Nat PROVE F[<<x, v>>] = saturatingInt64Add(v, f[x])
      <3>1. F[<<x, v>>] = saturatingInt64Add(<<x, v>>[2], f[<<x, v>>[1]])
        BY Zenon
      <3>2. <<x, v>>[1] = x /\ <<x, v>>[2] = v
        OBVIOUS
      <3> QED
        BY Zenon, <3>1, <3>2
    <2> HIDE DEF F
    <2> QED
      BY Zenon, <2>1, <2>2
  <1>4. h = Next1(h)
    <2> HIDE DEF F
    <2> QED
      BY Zenon, <1>2, <1>3 DEF Unfold
  <1>5. SaturatedFun(f, S) = Next1(SaturatedFun(f, S))
    BY Zenon, <1>4 DEF SaturatedFun
  <1> DEFINE g == SaturatedFun(f, S)
             Good == {s \in SUBSET S : g[s] = Capped(Sum(f, s), MaxInt)}
  <1> HIDE DEF g
  <1>6. g[{}] = 0 /\ \A s \in SUBSET S : s # {} => g[s] = saturatingInt64Add(g[s \ {First(s)}], f[First(s)])
    BY Zenon, <1>5 DEF g
  <1>7. SumLaws(f, S)
    BY Zenon, SumTake
  <1>8. ASSUME NEW s \in SUBSET S, \A x \in s : s \ {x} \in Good PROVE s \in Good
    <2>1. CASE s = {}
      <3>1. Sum(f, s) = 0 /\ g[s] = 0
        BY Zenon, <2>1, <1>6, <1>7 DEF SumLaws
      <3> QED
        BY <3>1, <1>0 DEF Capped
    <2>2. CASE s # {}
      <3> DEFINE c == First(s)
                 v == Sum(f, s \ {First(s)})
      <3>1. c \in s /\ s \ {c} \in SUBSET S
        BY Zenon, <2>2, FirstIn
      <3>2. v \in Nat /\ f[c] \in Nat /\ Sum(f, s) = f[c] + v
        BY Zenon, <3>1, <1>7 DEF SumLaws
      <3>3. g[s] = saturatingInt64Add(Capped(v, MaxInt), f[c])
        BY Zenon, <3>1, <2>2, <1>6, <1>8
      <3> HIDE DEF c, v
      <3>4. saturatingInt64Add(Capped(v, MaxInt), f[c]) = Capped(f[c] + v, MaxInt)
        BY <3>2, <1>0 DEF saturatingInt64Add, Capped
      <3> QED
        BY Zenon, <3>2, <3>3, <3>4
    <2> QED
      BY Zenon, <2>1, <2>2
  <1>9. \A s \in SUBSET S : s \in Good
    <2> HIDE DEF Good
    <2> QED
      BY Zenon, <1>8, SubsetInduction
  <1> QED
    BY Zenon, <1>9, SaturatedIsFun DEF g

-----------------------------------------------------------------------------
(* The room on one node *)

Whats == {"cpu", "mem"}

\* A Swarm, or the view of a check that has read everything.
World(w) == w \in Swarms

\* Reservations and limits are naturals, and a node has no more than the width.
LEMMA WorldNumbers ==
    ASSUME NEW w, World(w)
    PROVE  /\ w.service.max \in Nat
           /\ \A what \in Whats : w.service.res[what] \in Nat
           /\ \A what \in Whats : \A t \in Tasks : w.tasks[t].res[what] \in Nat
           /\ \A what \in Whats : \A n \in Nodes : w.nodes[n].size[what] \in Nat /\ w.nodes[n].size[what] <= MaxInt
  <1>1. /\ MaxInt \in Nat /\ MaxUint \in Nat /\ Sizes \subseteq Resources /\ Reservations \subseteq Resources
        /\ Services \subseteq Specs
    BY Zenon, CapacityAssumption
  <1>2. w.service \in Specs /\ w.nodes \in [Nodes -> NodeStates] /\ w.tasks \in [Tasks -> TaskStates]
    BY <1>1 DEF World, Swarms
  <1>3. ASSUME NEW q \in Resources, NEW what \in Whats PROVE q[what] \in Nat /\ q[what] <= MaxInt
    BY <1>1 DEF Resources, Whats
  <1>4. w.service.max \in Nat /\ w.service.res \in Resources
    BY <1>1, <1>2 DEF Specs
  <1>5. ASSUME NEW n \in Nodes PROVE w.nodes[n].size \in Resources
    <2>1. w.nodes[n] \in NodeStates
      BY Zenon, <1>2
    <2> QED
      BY <2>1, <1>1 DEF NodeStates
  <1>6. ASSUME NEW t \in Tasks PROVE w.tasks[t].res \in Resources
    <2>1. w.tasks[t] \in TaskStates
      BY Zenon, <1>2
    <2> QED
      BY <2>1, <1>1 DEF TaskStates
  <1> QED
    BY Zenon, <1>3, <1>4, <1>5, <1>6

\* Both sums are over the same tasks; the Agent's stops at the width.
LEMMA UsageIsLoad ==
    ASSUME NEW w, World(w), NEW n, NEW what \in Whats
    PROVE  Load(w, n, what) \in Nat /\ capacityUsage(w, n, what) = Capped(Load(w, n, what), MaxInt)
  <1> DEFINE f == Reserved(w, what)
             S == ActiveOn(w, n)
  <1>1. IsFiniteSet(Tasks) /\ S \in SUBSET Tasks
    BY Zenon, CapacityAssumption DEF ActiveOn
  <1>2. IsFiniteSet(S)
    BY Zenon, <1>1, FS_Subset
  <1>3. \A t \in S : f[t] \in Nat
    BY Zenon, <1>1, WorldNumbers DEF Reserved
  <1> HIDE DEF f, S
  <1>4. Sum(f, S) \in Nat
    BY Zenon, <1>2, <1>3, SumTake DEF SumLaws
  <1>5. Saturated(f, S) = Capped(Sum(f, S), MaxInt)
    BY Zenon, <1>2, <1>3, SaturatedSum
  <1>6. Load(w, n, what) = Sum(f, S) /\ capacityUsage(w, n, what) = Saturated(f, S)
    BY Zenon DEF Load, capacityUsage, Sum, Saturated, f, S
  <1> QED
    BY Zenon, <1>4, <1>5, <1>6

\* Tasks are counted by a natural.
LEMMA ServiceTasksNat == ASSUME NEW w PROVE \A n : serviceTasks(w, n) \in Nat
  <1> SUFFICES ASSUME NEW n PROVE serviceTasks(w, n) \in Nat
    OBVIOUS
  <1> DEFINE S == {t \in Tasks : w.tasks[t].at = n /\ w.tasks[t].mine /\ w.tasks[t].st \in {"starting", "running"}}
  <1>1. IsFiniteSet(Tasks) /\ S \in SUBSET Tasks
    BY Zenon, CapacityAssumption
  <1>2. Cardinality(S) \in Nat
    <2> HIDE DEF S
    <2> QED
      BY Zenon, <1>1, FS_Subset, FS_CardinalityType
  <1> QED
    BY Zenon, <1>2 DEF serviceTasks

\* k more replicas on node n exceed no limit.
FitsOn(w, n, k) ==
    /\ \A what \in Whats : w.service.res[what] > 0 => Load(w, n, what) + k * w.service.res[what] <= w.nodes[n].size[what]
    /\ w.service.max > 0 => serviceTasks(w, n) + k <= w.service.max

slotsOf(w, n, what, required) ==
    slotsForResource(clampNonNegative(w.nodes[n].size[what] - capacityUsage(w, n, what)), w.service.res[what], required)

\* What is left of a resource is right in spite of the cap, for no node has more
\* than the width can express.
LEMMA ResourceSlots ==
    ASSUME NEW w, World(w), NEW n \in Nodes, NEW what \in Whats, NEW required \in Nat
    PROVE  /\ slotsOf(w, n, what, required) \in Nat /\ slotsOf(w, n, what, required) <= required
           /\ \A k \in Nat \ {0} : k <= slotsOf(w, n, what, required) =>
                 (w.service.res[what] > 0 => Load(w, n, what) + k * w.service.res[what] <= w.nodes[n].size[what])
           /\ \A k \in Nat : (w.service.res[what] > 0 => Load(w, n, what) + k * w.service.res[what] <= w.nodes[n].size[what]) =>
                 minUint64(k, required) <= slotsOf(w, n, what, required)
  <1> DEFINE r == w.service.res[what]
             m == w.nodes[n].size[what]
             l == Load(w, n, what)
             a == clampNonNegative(m - capacityUsage(w, n, what))
  <1>1. r \in Nat /\ m \in Nat /\ m <= MaxInt
    BY Zenon, WorldNumbers
  <1>2. l \in Nat /\ capacityUsage(w, n, what) = Capped(l, MaxInt)
    BY Zenon, UsageIsLoad
  <1>3. slotsOf(w, n, what, required) = slotsForResource(a, r, required)
    BY Zenon DEF slotsOf
  <1>4. MaxInt \in Nat
    BY Zenon, CapacityAssumption
  <1> HIDE DEF r, m, l
  <1>5. a \in Nat /\ (l <= m => a = m - l) /\ (~(l <= m) => a = 0)
    BY <1>1, <1>2, <1>4 DEF Capped, clampNonNegative
  <1> HIDE DEF a
  <1>6. \A k \in Nat : k * r \in Nat
    BY <1>1
  <1>7. ASSUME NEW k \in Nat \ {0}, r > 0 PROVE k * r > 0
    BY <1>1, <1>7
  <1>8. ASSUME NEW k \in Nat \ {0}, k <= slotsForResource(a, r, required), r > 0 PROVE l + k * r <= m
    <2>1. k * r <= a
      BY <1>1, <1>5, <1>8, SlotsFit
    <2>2. k * r \in Nat /\ k * r > 0
      BY <1>6, <1>7, <1>8
    <2> QED
      BY <2>1, <2>2, <1>1, <1>2, <1>5
  <1>9. ASSUME NEW k \in Nat, r > 0 => l + k * r <= m PROVE minUint64(k, required) <= slotsForResource(a, r, required)
    <2>1. r > 0 => k * r <= a
      BY <1>1, <1>2, <1>5, <1>6, <1>9
    <2> QED
      BY <1>1, <1>5, <2>1, SlotsFit
  <1>10. slotsForResource(a, r, required) \in Nat /\ slotsForResource(a, r, required) <= required
    BY Zenon, <1>1, <1>5, SlotsFit
  <1> QED
    BY Zenon, <1>3, <1>8, <1>9, <1>10 DEF r, m, l

\* NodeCapacity is the number of replicas that still fit on the node, or all
\* that are required.
LEMMA NodeRoom ==
    ASSUME NEW w, World(w), NEW n \in Nodes, NEW required \in Nat
    PROVE  /\ NodeCapacity(w, n, required) \in Nat /\ NodeCapacity(w, n, required) <= required
           /\ \A k \in Nat \ {0} : k <= NodeCapacity(w, n, required) => FitsOn(w, n, k)
           /\ \A k \in Nat : FitsOn(w, n, k) => minUint64(k, required) <= NodeCapacity(w, n, required)
  <1> DEFINE c == slotsOf(w, n, "cpu", required)
             m == slotsOf(w, n, "mem", required)
             d == NodeCapacity(w, n, required)
             t == serviceTasks(w, n)
             b == minUint64(minUint64(required, c), m)
  <1>1. d = IF w.service.max = 0 THEN b ELSE minUint64(b, clampNonNegative(w.service.max - t))
    BY Zenon DEF NodeCapacity, slotsOf
  <1>2. "cpu" \in Whats /\ "mem" \in Whats /\ \A what \in Whats : what = "cpu" \/ what = "mem"
    BY Zenon DEF Whats
  <1>3. c \in Nat /\ c <= required /\ m \in Nat /\ m <= required
    BY Zenon, <1>2, ResourceSlots
  <1>4. w.service.max \in Nat /\ t \in Nat
    BY Zenon, WorldNumbers, ServiceTasksNat
  <1>5. ASSUME NEW k \in Nat \ {0}, k <= d PROVE FitsOn(w, n, k)
    <2> HIDE DEF c, m, d, t
    <2>1. k <= c /\ k <= m /\ (w.service.max > 0 => t + k <= w.service.max)
      BY <1>1, <1>3, <1>4, <1>5 DEF minUint64, clampNonNegative
    <2>2. \A what \in Whats : w.service.res[what] > 0 => Load(w, n, what) + k * w.service.res[what] <= w.nodes[n].size[what]
      BY Zenon, <2>1, <1>2, ResourceSlots DEF c, m
    <2> QED
      BY Zenon, <2>1, <2>2 DEF FitsOn, t
  <1>6. ASSUME NEW k \in Nat, FitsOn(w, n, k) PROVE minUint64(k, required) <= d
    <2>1. minUint64(k, required) <= c /\ minUint64(k, required) <= m
      BY Zenon, <1>2, <1>6, ResourceSlots DEF FitsOn
    <2>2. w.service.max > 0 => t + k <= w.service.max
      BY Zenon, <1>6 DEF FitsOn
    <2> HIDE DEF c, m, d, t
    <2> QED
      BY <2>1, <2>2, <1>1, <1>3, <1>4 DEF minUint64, clampNonNegative
  <1>7. d \in Nat /\ d <= required
    <2> HIDE DEF c, m, d, t
    <2> QED
      BY <1>1, <1>3, <1>4 DEF minUint64, clampNonNegative
  <1> QED
    BY Zenon, <1>5, <1>6, <1>7

-----------------------------------------------------------------------------
(* The room on all of them *)

Capacities(w, required) == [n \in Nodes |-> NodeCapacity(w, n, required)]

SchedulableFun(w, required) ==
    CHOOSE h : h = [s \in SUBSET Eligible(w) |->
                       IF s = {} THEN 0
                       ELSE minUint64(saturatingAdd(h[s \ {First(s)}], NodeCapacity(w, First(s), required)), required)]

\* The Agent's fold over the nodes is that function's value.
LEMMA SchedulableIsFun ==
    ASSUME NEW w, NEW required
    PROVE  SchedulableReplicas(w, required) = SchedulableFun(w, required)[Eligible(w)]
  BY Zenon DEF SchedulableReplicas, FoldSet, MapThenFoldSet, SchedulableFun, First

\* The Agent's sum over the eligible nodes, which it stops at what is required.
LEMMA SchedulableSum ==
    ASSUME NEW w, World(w), NEW required \in Nat, required <= MaxUint
    PROVE  SchedulableReplicas(w, required) = Capped(Sum(Capacities(w, required), Eligible(w)), required)
  <1> DEFINE S == Eligible(w)
             f == Capacities(w, required)
             cap(n) == NodeCapacity(w, n, required)
             F == [p \in S \X Nat |-> minUint64(saturatingAdd(p[2], f[p[1]]), required)]
             Next1(h) == [s \in SUBSET S |-> IF s = {} THEN 0
                             ELSE minUint64(saturatingAdd(h[s \ {First(s)}], cap(First(s))), required)]
  <1>0. MaxUint \in Nat /\ IsFiniteSet(Nodes) /\ S \in SUBSET Nodes
    BY Zenon, CapacityAssumption DEF Eligible
  <1>a. IsFiniteSet(S)
    BY Zenon, <1>0, FS_Subset
  <1>b. \A n \in S : f[n] = cap(n) /\ f[n] \in Nat
    BY Zenon, <1>0, NodeRoom DEF Capacities
  <1> HIDE DEF S, f, cap
  <1>1. F \in [S \X Nat -> Nat]
    BY <1>0, <1>b DEF minUint64, saturatingAdd
  <1>2. PICK h \in [SUBSET S -> Nat] : h = Unfold(h, S, F, 0)
    <2> HIDE DEF F
    <2>1. \E h \in [SUBSET S -> Nat] : Solves(h, S, F, 0)
      BY Zenon, <1>1, <1>a, RecursionExists
    <2> QED
      BY Zenon, <2>1 DEF Solves
  <1>3. ASSUME NEW s \in SUBSET S, s # {}
        PROVE  F[<<First(s), h[s \ {First(s)}]>>] = minUint64(saturatingAdd(h[s \ {First(s)}], cap(First(s))), required)
    <2>1. First(s) \in S /\ s \ {First(s)} \in SUBSET S
      BY Zenon, <1>3, FirstIn
    <2>2. ASSUME NEW x \in S, NEW v \in Nat PROVE F[<<x, v>>] = minUint64(saturatingAdd(v, cap(x)), required)
      <3>1. F[<<x, v>>] = minUint64(saturatingAdd(<<x, v>>[2], f[<<x, v>>[1]]), required)
        BY Zenon
      <3>2. <<x, v>>[1] = x /\ <<x, v>>[2] = v
        OBVIOUS
      <3> QED
        BY Zenon, <3>1, <3>2, <1>b
    <2> HIDE DEF F
    <2> QED
      BY Zenon, <2>1, <2>2
  <1>4. h = Next1(h)
    <2> HIDE DEF F
    <2> QED
      BY Zenon, <1>2, <1>3 DEF Unfold
  <1> DEFINE g == SchedulableFun(w, required)
             Good == {s \in SUBSET S : g[s] = Capped(Sum(f, s), required)}
  <1>5. g = Next1(g)
    BY Zenon, <1>4 DEF SchedulableFun, S, cap
  <1> HIDE DEF g
  <1>6. g[{}] = 0 /\ \A s \in SUBSET S : s # {} => g[s] = minUint64(saturatingAdd(g[s \ {First(s)}], cap(First(s))), required)
    BY Zenon, <1>5
  <1>7. SumLaws(f, S)
    BY Zenon, <1>a, <1>b, SumTake
  <1>8. ASSUME NEW s \in SUBSET S, \A x \in s : s \ {x} \in Good PROVE s \in Good
    <2>1. CASE s = {}
      <3>1. Sum(f, s) = 0 /\ g[s] = 0
        BY Zenon, <2>1, <1>6, <1>7 DEF SumLaws
      <3> QED
        BY <3>1 DEF Capped
    <2>2. CASE s # {}
      <3> DEFINE c == First(s)
                 v == Sum(f, s \ {First(s)})
      <3>1. c \in s /\ s \ {c} \in SUBSET S
        BY Zenon, <2>2, FirstIn
      <3>2. v \in Nat /\ f[c] \in Nat /\ cap(c) = f[c] /\ Sum(f, s) = f[c] + v
        BY Zenon, <3>1, <1>7, <1>b DEF SumLaws
      <3>3. g[s] = minUint64(saturatingAdd(Capped(v, required), f[c]), required)
        <4>1. g[s \ {c}] = Capped(v, required)
          BY Zenon, <3>1, <1>8
        <4>2. g[s] = minUint64(saturatingAdd(g[s \ {c}], cap(c)), required)
          BY Zenon, <2>2, <1>6
        <4> QED
          BY Zenon, <4>1, <4>2, <3>2
      <3> HIDE DEF c, v
      <3>4. minUint64(saturatingAdd(Capped(v, required), f[c]), required) = Capped(f[c] + v, required)
        BY <3>2, <1>0 DEF saturatingAdd, minUint64, Capped
      <3> QED
        BY Zenon, <3>2, <3>3, <3>4
    <2> QED
      BY Zenon, <2>1, <2>2
  <1>9. \A s \in SUBSET S : s \in Good
    <2> HIDE DEF Good
    <2> QED
      BY Zenon, <1>8, <1>a, SubsetInduction
  <1> QED
    BY Zenon, <1>9, SchedulableIsFun DEF g, S, f

\* An assignment fits when it fits on every node it uses.
LEMMA FitsEverywhere ==
    ASSUME NEW w, NEW f
    PROVE  Fits(w, f) <=> \A n \in Nodes : f[n] > 0 => n \in Eligible(w) /\ FitsOn(w, n, f[n])
  BY Zenon DEF Fits, FitsOn, Whats

\* The nodes' capacities are naturals, none above what is required.
LEMMA CapacitiesOK ==
    ASSUME NEW w, World(w), NEW required \in Nat
    PROVE  /\ IsFiniteSet(Nodes) /\ Eligible(w) \in SUBSET Nodes /\ IsFiniteSet(Eligible(w))
           /\ \A n \in Nodes : /\ Capacities(w, required)[n] = NodeCapacity(w, n, required)
                               /\ Capacities(w, required)[n] \in Nat
                               /\ Capacities(w, required)[n] <= required
  <1>1. IsFiniteSet(Nodes) /\ Eligible(w) \in SUBSET Nodes
    BY Zenon, CapacityAssumption DEF Eligible
  <1>2. IsFiniteSet(Eligible(w))
    BY Zenon, <1>1, FS_Subset
  <1>3. \A n \in Nodes : Capacities(w, required)[n] = NodeCapacity(w, n, required)
    BY Zenon DEF Capacities
  <1> QED
    BY Zenon, <1>1, <1>2, <1>3, NodeRoom

\* Where there is room for a count, the nodes' capacities add up to as much of
\* it as they were asked for.
LEMMA RoomAddsUp ==
    ASSUME NEW w, World(w), NEW required \in Nat, NEW count \in Nat, required <= count, Room(w, count)
    PROVE  required <= Sum(Capacities(w, required), Eligible(w))
  <1> DEFINE c == Capacities(w, required)
             E == Eligible(w)
  <1>1. /\ IsFiniteSet(Nodes) /\ E \in SUBSET Nodes /\ IsFiniteSet(E)
        /\ \A n \in Nodes : c[n] = NodeCapacity(w, n, required) /\ c[n] \in Nat
    BY Zenon, CapacitiesOK
  <1>2. PICK f \in [Nodes -> 0 .. count] : Sum(f, Nodes) = count /\ Fits(w, f)
    BY Zenon DEF Room, Sum
  <1>3. \A n \in Nodes : f[n] \in Nat
    BY <1>2
  <1>4. ASSUME NEW n \in Nodes, f[n] > 0 PROVE n \in E /\ minUint64(f[n], required) <= c[n]
    BY Zenon, <1>1, <1>2, <1>3, <1>4, FitsEverywhere, NodeRoom
  <1> HIDE DEF c, E
  <1>5. SumLaws(c, E)
    BY Zenon, <1>1, SumTake
  <1>6. CASE \E n \in Nodes : f[n] > 0 /\ ~(f[n] < required)
    <2>1. PICK n \in Nodes : f[n] > 0 /\ ~(f[n] < required)
      BY Zenon, <1>6
    <2>2. n \in E /\ required <= c[n]
      BY Zenon, <2>1, <1>4 DEF minUint64
    <2>3. Sum(c, E) = c[n] + Sum(c, E \ {n}) /\ Sum(c, E \ {n}) \in Nat /\ c[n] \in Nat
      BY Zenon, <2>2, <1>1, <1>5 DEF SumLaws
    <2> QED
      BY <2>2, <2>3 DEF c, E
  <1>7. CASE ~ \E n \in Nodes : f[n] > 0 /\ ~(f[n] < required)
    <2>1. ASSUME NEW n \in Nodes PROVE f[n] <= c[n] /\ (n \notin E => f[n] = 0)
      <3>1. CASE f[n] > 0
        <4>1. n \in E /\ minUint64(f[n], required) = f[n]
          BY Zenon, <3>1, <1>4, <1>7 DEF minUint64
        <4> QED
          BY Zenon, <4>1, <3>1, <1>4
      <3>2. CASE ~(f[n] > 0)
        BY <3>2, <1>1, <1>3
      <3> QED
        BY Zenon, <3>1, <3>2
    <2>2. Sum(f, Nodes) = Sum(f, E)
      <3>1. \A n \in Nodes \ E : f[n] = 0
        BY Zenon, <2>1
      <3> QED
        BY Zenon, <3>1, <1>1, <1>3, SumSupport
    <2>3. Sum(f, E) <= Sum(c, E)
      <3>1. \A n \in E : f[n] \in Nat /\ c[n] \in Nat /\ f[n] <= c[n]
        BY Zenon, <2>1, <1>1, <1>3
      <3> QED
        BY Zenon, <3>1, <1>1, SumMono
    <2>4. count <= Sum(c, E) /\ Sum(c, E) \in Nat
      BY Zenon, <2>2, <2>3, <1>1, <1>2, <1>5 DEF SumLaws
    <2> QED
      BY <2>4 DEF c, E
  <1> QED
    BY Zenon, <1>6, <1>7

\* Where the nodes' capacities add up to what is required, it fits.
LEMMA SumHasRoom ==
    ASSUME NEW w, World(w), NEW required \in Nat,
           required <= Sum(Capacities(w, required), Eligible(w))
    PROVE  Room(w, required)
  <1> DEFINE c == Capacities(w, required)
             E == Eligible(w)
             d == [n \in Nodes |-> IF n \in E THEN c[n] ELSE 0]
  <1>1. /\ IsFiniteSet(Nodes) /\ E \in SUBSET Nodes /\ IsFiniteSet(E)
        /\ \A n \in Nodes : c[n] = NodeCapacity(w, n, required) /\ c[n] \in Nat /\ c[n] <= required
    BY Zenon, CapacitiesOK
  <1>2. required <= Sum(c, E)
    OBVIOUS
  <1> HIDE DEF c, E
  <1>3. /\ d \in [Nodes -> Nat] /\ \A n \in E : c[n] \in Nat /\ c[n] = d[n]
        /\ \A n \in Nodes \ E : d[n] = 0
        /\ \A n \in Nodes : d[n] \in Nat
    BY <1>1
  <1>4. \A n \in Nodes : d[n] <= required /\ (d[n] > 0 => n \in E /\ d[n] = c[n])
    BY <1>1
  <1> HIDE DEF d
  <1>5. Sum(d, Nodes) = Sum(d, E)
    BY Zenon, <1>1, <1>3, SumSupport
  <1>6. Sum(c, E) = Sum(d, E)
    BY Zenon, <1>1, <1>3, SumSame
  <1>7. required <= Sum(d, Nodes)
    BY Zenon, <1>2, <1>5, <1>6
  <1>8. PICK f : SpreadOf(f, d, Nodes, required)
    BY Zenon, <1>1, <1>3, <1>7, SumSpread
  <1>9. f \in [Nodes -> Nat] /\ (\A n \in Nodes : f[n] <= d[n]) /\ Sum(f, Nodes) = required
    BY Zenon, <1>8 DEF SpreadOf
  <1>10. f \in [Nodes -> 0 .. required]
    BY <1>3, <1>4, <1>9
  <1>11. ASSUME NEW n \in Nodes, f[n] > 0 PROVE n \in E /\ FitsOn(w, n, f[n])
    <2>1. f[n] \in Nat \ {0} /\ f[n] <= c[n] /\ n \in E
      BY <1>3, <1>4, <1>9, <1>11
    <2> QED
      BY Zenon, <2>1, <1>1, NodeRoom
  <1>12. Fits(w, f)
    BY Zenon, <1>11, FitsEverywhere DEF E
  <1> QED
    BY Zenon, <1>9, <1>10, <1>12 DEF Room, Sum

\* The comparison by which evaluateServiceCapacity decides is exact: it finds
\* fewer schedulable replicas than required if and only if no assignment of the
\* required replicas to eligible nodes keeps within every CPU, memory and
\* per-node limit, in spite of saturation, division and capping.
THEOREM SchedulableMeansRoom ==
    ASSUME NEW w, World(w), NEW required \in 0 .. MaxUint
    PROVE  SchedulableReplicas(w, required) < required <=> ~Room(w, required)
  <1> DEFINE v == Sum(Capacities(w, required), Eligible(w))
  <1>1. required \in Nat /\ required <= MaxUint
    BY CapacityAssumption
  <1>2. v \in Nat
    BY Zenon, <1>1, CapacitiesOK, SumTake DEF SumLaws
  <1>3. SchedulableReplicas(w, required) = Capped(v, required)
    BY Zenon, <1>1, SchedulableSum
  <1>4. Room(w, required) <=> required <= v
    <2>1. required <= required
      BY <1>1
    <2> QED
      BY Zenon, <1>1, <2>1, RoomAddsUp, SumHasRoom
  <1> HIDE DEF v
  <1> QED
    BY <1>1, <1>2, <1>3, <1>4 DEF Capped

-----------------------------------------------------------------------------
(* The verdict *)

\* What a request asks for, within the width.
LEMMA RequiredOK ==
    ASSUME NEW s \in Services, s.replicas # None, NEW r \in Requests
    PROVE  /\ RequiredReplicas(s, r) \in 0 .. MaxUint
           /\ Wanted(s, r) \in Nat
           /\ RequiredReplicas(s, r) = minUint64(Wanted(s, r), MaxUint)
  <1>1. MaxUint \in Nat /\ Targets \subseteq 0 .. MaxUint /\ Services \subseteq Specs
    BY Zenon, CapacityAssumption
  <1>2. s.replicas \in Nat /\ s.parallelism \in Nat /\ s.startFirst \in BOOLEAN
    BY <1>1 DEF Specs
  <1>3. r.target \in Nat /\ r.target <= MaxUint /\ r.include \in BOOLEAN
    <2>1. r.target \in Targets /\ r.include \in BOOLEAN
      BY Zenon DEF Requests
    <2>2. r.target \in 0 .. MaxUint
      BY Zenon, <2>1, <1>1
    <2>3. r.target \in Nat /\ r.target <= MaxUint
      BY <2>2, <1>1
    <2> QED
      BY Zenon, <2>1, <2>3
  <1>4. Additional(s, r) \in Nat /\ Additional(s, r) <= MaxUint
    BY <1>1, <1>2, <1>3 DEF Additional, clampNonNegative
  <1>5. updateOverlapReplicas(s, r) \in Nat
    BY <1>2, <1>3 DEF updateOverlapReplicas
  <1> QED
    BY <1>1, <1>4, <1>5 DEF RequiredReplicas, Wanted, saturatingAdd, minUint64

\* When evaluateServiceCapacity answers what.
LEMMA CapacityVerdict ==
    ASSUME NEW w, NEW r, w.service.replicas # None, RequiredReplicas(w.service, r) \in Nat
    PROVE  /\ evaluateServiceCapacity(w, r) = "SUFFICIENT" =>
                 \/ RequiredReplicas(w.service, r) = 0
                 \/ ~(SchedulableReplicas(w, RequiredReplicas(w.service, r)) < RequiredReplicas(w.service, r))
           /\ evaluateServiceCapacity(w, r) = "INSUFFICIENT" =>
                 /\ RequiredReplicas(w.service, r) > 0
                 /\ \/ Eligible(w) = {}
                    \/ SchedulableReplicas(w, RequiredReplicas(w.service, r)) < RequiredReplicas(w.service, r)
           /\ evaluateServiceCapacity(w, r) \in {"SUFFICIENT", "INSUFFICIENT", "UNKNOWN"}
  <1> DEFINE q == RequiredReplicas(w.service, r)
             e == evaluateServiceCapacity(w, r)
             short == SchedulableReplicas(w, q) < q
  <1>1. e = CASE q = 0 -> "SUFFICIENT"
              [] q > 0 /\ Eligible(w) = {} -> "INSUFFICIENT"
              [] q > 0 /\ Eligible(w) # {} /\ w.service.opaque # "nothing" -> "UNKNOWN"
              [] q > 0 /\ Eligible(w) # {} /\ w.service.opaque = "nothing" /\ w.service.res.cpu = 0 /\ w.service.res.mem = 0 ->
                    IF w.service.max > 0 /\ short THEN "INSUFFICIENT" ELSE "UNKNOWN"
              [] OTHER -> IF short THEN "INSUFFICIENT" ELSE "SUFFICIENT"
    BY Zenon DEF evaluateServiceCapacity
  <1>2. (q = 0 /\ ~(q > 0)) \/ (q > 0 /\ q # 0)
    OBVIOUS
  <1> HIDE DEF q, e, short
  <1>3. CASE q = 0
    <2>1. e = "SUFFICIENT"
      BY <1>1, <1>2, <1>3
    <2> QED
      BY <1>3, <2>1 DEF q, e
  <1>4. CASE q > 0
    <2>1. /\ e = "SUFFICIENT" => ~short
          /\ e = "INSUFFICIENT" => Eligible(w) = {} \/ short
          /\ e \in {"SUFFICIENT", "INSUFFICIENT", "UNKNOWN"}
      BY <1>1, <1>2, <1>4
    <2> QED
      BY Zenon, <1>4, <2>1 DEF q, e, short
  <1> QED
    BY Zenon, <1>2, <1>3, <1>4

\* The verdict of a check against the room for what was asked for.
LEMMA VerdictMeansRoom ==
    ASSUME NEW w, World(w), w.service.replicas # None, NEW r \in Requests
    PROVE  LET wanted == Wanted(w.service, r) IN
           /\ evaluateServiceCapacity(w, r) = "INSUFFICIENT" => ~Room(w, wanted)
           /\ evaluateServiceCapacity(w, r) = "SUFFICIENT" => Room(w, minUint64(wanted, MaxUint))
  <1> DEFINE wanted == Wanted(w.service, r)
             q == RequiredReplicas(w.service, r)
             E == Eligible(w)
             v == Sum(Capacities(w, q), E)
  <1>1. w.service \in Services
    BY DEF World, Swarms
  <1>2. q \in 0 .. MaxUint /\ wanted \in Nat /\ q = minUint64(wanted, MaxUint)
    BY Zenon, <1>1, RequiredOK
  <1>3. MaxUint \in Nat
    BY Zenon, CapacityAssumption
  <1>4. q \in Nat /\ q <= wanted
    <2> HIDE DEF q, wanted
    <2> QED
      BY <1>2, <1>3 DEF minUint64
  <1>5. SumLaws(Capacities(w, q), E)
    BY Zenon, <1>4, CapacitiesOK, SumTake
  <1>6. v \in Nat /\ (E = {} => v = 0)
    BY Zenon, <1>5 DEF SumLaws
  <1>7. ASSUME evaluateServiceCapacity(w, r) = "INSUFFICIENT", Room(w, wanted) PROVE FALSE
    <2>1. q <= v
      BY Zenon, <1>2, <1>4, <1>7, RoomAddsUp
    <2>2. q > 0 /\ (E = {} \/ SchedulableReplicas(w, q) < q)
      BY Zenon, <1>4, <1>7, CapacityVerdict
    <2>3. Room(w, q)
      BY Zenon, <2>1, <1>4, SumHasRoom
    <2>4. ~(SchedulableReplicas(w, q) < q)
      BY Zenon, <2>3, <1>2, SchedulableMeansRoom
    <2>5. v = 0
      BY Zenon, <2>2, <2>4, <1>6
    <2> HIDE DEF q, v
    <2> QED
      BY <2>1, <2>2, <2>5, <1>4
  <1>8. ASSUME evaluateServiceCapacity(w, r) = "SUFFICIENT" PROVE Room(w, q)
    <2>1. CASE q = 0
      <3>1. q <= v
        <4> HIDE DEF q, v
        <4> QED
          BY <2>1, <1>6
      <3> QED
        BY Zenon, <3>1, <1>4, SumHasRoom
    <2>2. CASE q # 0
      <3>1. ~(SchedulableReplicas(w, q) < q)
        BY Zenon, <2>2, <1>4, <1>8, CapacityVerdict
      <3> QED
        BY Zenon, <3>1, <1>2, SchedulableMeansRoom
    <2> QED
      BY Zenon, <2>1, <2>2
  <1> QED
    BY Zenon, <1>2, <1>7, <1>8

\* CONVERGED is found when there is no reason against it.
LEMMA PlacementVerdict ==
    ASSUME NEW w
    PROVE  /\ evaluateServicePlacement(w) \in {"UNKNOWN", "CONVERGED", "PENDING"}
           /\ evaluateServicePlacement(w) = "CONVERGED" => w.service.replicas # None /\ Reasons(w) = {}
  BY DEF evaluateServicePlacement

\* Then every task that uses a node is one of the replicas, and where it may be.
LEMMA ConvergedExact ==
    ASSUME NEW w, World(w), Reasons(w) = {}
    PROVE  Converged(w)
  <1>1. Cardinality(Running(w)) = w.service.replicas /\ Violations(w) = {}
    BY DEF Reasons
  <1>2. Alive(w) = Running(w)
    <2>1. ASSUME NEW t \in Tasks
          PROVE  w.tasks[t].st \notin {"starting", "over"} <=> w.tasks[t].st \in {"running", "leaving"}
      <3>1. w.tasks[t] \in TaskStates
        BY DEF World, Swarms
      <3> QED
        BY <3>1 DEF TaskStates
    <2> QED
      BY <2>1 DEF Alive, Running
  <1>3. Settled(w) = Running(w)
    BY Zenon, <1>1, <1>2 DEF Settled, Violations
  <1> QED
    BY Zenon, <1>1, <1>2, <1>3 DEF Converged

Verdict(k, w, r) == IF k = "placement" THEN evaluateServicePlacement(w) ELSE evaluateServiceCapacity(w, r)

\* A verdict is a fact of what it was computed from.
LEMMA VerdictFacts ==
    ASSUME NEW w, World(w), NEW k \in {"capacity", "placement"}, NEW r, k = "capacity" => r \in Requests
    PROVE  /\ Verdict(k, w, r) \in Verdicts
           /\ Verdict(k, w, r) = "INSUFFICIENT" => ~Room(w, Wanted(w.service, r)) /\ "short" \in Facts(w, k, r)
           /\ Verdict(k, w, r) = "SUFFICIENT" =>
                 Room(w, minUint64(Wanted(w.service, r), MaxUint)) /\ "room" \in Facts(w, k, r)
           /\ Verdict(k, w, r) = "CONVERGED" => Converged(w) /\ "converged" \in Facts(w, k, r)
  <1>1. CASE k = "placement"
    <2>1. Verdict(k, w, r) = evaluateServicePlacement(w)
      BY Zenon, <1>1 DEF Verdict
    <2>2. Verdict(k, w, r) \in {"UNKNOWN", "CONVERGED", "PENDING"}
      BY Zenon, <2>1, PlacementVerdict
    <2>3. ASSUME Verdict(k, w, r) = "CONVERGED" PROVE Converged(w) /\ "converged" \in Facts(w, k, r)
      <3>1. w.service.replicas # None /\ Converged(w)
        BY Zenon, <2>1, <2>3, PlacementVerdict, ConvergedExact
      <3> QED
        BY Zenon, <1>1, <3>1 DEF Facts
    <2> QED
      BY <2>2, <2>3 DEF Verdicts
  <1>2. CASE k = "capacity"
    <2>1. Verdict(k, w, r) = evaluateServiceCapacity(w, r) /\ r \in Requests
      BY <1>2 DEF Verdict
    <2>2. CASE w.service.replicas = None
      <3>1. Verdict(k, w, r) = "UNKNOWN"
        BY Zenon, <2>1, <2>2 DEF evaluateServiceCapacity
      <3> QED
        BY <3>1 DEF Verdicts
    <2>3. CASE w.service.replicas # None
      <3>1. w.service \in Services
        BY DEF World, Swarms
      <3>2. RequiredReplicas(w.service, r) \in 0 .. MaxUint
        BY Zenon, <2>1, <2>3, <3>1, RequiredOK
      <3>3. RequiredReplicas(w.service, r) \in Nat
        BY <3>2, CapacityAssumption
      <3>4. Verdict(k, w, r) \in {"SUFFICIENT", "INSUFFICIENT", "UNKNOWN"}
        BY Zenon, <2>1, <2>3, <3>3, CapacityVerdict
      <3>5. /\ Verdict(k, w, r) = "INSUFFICIENT" => ~Room(w, Wanted(w.service, r))
            /\ Verdict(k, w, r) = "SUFFICIENT" => Room(w, minUint64(Wanted(w.service, r), MaxUint))
        BY Zenon, <2>1, <2>3, VerdictMeansRoom
      <3>6. k # "placement" /\ "short" # "room"
        BY <1>2
      <3>7. /\ ~Room(w, Wanted(w.service, r)) => "short" \in Facts(w, k, r)
            /\ Room(w, minUint64(Wanted(w.service, r), MaxUint)) => "room" \in Facts(w, k, r)
        BY Zenon, <2>3, <3>6 DEF Facts
      <3>8. Verdict(k, w, r) \in Verdicts /\ Verdict(k, w, r) # "CONVERGED"
        BY <3>4 DEF Verdicts
      <3> QED
        BY Zenon, <3>5, <3>7, <3>8
    <2> QED
      BY Zenon, <2>2, <2>3
  <1> QED
    BY Zenon, <1>1, <1>2

-----------------------------------------------------------------------------
(* The check *)

CheckType ==
    [pc : {"idle", "asked", "nodes", "tasks", "done", "refused"}, kind : {"capacity", "placement"},
     req : Requests \cup {None}, expected : Nat,
     view : [service : Services \cup {None}, nodes : [Nodes -> NodeStates] \cup {None},
             tasks : [Tasks -> TaskStates] \cup {None}],
     moved : SUBSET (Parts \X Reading), verdict : Verdicts \cup {None}]

Mix(service, nodes, tasks) == [service |-> service, nodes |-> nodes, tasks |-> tasks]

FactsOf(service, nodes, tasks) == Facts(Mix(service, nodes, tasks), check.kind, check.req)

\* The service is the one that was read, unless it changed.  While the nodes and
\* tasks stay, they go with the service that was read.
AtNodes ==
    check.pc = "nodes" =>
        /\ check.view.service \in Services
        /\ Stayed("service", {"nodes"}) => check.view.service = swarm.service
        /\ Stayed("nodes", {"nodes"}) /\ Stayed("tasks", {"nodes"}) =>
              \/ check.view.service = swarm.service
              \/ FactsOf(check.view.service, swarm.nodes, swarm.tasks) \subseteq past

\* While the tasks stay, they go with the service and the nodes that were read,
\* if those two went together.
AtTasks ==
    check.pc = "tasks" =>
        /\ check.view.service \in Services /\ check.view.nodes \in [Nodes -> NodeStates]
        /\ Stayed("service", Reading) => check.view.service = swarm.service
        /\ Stayed("nodes", {"tasks"}) => check.view.nodes = swarm.nodes
        /\ /\ Stayed("tasks", {"tasks"})
           /\ Stayed("service", {"nodes"}) \/ (Stayed("nodes", {"nodes"}) /\ Stayed("tasks", {"nodes"}))
           => FactsOf(check.view.service, check.view.nodes, swarm.tasks) \subseteq past

\* The verdict is computed from the view, and the view is the Swarm, or was.
AtDone ==
    check.pc = "done" =>
        /\ check.view \in Swarms /\ check.verdict = Verdict(check.kind, check.view, check.req)
        /\ Current => check.view = swarm
        /\ Together => Facts(check.view, check.kind, check.req) \subseteq past

IInv ==
    /\ swarm \in Swarms /\ version \in Nat /\ changes \in 0 .. MaxChanges
    /\ past \subseteq {"room", "short", "converged"} /\ check \in CheckType
    /\ check.pc \in {"asked", "nodes", "tasks", "done"} /\ check.kind = "capacity" => check.req \in Requests
    /\ AtNodes /\ AtTasks /\ AtDone

\* A record is made of its fields.
LEMMA SwarmIsMix ==
    ASSUME NEW w \in Swarms
    PROVE  w = Mix(w.service, w.nodes, w.tasks)
  BY DEF Swarms, Mix

LEMMA MixWorld ==
    ASSUME NEW s \in Services, NEW n \in [Nodes -> NodeStates], NEW t \in [Tasks -> TaskStates]
    PROVE  Mix(s, n, t) \in Swarms
  BY Zenon DEF Swarms, Mix

LEMMA FactsType == \A w, k, r : Facts(w, k, r) \subseteq {"room", "short", "converged"}
  BY Zenon DEF Facts

\* What a step of the check that reads nothing more, or ends it, has to show.
LEMMA NotReading ==
    ASSUME check'.pc \in {"idle", "asked", "refused"}
    PROVE  AtNodes' /\ AtTasks' /\ AtDone'
  BY DEF AtNodes, AtTasks, AtDone

LEMMA Types ==
    ASSUME IInv
    PROVE  /\ swarm \in Swarms /\ version \in Nat /\ changes \in 0 .. MaxChanges /\ check \in CheckType
           /\ past \subseteq {"room", "short", "converged"}
           /\ swarm.service \in Services /\ swarm.nodes \in [Nodes -> NodeStates] /\ swarm.tasks \in [Tasks -> TaskStates]
           /\ swarm = Mix(swarm.service, swarm.nodes, swarm.tasks)
           /\ check.kind \in {"capacity", "placement"} /\ check.moved \subseteq Parts \X Reading
  <1>1. swarm \in Swarms /\ check \in CheckType
    BY Zenon DEF IInv
  <1>2. swarm.service \in Services /\ swarm.nodes \in [Nodes -> NodeStates] /\ swarm.tasks \in [Tasks -> TaskStates]
    BY <1>1 DEF Swarms
  <1>3. check.kind \in {"capacity", "placement"} /\ check.moved \subseteq Parts \X Reading
    BY <1>1 DEF CheckType
  <1> QED
    BY Zenon, <1>1, <1>2, <1>3, SwarmIsMix DEF IInv

\* No check has been made at first.
LEMMA InitHolds == Init => IInv
  <1> SUFFICES ASSUME Init PROVE IInv
    OBVIOUS
  <1>1. swarm \in Swarms
    BY DEF Init, Swarms
  <1>2. changes \in 0 .. MaxChanges /\ version \in Nat /\ past \subseteq {"room", "short", "converged"}
    BY CapacityAssumption DEF Init
  <1>3. check = Idle /\ check.pc = "idle"
    BY DEF Init, Idle
  <1>4. check \in CheckType
    BY <1>3 DEF CheckType, Idle, Unread
  <1>5. AtNodes /\ AtTasks /\ AtDone
    BY <1>3 DEF AtNodes, AtTasks, AtDone
  <1> QED
    BY <1>1, <1>2, <1>3, <1>4, <1>5 DEF IInv

\* The error of a check that is refused.
LEMMA RefuseStep ==
    ASSUME IInv, Refuse, UNCHANGED <<swarm, version, changes>>
    PROVE  IInv'
  <1>1. check'.pc = "refused" /\ check' \in CheckType /\ past' = {}
    BY DEF Refuse, Idle, Unread, CheckType
  <1>2. swarm' \in Swarms /\ version' \in Nat /\ changes' \in 0 .. MaxChanges
    BY Zenon, Types
  <1> QED
    BY <1>1, <1>2, NotReading DEF IInv

\* A request has a target; a placement check has none.
LEMMA AskStep ==
    ASSUME IInv, Ask
    PROVE  IInv'
  <1>1. UNCHANGED <<swarm, version, past, changes>>
    BY Zenon DEF Ask
  <1>2. check \in CheckType /\ version \in Nat
    BY Zenon, Types
  <1>3. CASE \E r \in Requests : check' = [check EXCEPT !.pc = "asked", !.req = r, !.expected = version]
    <2>1. check' \in CheckType /\ check'.pc = "asked" /\ check'.req \in Requests
      BY Zenon, <1>2, <1>3 DEF CheckType
    <2> QED
      BY Zenon, <1>1, <2>1, Types, NotReading DEF IInv
  <1>4. CASE check' = [check EXCEPT !.pc = "asked", !.kind = "placement"]
    <2>1. check' \in CheckType /\ check'.pc = "asked" /\ check'.kind = "placement"
      BY Zenon, <1>2, <1>4 DEF CheckType
    <2>2. check'.kind # "capacity"
      BY <2>1
    <2> QED
      BY Zenon, <1>1, <2>1, <2>2, Types, NotReading DEF IInv
  <1> QED
    BY Zenon, <1>3, <1>4 DEF Ask

\* What has just been read is so.
LEMMA ReadServiceStep ==
    ASSUME IInv, ReadService
    PROVE  IInv'
  <1>1. UNCHANGED <<swarm, version, changes>> /\ check.pc = "asked"
    BY Zenon DEF ReadService
  <1>2. CASE Refuse
    BY Zenon, <1>1, <1>2, RefuseStep
  <1>3. CASE check' = [check EXCEPT !.pc = "nodes", !.view.service = swarm.service] /\ UNCHANGED past
    <2> DEFINE v == [check.view EXCEPT !.service = swarm.service]
    <2>0. /\ check.view \in [service : Services \cup {None}, nodes : [Nodes -> NodeStates] \cup {None},
                             tasks : [Tasks -> TaskStates] \cup {None}]
          /\ check' = [check EXCEPT !.pc = "nodes", !.view = v]
      BY <1>3, Types DEF CheckType
    <2>1. /\ v.service = swarm.service
          /\ v \in [service : Services \cup {None}, nodes : [Nodes -> NodeStates] \cup {None},
                    tasks : [Tasks -> TaskStates] \cup {None}]
      BY Zenon, <2>0, Types
    <2> HIDE DEF v
    <2>2. /\ check' \in CheckType /\ check'.pc = "nodes" /\ check'.kind = check.kind /\ check'.req = check.req
          /\ check'.view = v
      BY Zenon, <2>0, <2>1, Types DEF CheckType
    <2>3. AtNodes'
      BY Zenon, <1>1, <2>1, <2>2, Types DEF AtNodes
    <2>4. AtTasks' /\ AtDone'
      BY <2>2 DEF AtTasks, AtDone
    <2>5. check'.kind = "capacity" => check'.req \in Requests
      BY <1>1, <2>2 DEF IInv
    <2> QED
      BY Zenon, <1>1, <1>3, <2>2, <2>3, <2>4, <2>5, Types DEF IInv
  <1> QED
    BY Zenon, <1>2, <1>3 DEF ReadService

\* A part that stayed at every read stayed at each.
LEMMA StayedReading ==
    ASSUME NEW part
    PROVE  Stayed(part, Reading) <=> Stayed(part, {"nodes"}) /\ Stayed(part, {"tasks"})
  BY Zenon DEF Stayed, Reading

\* The nodes go with the service, if it stayed; and else with the service and
\* the tasks of when the service was read, if nodes and tasks stayed.
LEMMA ReadNodesStep ==
    ASSUME IInv, ReadNodes
    PROVE  IInv'
  <1> DEFINE v == [check.view EXCEPT !.nodes = swarm.nodes]
  <1>1. /\ UNCHANGED <<swarm, version, changes>> /\ check.pc = "nodes"
        /\ past' = past \cup Facts(swarm, check.kind, check.req)
    BY Zenon DEF ReadNodes, Note
  <1>2. /\ check.view \in [service : Services \cup {None}, nodes : [Nodes -> NodeStates] \cup {None},
                           tasks : [Tasks -> TaskStates] \cup {None}]
        /\ check' = [check EXCEPT !.pc = "tasks", !.view = v]
    BY Types DEF CheckType, ReadNodes
  <1>3. /\ v.service = check.view.service /\ v.nodes = swarm.nodes
        /\ v \in [service : Services \cup {None}, nodes : [Nodes -> NodeStates] \cup {None},
                  tasks : [Tasks -> TaskStates] \cup {None}]
    BY Zenon, <1>2, Types
  <1> HIDE DEF v
  <1>4. /\ check' \in CheckType /\ check'.pc = "tasks" /\ check'.kind = check.kind /\ check'.req = check.req
        /\ check'.view = v /\ check'.moved = check.moved
    BY Zenon, <1>2, <1>3, Types DEF CheckType
  <1>5. /\ check.view.service \in Services
        /\ Stayed("service", {"nodes"}) => check.view.service = swarm.service
        /\ Stayed("nodes", {"nodes"}) /\ Stayed("tasks", {"nodes"}) =>
              \/ check.view.service = swarm.service
              \/ Facts(Mix(check.view.service, swarm.nodes, swarm.tasks), check.kind, check.req) \subseteq past
    BY Zenon, <1>1 DEF IInv, AtNodes, FactsOf
  <1>6. /\ Stayed("service", Reading)' => Stayed("service", {"nodes"})
        /\ Stayed("service", {"nodes"})' => Stayed("service", {"nodes"})
        /\ Stayed("nodes", {"nodes"})' => Stayed("nodes", {"nodes"})
        /\ Stayed("tasks", {"nodes"})' => Stayed("tasks", {"nodes"})
    BY Zenon, <1>4 DEF Stayed, Reading
  <1>7. check.view.service = swarm.service
           => Facts(Mix(check.view.service, swarm.nodes, swarm.tasks), check.kind, check.req) \subseteq past'
    BY Zenon, <1>1, Types
  <1>8. past \subseteq past'
    BY Zenon, <1>1
  <1>9. AtTasks'
    <2>1. /\ check'.view.service \in Services /\ check'.view.nodes \in [Nodes -> NodeStates]
          /\ Stayed("service", Reading)' => check'.view.service = swarm'.service
          /\ check'.view.nodes = swarm'.nodes
      BY Zenon, <1>1, <1>3, <1>4, <1>5, <1>6, Types
    <2>2. Stayed("service", {"nodes"})' \/ (Stayed("nodes", {"nodes"})' /\ Stayed("tasks", {"nodes"})')
             => Facts(Mix(check.view.service, swarm.nodes, swarm.tasks), check.kind, check.req) \subseteq past'
      BY Zenon, <1>5, <1>6, <1>7, <1>8
    <2>3. FactsOf(check.view.service, check.view.nodes, swarm.tasks)'
             = Facts(Mix(check.view.service, swarm.nodes, swarm.tasks), check.kind, check.req)
      BY Zenon, <1>1, <1>3, <1>4 DEF FactsOf
    <2> QED
      BY Zenon, <2>1, <2>2, <2>3 DEF AtTasks
  <1>10. AtNodes' /\ AtDone'
    BY <1>4 DEF AtNodes, AtDone
  <1>11. past' \subseteq {"room", "short", "converged"}
    BY Zenon, <1>1, FactsType, Types
  <1>12. check'.kind = "capacity" => check'.req \in Requests
    BY <1>1, <1>4 DEF IInv
  <1> QED
    BY Zenon, <1>1, <1>4, <1>9, <1>10, <1>11, <1>12, Types DEF IInv

\* The last read completes the view.
LEMMA ReadTasksStep ==
    ASSUME IInv, ReadTasks
    PROVE  IInv'
  <1> DEFINE v == [check.view EXCEPT !.tasks = swarm.tasks]
  <1>1. /\ UNCHANGED <<swarm, version, changes>> /\ check.pc = "tasks"
        /\ past' = past \cup Facts(swarm, check.kind, check.req)
    BY Zenon DEF ReadTasks, Note
  <1>2. /\ check.view \in [service : Services \cup {None}, nodes : [Nodes -> NodeStates] \cup {None},
                           tasks : [Tasks -> TaskStates] \cup {None}]
        /\ check' = [check EXCEPT !.pc = "done", !.view = v, !.verdict = Verdict(check.kind, v, check.req)]
    BY Zenon, Types DEF CheckType, ReadTasks, Verdict
  <1>3. /\ check.view.service \in Services /\ check.view.nodes \in [Nodes -> NodeStates]
        /\ Stayed("service", Reading) => check.view.service = swarm.service
        /\ Stayed("nodes", {"tasks"}) => check.view.nodes = swarm.nodes
        /\ /\ Stayed("tasks", {"tasks"})
           /\ Stayed("service", {"nodes"}) \/ (Stayed("nodes", {"nodes"}) /\ Stayed("tasks", {"nodes"}))
           => Facts(Mix(check.view.service, check.view.nodes, swarm.tasks), check.kind, check.req) \subseteq past
    BY Zenon, <1>1 DEF IInv, AtTasks, FactsOf
  <1>4. v = Mix(check.view.service, check.view.nodes, swarm.tasks)
    BY <1>2 DEF Mix
  <1>5. Mix(check.view.service, check.view.nodes, swarm.tasks) \in Swarms
    BY Zenon, <1>3, MixWorld, Types
  <1>6. v \in [service : Services \cup {None}, nodes : [Nodes -> NodeStates] \cup {None},
               tasks : [Tasks -> TaskStates] \cup {None}]
    BY Zenon, <1>2, Types
  <1> HIDE DEF v
  <1>7. check.kind = "capacity" => check.req \in Requests
    BY <1>1 DEF IInv
  <1>8. Verdict(check.kind, v, check.req) \in Verdicts
    BY Zenon, <1>4, <1>5, <1>7, VerdictFacts, Types DEF World
  <1>9. /\ check' \in CheckType /\ check'.pc = "done" /\ check'.kind = check.kind /\ check'.req = check.req
        /\ check'.view = v /\ check'.moved = check.moved /\ check'.verdict = Verdict(check.kind, v, check.req)
    BY Zenon, <1>2, <1>6, <1>8, Types DEF CheckType
  <1>10. (Current' <=> Current) /\ (Together' <=> Together)
    BY Zenon, <1>9 DEF Current, Together, Stayed
  <1>11. Current => v = swarm
    BY Zenon, <1>3, <1>4, Types DEF Current
  <1>12. Together => Facts(v, check.kind, check.req) \subseteq past'
    <2>1. Current => Facts(v, check.kind, check.req) \subseteq past'
      BY Zenon, <1>1, <1>11
    <2>2. Stayed("service", {"nodes"}) /\ Stayed("tasks", {"tasks"}) => Facts(v, check.kind, check.req) \subseteq past'
      BY Zenon, <1>1, <1>3, <1>4
    <2>3. Stayed("nodes", {"nodes"}) /\ Stayed("tasks", Reading) => Facts(v, check.kind, check.req) \subseteq past'
      BY Zenon, <1>1, <1>3, <1>4, StayedReading
    <2> QED
      BY Zenon, <2>1, <2>2, <2>3 DEF Together
  <1>13. AtDone'
    BY Zenon, <1>1, <1>4, <1>5, <1>9, <1>10, <1>11, <1>12 DEF AtDone
  <1>14. AtNodes' /\ AtTasks'
    BY <1>9 DEF AtNodes, AtTasks
  <1>15. past' \subseteq {"room", "short", "converged"}
    BY Zenon, <1>1, FactsType, Types
  <1> QED
    BY Zenon, <1>1, <1>7, <1>9, <1>13, <1>14, <1>15, Types DEF IInv

\* A change is remembered, with what was true before it; so what went with the
\* parts that were read went with them at the moment before.
LEMMA ChangeStep ==
    ASSUME IInv, NEW part \in Parts, Change(part), swarm' \in Swarms, version' \in Nat,
           part # "service" => swarm'.service = swarm.service,
           part # "nodes" => swarm'.nodes = swarm.nodes,
           part # "tasks" => swarm'.tasks = swarm.tasks
    PROVE  IInv'
  <1> DEFINE m == check.moved \cup {<<part, check.pc>>}
             F(s, n, t) == Facts(Mix(s, n, t), check.kind, check.req)
  <1>1. /\ check.pc \in Reading /\ check' = [check EXCEPT !.moved = m]
        /\ past' = past \cup Facts(swarm, check.kind, check.req)
    BY Zenon, Types DEF Change, Note, CheckType
  <1>2. changes' \in 0 .. MaxChanges
    BY Types, CapacityAssumption DEF Change
  <1>3. m \subseteq Parts \X Reading
    BY <1>1, Types
  <1> HIDE DEF m
  <1>4. /\ check' \in CheckType /\ check'.pc = check.pc /\ check'.kind = check.kind /\ check'.req = check.req
        /\ check'.view = check.view /\ check'.moved = m
    BY Zenon, <1>1, <1>3, Types DEF CheckType
  <1>5. /\ \A p, pcs : Stayed(p, pcs)' => Stayed(p, pcs)
        /\ check.pc = "nodes" => ~Stayed(part, {"nodes"})'
        /\ check.pc = "tasks" => ~Stayed(part, {"tasks"})'
        /\ ~Stayed(part, Reading)'
    BY Zenon, <1>1, <1>4 DEF Stayed, m
  <1>6. past \subseteq past' /\ F(swarm.service, swarm.nodes, swarm.tasks) \subseteq past'
    BY Zenon, <1>1, Types
  <1>7. past' \subseteq {"room", "short", "converged"}
    BY Zenon, <1>1, FactsType, Types
  <1>8. check'.kind = "capacity" => check'.req \in Requests
    BY <1>1, <1>4 DEF IInv, Reading
  <1>9. part = "service" \/ part = "nodes" \/ part = "tasks"
    BY Zenon DEF Parts
  <1>10. CASE check.pc = "nodes"
    <2>1. /\ check.view.service \in Services
          /\ Stayed("service", {"nodes"}) => check.view.service = swarm.service
          /\ Stayed("nodes", {"nodes"}) /\ Stayed("tasks", {"nodes"}) =>
                \/ check.view.service = swarm.service
                \/ F(check.view.service, swarm.nodes, swarm.tasks) \subseteq past
      BY Zenon, <1>10 DEF IInv, AtNodes, FactsOf
    <2>2. FactsOf(check.view.service, swarm.nodes, swarm.tasks)' = F(check.view.service, swarm'.nodes, swarm'.tasks)
      BY Zenon, <1>4 DEF FactsOf
    <2> HIDE DEF F
    <2>3. Stayed("service", {"nodes"})' => check.view.service = swarm'.service
      <3>1. CASE part = "service"
        BY Zenon, <1>5, <1>10, <3>1
      <3>2. CASE part # "service"
        BY Zenon, <1>5, <2>1, <3>2
      <3> QED
        BY Zenon, <3>1, <3>2
    <2>4. Stayed("nodes", {"nodes"})' /\ Stayed("tasks", {"nodes"})' =>
             F(check.view.service, swarm'.nodes, swarm'.tasks) \subseteq past'
      <3> SUFFICES ASSUME Stayed("nodes", {"nodes"})', Stayed("tasks", {"nodes"})'
                   PROVE  F(check.view.service, swarm'.nodes, swarm'.tasks) \subseteq past'
        BY Zenon
      <3>1. part # "nodes" /\ part # "tasks"
        BY Zenon, <1>5, <1>10
      <3>2. swarm'.nodes = swarm.nodes /\ swarm'.tasks = swarm.tasks
        BY Zenon, <3>1
      <3>3. check.view.service = swarm.service \/ F(check.view.service, swarm.nodes, swarm.tasks) \subseteq past
        BY Zenon, <1>5, <2>1
      <3> QED
        BY Zenon, <1>6, <3>2, <3>3
    <2>5. AtNodes'
      BY Zenon, <1>4, <2>1, <2>2, <2>3, <2>4 DEF AtNodes
    <2>6. AtTasks' /\ AtDone'
      BY <1>4, <1>10 DEF AtTasks, AtDone
    <2> QED
      BY Zenon, <1>2, <1>4, <1>7, <1>8, <2>5, <2>6 DEF IInv
  <1>11. CASE check.pc = "tasks"
    <2>1. /\ check.view.service \in Services /\ check.view.nodes \in [Nodes -> NodeStates]
          /\ Stayed("service", Reading) => check.view.service = swarm.service
          /\ Stayed("nodes", {"tasks"}) => check.view.nodes = swarm.nodes
          /\ /\ Stayed("tasks", {"tasks"})
             /\ Stayed("service", {"nodes"}) \/ (Stayed("nodes", {"nodes"}) /\ Stayed("tasks", {"nodes"}))
             => F(check.view.service, check.view.nodes, swarm.tasks) \subseteq past
      BY Zenon, <1>11 DEF IInv, AtTasks, FactsOf
    <2>2. FactsOf(check.view.service, check.view.nodes, swarm.tasks)'
             = F(check.view.service, check.view.nodes, swarm'.tasks)
      BY Zenon, <1>4 DEF FactsOf
    <2> HIDE DEF F
    <2>3. Stayed("service", Reading)' => check.view.service = swarm'.service
      BY Zenon, <1>5, <1>9, <2>1
    <2>4. Stayed("nodes", {"tasks"})' => check.view.nodes = swarm'.nodes
      BY Zenon, <1>5, <1>9, <1>11, <2>1
    <2>5. Stayed("tasks", {"tasks"})' => swarm'.tasks = swarm.tasks
      BY Zenon, <1>5, <1>9, <1>11
    <2>6. AtTasks'
      BY Zenon, <1>4, <1>5, <1>6, <2>1, <2>2, <2>3, <2>4, <2>5 DEF AtTasks
    <2>7. AtNodes' /\ AtDone'
      BY <1>4, <1>11 DEF AtNodes, AtDone
    <2> QED
      BY Zenon, <1>2, <1>4, <1>7, <1>8, <2>6, <2>7 DEF IInv
  <1> QED
    BY Zenon, <1>1, <1>10, <1>11 DEF Reading

LEMMA ServiceChangesStep ==
    ASSUME IInv, ServiceChanges
    PROVE  IInv'
  <1>1. PICK s \in Services : swarm' = [swarm EXCEPT !.service = s]
    BY Zenon DEF ServiceChanges
  <1>2. /\ swarm' \in Swarms /\ swarm'.service = s
        /\ swarm'.nodes = swarm.nodes /\ swarm'.tasks = swarm.tasks
    BY Zenon, <1>1, Types DEF Swarms
  <1>3. version' \in Nat
    BY Types DEF ServiceChanges
  <1>4. CASE Change("service")
    BY Zenon, <1>2, <1>3, <1>4, ChangeStep DEF Parts
  <1>5. CASE check.pc = "asked" /\ changes > 0 /\ changes' = changes - 1 /\ UNCHANGED <<check, past>>
    <2>1. changes' \in 0 .. MaxChanges
      BY <1>5, Types, CapacityAssumption
    <2>2. AtNodes' /\ AtTasks' /\ AtDone'
      BY <1>5, NotReading
    <2>3. check'.kind = "capacity" => check'.req \in Requests
      BY <1>5 DEF IInv
    <2> QED
      BY Zenon, <1>2, <1>3, <1>5, <2>1, <2>2, <2>3, Types DEF IInv
  <1> QED
    BY Zenon, <1>4, <1>5 DEF ServiceChanges

LEMMA NodeChangesStep ==
    ASSUME IInv, NEW n \in Nodes, NodeChanges(n)
    PROVE  IInv'
  <1> DEFINE old == swarm.nodes[n]
             News == {[old EXCEPT !.ready = ~@], [old EXCEPT !.listed = FALSE]} \cup {[old EXCEPT !.label = l] : l \in Labels}
  <1>1. PICK new \in News : swarm' = [swarm EXCEPT !.nodes[n] = new]
    BY Zenon DEF NodeChanges
  <1>2. old \in NodeStates
    BY Types
  <1>3. new \in NodeStates
    BY Zenon, <1>1, <1>2 DEF NodeStates
  <1> HIDE DEF old, News
  <1>4. [swarm.nodes EXCEPT ![n] = new] \in [Nodes -> NodeStates]
    BY <1>3, Types
  <1>5. swarm' = [swarm EXCEPT !.nodes = [swarm.nodes EXCEPT ![n] = new]]
    BY <1>1, Types DEF Swarms
  <1>6. /\ swarm' \in Swarms
        /\ swarm'.service = swarm.service /\ swarm'.tasks = swarm.tasks
    BY Zenon, <1>4, <1>5, Types DEF Swarms
  <1>7. version' \in Nat /\ Change("nodes")
    BY Zenon, Types DEF NodeChanges
  <1> QED
    BY Zenon, <1>6, <1>7, ChangeStep DEF Parts

LEMMA TaskChangesStep ==
    ASSUME IInv, NEW t \in Tasks, TaskChanges(t)
    PROVE  IInv'
  <1> DEFINE old == swarm.tasks[t]
             News == {[old EXCEPT !.at = n] : n \in Nodes} \cup {[old EXCEPT !.st = s] : s \in {"running", "leaving", "over"}}
  <1>1. PICK new \in News : swarm' = [swarm EXCEPT !.tasks[t] = new]
    BY Zenon DEF TaskChanges
  <1>2. old \in TaskStates
    BY Types
  <1>3. new \in TaskStates
    BY <1>1, <1>2 DEF TaskStates
  <1> HIDE DEF old, News
  <1>4. [swarm.tasks EXCEPT ![t] = new] \in [Tasks -> TaskStates]
    BY <1>3, Types
  <1>5. swarm' = [swarm EXCEPT !.tasks = [swarm.tasks EXCEPT ![t] = new]]
    BY <1>1, Types DEF Swarms
  <1>6. /\ swarm' \in Swarms
        /\ swarm'.service = swarm.service /\ swarm'.nodes = swarm.nodes
    BY Zenon, <1>4, <1>5, Types DEF Swarms
  <1>7. version' \in Nat /\ Change("tasks")
    BY Zenon, Types DEF TaskChanges
  <1> QED
    BY Zenon, <1>6, <1>7, ChangeStep DEF Parts

LEMMA NextHolds == IInv /\ [Next]_vars => IInv'
  <1> SUFFICES ASSUME IInv, [Next]_vars PROVE IInv'
    OBVIOUS
  <1>1. CASE ReadFails
    BY Zenon, <1>1, RefuseStep DEF ReadFails
  <1>2. CASE UNCHANGED vars
    BY Zenon, <1>2 DEF vars, IInv, AtNodes, AtTasks, AtDone, Current, Together, Stayed, FactsOf
  <1>3. CASE Done
    BY Zenon, <1>2, <1>3 DEF Done
  <1> QED
    BY Zenon, <1>1, <1>2, <1>3, AskStep, ReadServiceStep, ReadNodesStep, ReadTasksStep, ServiceChangesStep,
       NodeChangesStep, TaskChangesStep DEF Next

\* While a check reads the service, the nodes and the tasks one after the other
\* and each may change between the reads, what has been read goes together with
\* what has not as long as the one or the other stayed; and the facts of every
\* such moment were noted (CheckServiceCapacity, CheckServicePlacement).
THEOREM CapacityInvariant == Spec => []IInv
  BY InitHolds, NextHolds, PTL DEF Spec

\* The states of the Swarm, of the view and of the verdict have their types,
\* for any nodes, tasks, reservations and widths (CheckServiceCapacity).
THEOREM CapacityTypes == Spec => []TypeOK
  <1>1. IInv => TypeOK
    BY Zenon DEF IInv, TypeOK, CheckType
  <1> QED
    BY <1>1, CapacityInvariant, PTL

\* The verdict as AtDone has it.
LEMMA DoneFacts ==
    ASSUME IInv, check.pc = "done"
    PROVE  /\ World(check.view) /\ check.kind \in {"capacity", "placement"}
           /\ check.kind = "capacity" => check.req \in Requests
           /\ check.verdict = Verdict(check.kind, check.view, check.req)
           /\ Current => check.view = swarm
           /\ Together => Facts(check.view, check.kind, check.req) \subseteq past
  <1>1. check.kind = "capacity" => check.req \in Requests
    BY DEF IInv
  <1> QED
    BY Zenon, <1>1, Types DEF IInv, AtDone, World

\* INSUFFICIENT blocks a mutation only for want of room, whatever changes
\* between the reads, as long as what was read is still so, or was at one
\* moment (evaluateServiceCapacity, assertAvailable).
THEOREM CapacityBlocked == Spec => []BlockedHasNoRoom
  <1>1. IInv => BlockedHasNoRoom
    BY Zenon, DoneFacts, VerdictFacts DEF BlockedHasNoRoom, Blocked
  <1> QED
    BY <1>1, CapacityInvariant, PTL

\* SUFFICIENT is answered only when there is room, in the same sense, for any
\* reservations, widths and replicas (evaluateServiceCapacity).
THEOREM CapacitySufficient == Spec => []SufficientHasRoom
  <1>1. IInv => SufficientHasRoom
    BY Zenon, DoneFacts, VerdictFacts DEF SufficientHasRoom
  <1> QED
    BY <1>1, CapacityInvariant, PTL

\* CONVERGED is answered only when the service, in its current version, ran in
\* full and where it may, in the same sense, although the check of placement
\* compares no version (evaluateServicePlacement).
THEOREM CapacityConverged == Spec => []ConvergedHappened
  <1>1. IInv => ConvergedHappened
    BY Zenon, DoneFacts, VerdictFacts DEF ConvergedHappened
  <1> QED
    BY <1>1, CapacityInvariant, PTL

=============================================================================
