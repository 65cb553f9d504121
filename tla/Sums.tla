-------------------------------- MODULE Sums --------------------------------
(***************************************************************************)
(* Lemmas about induction and about sums over finite sets, for the proofs  *)
(* about Ids and Analyzer.                                                 *)
(***************************************************************************)
EXTENDS Integers, FiniteSets, Functions, FiniteSetTheorems, WellFoundedInduction, TLAPS

\* Induction over the natural numbers, stated of a set.
LEMMA NatInductionOfSet ==
    ASSUME NEW S, 0 \in S, \A n \in Nat : n \in S => n + 1 \in S
    PROVE  Nat \subseteq S
<1> DEFINE T == Nat \ S
<1> SUFFICES ASSUME T # {} PROVE FALSE
  OBVIOUS
<1>1. IsWellFoundedOn(OpToRel(<, Nat), Nat)
  BY NatLessThanWellFounded
<1>2. PICK n \in T : \A m \in T : <<m, n>> \notin OpToRel(<, Nat)
  BY <1>1, WFMin
<1>3. \A m \in T : ~ (m < n)
  BY <1>2 DEF OpToRel
<1>4. n # 0 /\ n - 1 \in Nat
  OBVIOUS
<1>5. n - 1 \in S
  BY <1>3, <1>4
<1> QED
  BY <1>4, <1>5

Inductive(S, G) == \A T \in SUBSET S : (\A x \in T : T \ {x} \in G) => T \in G

\* Induction over the subsets of a finite set: what holds of a set when it holds of the set
\* with one element less.
LEMMA SubsetInductionOfSet ==
    ASSUME NEW S, IsFiniteSet(S), NEW G, Inductive(S, G)
    PROVE  \A T \in SUBSET S : T \in G
<1> DEFINE B == {T \in SUBSET S : T \notin G}
<1> SUFFICES ASSUME B # {} PROVE FALSE
  OBVIOUS
<1>1. IsWellFoundedOn(StrictSubsetOrdering(S), SUBSET S)
  <2>1. IsWellFoundedOn(StrictSubsetOrdering(S), FiniteSubsetsOf(S))
    BY FS_StrictSubsetOrderingWellFounded
  <2>2. FiniteSubsetsOf(S) = SUBSET S
    BY FS_FiniteSubsetsOfFinite
  <2> QED
    BY <2>1, <2>2, Zenon
<1>2. PICK T \in B : \A U \in B : <<U, T>> \notin StrictSubsetOrdering(S)
  BY <1>1, WFMin
<1>3. \A x \in T : T \ {x} \in SUBSET S /\ <<T \ {x}, T>> \in StrictSubsetOrdering(S)
  BY <1>2 DEF StrictSubsetOrdering
<1> QED
  BY <1>2, <1>3 DEF Inductive

-----------------------------------------------------------------------------
(* Sums of functions *)

First(T) == CHOOSE x \in T : TRUE

\* h is the sum of f over every subset of its domain.
SumsOver(f, h) ==
    h = [T \in SUBSET DOMAIN f |-> IF T = {} THEN 0 ELSE f[First(T)] + h[T \ {First(T)}]]

\* The recursive definition of a fold has a solution.
LEMMA SumsExist ==
    ASSUME NEW S, IsFiniteSet(S), NEW f \in [S -> Int]
    PROVE  \E h \in [SUBSET S -> Int] : SumsOver(f, h)
<1> DEFINE Step(h, T) == IF T = {} THEN 0 ELSE f[First(T)] + h[T \ {First(T)}]
           Upto(h, n) == \A T \in SUBSET S : Cardinality(T) <= n => h[T] = Step(h, T)
           N == {n \in Nat : \E h \in [SUBSET S -> Int] : Upto(h, n)}
<1>1. \A T \in SUBSET S : IsFiniteSet(T) /\ Cardinality(T) \in Nat /\ Cardinality(T) <= Cardinality(S)
  BY FS_Subset, FS_CardinalityType
<1>2. \A T \in SUBSET S : T # {} =>
        /\ First(T) \in S /\ T \ {First(T)} \in SUBSET S
        /\ Cardinality(T \ {First(T)}) = Cardinality(T) - 1
  <2> SUFFICES ASSUME NEW T \in SUBSET S, T # {}
               PROVE  /\ First(T) \in S /\ T \ {First(T)} \in SUBSET S
                      /\ Cardinality(T \ {First(T)}) = Cardinality(T) - 1
    OBVIOUS
  <2>1. First(T) \in T
    BY DEF First
  <2> QED
    BY <1>1, <2>1, FS_RemoveElement
<1>3. 0 \in N
  <2> DEFINE h == [T \in SUBSET S |-> 0]
  <2>1. Upto(h, 0)
    <3>1. \A T \in SUBSET S : Cardinality(T) <= 0 => T = {}
      BY <1>1, FS_EmptySet
    <3> QED
      BY <3>1
  <2>2. h \in [SUBSET S -> Int]
    OBVIOUS
  <2> HIDE DEF h, Upto
  <2> QED
    BY <2>1, <2>2
<1>4. ASSUME NEW n \in Nat, n \in N
      PROVE  n + 1 \in N
  <2>1. PICK h \in [SUBSET S -> Int] : Upto(h, n)
    BY <1>4
  <2> DEFINE g == [T \in SUBSET S |-> IF Cardinality(T) <= n THEN h[T] ELSE Step(h, T)]
  <2>2. g \in [SUBSET S -> Int]
    BY <1>2
  <2>3. ASSUME NEW T \in SUBSET S, Cardinality(T) <= n + 1
        PROVE  g[T] = Step(g, T)
    <3>1. g[T] = Step(h, T)
      BY <2>1
    <3>2. CASE T = {}
      BY <3>1, <3>2
    <3>3. CASE T # {}
      <4>1. g[T \ {First(T)}] = h[T \ {First(T)}]
        BY <1>1, <1>2, <2>3, <3>3
      <4> QED
        BY <3>1, <3>3, <4>1
    <3> QED
      BY <3>2, <3>3
  <2>4. Upto(g, n + 1)
    BY <2>3
  <2> HIDE DEF g, Upto
  <2> QED
    BY <2>2, <2>4
<1>5. Cardinality(S) \in N
  <2> HIDE DEF N
  <2>1. Nat \subseteq N
    BY <1>3, <1>4, NatInductionOfSet
  <2> QED
    BY <1>1, <2>1
<1>6. PICK h \in [SUBSET S -> Int] : Upto(h, Cardinality(S))
  BY <1>5
<1>7. SumsOver(f, h)
  BY <1>1, <1>6 DEF SumsOver
<1> QED
  BY <1>7

\* h gives the sum of f over every subset of S.
PartialSums(S, f, h) ==
    /\ SumFunction(f) = h[S]
    /\ h[{}] = 0
    /\ \A T \in SUBSET S : T # {} => First(T) \in T /\ h[T] = f[First(T)] + h[T \ {First(T)}]

LEMMA SumFacts ==
    ASSUME NEW S, IsFiniteSet(S), NEW f \in [S -> Int]
    PROVE  \E h \in [SUBSET S -> Int] : PartialSums(S, f, h)
<1> DEFINE iter == CHOOSE h : SumsOver(f, h)
<1>1. PICK h \in [SUBSET S -> Int] : SumsOver(f, h)
  BY SumsExist
<1>2. SumsOver(f, iter)
  BY <1>1
<1>3. SumFunction(f) = iter[S]
  <2>1. DOMAIN f = S
    OBVIOUS
  <2> QED
    BY <2>1 DEF SumFunction, SumFunctionOnSet, FoldFunctionOnSet, MapThenFoldSet, SumsOver, First
<1>4. /\ iter[{}] = 0
      /\ \A T \in SUBSET S : T # {} => /\ First(T) \in T
                                       /\ iter[T] = f[First(T)] + iter[T \ {First(T)}]
  <2>1. iter[{}] = 0
    BY <1>2 DEF SumsOver
  <2>2. ASSUME NEW T \in SUBSET S, T # {}
        PROVE  First(T) \in T /\ iter[T] = f[First(T)] + iter[T \ {First(T)}]
    BY <1>2, <2>2 DEF SumsOver, First
  <2> QED
    BY <2>1, <2>2
<1>5. \A T \in SUBSET S : iter[T] \in Int
  <2> DEFINE G == {T \in SUBSET S : iter[T] \in Int}
  <2> HIDE DEF iter
  <2>1. ASSUME NEW T \in SUBSET S, \A x \in T : T \ {x} \in G
        PROVE  T \in G
    <3>1. CASE T = {}
      BY <1>4, <3>1
    <3>2. CASE T # {}
      <4>1. First(T) \in T /\ iter[T] = f[First(T)] + iter[T \ {First(T)}]
        BY <1>4, <3>2
      <4>2. f[First(T)] \in Int /\ iter[T \ {First(T)}] \in Int
        BY <2>1, <4>1
      <4> QED
        BY <4>1, <4>2
    <3> QED
      BY <3>1, <3>2
  <2> HIDE DEF G
  <2>2. Inductive(S, G)
    BY <2>1 DEF Inductive
  <2>3. \A T \in SUBSET S : T \in G
    BY <2>2, SubsetInductionOfSet
  <2> QED
    BY <2>3 DEF G
<1>6. iter \in [SUBSET S -> Int]
  <2>1. iter = [T \in SUBSET S |-> iter[T]]
    BY <1>2 DEF SumsOver
  <2> HIDE DEF iter
  <2> QED
    BY <1>5, <2>1
<1>7. PartialSums(S, f, iter)
  <2> HIDE DEF iter
  <2> QED
    BY <1>3, <1>4 DEF PartialSums
<1> HIDE DEF iter
<1> QED
  BY <1>6, <1>7

LEMMA SumType ==
    ASSUME NEW S, IsFiniteSet(S), NEW f \in [S -> Int]
    PROVE  SumFunction(f) \in Int
<1>1. PICK h \in [SUBSET S -> Int] : PartialSums(S, f, h)
  BY SumFacts
<1> QED
  BY <1>1 DEF PartialSums

\* A sum changes by what one summand changes by.
LEMMA SumChange ==
    ASSUME NEW S, IsFiniteSet(S), NEW f \in [S -> Int], NEW g \in [S -> Int],
           NEW p \in S, \A x \in S \ {p} : g[x] = f[x]
    PROVE  SumFunction(g) = SumFunction(f) + g[p] - f[p]
<1>1. PICK h \in [SUBSET S -> Int] : PartialSums(S, f, h)
  BY SumFacts
<1>2. PICK k \in [SUBSET S -> Int] : PartialSums(S, g, k)
  BY SumFacts
<1> DEFINE Moved(T) == k[T] = h[T] + IF p \in T THEN g[p] - f[p] ELSE 0
           G == {T \in SUBSET S : Moved(T)}
<1>3. ASSUME NEW T \in SUBSET S, \A x \in T : T \ {x} \in G
      PROVE  T \in G
  <2>1. CASE T = {}
    BY <1>1, <1>2, <2>1 DEF PartialSums
  <2>2. CASE T # {}
    <3> DEFINE x == First(T)
    <3>1. x \in T /\ h[T] = f[x] + h[T \ {x}] /\ k[T] = g[x] + k[T \ {x}]
      BY <1>1, <1>2, <2>2 DEF PartialSums
    <3> HIDE DEF x
    <3>2. Moved(T \ {x})
      BY <1>3, <3>1
    <3>3. x \in S /\ f[x] \in Int /\ g[x] \in Int /\ f[p] \in Int /\ g[p] \in Int
      BY <3>1
    <3>4. h[T \ {x}] \in Int
      OBVIOUS
    <3>5. CASE x = p
      BY <3>1, <3>2, <3>3, <3>4, <3>5
    <3>6. CASE x # p
      <4>1. f[x] = g[x]
        BY <3>3, <3>6
      <4>2. p \in T <=> p \in T \ {x}
        BY <3>6
      <4> QED
        BY <3>1, <3>2, <3>3, <3>4, <4>1, <4>2
    <3> QED
      BY <3>5, <3>6
  <2> QED
    BY <2>1, <2>2
<1> HIDE DEF G
<1>4. Inductive(S, G)
  BY <1>3 DEF Inductive
<1>5. \A T \in SUBSET S : T \in G
  BY <1>4, SubsetInductionOfSet
<1>6. k[S] = h[S] + (g[p] - f[p])
  BY <1>5 DEF G
<1>7. h[S] \in Int /\ f[p] \in Int /\ g[p] \in Int
  OBVIOUS
<1> QED
  BY <1>1, <1>2, <1>6, <1>7 DEF PartialSums

\* A sum of nothing but zeros.
LEMMA SumOfZeros ==
    ASSUME NEW S, IsFiniteSet(S), NEW f \in [S -> Int], \A x \in S : f[x] = 0
    PROVE  SumFunction(f) = 0
<1>1. PICK h \in [SUBSET S -> Int] : PartialSums(S, f, h)
  BY SumFacts
<1> DEFINE G == {T \in SUBSET S : h[T] = 0}
<1>2. ASSUME NEW T \in SUBSET S, \A x \in T : T \ {x} \in G
      PROVE  T \in G
  <2>1. CASE T = {}
    BY <1>1, <2>1 DEF PartialSums
  <2>2. CASE T # {}
    <3>1. First(T) \in T /\ h[T] = f[First(T)] + h[T \ {First(T)}]
      BY <1>1, <2>2 DEF PartialSums
    <3>2. h[T \ {First(T)}] = 0 /\ f[First(T)] = 0
      BY <1>2, <3>1
    <3> QED
      BY <3>1, <3>2
  <2> QED
    BY <2>1, <2>2
<1> HIDE DEF G
<1>3. Inductive(S, G)
  BY <1>2 DEF Inductive
<1>4. \A T \in SUBSET S : T \in G
  BY <1>3, SubsetInductionOfSet
<1> QED
  BY <1>1, <1>4 DEF G, PartialSums

Without(f, x) == [y \in DOMAIN f \ {x} |-> f[y]]

\* A sum is one summand and the sum of the others, whichever it is.
LEMMA SumRemove ==
    ASSUME NEW S, IsFiniteSet(S), NEW f \in [S -> Int], NEW p \in S
    PROVE  SumFunction(f) = f[p] + SumFunction(Without(f, p))
<1> DEFINE R == S \ {p}
           r == Without(f, p)
<1>1. r \in [R -> Int] /\ \A x \in R : r[x] = f[x]
  BY DEF Without
<1>2. IsFiniteSet(R)
  BY FS_RemoveElement
<1> HIDE DEF r
<1>3. PICK h \in [SUBSET S -> Int] : PartialSums(S, f, h)
  BY SumFacts
<1>4. PICK k \in [SUBSET R -> Int] : PartialSums(R, r, k)
  BY <1>1, <1>2, SumFacts
<1> DEFINE Any(T) == \A x \in T : h[T] = f[x] + h[T \ {x}]
           G == {T \in SUBSET S : Any(T)}
<1>5. ASSUME NEW T \in SUBSET S, \A x \in T : T \ {x} \in G
      PROVE  T \in G
  <2> SUFFICES ASSUME NEW x \in T PROVE h[T] = f[x] + h[T \ {x}]
    OBVIOUS
  <2> DEFINE y == First(T)
  <2>1. y \in T /\ h[T] = f[y] + h[T \ {y}]
    BY <1>3 DEF PartialSums
  <2> HIDE DEF y
  <2>2. CASE x = y
    BY <2>1, <2>2
  <2>3. CASE x # y
    <3>1. x \in T \ {y} /\ y \in T \ {x} /\ (T \ {y}) \ {x} = (T \ {x}) \ {y}
      BY <2>1, <2>3
    <3>2. h[T \ {y}] = f[x] + h[(T \ {y}) \ {x}]
      BY <1>5, <2>1, <3>1
    <3>3. h[T \ {x}] = f[y] + h[(T \ {x}) \ {y}]
      BY <1>5, <3>1
    <3> DEFINE n == h[(T \ {y}) \ {x}]
    <3>4. f[x] \in Int /\ f[y] \in Int /\ n \in Int
      BY <2>1
    <3>5. h[T \ {y}] = f[x] + n /\ h[T \ {x}] = f[y] + n
      BY <3>1, <3>2, <3>3
    <3> HIDE DEF n
    <3> QED
      BY <2>1, <3>4, <3>5
  <2> QED
    BY <2>2, <2>3
<1> HIDE DEF G
<1>6. Inductive(S, G)
  BY <1>5 DEF Inductive
<1>7. \A T \in SUBSET S : T \in G
  BY <1>6, SubsetInductionOfSet
<1>8. h[S] = f[p] + h[R]
  BY <1>7 DEF G
<1> DEFINE H == {T \in SUBSET R : h[T] = k[T]}
<1>9. ASSUME NEW T \in SUBSET R, \A x \in T : T \ {x} \in H
      PROVE  T \in H
  <2>1. CASE T = {}
    BY <1>3, <1>4, <2>1 DEF PartialSums
  <2>2. CASE T # {}
    <3> DEFINE y == First(T)
    <3>1. y \in T /\ k[T] = r[y] + k[T \ {y}]
      BY <1>4, <2>2 DEF PartialSums
    <3>2. h[T] = f[y] + h[T \ {y}]
      BY <1>3, <2>2 DEF PartialSums
    <3> HIDE DEF y
    <3>3. h[T \ {y}] = k[T \ {y}] /\ r[y] = f[y]
      BY <1>1, <1>9, <3>1
    <3> QED
      BY <3>1, <3>2, <3>3
  <2> QED
    BY <2>1, <2>2
<1> HIDE DEF H
<1>10. Inductive(R, H)
  BY <1>9 DEF Inductive
<1>11. R \in H
  BY <1>2, <1>10, SubsetInductionOfSet
<1>12. h[R] = k[R]
  BY <1>11 DEF H
<1> QED
  BY <1>3, <1>4, <1>8, <1>12 DEF PartialSums, r

On(f, T) == [x \in T |-> f[x]]

\* A sum of more and larger numbers is larger.
LEMMA SumGrows ==
    ASSUME NEW S, NEW T, IsFiniteSet(T), S \subseteq T, NEW f \in [S -> Nat], NEW g \in [T -> Nat],
           \A x \in S : f[x] <= g[x]
    PROVE  /\ SumFunction(f) \in Nat /\ SumFunction(g) \in Nat
           /\ SumFunction(f) <= SumFunction(g)
<1> DEFINE F(W) == SumFunction(On(f, S \cap W))
           E(W) == SumFunction(On(g, W))
           Fine(W) == F(W) \in Nat /\ E(W) \in Nat /\ F(W) <= E(W)
           G == {W \in SUBSET T : Fine(W)}
<1>1. ASSUME NEW W \in SUBSET T, \A x \in W : W \ {x} \in G
      PROVE  W \in G
  <2> DEFINE u == On(f, S \cap W)
             v == On(g, W)
  <2>1. /\ u \in [S \cap W -> Nat] /\ v \in [W -> Nat] /\ u \in [S \cap W -> Int] /\ v \in [W -> Int]
        /\ IsFiniteSet(W) /\ IsFiniteSet(S \cap W)
    <3>1. S \cap W \in SUBSET T
      OBVIOUS
    <3> QED
      BY <3>1, FS_Subset DEF On
  <2>2. /\ \A x \in S \cap W : u[x] = f[x] /\ u[x] \in Nat
        /\ \A x \in W : v[x] = g[x] /\ v[x] \in Nat
    BY DEF On
  <2>3. CASE W = {}
    <3>1. SumFunction(u) = 0 /\ SumFunction(v) = 0
      <4> HIDE DEF u, v
      <4>1. S \cap W = {}
        BY <2>3
      <4> QED
        BY <2>1, <2>3, <4>1, SumOfZeros
    <3> HIDE DEF u, v
    <3>2. SumFunction(u) = F(W) /\ SumFunction(v) = E(W)
      BY DEF u, v
    <3> HIDE DEF F, E
    <3> QED
      BY <3>1, <3>2
  <2>4. CASE W # {}
    <3>1. PICK x \in W : TRUE
      BY <2>4
    <3>2. Fine(W \ {x})
      BY <1>1
    <3>3. E(W) = g[x] + E(W \ {x}) /\ g[x] \in Nat
      <4>1. Without(v, x) = On(g, W \ {x})
        BY DEF Without, On
      <4> HIDE DEF v
      <4>2. SumFunction(v) = v[x] + SumFunction(Without(v, x))
        BY <2>1, SumRemove
      <4>3. v[x] = g[x] /\ v[x] \in Nat
        BY <2>2
      <4> QED
        BY <4>1, <4>2, <4>3 DEF v
    <3>4. CASE x \in S
      <4>1. F(W) = f[x] + F(W \ {x}) /\ f[x] \in Nat
        <5>1. x \in S \cap W /\ (S \cap W) \ {x} = S \cap (W \ {x})
          BY <3>4
        <5>2. Without(u, x) = On(f, S \cap (W \ {x}))
          BY <5>1 DEF Without, On
        <5> HIDE DEF u
        <5>3. SumFunction(u) = u[x] + SumFunction(Without(u, x))
          BY <2>1, <5>1, SumRemove
        <5>4. u[x] = f[x] /\ u[x] \in Nat
          BY <2>2, <5>1
        <5> QED
          BY <5>2, <5>3, <5>4 DEF u
      <4>2. f[x] <= g[x]
        BY <3>4
      <4> HIDE DEF F, E
      <4> QED
        BY <3>2, <3>3, <4>1, <4>2
    <3>5. CASE x \notin S
      <4>1. S \cap W = S \cap (W \ {x})
        BY <3>5
      <4>2. F(W) = F(W \ {x})
        BY <4>1, Zenon
      <4> HIDE DEF F, E
      <4> QED
        BY <3>2, <3>3, <4>2
    <3> QED
      BY <3>4, <3>5
  <2> QED
    BY <2>3, <2>4
<1> HIDE DEF G
<1>2. Inductive(T, G)
  BY <1>1 DEF Inductive
<1>3. T \in G
  BY <1>2, SubsetInductionOfSet
<1>4. Fine(T)
  BY <1>3 DEF G
<1>5. On(f, S \cap T) = f /\ On(g, T) = g
  <2>1. S \cap T = S
    OBVIOUS
  <2> QED
    BY <2>1 DEF On
<1> QED
  BY <1>4, <1>5

\* A sum is at least each of its summands.
LEMMA SumAtLeast ==
    ASSUME NEW S, IsFiniteSet(S), NEW f \in [S -> Nat]
    PROVE  SumFunction(f) \in Nat /\ \A x \in S : f[x] <= SumFunction(f)
<1>1. SumFunction(f) \in Nat
  <2>1. S \subseteq S /\ \A x \in S : f[x] <= f[x]
    OBVIOUS
  <2> QED
    BY <2>1, SumGrows
<1>2. ASSUME NEW x \in S PROVE f[x] <= SumFunction(f)
  <2> DEFINE r == Without(f, x)
             R == S \ {x}
  <2>1. r \in [R -> Nat] /\ IsFiniteSet(R)
    BY FS_RemoveElement DEF Without
  <2>2. f \in [S -> Int]
    OBVIOUS
  <2>3. SumFunction(f) = f[x] + SumFunction(r)
    BY <2>2, SumRemove
  <2> HIDE DEF r, R
  <2>4. SumFunction(r) \in Nat
    <3>1. R \subseteq R /\ \A y \in R : r[y] <= r[y]
      BY <2>1
    <3> QED
      BY <2>1, <3>1, SumGrows
  <2>5. f[x] \in Nat
    OBVIOUS
  <2> QED
    BY <1>1, <2>3, <2>4, <2>5
<1> QED
  BY <1>1, <1>2
=============================================================================
