------------------------------ MODULE Induction ------------------------------
(***************************************************************************)
(* Induction over the natural numbers, from the well-foundedness of finite *)
(* sets: the theorems of the library take an operator that no prover       *)
(* installed can instantiate.  What follows from it: recursive functions   *)
(* have a solution, a sum does not depend on the order of its terms, and   *)
(* the folds of a sequence are those of a recursive function.              *)
(***************************************************************************)
EXTENDS Integers, Functions, FiniteSetTheorems, TLAPS

\* A set of natural numbers has a least element.
LEMMA Least ==
    ASSUME NEW T \in SUBSET Nat, T # {}
    PROVE  \E x \in T : \A y \in T : x <= y
<1> DEFINE R == StrictSubsetOrdering(Nat)
           U == {1 .. n : n \in T}
<1>1. IsWellFoundedOn(R, FiniteSubsetsOf(Nat))
  BY FS_StrictSubsetOrderingWellFounded
<1>2. U \subseteq FiniteSubsetsOf(Nat) /\ U # {}
  <2>1. \A n \in T : n \in Int /\ 1 .. n \in SUBSET Nat
    OBVIOUS
  <2>2. 1 \in Int
    OBVIOUS
  <2>3. \A n \in T : IsFiniteSet(1 .. n)
    BY <2>1, <2>2, FS_Interval
  <2> QED
    BY <2>1, <2>3 DEF FiniteSubsetsOf
<1>3. PICK u \in U : \A v \in U : ~(<<v, u>> \in R)
  <2> HIDE DEF R, U
  <2> QED
    BY <1>1, <1>2, WFMin, Zenon
<1>4. PICK x \in T : u = 1 .. x
  OBVIOUS
<1>5. ASSUME NEW y \in T PROVE x <= y
  <2>1. x \in Nat /\ y \in Nat
    OBVIOUS
  <2>2. SUFFICES ASSUME y < x PROVE FALSE
    BY <2>1
  <2>3. 1 .. y \subseteq 1 .. x /\ x \in 1 .. x /\ x \notin 1 .. y
    BY <2>1, <2>2
  <2>4. 1 .. y \in U /\ 1 .. y # 1 .. x
    BY <2>3
  <2>5. 1 .. y \in SUBSET Nat /\ 1 .. x \in SUBSET Nat
    BY <2>1
  <2> QED
    BY <1>3, <1>4, <2>3, <2>4, <2>5 DEF StrictSubsetOrdering
<1> QED
  BY <1>5

\* Induction, with a set in the place of a predicate.
LEMMA NatInduct ==
    ASSUME NEW S, 0 \in S, \A n \in Nat : n \in S => n + 1 \in S
    PROVE  Nat \subseteq S
<1> SUFFICES ASSUME Nat \ S # {} PROVE FALSE
  OBVIOUS
<1>1. PICK x \in Nat \ S : \A y \in Nat \ S : x <= y
  BY Least
<1>2. x # 0 /\ x - 1 \in Nat
  OBVIOUS
<1>3. x - 1 \in S
  BY <1>1, <1>2
<1>4. (x - 1) + 1 = x
  OBVIOUS
<1> QED
  BY <1>2, <1>3, <1>4

-----------------------------------------------------------------------------
(* Recursive functions.  The argument x has rank r[x] and recurs to p[x].     *)

Step(a, p, r, G, f, x) == IF r[x] = 0 THEN a[x] ELSE G[<<x, f[p[x]]>>]

\* f solves the recursion for the arguments of rank n and below.
Solves(D, a, p, r, G, n, f) == \A x \in D : r[x] <= n => f[x] = Step(a, p, r, G, f, x)

LEMMA SolutionsAgree ==
    ASSUME NEW D, NEW a, NEW r \in [D -> Nat], NEW p \in [D -> D], NEW G,
           \A x \in D : r[x] # 0 => r[p[x]] < r[x],
           NEW m \in Nat, NEW f, Solves(D, a, p, r, G, m, f),
           NEW n \in Nat, NEW g, Solves(D, a, p, r, G, n, g), m <= n
    PROVE  \A x \in D : r[x] <= m => f[x] = g[x]
<1> DEFINE S == {k \in Nat : \A x \in D : r[x] <= k /\ k <= m => f[x] = g[x]}
<1>1. 0 \in S
  <2> SUFFICES ASSUME NEW x \in D, r[x] <= 0 PROVE f[x] = g[x]
    OBVIOUS
  <2>1. r[x] = 0 /\ r[x] <= m /\ r[x] <= n
    OBVIOUS
  <2> QED
    BY <2>1 DEF Solves, Step
<1>2. ASSUME NEW k \in Nat, k \in S PROVE k + 1 \in S
  <2> SUFFICES ASSUME NEW x \in D, r[x] <= k + 1, k + 1 <= m PROVE f[x] = g[x]
    OBVIOUS
  <2>1. r[x] <= m /\ r[x] <= n /\ k <= m
    OBVIOUS
  <2>2. f[x] = Step(a, p, r, G, f, x) /\ g[x] = Step(a, p, r, G, g, x)
    BY <2>1 DEF Solves
  <2>3. CASE r[x] = 0
    BY <2>2, <2>3 DEF Step
  <2>4. CASE r[x] # 0
    <3>1. p[x] \in D /\ r[p[x]] <= k
      BY <2>4
    <3>2. f[p[x]] = g[p[x]]
      BY <1>2, <2>1, <3>1
    <3> QED
      BY <2>2, <2>4, <3>2 DEF Step
  <2> QED
    BY <2>3, <2>4
<1>3. Nat \subseteq S
  <2> HIDE DEF S
  <2> QED
    BY <1>1, <1>2, NatInduct
<1>4. m \in S
  BY <1>3
<1> QED
  BY <1>4

LEMMA SolutionsExist ==
    ASSUME NEW D, NEW V, NEW a \in [D -> V], NEW r \in [D -> Nat], NEW p \in [D -> D],
           NEW G \in [D \X V -> V],
           \A x \in D : r[x] # 0 => r[p[x]] < r[x],
           NEW n \in Nat
    PROVE  \E f \in [D -> V] : Solves(D, a, p, r, G, n, f)
<1> DEFINE S == {k \in Nat : \E f \in [D -> V] : Solves(D, a, p, r, G, k, f)}
<1>1. 0 \in S
  <2>1. Solves(D, a, p, r, G, 0, a)
    BY DEF Solves, Step
  <2> QED
    BY <2>1
<1>2. ASSUME NEW k \in Nat, k \in S PROVE k + 1 \in S
  <2>1. PICK f \in [D -> V] : Solves(D, a, p, r, G, k, f)
    BY <1>2
  <2> DEFINE g == [x \in D |-> Step(a, p, r, G, f, x)]
  <2>2. g \in [D -> V]
    BY DEF Step
  <2>3. ASSUME NEW x \in D, r[x] <= k + 1 PROVE g[x] = Step(a, p, r, G, g, x)
    <3>1. CASE r[x] = 0
      BY <3>1 DEF Step
    <3>2. CASE r[x] # 0
      <4>1. p[x] \in D /\ r[p[x]] <= k
        BY <2>3, <3>2
      <4>2. g[p[x]] = f[p[x]]
        BY <2>1, <4>1 DEF Solves
      <4> QED
        BY <3>2, <4>2 DEF Step
    <3> QED
      BY <3>1, <3>2
  <2> HIDE DEF g
  <2>4. Solves(D, a, p, r, G, k + 1, g)
    BY <2>3 DEF Solves
  <2> QED
    BY <2>2, <2>4
<1>3. Nat \subseteq S
  <2> HIDE DEF S
  <2> QED
    BY <1>1, <1>2, NatInduct
<1> QED
  BY <1>3

\* A recursion from arguments of rank 0 down to which every other descends.
Descent(D, V, a, p, r, G) ==
    /\ a \in [D -> V] /\ r \in [D -> Nat] /\ p \in [D -> D] /\ G \in [D \X V -> V]
    /\ \A x \in D : r[x] # 0 => r[p[x]] < r[x]

Solution(D, V, a, p, r, G, f) ==
    f \in [D -> V] /\ \A x \in D : f[x] = Step(a, p, r, G, f, x)

LEMMA Recursion ==
    ASSUME NEW D, NEW V, NEW a, NEW p, NEW r, NEW G, Descent(D, V, a, p, r, G)
    PROVE  \E f : Solution(D, V, a, p, r, G, f)
<1>0. /\ a \in [D -> V] /\ r \in [D -> Nat] /\ p \in [D -> D] /\ G \in [D \X V -> V]
      /\ \A x \in D : r[x] # 0 => r[p[x]] < r[x]
  BY DEF Descent
<1> DEFINE F(n) == CHOOSE f : f \in [D -> V] /\ Solves(D, a, p, r, G, n, f)
           f == [x \in D |-> F(r[x])[x]]
<1>1. \A n \in Nat : F(n) \in [D -> V] /\ Solves(D, a, p, r, G, n, F(n))
  BY <1>0, SolutionsExist
<1> HIDE DEF F
<1>2. f \in [D -> V]
  BY <1>0, <1>1
<1>3. ASSUME NEW x \in D PROVE f[x] = Step(a, p, r, G, f, x)
  <2>1. PICK n \in Nat : n = r[x]
    BY <1>0
  <2>2. PICK g : g = F(n)
    OBVIOUS
  <2>3. g[x] = Step(a, p, r, G, g, x) /\ f[x] = g[x]
    BY <1>1, <2>1, <2>2 DEF Solves
  <2>4. CASE n = 0
    BY <2>1, <2>3, <2>4 DEF Step
  <2>5. CASE n # 0
    <3>1. PICK m \in Nat : m = r[p[x]] /\ p[x] \in D
      BY <1>0
    <3>2. PICK h : h = F(m)
      OBVIOUS
    <3>3. m <= n
      BY <1>0, <2>1, <2>5, <3>1
    <3>4. h[p[x]] = g[p[x]]
      <4>1. Solves(D, a, p, r, G, m, h) /\ Solves(D, a, p, r, G, n, g)
        BY <1>1, <2>2, <3>2
      <4>2. \A y \in D : r[y] <= m => h[y] = g[y]
        BY <1>0, <3>3, <4>1, SolutionsAgree
      <4> QED
        BY <3>1, <4>2
    <3>5. f[p[x]] = h[p[x]]
      BY <3>1, <3>2
    <3> QED
      BY <2>1, <2>3, <2>5, <3>4, <3>5 DEF Step
  <2> QED
    BY <2>4, <2>5
<1> QED
  BY <1>2, <1>3 DEF Solution

\* The recursion of a function over the natural numbers.
Iterates(V, z, G, f) ==
    f \in [Nat -> V] /\ f[0] = z /\ \A n \in Nat : f[n + 1] = G[<<n + 1, f[n]>>]

LEMMA NatRecursion ==
    ASSUME NEW V, NEW z \in V, NEW G \in [Nat \X V -> V]
    PROVE  \E f : Iterates(V, z, G, f)
<1> DEFINE a == [n \in Nat |-> z]
           r == [n \in Nat |-> n]
           p == [n \in Nat |-> IF n = 0 THEN 0 ELSE n - 1]
<1>1. Descent(Nat, V, a, p, r, G)
  <2>1. a \in [Nat -> V] /\ r \in [Nat -> Nat] /\ p \in [Nat -> Nat]
    OBVIOUS
  <2>2. \A n \in Nat : r[n] # 0 => r[p[n]] < r[n]
    OBVIOUS
  <2> HIDE DEF a, r, p
  <2> QED
    BY <2>1, <2>2 DEF Descent
<1>2. \A n \in Nat : r[n] = n /\ a[n] = z /\ p[n + 1] = n /\ n + 1 # 0 /\ n + 1 \in Nat
  OBVIOUS
<1> HIDE DEF a, r, p
<1>3. PICK f : Solution(Nat, V, a, p, r, G, f)
  BY <1>1, Recursion
<1>4. f \in [Nat -> V] /\ \A n \in Nat : f[n] = Step(a, p, r, G, f, n)
  BY <1>3 DEF Solution
<1>5. f[0] = z
  BY <1>2, <1>4 DEF Step
<1>6. \A n \in Nat : f[n + 1] = G[<<n + 1, f[n]>>]
  BY <1>2, <1>4 DEF Step
<1> QED
  BY <1>4, <1>5, <1>6 DEF Iterates

\* Powers.
LEMMA PowersOf ==
    ASSUME NEW b \in Nat, NEW P, P = CHOOSE f : f = [n \in Nat |-> IF n = 0 THEN 1 ELSE b * f[n - 1]]
    PROVE  P[0] = 1 /\ \A n \in Nat : P[n] \in Nat /\ P[n + 1] = b * P[n]
<1> DEFINE G == [y \in Nat \X Nat |-> b * y[2]]
           A(f) == [n \in Nat |-> IF n = 0 THEN 1 ELSE b * f[n - 1]]
<1>1. G \in [Nat \X Nat -> Nat] /\ \A n, m \in Nat : G[<<n, m>>] = b * m
  OBVIOUS
<1> HIDE DEF G
<1>2. PICK f \in [Nat -> Nat] : f[0] = 1 /\ \A n \in Nat : f[n + 1] = G[<<n + 1, f[n]>>]
  <2>1. \E f : Iterates(Nat, 1, G, f)
    BY <1>1, NatRecursion
  <2> QED
    BY <2>1 DEF Iterates
<1>3. ASSUME NEW n \in Nat PROVE f[n] = IF n = 0 THEN 1 ELSE b * f[n - 1]
  <2>1. CASE n = 0
    BY <1>2, <2>1
  <2>2. CASE n # 0
    <3>1. n - 1 \in Nat /\ (n - 1) + 1 = n
      BY <2>2
    <3> QED
      BY <1>1, <1>2, <2>2, <3>1
  <2> QED
    BY <2>1, <2>2
<1>4. f = [n \in Nat |-> f[n]]
  BY <1>2
<1>5. f = A(f)
  BY <1>3, <1>4
<1>6. P = A(P)
  BY <1>5
<1>7. ASSUME NEW n \in Nat PROVE P[n + 1] = b * P[n]
  <2>1. n + 1 \in Nat /\ n + 1 # 0 /\ (n + 1) - 1 = n
    OBVIOUS
  <2> HIDE DEF A
  <2>2. P[n + 1] = A(P)[n + 1]
    BY <1>6
  <2> QED
    BY <2>1, <2>2 DEF A
<1>8. P[0] = 1
  BY <1>6
<1> DEFINE S == {n \in Nat : P[n] \in Nat}
<1>9. Nat \subseteq S
  <2>1. 0 \in S
    BY <1>8
  <2>2. \A n \in Nat : n \in S => n + 1 \in S
    BY <1>7
  <2> HIDE DEF S
  <2> QED
    BY <2>1, <2>2, NatInduct
<1> QED
  BY <1>7, <1>8, <1>9

-----------------------------------------------------------------------------
(* Sums over finite sets, which the community modules define by taking out a  *)
(* chosen element.                                                            *)

Chosen(T) == CHOOSE x \in T : TRUE

\* g holds the sums of f over the subsets of S.
SumsOf(f, S, g) ==
    [T \in SUBSET S |-> IF T = {} THEN 0 ELSE f[Chosen(T)] + g[T \ {Chosen(T)}]]

LEMMA SumUnfolded ==
    ASSUME NEW f, NEW S
    PROVE  SumFunctionOnSet(f, S) = (CHOOSE g : g = SumsOf(f, S, g))[S]
BY DEF SumFunctionOnSet, FoldFunctionOnSet, MapThenFoldSet, SumsOf, Chosen

LEMMA ChosenIn ==
    ASSUME NEW T, T # {}
    PROVE  Chosen(T) \in T
BY DEF Chosen

LEMMA WithoutChosen ==
    ASSUME NEW T, IsFiniteSet(T), T # {}
    PROVE  /\ IsFiniteSet(T \ {Chosen(T)})
           /\ Cardinality(T) \in Nat \ {0}
           /\ Cardinality(T \ {Chosen(T)}) = Cardinality(T) - 1
BY ChosenIn, FS_RemoveElement, FS_CardinalityType, FS_EmptySet

LEMMA SumsExist ==
    ASSUME NEW S, IsFiniteSet(S), NEW f, \A x \in S : f[x] \in Int
    PROVE  \E g : g = SumsOf(f, S, g)
<1> DEFINE D == SUBSET S
           a == [T \in D |-> 0]
           r == [T \in D |-> Cardinality(T)]
           p == [T \in D |-> IF T = {} THEN T ELSE T \ {Chosen(T)}]
           G == [y \in D \X Int |-> IF y[1] = {} THEN 0 ELSE f[Chosen(y[1])] + y[2]]
<1>0. \A T \in D : IsFiniteSet(T) /\ Cardinality(T) \in Nat /\ (Cardinality(T) = 0 <=> T = {})
  BY FS_Subset, FS_CardinalityType, FS_EmptySet
<1>1. a \in [D -> Int] /\ r \in [D -> Nat]
  BY <1>0
<1>2. p \in [D -> D]
  OBVIOUS
<1>3. G \in [D \X Int -> Int]
  <2>1. ASSUME NEW y \in D \X Int, y[1] # {} PROVE f[Chosen(y[1])] + y[2] \in Int
    BY <2>1, ChosenIn
  <2> QED
    BY <2>1
<1>4. \A T \in D : r[T] # 0 => r[p[T]] < r[T]
  <2> SUFFICES ASSUME NEW T \in D, T # {} PROVE r[p[T]] < r[T]
    BY <1>0
  <2>1. r[T] = Cardinality(T) /\ r[p[T]] = Cardinality(T \ {Chosen(T)})
    BY <1>2
  <2> QED
    BY <1>0, <2>1, WithoutChosen
<1>5. Descent(D, Int, a, p, r, G)
  <2> HIDE DEF D, G, a, r, p
  <2> QED
    BY <1>1, <1>2, <1>3, <1>4 DEF Descent
<1> HIDE DEF D, G, a, r, p
<1>6. PICK g : Solution(D, Int, a, p, r, G, g)
  BY <1>5, Recursion
<1>7. g \in [D -> Int] /\ \A T \in D : g[T] = Step(a, p, r, G, g, T)
  BY <1>6 DEF Solution
<1>8. ASSUME NEW T \in D
      PROVE  g[T] = IF T = {} THEN 0 ELSE f[Chosen(T)] + g[T \ {Chosen(T)}]
  <2> USE DEF D
  <2>1. CASE T = {}
    <3>1. r[T] = 0 /\ a[T] = 0
      BY <1>0, <2>1 DEF r, a
    <3> QED
      BY <1>7, <2>1, <3>1 DEF Step
  <2>2. CASE T # {}
    <3>1. r[T] # 0 /\ p[T] = T \ {Chosen(T)} /\ g[p[T]] \in Int
      BY <1>0, <1>2, <1>7, <2>2 DEF r, p
    <3>2. G[<<T, g[p[T]]>>] = f[Chosen(T)] + g[p[T]]
      BY <2>2, <3>1 DEF G
    <3> QED
      BY <1>7, <2>2, <3>1, <3>2 DEF Step
  <2> QED
    BY <2>1, <2>2
<1>9. g = [T \in D |-> g[T]]
  BY <1>7
<1>10. g = SumsOf(f, S, g)
  BY <1>8, <1>9 DEF SumsOf, D
<1> QED
  BY <1>10

\* The sums over two sets agree on what the sets share.
LEMMA SumsAgree ==
    ASSUME NEW S, NEW T, NEW f, NEW g, g = SumsOf(f, S, g), NEW h, h = SumsOf(f, T, h),
           NEW U, U \subseteq S, U \subseteq T, IsFiniteSet(U)
    PROVE  g[U] = h[U]
<1> DEFINE N == {n \in Nat : \A X \in SUBSET U : Cardinality(X) = n => g[X] = h[X]}
<1>0. \A X \in SUBSET U : IsFiniteSet(X) /\ Cardinality(X) \in Nat /\ (Cardinality(X) = 0 <=> X = {})
  BY FS_Subset, FS_CardinalityType, FS_EmptySet
<1>1. 0 \in N
  BY <1>0 DEF SumsOf
<1>2. ASSUME NEW n \in Nat, n \in N PROVE n + 1 \in N
  <2> SUFFICES ASSUME NEW X \in SUBSET U, Cardinality(X) = n + 1 PROVE g[X] = h[X]
    OBVIOUS
  <2>1. X # {} /\ IsFiniteSet(X)
    BY <1>0
  <2> DEFINE Y == X \ {Chosen(X)}
  <2>2. Y \in SUBSET U /\ Cardinality(Y) = n
    BY <2>1, WithoutChosen
  <2>3. g[Y] = h[Y]
    BY <1>2, <2>2
  <2>4. X \in SUBSET S /\ X \in SUBSET T
    OBVIOUS
  <2>5. g[X] = f[Chosen(X)] + g[Y] /\ h[X] = f[Chosen(X)] + h[Y]
    BY <2>1, <2>4 DEF SumsOf
  <2> QED
    BY <2>3, <2>5
<1>3. Nat \subseteq N
  <2> HIDE DEF N
  <2> QED
    BY <1>1, <1>2, NatInduct
<1> QED
  BY <1>0, <1>3

\* A sum is what any function with its recursion gives.
LEMMA SumByFolding ==
    ASSUME NEW S, IsFiniteSet(S), NEW f, \A x \in S : f[x] \in Int, NEW g, g = SumsOf(f, S, g)
    PROVE  SumFunctionOnSet(f, S) = g[S]
<1> DEFINE T == CHOOSE h : h = SumsOf(f, S, h)
<1>1. T = SumsOf(f, S, T)
  OBVIOUS
<1>2. SumFunctionOnSet(f, S) = T[S]
  BY SumUnfolded
<1> HIDE DEF T
<1>3. S \subseteq S
  OBVIOUS
<1>4. T[S] = g[S]
  BY <1>1, <1>3, SumsAgree
<1> QED
  BY <1>2, <1>4

LEMMA SumOfChosen ==
    ASSUME NEW S, IsFiniteSet(S), S # {}, NEW f, \A x \in S : f[x] \in Int
    PROVE  SumFunctionOnSet(f, S) = f[Chosen(S)] + SumFunctionOnSet(f, S \ {Chosen(S)})
<1> DEFINE T == S \ {Chosen(S)}
           g == CHOOSE g : g = SumsOf(f, S, g)
           h == CHOOSE h : h = SumsOf(f, T, h)
<1>1. g = SumsOf(f, S, g)
  BY SumsExist
<1>2. h = SumsOf(f, T, h)
  BY SumsExist, WithoutChosen
<1>3. SumFunctionOnSet(f, S) = g[S] /\ SumFunctionOnSet(f, T) = h[T]
  BY SumUnfolded
<1> HIDE DEF g, h
<1>4. g[S] = f[Chosen(S)] + g[T]
  BY <1>1 DEF SumsOf
<1>5. g[T] = h[T]
  BY <1>1, <1>2, WithoutChosen, SumsAgree
<1> QED
  BY <1>3, <1>4, <1>5

LEMMA SumOfNone ==
    ASSUME NEW f
    PROVE  SumFunctionOnSet(f, {}) = 0
<1> DEFINE g == CHOOSE g : g = SumsOf(f, {}, g)
<1>1. g = SumsOf(f, {}, g)
  BY SumsExist, FS_EmptySet
<1>2. SumFunctionOnSet(f, {}) = g[{}]
  BY SumUnfolded
<1> HIDE DEF g
<1> QED
  BY <1>1, <1>2 DEF SumsOf

\* Any term may be taken out of a sum, not only the one that is chosen.
LEMMA SumWithout ==
    ASSUME NEW S, IsFiniteSet(S), NEW f, \A x \in S : f[x] \in Int
    PROVE  /\ SumFunctionOnSet(f, S) \in Int
           /\ \A x \in S : SumFunctionOnSet(f, S) = f[x] + SumFunctionOnSet(f, S \ {x})
<1> DEFINE Sum(T) == SumFunctionOnSet(f, T)
           Good(T) == Sum(T) \in Int /\ \A x \in T : Sum(T) = f[x] + Sum(T \ {x})
           N == {n \in Nat : \A T \in SUBSET S : Cardinality(T) <= n => Good(T)}
<1>0. \A T \in SUBSET S : IsFiniteSet(T) /\ Cardinality(T) \in Nat /\ (Cardinality(T) = 0 <=> T = {})
  BY FS_Subset, FS_CardinalityType, FS_EmptySet
<1>1. 0 \in N
  <2> SUFFICES ASSUME NEW T \in SUBSET S, Cardinality(T) <= 0 PROVE Good(T)
    OBVIOUS
  <2>1. T = {}
    BY <1>0
  <2> QED
    BY <2>1, SumOfNone
<1>2. ASSUME NEW n \in Nat, n \in N PROVE n + 1 \in N
  <2> SUFFICES ASSUME NEW T \in SUBSET S, Cardinality(T) <= n + 1, T # {} PROVE Good(T)
    <3>1. \A T \in SUBSET S : T = {} => Good(T)
      BY SumOfNone
    <3> HIDE DEF Good
    <3> QED
      BY <3>1
  <2> DEFINE c == Chosen(T)
  <2>1. IsFiniteSet(T) /\ c \in T
    BY <1>0, ChosenIn
  <2>2. Sum(T) = f[c] + Sum(T \ {c})
    BY <2>1, SumOfChosen
  <2>3. ASSUME NEW x \in T PROVE T \ {x} \in SUBSET S /\ Cardinality(T \ {x}) <= n
    <3>1. Cardinality(T \ {x}) = Cardinality(T) - 1
      BY <2>1, FS_RemoveElement
    <3> QED
      BY <1>0, <3>1
  <2>4. \A x \in T : Good(T \ {x})
    <3> HIDE DEF Good
    <3> QED
      BY <1>2, <2>3
  <2> HIDE DEF c, Sum
  <2>5. Sum(T) \in Int /\ \A x \in T : f[x] \in Int /\ Sum(T \ {x}) \in Int
    BY <2>1, <2>2, <2>4
  <2>6. ASSUME NEW x \in T, x # c PROVE Sum(T) = f[x] + Sum(T \ {x})
    <3> DEFINE R == T \ {c, x}
    <3>1. (T \ {c}) \ {x} = R /\ (T \ {x}) \ {c} = R /\ x \in T \ {c} /\ c \in T \ {x}
      BY <2>1, <2>6
    <3>2. Sum(T \ {c}) = f[x] + Sum(R)
      BY <2>1, <2>4, <3>1
    <3>3. Sum(T \ {x}) = f[c] + Sum(R)
      BY <2>1, <2>4, <3>1
    <3>4. Good(R)
      <4>1. R \in SUBSET S /\ Cardinality(R) <= n
        <5>1. Cardinality(R) = Cardinality(T \ {c}) - 1
          <6> DEFINE U == T \ {c}
          <6>1. IsFiniteSet(U) /\ x \in U /\ R = U \ {x}
            BY <1>0, <3>1
          <6> HIDE DEF U, R
          <6>2. Cardinality(U \ {x}) = Cardinality(U) - 1
            BY <6>1, FS_RemoveElement
          <6> QED
            BY <6>1, <6>2 DEF U
        <5>2. R \in SUBSET S /\ T \ {c} \in SUBSET S /\ Cardinality(T \ {c}) <= n
          BY <2>1, <2>3
        <5>3. Cardinality(R) \in Nat /\ Cardinality(T \ {c}) \in Nat
          BY <1>0, <5>2
        <5> QED
          BY <5>1, <5>2, <5>3
      <4> HIDE DEF Good, R
      <4> QED
        BY <1>2, <4>1
    <3>5. Sum(R) \in Int
      BY <3>4
    <3> HIDE DEF R, Good
    <3> QED
      BY <2>1, <2>2, <2>5, <3>2, <3>3, <3>5
  <2> QED
    BY <2>2, <2>5, <2>6
<1>3. Nat \subseteq N
  <2> HIDE DEF N
  <2> QED
    BY <1>1, <1>2, NatInduct
<1>4. Good(S)
  <2> HIDE DEF Good
  <2> QED
    BY <1>0, <1>3
<1> QED
  BY <1>4

\* Equal terms have equal sums.
LEMMA SumOfEqual ==
    ASSUME NEW S, NEW f, NEW g, \A x \in S : f[x] = g[x]
    PROVE  SumFunctionOnSet(f, S) = SumFunctionOnSet(g, S)
<1>1. \A h : SumsOf(f, S, h) = SumsOf(g, S, h)
  <2> SUFFICES ASSUME NEW h PROVE SumsOf(f, S, h) = SumsOf(g, S, h)
    OBVIOUS
  <2>1. \A T \in SUBSET S : T # {} => f[Chosen(T)] = g[Chosen(T)]
    BY ChosenIn
  <2> QED
    BY <2>1 DEF SumsOf
<1>2. (CHOOSE h : h = SumsOf(f, S, h)) = (CHOOSE h : h = SumsOf(g, S, h))
  BY <1>1
<1> QED
  BY <1>2, SumUnfolded

\* A factor of every term is one of the sum.
LEMMA SumScaled ==
    ASSUME NEW S, IsFiniteSet(S), NEW c \in Int, NEW f, NEW g,
           \A x \in S : f[x] \in Int /\ g[x] = c * f[x]
    PROVE  SumFunctionOnSet(g, S) = c * SumFunctionOnSet(f, S)
<1> DEFINE F(T) == SumFunctionOnSet(f, T)
           H(T) == SumFunctionOnSet(g, T)
           N == {n \in Nat : \A T \in SUBSET S : Cardinality(T) = n => H(T) = c * F(T)}
<1>0. \A T \in SUBSET S : IsFiniteSet(T) /\ Cardinality(T) \in Nat /\ (Cardinality(T) = 0 <=> T = {})
  BY FS_Subset, FS_CardinalityType, FS_EmptySet
<1>1. 0 \in N
  <2>1. F({}) = 0 /\ H({}) = 0
    BY SumOfNone
  <2> HIDE DEF F, H
  <2> QED
    BY <1>0, <2>1
<1>2. ASSUME NEW n \in Nat, n \in N PROVE n + 1 \in N
  <2> SUFFICES ASSUME NEW T \in SUBSET S, Cardinality(T) = n + 1 PROVE H(T) = c * F(T)
    OBVIOUS
  <2>1. PICK x \in T : TRUE
    BY <1>0
  <2> DEFINE R == T \ {x}
  <2>2. IsFiniteSet(T) /\ R \in SUBSET S
    BY <1>0
  <2>3. Cardinality(R) = n
    <3>1. Cardinality(T \ {x}) = Cardinality(T) - 1
      BY <2>2, FS_RemoveElement
    <3> QED
      BY <3>1
  <2>4. F(R) \in Int /\ F(T) = f[x] + F(R)
    <3>1. \A y \in T : f[y] \in Int
      OBVIOUS
    <3>2. IsFiniteSet(R) /\ \A y \in R : f[y] \in Int
      BY <1>0, <2>2
    <3> QED
      BY <2>2, <3>1, <3>2, SumWithout
  <2>5. H(T) = g[x] + H(R)
    <3>1. \A y \in T : g[y] \in Int
      OBVIOUS
    <3> QED
      BY <2>2, <3>1, SumWithout
  <2> HIDE DEF F, H, R
  <2>6. H(R) = c * F(R)
    BY <1>2, <2>2, <2>3
  <2>7. g[x] = c * f[x] /\ f[x] \in Int
    OBVIOUS
  <2>8. PICK a \in Int, b \in Int : a = f[x] /\ b = F(R)
    BY <2>4, <2>7
  <2>9. H(T) = c * a + c * b /\ F(T) = a + b
    BY <2>4, <2>5, <2>6, <2>7, <2>8
  <2>10. c * a + c * b = c * (a + b)
    OBVIOUS
  <2> QED
    BY <2>9, <2>10
<1>3. Nat \subseteq N
  <2> HIDE DEF N
  <2> QED
    BY <1>1, <1>2, NatInduct
<1>4. S \in SUBSET S
  OBVIOUS
<1> QED
  BY <1>0, <1>3, <1>4

\* A sequence of terms with one more at its end.
LEMMA SumAppend ==
    ASSUME NEW n \in Nat, NEW f \in [1 .. n -> Int], NEW g \in [1 .. n + 1 -> Int],
           \A i \in 1 .. n : g[i] = f[i]
    PROVE  /\ SumFunction(f) \in Int
           /\ SumFunction(g) = SumFunction(f) + g[n + 1]
<1>1. IsFiniteSet(1 .. n) /\ IsFiniteSet(1 .. n + 1)
  BY FS_Interval
<1>2. /\ SumFunction(f) = SumFunctionOnSet(f, 1 .. n)
      /\ SumFunction(g) = SumFunctionOnSet(g, 1 .. n + 1)
  BY DEF SumFunction
<1>3. SumFunctionOnSet(f, 1 .. n) \in Int
  BY <1>1, SumWithout
<1>4. SumFunctionOnSet(g, 1 .. n) = SumFunctionOnSet(f, 1 .. n)
  BY SumOfEqual
<1>5. SumFunctionOnSet(g, 1 .. n + 1) = g[n + 1] + SumFunctionOnSet(g, (1 .. n + 1) \ {n + 1})
  <2>1. n + 1 \in 1 .. n + 1
    OBVIOUS
  <2> QED
    BY <1>1, <2>1, SumWithout
<1>6. (1 .. n + 1) \ {n + 1} = 1 .. n
  OBVIOUS
<1>7. g[n + 1] \in Int
  OBVIOUS
<1>8. PICK t \in Int : t = SumFunctionOnSet(f, 1 .. n)
  BY <1>3
<1>9. SumFunction(f) = t /\ SumFunction(g) = g[n + 1] + t
  BY <1>2, <1>4, <1>5, <1>6, <1>8
<1> QED
  BY <1>7, <1>8, <1>9

\* Two terms of a sum change.
ChangesAt(S, x, y, f, g) ==
    x \in S /\ y \in S /\ x # y /\ \A z \in S \ {x, y} : g[z] = f[z]

LEMMA SumChanged ==
    ASSUME NEW S, IsFiniteSet(S), NEW f \in [S -> Int], NEW g \in [S -> Int],
           NEW x, NEW y, ChangesAt(S, x, y, f, g)
    PROVE  /\ SumFunction(f) \in Int
           /\ SumFunction(g) = SumFunction(f) + (g[x] - f[x]) + (g[y] - f[y])
<1> DEFINE T == S \ {x}
           R == T \ {y}
<1>0. x \in S /\ y \in S /\ x # y /\ \A z \in S \ {x, y} : g[z] = f[z]
  BY DEF ChangesAt
<1>1. IsFiniteSet(T) /\ T \subseteq S /\ y \in T /\ R = S \ {x, y}
  BY <1>0, FS_Subset
<1>2. SumFunction(f) = SumFunctionOnSet(f, S) /\ SumFunction(g) = SumFunctionOnSet(g, S)
  BY DEF SumFunction
<1> HIDE DEF T, R
<1>3. ASSUME NEW h \in [S -> Int]
      PROVE  /\ SumFunctionOnSet(h, R) \in Int
             /\ SumFunctionOnSet(h, S) = h[x] + (h[y] + SumFunctionOnSet(h, R))
  <2>1. SumFunctionOnSet(h, S) = h[x] + SumFunctionOnSet(h, T)
    BY <1>0, SumWithout DEF T
  <2>2. SumFunctionOnSet(h, T) = h[y] + SumFunctionOnSet(h, R)
    BY <1>1, SumWithout DEF R
  <2>3. IsFiniteSet(R) /\ R \subseteq S
    BY <1>1, FS_Subset
  <2>4. SumFunctionOnSet(h, R) \in Int
    BY <2>3, SumWithout
  <2> QED
    BY <2>1, <2>2, <2>4
<1>4. SumFunctionOnSet(g, R) = SumFunctionOnSet(f, R)
  BY <1>0, <1>1, SumOfEqual
<1>5. f[x] \in Int /\ f[y] \in Int /\ g[x] \in Int /\ g[y] \in Int
  BY <1>0
<1>6. PICK t \in Int : t = SumFunctionOnSet(f, R)
  BY <1>3
<1>7. /\ SumFunction(f) = f[x] + (f[y] + t)
      /\ SumFunction(g) = g[x] + (g[y] + t)
  BY <1>2, <1>3, <1>4, <1>6
<1> QED
  BY <1>5, <1>6, <1>7

-----------------------------------------------------------------------------
(* Remainders.                                                                *)

LEMMA Division ==
    ASSUME NEW n \in Int, NEW m \in Nat \ {0}
    PROVE  n % m \in 0 .. m - 1 /\ n \div m \in Int /\ n = (n \div m) * m + (n % m)
OBVIOUS

\* Multiples of the modulus make no difference.
LEMMA SameRemainder ==
    ASSUME NEW n \in Int, NEW k \in Int, NEW m \in Nat \ {0}
    PROVE  (n + k * m) % m = n % m
<1> DEFINE a == n + k * m
<1>0. k * m \in Int /\ a \in Int
  OBVIOUS
<1>1. PICK q \in Int, r \in 0 .. m - 1 : r = n % m /\ n = q * m + r
  BY Division
<1>2. PICK p \in Int, s \in 0 .. m - 1 : s = a % m /\ a = p * m + s
  <2> HIDE DEF a
  <2> QED
    BY <1>0, Division
<1>3. s = r + (q + k - p) * m
  BY <1>1, <1>2
<1>4. PICK d \in Int : d = q + k - p
  OBVIOUS
<1>5. s = r + d * m
  BY <1>3, <1>4
<1>6. d = 0
  BY <1>5
<1>7. s = r
  BY <1>5, <1>6
<1> QED
  BY <1>1, <1>2, <1>7

-----------------------------------------------------------------------------
(* Sequences, folded from the left.                                        *)

Largest(T) == CHOOSE x \in T : \A y \in T : x >= y

\* A set of numbers with a bound has a largest.
LEMMA LargestIs ==
    ASSUME NEW n \in Nat, NEW T \in SUBSET (0 .. n), T # {}
    PROVE  Largest(T) \in T /\ \A y \in T : Largest(T) >= y
<1> DEFINE U == {n - x : x \in T}
<1>1. \A x \in T : x \in Int /\ n - x \in Nat
  OBVIOUS
<1>2. U \in SUBSET Nat /\ U # {}
  BY <1>1
<1>3. PICK u \in U : \A v \in U : u <= v
  BY <1>2, Least
<1>4. PICK x \in T : u = n - x
  BY <1>3
<1>5. \A y \in T : x >= y
  <2> SUFFICES ASSUME NEW y \in T PROVE x >= y
    OBVIOUS
  <2>1. n - x <= n - y
    BY <1>3, <1>4
  <2> QED
    BY <1>1, <2>1
<1> QED
  BY <1>5 DEF Largest

LEMMA LargestOfInterval ==
    ASSUME NEW n \in Nat
    PROVE  Largest(1 .. n + 1) = n + 1 /\ (1 .. n + 1) \ {n + 1} = 1 .. n
<1>1. 1 .. n + 1 \in SUBSET (0 .. n + 1) /\ n + 1 \in Nat /\ n + 1 \in 1 .. n + 1
  OBVIOUS
<1>2. Largest(1 .. n + 1) \in 1 .. n + 1 /\ Largest(1 .. n + 1) >= n + 1
  BY <1>1, LargestIs
<1>3. PICK x \in 1 .. n + 1 : x = Largest(1 .. n + 1) /\ x >= n + 1
  BY <1>2
<1> QED
  BY <1>3

\* g holds the folds of the first places of a sequence of n, by G.
LeftFolds(n, V, b, G, g) ==
    /\ g \in [SUBSET (1 .. n) -> V]
    /\ g = [T \in SUBSET (1 .. n) |->
              IF T = {} THEN b ELSE G[<<g[T \ {Largest(T)}], Largest(T)>>]]

Foldable(n, V, b, G) == n \in Nat /\ b \in V /\ G \in [V \X (1 .. n) -> V]

LEMMA LeftFoldsExist ==
    ASSUME NEW n, NEW V, NEW b, NEW G, Foldable(n, V, b, G)
    PROVE  \E g : LeftFolds(n, V, b, G, g)
<1> DEFINE D == SUBSET (1 .. n)
           a == [T \in D |-> b]
           r == [T \in D |-> Cardinality(T)]
           p == [T \in D |-> IF T = {} THEN T ELSE T \ {Largest(T)}]
           H == [y \in D \X V |-> IF y[1] = {} THEN b ELSE G[<<y[2], Largest(y[1])>>]]
<1>11. n \in Nat /\ b \in V /\ G \in [V \X (1 .. n) -> V]
  BY DEF Foldable
<1>0. \A T \in D : IsFiniteSet(T) /\ Cardinality(T) \in Nat /\ (Cardinality(T) = 0 <=> T = {})
  <2>1. 1 \in Int /\ n \in Int
    BY <1>11
  <2>2. IsFiniteSet(1 .. n)
    BY <2>1, FS_Interval
  <2> QED
    BY <2>2, FS_Subset, FS_CardinalityType, FS_EmptySet
<1>1. a \in [D -> V] /\ r \in [D -> Nat] /\ p \in [D -> D]
  BY <1>0, <1>11
<1>2. \A T \in D : T # {} => Largest(T) \in T /\ Largest(T) \in 1 .. n
  <2>1. \A T \in D : T \in SUBSET (0 .. n)
    OBVIOUS
  <2> QED
    BY <1>11, <2>1, LargestIs
<1>3. H \in [D \X V -> V]
  <2>1. ASSUME NEW y \in D \X V, y[1] # {} PROVE G[<<y[2], Largest(y[1])>>] \in V
    BY <1>2, <1>11, <2>1
  <2> QED
    BY <1>11, <2>1
<1>4. \A T \in D : r[T] # 0 => r[p[T]] < r[T]
  <2> SUFFICES ASSUME NEW T \in D, T # {} PROVE r[p[T]] < r[T]
    BY <1>0
  <2>1. r[T] = Cardinality(T) /\ r[p[T]] = Cardinality(T \ {Largest(T)})
    BY <1>1
  <2>2. Cardinality(T \ {Largest(T)}) = Cardinality(T) - 1
    BY <1>0, <1>2, FS_RemoveElement
  <2> QED
    BY <1>0, <2>1, <2>2
<1>5. Descent(D, V, a, p, r, H)
  <2> HIDE DEF D, H, a, r, p
  <2> QED
    BY <1>1, <1>3, <1>4 DEF Descent
<1> HIDE DEF D, H, a, r, p
<1>6. PICK g : Solution(D, V, a, p, r, H, g)
  BY <1>5, Recursion
<1>7. g \in [D -> V] /\ \A T \in D : g[T] = Step(a, p, r, H, g, T)
  BY <1>6 DEF Solution
<1>8. ASSUME NEW T \in D
      PROVE  g[T] = IF T = {} THEN b ELSE G[<<g[T \ {Largest(T)}], Largest(T)>>]
  <2> USE DEF D
  <2>1. CASE T = {}
    <3>1. r[T] = 0 /\ a[T] = b
      BY <1>0, <2>1 DEF r, a
    <3> QED
      BY <1>7, <2>1, <3>1 DEF Step
  <2>2. CASE T # {}
    <3>1. r[T] # 0 /\ p[T] = T \ {Largest(T)} /\ g[p[T]] \in V
      BY <1>0, <1>1, <1>7, <2>2 DEF r, p
    <3>2. H[<<T, g[p[T]]>>] = G[<<g[p[T]], Largest(T)>>]
      BY <2>2, <3>1 DEF H
    <3> QED
      BY <1>7, <2>2, <3>1, <3>2 DEF Step
  <2> QED
    BY <2>1, <2>2
<1>9. g = [T \in D |-> g[T]]
  BY <1>7
<1>10. LeftFolds(n, V, b, G, g)
  BY <1>7, <1>8, <1>9 DEF LeftFolds, D
<1> QED
  BY <1>10

=============================================================================
