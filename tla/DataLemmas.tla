------------------------------- MODULE DataLemmas -------------------------------
(***************************************************************************)
(* What the models' operators on finite sets and sequences return, for     *)
(* every input: the least and greatest of a set of integers, sums, folds   *)
(* and the elements of a sequence that are in a set. Induction is over     *)
(* sets of numbers, which is first order: NatSetInduction follows from     *)
(* the well-foundedness of < on Nat.                                       *)
(***************************************************************************)
EXTENDS Integers, SequencesExt, FiniteSetTheorems, WellFoundedInduction, TLAPS

-----------------------------------------------------------------------------
(* Induction and recursion.                                                  *)

\* A set of numbers has a least one.
LEMMA NatSmallest ==
  ASSUME NEW S \in SUBSET Nat, S # {}
  PROVE  \E n \in S : \A m \in S : n <= m
<1> DEFINE R == OpToRel(<, Nat)
<1>1. IsWellFoundedOn(R, Nat)
  BY NatLessThanWellFounded
<1> HIDE DEF R
<1>2. PICK n \in S : \A m \in S : ~ (<<m, n>> \in R)
  BY <1>1, WFMin
<1>3. \A m \in S : m < n => <<m, n>> \in R
  BY DEF R, OpToRel
<1>4. ASSUME NEW m \in S PROVE n <= m
  <2>1. ~ (m < n)
    BY <1>2, <1>3
  <2>2. n \in Nat /\ m \in Nat
    OBVIOUS
  <2>3. QED BY <2>1, <2>2
<1>5. QED BY <1>4

\* A set that has 0 and with each number the next has them all.
LEMMA NatSetInduction ==
  ASSUME NEW S, 0 \in S, \A n \in Nat : n \in S => n + 1 \in S
  PROVE  Nat \subseteq S
<1> SUFFICES ASSUME Nat \ S # {} PROVE FALSE
  OBVIOUS
<1>1. PICK n \in Nat \ S : \A m \in Nat \ S : n <= m
  BY NatSmallest
<1>2. n - 1 \in Nat /\ n - 1 \notin Nat \ S
  BY <1>1
<1>3. (n - 1) + 1 \in S
  BY <1>2
<1>4. QED BY <1>1, <1>3

\* A recursion on the subsets of D, each one element smaller, with values in A.
Recursion(D, A, base, pick, F) ==
  /\ IsFiniteSet(D) /\ base \in A
  /\ \A s \in SUBSET D : s # {} => pick[s] \in s
  /\ \A x \in D : \A a \in A : F[<<x, a>>] \in A

Solution(g, D, A, base, pick, F) ==
  /\ g \in [SUBSET D -> A] /\ g[{}] = base
  /\ \A s \in SUBSET D : s # {} => g[s] = F[<<pick[s], g[s \ {pick[s]}]>>]

\* There is a function that it defines.
LEMMA RecursionOnSubsets ==
  ASSUME NEW D, NEW A, NEW base, NEW pick, NEW F, Recursion(D, A, base, pick, F)
  PROVE  \E g : Solution(g, D, A, base, pick, F)
<1> DEFINE Small(n) == {s \in SUBSET D : Cardinality(s) <= n}
           Solves(g, n) == \A s \in Small(n) : g[s] = IF s = {} THEN base ELSE F[<<pick[s], g[s \ {pick[s]}]>>]
           N == {n \in Nat : \E g \in [Small(n) -> A] : Solves(g, n)}
<1> /\ IsFiniteSet(D) /\ base \in A
    /\ \A s \in SUBSET D : s # {} => pick[s] \in s
    /\ \A x \in D : \A a \in A : F[<<x, a>>] \in A
  BY DEF Recursion
<1>1. \A s \in SUBSET D : IsFiniteSet(s) /\ Cardinality(s) \in Nat /\ Cardinality(s) <= Cardinality(D)
  BY FS_Subset, FS_CardinalityType
<1>2. \A s \in SUBSET D : s # {} =>
        /\ pick[s] \in D /\ s \ {pick[s]} \in SUBSET D
        /\ Cardinality(s \ {pick[s]}) = Cardinality(s) - 1
  BY <1>1, FS_RemoveElement
<1>3. 0 \in N
  <2> DEFINE g == [s \in Small(0) |-> base]
  <2>1. \A s \in Small(0) : s = {}
    BY <1>1, FS_EmptySet
  <2>2. g \in [Small(0) -> A] /\ Solves(g, 0)
    BY <2>1
  <2>3. QED BY <2>2
<1>4. ASSUME NEW n \in Nat, n \in N PROVE n + 1 \in N
  <2>1. PICK g \in [Small(n) -> A] : Solves(g, n)
    BY <1>4
  <2> DEFINE h == [s \in Small(n + 1) |-> IF s = {} THEN base ELSE F[<<pick[s], g[s \ {pick[s]}]>>]]
  <2>2. \A s \in Small(n + 1) : s # {} => s \ {pick[s]} \in Small(n) /\ pick[s] \in D
    BY <1>1, <1>2
  <2>3. h \in [Small(n + 1) -> A]
    BY <2>1, <2>2
  <2>4. \A s \in Small(n) : s \in Small(n + 1) /\ h[s] = g[s]
    BY <1>1, <2>1
  <2>5. Solves(h, n + 1)
    <3> HIDE DEF Small
    <3>1. \A s \in Small(n + 1) : s # {} => h[s \ {pick[s]}] = g[s \ {pick[s]}]
      BY <2>2, <2>4
    <3>2. \A s \in Small(n + 1) : h[s] = IF s = {} THEN base ELSE F[<<pick[s], g[s \ {pick[s]}]>>]
      OBVIOUS
    <3> HIDE DEF h
    <3>3. QED BY <3>1, <3>2
  <2> HIDE DEF h, Small, Solves
  <2>6. QED BY <2>3, <2>5
<1>5. Cardinality(D) \in N
  <2> HIDE DEF N
  <2>1. QED BY <1>1, <1>3, <1>4, NatSetInduction
<1>6. PICK g \in [Small(Cardinality(D)) -> A] : Solves(g, Cardinality(D))
  BY <1>5
<1>7. Small(Cardinality(D)) = SUBSET D
  BY <1>1
<1>8. g \in [SUBSET D -> A]
        /\ \A s \in SUBSET D : g[s] = IF s = {} THEN base ELSE F[<<pick[s], g[s \ {pick[s]}]>>]
  BY <1>6, <1>7
<1>9. QED BY <1>8 DEF Solution

\* What is defined so has the values that each step keeps.
LEMMA RecursionKeeps ==
  ASSUME NEW D, IsFiniteSet(D), NEW A, NEW g, NEW pick, g[{}] \in A,
         \A s \in SUBSET D : s # {} => pick[s] \in s,
         \A s \in SUBSET D : s # {} /\ g[s \ {pick[s]}] \in A => g[s] \in A
  PROVE  \A s \in SUBSET D : g[s] \in A
<1> DEFINE N == {n \in Nat : \A s \in SUBSET D : Cardinality(s) = n => g[s] \in A}
<1>1. \A s \in SUBSET D : IsFiniteSet(s) /\ Cardinality(s) \in Nat
  BY FS_Subset, FS_CardinalityType
<1>2. 0 \in N
  <2>1. \A s \in SUBSET D : Cardinality(s) = 0 => s = {}
    BY <1>1, FS_EmptySet
  <2>2. QED BY <2>1
<1>3. ASSUME NEW n \in Nat, n \in N PROVE n + 1 \in N
  <2>1. ASSUME NEW s \in SUBSET D, Cardinality(s) = n + 1 PROVE g[s] \in A
    <3>1. s # {}
      BY <1>1, <2>1, FS_EmptySet
    <3>2. pick[s] \in s /\ s \ {pick[s]} \in SUBSET D
      BY <3>1
    <3>3. Cardinality(s \ {pick[s]}) = n
      BY <1>1, <2>1, <3>2, FS_RemoveElement
    <3>4. g[s \ {pick[s]}] \in A
      BY <1>3, <3>2, <3>3
    <3>5. QED BY <3>1, <3>4
  <2>2. QED BY <2>1
<1>4. Nat \subseteq N
  <2> HIDE DEF N
  <2>1. QED BY <1>2, <1>3, NatSetInduction
<1>5. QED BY <1>1, <1>4

-----------------------------------------------------------------------------
(* Least and greatest.                                                       *)

\* Max(S) and Min(S) are in S and bound it.
LEMMA MinIsLeast ==
  ASSUME NEW S \in SUBSET Int, IsFiniteSet(S), S # {}
  PROVE  Min(S) \in S /\ \A x \in S : Min(S) <= x
<1> DEFINE N == {n \in Nat : \A T \in SUBSET S : Cardinality(T) = n + 1 => \E x \in T : \A y \in T : x <= y}
<1>1. \A T \in SUBSET S : IsFiniteSet(T) /\ Cardinality(T) \in Nat
  BY FS_Subset, FS_CardinalityType
<1>2. 0 \in N
  <2>1. ASSUME NEW T \in SUBSET S, Cardinality(T) = 0 + 1 PROVE \E x \in T : \A y \in T : x <= y
    <3>1. \E x : T = {x}
      BY <1>1, <2>1, FS_Singleton
    <3>2. PICK x \in T : T = {x}
      BY <3>1
    <3>3. QED BY <3>2
  <2>2. QED BY <2>1
<1>3. ASSUME NEW n \in Nat, n \in N PROVE n + 1 \in N
  <2>1. ASSUME NEW T \in SUBSET S, Cardinality(T) = (n + 1) + 1 PROVE \E x \in T : \A y \in T : x <= y
    <3> T # {}
      <4>1. Cardinality(T) # 0
        BY <2>1
      <4>2. QED BY <4>1, FS_EmptySet
    <3>1. PICK z \in T : TRUE
      OBVIOUS
    <3>2. T \ {z} \in SUBSET S /\ Cardinality(T \ {z}) = n + 1
      BY <1>1, <2>1, <3>1, FS_RemoveElement
    <3>3. PICK x \in T \ {z} : \A y \in T \ {z} : x <= y
      BY <1>3, <3>2
    <3>4. x \in Int /\ z \in Int /\ \A y \in T : y \in Int
      BY <3>1, <3>3
    <3>5. CASE x <= z
      BY <3>3, <3>5
    <3>6. CASE z < x
      BY <3>3, <3>4, <3>6
    <3>7. QED BY <3>4, <3>5, <3>6
  <2>2. QED BY <2>1
<1>4. Nat \subseteq N
  <2> HIDE DEF N
  <2>1. QED BY <1>2, <1>3, NatSetInduction
<1>5. Cardinality(S) - 1 \in Nat /\ Cardinality(S) = (Cardinality(S) - 1) + 1
  BY <1>1, FS_EmptySet
<1>6. \E x \in S : \A y \in S : x <= y
  BY <1>4, <1>5
<1>7. QED BY <1>6 DEF Min

LEMMA MaxIsGreatest ==
  ASSUME NEW S \in SUBSET Int, IsFiniteSet(S), S # {}
  PROVE  Max(S) \in S /\ \A x \in S : x <= Max(S)
<1> DEFINE N == {0 - x : x \in S}
           f == [x \in S |-> 0 - x]
<1>1. N \in SUBSET Int /\ N # {}
  <2>1. \A x \in S : x \in Int /\ 0 - x \in N
    OBVIOUS
  <2>2. \A y \in N : y \in Int
    OBVIOUS
  <2>3. QED BY <2>1, <2>2
<1>2. IsFiniteSet(N)
  <2>1. f \in [S -> N] /\ \A y \in N : \E x \in S : f[x] = y
    OBVIOUS
  <2>2. QED BY <2>1, FS_Surjection DEF Surjection
<1>3. Min(N) \in N /\ \A x \in N : Min(N) <= x
  BY <1>1, <1>2, MinIsLeast
<1>4. PICK z \in S : Min(N) = 0 - z
  BY <1>3
<1>5. \A y \in S : 0 - z <= 0 - y
  BY <1>3, <1>4
<1>6. z \in S /\ \A y \in S : z >= y
  BY <1>5
<1>7. Max(S) \in S /\ \A y \in S : Max(S) >= y
  BY <1>6 DEF Max
<1>8. QED BY <1>7

LEMMA ImageFinite ==
  ASSUME NEW S, IsFiniteSet(S), NEW f
  PROVE  IsFiniteSet({f[x] : x \in S})
<1> DEFINE T == {f[x] : x \in S}
           h == [x \in S |-> f[x]]
<1>1. h \in [S -> T] /\ \A y \in T : \E x \in S : h[x] = y
  OBVIOUS
<1> HIDE DEF T, h
<1>2. IsFiniteSet(T)
  BY <1>1, FS_Surjection DEF Surjection
<1>3. QED BY <1>2 DEF T

\* Of two numbers.
LEMMA OfTwo ==
  ASSUME NEW a \in Int, NEW b \in Int
  PROVE  /\ Max({a, b}) = IF a <= b THEN b ELSE a
         /\ Min({a, b}) = IF a <= b THEN a ELSE b
<1>1. Max({a, b}) \in {a, b} /\ \A y \in {a, b} : Max({a, b}) >= y
  <2>1. \E x \in {a, b} : \A y \in {a, b} : x >= y
    <3>1. CASE a <= b  BY <3>1
    <3>2. CASE b <= a  BY <3>2
    <3>3. QED BY <3>1, <3>2
  <2>2. QED BY <2>1 DEF Max
<1>2. Min({a, b}) \in {a, b} /\ \A y \in {a, b} : Min({a, b}) <= y
  <2>1. \E x \in {a, b} : \A y \in {a, b} : x <= y
    <3>1. CASE a <= b  BY <3>1
    <3>2. CASE b <= a  BY <3>2
    <3>3. QED BY <3>1, <3>2
  <2>2. QED BY <2>1 DEF Min
<1>3. QED BY <1>1, <1>2

-----------------------------------------------------------------------------
(* Sums.                                                                     *)

\* Whether g gives the sum of f over each subset of S, taking a term at a time.
Sums(g, f, S) ==
  /\ g \in [SUBSET S -> Int] /\ g[{}] = 0
  /\ \A s \in SUBSET S : \A x \in s : g[s] = f[x] + g[s \ {x}]

\* One order in which to take the terms is enough.
LEMMA AnyOrder ==
  ASSUME NEW S, IsFiniteSet(S), NEW f, \A x \in S : f[x] \in Int,
         NEW g \in [SUBSET S -> Int], g[{}] = 0, NEW pick,
         \A s \in SUBSET S : s # {} => pick[s] \in s /\ g[s] = f[pick[s]] + g[s \ {pick[s]}]
  PROVE  Sums(g, f, S)
<1> DEFINE N == {n \in Nat : \A s \in SUBSET S : Cardinality(s) = n => \A x \in s : g[s] = f[x] + g[s \ {x}]}
<1>1. \A s \in SUBSET S : IsFiniteSet(s) /\ Cardinality(s) \in Nat
  BY FS_Subset, FS_CardinalityType
<1>2. 0 \in N
  <2>1. \A s \in SUBSET S : Cardinality(s) = 0 => s = {}
    BY <1>1, FS_EmptySet
  <2>2. QED BY <2>1
<1>3. ASSUME NEW n \in Nat, n \in N PROVE n + 1 \in N
  <2>1. ASSUME NEW s \in SUBSET S, Cardinality(s) = n + 1, NEW x \in s PROVE g[s] = f[x] + g[s \ {x}]
    <3>1. PICK a \in s : g[s] = f[a] + g[s \ {a}]
      OBVIOUS
    <3>2. CASE x = a
      BY <3>1, <3>2
    <3>3. CASE x # a
      <4>1. Cardinality(s \ {a}) = n /\ Cardinality(s \ {x}) = n
        <5>1. /\ Cardinality(s \ {a}) = Cardinality(s) - 1
              /\ Cardinality(s \ {x}) = Cardinality(s) - 1
          BY <1>1, FS_RemoveElement
        <5>2. QED BY <2>1, <5>1
      <4>2. g[s \ {a}] = f[x] + g[(s \ {a}) \ {x}]
        BY <1>3, <3>3, <4>1
      <4>3. g[s \ {x}] = f[a] + g[(s \ {x}) \ {a}]
        BY <1>3, <3>3, <4>1
      <4>4. (s \ {a}) \ {x} = (s \ {x}) \ {a} /\ (s \ {x}) \ {a} \in SUBSET S
        OBVIOUS
      <4>5. f[x] \in Int /\ f[a] \in Int /\ g[(s \ {x}) \ {a}] \in Int
        BY <4>4
      <4> DEFINE r == g[(s \ {x}) \ {a}]
      <4>6. g[s] = f[a] + g[s \ {a}] /\ g[s \ {a}] = f[x] + r /\ g[s \ {x}] = f[a] + r /\ r \in Int
        BY <3>1, <4>2, <4>3, <4>4, <4>5
      <4> HIDE DEF r
      <4>7. QED BY <4>5, <4>6
    <3>4. QED BY <3>2, <3>3
  <2>2. QED BY <2>1
<1>4. Nat \subseteq N
  <2> HIDE DEF N
  <2>1. QED BY <1>2, <1>3, NatSetInduction
<1>5. QED BY <1>1, <1>4 DEF Sums

\* SumFunctionOnSet is such a sum.
LEMMA SumIsSum ==
  ASSUME NEW S, IsFiniteSet(S), NEW f, \A x \in S : f[x] \in Int
  PROVE  \E g : Sums(g, f, S) /\ g[S] = SumFunctionOnSet(f, S)
<1> DEFINE Body(g) == [s \in SUBSET S |-> IF s = {} THEN 0
                          ELSE f[CHOOSE x \in s : TRUE] + g[s \ {CHOOSE x \in s : TRUE}]]
           iter == CHOOSE g : g = Body(g)
           pick == [s \in SUBSET S |-> CHOOSE x \in s : TRUE]
           F == [p \in S \X Int |-> f[p[1]] + p[2]]
<1>1. SumFunctionOnSet(f, S) = iter[S]
  BY DEF SumFunctionOnSet, FoldFunctionOnSet, MapThenFoldSet
<1>2. \A s \in SUBSET S : s # {} => pick[s] \in s
  OBVIOUS
<1>3. \A x \in S : \A a \in Int : F[<<x, a>>] = f[x] + a /\ f[x] + a \in Int
  OBVIOUS
<1>4. \E g : g = Body(g)
  <2> HIDE DEF pick, F
  <2>0. Recursion(S, Int, 0, pick, F)
    BY <1>2, <1>3 DEF Recursion
  <2>1. PICK g : Solution(g, S, Int, 0, pick, F)
    BY <2>0, RecursionOnSubsets
  <2>2. \A s \in SUBSET S : s # {} => F[<<pick[s], g[s \ {pick[s]}]>>] = f[pick[s]] + g[s \ {pick[s]}]
    BY <1>2, <1>3, <2>1 DEF Solution
  <2>3. \A s \in SUBSET S : g[s] = Body(g)[s]
    BY <2>1, <2>2 DEF pick, Solution
  <2>4. QED BY <2>1, <2>3 DEF Solution
<1>5. iter = Body(iter)
  BY <1>4
<1> HIDE DEF iter
<1>6. /\ iter[{}] = 0
      /\ \A s \in SUBSET S : s # {} => iter[s] = f[pick[s]] + iter[s \ {pick[s]}]
  BY <1>5
<1> HIDE DEF pick, Body, F
<1>7. \A s \in SUBSET S : iter[s] \in Int
  <2>1. \A s \in SUBSET S : s # {} /\ iter[s \ {pick[s]}] \in Int => iter[s] \in Int
    <3>1. ASSUME NEW s \in SUBSET S, s # {}, iter[s \ {pick[s]}] \in Int PROVE iter[s] \in Int
      <4>1. pick[s] \in S
        BY <1>2, <3>1
      <4>2. f[pick[s]] \in Int
        BY <4>1
      <4>3. iter[s] = f[pick[s]] + iter[s \ {pick[s]}]
        BY <1>6, <3>1
      <4>4. QED BY <3>1, <4>2, <4>3
    <3>2. QED BY <3>1
  <2>2. 0 \in Int
    OBVIOUS
  <2>3. QED BY <1>2, <1>6, <2>1, <2>2, RecursionKeeps, Zenon
<1>8. iter \in [SUBSET S -> Int]
  <2>1. iter = [s \in SUBSET S |-> iter[s]]
    BY <1>5 DEF Body
  <2>2. QED BY <1>7, <2>1
<1>9. Sums(iter, f, S)
  BY <1>2, <1>6, <1>8, AnyOrder
<1>10. QED BY <1>1, <1>9

Agree(f, e, S) == \A x \in S : f[x] = e[x] /\ f[x] \in Int

\* Functions that agree on a set have the same sum.
LEMMA SameSums ==
  ASSUME NEW S, IsFiniteSet(S), NEW T, S \subseteq T, NEW f, NEW e, Agree(f, e, S),
         NEW g, Sums(g, f, S), NEW h, Sums(h, e, T)
  PROVE  \A s \in SUBSET S : g[s] = h[s]
<1> \A x \in S : f[x] = e[x] /\ f[x] \in Int
  BY DEF Agree
<1> DEFINE N == {n \in Nat : \A s \in SUBSET S : Cardinality(s) = n => g[s] = h[s]}
<1>1. \A s \in SUBSET S : IsFiniteSet(s) /\ Cardinality(s) \in Nat
  BY FS_Subset, FS_CardinalityType
<1>2. 0 \in N
  <2>1. \A s \in SUBSET S : Cardinality(s) = 0 => s = {}
    BY <1>1, FS_EmptySet
  <2>2. QED BY <2>1 DEF Sums
<1>3. ASSUME NEW n \in Nat, n \in N PROVE n + 1 \in N
  <2>1. ASSUME NEW s \in SUBSET S, Cardinality(s) = n + 1 PROVE g[s] = h[s]
    <3>1. Cardinality(s) # 0
      BY <2>1
    <3>2. PICK x \in s : TRUE
      BY <1>1, <3>1, FS_EmptySet
    <3>3. Cardinality(s \ {x}) = n /\ s \ {x} \in SUBSET S
      <4>1. Cardinality(s \ {x}) = Cardinality(s) - 1
        BY <1>1, <3>2, FS_RemoveElement
      <4>2. QED BY <2>1, <4>1
    <3>4. g[s \ {x}] = h[s \ {x}]
      BY <1>3, <3>3
    <3>5. s \in SUBSET T
      OBVIOUS
    <3>6. QED BY <3>2, <3>4, <3>5 DEF Sums
  <2>2. QED BY <2>1
<1>4. Nat \subseteq N
  <2> HIDE DEF N
  <2>1. QED BY <1>2, <1>3, NatSetInduction
<1>5. QED BY <1>1, <1>4

\* A sum is a number; it is nothing over the empty set, and any term can be taken
\* out of it.
LEMMA SumFacts ==
  ASSUME NEW S, IsFiniteSet(S), NEW f, \A x \in S : f[x] \in Int
  PROVE  /\ SumFunctionOnSet(f, S) \in Int
         /\ SumFunctionOnSet(f, {}) = 0
         /\ \A x \in S : SumFunctionOnSet(f, S) = f[x] + SumFunctionOnSet(f, S \ {x})
<1>1. PICK g : Sums(g, f, S) /\ g[S] = SumFunctionOnSet(f, S)
  BY SumIsSum
<1>2. \A s \in SUBSET S : SumFunctionOnSet(f, s) = g[s]
  <2>1. ASSUME NEW s \in SUBSET S PROVE SumFunctionOnSet(f, s) = g[s]
    <3>1. IsFiniteSet(s) /\ s \in SUBSET s
      BY FS_Subset
    <3>2. PICK h : Sums(h, f, s) /\ h[s] = SumFunctionOnSet(f, s)
      BY <3>1, SumIsSum
    <3>3. s \subseteq S /\ Agree(f, f, s)
      BY DEF Agree
    <3>4. \A r \in SUBSET s : h[r] = g[r]
      BY <1>1, <3>1, <3>2, <3>3, SameSums
    <3>5. QED BY <3>1, <3>2, <3>4
  <2>2. QED BY <2>1
<1>3. QED BY <1>1, <1>2 DEF Sums

LEMMA SumAgrees ==
  ASSUME NEW S, IsFiniteSet(S), NEW f, NEW e, Agree(f, e, S)
  PROVE  SumFunctionOnSet(f, S) = SumFunctionOnSet(e, S)
<1>1. PICK g : Sums(g, f, S) /\ g[S] = SumFunctionOnSet(f, S)
  BY SumIsSum DEF Agree
<1>2. PICK h : Sums(h, e, S) /\ h[S] = SumFunctionOnSet(e, S)
  BY SumIsSum DEF Agree
<1>3. QED BY <1>1, <1>2, SameSums

-----------------------------------------------------------------------------
(* Folds over a sequence of n elements, each taken last from what is left.   *)

Taken(n) == [t \in SUBSET (1 .. n) |-> Max(t)]

LEMMA TakenIn ==
  ASSUME NEW n \in Nat, NEW t \in SUBSET (1 .. n), t # {}
  PROVE  Taken(n)[t] = Max(t) /\ Max(t) \in t /\ \A x \in t : x <= Max(t)
<1>1. IsFiniteSet(1 .. n)
  BY FS_Interval
<1>2. IsFiniteSet(t)
  BY <1>1, FS_Subset
<1>3. t \in SUBSET Int
  OBVIOUS
<1>4. Max(t) \in t /\ \A x \in t : x <= Max(t)
  BY <1>2, <1>3, MaxIsGreatest
<1>5. QED BY <1>4 DEF Taken

LEMMA LastTaken ==
  ASSUME NEW n \in Nat, NEW k \in 1 .. n
  PROVE  1 .. k \in SUBSET (1 .. n) /\ 1 .. k # {} /\ Max(1 .. k) = k /\ (1 .. k) \ {k} = 1 .. k - 1
<1>1. 1 .. k \in SUBSET (1 .. n) /\ k \in 1 .. k
  OBVIOUS
<1>2. Max(1 .. k) \in 1 .. k /\ k <= Max(1 .. k)
  BY <1>1, TakenIn
<1>3. QED BY <1>1, <1>2

\* A recursion that takes the last element first.
FoldStep(n, A, base, F) ==
  n \in Nat /\ base \in A /\ \A k \in 1 .. n : \A a \in A : F[<<k, a>>] \in A
FoldBy(g, n, A, base, F) ==
  /\ g \in [SUBSET (1 .. n) -> A] /\ g[{}] = base
  /\ \A t \in SUBSET (1 .. n) : t # {} =>
       Max(t) \in 1 .. n /\ g[t \ {Max(t)}] \in A /\ g[t] = F[<<Max(t), g[t \ {Max(t)}]>>]

LEMMA FoldExists ==
  ASSUME NEW n, NEW A, NEW base, NEW F, FoldStep(n, A, base, F)
  PROVE  \E g : FoldBy(g, n, A, base, F)
<1> n \in Nat
  BY DEF FoldStep
<1>1. IsFiniteSet(1 .. n)
  BY FS_Interval
<1>2. \A t \in SUBSET (1 .. n) : t # {} => Taken(n)[t] = Max(t) /\ Max(t) \in t
  BY TakenIn
<1>3. Recursion(1 .. n, A, base, Taken(n), F)
  BY <1>1, <1>2 DEF Recursion, FoldStep
<1>4. PICK g : Solution(g, 1 .. n, A, base, Taken(n), F)
  BY <1>3, RecursionOnSubsets
<1>5. QED BY <1>2, <1>4 DEF Solution, FoldBy

\* Induction on how much of a sequence has been taken.
LEMMA UpTo ==
  ASSUME NEW n \in Nat, NEW S, 0 \in S, \A k \in 1 .. n : k - 1 \in S => k \in S
  PROVE  \A k \in 0 .. n : k \in S
<1> DEFINE N == {k \in Nat : k <= n => k \in S}
<1>1. 0 \in N
  OBVIOUS
<1>2. ASSUME NEW k \in Nat, k \in N PROVE k + 1 \in N
  <2>1. ASSUME k + 1 <= n PROVE k + 1 \in S
    <3>1. k + 1 \in 1 .. n /\ (k + 1) - 1 = k /\ k <= n
      BY <2>1
    <3>2. k \in S
      BY <1>2, <3>1
    <3>3. QED BY <3>1, <3>2
  <2>2. QED BY <2>1
<1>3. Nat \subseteq N
  <2> HIDE DEF N
  <2>1. QED BY <1>1, <1>2, NatSetInduction
<1>4. QED BY <1>3
=============================================================================
