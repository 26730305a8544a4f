--------------------------- MODULE RecursionLemmas --------------------------
(***************************************************************************)
(* Induction and recursion without operators as parameters: a property is  *)
(* a set, and what a recursive function does at a turn is a function. What *)
(* is proved from it: that the recursive functions of the models exist and *)
(* unfold as they are written, and what the folds add up.                  *)
(***************************************************************************)
EXTENDS Integers, FiniteSets, FiniteSetTheorems, WellFoundedInduction, TLAPS

\* Every set of naturals has a least member.
LEMMA LeastMember ==
  ASSUME NEW T, T \subseteq Nat, T # {}
  PROVE  \E n \in T : \A m \in T : n <= m
<1>1. PICK n \in T : \A m \in T : <<m, n>> \notin OpToRel(<, Nat)
  BY NatLessThanWellFounded, WFMin
<1>2. \A m \in T : ~(m < n)
  BY <1>1 DEF OpToRel
<1> QED BY <1>2

\* What holds of zero and of every successor holds of all naturals.
LEMMA NaturalInduction ==
  ASSUME NEW T, 0 \in T, \A n \in Nat : n \in T => n + 1 \in T
  PROVE  Nat \subseteq T
<1> SUFFICES ASSUME Nat \ T # {} PROVE FALSE
  OBVIOUS
<1>1. PICK n \in Nat \ T : \A m \in Nat \ T : n <= m
  <2>1. Nat \ T \subseteq Nat
    OBVIOUS
  <2> QED BY <2>1, LeastMember
<1>2. n # 0
  BY <1>1
<1>3. n - 1 \in Nat /\ n - 1 \in T
  BY <1>1, <1>2
<1> QED BY <1>1, <1>2, <1>3

\* f is defined by recursion: from f[prev[s]], and directly at the rank zero.
Recurses(f, S, rank, prev, base, step) ==
  \A s \in S : f[s] = IF rank[s] = 0 THEN base[s] ELSE step[<<s, f[prev[s]]>>]

LEMMA RecursiveFunction ==
  ASSUME NEW S, NEW V, NEW rank \in [S -> Nat], NEW prev \in [S -> S],
         NEW base \in [S -> V], NEW step \in [S \X V -> V],
         \A s \in S : rank[s] > 0 => rank[prev[s]] < rank[s]
  PROVE  \E f \in [S -> V] : Recurses(f, S, rank, prev, base, step)
<1> DEFINE Holds(f, s) ==
             f[s] = IF rank[s] = 0 THEN base[s] ELSE step[<<s, f[prev[s]]>>]
           Upto(f, n) == \A s \in S : rank[s] <= n => Holds(f, s)
           T == {n \in Nat : \E f \in [S -> V] : Upto(f, n)}
           Part(n) == CHOOSE f \in [S -> V] : Upto(f, n)
           whole == [s \in S |-> Part(rank[s])[s]]
<1>1. 0 \in T
  <2>1. Upto(base, 0)
    OBVIOUS
  <2> QED BY <2>1
<1>2. ASSUME NEW n \in Nat, n \in T PROVE n + 1 \in T
  <2>1. PICK f \in [S -> V] : Upto(f, n)
    BY <1>2
  <2> DEFINE g == [s \in S |-> IF rank[s] = n + 1 THEN step[<<s, f[prev[s]]>>]
                                                  ELSE f[s]]
  <2>2. g \in [S -> V]
    OBVIOUS
  <2>3. ASSUME NEW s \in S, rank[s] <= n + 1 PROVE Holds(g, s)
    <3>1. CASE rank[s] = 0
      BY <2>1, <3>1
    <3>2. CASE rank[s] > 0
      <4>1. prev[s] \in S /\ rank[prev[s]] <= n /\ g[prev[s]] = f[prev[s]]
        BY <2>3, <3>2
      <4>2. CASE rank[s] = n + 1
        BY <4>1, <4>2
      <4>3. CASE rank[s] <= n
        BY <2>1, <3>2, <4>1, <4>3
      <4> QED BY <2>3, <4>2, <4>3
    <3> QED BY <2>3, <3>1, <3>2
  <2>4. Upto(g, n + 1)
    BY <2>3
  <2> HIDE DEF Upto, g
  <2> QED BY <2>2, <2>4
<1>3. \A n \in Nat : n \in T
  <2> HIDE DEF T
  <2> QED BY <1>1, <1>2, NaturalInduction
<1>4. ASSUME NEW n \in Nat PROVE Part(n) \in [S -> V] /\ Upto(Part(n), n)
  <2>1. \E f \in [S -> V] : Upto(f, n)
    BY <1>3
  <2> HIDE DEF Upto
  <2> QED BY <2>1
<1> HIDE DEF Part
\* two parts agree as far as both go
<1>5. ASSUME NEW f \in [S -> V], NEW g \in [S -> V], NEW n \in Nat, Upto(f, n), Upto(g, n)
      PROVE  \A s \in S : rank[s] <= n => f[s] = g[s]
  <2> DEFINE A == {k \in Nat : \A s \in S : rank[s] <= n /\ rank[s] <= k => f[s] = g[s]}
  <2>1. 0 \in A
    <3> SUFFICES ASSUME NEW s \in S, rank[s] <= n, rank[s] <= 0 PROVE f[s] = g[s]
      OBVIOUS
    <3>1. rank[s] = 0
      OBVIOUS
    <3> QED BY <1>5, <3>1
  <2>2. ASSUME NEW k \in Nat, k \in A PROVE k + 1 \in A
    <3> SUFFICES ASSUME NEW s \in S, rank[s] <= n, rank[s] = k + 1 PROVE f[s] = g[s]
      BY <2>2
    <3>1. prev[s] \in S /\ rank[prev[s]] <= k /\ rank[prev[s]] <= n
      OBVIOUS
    <3>2. f[prev[s]] = g[prev[s]]
      BY <2>2, <3>1
    <3>3. Holds(f, s) /\ Holds(g, s)
      BY <1>5
    <3>4. rank[s] # 0
      OBVIOUS
    <3> HIDE DEF Upto
    <3> QED BY <3>2, <3>3, <3>4
  <2>3. n \in A
    <3> HIDE DEF A
    <3> QED BY <2>1, <2>2, NaturalInduction
  <2> QED BY <2>3
<1>6. ASSUME NEW s \in S PROVE Holds(whole, s)
  <2> DEFINE n == rank[s]
             p == prev[s]
  <2>1. n \in Nat /\ p \in S /\ rank[p] \in Nat
    OBVIOUS
  <2>2. Part(n) \in [S -> V] /\ Upto(Part(n), n) /\ whole[s] = Part(n)[s]
    BY <1>4, <2>1
  <2>0. Holds(Part(n), s)
    BY <2>1, <2>2
  <2> HIDE DEF Upto
  <2>3. CASE n = 0
    BY <2>0, <2>2, <2>3
  <2>4. CASE n > 0
    <3>1. rank[p] < n
      BY <2>4
    <3>2. Part(rank[p]) \in [S -> V] /\ Upto(Part(rank[p]), rank[p])
      BY <1>4, <2>1
    <3>3. Upto(Part(n), rank[p])
      BY <2>1, <2>2, <3>1 DEF Upto
    <3>4. Part(rank[p])[p] = Part(n)[p]
      <4> HIDE DEF Upto
      <4> QED BY <1>5, <2>1, <2>2, <3>2, <3>3
    <3>5. whole[p] = Part(n)[p]
      BY <2>1, <3>4
    <3>6. Part(n)[s] = step[<<s, Part(n)[p]>>]
      BY <2>0, <2>4
    <3> HIDE DEF whole
    <3> QED BY <2>2, <2>4, <3>5, <3>6
  <2> QED BY <2>1, <2>3, <2>4
<1>7. whole \in [S -> V]
  BY <1>4
<1>8. Recurses(whole, S, rank, prev, base, step)
  BY <1>6 DEF Recurses
<1> HIDE DEF whole
<1> QED BY <1>7, <1>8

-----------------------------------------------------------------------------
(***************************************************************************)
(* Sums.  MapThenFoldSet takes the elements of a finite set in some order. *)
(***************************************************************************)
\* One turn of it: pick[s] is the element of s that is taken first.
SumTurn(f, D, pick, iter) ==
  [s \in SUBSET D |->
     IF s = {} THEN 0 ELSE f[pick[s]] + iter[s \ {pick[s]}]]

\* The sum of f over every subset of D.
IsSum(iter, f, D) ==
  /\ iter \in [SUBSET D -> Int]
  /\ iter[{}] = 0
  /\ \A s \in SUBSET D : \A x \in s : iter[s] = f[x] + iter[s \ {x}]

LEMMA SubsetSizes ==
  ASSUME NEW D, IsFiniteSet(D), NEW s \in SUBSET D
  PROVE  /\ IsFiniteSet(s) /\ Cardinality(s) \in Nat
         /\ Cardinality(s) = 0 <=> s = {}
         /\ \A x \in s : s \ {x} \in SUBSET D /\ Cardinality(s \ {x}) = Cardinality(s) - 1
<1>1. IsFiniteSet(s)
  BY FS_Subset
<1>2. Cardinality(s) \in Nat /\ (Cardinality(s) = 0 <=> s = {})
  BY <1>1, FS_CardinalityType, FS_EmptySet
<1>3. ASSUME NEW x \in s PROVE Cardinality(s \ {x}) = Cardinality(s) - 1
  BY <1>1, FS_RemoveElement
<1> QED BY <1>1, <1>2, <1>3

LEMMA SumTurnHasFixpoint ==
  ASSUME NEW D, IsFiniteSet(D), NEW f \in [D -> Int], NEW pick,
         \A s \in SUBSET D : s # {} => pick[s] \in s
  PROVE  \E iter \in [SUBSET D -> Int] : iter = SumTurn(f, D, pick, iter)
<1> DEFINE S == SUBSET D
           rank == [s \in S |-> Cardinality(s)]
           prev == [s \in S |-> s \ {pick[s]}]
           base == [s \in S |-> 0]
           step == [sv \in S \X Int |-> IF sv[1] = {} THEN 0 ELSE f[pick[sv[1]]] + sv[2]]
<1>0. \A s \in S : s # {} => f[pick[s]] \in Int
  OBVIOUS
<1>1. rank \in [S -> Nat] /\ \A s \in S : rank[s] = 0 <=> s = {}
  BY SubsetSizes
<1>2. prev \in [S -> S] /\ base \in [S -> Int]
  OBVIOUS
<1>3. step \in [S \X Int -> Int]
  BY <1>0
<1>4. \A s \in S : rank[s] > 0 => rank[prev[s]] < rank[s]
  <2> SUFFICES ASSUME NEW s \in S, rank[s] > 0 PROVE rank[prev[s]] < rank[s]
    OBVIOUS
  <2>0. s # {}
    <3> HIDE DEF rank
    <3> QED BY <1>1
  <2>1. pick[s] \in s
    BY <2>0
  <2>2. Cardinality(s \ {pick[s]}) = Cardinality(s) - 1 /\ Cardinality(s) \in Nat
    BY <2>1, SubsetSizes
  <2>3. prev[s] = s \ {pick[s]} /\ prev[s] \in S
    OBVIOUS
  <2>4. rank[prev[s]] = Cardinality(prev[s]) /\ rank[s] = Cardinality(s)
    BY <2>3
  <2> HIDE DEF rank, prev
  <2> QED BY <2>2, <2>3, <2>4
<1>5. PICK iter \in [S -> Int] : \A s \in S :
         iter[s] = IF rank[s] = 0 THEN base[s] ELSE step[<<s, iter[prev[s]]>>]
  <2> DEFINE V == Int
  <2>1. rank \in [S -> Nat]
    BY <1>1
  <2>2. prev \in [S -> S]
    BY <1>2
  <2>3. base \in [S -> V]
    BY <1>2
  <2>4. step \in [S \X V -> V]
    BY <1>3
  <2> HIDE DEF S, rank, prev, base, step, V
  <2>5. \E iter \in [S -> V] : Recurses(iter, S, rank, prev, base, step)
    BY ONLY <2>1, <2>2, <2>3, <2>4, <1>4, RecursiveFunction
  <2> QED BY <2>5 DEF V, Recurses
<1>6. ASSUME NEW s \in S
      PROVE  iter[s] = IF s = {} THEN 0 ELSE f[pick[s]] + iter[s \ {pick[s]}]
  <2>1. CASE s = {}
    BY <1>1, <1>5, <2>1
  <2>2. CASE s # {}
    <3>1. iter[s] = step[<<s, iter[prev[s]]>>]
      BY <1>1, <1>5, <2>2
    <3>2. prev[s] = s \ {pick[s]} /\ iter[prev[s]] \in Int
      OBVIOUS
    <3>3. step[<<s, iter[prev[s]]>>] = f[pick[s]] + iter[prev[s]]
      BY <2>2, <3>2
    <3> QED BY <2>2, <3>1, <3>2, <3>3
  <2> QED BY <2>1, <2>2
<1>7. iter = SumTurn(f, D, pick, iter)
  BY <1>6 DEF SumTurn
<1> QED BY <1>7

\* In whatever order they are taken.
LEMMA FixpointIsSum ==
  ASSUME NEW D, IsFiniteSet(D), NEW f \in [D -> Int], NEW pick, NEW iter,
         \A s \in SUBSET D : s # {} => pick[s] \in s,
         iter = SumTurn(f, D, pick, iter)
  PROVE  IsSum(iter, f, D)
<1>0. \A s \in SUBSET D : iter[s] = IF s = {} THEN 0 ELSE f[pick[s]] + iter[s \ {pick[s]}]
  BY DEF SumTurn
<1>d. DOMAIN iter = SUBSET D /\ iter = [s \in SUBSET D |-> iter[s]]
  BY DEF SumTurn
<1> DEFINE P(s) == iter[s] \in Int /\ \A x \in s : iter[s] = f[x] + iter[s \ {x}]
           T == {n \in Nat : \A s \in SUBSET D : Cardinality(s) <= n => P(s)}
<1>1. 0 \in T
  <2> SUFFICES ASSUME NEW s \in SUBSET D, Cardinality(s) <= 0 PROVE P(s)
    OBVIOUS
  <2>1. s = {}
    <3>1. Cardinality(s) \in Nat /\ (Cardinality(s) = 0 <=> s = {})
      BY SubsetSizes
    <3> QED BY <3>1
  <2>2. iter[s] = 0
    BY <1>0, <2>1
  <2> QED BY <2>1, <2>2
<1>2. ASSUME NEW n \in Nat, n \in T PROVE n + 1 \in T
  <2> SUFFICES ASSUME NEW s \in SUBSET D, Cardinality(s) <= n + 1 PROVE P(s)
    OBVIOUS
  <2>1. CASE s = {}
    BY <1>0, <2>1
  <2>2. CASE s # {}
    <3> DEFINE c == pick[s]
    <3>1. c \in s /\ iter[s] = f[c] + iter[s \ {c}]
      BY <1>0, <2>2
    <3>2. ASSUME NEW x \in s PROVE s \ {x} \in SUBSET D /\ P(s \ {x})
      <4>1. Cardinality(s \ {x}) <= n /\ s \ {x} \in SUBSET D
        BY SubsetSizes
      <4> QED BY <1>2, <4>1
    <3> HIDE DEF c
    <3>3. ASSUME NEW x \in s, x # c PROVE iter[s] = f[x] + iter[s \ {x}]
      <4>1. iter[s \ {c}] = f[x] + iter[(s \ {c}) \ {x}]
        BY <3>1, <3>2, <3>3
      <4>2. iter[s \ {x}] = f[c] + iter[(s \ {x}) \ {c}]
        BY <3>1, <3>2, <3>3
      <4>3. (s \ {c}) \ {x} = (s \ {x}) \ {c}
        OBVIOUS
      <4>4. f[x] \in Int /\ f[c] \in Int
        BY <3>1
      <4>5. iter[(s \ {x}) \ {c}] \in Int
        <5>1. Cardinality((s \ {x}) \ {c}) <= n /\ (s \ {x}) \ {c} \in SUBSET D
          <6>1. s \ {x} \in SUBSET D /\ c \in s \ {x}
            BY <3>1, <3>3
          <6>2. Cardinality(s \ {x}) = Cardinality(s) - 1 /\ Cardinality(s) \in Nat
            BY SubsetSizes
          <6>3. Cardinality((s \ {x}) \ {c}) = Cardinality(s \ {x}) - 1
            BY <6>1, SubsetSizes
          <6> QED BY <6>1, <6>2, <6>3
        <5> QED BY <1>2, <5>1
      <4> DEFINE d == iter[(s \ {x}) \ {c}]
                 u == f[x]
                 v == f[c]
      <4>6. iter[s] = v + (u + d) /\ iter[s \ {x}] = v + d
        BY <3>1, <4>1, <4>2, <4>3
      <4> HIDE DEF d, u, v
      <4>7. v + (u + d) = u + (v + d)
        BY <4>4, <4>5 DEF d, u, v
      <4> QED BY <4>6, <4>7 DEF u
    <3>4. iter[s] \in Int
      <4>1. iter[s \ {c}] \in Int /\ f[c] \in Int
        BY <3>1, <3>2
      <4> HIDE DEF T
      <4> QED BY <3>1, <4>1
    <3> QED BY <3>1, <3>3, <3>4
  <2> QED BY <2>1, <2>2
<1>3. ASSUME NEW s \in SUBSET D PROVE P(s)
  <2>1. Cardinality(s) \in Nat
    BY SubsetSizes
  <2>2. Cardinality(s) \in T
    <3> HIDE DEF T
    <3> QED BY <1>1, <1>2, <2>1, NaturalInduction
  <2> QED BY <2>1, <2>2
<1>4. iter \in [SUBSET D -> Int] /\ iter[{}] = 0
  BY <1>0, <1>d, <1>3
<1> QED BY <1>3, <1>4 DEF IsSum

\* Where two functions agree, their sums do.
LEMMA SumsAgree ==
  ASSUME NEW D, NEW E, IsFiniteSet(D), NEW f, NEW g, NEW i, NEW j,
         IsSum(i, f, D), IsSum(j, g, E),
         NEW s \in SUBSET D, s \in SUBSET E, \A x \in s : f[x] = g[x]
  PROVE  i[s] = j[s]
<1> DEFINE T == {n \in Nat : \A r \in SUBSET s : Cardinality(r) <= n => i[r] = j[r]}
<1>0. IsFiniteSet(s) /\ Cardinality(s) \in Nat
  BY SubsetSizes
<1>1. 0 \in T
  <2> SUFFICES ASSUME NEW r \in SUBSET s, Cardinality(r) <= 0 PROVE i[r] = j[r]
    OBVIOUS
  <2>1. r = {}
    BY <1>0, SubsetSizes
  <2> QED BY <2>1 DEF IsSum
<1>2. ASSUME NEW n \in Nat, n \in T PROVE n + 1 \in T
  <2> SUFFICES ASSUME NEW r \in SUBSET s, Cardinality(r) <= n + 1 PROVE i[r] = j[r]
    OBVIOUS
  <2>1. CASE r = {}
    BY <2>1 DEF IsSum
  <2>2. CASE r # {}
    <3>1. PICK x \in r : TRUE
      BY <2>2
    <3>2. Cardinality(r \ {x}) <= n /\ r \ {x} \in SUBSET s
      BY <1>0, SubsetSizes
    <3>3. i[r \ {x}] = j[r \ {x}]
      BY <1>2, <3>2
    <3>4. i[r] = f[x] + i[r \ {x}] /\ j[r] = g[x] + j[r \ {x}]
      BY DEF IsSum
    <3> QED BY <3>3, <3>4
  <2> QED BY <2>1, <2>2
<1>3. Cardinality(s) \in T
  <2> HIDE DEF T
  <2> QED BY <1>0, <1>1, <1>2, NaturalInduction
<1> QED BY <1>0, <1>3

\* The sum a fold computes, with the order in which it takes the elements.
FoldedSum(f, D, pick) == (CHOOSE iter : iter = SumTurn(f, D, pick, iter))[D]

LEMMA FoldedSumIsSum ==
  ASSUME NEW D, IsFiniteSet(D), NEW f \in [D -> Int], NEW pick,
         \A s \in SUBSET D : s # {} => pick[s] \in s
  PROVE  \E iter : IsSum(iter, f, D) /\ FoldedSum(f, D, pick) = iter[D]
<1> DEFINE iter == CHOOSE iter : iter = SumTurn(f, D, pick, iter)
<1>1. iter = SumTurn(f, D, pick, iter)
  BY SumTurnHasFixpoint
<1>2. FoldedSum(f, D, pick) = iter[D]
  BY DEF FoldedSum
<1> HIDE DEF iter
<1>3. IsSum(iter, f, D)
  BY <1>1, FixpointIsSum
<1> QED BY <1>2, <1>3

LEMMA SumOfZeros ==
  ASSUME NEW D, IsFiniteSet(D), NEW pick,
         \A s \in SUBSET D : s # {} => pick[s] \in s
  PROVE  FoldedSum([x \in D |-> 0], D, pick) = 0
<1> DEFINE f == [x \in D |-> 0]
           zero == [s \in SUBSET D |-> 0]
<1>1. f \in [D -> Int]
  OBVIOUS
<1>2. PICK iter : IsSum(iter, f, D) /\ FoldedSum(f, D, pick) = iter[D]
  <2> HIDE DEF f
  <2> QED BY <1>1, FoldedSumIsSum
<1>3. IsSum(zero, f, D)
  BY DEF IsSum
<1>4. zero[D] = 0
  OBVIOUS
<1> HIDE DEF f, zero
<1>5. iter[D] = zero[D]
  BY <1>2, <1>3, SumsAgree
<1> QED BY <1>2, <1>4, <1>5 DEF f

\* Changing one of the numbers changes the sum by as much.
LEMMA SumUpdate ==
  ASSUME NEW D, IsFiniteSet(D), NEW pick,
         \A s \in SUBSET D : s # {} => pick[s] \in s,
         NEW f \in [D -> Int], NEW g \in [D -> Int], NEW x \in D,
         \A y \in D : y # x => g[y] = f[y]
  PROVE  /\ FoldedSum(f, D, pick) \in Int
         /\ FoldedSum(g, D, pick) = FoldedSum(f, D, pick) + g[x] - f[x]
<1>1. PICK i : IsSum(i, f, D) /\ FoldedSum(f, D, pick) = i[D]
  BY FoldedSumIsSum
<1>2. PICK j : IsSum(j, g, D) /\ FoldedSum(g, D, pick) = j[D]
  BY FoldedSumIsSum
<1>3. i[D \ {x}] = j[D \ {x}]
  <2>1. D \ {x} \in SUBSET D /\ \A y \in D \ {x} : f[y] = g[y]
    OBVIOUS
  <2> QED BY <1>1, <1>2, <2>1, SumsAgree
<1>4. i[D] = f[x] + i[D \ {x}] /\ j[D] = g[x] + j[D \ {x}]
  BY <1>1, <1>2 DEF IsSum
<1>5. f[x] \in Int /\ g[x] \in Int /\ i[D \ {x}] \in Int
  BY <1>1 DEF IsSum
<1> QED BY <1>1, <1>2, <1>3, <1>4, <1>5

\* A sum of naturals is one, and not less than any of them.
LEMMA SumOfNaturals ==
  ASSUME NEW D, IsFiniteSet(D), NEW pick,
         \A s \in SUBSET D : s # {} => pick[s] \in s,
         NEW f \in [D -> Nat]
  PROVE  /\ FoldedSum(f, D, pick) \in Nat
         /\ \A x \in D : f[x] <= FoldedSum(f, D, pick)
<1>1. PICK i : IsSum(i, f, D) /\ FoldedSum(f, D, pick) = i[D]
  <2>1. f \in [D -> Int]
    OBVIOUS
  <2> QED BY <2>1, FoldedSumIsSum
<1> DEFINE T == {n \in Nat : \A s \in SUBSET D : Cardinality(s) <= n => i[s] \in Nat}
<1>2. 0 \in T
  <2> SUFFICES ASSUME NEW s \in SUBSET D, Cardinality(s) <= 0 PROVE i[s] \in Nat
    OBVIOUS
  <2>1. Cardinality(s) \in Nat /\ (Cardinality(s) = 0 <=> s = {})
    BY SubsetSizes
  <2>2. s = {}
    BY <2>1
  <2>3. i[{}] = 0
    BY <1>1 DEF IsSum
  <2> QED BY <2>2, <2>3
<1>3. ASSUME NEW n \in Nat, n \in T PROVE n + 1 \in T
  <2> SUFFICES ASSUME NEW s \in SUBSET D, Cardinality(s) <= n + 1 PROVE i[s] \in Nat
    OBVIOUS
  <2>1. CASE s = {}
    BY <1>1, <2>1 DEF IsSum
  <2>2. CASE s # {}
    <3>1. PICK x \in s : TRUE
      BY <2>2
    <3>2. Cardinality(s \ {x}) <= n /\ s \ {x} \in SUBSET D
      BY SubsetSizes
    <3>3. i[s \ {x}] \in Nat /\ f[x] \in Nat
      BY <1>3, <3>2
    <3>4. i[s] = f[x] + i[s \ {x}]
      BY <1>1 DEF IsSum
    <3> HIDE DEF T
    <3> QED BY <3>3, <3>4
  <2> QED BY <2>1, <2>2
<1>4. ASSUME NEW s \in SUBSET D PROVE i[s] \in Nat
  <2>1. Cardinality(s) \in Nat
    BY SubsetSizes
  <2>2. Cardinality(s) \in T
    <3> HIDE DEF T
    <3> QED BY <1>2, <1>3, <2>1, NaturalInduction
  <2> QED BY <2>1, <2>2
<1>5. ASSUME NEW x \in D PROVE f[x] <= i[D]
  <2>1. i[D] = f[x] + i[D \ {x}]
    BY <1>1 DEF IsSum
  <2>2. i[D \ {x}] \in Nat /\ f[x] \in Nat
    BY <1>4
  <2> HIDE DEF T
  <2> QED BY <2>1, <2>2
<1> QED BY <1>1, <1>4, <1>5

=============================================================================
