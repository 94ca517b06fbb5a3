------------------------ MODULE StoryAndQueryProofs ------------------------
(***************************************************************************)
(* Theorems about story jobs (StoryJob) and queries (QueryService), for    *)
(* any photos, similarities, hits, scores, limits and dates.               *)
(***************************************************************************)
EXTENDS StoryJob, QueryService, Lemmas

-----------------------------------------------------------------------------
(* First parts of sequences.                                               *)

\* The first n of a sequence.
LEMMA FirstIs ==
    ASSUME NEW S, NEW seq \in Seq(S), NEW n \in Nat
    PROVE  /\ First(seq, n) \in Seq(S)
           /\ Len(First(seq, n)) = IF n <= Len(seq) THEN n ELSE Len(seq)
           /\ \A k \in 1 .. Len(First(seq, n)) : First(seq, n)[k] = seq[k]
  <1>1. Len(seq) \in Nat
    OBVIOUS
  <1>2. Min({n, Len(seq)}) = IF n <= Len(seq) THEN n ELSE Len(seq)
    BY <1>1, MinIs
  <1> DEFINE m == IF n <= Len(seq) THEN n ELSE Len(seq)
  <1>3. m \in 0 .. Len(seq) /\ First(seq, n) = SubSeq(seq, 1, m)
    <2>1. m \in 0 .. Len(seq)
      BY <1>1
    <2>2. Min({n, Len(seq)}) = m
      BY <1>2
    <2> HIDE DEF m
    <2> QED
      BY <2>1, <2>2 DEF First
  <1>4. \A i \in 1 .. m : seq[i] \in S
    BY <1>1, <1>3
  <1> HIDE DEF m
  <1>5. /\ First(seq, n) \in Seq(S)
        /\ Len(First(seq, n)) = IF 1 <= m THEN m - 1 + 1 ELSE 0
        /\ \A i \in 1 .. m - 1 + 1 : First(seq, n)[i] = seq[1 + i - 1]
    BY <1>1, <1>3, <1>4, SubSeqProperties
  <1>6. Len(First(seq, n)) = m
    BY <1>1, <1>3, <1>5
  <1>7. ASSUME NEW k \in 1 .. m PROVE First(seq, n)[k] = seq[k]
    BY <1>1, <1>3, <1>5
  <1> QED
    BY <1>5, <1>6, <1>7 DEF m

-----------------------------------------------------------------------------
(* Sums.                                                                   *)

\* The sums over the subsets of the domain of a function.
Sums(sum, f) ==
    /\ sum[{}] = 0 /\ SumFunction(f) = sum[DOMAIN f]
    /\ \A s \in SUBSET DOMAIN f :
          s # {} => sum[s] = f[PickOf(s)] + sum[s \ {PickOf(s)}]

\* A sum over a finite set adds the elements up one after the other.
LEMMA SumIs ==
    ASSUME NEW S, IsFiniteSet(S), NEW f \in [S -> Int]
    PROVE  \E sum \in [SUBSET S -> Int] : Sums(sum, f)
  <1> DEFINE pick == [s \in SUBSET S |-> PickOf(s)]
  <1> DEFINE step == [ax \in Int \X S |-> f[ax[2]] + ax[1]]
  <1> DEFINE Eq(g) == g = [s \in SUBSET DOMAIN f |->
                             IF s = {} THEN 0 ELSE f[PickOf(s)] + g[s \ {PickOf(s)}]]
  <1>1. SumFunction(f) = (CHOOSE g : Eq(g))[DOMAIN f]
    BY DEF SumFunction, SumFunctionOnSet, FoldFunctionOnSet, MapThenFoldSet, PickOf
  <1>2. \A s \in SUBSET S : s # {} => PickOf(s) \in s /\ PickOf(s) \in S
    BY PickOfIs
  <1>3. step \in [Int \X S -> Int]
    OBVIOUS
  <1>4. \A a \in Int, x \in S : step[<<a, x>>] = f[x] + a
    OBVIOUS
  <1>5. \A s \in SUBSET S : pick[s] = PickOf(s)
    OBVIOUS
  <1> HIDE DEF pick, step
  <1>6. PICK fold \in [SUBSET S -> Int] : Recurses(fold, SUBSET S, 0, pick, step)
    <2>1. \A s \in SUBSET S : s # {} => pick[s] \in s
      BY <1>2, <1>5
    <2>2. 0 \in Int
      OBVIOUS
    <2> QED
      BY <1>3, <2>1, <2>2, FoldExists
  <1>7. \A s \in SUBSET S : fold[s] = IF s = {} THEN 0 ELSE f[PickOf(s)] + fold[s \ {PickOf(s)}]
    <2> TAKE s \in SUBSET S
    <2>1. fold[s] = IF s = {} THEN 0 ELSE step[<<fold[s \ {PickOf(s)}], PickOf(s)>>]
      BY <1>5, <1>6 DEF Recurses
    <2>2. s # {} => PickOf(s) \in S /\ fold[s \ {PickOf(s)}] \in Int
      BY <1>2, <1>6
    <2> QED
      BY <1>4, <2>1, <2>2
  <1>8. DOMAIN f = S
    OBVIOUS
  <1>9. Eq(fold)
    BY <1>7, <1>8
  <1> DEFINE iter == CHOOSE g : Eq(g)
  <1>10. Eq(iter)
    <2> HIDE DEF Eq
    <2> QED
      BY <1>9
  <1>11. SumFunction(f) = iter[S]
    BY <1>1, <1>8
  <1> HIDE DEF iter
  <1>12. \A s \in SUBSET S : iter[s] = IF s = {} THEN 0 ELSE f[PickOf(s)] + iter[s \ {PickOf(s)}]
    <2> TAKE s \in SUBSET S
    <2> DEFINE val(g, t) == IF t = {} THEN 0 ELSE f[PickOf(t)] + g[t \ {PickOf(t)}]
    <2>1. iter = [t \in SUBSET S |-> val(iter, t)]
      BY <1>8, <1>10
    <2> HIDE DEF val
    <2>2. iter[s] = val(iter, s)
      BY <2>1
    <2> QED
      BY <2>2 DEF val
  <1> DEFINE Good == {s \in SUBSET S : iter[s] = fold[s]}
  <1>13. {} \in Good
    BY <1>7, <1>12
  <1>14. \A s \in SUBSET S : s # {} /\ s \ {PickOf(s)} \in Good => s \in Good
    BY <1>7, <1>12
  <1>15. S \in Good
    <2> HIDE DEF Good
    <2> QED
      BY <1>13, <1>14, OverSubsets
  <1>16. SumFunction(f) = fold[S]
    BY <1>11, <1>15
  <1> QED
    BY <1>7, <1>8, <1>16 DEF Sums

\* Sums of integers are integers.
LEMMA SumInt ==
    ASSUME NEW S, IsFiniteSet(S), NEW f \in [S -> Int]
    PROVE  SumFunction(f) \in Int
  <1>1. PICK sum \in [SUBSET S -> Int] : Sums(sum, f)
    BY SumIs
  <1> QED
    BY <1>1 DEF Sums

\* A multiple of a function, and another one.
Combines(S, h, a, f, g) ==
    /\ IsFiniteSet(S) /\ a \in Int
    /\ f \in [S -> Int] /\ g \in [S -> Int] /\ h \in [S -> Int]
    /\ \A x \in S : h[x] = a * f[x] + g[x]

\* Sums are linear.
LEMMA SumLinear ==
    ASSUME NEW S, NEW h, NEW a, NEW f, NEW g, Combines(S, h, a, f, g)
    PROVE  SumFunction(h) = a * SumFunction(f) + SumFunction(g)
  <1>0. /\ IsFiniteSet(S) /\ a \in Int
        /\ f \in [S -> Int] /\ g \in [S -> Int] /\ h \in [S -> Int]
        /\ \A x \in S : h[x] = a * f[x] + g[x]
    BY DEF Combines
  <1>1. PICK F \in [SUBSET S -> Int] : Sums(F, f)
    BY <1>0, SumIs
  <1>2. PICK G \in [SUBSET S -> Int] : Sums(G, g)
    BY <1>0, SumIs
  <1>3. PICK H \in [SUBSET S -> Int] : Sums(H, h)
    BY <1>0, SumIs
  <1> DEFINE Good == {s \in SUBSET S : H[s] = a * F[s] + G[s]}
  <1>4. {} \in Good
    <2>1. F[{}] = 0 /\ G[{}] = 0 /\ H[{}] = 0
      BY <1>1, <1>2, <1>3 DEF Sums
    <2>2. a * 0 = 0
      BY <1>0
    <2> QED
      BY <2>1, <2>2
  <1>5. ASSUME NEW s \in SUBSET S, s # {}, s \ {PickOf(s)} \in Good
        PROVE  s \in Good
    <2> DEFINE x == PickOf(s)
               t == s \ {PickOf(s)}
    <2>1. x \in S /\ t \in SUBSET S
      BY <1>5, PickOfIs
    <2>2. F[s] = f[x] + F[t] /\ G[s] = g[x] + G[t] /\ H[s] = h[x] + H[t]
      BY <1>0, <1>1, <1>2, <1>3, <1>5 DEF Sums
    <2>3. H[t] = a * F[t] + G[t] /\ h[x] = a * f[x] + g[x]
      BY <1>0, <1>5, <2>1
    <2>4. F[t] \in Int /\ G[t] \in Int /\ f[x] \in Int /\ g[x] \in Int
      BY <1>0, <2>1
    <2> HIDE DEF x, t
    <2>5. a * (f[x] + F[t]) = a * f[x] + a * F[t]
      BY <1>0, <2>4
    <2>6. a * f[x] \in Int /\ a * F[t] \in Int
      BY <1>0, <2>4
    <2>7. H[s] = a * F[s] + G[s]
      BY <1>0, <2>2, <2>3, <2>4, <2>5, <2>6
    <2> QED
      BY <2>7
  <1>6. S \in Good
    <2> HIDE DEF Good
    <2> QED
      BY <1>0, <1>4, <1>5, OverSubsets
  <1>7. DOMAIN f = S /\ DOMAIN g = S /\ DOMAIN h = S
    BY <1>0
  <1> QED
    BY <1>1, <1>2, <1>3, <1>6, <1>7 DEF Sums

\* A sum of two functions.
AddsUp(S, h, f, g) ==
    /\ IsFiniteSet(S)
    /\ f \in [S -> Int] /\ g \in [S -> Int] /\ h \in [S -> Int]
    /\ \A x \in S : h[x] = f[x] + g[x]

\* The sum of two functions has the sum of their sums.
LEMMA SumPlus ==
    ASSUME NEW S, NEW h, NEW f, NEW g, AddsUp(S, h, f, g)
    PROVE  SumFunction(h) = SumFunction(f) + SumFunction(g)
  <1> DEFINE a == 1
  <1>1. Combines(S, h, a, f, g)
    BY DEF Combines, AddsUp
  <1>2. SumFunction(f) \in Int
    BY SumInt DEF AddsUp
  <1> HIDE DEF a
  <1>3. SumFunction(h) = a * SumFunction(f) + SumFunction(g)
    BY <1>1, SumLinear
  <1> QED
    BY <1>2, <1>3 DEF a

\* Sums are monotone.
LEMMA SumMonotone ==
    ASSUME NEW S, IsFiniteSet(S), NEW f \in [S -> Int], NEW g \in [S -> Int],
           \A x \in S : f[x] <= g[x]
    PROVE  SumFunction(f) <= SumFunction(g)
  <1>1. PICK F \in [SUBSET S -> Int] : Sums(F, f)
    BY SumIs
  <1>2. PICK G \in [SUBSET S -> Int] : Sums(G, g)
    BY SumIs
  <1> DEFINE Good == {s \in SUBSET S : F[s] <= G[s]}
  <1>3. {} \in Good
    BY <1>1, <1>2 DEF Sums
  <1>4. ASSUME NEW s \in SUBSET S, s # {}, s \ {PickOf(s)} \in Good
        PROVE  s \in Good
    <2> DEFINE x == PickOf(s)
               t == s \ {PickOf(s)}
    <2>1. x \in S /\ t \in SUBSET S
      BY <1>4, PickOfIs
    <2>2. F[s] = f[x] + F[t] /\ G[s] = g[x] + G[t]
      BY <1>1, <1>2, <1>4 DEF Sums
    <2>3. F[t] <= G[t] /\ f[x] <= g[x]
      BY <1>4, <2>1
    <2>4. F[t] \in Int /\ G[t] \in Int /\ f[x] \in Int /\ g[x] \in Int
      BY <2>1
    <2> HIDE DEF x, t
    <2>5. F[s] <= G[s]
      BY <2>2, <2>3, <2>4
    <2> QED
      BY <2>5
  <1>5. S \in Good
    <2> HIDE DEF Good
    <2> QED
      BY <1>3, <1>4, OverSubsets
  <1>6. DOMAIN f = S /\ DOMAIN g = S
    OBVIOUS
  <1> QED
    BY <1>1, <1>2, <1>5, <1>6 DEF Sums

\* The sizes of disjoint sets sum up to the size of their union.
LEMMA SumOfSizes ==
    ASSUME NEW S, IsFiniteSet(S), NEW A, \A k \in S : IsFiniteSet(A[k]),
           \A k, m \in S : k # m => A[k] \cap A[m] = {}
    PROVE  /\ IsFiniteSet(UNION {A[k] : k \in S})
           /\ SumFunction([k \in S |-> Cardinality(A[k])]) = Cardinality(UNION {A[k] : k \in S})
  <1> DEFINE f == [k \in S |-> Cardinality(A[k])]
  <1> DEFINE All(s) == UNION {A[k] : k \in s}
  <1>0. \A k \in S : Cardinality(A[k]) \in Nat
    BY FS_CardinalityType
  <1>1. f \in [S -> Int] /\ DOMAIN f = S
    BY <1>0
  <1>2. \A k \in S : f[k] = Cardinality(A[k])
    OBVIOUS
  <1> HIDE DEF f
  <1>3. PICK F \in [SUBSET S -> Int] : Sums(F, f)
    BY <1>1, SumIs
  <1> DEFINE Good == {s \in SUBSET S : IsFiniteSet(All(s)) /\ F[s] = Cardinality(All(s))}
  <1>4. {} \in Good
    <2>1. All({}) = {}
      OBVIOUS
    <2>2. F[{}] = 0
      BY <1>3 DEF Sums
    <2> QED
      BY <2>1, <2>2, FS_EmptySet
  <1>5. ASSUME NEW s \in SUBSET S, s # {}, s \ {PickOf(s)} \in Good
        PROVE  s \in Good
    <2> DEFINE x == PickOf(s)
               t == s \ {PickOf(s)}
    <2>1. x \in S /\ t \in SUBSET S /\ x \in s /\ x \notin t
      BY <1>5, PickOfIs
    <2>2. F[s] = f[x] + F[t]
      BY <1>1, <1>3, <1>5 DEF Sums
    <2>3. IsFiniteSet(All(t)) /\ F[t] = Cardinality(All(t))
      BY <1>5
    <2>4. s = t \cup {x}
      BY <2>1
    <2> HIDE DEF x, t
    <2>5. All(s) = All(t) \cup A[x]
      BY <2>4
    <2>6. All(t) \cap A[x] = {}
      BY <2>1
    <2> HIDE DEF All
    <2>7. /\ IsFiniteSet(All(t) \cup A[x])
          /\ Cardinality(All(t) \cup A[x]) =
               Cardinality(All(t)) + Cardinality(A[x]) - Cardinality(All(t) \cap A[x])
      BY <2>1, <2>3, FS_Union
    <2>8. Cardinality(All(t) \cap A[x]) = 0
      BY <2>6, FS_EmptySet
    <2>9. Cardinality(All(t)) \in Nat /\ Cardinality(A[x]) \in Nat
      BY <1>0, <2>1, <2>3, FS_CardinalityType
    <2>10. Cardinality(All(s)) = F[s] /\ IsFiniteSet(All(s))
      BY <1>2, <2>1, <2>2, <2>3, <2>5, <2>7, <2>8, <2>9
    <2> QED
      BY <2>10
  <1>6. S \in Good
    <2> HIDE DEF Good
    <2> QED
      BY <1>4, <1>5, OverSubsets
  <1>7. SumFunction(f) = F[S]
    BY <1>1, <1>3 DEF Sums
  <1> QED
    BY <1>6, <1>7 DEF f

\* How many of a set are in another one.
LEMMA SumOfMembers ==
    ASSUME NEW S, IsFiniteSet(S), NEW T \in SUBSET S
    PROVE  SumFunction([k \in S |-> IF k \in T THEN 1 ELSE 0]) = Cardinality(T)
  <1> DEFINE A == [k \in S |-> IF k \in T THEN {k} ELSE {}]
  <1> DEFINE sizes == [k \in S |-> Cardinality(A[k])]
  <1>1. \A k \in S : IsFiniteSet(A[k])
    BY FS_EmptySet, FS_Singleton
  <1>2. \A k, m \in S : k # m => A[k] \cap A[m] = {}
    OBVIOUS
  <1>3. UNION {A[k] : k \in S} = T
    <2>1. \A k \in S : A[k] = IF k \in T THEN {k} ELSE {}
      OBVIOUS
    <2> HIDE DEF A
    <2> QED
      BY <2>1
  <1>4. sizes = [k \in S |-> IF k \in T THEN 1 ELSE 0]
    <2>1. \A k \in S : Cardinality(A[k]) = IF k \in T THEN 1 ELSE 0
      BY FS_EmptySet, FS_Singleton
    <2> HIDE DEF A
    <2> QED
      BY <2>1
  <1>5. SumFunction(sizes) = Cardinality(UNION {A[k] : k \in S})
    <2> HIDE DEF A
    <2> QED
      BY <1>1, <1>2, SumOfSizes
  <1> QED
    BY <1>3, <1>4, <1>5

\* Sums of natural numbers are at least each of them.
LEMMA SumNat ==
    ASSUME NEW S, IsFiniteSet(S), NEW f \in [S -> Nat]
    PROVE  SumFunction(f) \in Nat /\ \A x \in S : f[x] <= SumFunction(f)
  <1> DEFINE zero == [k \in S |-> 0]
  <1>1. SumFunction(zero) = 0
    <2>1. zero = [k \in S |-> IF k \in {} THEN 1 ELSE 0]
      OBVIOUS
    <2>2. SumFunction([k \in S |-> IF k \in {} THEN 1 ELSE 0]) = Cardinality({})
      BY SumOfMembers
    <2> QED
      BY <2>1, <2>2, FS_EmptySet
  <1>2. f \in [S -> Int] /\ zero \in [S -> Int] /\ \A x \in S : zero[x] <= f[x]
    OBVIOUS
  <1>3. SumFunction(f) \in Int
    BY <1>2, SumInt
  <1>4. SumFunction(zero) <= SumFunction(f)
    <2> HIDE DEF zero
    <2> QED
      BY <1>2, SumMonotone
  <1>5. ASSUME NEW x \in S PROVE f[x] <= SumFunction(f)
    <2> DEFINE one == [k \in S |-> IF k \in {x} THEN 1 ELSE 0]
    <2> DEFINE only == [k \in S |-> IF k = x THEN f[x] ELSE 0]
    <2>1. SumFunction(one) = 1
      <3>1. SumFunction(one) = Cardinality({x})
        BY SumOfMembers
      <3> QED
        BY <3>1, FS_Singleton
    <2>2. one \in [S -> Int] /\ only \in [S -> Int] /\ f[x] \in Int
      BY <1>2
    <2>3. \A k \in S : only[k] = f[x] * one[k] + zero[k]
      <3> TAKE k \in S
      <3>1. CASE k = x
        <4>1. only[k] = f[x] /\ one[k] = 1 /\ zero[k] = 0
          BY <3>1
        <4> QED
          BY <2>2, <4>1
      <3>2. CASE k # x
        <4>1. only[k] = 0 /\ one[k] = 0 /\ zero[k] = 0
          BY <3>2
        <4> QED
          BY <2>2, <4>1
      <3> QED
        BY <3>1, <3>2
    <2>4. \A k \in S : only[k] <= f[k]
      BY <1>2
    <2> HIDE DEF one, only, zero
    <2>5. SumFunction(only) = f[x] * SumFunction(one) + SumFunction(zero)
      <3> DEFINE a == f[x]
      <3>1. Combines(S, only, a, one, zero)
        BY <1>2, <2>2, <2>3 DEF Combines
      <3> HIDE DEF a
      <3>2. SumFunction(only) = a * SumFunction(one) + SumFunction(zero)
        BY <3>1, SumLinear
      <3> QED
        BY <3>2 DEF a
    <2>6. SumFunction(only) <= SumFunction(f)
      BY <1>2, <2>2, <2>4, SumMonotone
    <2> QED
      BY <1>1, <2>1, <2>2, <2>5, <2>6
  <1> QED
    BY <1>1, <1>3, <1>4, <1>5

\* A sum of a few natural numbers, times a natural number.
LEMMA TimesMonotone ==
    ASSUME NEW a \in Int, NEW b \in Int, NEW c \in Nat, a <= b
    PROVE  a * c <= b * c
  OBVIOUS

\* Division with remainder.
LEMMA DivMod ==
    ASSUME NEW a \in Nat, NEW b \in Nat \ {0}
    PROVE  /\ a \div b \in Nat /\ a % b \in Nat
           /\ a = b * (a \div b) + (a % b) /\ a % b < b
  <1>1. b \in Nat /\ b > 0
    OBVIOUS
  <1>2. a = b * (a \div b) + (a % b)
    BY <1>1, Z3
  <1>3. a \div b \in Int /\ a \div b >= 0
    OBVIOUS
  <1>4. a % b \in 0 .. b - 1
    OBVIOUS
  <1> DEFINE q == a \div b
             m == a % b
  <1>5. q \in Int /\ q >= 0 /\ m \in 0 .. b - 1 /\ a = b * q + m
    BY <1>2, <1>3, <1>4
  <1> HIDE DEF q, m
  <1>6. q \in Nat /\ m \in Nat /\ a = b * q + m /\ m < b
    BY <1>1, <1>5
  <1> QED
    BY <1>6 DEF q, m

\* The n + 1 ranks below a number are those of as many elements.
LEMMA FirstRanks ==
    ASSUME NEW S, IsFiniteSet(S), NEW R, OrdersStrictly(R, S),
           NEW rest \in 0 .. Cardinality(S)
    PROVE  Cardinality({p \in S : Cardinality(Below(S, R, p)) < rest}) = rest
  <1> DEFINE B == {p \in S : Cardinality(Below(S, R, p)) < rest}
  <1> DEFINE rank == [p \in B |-> Cardinality(Below(S, R, p))]
  <1>1. Cardinality(S) \in Nat /\ rest \in Nat /\ rest <= Cardinality(S)
    BY FS_CardinalityType
  <1>2. \A p \in S : Cardinality(Below(S, R, p)) \in 0 .. Cardinality(S) - 1
    BY Ranks
  <1>3. rank \in [B -> 0 .. rest - 1]
    BY <1>1, <1>2
  <1>4. ASSUME NEW p \in B, NEW q \in B, p # q PROVE rank[p] # rank[q]
    <2>1. <<p, q>> \in R \/ <<q, p>> \in R
      BY <1>4 DEF OrdersStrictly
    <2>2. rank[p] < rank[q] \/ rank[q] < rank[p]
      BY <2>1, Ranks
    <2>3. rank[p] \in Int /\ rank[q] \in Int
      BY <1>3
    <2> HIDE DEF rank
    <2> QED
      BY <2>2, <2>3
  <1>5. ASSUME NEW k \in 0 .. rest - 1 PROVE \E p \in B : rank[p] = k
    <2>1. k \in 0 .. Cardinality(S) - 1 /\ k < rest
      BY <1>1
    <2>2. PICK p \in S : Cardinality(Below(S, R, p)) = k
      BY <2>1, Ranks
    <2> QED
      BY <2>1, <2>2
  <1>6. ExistsBijection(B, 0 .. rest - 1)
    <2> HIDE DEF rank, B
    <2>1. rank \in Bijection(B, 0 .. rest - 1)
      BY <1>3, <1>4, <1>5 DEF Bijection, Injection, Surjection, IsInjective
    <2> QED
      BY <2>1 DEF ExistsBijection
  <1>7. IsFiniteSet(B)
    BY FS_Subset
  <1>8. Cardinality(0 .. rest - 1) = rest
    <2>1. 0 \in Int /\ rest - 1 \in Int
      BY <1>1
    <2>2. Cardinality(0 .. rest - 1) = IF 0 > rest - 1 THEN 0 ELSE rest - 1 - 0 + 1
      BY <2>1, FS_Interval
    <2> QED
      BY <1>1, <2>2
  <1>9. Cardinality(B) = Cardinality(0 .. rest - 1)
    <2> HIDE DEF B, rank
    <2> QED
      BY <1>6, <1>7, FS_Bijection
  <1> QED
    BY <1>8, <1>9

-----------------------------------------------------------------------------
(* Stories: what is filtered.                                              *)

\* Photos that may be retained together.
MayRetain(place) ==
    {R \in SUBSET (place \cap request.sharp) : \A p, q \in R : {p, q} \in request.close => p = q}

\* The filter of a place retains sharp photos of it, no two with close hashes.
LEMMA FilterRetains ==
    ASSUME NEW place, NEW seq \in Seq(place), NEW base \in MayRetain(place)
    PROVE  FoldLeft(Retain, base, seq) \in MayRetain(place)
  <1> DEFINE Acc == MayRetain(place)
  <1> DEFINE step == [ap \in Acc \X place |-> Retain(ap[1], ap[2])]
  <1> DEFINE Eq(f) == f = [s \in SUBSET DOMAIN seq |-> IF s = {} THEN base
                                               ELSE Retain(f[s \ {Max(s)}], seq[Max(s)])]
  <1>1. FoldLeft(Retain, base, seq) = (CHOOSE f : Eq(f))[DOMAIN seq]
    BY DEF FoldLeft, MapThenFoldSet
  <1>2. \A R \in Acc, p \in place : Retain(R, p) \in Acc
    <2> TAKE R \in Acc, p \in place
    <2>1. CASE p \notin request.sharp \/ \E q \in R : {p, q} \in request.close
      BY <2>1 DEF Retain
    <2>2. CASE p \in request.sharp /\ \A q \in R : {p, q} \notin request.close
      <3>1. Retain(R, p) = R \cup {p}
        BY <2>2 DEF Retain
      <3>2. R \cup {p} \in SUBSET (place \cap request.sharp)
        BY <2>2 DEF MayRetain
      <3>3. ASSUME NEW x \in R \cup {p}, NEW y \in R \cup {p}, {x, y} \in request.close
            PROVE  x = y
        <4>1. CASE x \in R /\ y \in R
          BY <3>3, <4>1 DEF MayRetain
        <4>2. CASE x \in R /\ y = p
          <5>1. {x, y} = {p, x}
            BY <4>2
          <5> QED
            BY <2>2, <3>3, <4>2, <5>1
        <4>3. CASE x = p /\ y \in R
          BY <2>2, <3>3, <4>3
        <4> QED
          BY <4>1, <4>2, <4>3
      <3> QED
        BY <3>1, <3>2, <3>3 DEF MayRetain
    <2> QED
      BY <2>1, <2>2
  <1>3. step \in [Acc \X place -> Acc]
    BY <1>2
  <1>4. \A R \in Acc, p \in place : step[<<R, p>>] = Retain(R, p)
    OBVIOUS
  <1>5. \A i \in DOMAIN seq : seq[i] \in place
    OBVIOUS
  <1> HIDE DEF Acc, step
  <1>6. base \in Acc
    BY DEF Acc
  <1>17. PICK fold \in [SUBSET DOMAIN seq -> Acc] : FoldsLeft(fold, seq, base, step)
    BY <1>3, <1>6, FoldLeftExists
  <1>7. \A s \in SUBSET DOMAIN seq :
            /\ s # {} => Max(s) \in s
            /\ fold[s] = IF s = {} THEN base ELSE step[<<fold[s \ {Max(s)}], seq[Max(s)]>>]
    BY <1>17 DEF FoldsLeft
  <1>8. Eq(fold)
    <2>1. \A s \in SUBSET DOMAIN seq : fold[s] = IF s = {} THEN base
                                        ELSE Retain(fold[s \ {Max(s)}], seq[Max(s)])
      <3> TAKE s \in SUBSET DOMAIN seq
      <3>1. s # {} => fold[s \ {Max(s)}] \in Acc /\ seq[Max(s)] \in place
        BY <1>5, <1>7
      <3> QED
        BY <1>4, <1>7, <3>1
    <2> QED
      BY <2>1
  <1> DEFINE iter == CHOOSE f : Eq(f)
  <1>9. Eq(iter)
    <2> HIDE DEF Eq
    <2> QED
      BY <1>8
  <1>10. FoldLeft(Retain, base, seq) = iter[DOMAIN seq]
    BY <1>1
  <1> HIDE DEF iter
  <1>11. \A s \in SUBSET DOMAIN seq : iter[s] = IF s = {} THEN base
                                       ELSE Retain(iter[s \ {Max(s)}], seq[Max(s)])
    <2> TAKE s \in SUBSET DOMAIN seq
    <2> DEFINE val(f, t) == IF t = {} THEN base ELSE Retain(f[t \ {Max(t)}], seq[Max(t)])
    <2>1. iter = [t \in SUBSET DOMAIN seq |-> val(iter, t)]
      BY <1>9
    <2> HIDE DEF val
    <2>2. iter[s] = val(iter, s)
      BY <2>1
    <2> QED
      BY <2>2 DEF val
  <1>12. FollowsIn(Acc, iter, seq, step)
    <2>1. ASSUME NEW s \in SUBSET DOMAIN seq, s # {}, iter[s \ {Max(s)}] \in Acc
          PROVE  iter[s] = step[<<iter[s \ {Max(s)}], seq[Max(s)]>>]
      <3>1. seq[Max(s)] \in place
        BY <1>5, <1>7, <2>1
      <3> QED
        BY <1>4, <1>11, <2>1, <3>1
    <2> QED
      BY <2>1 DEF FollowsIn
  <1>13. iter[{}] = base
    BY <1>11
  <1>14. PICK acc \in [0 .. Len(seq) -> Acc] : StepsLeft(acc, iter, seq, base, step)
    BY <1>3, <1>6, <1>12, <1>13, FoldLeftSteps
  <1>15. Len(seq) \in 0 .. Len(seq)
    <2>1. Len(seq) \in Nat
      OBVIOUS
    <2> QED
      BY <2>1
  <1>16. iter[DOMAIN seq] \in Acc
    BY <1>14, <1>15 DEF StepsLeft
  <1> QED
    BY <1>10, <1>16 DEF Acc

-----------------------------------------------------------------------------
(* Stories: the allocation.                                                *)

\* Arithmetic of the shares, for a place with `spare' photos beside its first:
\* `all' = `left' * `spare' is divided by `total'.
LEMMA ShareFits ==
    ASSUME NEW total \in Nat \ {0}, NEW left \in 0 .. total, NEW spare \in Nat,
           NEW share \in Nat, NEW rem \in Nat, rem < total,
           left * spare = total * share + rem
    PROVE  /\ share <= spare /\ (rem > 0 => share < spare)
           /\ share > 0 => (share - 1) * total < left * spare
           /\ rem > 0 => share * total < left * spare
           /\ (share + 1) * total > left * spare
  <1>1. left * spare <= total * spare
    OBVIOUS
  <1>2. /\ total * share \in Nat /\ left * spare \in Nat /\ total * spare \in Nat
        /\ share * total = total * share
    OBVIOUS
  <1>3. share <= spare
    <2>1. SUFFICES ASSUME share >= spare + 1 PROVE FALSE
      OBVIOUS
    <2>2. total * share >= total * (spare + 1)
      BY <2>1
    <2>3. total * (spare + 1) = total * spare + total
      OBVIOUS
    <2> QED
      BY <1>1, <1>2, <2>2, <2>3
  <1>4. rem > 0 => share < spare
    <2>1. SUFFICES ASSUME rem > 0, share = spare PROVE FALSE
      BY <1>3
    <2>2. total * share = total * spare
      BY <2>1
    <2> QED
      BY <1>1, <1>2, <2>1, <2>2
  <1>5. (share - 1) * total = total * share - total /\ (share + 1) * total = total * share + total
    OBVIOUS
  <1> QED
    BY <1>2, <1>3, <1>4, <1>5

\* What is left over goes to fewer elements than have a remainder.
LEMMA RestIsLess ==
    ASSUME NEW total \in Nat \ {0}, NEW rest \in Int, NEW rems \in Nat, NEW some \in Nat,
           rems = total * rest, rems <= (total - 1) * some
    PROVE  rest >= 0 /\ (rest > 0 => some > rest)
  <1>1. rest >= 0
    <2>1. SUFFICES ASSUME rest <= -1 PROVE FALSE
      OBVIOUS
    <2>2. total * rest <= total * (-1)
      BY <2>1
    <2> QED
      BY <2>2
  <1>2. ASSUME rest > 0, some <= rest PROVE FALSE
    <2>1. (total - 1) * some <= (total - 1) * rest
      BY <1>2
    <2>2. (total - 1) * rest = total * rest - rest
      OBVIOUS
    <2>3. total * rest \in Int /\ (total - 1) * some \in Int /\ (total - 1) * rest \in Int
      OBVIOUS
    <2> QED
      BY <1>2, <2>1, <2>2, <2>3
  <1> QED
    BY <1>1, <1>2

\* What the places get of a budget.
SharesOut(alloc, counts, budget) ==
    LET total == SumFunction(counts) - Len(counts)
        remaining == Min({budget, SumFunction(counts)}) - Len(counts)
    IN  /\ alloc \in [DOMAIN counts -> Nat \ {0}]
        /\ SumFunction(alloc) = Min({budget, SumFunction(counts)})
        /\ \A i \in DOMAIN counts :
             /\ alloc[i] <= counts[i]
             /\ alloc[i] > 1 => (alloc[i] - 2) * total < remaining * (counts[i] - 1)
             /\ counts[i] > 1 => alloc[i] * total > remaining * (counts[i] - 1)

\* The allocation hands the budget out in proportion, up to rounding.
LEMMA AllocationIs ==
    ASSUME NEW counts \in Seq(Nat \ {0}), NEW budget \in Nat, Len(counts) <= budget
    PROVE  SharesOut(Allocate(counts, budget), counts, budget)
  <1> DEFINE D == DOMAIN counts
             n == Len(counts)
             photos == SumFunction(counts)
             spare == [i \in D |-> counts[i] - 1]
             total == SumFunction(spare)
             remaining == Min({budget, total + n}) - n
             all == [i \in D |-> remaining * spare[i]]
             share == [i \in D |-> (remaining * spare[i]) \div total]
             rem == [i \in D |-> (remaining * spare[i]) % total]
             rest == remaining - SumFunction(share)
             R == {ij \in D \X D : \/ rem[ij[1]] > rem[ij[2]]
                                   \/ rem[ij[1]] = rem[ij[2]] /\ ij[1] < ij[2]}
             Bonus == {i \in D : Cardinality(Below(D, R, i)) < rest}
             bonus == [i \in D |-> IF i \in Bonus THEN 1 ELSE 0]
             one == [i \in D |-> IF i \in D THEN 1 ELSE 0]
             alloc == Allocate(counts, budget)
  <1>1. n \in Nat /\ D = 1 .. n /\ \A i \in D : i \in Int /\ counts[i] \in Nat \ {0}
    OBVIOUS
  <1>2. IsFiniteSet(D) /\ Cardinality(D) = n
    <2>1. 1 \in Int /\ n \in Int
      BY <1>1
    <2>2. IsFiniteSet(1 .. n) /\ Cardinality(1 .. n) = IF 1 > n THEN 0 ELSE n - 1 + 1
      BY <2>1, FS_Interval
    <2> QED
      BY <1>1, <2>2
  <1>3. counts \in [D -> Int] /\ spare \in [D -> Nat] /\ one \in [D -> Int]
    BY <1>1
  <1>4. SumFunction(one) = n
    <2>1. SumFunction(one) = Cardinality(D)
      BY <1>2, SumOfMembers
    <2> QED
      BY <1>2, <2>1
  <1>5. photos = total + n
    <2>2. spare \in [D -> Int]
      BY <1>3
    <2>1. AddsUp(D, counts, spare, one)
      BY <1>1, <1>2, <1>3, <2>2 DEF AddsUp
    <2> HIDE DEF D, spare, one, n
    <2>3. SumFunction(counts) = SumFunction(spare) + SumFunction(one)
      BY <2>1, SumPlus
    <2>4. SumFunction(spare) \in Int
      BY <1>2, <2>2, SumInt
    <2> QED
      BY <1>4, <2>3, <2>4
  <1>6. total \in Nat /\ \A i \in D : spare[i] <= total
    <2> HIDE DEF D, spare
    <2> QED
      BY <1>2, <1>3, SumNat
  <1>7. \A i \in D : spare[i] = counts[i] - 1
    OBVIOUS
  <1>8. remaining \in 0 .. total /\ Min({budget, photos}) = remaining + n
    <2> HIDE DEF total, n, photos
    <2>1. Min({budget, total + n}) = IF budget <= total + n THEN budget ELSE total + n
      BY <1>1, <1>6, MinIs
    <2>2. n <= budget
      BY DEF n
    <2> QED
      BY <1>1, <1>5, <1>6, <2>1, <2>2
  <1>9. photos - n = total /\ Min({budget, photos}) - n = remaining
    <2> HIDE DEF total, n, photos, remaining
    <2> QED
      BY <1>1, <1>5, <1>6, <1>8
  <1>10. SUFFICES /\ alloc \in [D -> Nat \ {0}]
                  /\ SumFunction(alloc) = remaining + n
                  /\ \A i \in D :
                       /\ alloc[i] <= counts[i]
                       /\ alloc[i] > 1 => (alloc[i] - 2) * total < remaining * (counts[i] - 1)
                       /\ counts[i] > 1 => alloc[i] * total > remaining * (counts[i] - 1)
    <2> HIDE DEF total, remaining, alloc
    <2> QED
      BY <1>8, <1>9 DEF SharesOut, alloc
  <1>11. alloc = [i \in D |-> IF remaining = 0 THEN 1 ELSE 1 + share[i] + bonus[i]]
    BY DEF Allocate, Below
  <1> HIDE DEF alloc
  <1>12. CASE remaining = 0
    <2>1. alloc = one
      BY <1>11, <1>12
    <2>2. \A i \in D : alloc[i] = 1
      BY <2>1
    <2>3. alloc \in [D -> Nat \ {0}]
      BY <2>1
    <2> HIDE DEF one, alloc, total, remaining, n, D
    <2>4. SumFunction(alloc) = remaining + n
      BY <1>1, <1>4, <1>12, <2>1
    <2>5. ASSUME NEW i \in D
          PROVE  /\ alloc[i] <= counts[i] /\ ~(alloc[i] > 1)
                 /\ counts[i] > 1 => alloc[i] * total > remaining * (counts[i] - 1)
      <3>1. alloc[i] = 1 /\ counts[i] \in Nat \ {0}
        BY <1>1, <2>2
      <3>2. counts[i] - 1 \in Nat /\ counts[i] - 1 <= total /\ total \in Nat
        BY <1>1, <1>6, <1>7
      <3>3. alloc[i] * total = total /\ remaining * (counts[i] - 1) = 0
        BY <1>12, <3>1, <3>2
      <3> QED
        BY <3>1, <3>2, <3>3
    <2> QED
      BY <2>3, <2>4, <2>5
  <1>13. CASE remaining # 0
    <2>1. total \in Nat \ {0} /\ remaining \in Nat
      <3> HIDE DEF total, remaining
      <3> QED
        BY <1>6, <1>8, <1>13
    <2>2. \A i \in D : /\ share[i] = (remaining * spare[i]) \div total
                       /\ rem[i] = (remaining * spare[i]) % total
                       /\ all[i] = remaining * spare[i]
      OBVIOUS
    <2>3. ASSUME NEW i \in D
          PROVE  /\ spare[i] \in Nat /\ share[i] \in Nat /\ rem[i] \in Nat /\ all[i] \in Nat
                 /\ rem[i] < total /\ all[i] = total * share[i] + rem[i]
      <3> HIDE DEF D, total, remaining, spare, share, rem, all
      <3>1. spare[i] \in Nat
        BY <1>3
      <3> DEFINE a == remaining * spare[i]
      <3>2. a \in Nat
        BY <2>1, <3>1
      <3>3. all[i] = a /\ share[i] = a \div total /\ rem[i] = a % total
        BY <2>2
      <3> HIDE DEF a
      <3> QED
        BY <2>1, <3>1, <3>2, <3>3, DivMod
    <2>4. all \in [D -> Int] /\ share \in [D -> Int] /\ rem \in [D -> Nat] /\ spare \in [D -> Int]
      <3>1. \A i \in D : all[i] \in Int /\ share[i] \in Int /\ rem[i] \in Nat
        BY <2>3
      <3>2. all = [i \in D |-> all[i]] /\ share = [i \in D |-> share[i]] /\ rem = [i \in D |-> rem[i]]
        OBVIOUS
      <3> HIDE DEF all, share, rem, spare, D
      <3> QED
        BY <1>3, <3>1, <3>2
    <2>5. SumFunction(rem) = total * rest /\ rest \in Int
      <3> HIDE DEF D, total, remaining, spare, share, rem, all
      <3>1. rem \in [D -> Int]
        BY <2>4
      <3>11. total \in Int /\ remaining \in Int
        BY <2>1
      <3>10. Combines(D, all, total, share, rem)
        BY <1>2, <2>3, <2>4, <3>1, <3>11 DEF Combines
      <3>2. SumFunction(all) = total * SumFunction(share) + SumFunction(rem)
        BY <3>10, SumLinear
      <3> DEFINE zero == [i \in D |-> IF i \in {} THEN 1 ELSE 0]
      <3>3. Combines(D, all, remaining, spare, zero)
        <4>1. zero \in [D -> Int] /\ \A i \in D : zero[i] = 0
          OBVIOUS
        <4> HIDE DEF zero
        <4> QED
          BY <1>2, <2>2, <2>3, <2>4, <3>11, <4>1 DEF Combines
      <3>4. SumFunction(zero) = 0
        <4>1. SumFunction(zero) = Cardinality({})
          BY <1>2, SumOfMembers
        <4> QED
          BY <4>1, FS_EmptySet
      <3> HIDE DEF zero
      <3>5. SumFunction(all) = remaining * SumFunction(spare) + SumFunction(zero)
        BY <3>3, SumLinear
      <3>6. SumFunction(share) \in Int /\ SumFunction(rem) \in Int
        BY <1>2, <2>4, <3>1, SumInt
      <3>7. SumFunction(all) = remaining * total
        <4>1. remaining * total \in Int /\ SumFunction(spare) = total
          BY <2>1 DEF total
        <4> QED
          BY <3>4, <3>5, <4>1
      <3>8. total * rest = total * remaining - total * SumFunction(share)
        <4> DEFINE shares == SumFunction(share)
        <4>1. rest = remaining - shares /\ shares \in Int
          BY <3>6
        <4> HIDE DEF rest, shares
        <4>2. total * (remaining - shares) = total * remaining - total * shares
          BY <2>1, <4>1
        <4> QED
          BY <4>1, <4>2 DEF shares
      <3>9. total * remaining = remaining * total
        BY <2>1
      <3> QED
        <4> DEFINE x == total * SumFunction(share)
                   y == total * rest
                   z == total * remaining
        <4>1. x \in Int /\ z \in Int /\ rest \in Int
          BY <2>1, <3>6
        <4>2. z = x + SumFunction(rem) /\ y = z - x
          BY <3>2, <3>7, <3>8, <3>9
        <4> HIDE DEF x, y, z, rest
        <4>3. SumFunction(rem) = y
          BY <3>6, <4>1, <4>2
        <4> QED
          BY <4>1, <4>3 DEF y
    <2> DEFINE P == {i \in D : rem[i] > 0}
    <2> DEFINE in == [i \in D |-> IF i \in P THEN 1 ELSE 0]
    <2>6. rest >= 0 /\ (rest > 0 => Cardinality(P) > rest) /\ Cardinality(P) <= n
          /\ Cardinality(P) \in Nat
      <3>1. Cardinality(P) <= n /\ Cardinality(P) \in Nat
        <4>1. P \subseteq D
          OBVIOUS
        <4> HIDE DEF P
        <4> QED
          BY <1>2, <4>1, FS_Subset, FS_CardinalityType
      <3>2. SumFunction(in) = Cardinality(P)
        <4>1. P \in SUBSET D
          OBVIOUS
        <4> HIDE DEF P, D
        <4> QED
          BY <1>2, <4>1, SumOfMembers
      <3> DEFINE bound == [i \in D |-> (total - 1) * in[i] + 0]
      <3> DEFINE zero == [i \in D |-> IF i \in {} THEN 1 ELSE 0]
      <3>3. \A i \in D : in[i] = IF rem[i] > 0 THEN 1 ELSE 0
        OBVIOUS
      <3>4. in \in [D -> Int] /\ zero \in [D -> Int] /\ \A i \in D : zero[i] = 0
        OBVIOUS
      <3>5. \A i \in D : bound[i] = (total - 1) * in[i] + 0
        OBVIOUS
      <3>6. bound = [i \in D |-> bound[i]]
        OBVIOUS
      <3>7. SumFunction(zero) = 0
        <4>1. SumFunction(zero) = Cardinality({})
          BY <1>2, SumOfMembers
        <4> QED
          BY <4>1, FS_EmptySet
      <3> HIDE DEF in, zero, bound, P, D, rem, total, n, rest, remaining
      <3>8. \A i \in D : bound[i] \in Int /\ rem[i] <= bound[i]
        <4> TAKE i \in D
        <4>1. rem[i] \in Nat /\ rem[i] < total /\ total \in Nat \ {0}
          BY <2>1, <2>3
        <4>2. CASE rem[i] > 0
          <5>1. bound[i] = total - 1
            BY <3>3, <3>5, <4>1, <4>2
          <5> QED
            BY <4>1, <5>1
        <4>3. CASE rem[i] = 0
          <5>1. bound[i] = 0
            BY <3>3, <3>5, <4>1, <4>3
          <5> QED
            BY <4>1, <4>3, <5>1
        <4> QED
          BY <4>1, <4>2, <4>3
      <3>9. bound \in [D -> Int]
        BY <3>6, <3>8
      <3> DEFINE less == total - 1
      <3>10. less \in Int
        BY <2>1
      <3>11. Combines(D, bound, less, in, zero)
        BY <1>2, <3>4, <3>5, <3>9, <3>10 DEF Combines
      <3> HIDE DEF less
      <3>12. SumFunction(bound) = less * SumFunction(in) + SumFunction(zero)
        BY <3>11, SumLinear
      <3>13. rem \in [D -> Int]
        BY <2>4
      <3>14. SumFunction(rem) <= SumFunction(bound)
        BY <1>2, <3>8, <3>9, <3>13, SumMonotone
      <3>15. SumFunction(rem) \in Nat
        BY <1>2, <2>4, SumNat
      <3>16. SumFunction(rem) <= (total - 1) * Cardinality(P)
        <4>1. less * Cardinality(P) \in Int
          BY <3>1, <3>10
        <4>2. SumFunction(rem) <= less * Cardinality(P)
          BY <3>2, <3>7, <3>12, <3>14, <4>1
        <4> QED
          BY <4>2 DEF less
      <3> QED
        BY <2>1, <2>5, <3>1, <3>15, <3>16, RestIsLess
    <2>7. OrdersStrictly(R, D)
      <3>1. \A i, j \in D : <<i, j>> \in R <=> rem[i] > rem[j] \/ (rem[i] = rem[j] /\ i < j)
        OBVIOUS
      <3>2. \A i \in D : rem[i] \in Nat /\ i \in Int
        BY <1>1, <2>3
      <3> HIDE DEF R, D, rem
      <3>3. \A i \in D : <<i, i>> \notin R
        BY <3>1, <3>2
      <3>4. \A i, j \in D : i # j => <<i, j>> \in R \/ <<j, i>> \in R
        BY <3>1, <3>2
      <3>5. ASSUME NEW i \in D, NEW j \in D, NEW k \in D, <<i, j>> \in R, <<j, k>> \in R
            PROVE  <<i, k>> \in R
        <4>1. /\ rem[i] > rem[j] \/ (rem[i] = rem[j] /\ i < j)
              /\ rem[j] > rem[k] \/ (rem[j] = rem[k] /\ j < k)
          BY <3>1, <3>5
        <4>2. rem[i] > rem[k] \/ (rem[i] = rem[k] /\ i < k)
          BY <3>2, <4>1
        <4> QED
          BY <3>1, <4>2
      <3> QED
        BY <3>3, <3>4, <3>5 DEF OrdersStrictly
    <2>8. Cardinality(Bonus) = rest
      <3> HIDE DEF rest, R, D, n
      <3>1. rest \in 0 .. Cardinality(D)
        BY <1>1, <1>2, <2>5, <2>6
      <3> QED
        BY <1>2, <2>7, <3>1, FirstRanks
    <2>9. \A i \in Bonus : rem[i] > 0
      <3> SUFFICES ASSUME NEW i \in Bonus, ~(rem[i] > 0) PROVE FALSE
        OBVIOUS
      <3>1. i \in D /\ Cardinality(Below(D, R, i)) < rest
        OBVIOUS
      <3>2. \A j \in P : <<j, i>> \in R
        <4>1. rem[i] \in Nat
          BY <2>3, <3>1
        <4>2. \A j \in P : j \in D /\ rem[j] > rem[i]
          BY <2>3, <4>1
        <4> HIDE DEF P, D, rem
        <4> QED
          BY <3>1, <4>2
      <3>3. P \subseteq Below(D, R, i)
        <4>1. P \subseteq D
          OBVIOUS
        <4> HIDE DEF P, D, R
        <4> QED
          BY <3>2, <4>1 DEF Below
      <3>4. Below(D, R, i) \subseteq D
        BY DEF Below
      <3> HIDE DEF P, D, R, rest
      <3>5. IsFiniteSet(Below(D, R, i)) /\ Cardinality(P) <= Cardinality(Below(D, R, i))
        BY <1>2, <3>3, <3>4, FS_Subset
      <3>6. Cardinality(Below(D, R, i)) \in Nat
        BY <3>5, FS_CardinalityType
      <3> QED
        BY <2>5, <2>6, <3>1, <3>5, <3>6
    <2>10. \A i \in D : bonus[i] = IF i \in Bonus THEN 1 ELSE 0
      OBVIOUS
    <2>11. bonus \in [D -> Int] /\ SumFunction(bonus) = rest
      <3>1. bonus \in [D -> Int]
        OBVIOUS
      <3>2. Bonus \in SUBSET D
        OBVIOUS
      <3> HIDE DEF Bonus, D, rest
      <3>3. SumFunction(bonus) = Cardinality(Bonus)
        BY <1>2, <3>2, SumOfMembers
      <3> QED
        BY <2>8, <3>1, <3>3
    <2>12. \A i \in D : alloc[i] = 1 + share[i] + bonus[i]
      BY <1>11, <1>13
    <2>13. alloc = [i \in D |-> alloc[i]]
      BY <1>11
    <2> HIDE DEF D, n, total, remaining, spare, share, rem, rest, all, R, Bonus, bonus, one, P, in
    <2>14. ASSUME NEW i \in D
           PROVE  /\ alloc[i] \in Nat \ {0} /\ alloc[i] <= counts[i]
                  /\ alloc[i] > 1 => (alloc[i] - 2) * total < remaining * (counts[i] - 1)
                  /\ counts[i] > 1 => alloc[i] * total > remaining * (counts[i] - 1)
      <3> DEFINE sp == spare[i]
                 sh == share[i]
                 re == rem[i]
                 times == remaining * sp
      <3>1. sp \in Nat /\ sh \in Nat /\ re \in Nat /\ re < total /\ times = total * sh + re
        BY <2>2, <2>3
      <3>2. counts[i] = sp + 1 /\ counts[i] - 1 = sp
        BY <1>1, <1>7
      <3>3. remaining \in 0 .. total /\ total \in Nat \ {0}
        BY <1>8, <2>1
      <3>4. bonus[i] \in {0, 1} /\ (bonus[i] = 1 => re > 0)
        BY <2>9, <2>10
      <3>5. alloc[i] = 1 + sh + bonus[i]
        BY <2>12
      <3> HIDE DEF sp, sh, re
      <3>6. /\ sh <= sp /\ (re > 0 => sh < sp)
            /\ sh > 0 => (sh - 1) * total < times
            /\ re > 0 => sh * total < times
            /\ (sh + 1) * total > times
        BY <3>1, <3>3, ShareFits
      <3>7. times \in Nat
        BY <3>1, <3>3
      <3> HIDE DEF times
      <3>8. alloc[i] \in Nat \ {0} /\ alloc[i] <= counts[i]
        BY <3>1, <3>2, <3>4, <3>5, <3>6
      <3>9. ASSUME alloc[i] > 1 PROVE (alloc[i] - 2) * total < times
        <4>1. CASE bonus[i] = 0
          <5>1. alloc[i] - 2 = sh - 1 /\ sh > 0
            BY <3>1, <3>5, <3>9, <4>1
          <5> QED
            BY <3>6, <5>1
        <4>2. CASE bonus[i] = 1
          <5>1. alloc[i] - 2 = sh
            BY <3>1, <3>5, <4>2
          <5> QED
            BY <3>4, <3>6, <4>2, <5>1
        <4> QED
          BY <3>4, <4>1, <4>2
      <3>10. alloc[i] * total > times
        <4>1. CASE bonus[i] = 0
          <5>1. alloc[i] = sh + 1
            BY <3>1, <3>5, <4>1
          <5> QED
            BY <3>6, <5>1
        <4>2. CASE bonus[i] = 1
          <5>1. alloc[i] = (sh + 1) + 1
            BY <3>1, <3>5, <4>2
          <5>2. alloc[i] * total = (sh + 1) * total + total /\ (sh + 1) * total \in Int
            BY <3>1, <3>3, <5>1
          <5> QED
            BY <3>3, <3>6, <3>7, <5>2
        <4> QED
          BY <3>4, <4>1, <4>2
      <3>11. remaining * (counts[i] - 1) = times
        BY <3>2 DEF times
      <3> QED
        BY <3>8, <3>9, <3>10, <3>11
    <2>15. alloc \in [D -> Nat \ {0}] /\ alloc \in [D -> Int]
      <3>1. \A i \in D : alloc[i] \in Nat \ {0} /\ alloc[i] \in Int
        BY <2>14
      <3> QED
        BY <2>13, <3>1
    <2>16. SumFunction(alloc) = remaining + n
      <3> DEFINE both == [i \in D |-> share[i] + bonus[i]]
      <3>1. \A i \in D : both[i] = share[i] + bonus[i]
        OBVIOUS
      <3>2. both \in [D -> Int]
        BY <2>4, <2>11
      <3> HIDE DEF both
      <3>3. \A i \in D : share[i] \in Int /\ bonus[i] \in Int
        BY <2>4, <2>11
      <3>4. \A i \in D : one[i] = 1
        BY DEF one
      <3>7. /\ IsFiniteSet(D) /\ share \in [D -> Int] /\ bonus \in [D -> Int]
            /\ one \in [D -> Int] /\ alloc \in [D -> Int]
        BY <1>2, <1>3, <2>4, <2>11, <2>15
      <3>5. AddsUp(D, both, share, bonus)
        BY <3>1, <3>2, <3>7 DEF AddsUp
      <3>6. AddsUp(D, alloc, one, both)
        BY <2>12, <3>1, <3>2, <3>3, <3>4, <3>7 DEF AddsUp
      <3>8. SumFunction(both) = SumFunction(share) + SumFunction(bonus)
        BY <3>5, SumPlus
      <3>9. SumFunction(alloc) = SumFunction(one) + SumFunction(both)
        BY <3>6, SumPlus
      <3>10. SumFunction(share) \in Int
        BY <3>7, SumInt
      <3>11. rest = remaining - SumFunction(share)
        BY DEF rest
      <3> QED
        BY <1>1, <1>4, <2>1, <2>5, <2>11, <3>8, <3>9, <3>10, <3>11
    <2> QED
      BY <2>14, <2>15, <2>16
  <1> QED
    BY <1>12, <1>13

-----------------------------------------------------------------------------
(* Stories: what is chosen of a place.                                     *)

\* Photos of a group that may be chosen together.
MayTake(groups, k, count) ==
    {C \in SUBSET groups[k] :
        /\ Cardinality(C) <= count
        /\ \A p, q \in C : p # q => ~TooSimilar(groups, p, q)}

\* What Choose does: scenes of their own, as many as there are up to count.
Chooses(C, groups, k, count) ==
    /\ C \in MayTake(groups, k, count) /\ C # {}
    /\ \A p \in groups[k] \ C : Cardinality(C) = count \/ \E q \in C : TooSimilar(groups, p, q)

\* Photos look like each other both ways.
LEMMA SimilarBothWays ==
    ASSUME IsStory(request), NEW groups, NEW p \in Photos, NEW q \in Photos
    PROVE  TooSimilar(groups, p, q) <=> TooSimilar(groups, q, p)
  <1>1. request.sim[p][q] = request.sim[q][p]
    BY DEF IsStory
  <1> QED
    BY <1>1 DEF TooSimilar

\* Photos by time.
LEMMA BeforeIsStrict ==
    ASSUME IsStory(request), NEW S \in SUBSET Photos
    PROVE  OrdersStrictly({pq \in S \X S : Before(pq[1], pq[2])}, S)
  <1> DEFINE R == {pq \in S \X S : Before(pq[1], pq[2])}
  <1>1. \A p \in S : request.taken[p] \in Int /\ p \in Int
    BY StoryAssumption DEF IsStory
  <1>2. \A p, q \in S : <<p, q>> \in R <=>
            (request.taken[p] < request.taken[q] \/ (request.taken[p] = request.taken[q] /\ p < q))
    BY DEF Before
  <1> HIDE DEF R
  <1>3. OrdersStrictly(R, S)
    BY <1>1, <1>2 DEF OrdersStrictly
  <1> QED
    BY <1>3 DEF R

\* InOrder is the photos by time, each once.
LEMMA InOrderIs ==
    ASSUME IsStory(request), NEW S \in SUBSET Photos, IsFiniteSet(S)
    PROVE  /\ InOrder(S) \in Seq(S) /\ Len(InOrder(S)) = Cardinality(S)
           /\ Range(InOrder(S)) = S
           /\ \A i, j \in DOMAIN InOrder(S) : i < j => Before(InOrder(S)[i], InOrder(S)[j])
  <1> DEFINE R == {pq \in S \X S : Before(pq[1], pq[2])}
             n == Cardinality(S)
             seq == SortedBy(S, R)
  <1>1. OrdersStrictly(R, S)
    BY BeforeIsStrict
  <1>2. seq = InOrder(S)
    BY DEF InOrder
  <1>3. \A p, q : <<p, q>> \in R => Before(p, q)
    OBVIOUS
  <1> HIDE DEF R
  <1>4. /\ seq \in Seq(S) /\ Len(seq) = n
        /\ \A p \in S : \E k \in 1 .. n : seq[k] = p
        /\ \A i, j \in 1 .. n : i < j => <<seq[i], seq[j]>> \in R
    BY <1>1, Sorted
  <1> HIDE DEF seq, n
  <1>5. DOMAIN seq = 1 .. n
    BY <1>4
  <1>6. Range(seq) = S
    <2>1. \A k \in DOMAIN seq : seq[k] \in S
      BY <1>4
    <2> QED
      BY <1>4, <1>5, <2>1 DEF Range
  <1> QED
    BY <1>2, <1>3, <1>4, <1>5, <1>6 DEF n

\* Scores are integers.
LEMMA ScoreIsInt ==
    ASSUME IsStory(request), NEW group \in SUBSET Photos, IsFiniteSet(group), NEW p \in group
    PROVE  Score(group, p) \in Int
  <1> DEFINE f == [q \in group |-> request.sim[p][q]]
  <1>1. f \in [group -> Int]
    BY DEF IsStory
  <1>2. SumFunction(f) \in Int
    <2> HIDE DEF f
    <2> QED
      BY <1>1, SumInt
  <1> QED
    BY <1>2 DEF Score

\* The order in which Choose takes the photos of a group.
ScoreOrderOf(group) ==
    {pq \in group \X group :
        \/ Score(group, pq[1]) > Score(group, pq[2])
        \/ Score(group, pq[1]) = Score(group, pq[2]) /\ Before(pq[1], pq[2])}

\* That order is strict and total.
LEMMA ScoresAreStrict ==
    ASSUME IsStory(request), NEW group \in SUBSET Photos, IsFiniteSet(group)
    PROVE  OrdersStrictly(ScoreOrderOf(group), group)
  <1> DEFINE R == ScoreOrderOf(group)
             score == [p \in group |-> Score(group, p)]
             taken == [p \in group |-> request.taken[p]]
  <1>1. \A p \in group : score[p] \in Int /\ taken[p] \in Int /\ p \in Int
    BY ScoreIsInt, StoryAssumption DEF IsStory
  <1>2. \A p, q \in group : <<p, q>> \in R <=>
            \/ score[p] > score[q]
            \/ score[p] = score[q] /\ (taken[p] < taken[q] \/ (taken[p] = taken[q] /\ p < q))
    BY DEF ScoreOrderOf, Before
  <1> HIDE DEF R, score, taken
  <1>3. \A p \in group : <<p, p>> \notin R
    BY <1>1, <1>2
  <1>4. \A p, q \in group : p # q => <<p, q>> \in R \/ <<q, p>> \in R
    BY <1>1, <1>2
  <1>5. ASSUME NEW p \in group, NEW q \in group, NEW r \in group, <<p, q>> \in R, <<q, r>> \in R
        PROVE  <<p, r>> \in R
    <2> DEFINE earlier(x, y) == taken[x] < taken[y] \/ (taken[x] = taken[y] /\ x < y)
    <2>1. /\ score[p] > score[q] \/ (score[p] = score[q] /\ earlier(p, q))
          /\ score[q] > score[r] \/ (score[q] = score[r] /\ earlier(q, r))
      BY <1>2, <1>5
    <2>2. score[p] > score[r] \/ (score[p] = score[r] /\ earlier(p, r))
      BY <1>1, <2>1
    <2> QED
      BY <1>2, <2>2
  <1>6. OrdersStrictly(R, group)
    BY <1>3, <1>4, <1>5 DEF OrdersStrictly
  <1> QED
    BY <1>6 DEF R

\* Choose goes through the group once: a photo that it passes over looks like
\* one that is chosen, unless the group has had its count.
LEMMA ChooseIs ==
    ASSUME IsStory(request), NEW groups, NEW k, groups[k] \in SUBSET Photos,
           IsFiniteSet(groups[k]), groups[k] # {}, NEW count \in Nat \ {0}
    PROVE  Chooses(Choose(groups, k, count), groups, k, count)
  <1> DEFINE group == groups[k]
             seq == SortedBy(group, ScoreOrderOf(group))
             take(C, p) == IF Cardinality(C) = count \/ \E q \in C : TooSimilar(groups, p, q)
                           THEN C ELSE C \cup {p}
             Acc == MayTake(groups, k, count)
             step == [ap \in Acc \X group |-> take(ap[1], ap[2])]
             Eq(f) == f = [s \in SUBSET DOMAIN seq |->
                             IF s = {} THEN {} ELSE take(f[s \ {Max(s)}], seq[Max(s)])]
             n == Len(seq)
  <1>1. Choose(groups, k, count) = (CHOOSE f : Eq(f))[DOMAIN seq]
    BY DEF Choose, FoldLeft, MapThenFoldSet, ScoreOrderOf
  <1>2. /\ seq \in Seq(group) /\ n = Cardinality(group)
        /\ \A p \in group : \E i \in 1 .. n : seq[i] = p
    <2>1. OrdersStrictly(ScoreOrderOf(group), group)
      BY ScoresAreStrict
    <2> QED
      BY <2>1, Sorted
  <1>3. n \in Nat \ {0}
    BY <1>2, FS_CardinalityType, FS_EmptySet
  <1>4. \A C \in Acc, p \in group : take(C, p) \in Acc
    <2> TAKE C \in Acc, p \in group
    <2>1. CASE Cardinality(C) = count \/ \E q \in C : TooSimilar(groups, p, q)
      BY <2>1
    <2>2. CASE ~(Cardinality(C) = count \/ \E q \in C : TooSimilar(groups, p, q))
      <3>1. take(C, p) = C \cup {p}
        BY <2>2
      <3>2. C \in SUBSET group /\ IsFiniteSet(C) /\ Cardinality(C) \in Nat /\ Cardinality(C) <= count
        BY FS_Subset, FS_CardinalityType DEF MayTake
      <3>3. Cardinality(C) < count
        BY <2>2, <3>2
      <3>4. Cardinality(C \cup {p}) <= count
        <4>1. CASE p \in C
          <5>1. C \cup {p} = C
            BY <4>1
          <5> QED
            BY <3>2, <5>1
        <4>2. CASE p \notin C
          <5>1. Cardinality(C \cup {p}) = Cardinality(C) + 1
            BY <3>2, <4>2, FS_AddElement
          <5> QED
            BY <3>2, <3>3, <5>1
        <4> QED
          BY <4>1, <4>2
      <3>5. ASSUME NEW x \in C \cup {p}, NEW y \in C \cup {p}, x # y
            PROVE  ~TooSimilar(groups, x, y)
        <4>1. CASE x \in C /\ y \in C
          BY <3>5, <4>1 DEF MayTake
        <4>2. CASE x = p /\ y \in C
          BY <2>2, <4>2
        <4>3. CASE x \in C /\ y = p
          <5>1. x \in Photos /\ p \in Photos /\ ~TooSimilar(groups, p, x)
            BY <2>2, <3>2, <4>3
          <5> QED
            BY <4>3, <5>1, SimilarBothWays
        <4> QED
          BY <3>5, <4>1, <4>2, <4>3
      <3>6. C \cup {p} \in SUBSET groups[k]
        BY <3>2
      <3> HIDE DEF take
      <3> QED
        BY <3>1, <3>4, <3>5, <3>6 DEF MayTake
    <2> QED
      BY <2>1, <2>2
  <1>5. step \in [Acc \X group -> Acc] /\ \A C \in Acc, p \in group : step[<<C, p>>] = take(C, p)
    <2> HIDE DEF take, Acc, group
    <2> QED
      BY <1>4
  <1>6. {} \in Acc
    BY FS_EmptySet DEF MayTake
  <1>7. \A i \in DOMAIN seq : seq[i] \in group
    BY <1>2
  <1> HIDE DEF seq, Acc, step, take, group
  <1>8. PICK fold \in [SUBSET DOMAIN seq -> Acc] : FoldsLeft(fold, seq, {}, step)
    BY <1>2, <1>5, <1>6, FoldLeftExists
  <1>9. \A s \in SUBSET DOMAIN seq :
            /\ s # {} => Max(s) \in s
            /\ fold[s] = IF s = {} THEN {} ELSE step[<<fold[s \ {Max(s)}], seq[Max(s)]>>]
    BY <1>8 DEF FoldsLeft
  <1>10. Eq(fold)
    <2>1. \A s \in SUBSET DOMAIN seq :
            fold[s] = IF s = {} THEN {} ELSE take(fold[s \ {Max(s)}], seq[Max(s)])
      <3> TAKE s \in SUBSET DOMAIN seq
      <3>1. s # {} => fold[s \ {Max(s)}] \in Acc /\ seq[Max(s)] \in group
        BY <1>7, <1>9
      <3> QED
        BY <1>5, <1>9, <3>1
    <2> QED
      BY <2>1
  <1> DEFINE iter == CHOOSE f : Eq(f)
  <1>11. Eq(iter)
    <2> HIDE DEF Eq
    <2> QED
      BY <1>10
  <1>12. Choose(groups, k, count) = iter[DOMAIN seq]
    BY <1>1
  <1> HIDE DEF iter
  <1>13. \A s \in SUBSET DOMAIN seq :
            iter[s] = IF s = {} THEN {} ELSE take(iter[s \ {Max(s)}], seq[Max(s)])
    <2> TAKE s \in SUBSET DOMAIN seq
    <2> DEFINE val(f, t) == IF t = {} THEN {} ELSE take(f[t \ {Max(t)}], seq[Max(t)])
    <2>1. iter = [t \in SUBSET DOMAIN seq |-> val(iter, t)]
      BY <1>11
    <2> HIDE DEF val
    <2>2. iter[s] = val(iter, s)
      BY <2>1
    <2> QED
      BY <2>2 DEF val
  <1>14. FollowsIn(Acc, iter, seq, step)
    <2>1. ASSUME NEW s \in SUBSET DOMAIN seq, s # {}, iter[s \ {Max(s)}] \in Acc
          PROVE  iter[s] = step[<<iter[s \ {Max(s)}], seq[Max(s)]>>]
      <3>1. seq[Max(s)] \in group
        BY <1>7, <1>9, <2>1
      <3> QED
        BY <1>5, <1>13, <2>1, <3>1
    <2> QED
      BY <2>1 DEF FollowsIn
  <1>15. iter[{}] = {}
    BY <1>13
  <1>16. PICK acc \in [0 .. n -> Acc] : StepsLeft(acc, iter, seq, {}, step)
    BY <1>2, <1>5, <1>6, <1>14, <1>15, FoldLeftSteps
  <1> HIDE DEF n
  <1>17. acc[n] = Choose(groups, k, count) /\ acc[n] \in Acc
    <2>1. n \in 0 .. n
      BY <1>3
    <2> QED
      BY <1>12, <1>16, <2>1 DEF StepsLeft, n
  <1>18. \A m \in 1 .. n : acc[m - 1] \in Acc /\ acc[m] = take(acc[m - 1], seq[m])
    <2> TAKE m \in 1 .. n
    <2>1. m - 1 \in 0 .. n /\ seq[m] \in group
      BY <1>2, <1>3 DEF n
    <2>2. acc[m] = step[<<acc[m - 1], seq[m]>>]
      BY <1>16 DEF StepsLeft, n
    <2> QED
      BY <1>5, <1>16, <2>1, <2>2
  <1> DEFINE Seen(m, i) == \/ seq[i] \in acc[m] \/ Cardinality(acc[m]) = count
                           \/ \E q \in acc[m] : TooSimilar(groups, seq[i], q)
             Holding == {m \in 0 .. n : \A i \in 1 .. m : Seen(m, i)}
  <1>19. n \in Holding
    <2>1. 0 \in Holding
      BY <1>3
    <2>2. ASSUME NEW m \in 1 .. n, m - 1 \in Holding PROVE m \in Holding
      <3>1. \A i \in 1 .. m - 1 : Seen(m - 1, i)
        BY <2>2
      <3>2. acc[m] = take(acc[m - 1], seq[m])
        BY <1>18
      <3> HIDE DEF Holding
      <3>3. ASSUME NEW i \in 1 .. m PROVE Seen(m, i)
        <4>1. CASE Cardinality(acc[m - 1]) = count
          BY <3>2, <4>1 DEF take
        <4>2. CASE Cardinality(acc[m - 1]) # count /\ i = m
          BY <3>2, <4>2 DEF take
        <4>3. CASE Cardinality(acc[m - 1]) # count /\ i # m
          <5>1. i \in 1 .. m - 1
            BY <4>3
          <5>2. acc[m - 1] \subseteq acc[m]
            BY <3>2 DEF take
          <5> QED
            BY <3>1, <4>3, <5>1, <5>2
        <4> QED
          BY <4>1, <4>2, <4>3
      <3>4. m \in 0 .. n
        BY <1>3
      <3> HIDE DEF Seen
      <3> QED
        BY <3>3, <3>4 DEF Holding
    <2> HIDE DEF Holding
    <2>3. \A m \in 1 .. n : m - 1 \in Holding => m \in Holding
      BY <2>2
    <2>4. \A m \in 0 .. n : m \in Holding
      BY <1>3, <2>1, <2>3, UpTo
    <2> QED
      BY <1>3, <2>4
  <1>20. \A i \in 1 .. n : Seen(n, i)
    BY <1>19
  <1>21. \A p \in group \ acc[n] : Cardinality(acc[n]) = count \/ \E q \in acc[n] : TooSimilar(groups, p, q)
    BY <1>2, <1>20 DEF n
  <1>22. acc[n] # {}
    <2>1. Seen(n, 1)
      BY <1>3, <1>20
    <2>2. Cardinality({}) = 0
      BY FS_EmptySet
    <2> QED
      BY <2>1, <2>2
  <1>23. acc[n] \in MayTake(groups, k, count)
    BY <1>17 DEF Acc
  <1> HIDE DEF Seen
  <1> QED
    BY <1>17, <1>21, <1>22, <1>23 DEF Chooses, group

-----------------------------------------------------------------------------
(* Stories: the selection.                                                 *)

\* What the filter leaves: some photos of each place that may be retained.
Ready(groups) ==
    /\ request.valid /\ Len(request.places) <= request.budget
    /\ groups \in [Places -> SUBSET Photos]
    /\ \A k \in Places : groups[k] # {} /\ groups[k] \in MayRetain(request.places[k])

\* A selection takes A[k] of each place, of the alloc[k] that it may take.
Selects(selected, A, alloc, groups) ==
    /\ SharesOut(alloc, [k \in Places |-> Cardinality(groups[k])], request.budget)
    /\ A \in [Places -> SUBSET Photos]
    /\ \A k \in Places : Chooses(A[k], groups, k, alloc[k])
    /\ selected \in Seq(Photos) /\ selected # <<>>
    /\ Range(selected) = UNION {A[k] : k \in Places}
    /\ Len(selected) = SumFunction([k \in Places |-> Cardinality(A[k])])

\* The places of a request.
LEMMA PlacesAre ==
    ASSUME IsStory(request)
    PROVE  /\ Len(request.places) \in Nat /\ Places = 1 .. Len(request.places)
           /\ IsFiniteSet(Places) /\ request.budget \in Nat
           /\ \A k \in Places : request.places[k] \in SUBSET Photos
  <1>1. request.places \in Seq(SUBSET Photos) /\ request.budget \in Nat
    BY DEF IsStory
  <1>2. Len(request.places) \in Nat /\ Places = 1 .. Len(request.places)
    BY <1>1 DEF Places
  <1>3. 1 \in Int /\ Len(request.places) \in Int
    BY <1>2
  <1>4. IsFiniteSet(Places)
    BY <1>2, <1>3, FS_Interval
  <1> QED
    BY <1>1, <1>2, <1>4 DEF Places

\* The photos of the places of a valid request are finitely many.
LEMMA ReadyIs ==
    ASSUME IsStory(request), NEW groups, Ready(groups)
    PROVE  /\ \A k \in Places : /\ IsFiniteSet(groups[k]) /\ groups[k] # {}
                                /\ groups[k] \in SUBSET request.places[k]
                                /\ groups[k] \in SUBSET Photos
           /\ \A k, m \in Places : k # m => request.places[k] \cap request.places[m] = {}
           /\ Len(request.places) # 0
  <1>1. \A k \in Places : groups[k] \in SUBSET request.places[k] /\ groups[k] # {}
    BY DEF Ready, MayRetain
  <1>2. \A k \in Places : IsFiniteSet(request.places[k])
    BY DEF Ready, IsStory, Places
  <1>3. \A k \in Places : IsFiniteSet(groups[k])
    BY <1>1, <1>2, FS_Subset
  <1>4. \A k, m \in Places : k # m => request.places[k] \cap request.places[m] = {}
    BY DEF Ready, IsStory, Places
  <1>5. request.places # <<>> /\ request.places \in Seq(SUBSET Photos)
    BY DEF Ready, IsStory
  <1>6. Len(request.places) # 0
    BY <1>5
  <1> QED
    BY <1>1, <1>3, <1>4, <1>6 DEF Ready

\* The selection chooses in each place as many as the allocation says, and
\* puts them together.
LEMMA SelectionIs ==
    ASSUME IsStory(request), NEW groups, Ready(groups)
    PROVE  \E A, alloc : Selects(Selection(groups, request.budget), A, alloc, groups)
  <1> DEFINE counts == [k \in Places |-> Cardinality(groups[k])]
             alloc == Allocate(counts, request.budget)
             A == [k \in Places |-> Choose(groups, k, alloc[k])]
             all == UNION {A[k] : k \in Places}
             n == Len(request.places)
  <1>1. n \in Nat /\ n # 0 /\ Places = 1 .. n /\ IsFiniteSet(Places) /\ request.budget \in Nat
    BY PlacesAre, ReadyIs
  <1>2. \A k \in Places : /\ IsFiniteSet(groups[k]) /\ groups[k] # {}
                          /\ groups[k] \in SUBSET request.places[k]
                          /\ groups[k] \in SUBSET Photos
    BY ReadyIs
  <1>3. \A k \in Places : Cardinality(groups[k]) \in Nat \ {0}
    BY <1>2, FS_CardinalityType, FS_EmptySet
  <1>4. counts \in Seq(Nat \ {0}) /\ Len(counts) = n /\ DOMAIN counts = Places
    <2> HIDE DEF n
    <2> QED
      BY <1>1, <1>3
  <1>5. SharesOut(alloc, counts, request.budget)
    <2> HIDE DEF counts
    <2> QED
      BY <1>1, <1>4, AllocationIs DEF Ready
  <1>6. \A k \in Places : alloc[k] \in Nat \ {0}
    <2> HIDE DEF counts, alloc
    <2> QED
      BY <1>4, <1>5 DEF SharesOut
  <1> HIDE DEF alloc
  <1>7. \A k \in Places : A[k] = Choose(groups, k, alloc[k])
    OBVIOUS
  <1> HIDE DEF A, n
  <1>8. \A k \in Places : Chooses(A[k], groups, k, alloc[k])
    BY <1>2, <1>6, <1>7, ChooseIs
  <1>9. \A k \in Places : A[k] \in SUBSET groups[k] /\ A[k] # {}
    BY <1>8 DEF Chooses, MayTake
  <1>10. A \in [Places -> SUBSET Photos]
    BY <1>2, <1>9 DEF A
  <1>11. \A k \in Places : IsFiniteSet(A[k])
    BY <1>2, <1>9, FS_Subset
  <1>12. \A k, m \in Places : k # m => A[k] \cap A[m] = {}
    <2>1. \A k, m \in Places : k # m => request.places[k] \cap request.places[m] = {}
      BY ReadyIs
    <2> QED
      BY <1>2, <1>9, <2>1
  <1>13. /\ IsFiniteSet(all)
         /\ SumFunction([k \in Places |-> Cardinality(A[k])]) = Cardinality(all)
    BY <1>1, <1>11, <1>12, SumOfSizes
  <1>14. all \in SUBSET Photos
    BY <1>10
  <1>15. Selection(groups, request.budget) = InOrder(all)
    <2>1. DOMAIN groups = Places
      BY DEF Ready
    <2>2. Selection(groups, request.budget) =
            InOrder(UNION {Choose(groups, k, alloc[k]) : k \in Places})
      BY <2>1 DEF Selection, alloc
    <2>3. {Choose(groups, k, alloc[k]) : k \in Places} = {A[k] : k \in Places}
      BY <1>7
    <2> QED
      BY <2>2, <2>3
  <1> DEFINE sel == InOrder(all)
  <1>16. all # {}
    <2>1. 1 \in Places
      BY <1>1
    <2>2. PICK p : p \in A[1]
      BY <1>9, <2>1
    <2>3. p \in all
      BY <2>1, <2>2
    <2> QED
      BY <2>3
  <1> HIDE DEF all
  <1>17. sel \in Seq(all) /\ Len(sel) = Cardinality(all) /\ Range(sel) = all
    BY <1>13, <1>14, InOrderIs
  <1>18. Cardinality(all) # 0
    BY <1>13, <1>16, FS_EmptySet
  <1> HIDE DEF sel
  <1>19. sel # <<>> /\ sel \in Seq(Photos)
    BY <1>14, <1>17, <1>18
  <1>20. Range(sel) = UNION {A[k] : k \in Places}
    BY <1>17 DEF all
  <1>21. Selects(sel, A, alloc, groups)
    <2>1. SharesOut(alloc, [k \in Places |-> Cardinality(groups[k])], request.budget)
      BY <1>5
    <2> QED
      BY <1>8, <1>10, <1>13, <1>17, <1>19, <1>20, <2>1 DEF Selects
  <1>22. Selects(Selection(groups, request.budget), A, alloc, groups)
    BY <1>15, <1>21 DEF sel
  <1> QED
    BY <1>22

\* The photos of a group that look like none that is chosen.
SpareOf(groups, selected, k) ==
    {p \in groups[k] \ (groups[k] \cap Range(selected)) :
        ~\E q \in groups[k] \cap Range(selected) : TooSimilar(groups, p, q)}

\* What SelectionIsFair says of a selection.
FairSelection(groups, selected) ==
    LET count(k) == Cardinality(groups[k])
        photos == SumFunction([k \in Places |-> count(k)])
        total == photos - Len(request.places)
        remaining == Min({request.budget, photos}) - Len(request.places)
        chosen(k) == groups[k] \cap Range(selected)
        spare(k) == SpareOf(groups, selected, k)
        extra(k) == Cardinality(chosen(k)) - 1
    IN  /\ Len(selected) <= request.budget
        /\ \A k \in Places :
            /\ extra(k) >= 0
            /\ \A p, q \in chosen(k) : p # q => ~TooSimilar(groups, p, q)
            /\ extra(k) = 0 \/ (extra(k) - 1) * total < remaining * (count(k) - 1)
            /\ spare(k) = {} \/ (extra(k) + 1) * total > remaining * (count(k) - 1)
        /\ (\A k \in Places : groups[k] = chosen(k) \cup spare(k))
                => Len(selected) = Min({request.budget, photos})

\* What is selected is fair.
LEMMA SelectedFairly ==
    ASSUME IsStory(request), NEW groups, Ready(groups), NEW selected,
           selected = Selection(groups, request.budget)
    PROVE  /\ FairSelection(groups, selected)
           /\ selected \in Seq(Photos) /\ selected # <<>>
           /\ Range(selected) \subseteq UNION {groups[k] : k \in Places}
  <1> DEFINE count(k) == Cardinality(groups[k])
             chosen(k) == groups[k] \cap Range(selected)
             spare(k) == {p \in groups[k] \ chosen(k) : ~\E q \in chosen(k) : TooSimilar(groups, p, q)}
             counts == [k \in Places |-> count(k)]
             photos == SumFunction(counts)
             total == photos - Len(request.places)
             remaining == Min({request.budget, photos}) - Len(request.places)
             extra(k) == Cardinality(chosen(k)) - 1
             n == Len(request.places)
  <1>1. PICK A, alloc : Selects(selected, A, alloc, groups)
    BY SelectionIs
  <1>2. /\ n \in Nat /\ n # 0 /\ Places = 1 .. n /\ IsFiniteSet(Places) /\ request.budget \in Nat
        /\ \A k \in Places : /\ IsFiniteSet(groups[k]) /\ groups[k] # {}
                             /\ groups[k] \in SUBSET request.places[k]
                             /\ groups[k] \in SUBSET Photos
        /\ \A k, m \in Places : k # m => request.places[k] \cap request.places[m] = {}
    BY PlacesAre, ReadyIs
  <1>3. DOMAIN counts = Places /\ Len(counts) = n /\ \A k \in Places : counts[k] = count(k)
    <2> HIDE DEF n
    <2> QED
      BY <1>2
  <1>4. SharesOut(alloc, counts, request.budget)
    BY <1>1 DEF Selects
  <1>5. \A k \in Places : count(k) \in Nat \ {0}
    BY <1>2, FS_CardinalityType, FS_EmptySet
  <1>6. counts \in [Places -> Int] /\ counts \in [Places -> Nat]
    BY <1>5
  <1>7. photos \in Nat
    <2> HIDE DEF counts
    <2> QED
      BY <1>2, <1>6, SumNat
  <1> HIDE DEF counts
  <1>8. /\ alloc \in [Places -> Nat \ {0}]
        /\ SumFunction(alloc) = Min({request.budget, photos})
        /\ \A i \in Places :
             /\ alloc[i] <= count(i)
             /\ alloc[i] > 1 => (alloc[i] - 2) * total < remaining * (count(i) - 1)
             /\ count(i) > 1 => alloc[i] * total > remaining * (count(i) - 1)
    BY <1>3, <1>4 DEF SharesOut
  <1>9. \A k \in Places : Chooses(A[k], groups, k, alloc[k])
    BY <1>1 DEF Selects
  <1>10. \A k \in Places : A[k] \in SUBSET groups[k] /\ A[k] # {} /\ Cardinality(A[k]) <= alloc[k]
    BY <1>9 DEF Chooses, MayTake
  <1>11. \A k \in Places : IsFiniteSet(A[k]) /\ Cardinality(A[k]) \in Nat \ {0}
    BY <1>2, <1>10, FS_Subset, FS_CardinalityType, FS_EmptySet
  <1>12. \A k \in Places : chosen(k) = A[k]
    <2> TAKE k \in Places
    <2>1. Range(selected) = UNION {A[m] : m \in Places}
      BY <1>1 DEF Selects
    <2>2. \A m \in Places : m # k => A[m] \cap groups[k] = {}
      BY <1>2, <1>10
    <2>3. A[k] \subseteq groups[k]
      BY <1>10
    <2> QED
      BY <2>1, <2>2, <2>3
  <1> DEFINE sizes == [k \in Places |-> Cardinality(A[k])]
  <1>13. sizes \in [Places -> Int] /\ \A k \in Places : sizes[k] = Cardinality(A[k])
    BY <1>11
  <1>14. Len(selected) = SumFunction(sizes)
    BY <1>1 DEF Selects
  <1> HIDE DEF sizes
  <1>15. alloc \in [Places -> Int] /\ \A k \in Places : sizes[k] <= alloc[k]
    <2>1. alloc \in [Places -> Int]
      BY <1>8
    <2>2. \A k \in Places : Cardinality(A[k]) <= alloc[k] /\ sizes[k] = Cardinality(A[k])
      BY <1>10, <1>13
    <2> QED
      BY <2>1, <2>2
  <1>16. SumFunction(sizes) <= SumFunction(alloc)
    BY <1>2, <1>13, <1>15, SumMonotone
  <1>17. Min({request.budget, photos}) \in Nat /\ Min({request.budget, photos}) <= request.budget
         /\ Min({request.budget, photos}) <= photos
    BY <1>2, <1>7, MinIs
  <1>18. SumFunction(sizes) \in Int
    BY <1>2, <1>13, SumInt
  <1>19. Len(selected) <= request.budget
    BY <1>2, <1>8, <1>14, <1>16, <1>17, <1>18
  <1>20. total \in Nat
    <2> DEFINE one == [k \in Places |-> IF k \in Places THEN 1 ELSE 0]
    <2>1. SumFunction(one) = Cardinality(Places)
      BY <1>2, SumOfMembers
    <2>2. Cardinality(Places) = n
      <3>1. 1 \in Int /\ n \in Int
        BY <1>2
      <3>2. Cardinality(1 .. n) = IF 1 > n THEN 0 ELSE n - 1 + 1
        BY <3>1, FS_Interval
      <3> QED
        BY <1>2, <3>2
    <2>3. one \in [Places -> Int] /\ \A k \in Places : one[k] <= counts[k]
      BY <1>3, <1>5
    <2> HIDE DEF one, n
    <2>4. SumFunction(one) <= photos
      BY <1>2, <1>6, <2>3, SumMonotone
    <2>5. n <= photos
      BY <2>1, <2>2, <2>4
    <2> QED
      BY <1>2, <1>7, <2>5 DEF n
  <1>21. remaining \in Int
    BY <1>2, <1>17
  <1> HIDE DEF photos, total, remaining, n
  <1>22. ASSUME NEW k \in Places
         PROVE  /\ extra(k) >= 0
                /\ \A p, q \in chosen(k) : p # q => ~TooSimilar(groups, p, q)
                /\ extra(k) = 0 \/ (extra(k) - 1) * total < remaining * (count(k) - 1)
                /\ spare(k) = {} \/ (extra(k) + 1) * total > remaining * (count(k) - 1)
    <2> DEFINE c == Cardinality(A[k])
               a == alloc[k]
               share == remaining * (count(k) - 1)
    <2>1. extra(k) = c - 1 /\ c \in Nat \ {0} /\ a \in Nat \ {0} /\ c <= a
      BY <1>8, <1>10, <1>11, <1>12
    <2>2. \A p, q \in chosen(k) : p # q => ~TooSimilar(groups, p, q)
      BY <1>9, <1>12 DEF Chooses, MayTake
    <2>3. /\ a > 1 => (a - 2) * total < share
          /\ count(k) > 1 => a * total > share
      BY <1>8
    <2>4. share \in Int
      BY <1>5, <1>21
    <2>5. spare(k) # {} => c = a /\ count(k) > 1
      <3> SUFFICES ASSUME NEW p \in spare(k) PROVE c = a /\ count(k) > 1
        OBVIOUS
      <3>1. p \in groups[k] \ A[k] /\ \A q \in A[k] : ~TooSimilar(groups, p, q)
        BY <1>12
      <3>2. c = a
        BY <1>9, <3>1 DEF Chooses
      <3>3. A[k] \cup {p} \subseteq groups[k]
        BY <1>10, <3>1
      <3>4. Cardinality(A[k] \cup {p}) = Cardinality(A[k]) + 1
        BY <1>11, <3>1, FS_AddElement
      <3>5. Cardinality(A[k] \cup {p}) <= Cardinality(groups[k])
        BY <1>2, <3>3, FS_Subset
      <3> QED
        BY <1>5, <2>1, <3>2, <3>4, <3>5
    <2> HIDE DEF c, a, share, extra
    <2>6. extra(k) = 0 \/ (extra(k) - 1) * total < share
      <3> SUFFICES ASSUME extra(k) # 0 PROVE (extra(k) - 1) * total < share
        OBVIOUS
      <3>0. c \in Nat /\ a \in Nat /\ c # 0 /\ c <= a /\ c # 1
        <4>1. c - 1 # 0 /\ c \in Nat
          BY <2>1
        <4> QED
          BY <2>1, <4>1
      <3>1. a > 1 /\ c - 2 <= a - 2 /\ c - 2 \in Int /\ a - 2 \in Int
        BY <3>0
      <3>2. (c - 2) * total <= (a - 2) * total
        BY <1>20, <3>1, TimesMonotone
      <3>3. (c - 2) * total \in Int /\ (a - 2) * total \in Int
        BY <1>20, <3>1
      <3>4. (c - 2) * total < share
        BY <2>3, <2>4, <3>1, <3>2, <3>3
      <3>5. extra(k) - 1 = c - 2
        BY <2>1
      <3> QED
        BY <3>4, <3>5
    <2>7. spare(k) = {} \/ (extra(k) + 1) * total > share
      <3>1. extra(k) + 1 = c
        BY <2>1
      <3> QED
        BY <2>3, <2>5, <3>1
    <2>8. extra(k) >= 0
      BY <2>1
    <2> QED
      BY <2>2, <2>6, <2>7, <2>8 DEF share, extra
  <1>23. ASSUME \A k \in Places : groups[k] = chosen(k) \cup spare(k)
         PROVE  Len(selected) = Min({request.budget, photos})
    <2>1. \A k \in Places : sizes[k] = alloc[k]
      <3> TAKE k \in Places
      <3>1. CASE spare(k) = {}
        <4>1. groups[k] = A[k]
          <5>1. groups[k] = chosen(k) \cup spare(k) /\ chosen(k) = A[k]
            BY <1>12, <1>23
          <5> HIDE DEF chosen, spare
          <5> QED
            BY <3>1, <5>1
        <4>2. alloc[k] <= Cardinality(A[k]) /\ Cardinality(A[k]) <= alloc[k]
          BY <1>8, <1>10, <4>1
        <4> QED
          BY <1>8, <1>11, <1>13, <4>2
      <3>2. CASE spare(k) # {}
        <4>1. PICK p : p \in spare(k)
          BY <3>2
        <4>2. p \in groups[k] \ A[k] /\ \A q \in A[k] : ~TooSimilar(groups, p, q)
          BY <1>12, <4>1
        <4> QED
          BY <1>9, <1>13, <4>2 DEF Chooses
      <3> QED
        BY <3>1, <3>2
    <2>2. sizes = alloc
      BY <1>13, <1>15, <2>1
    <2> QED
      BY <1>8, <1>14, <2>2
  <1>24. /\ Len(selected) <= request.budget
         /\ \A k \in Places :
             /\ extra(k) >= 0
             /\ \A p, q \in chosen(k) : p # q => ~TooSimilar(groups, p, q)
             /\ extra(k) = 0 \/ (extra(k) - 1) * total < remaining * (count(k) - 1)
             /\ spare(k) = {} \/ (extra(k) + 1) * total > remaining * (count(k) - 1)
         /\ (\A k \in Places : groups[k] = chosen(k) \cup spare(k))
                 => Len(selected) = Min({request.budget, photos})
    BY <1>19, <1>22, <1>23
  <1>25. FairSelection(groups, selected)
    BY <1>24, Zenon DEF FairSelection, SpareOf, photos, total, remaining, counts
  <1>26. Range(selected) \subseteq UNION {groups[k] : k \in Places}
    <2>1. Range(selected) = UNION {A[k] : k \in Places}
      BY <1>1 DEF Selects
    <2> QED
      BY <1>10, <2>1
  <1>27. selected \in Seq(Photos) /\ selected # <<>>
    BY <1>1 DEF Selects
  <1> QED
    BY <1>25, <1>26, <1>27

-----------------------------------------------------------------------------
(* Stories: the invariant.                                                 *)

\* What a story ends with, and where the handler is.
Outcomes ==
    {None, "CANCELED", "INVALID_REQUEST", "INTERNAL_ERROR", "DOWNLOAD_FAILED", "DECODE_FAILED",
     "TIMEOUT", "MODEL_NOT_READY", "VLM_UNAVAILABLE", "COMPLETED"}
Unselected == {"validate", "open", "start", "filter", "filtered", "fetched"}
WithSelected == {"selected", "drafted", "verified"}
KeptStates == {<<>>} \cup [Places -> SUBSET Photos]
StoryStates ==
    [pc : Unselected \cup WithSelected \cup {"ended"}, place : Nat, left : Seq(Photos),
     kept : KeptStates, selected : Seq(Photos), urls : Nat,
     draft : Seq(Photos), blocks : Seq(Photos), outcome : Outcomes]

\* The type invariant.
StoryTypeOK == request \in Stories /\ story \in StoryStates /\ cancelRequested \in BOOLEAN

\* Only the end has an outcome, and nothing is selected before its time.
StoryInTime ==
    /\ story.pc # "ended" => story.outcome = None
    /\ story.pc \in {"validate", "open", "start"} => story.place = 1
    /\ story.pc \in Unselected => story.selected = <<>>
    /\ story.pc \in (Unselected \ {"validate"}) \cup WithSelected => request.valid

\* In the filter the places before this one have kept some of their photos,
\* each place those that may be retained together.
Filtering ==
    story.pc = "filter" =>
        /\ Len(request.places) <= request.budget
        /\ story.place \in Places /\ story.left \in Seq(request.places[story.place])
        /\ story.kept \in [Places -> SUBSET Photos]
        /\ \A k \in Places :
             /\ story.kept[k] \in MayRetain(request.places[k])
             /\ k < story.place => story.kept[k] # {}

\* What is selected is a fair selection of what the filter has left.
SelectedFromKept ==
    /\ story.pc \in {"filtered", "fetched"} => Ready(story.kept)
    /\ story.pc \in WithSelected \/ story.outcome = "COMPLETED" => story.selected # <<>>
    /\ story.selected # <<>> =>
         /\ Ready(story.kept) /\ FairSelection(story.kept, story.selected)
         /\ Range(story.selected) \subseteq UNION {story.kept[k] : k \in Places}

\* The blocks of a verified draft are the selected photos by time.
BlocksFromSelected ==
    story.pc = "verified" \/ story.outcome = "COMPLETED" =>
        /\ story.blocks = InOrder(Range(story.selected))
        /\ \A k \in Places : \E p \in request.places[k] : p \in Range(story.selected)

\* The inductive invariant.
StoryInv == StoryTypeOK /\ StoryInTime /\ Filtering /\ SelectedFromKept /\ BlocksFromSelected

-----------------------------------------------------------------------------
(* Stories: the steps.                                                     *)

\* What depends on the request alone stays.
LEMMA SameRequest ==
    ASSUME UNCHANGED request
    PROVE  /\ Places' = Places /\ KeptStates' = KeptStates /\ StoryStates' = StoryStates
           /\ \A place : MayRetain(place)' = MayRetain(place)
           /\ \A groups : Ready(groups)' <=> Ready(groups)
           /\ \A S : InOrder(S)' = InOrder(S)
  <1>1. request' = request
    OBVIOUS
  <1>2. Places' = Places
    BY <1>1 DEF Places
  <1>3. KeptStates' = KeptStates
    BY <1>2 DEF KeptStates
  <1>4. StoryStates' = StoryStates
    BY <1>3 DEF StoryStates
  <1>5. ASSUME NEW place PROVE MayRetain(place)' = MayRetain(place)
    BY <1>1 DEF MayRetain
  <1>6. ASSUME NEW groups PROVE Ready(groups)' <=> Ready(groups)
    BY <1>1, <1>2, <1>5 DEF Ready
  <1>7. ASSUME NEW S PROVE InOrder(S)' = InOrder(S)
    BY <1>1 DEF InOrder, Before
  <1> QED
    BY <1>2, <1>3, <1>4, <1>5, <1>6, <1>7

\* Whether photos look like each other depends on the request alone.
LEMMA SameSimilar ==
    ASSUME UNCHANGED request, NEW groups, NEW p, NEW q
    PROVE  TooSimilar(groups, p, q)' <=> TooSimilar(groups, p, q)
  <1>1. request' = request
    OBVIOUS
  <1> QED
    BY <1>1 DEF TooSimilar

\* So does whether a selection is fair.
LEMMA SameFairness ==
    ASSUME UNCHANGED request, NEW groups, NEW selected
    PROVE  FairSelection(groups, selected)' <=> FairSelection(groups, selected)
  <1>1. request' = request
    OBVIOUS
  <1>2. Places' = Places
    BY SameRequest
  <1>3. \A p, q : TooSimilar(groups, p, q)' <=> TooSimilar(groups, p, q)
    BY SameSimilar
  <1>4. ASSUME NEW k PROVE SpareOf(groups, selected, k)' = SpareOf(groups, selected, k)
    BY <1>3 DEF SpareOf
  <1> DEFINE chosen(k) == groups[k] \cap Range(selected)
             total(P, r) == SumFunction([k \in P |-> Cardinality(groups[k])]) - Len(r.places)
             remaining(P, r) ==
                Min({r.budget, SumFunction([k \in P |-> Cardinality(groups[k])])}) - Len(r.places)
             scenes(k) == \A p, q \in chosen(k) : p # q => ~TooSimilar(groups, p, q)
             extra(k) == Cardinality(chosen(k)) - 1
             share(P, r, k) == remaining(P, r) * (Cardinality(groups[k]) - 1)
             fewer(P, r, k) == extra(k) = 0 \/ (extra(k) - 1) * total(P, r) < share(P, r, k)
             more(P, r, k) == (extra(k) + 1) * total(P, r) > share(P, r, k)
             full(P, r) == Len(selected) =
                Min({r.budget, SumFunction([k \in P |-> Cardinality(groups[k])])})
  <1>5. ASSUME NEW k PROVE scenes(k)' <=> scenes(k)
    BY <1>3
  <1>6. FairSelection(groups, selected) <=>
            /\ Len(selected) <= request.budget
            /\ \A k \in Places :
                 /\ extra(k) >= 0 /\ scenes(k) /\ fewer(Places, request, k)
                 /\ SpareOf(groups, selected, k) = {} \/ more(Places, request, k)
            /\ (\A k \in Places : groups[k] = chosen(k) \cup SpareOf(groups, selected, k))
                    => full(Places, request)
    BY Zenon DEF FairSelection
  <1>7. FairSelection(groups, selected)' <=>
            /\ Len(selected) <= request'.budget
            /\ \A k \in Places' :
                 /\ extra(k) >= 0 /\ scenes(k)' /\ fewer(Places', request', k)
                 /\ SpareOf(groups, selected, k)' = {} \/ more(Places', request', k)
            /\ (\A k \in Places' : groups[k] = chosen(k) \cup SpareOf(groups, selected, k)')
                    => full(Places', request')
    BY Zenon DEF FairSelection
  <1> HIDE DEF scenes, fewer, more, full, extra, chosen
  <1> QED
    BY <1>1, <1>2, <1>4, <1>5, <1>6, <1>7

\* The start.
LEMMA StoryStarts == StoryInit => StoryInv
  <1> SUFFICES ASSUME StoryInit PROVE StoryInv
    OBVIOUS
  <1>1. request \in Stories /\ story = NewStory /\ cancelRequested = FALSE
    BY DEF StoryInit
  <1> DEFINE nothing == <<>>
  <1>2. nothing \in Seq(Photos) /\ nothing \in KeptStates
    BY DEF KeptStates
  <1>3. story = [pc |-> "validate", place |-> 1, left |-> nothing, kept |-> nothing,
                 selected |-> nothing, urls |-> 0, draft |-> nothing, blocks |-> nothing,
                 outcome |-> None]
    BY <1>1 DEF NewStory, NoSchema
  <1>4. "validate" \in Unselected /\ None \in Outcomes
    BY DEF Unselected, Outcomes
  <1>5. story.pc = "validate" /\ story.place = 1 /\ story.outcome = None
    BY <1>3
  <1>6. story.selected = nothing
    BY <1>3
  <1> HIDE DEF nothing
  <1>7. story \in StoryStates
    BY <1>2, <1>3, <1>4 DEF StoryStates
  <1>8. cancelRequested \in BOOLEAN
    BY <1>1
  <1>9. StoryTypeOK
    BY <1>1, <1>7, <1>8 DEF StoryTypeOK
  <1>10. StoryInTime
    BY <1>5, <1>6 DEF StoryInTime, WithSelected, nothing
  <1>11. Filtering
    BY <1>5 DEF Filtering
  <1>12. SelectedFromKept
    BY <1>5, <1>6 DEF SelectedFromKept, WithSelected, None, nothing
  <1>13. BlocksFromSelected
    BY <1>5 DEF BlocksFromSelected, None
  <1> QED
    BY <1>9, <1>10, <1>11, <1>12, <1>13 DEF StoryInv

\* What was selected stays so, with what it was selected from.
LEMMA SelectedStays ==
    ASSUME UNCHANGED request, story'.kept = story.kept, story'.selected = story.selected,
           story.selected # <<>> =>
             /\ Ready(story.kept) /\ FairSelection(story.kept, story.selected)
             /\ Range(story.selected) \subseteq UNION {story.kept[k] : k \in Places}
    PROVE  story'.selected # <<>> =>
             /\ Ready(story.kept)' /\ FairSelection(story.kept, story.selected)'
             /\ Range(story'.selected) \subseteq UNION {story'.kept[k] : k \in Places'}
  <1> SUFFICES ASSUME story'.selected # <<>>
               PROVE  /\ Ready(story.kept)' /\ FairSelection(story.kept, story.selected)'
                      /\ Range(story'.selected) \subseteq UNION {story'.kept[k] : k \in Places'}
    OBVIOUS
  <1> DEFINE groups == story.kept
             selected == story.selected
  <1>1. Ready(groups) /\ FairSelection(groups, selected)
        /\ Range(selected) \subseteq UNION {groups[k] : k \in Places}
    OBVIOUS
  <1>2. Places' = Places
    BY SameRequest
  <1>3. \A g : Ready(g)' <=> Ready(g)
    BY SameRequest
  <1>4. \A g, s : FairSelection(g, s)' <=> FairSelection(g, s)
    BY SameFairness
  <1> QED
    BY <1>1, <1>2, <1>3, <1>4

\* A story ends.
LEMMA EndKeeps ==
    ASSUME StoryInv, NEW outcome \in Outcomes, End(outcome), story.pc # "ended",
           outcome = "COMPLETED" => story.pc = "verified"
    PROVE  StoryInv'
  <1>1. request \in Stories /\ story \in StoryStates /\ cancelRequested \in BOOLEAN
    BY DEF StoryInv, StoryTypeOK
  <1>2. story' = [story EXCEPT !.pc = "ended", !.outcome = outcome, !.left = <<>>, !.draft = NoSchema]
        /\ request' = request /\ cancelRequested' = cancelRequested
    BY DEF End, Ended
  <1> DEFINE nothing == <<>>
  <1>3. nothing \in Seq(Photos)
    OBVIOUS
  <1>4. story' = [story EXCEPT !.pc = "ended", !.outcome = outcome, !.left = nothing, !.draft = nothing]
    BY <1>2 DEF NoSchema
  <1> HIDE DEF nothing
  <1>5. story' \in StoryStates
    BY <1>1, <1>3, <1>4 DEF StoryStates
  <1>6. story'.pc = "ended" /\ story'.outcome = outcome
    BY <1>1, <1>4 DEF StoryStates
  <1>7. story'.kept = story.kept /\ story'.selected = story.selected /\ story'.blocks = story.blocks
    BY <1>1, <1>4 DEF StoryStates
  <1>8. StoryTypeOK'
    <2>1. StoryStates' = StoryStates
      BY <1>2, SameRequest
    <2> QED
      BY <1>1, <1>2, <1>5, <2>1 DEF StoryTypeOK
  <1>9. StoryInTime'
    BY <1>6 DEF StoryInTime, Unselected, WithSelected
  <1>10. Filtering'
    BY <1>6 DEF Filtering
  <1>11. SelectedFromKept'
    <2>1. story'.selected # <<>> =>
             /\ Ready(story.kept)' /\ FairSelection(story.kept, story.selected)'
             /\ Range(story'.selected) \subseteq UNION {story'.kept[k] : k \in Places'}
      BY <1>2, <1>7, SelectedStays DEF StoryInv, SelectedFromKept
    <2>2. outcome = "COMPLETED" => story.selected # <<>>
      BY DEF StoryInv, SelectedFromKept, WithSelected
    <2> QED
      BY <1>6, <1>7, <2>1, <2>2 DEF SelectedFromKept, WithSelected
  <1>12. BlocksFromSelected'
    <2>1. \A S : InOrder(S)' = InOrder(S)
      BY <1>2, SameRequest
    <2>2. Places' = Places
      BY <1>2, SameRequest
    <2>3. outcome = "COMPLETED" =>
            /\ story.blocks = InOrder(Range(story.selected))
            /\ \A k \in Places : \E p \in request.places[k] : p \in Range(story.selected)
      BY DEF StoryInv, BlocksFromSelected
    <2> QED
      BY <1>2, <1>6, <1>7, <2>1, <2>2, <2>3 DEF BlocksFromSelected
  <1> QED
    BY <1>8, <1>9, <1>10, <1>11, <1>12 DEF StoryInv

\* What a step that goes on with another state has to show.
Advances ==
    /\ UNCHANGED <<request, cancelRequested>> /\ request.valid
    /\ story' \in StoryStates /\ story'.outcome = None
    /\ story'.pc \notin {"validate", "ended"}
    /\ story'.pc \in {"open", "start"} => story'.place = 1
    /\ story'.pc \in Unselected => story'.selected = <<>>
    /\ story'.pc \in WithSelected => story'.selected # <<>>

\* Such a step keeps the invariant.
LEMMA AdvanceKeeps ==
    ASSUME StoryInv, Advances, Filtering', BlocksFromSelected',
           story'.pc \in {"filtered", "fetched"} => Ready(story'.kept),
           \/ story'.kept = story.kept /\ story'.selected = story.selected
           \/ story'.selected = <<>>
           \/ /\ Ready(story'.kept) /\ FairSelection(story'.kept, story'.selected)
              /\ Range(story'.selected) \subseteq UNION {story'.kept[k] : k \in Places}
    PROVE  StoryInv'
  <1>1. UNCHANGED request /\ cancelRequested' = cancelRequested
    BY DEF Advances
  <1>2. StoryTypeOK'
    <2>1. StoryStates' = StoryStates
      BY <1>1, SameRequest
    <2>2. request' \in Stories /\ cancelRequested' \in BOOLEAN
      BY <1>1 DEF StoryInv, StoryTypeOK
    <2> QED
      BY <2>1, <2>2 DEF Advances, StoryTypeOK
  <1>3. StoryInTime'
    BY <1>1 DEF Advances, StoryInTime
  <1>4. SelectedFromKept'
    <2>1. Places' = Places
      BY <1>1, SameRequest
    <2>2. \A g : Ready(g)' <=> Ready(g)
      BY <1>1, SameRequest
    <2>3. \A g, s : FairSelection(g, s)' <=> FairSelection(g, s)
      BY <1>1, SameFairness
    <2>4. story'.pc \in {"filtered", "fetched"} => Ready(story.kept)'
      BY <2>2
    <2>5. story'.pc \in WithSelected \/ story'.outcome = "COMPLETED" => story'.selected # <<>>
      BY DEF Advances, None
    <2>6. story'.selected # <<>> =>
             /\ Ready(story.kept)' /\ FairSelection(story.kept, story.selected)'
             /\ Range(story'.selected) \subseteq UNION {story'.kept[k] : k \in Places'}
      <3>1. CASE story'.kept = story.kept /\ story'.selected = story.selected
        BY <1>1, <3>1, SelectedStays DEF StoryInv, SelectedFromKept
      <3>2. CASE story'.selected = <<>>
        BY <3>2
      <3>3. CASE /\ Ready(story'.kept) /\ FairSelection(story'.kept, story'.selected)
                 /\ Range(story'.selected) \subseteq UNION {story'.kept[k] : k \in Places}
        BY <2>1, <2>2, <2>3, <3>3
      <3> QED
        BY <3>1, <3>2, <3>3
    <2> QED
      BY <2>4, <2>5, <2>6 DEF SelectedFromKept
  <1> QED
    BY <1>2, <1>3, <1>4 DEF StoryInv

\* A step that changes the cancel request only.
LEMMA StoryStays ==
    ASSUME StoryInv, UNCHANGED <<request, story>>, cancelRequested' \in BOOLEAN
    PROVE  StoryInv'
  <1>1. request' = request /\ story' = story
    OBVIOUS
  <1>2. /\ Places' = Places /\ StoryStates' = StoryStates
        /\ \A place : MayRetain(place)' = MayRetain(place)
        /\ \A groups : Ready(groups)' <=> Ready(groups)
        /\ \A S : InOrder(S)' = InOrder(S)
    BY <1>1, SameRequest
  <1>3. StoryTypeOK'
    BY <1>1, <1>2 DEF StoryInv, StoryTypeOK
  <1>4. StoryInTime'
    BY <1>1 DEF StoryInv, StoryInTime
  <1>5. Filtering'
    BY <1>1, <1>2 DEF StoryInv, Filtering
  <1>6. SelectedFromKept'
    <2>1. story'.selected # <<>> =>
             /\ Ready(story.kept)' /\ FairSelection(story.kept, story.selected)'
             /\ Range(story'.selected) \subseteq UNION {story'.kept[k] : k \in Places'}
      BY <1>1, SelectedStays DEF StoryInv, SelectedFromKept
    <2> QED
      BY <1>1, <1>2, <2>1 DEF StoryInv, SelectedFromKept
  <1>7. BlocksFromSelected'
    BY <1>1, <1>2 DEF StoryInv, BlocksFromSelected
  <1> QED
    BY <1>3, <1>4, <1>5, <1>6, <1>7 DEF StoryInv

\* The filter at a place, with the photos left and those kept.
Filters(place, left, kept) ==
    /\ Len(request.places) <= request.budget
    /\ place \in Places /\ left \in Seq(request.places[place])
    /\ kept \in [Places -> SUBSET Photos]
    /\ \A k \in Places : kept[k] \in MayRetain(request.places[k]) /\ (k < place => kept[k] # {})

\* A step to such a filter.
LEMMA FiltersOn ==
    ASSUME UNCHANGED request, NEW place, NEW left, NEW kept, Filters(place, left, kept),
           story'.place = place, story'.left = left, story'.kept = kept
    PROVE  Filtering'
  <1>1. request' = request /\ Places' = Places /\ \A p : MayRetain(p)' = MayRetain(p)
    BY SameRequest
  <1>2. Len(request'.places) <= request'.budget
    BY <1>1 DEF Filters
  <1>3. story'.place \in Places'
    BY <1>1 DEF Filters
  <1>4. story'.left \in Seq(request'.places[story'.place])
    BY <1>1 DEF Filters
  <1>5. story'.kept \in [Places' -> SUBSET Photos]
    BY <1>1 DEF Filters
  <1>6. ASSUME NEW k \in Places'
        PROVE  (story.kept[k] \in MayRetain(request.places[k]))'
    <2>1. MayRetain(request.places[k])' = MayRetain(request.places[k])
      BY <1>1 DEF MayRetain
    <2>2. kept[k] \in MayRetain(request.places[k])
      BY <1>1 DEF Filters
    <2> QED
      BY <2>1, <2>2
  <1>7. ASSUME NEW k \in Places', k < story'.place PROVE story'.kept[k] # {}
    BY <1>1, <1>7 DEF Filters
  <1> QED
    BY <1>2, <1>3, <1>4, <1>5, <1>6, <1>7 DEF Filtering

\* A cancel request.
LEMMA CancelStoryKeeps == StoryInv /\ CancelStory => StoryInv'
  <1> SUFFICES ASSUME StoryInv, CancelStory PROVE StoryInv'
    OBVIOUS
  <1>1. UNCHANGED <<request, story>> /\ cancelRequested' = TRUE
    BY DEF CancelStory
  <1>2. cancelRequested' \in BOOLEAN
    BY <1>1
  <1> QED
    BY <1>1, <1>2, StoryStays

\* A cancel ends the story.
LEMMA SeeCancelKeeps == StoryInv /\ SeeCancel => StoryInv'
  BY EndKeeps DEF SeeCancel, Outcomes

\* The first steps: the request is valid, or the story ends.
LEMMA ValidateStoryKeeps == StoryInv /\ ValidateStory => StoryInv'
  <1> SUFFICES ASSUME StoryInv, ValidateStory PROVE StoryInv'
    OBVIOUS
  <1>1. story.pc = "validate" /\ story \in StoryStates
    BY DEF ValidateStory, At, StoryInv, StoryTypeOK
  <1>2. CASE request.valid
    <2>1. story' = [story EXCEPT !.pc = "open"] /\ UNCHANGED <<request, cancelRequested>>
      BY <1>2 DEF ValidateStory, GoOn
    <2>2. story' \in StoryStates
      BY <1>1, <2>1 DEF StoryStates, Unselected
    <2>3. /\ story'.pc = "open" /\ story'.outcome = story.outcome /\ story'.place = story.place
          /\ story'.kept = story.kept /\ story'.selected = story.selected
      BY <1>1, <2>1 DEF StoryStates
    <2>4. story.outcome = None /\ story.place = 1 /\ story.selected = <<>>
      BY <1>1 DEF StoryInv, StoryInTime, Unselected
    <2>5. Advances
      BY <1>2, <2>1, <2>2, <2>3, <2>4 DEF Advances, WithSelected
    <2>6. Filtering' /\ BlocksFromSelected'
      BY <2>3, <2>4 DEF Filtering, BlocksFromSelected, None
    <2> QED
      BY <2>3, <2>5, <2>6, AdvanceKeeps
  <1>3. CASE ~request.valid
    <2>1. End("INVALID_REQUEST")
      BY <1>3 DEF ValidateStory
    <2> QED
      BY <1>1, <2>1, EndKeeps DEF Outcomes
  <1> QED
    BY <1>2, <1>3

\* The clients open, or the story ends.
LEMMA OpenClientsKeeps == StoryInv /\ OpenClients => StoryInv'
  <1> SUFFICES ASSUME StoryInv, OpenClients PROVE StoryInv'
    OBVIOUS
  <1>1. story.pc = "open" /\ story \in StoryStates
    BY DEF OpenClients, At, StoryInv, StoryTypeOK
  <1>2. CASE GoOn([story EXCEPT !.pc = "start"])
    <2>1. story' = [story EXCEPT !.pc = "start"] /\ UNCHANGED <<request, cancelRequested>>
      BY <1>2 DEF GoOn
    <2>2. story' \in StoryStates
      BY <1>1, <2>1 DEF StoryStates, Unselected
    <2>3. /\ story'.pc = "start" /\ story'.outcome = story.outcome /\ story'.place = story.place
          /\ story'.kept = story.kept /\ story'.selected = story.selected
      BY <1>1, <2>1 DEF StoryStates
    <2>4. story.outcome = None /\ story.place = 1 /\ story.selected = <<>> /\ request.valid
      BY <1>1 DEF StoryInv, StoryInTime, Unselected
    <2>5. Advances
      BY <2>1, <2>2, <2>3, <2>4 DEF Advances, WithSelected
    <2>6. Filtering' /\ BlocksFromSelected'
      BY <2>3, <2>4 DEF Filtering, BlocksFromSelected, None
    <2> QED
      BY <2>3, <2>5, <2>6, AdvanceKeeps
  <1>3. CASE End("INTERNAL_ERROR")
    BY <1>1, <1>3, EndKeeps DEF Outcomes
  <1> QED
    BY <1>2, <1>3 DEF OpenClients

\* The filter starts with the first place and nothing kept.
LEMMA StartSelectingKeeps == StoryInv /\ StartSelecting => StoryInv'
  <1> SUFFICES ASSUME StoryInv, StartSelecting PROVE StoryInv'
    OBVIOUS
  <1>1. story.pc = "start" /\ story \in StoryStates
    BY DEF StartSelecting, At, StoryInv, StoryTypeOK
  <1>2. CASE Len(request.places) > request.budget
    <2>1. End("INVALID_REQUEST")
      BY <1>2 DEF StartSelecting
    <2> QED
      BY <1>1, <2>1, EndKeeps DEF Outcomes
  <1>3. CASE ~(Len(request.places) > request.budget)
    <2> DEFINE left == InOrder(request.places[1])
               kept == [k \in Places |-> {}]
    <2>1. story' = [story EXCEPT !.pc = "filter", !.left = left, !.kept = kept]
          /\ UNCHANGED <<request, cancelRequested>>
      BY <1>3 DEF StartSelecting, GoOn
    <2>2. IsStory(request)
      BY StoriesAssumption DEF StoryInv, StoryTypeOK
    <2>3. story.outcome = None /\ story.place = 1 /\ story.selected = <<>> /\ request.valid
      BY <1>1 DEF StoryInv, StoryInTime, Unselected
    <2>4. /\ Len(request.places) \in Nat /\ Places = 1 .. Len(request.places)
          /\ request.budget \in Nat
          /\ \A k \in Places : request.places[k] \in SUBSET Photos
      BY <2>2, PlacesAre
    <2>5. 1 \in Places
      <3>1. request.places # <<>> /\ request.places \in Seq(SUBSET Photos)
        BY <2>2, <2>3 DEF IsStory
      <3>2. Len(request.places) # 0
        BY <3>1
      <3> QED
        BY <2>4, <3>2
    <2>6. left \in Seq(request.places[1]) /\ left \in Seq(Photos)
      <3>1. IsFiniteSet(request.places[1])
        BY <2>2, <2>3, <2>5 DEF IsStory, Places
      <3>2. left \in Seq(request.places[1])
        BY <2>2, <2>4, <2>5, <3>1, InOrderIs
      <3> HIDE DEF left
      <3> QED
        BY <2>4, <2>5, <3>2
    <2>7. kept \in [Places -> SUBSET Photos] /\ \A k \in Places : kept[k] = {}
      OBVIOUS
    <2> HIDE DEF left, kept
    <2>8. story' \in StoryStates
      <3>1. kept \in KeptStates
        BY <2>7 DEF KeptStates
      <3> QED
        BY <1>1, <2>1, <2>6, <3>1 DEF StoryStates, Unselected
    <2>9. /\ story'.pc = "filter" /\ story'.outcome = story.outcome /\ story'.place = story.place
          /\ story'.selected = story.selected /\ story'.left = left /\ story'.kept = kept
      BY <1>1, <2>1 DEF StoryStates
    <2>10. Advances
      BY <2>1, <2>3, <2>8, <2>9 DEF Advances, WithSelected
    <2>11. Filtering'
      <3>1. \A k \in Places : {} \in MayRetain(request.places[k])
        BY DEF MayRetain
      <3>3. Len(request.places) <= request.budget
        BY <1>3, <2>4
      <3>4. \A k \in Places : ~(k < 1)
        BY <2>4
      <3>5. Filters(1, left, kept)
        BY <2>5, <2>6, <2>7, <3>1, <3>3, <3>4 DEF Filters
      <3> QED
        BY <2>1, <2>3, <2>9, <3>5, FiltersOn
    <2>12. BlocksFromSelected'
      BY <2>3, <2>9 DEF BlocksFromSelected, None
    <2> QED
      BY <2>3, <2>9, <2>10, <2>11, <2>12, AdvanceKeeps
  <1> QED
    BY <1>2, <1>3

\* The photos of a place are through.
LEMMA NextPlaceKeeps ==
    ASSUME StoryInv, story.pc = "filter", NEW kept, Filters(story.place, story.left, kept),
           NextPlace(kept)
    PROVE  StoryInv'
  <1>1. story \in StoryStates /\ IsStory(request)
    BY StoriesAssumption DEF StoryInv, StoryTypeOK
  <1>2. story.outcome = None /\ story.selected = <<>> /\ request.valid
    BY DEF StoryInv, StoryInTime, Unselected
  <1>3. /\ Len(request.places) \in Nat /\ Places = 1 .. Len(request.places)
        /\ \A k \in Places : request.places[k] \in SUBSET Photos
    BY <1>1, PlacesAre
  <1>4. /\ Len(request.places) <= request.budget /\ story.place \in Places
        /\ kept \in [Places -> SUBSET Photos]
        /\ \A k \in Places : kept[k] \in MayRetain(request.places[k])
        /\ \A k \in Places : k < story.place => kept[k] # {}
    BY DEF Filters
  <1>5. kept \in KeptStates
    BY <1>4 DEF KeptStates
  <1> DEFINE nothing == <<>>
  <1>6. CASE kept[story.place] = {}
    <2>1. End("INVALID_REQUEST")
      BY <1>6 DEF NextPlace
    <2> QED
      BY <2>1, EndKeeps DEF Outcomes
  <1>7. CASE kept[story.place] # {} /\ story.place = Len(request.places)
    <2>1. story' = [story EXCEPT !.kept = kept, !.left = nothing, !.pc = "filtered"]
          /\ UNCHANGED <<request, cancelRequested>>
      BY <1>7 DEF NextPlace, GoOn
    <2>2. nothing \in Seq(Photos)
      OBVIOUS
    <2> HIDE DEF nothing
    <2>3. story' \in StoryStates
      BY <1>1, <1>5, <2>1, <2>2 DEF StoryStates, Unselected
    <2>4. /\ story'.pc = "filtered" /\ story'.outcome = story.outcome
          /\ story'.selected = story.selected /\ story'.kept = kept
      BY <1>1, <2>1 DEF StoryStates
    <2>5. \A k \in Places : kept[k] # {}
      BY <1>3, <1>4, <1>7
    <2>6. Ready(kept)
      BY <1>2, <1>4, <2>5 DEF Ready
    <2>7. Advances
      BY <1>2, <2>1, <2>3, <2>4 DEF Advances, WithSelected
    <2>8. Filtering' /\ BlocksFromSelected'
      BY <1>2, <2>4 DEF Filtering, BlocksFromSelected, None
    <2> QED
      BY <1>2, <2>4, <2>6, <2>7, <2>8, AdvanceKeeps
  <1>8. CASE kept[story.place] # {} /\ story.place # Len(request.places)
    <2> DEFINE next == story.place + 1
               left == InOrder(request.places[next])
    <2>1. story' = [story EXCEPT !.kept = kept, !.left = left, !.place = next]
          /\ UNCHANGED <<request, cancelRequested>>
      BY <1>8 DEF NextPlace, GoOn
    <2>2. next \in Places /\ next \in Nat /\ next = story.place + 1
      BY <1>3, <1>4, <1>8
    <2> HIDE DEF next
    <2>3. left \in Seq(request.places[next]) /\ left \in Seq(Photos)
      <3>1. IsFiniteSet(request.places[next])
        BY <1>1, <1>2, <2>2 DEF IsStory, Places
      <3>2. left \in Seq(request.places[next])
        BY <1>1, <1>3, <2>2, <3>1, InOrderIs
      <3> HIDE DEF left
      <3> QED
        BY <1>3, <2>2, <3>2
    <2> HIDE DEF left
    <2>4. story' \in StoryStates
      BY <1>1, <1>5, <2>1, <2>2, <2>3 DEF StoryStates
    <2>5. /\ story'.pc = story.pc /\ story'.outcome = story.outcome /\ story'.place = next
          /\ story'.selected = story.selected /\ story'.left = left /\ story'.kept = kept
      BY <1>1, <2>1 DEF StoryStates
    <2>6. Filters(next, left, kept)
      <3>1. \A k \in Places : k < next => kept[k] # {}
        BY <1>3, <1>4, <1>8, <2>2
      <3> QED
        BY <1>4, <2>2, <2>3, <3>1 DEF Filters
    <2>7. Advances
      BY <1>2, <2>1, <2>4, <2>5 DEF Advances, WithSelected
    <2>8. Filtering'
      BY <2>1, <2>5, <2>6, FiltersOn
    <2>9. BlocksFromSelected'
      BY <1>2, <2>5 DEF BlocksFromSelected, None
    <2> QED
      BY <1>2, <2>5, <2>7, <2>8, <2>9, AdvanceKeeps
  <1> QED
    BY <1>6, <1>7, <1>8

\* A chunk of photos is filtered.
LEMMA FilterChunkKeeps == StoryInv /\ FilterChunk => StoryInv'
  <1> SUFFICES ASSUME StoryInv, FilterChunk PROVE StoryInv'
    OBVIOUS
  <1>1. story.pc = "filter" /\ story \in StoryStates
    BY DEF FilterChunk, At, StoryInv, StoryTypeOK
  <1>2. CASE End("DOWNLOAD_FAILED") \/ End("DECODE_FAILED")
    BY <1>1, <1>2, EndKeeps DEF Outcomes
  <1>3. CASE ~(End("DOWNLOAD_FAILED") \/ End("DECODE_FAILED"))
    <2> DEFINE size == Min({Chunk, Len(story.left)})
               first == SubSeq(story.left, 1, size)
               rest == SubSeq(story.left, size + 1, Len(story.left))
               now == FoldLeft(Retain, story.kept[story.place], first)
               kept == [story.kept EXCEPT ![story.place] = now]
               place == request.places[story.place]
    <2>1. IF rest = <<>> THEN NextPlace(kept)
          ELSE GoOn([story EXCEPT !.kept = kept, !.left = rest])
      BY <1>3 DEF FilterChunk
    <2>2. Filters(story.place, story.left, story.kept)
      BY <1>1 DEF StoryInv, Filtering, Filters
    <2>3. /\ story.left \in Seq(place) /\ story.place \in Places
          /\ story.kept \in [Places -> SUBSET Photos]
          /\ \A k \in Places : story.kept[k] \in MayRetain(request.places[k])
          /\ \A k \in Places : k < story.place => story.kept[k] # {}
      BY <2>2 DEF Filters
    <2>4. IsStory(request)
      BY StoriesAssumption DEF StoryInv, StoryTypeOK
    <2>5. /\ Places = 1 .. Len(request.places) /\ Len(request.places) \in Nat
          /\ \A k \in Places : request.places[k] \in SUBSET Photos
      BY <2>4, PlacesAre
    <2>6. size \in Nat /\ size <= Len(story.left)
      <3>1. Len(story.left) \in Nat
        BY <2>3
      <3> QED
        BY <3>1, StoryAssumption, MinIs
    <2> HIDE DEF size
    <2>7. first \in Seq(place) /\ rest \in Seq(place)
      <3>1. \A i \in 1 .. Len(story.left) : story.left[i] \in place
        BY <2>3
      <3>2. Len(story.left) \in Nat
        BY <2>3
      <3>3. \A i \in 1 .. size : story.left[i] \in place
        BY <2>6, <3>1, <3>2
      <3>4. \A i \in size + 1 .. Len(story.left) : story.left[i] \in place
        BY <2>6, <3>1, <3>2
      <3> HIDE DEF place
      <3> QED
        BY <2>6, <3>2, <3>3, <3>4, SubSeqProperties
    <2> HIDE DEF first, rest
    <2>8. now \in MayRetain(place)
      BY <2>3, <2>7, FilterRetains
    <2> HIDE DEF now
    <2>9. now \in SUBSET Photos
      BY <2>3, <2>5, <2>8 DEF MayRetain
    <2>10. Filters(story.place, story.left, kept)
      <3>1. kept \in [Places -> SUBSET Photos]
        BY <2>3, <2>9
      <3>2. \A k \in Places : kept[k] = IF k = story.place THEN now ELSE story.kept[k]
        BY <2>3
      <3> HIDE DEF kept
      <3>3. \A k \in Places : k < story.place => k # story.place
        BY <2>3, <2>5
      <3> QED
        BY <2>2, <2>3, <2>8, <3>1, <3>2, <3>3 DEF Filters
    <2> HIDE DEF kept
    <2>11. CASE rest = <<>>
      BY <1>1, <2>1, <2>10, <2>11, NextPlaceKeeps
    <2>12. CASE rest # <<>>
      <3>1. story' = [story EXCEPT !.kept = kept, !.left = rest]
            /\ UNCHANGED <<request, cancelRequested>>
        BY <2>1, <2>12 DEF GoOn
      <3>2. kept \in KeptStates /\ rest \in Seq(Photos)
        <4>1. kept \in [Places -> SUBSET Photos]
          BY <2>10 DEF Filters
        <4>2. place \in SUBSET Photos
          BY <2>3, <2>5
        <4> HIDE DEF place
        <4> QED
          BY <2>7, <4>1, <4>2 DEF KeptStates
      <3>3. story' \in StoryStates
        BY <1>1, <3>1, <3>2 DEF StoryStates
      <3>4. /\ story'.pc = story.pc /\ story'.outcome = story.outcome /\ story'.place = story.place
            /\ story'.selected = story.selected /\ story'.left = rest /\ story'.kept = kept
        BY <1>1, <3>1 DEF StoryStates
      <3>5. story.outcome = None /\ story.selected = <<>> /\ request.valid
        BY <1>1 DEF StoryInv, StoryInTime, Unselected
      <3>6. Filters(story.place, rest, kept)
        BY <2>7, <2>10 DEF Filters
      <3>7. Advances
        BY <1>1, <3>1, <3>3, <3>4, <3>5 DEF Advances, WithSelected
      <3>8. Filtering'
        BY <3>1, <3>4, <3>6, FiltersOn
      <3>9. BlocksFromSelected'
        BY <1>1, <3>4, <3>5 DEF BlocksFromSelected, None
      <3> QED
        BY <1>1, <3>4, <3>5, <3>7, <3>8, <3>9, AdvanceKeeps
    <2> QED
      BY <2>11, <2>12
  <1> QED
    BY <1>2, <1>3

\* The vectors of what is kept are there.
LEMMA FetchVectorsKeeps == StoryInv /\ FetchVectors => StoryInv'
  <1> SUFFICES ASSUME StoryInv, FetchVectors PROVE StoryInv'
    OBVIOUS
  <1>1. story.pc = "filtered" /\ story \in StoryStates
    BY DEF FetchVectors, At, StoryInv, StoryTypeOK
  <1>2. CASE GoOn([story EXCEPT !.pc = "fetched"])
    <2>1. story' = [story EXCEPT !.pc = "fetched"] /\ UNCHANGED <<request, cancelRequested>>
      BY <1>2 DEF GoOn
    <2>2. story' \in StoryStates
      BY <1>1, <2>1 DEF StoryStates, Unselected
    <2>3. /\ story'.pc = "fetched" /\ story'.outcome = story.outcome
          /\ story'.kept = story.kept /\ story'.selected = story.selected
      BY <1>1, <2>1 DEF StoryStates
    <2>4. story.outcome = None /\ story.selected = <<>> /\ request.valid /\ Ready(story.kept)
      BY <1>1 DEF StoryInv, StoryInTime, SelectedFromKept, Unselected
    <2>5. Advances
      BY <2>1, <2>2, <2>3, <2>4 DEF Advances, WithSelected
    <2>6. Filtering' /\ BlocksFromSelected'
      BY <2>3, <2>4 DEF Filtering, BlocksFromSelected, None
    <2> QED
      BY <2>3, <2>4, <2>5, <2>6, AdvanceKeeps
  <1>3. CASE End("TIMEOUT") \/ End("MODEL_NOT_READY")
    BY <1>1, <1>3, EndKeeps DEF Outcomes
  <1> QED
    BY <1>2, <1>3 DEF FetchVectors

\* The selection is fair because allocate and choose are.
LEMMA SelectPhotosKeeps == StoryInv /\ SelectPhotos => StoryInv'
  <1> SUFFICES ASSUME StoryInv, SelectPhotos PROVE StoryInv'
    OBVIOUS
  <1>1. story.pc = "fetched" /\ story \in StoryStates /\ IsStory(request)
    BY StoriesAssumption DEF SelectPhotos, At, StoryInv, StoryTypeOK
  <1>2. CASE \E k \in Places : ~(story.kept[k] \subseteq request.vectors)
    <2>1. End("MODEL_NOT_READY")
      BY <1>2 DEF SelectPhotos
    <2> QED
      BY <1>1, <2>1, EndKeeps DEF Outcomes
  <1>3. CASE ~\E k \in Places : ~(story.kept[k] \subseteq request.vectors)
    <2> DEFINE selected == Selection(story.kept, request.budget)
    <2>1. story' = [story EXCEPT !.pc = "selected", !.selected = selected]
          /\ UNCHANGED <<request, cancelRequested>>
      BY <1>3 DEF SelectPhotos, GoOn
    <2>2. story.outcome = None /\ request.valid /\ Ready(story.kept)
      BY <1>1 DEF StoryInv, StoryInTime, SelectedFromKept, Unselected
    <2>3. /\ FairSelection(story.kept, selected)
          /\ selected \in Seq(Photos) /\ selected # <<>>
          /\ Range(selected) \subseteq UNION {story.kept[k] : k \in Places}
      BY <1>1, <2>2, SelectedFairly
    <2> HIDE DEF selected
    <2>4. story' \in StoryStates
      BY <1>1, <2>1, <2>3 DEF StoryStates, WithSelected
    <2>5. /\ story'.pc = "selected" /\ story'.outcome = story.outcome
          /\ story'.kept = story.kept /\ story'.selected = selected
      BY <1>1, <2>1 DEF StoryStates
    <2>6. Advances
      BY <2>1, <2>2, <2>3, <2>4, <2>5 DEF Advances, Unselected
    <2>7. Filtering' /\ BlocksFromSelected'
      BY <2>2, <2>5 DEF Filtering, BlocksFromSelected, None
    <2>8. /\ Ready(story'.kept) /\ FairSelection(story'.kept, story'.selected)
          /\ Range(story'.selected) \subseteq UNION {story'.kept[k] : k \in Places}
      BY <2>2, <2>3, <2>5
    <2> QED
      BY <2>5, <2>6, <2>7, <2>8, AdvanceKeeps
  <1> QED
    BY <1>2, <1>3

\* The url of one more photo.
LEMMA ResolveUrlKeeps == StoryInv /\ ResolveUrl => StoryInv'
  <1> SUFFICES ASSUME StoryInv, ResolveUrl PROVE StoryInv'
    OBVIOUS
  <1>1. story.pc = "selected" /\ story \in StoryStates
    BY DEF ResolveUrl, At, StoryInv, StoryTypeOK
  <1>2. CASE GoOn([story EXCEPT !.urls = @ + 1])
    <2> DEFINE urls == story.urls + 1
    <2>1. story' = [story EXCEPT !.urls = urls] /\ UNCHANGED <<request, cancelRequested>>
      BY <1>2 DEF GoOn
    <2>2. urls \in Nat
      BY <1>1 DEF StoryStates
    <2> HIDE DEF urls
    <2>3. story' \in StoryStates
      BY <1>1, <2>1, <2>2 DEF StoryStates
    <2>4. /\ story'.pc = story.pc /\ story'.outcome = story.outcome
          /\ story'.kept = story.kept /\ story'.selected = story.selected
      BY <1>1, <2>1 DEF StoryStates
    <2>5. story.outcome = None /\ story.selected # <<>> /\ request.valid
      BY <1>1 DEF StoryInv, StoryInTime, SelectedFromKept, WithSelected
    <2>6. Advances
      BY <1>1, <2>1, <2>3, <2>4, <2>5 DEF Advances, Unselected
    <2>7. Filtering' /\ BlocksFromSelected'
      BY <1>1, <2>4, <2>5 DEF Filtering, BlocksFromSelected, None
    <2> QED
      BY <1>1, <2>4, <2>6, <2>7, AdvanceKeeps
  <1>3. CASE End("VLM_UNAVAILABLE")
    BY <1>1, <1>3, EndKeeps DEF Outcomes
  <1> QED
    BY <1>2, <1>3 DEF ResolveUrl

\* Drafts are of photos.
LEMMA DraftsArePhotos ==
    ASSUME NEW selected \in Seq(Photos), selected # <<>>
    PROVE  Drafts(selected) \subseteq Seq(Photos)
  <1>1. selected[1] \in Photos /\ Tail(selected) \in Seq(Photos) /\ Len(selected) \in Nat
    BY HeadTailProperties
  <1>2. Reverse(selected) \in Seq(Photos)
    <2> DEFINE n == Len(selected)
               reversed == [i \in 1 .. n |-> selected[(n - i) + 1]]
    <2>1. \A i \in 1 .. n : selected[(n - i) + 1] \in Photos
      <3> TAKE i \in 1 .. n
      <3>1. (n - i) + 1 \in 1 .. n
        BY <1>1
      <3> QED
        BY <3>1
    <2> HIDE DEF n
    <2>2. reversed \in Seq(Photos)
      BY <1>1, <2>1 DEF n
    <2> QED
      BY <2>2 DEF Reverse, n
  <1>3. Append(selected, selected[1]) \in Seq(Photos)
    BY <1>1
  <1>4. \A p \in Photos : Append(Tail(selected), p) \in Seq(Photos)
    BY <1>1
  <1>5. NoSchema \in Seq(Photos)
    BY DEF NoSchema
  <1> QED
    BY <1>1, <1>2, <1>3, <1>4, <1>5 DEF Drafts

\* A draft, whatever it says.
LEMMA WriteStoryKeeps == StoryInv /\ WriteStory => StoryInv'
  <1> SUFFICES ASSUME StoryInv, WriteStory PROVE StoryInv'
    OBVIOUS
  <1>1. story.pc = "selected" /\ story \in StoryStates
    BY DEF WriteStory, At, StoryInv, StoryTypeOK
  <1>2. story.outcome = None /\ story.selected # <<>> /\ request.valid
    BY <1>1 DEF StoryInv, StoryInTime, SelectedFromKept, WithSelected
  <1>3. CASE \E draft \in Drafts(story.selected) :
                GoOn([story EXCEPT !.pc = "drafted", !.draft = draft])
    <2>1. PICK draft \in Drafts(story.selected) :
                GoOn([story EXCEPT !.pc = "drafted", !.draft = draft])
      BY <1>3
    <2>2. story' = [story EXCEPT !.pc = "drafted", !.draft = draft]
          /\ UNCHANGED <<request, cancelRequested>>
      BY <2>1 DEF GoOn
    <2>3. draft \in Seq(Photos)
      <3>1. story.selected \in Seq(Photos)
        BY <1>1 DEF StoryStates
      <3> QED
        BY <1>2, <3>1, DraftsArePhotos
    <2>4. story' \in StoryStates
      BY <1>1, <2>2, <2>3 DEF StoryStates, WithSelected
    <2>5. /\ story'.pc = "drafted" /\ story'.outcome = story.outcome
          /\ story'.kept = story.kept /\ story'.selected = story.selected
      BY <1>1, <2>2 DEF StoryStates
    <2>6. Advances
      BY <1>2, <2>2, <2>4, <2>5 DEF Advances, Unselected
    <2>7. Filtering' /\ BlocksFromSelected'
      BY <1>2, <2>5 DEF Filtering, BlocksFromSelected, None
    <2> QED
      BY <2>5, <2>6, <2>7, AdvanceKeeps
  <1>4. CASE End("VLM_UNAVAILABLE") \/ End("TIMEOUT")
    BY <1>1, <1>4, EndKeeps DEF Outcomes
  <1> QED
    BY <1>3, <1>4 DEF WriteStory

\* A sequence has finitely many elements.
LEMMA RangeIsFinite ==
    ASSUME NEW S, NEW seq \in Seq(S)
    PROVE  IsFiniteSet(Range(seq)) /\ Range(seq) \in SUBSET S
  <1>1. Len(seq) \in Nat /\ DOMAIN seq = 1 .. Len(seq) /\ \A i \in DOMAIN seq : seq[i] \in S
    OBVIOUS
  <1>2. 1 \in Int /\ Len(seq) \in Int
    BY <1>1
  <1>3. IsFiniteSet(DOMAIN seq)
    BY <1>1, <1>2, FS_Interval
  <1>4. seq \in Surjection(DOMAIN seq, Range(seq))
    BY <1>1 DEF Surjection, Range
  <1>5. IsFiniteSet(Range(seq))
    BY <1>3, <1>4, FS_Surjection
  <1> QED
    BY <1>1, <1>5 DEF Range

\* A draft with exactly the selected photos becomes the blocks.
LEMMA VerifyStoryKeeps == StoryInv /\ VerifyStory => StoryInv'
  <1> SUFFICES ASSUME StoryInv, VerifyStory PROVE StoryInv'
    OBVIOUS
  <1>1. story.pc = "drafted" /\ story \in StoryStates /\ IsStory(request)
    BY StoriesAssumption DEF VerifyStory, At, StoryInv, StoryTypeOK
  <1>2. story.outcome = None /\ story.selected # <<>> /\ request.valid
    BY <1>1 DEF StoryInv, StoryInTime, SelectedFromKept, WithSelected
  <1>3. CASE Acceptable(story.draft, story.selected)
    <2> DEFINE blocks == InOrder(Range(story.draft))
               nothing == <<>>
    <2>1. story' = [story EXCEPT !.pc = "verified", !.draft = nothing, !.blocks = blocks]
          /\ UNCHANGED <<request, cancelRequested>>
      BY <1>3 DEF VerifyStory, GoOn, NoSchema
    <2>2. Range(story.draft) = Range(story.selected)
          /\ \A k \in Places : \E p \in request.places[k] : p \in Range(story.selected)
      BY <1>3 DEF Acceptable
    <2>3. nothing \in Seq(Photos)
      OBVIOUS
    <2>4. blocks \in Seq(Photos)
      <3> DEFINE photos == Range(story.draft)
      <3>1. story.draft \in Seq(Photos)
        BY <1>1 DEF StoryStates
      <3>2. IsFiniteSet(photos) /\ photos \in SUBSET Photos
        BY <3>1, RangeIsFinite
      <3> HIDE DEF photos
      <3>3. InOrder(photos) \in Seq(photos)
        BY <1>1, <3>2, InOrderIs
      <3>4. InOrder(photos) \in Seq(Photos)
        BY <3>2, <3>3
      <3> QED
        BY <3>4 DEF photos
    <2>5. blocks = InOrder(Range(story.selected))
      BY <2>2
    <2> HIDE DEF blocks, nothing
    <2>6. story' \in StoryStates
      BY <1>1, <2>1, <2>3, <2>4 DEF StoryStates, WithSelected
    <2>7. /\ story'.pc = "verified" /\ story'.outcome = story.outcome
          /\ story'.kept = story.kept /\ story'.selected = story.selected /\ story'.blocks = blocks
      BY <1>1, <2>1 DEF StoryStates
    <2>8. Advances
      BY <1>2, <2>1, <2>6, <2>7 DEF Advances, Unselected
    <2>9. Filtering'
      BY <2>7 DEF Filtering
    <2>10. BlocksFromSelected'
      <3>1. \A S : InOrder(S)' = InOrder(S)
        BY <2>1, SameRequest
      <3>2. Places' = Places /\ request' = request
        BY <2>1, SameRequest
      <3> QED
        BY <2>2, <2>5, <2>7, <3>1, <3>2 DEF BlocksFromSelected
    <2> QED
      BY <2>7, <2>8, <2>9, <2>10, AdvanceKeeps
  <1>4. CASE ~Acceptable(story.draft, story.selected)
    <2>1. End("INTERNAL_ERROR")
      BY <1>4 DEF VerifyStory
    <2> QED
      BY <1>1, <2>1, EndKeeps DEF Outcomes
  <1> QED
    BY <1>3, <1>4

\* The blocks become the result.
LEMMA CompleteStoryKeeps == StoryInv /\ CompleteStory => StoryInv'
  BY EndKeeps DEF CompleteStory, At, Outcomes

-----------------------------------------------------------------------------
(* Stories: the theorems.                                                  *)

\* run and select of the story pipeline: what is selected comes from the photos
\* that the filter has left in each place, and the blocks of a story that is
\* verified or completed are the selected photos by time.
THEOREM StoryInvariant == StorySpec => []StoryInv
  <1>1. StoryInit => StoryInv
    BY StoryStarts
  <1>2. StoryInv /\ [StoryNext]_storyVars => StoryInv'
    <2> SUFFICES ASSUME StoryInv, [StoryNext]_storyVars PROVE StoryInv'
      OBVIOUS
    <2>1. CASE StoryNext
      BY <2>1, CancelStoryKeeps, SeeCancelKeeps, ValidateStoryKeeps, OpenClientsKeeps,
         StartSelectingKeeps, FilterChunkKeeps, FetchVectorsKeeps, SelectPhotosKeeps,
         ResolveUrlKeeps, WriteStoryKeeps, VerifyStoryKeeps, CompleteStoryKeeps DEF StoryNext
    <2>2. CASE UNCHANGED storyVars
      <3>1. UNCHANGED <<request, story>> /\ cancelRequested' = cancelRequested
        BY <2>2 DEF storyVars
      <3>2. cancelRequested' \in BOOLEAN
        BY <3>1 DEF StoryInv, StoryTypeOK
      <3> QED
        BY <3>1, <3>2, StoryStays
    <2> QED
      BY <2>1, <2>2
  <1> QED
    BY <1>1, <1>2, PTL DEF StorySpec

\* allocate and choose, for any places, budget and similarities: every place is
\* in the story, its photos are scenes of their own and as many as its
\* proportional share, and the budget is used up unless scenes run out.
THEOREM SelectsFairly == StorySpec => []SelectionIsFair
  <1>1. StoryInv => SelectionIsFair
    <2> SUFFICES ASSUME StoryInv, story.selected # <<>> PROVE SelectionIsFair
      BY DEF SelectionIsFair
    <2>1. FairSelection(story.kept, story.selected)
      BY DEF StoryInv, SelectedFromKept
    <2>2. ASSUME NEW k PROVE Spare(k) = SpareOf(story.kept, story.selected, k)
      BY DEF Spare, SpareOf, Chosen, LooksLikeChosen
    <2>3. ASSUME NEW k PROVE Chosen(k) = story.kept[k] \cap Range(story.selected)
      BY DEF Chosen
    <2> QED
      BY <2>1, <2>2, <2>3, Zenon DEF FairSelection, SelectionIsFair
  <1> QED
    BY <1>1, StoryInvariant, PTL

\* finalize and filter_candidates: a completed story tells of each selected photo
\* once, by time, of sharp photos without near duplicates in a place, and of
\* every place.
THEOREM StoriesAreWhole == StorySpec => []StoryIsWhole
  <1>1. StoryInv => StoryIsWhole
    <2> SUFFICES ASSUME StoryInv, story.outcome = "COMPLETED" PROVE StoryIsWhole
      BY DEF StoryIsWhole
    <2> DEFINE photos == Range(story.selected)
    <2>1. story \in StoryStates /\ IsStory(request)
      BY StoriesAssumption DEF StoryInv, StoryTypeOK
    <2>2. /\ Ready(story.kept) /\ photos \subseteq UNION {story.kept[k] : k \in Places}
          /\ story.blocks = InOrder(photos)
          /\ \A k \in Places : \E p \in request.places[k] : p \in photos
      BY DEF StoryInv, SelectedFromKept, BlocksFromSelected
    <2>3. IsFiniteSet(photos) /\ photos \in SUBSET Photos
      <3>1. story.selected \in Seq(Photos)
        BY <2>1 DEF StoryStates
      <3> QED
        BY <3>1, RangeIsFinite
    <2> HIDE DEF photos
    <2>4. /\ Range(story.blocks) = photos
          /\ \A i, j \in DOMAIN story.blocks : i < j => Before(story.blocks[i], story.blocks[j])
      BY <2>1, <2>2, <2>3, InOrderIs
    <2>5. \A k \in Places : story.kept[k] \in MayRetain(request.places[k])
      BY <2>2 DEF Ready
    <2>6. \A k \in Places : story.kept[k] \subseteq request.sharp
                            /\ story.kept[k] \subseteq request.places[k]
      BY <2>5 DEF MayRetain
    <2>7. photos \subseteq request.sharp
      BY <2>2, <2>6
    <2>8. \A k, m \in Places : k # m => request.places[k] \cap request.places[m] = {}
      BY <2>1, <2>2, ReadyIs
    <2>9. ASSUME NEW k \in Places
          PROVE  /\ request.places[k] \cap photos # {}
                 /\ \A p, q \in request.places[k] \cap photos : {p, q} \in request.close => p = q
      <3>1. request.places[k] \cap photos # {}
        BY <2>2
      <3>2. request.places[k] \cap photos \subseteq story.kept[k]
        BY <2>2, <2>6, <2>8
      <3> QED
        BY <2>5, <3>1, <3>2 DEF MayRetain
    <2> QED
      BY <2>4, <2>7, <2>9 DEF StoryIsWhole, photos
  <1> QED
    BY <1>1, StoryInvariant, PTL

-----------------------------------------------------------------------------
(* Queries: what is selected.                                              *)

\* What the model requires of a request.
LEMMA RequestIs ==
    ASSUME query \in Queries, IsSearch
    PROVE  /\ DOMAIN query.candidates \subseteq Nat /\ IsFiniteSet(DOMAIN query.candidates)
           /\ \A p \in DOMAIN query.candidates : query.candidates[p] \in 0 .. 23 \cup {NoTime}
           /\ query.intent \in {"SEARCH", "QUESTION"} /\ query.words \subseteq DOMAIN TimeWindows
           /\ Limit \in Nat \ {0}
  BY InputAssumption, QueryAssumption DEF IsRequest, IsSearch, Limit

\* What may be returned to the caller.
IsResult(photos) == photos \in Seq(Nat) /\ ResultIsValid(photos)

\* The first ones of sorted candidates are a result.
LEMMA FirstOfSorted ==
    ASSUME query \in Queries, IsSearch,
           NEW S \in SUBSET Candidates, NEW R, OrdersStrictly(R, S)
    PROVE  IsResult(First(SortedBy(S, R), Limit))
  <1> DEFINE seq == SortedBy(S, R)
  <1> DEFINE sel == First(seq, Limit)
  <1>1. Candidates \subseteq DOMAIN query.candidates
    BY DEF Candidates
  <1>2. IsFiniteSet(S) /\ S \subseteq DOMAIN query.candidates /\ S \subseteq Nat
    BY <1>1, RequestIs, FS_Subset
  <1>3. Limit \in Nat
    BY RequestIs
  <1>4. /\ seq \in Seq(S) /\ Len(seq) = Cardinality(S)
        /\ \A i, j \in 1 .. Cardinality(S) : i < j => seq[i] # seq[j]
    <2>1. /\ SortedBy(S, R) \in Seq(S)
          /\ Len(SortedBy(S, R)) = Cardinality(S)
          /\ \A i, j \in 1 .. Cardinality(S) :
                i < j => /\ <<SortedBy(S, R)[i], SortedBy(S, R)[j]>> \in R
                         /\ SortedBy(S, R)[i] # SortedBy(S, R)[j]
      BY <1>2, Sorted
    <2> HIDE DEF seq
    <2>2. seq = SortedBy(S, R)
      BY DEF seq
    <2> QED
      BY <2>1, <2>2
  <1> HIDE DEF seq
  <1>5. /\ sel \in Seq(S)
        /\ Len(sel) = IF Limit <= Len(seq) THEN Limit ELSE Len(seq)
        /\ \A k \in 1 .. Len(sel) : sel[k] = seq[k]
    BY <1>3, <1>4, FirstIs
  <1> HIDE DEF sel
  <1>6. Len(seq) \in Nat /\ Len(sel) <= Limit /\ Len(sel) <= Len(seq) /\ Len(sel) \in Nat
    BY <1>3, <1>4, <1>5
  <1>7. \A i, j \in 1 .. Len(sel) : i < j => sel[i] # sel[j]
    <2> TAKE i, j \in 1 .. Len(sel)
    <2>1. i \in 1 .. Len(seq) /\ j \in 1 .. Len(seq)
      BY <1>6
    <2> QED
      BY <1>4, <1>5, <2>1
  <1>8. Cardinality(ToSet(sel)) = Len(sel)
    BY <1>5, <1>7, NothingTwice
  <1>9. ToSet(sel) \subseteq S
    BY <1>5 DEF ToSet
  <1>10. sel \in Seq(Nat)
    BY <1>2, <1>5, SeqMonotonic
  <1>11. IsResult(sel)
    BY <1>2, <1>6, <1>8, <1>9, <1>10 DEF IsResult, ResultIsValid
  <1> QED
    BY <1>11 DEF sel, seq

\* The order of photos without a visual query.
TimeOrder(photos) ==
    {pq \in photos \X photos :
        \/ query.candidates[pq[1]] < query.candidates[pq[2]]
        \/ query.candidates[pq[1]] = query.candidates[pq[2]] /\ pq[1] < pq[2]}

\* It is strict and total.
LEMMA TimeOrderIsStrict ==
    ASSUME query \in Queries, IsSearch
    PROVE  OrdersStrictly(TimeOrder(Candidates), Candidates)
  <1> DEFINE hour == query.candidates
  <1>1. \A p \in Candidates : p \in Nat /\ hour[p] \in Int
    BY RequestIs DEF Candidates, NoTime
  <1>2. \A p, q \in Candidates :
          <<p, q>> \in TimeOrder(Candidates) <=> hour[p] < hour[q] \/ (hour[p] = hour[q] /\ p < q)
    BY DEF TimeOrder
  <1> HIDE DEF hour
  <1> QED
    BY <1>1, <1>2 DEF OrdersStrictly

\* The photos in that order.
LEMMA InTimeOrderIs ==
    InTimeOrder(Candidates) = SortedBy(Candidates, TimeOrder(Candidates))
  BY DEF InTimeOrder, TimeOrder

\* Hits are photos of the store with a score.
Hits == Attachments \X Scores

\* The best score of a photo among the hits.
LEMMA BestScoreIs ==
    ASSUME NEW hits \in SUBSET Hits, NEW p \in HitPhotos(hits)
    PROVE  /\ BestScore(hits, p) \in Nat
           /\ <<p, BestScore(hits, p)>> \in hits
           /\ \A hit \in hits : hit[1] = p => hit[2] <= BestScore(hits, p)
  <1> DEFINE own == {h \in hits : h[1] = p}
  <1> DEFINE scores == {hit[2] : hit \in own}
  <1>1. scores \in SUBSET Nat /\ scores \subseteq Scores
    BY QueryAssumption DEF Hits
  <1>2. IsFiniteSet(scores)
    BY <1>1, QueryAssumption, FS_Subset
  <1>3. scores # {}
    BY DEF HitPhotos
  <1>4. Max(scores) \in scores /\ \A x \in scores : x <= Max(scores)
    BY <1>1, <1>2, <1>3, MaxIs
  <1>5. BestScore(hits, p) = Max(scores)
    BY DEF BestScore
  <1>6. PICK hit \in hits : hit[1] = p /\ hit[2] = Max(scores)
    BY <1>4
  <1>7. hit = <<p, Max(scores)>>
    BY <1>6 DEF Hits
  <1> QED
    BY <1>1, <1>4, <1>5, <1>7

\* The order of photos by their best scores.
ScoreOrder(hits, photos) ==
    {pq \in photos \X photos :
        \/ BestScore(hits, pq[1]) > BestScore(hits, pq[2])
        \/ BestScore(hits, pq[1]) = BestScore(hits, pq[2]) /\ pq[1] < pq[2]}

\* It is strict and total as well.
LEMMA ScoreOrderIsStrict ==
    ASSUME NEW hits \in SUBSET Hits, NEW photos \in SUBSET HitPhotos(hits)
    PROVE  OrdersStrictly(ScoreOrder(hits, photos), photos)
  <1> DEFINE score(p) == BestScore(hits, p)
  <1>1. \A p \in photos : p \in Nat /\ score(p) \in Nat
    <2>1. HitPhotos(hits) \subseteq Nat
      BY QueryAssumption DEF HitPhotos, Hits
    <2> QED
      BY <2>1, BestScoreIs
  <1>2. \A p, q \in photos :
          <<p, q>> \in ScoreOrder(hits, photos) <=> score(p) > score(q) \/ (score(p) = score(q) /\ p < q)
    BY DEF ScoreOrder
  <1> HIDE DEF score
  <1> QED
    BY <1>1, <1>2 DEF OrdersStrictly

\* The photos that the cutoff leaves.
HighHits(hits) ==
    {p \in HitPhotos(hits) :
        /\ BestScore(hits, p) >= MinScore
        /\ BestScore(hits, p) * RatioDen >= Max({hit[2] : hit \in hits}) * RatioNum}

\* The cutoff is that of apply_cutoff.
LEMMA CutoffIs ==
    ASSUME NEW hits
    PROVE  Cutoff(hits) = SortedBy(HighHits(hits), ScoreOrder(hits, HighHits(hits)))
  BY DEF Cutoff, Ranking, HighHits, ScoreOrder

\* Both kinds of selections are results.
LEMMA TimesAreResult ==
    ASSUME query \in Queries, IsSearch
    PROVE  IsResult(First(InTimeOrder(Candidates), Limit))
  BY InTimeOrderIs, TimeOrderIsStrict, FirstOfSorted

\* What is selected by score is a result.
LEMMA HitsAreResult ==
    ASSUME query \in Queries, IsSearch, NEW hits \in SUBSET Hits, Strays(hits) = {}
    PROVE  IsResult(First(Cutoff(hits), Limit))
  <1>1. HighHits(hits) \subseteq HitPhotos(hits)
    BY DEF HighHits
  <1>2. HitPhotos(hits) \subseteq Candidates
    BY DEF HitPhotos, Strays
  <1>3. OrdersStrictly(ScoreOrder(hits, HighHits(hits)), HighHits(hits))
    BY <1>1, ScoreOrderIsStrict
  <1> QED
    BY <1>1, <1>2, <1>3, CutoffIs, FirstOfSorted

\* Nothing is a result as well.
LEMMA NothingIsResult ==
    ASSUME query \in Queries, IsSearch
    PROVE  IsResult(<<>>)
  <1>1. ToSet(<<>>) = {} /\ Len(<<>>) = 0 /\ <<>> \in Seq(Nat)
    BY DEF ToSet
  <1>2. Limit \in Nat /\ Cardinality({}) = 0
    BY RequestIs, FS_EmptySet
  <1>3. ResultIsValid(<<>>)
    BY <1>1, <1>2 DEF ResultIsValid
  <1> QED
    BY <1>1, <1>3 DEF IsResult

-----------------------------------------------------------------------------
(* Queries: the evidence.                                                  *)

\* The windows are the hours that the words name.
LEMMA WindowIsHours ==
    ASSUME NEW word \in DOMAIN TimeWindows, NEW hour \in 0 .. 23,
           InWindow(TimeWindows[word], hour)
    PROVE  hour \in Hours(word)
  <1> DEFINE start == TimeWindows[word][1]
  <1> DEFINE end == TimeWindows[word][2]
  <1> DEFINE i == (hour - start) % 24
  <1>1. word \in {"morning", "forenoon", "lunch", "afternoon", "evening", "night"}
    BY DEF TimeWindows
  <1>2. /\ word = "morning"   => start = 6  /\ end = 11
        /\ word = "forenoon"  => start = 6  /\ end = 12
        /\ word = "lunch"     => start = 11 /\ end = 14
        /\ word = "afternoon" => start = 14 /\ end = 18
        /\ word = "evening"   => start = 18 /\ end = 22
        /\ word = "night"     => start = 22 /\ end = 6
    BY DEF TimeWindows
  <1>3. IF start < end THEN start <= hour /\ hour < end ELSE hour >= start \/ hour < end
    BY DEF InWindow
  <1>4. hour \in Hours(word) <=> \E k \in 0 .. ((end - start) % 24) - 1 : hour = (start + k) % 24
    BY DEF Hours
  <1> HIDE DEF start, end
  <1>5. i \in 0 .. ((end - start) % 24) - 1 /\ hour = (start + i) % 24
    <2>1. CASE word = "morning"
      BY <1>2, <1>3, <2>1
    <2>2. CASE word = "forenoon"
      BY <1>2, <1>3, <2>2
    <2>3. CASE word = "lunch"
      BY <1>2, <1>3, <2>3
    <2>4. CASE word = "afternoon"
      BY <1>2, <1>3, <2>4
    <2>5. CASE word = "evening"
      BY <1>2, <1>3, <2>5
    <2>6. CASE word = "night"
      <3>1. start = 22 /\ end = 6
        BY <1>2, <2>6
      <3>2. (end - start) % 24 = 8
        <4>1. \A x \in -24 .. -1 : x % 24 = x + 24
          OBVIOUS
        <4>2. end - start \in -24 .. -1 /\ end - start + 24 = 8
          BY <3>1
        <4> QED
          BY <4>1, <4>2
      <3>3. CASE hour >= 22
        <4>1. (hour - 22) % 24 = hour - 22 /\ (22 + (hour - 22)) % 24 = hour
          BY <3>3
        <4> QED
          BY <3>1, <3>2, <3>3, <4>1
      <3>4. CASE hour < 6
        <4>1. (hour - 22) % 24 = hour + 2 /\ (22 + (hour + 2)) % 24 = hour
          BY <3>4
        <4> QED
          BY <3>1, <3>2, <3>4, <4>1
      <3> QED
        BY <1>3, <3>1, <3>3, <3>4
    <2> QED
      BY <1>1, <2>1, <2>2, <2>3, <2>4, <2>5, <2>6
  <1> QED
    BY <1>4, <1>5

\* What is selected by time or by score.
Evidence ==
    answering.selected # <<>> =>
        \/ /\ answering.hits = {}
           /\ answering.selected = First(InTimeOrder(Candidates), Limit)
        \/ /\ answering.hits \in (SUBSET Hits) \ {{}}
           /\ Strays(answering.hits) = {}
           /\ answering.selected = First(Cutoff(answering.hits), Limit)

\* Products with a number that is not negative keep the order.
LEMMA TimesKeepsOrder ==
    ASSUME NEW a \in Nat, NEW b \in Nat, NEW c \in Nat, a <= b
    PROVE  a * c <= b * c
  <1>1. PICK d \in Nat : b = a + d
    <2>1. b - a \in Nat /\ b = a + (b - a)
      OBVIOUS
    <2> QED
      BY <2>1
  <1>2. b * c = a * c + d * c /\ d * c \in Nat /\ a * c \in Nat
    BY <1>1
  <1> QED
    BY <1>2

\* High are the hits that the properties call so.
LEMMA HighIs ==
    ASSUME NEW hits \in (SUBSET Hits) \ {{}}, NEW p \in HitPhotos(hits)
    PROVE  p \in HighHits(hits) <=>
             /\ BestScore(hits, p) >= MinScore
             /\ \A hit \in hits : BestScore(hits, p) * RatioDen >= hit[2] * RatioNum
  <1> DEFINE scores == {hit[2] : hit \in hits}
  <1>1. scores \in SUBSET Nat /\ scores \subseteq Scores
    BY QueryAssumption DEF Hits
  <1>2. IsFiniteSet(scores) /\ scores # {}
    BY <1>1, QueryAssumption, FS_Subset
  <1>3. Max(scores) \in scores /\ \A x \in scores : x <= Max(scores)
    BY <1>1, <1>2, MaxIs
  <1>4. PICK top \in hits : top[2] = Max(scores)
    <2> DEFINE m == Max(scores)
    <2>1. m \in {hit[2] : hit \in hits}
      BY <1>3
    <2> HIDE DEF m
    <2>2. \E top \in hits : top[2] = m
      BY <2>1
    <2> QED
      BY <2>2 DEF m
  <1>5. BestScore(hits, p) \in Nat /\ RatioNum \in Nat /\ RatioDen \in Nat
    <2>1. BestScore(hits, p) \in Nat
      BY BestScoreIs
    <2>2. RatioNum \in Nat /\ RatioDen \in Nat
      BY QueryAssumption
    <2> QED
      BY <2>1, <2>2
  <1>6. \A hit \in hits : hit[2] \in Nat /\ hit[2] * RatioNum <= Max(scores) * RatioNum
    BY <1>1, <1>3, <1>5, TimesKeepsOrder
  <1>7. p \in HighHits(hits) <=> /\ BestScore(hits, p) >= MinScore
                                 /\ BestScore(hits, p) * RatioDen >= Max(scores) * RatioNum
    BY DEF HighHits
  <1>8. Max(scores) \in Nat
    BY <1>1, <1>3
  <1> HIDE DEF scores
  <1>9. \A hit \in hits : hit[2] * RatioNum \in Nat
    BY <1>5, <1>6
  <1>10. BestScore(hits, p) * RatioDen \in Nat /\ Max(scores) * RatioNum \in Nat
    BY <1>5, <1>8
  <1>11. BestScore(hits, p) * RatioDen >= Max(scores) * RatioNum
         <=> \A hit \in hits : BestScore(hits, p) * RatioDen >= hit[2] * RatioNum
    <2>1. ASSUME BestScore(hits, p) * RatioDen >= Max(scores) * RatioNum, NEW hit \in hits
          PROVE  BestScore(hits, p) * RatioDen >= hit[2] * RatioNum
      <3>1. hit[2] * RatioNum <= Max(scores) * RatioNum /\ hit[2] * RatioNum \in Nat
        BY <1>6, <1>9
      <3> QED
        BY <1>10, <2>1, <3>1
    <2>2. ASSUME \A hit \in hits : BestScore(hits, p) * RatioDen >= hit[2] * RatioNum
          PROVE  BestScore(hits, p) * RatioDen >= Max(scores) * RatioNum
      BY <1>4, <2>2
    <2> QED
      BY <2>1, <2>2
  <1> QED
    BY <1>7, <1>11

\* What comes from the hits are the best of them.
LEMMA HitsAreBest ==
    ASSUME query \in Queries, IsSearch,
           NEW hits \in (SUBSET Hits) \ {{}}, NEW sel, sel = First(Cutoff(hits), Limit)
    PROVE  /\ sel \in Seq(HighHits(hits)) /\ Len(sel) <= Limit
           /\ \A i, j \in DOMAIN sel : i < j =>
                /\ sel[i] # sel[j]
                /\ BestScore(hits, sel[i]) >= BestScore(hits, sel[j])
           /\ \A p \in HighHits(hits) \ ToSet(sel) :
                sel # <<>> => /\ Len(sel) = Limit
                              /\ BestScore(hits, p) <= BestScore(hits, Last(sel))
  <1> DEFINE high == HighHits(hits)
  <1> DEFINE seq == Cutoff(hits)
  <1> DEFINE n == Cardinality(high)
  <1>1. high \subseteq HitPhotos(hits)
    BY DEF HighHits
  <1>2. IsFiniteSet(high)
    <2>1. high \subseteq Attachments
      BY <1>1 DEF HitPhotos, Hits
    <2> QED
      BY <2>1, QueryAssumption, FS_Subset
  <1>3. OrdersStrictly(ScoreOrder(hits, high), high)
    BY <1>1, ScoreOrderIsStrict
  <1>4. /\ seq \in Seq(high) /\ Len(seq) = n
        /\ \A p \in high : \E k \in 1 .. n : seq[k] = p
        /\ \A i, j \in 1 .. n :
             i < j => <<seq[i], seq[j]>> \in ScoreOrder(hits, high) /\ seq[i] # seq[j]
    <2> DEFINE R == ScoreOrder(hits, high)
    <2>1. seq = SortedBy(high, R)
      BY CutoffIs
    <2> HIDE DEF high, R
    <2>2. /\ SortedBy(high, R) \in Seq(high)
          /\ Len(SortedBy(high, R)) = n
          /\ \A p \in high : \E k \in 1 .. n : SortedBy(high, R)[k] = p
          /\ \A i, j \in 1 .. n :
                i < j => /\ <<SortedBy(high, R)[i], SortedBy(high, R)[j]>> \in R
                         /\ SortedBy(high, R)[i] # SortedBy(high, R)[j]
      BY <1>2, <1>3, Sorted DEF R
    <2> HIDE DEF seq
    <2> QED
      BY <2>1, <2>2 DEF R
  <1> HIDE DEF seq, n, high
  <1>5. Limit \in Nat \ {0} /\ n \in Nat
    BY <1>4, RequestIs
  <1>6. /\ sel \in Seq(high)
        /\ Len(sel) = IF Limit <= n THEN Limit ELSE n
        /\ \A k \in 1 .. Len(sel) : sel[k] = seq[k]
    <2>1. sel = First(seq, Limit)
      BY DEF seq
    <2>2. Len(seq) = n /\ seq \in Seq(high) /\ Limit \in Nat
      BY <1>4, <1>5
    <2>3. /\ First(seq, Limit) \in Seq(high)
          /\ Len(First(seq, Limit)) = IF Limit <= Len(seq) THEN Limit ELSE Len(seq)
          /\ \A k \in 1 .. Len(First(seq, Limit)) : First(seq, Limit)[k] = seq[k]
      BY <2>2, FirstIs
    <2> QED
      BY <2>1, <2>2, <2>3
  <1>7. Len(sel) <= Limit /\ Len(sel) <= n /\ Len(sel) \in Nat /\ DOMAIN sel = 1 .. Len(sel)
    BY <1>5, <1>6
  <1>8. \A p \in high : BestScore(hits, p) \in Nat
    BY <1>1, BestScoreIs
  <1>9. ASSUME NEW i \in 1 .. n, NEW j \in 1 .. n, i < j
        PROVE  BestScore(hits, seq[i]) >= BestScore(hits, seq[j]) /\ seq[i] # seq[j]
    <2>1. <<seq[i], seq[j]>> \in ScoreOrder(hits, high) /\ seq[i] # seq[j]
      BY <1>4, <1>9
    <2>2. \/ BestScore(hits, seq[i]) > BestScore(hits, seq[j])
          \/ BestScore(hits, seq[i]) = BestScore(hits, seq[j])
      BY <2>1 DEF ScoreOrder
    <2>3. seq[i] \in high /\ seq[j] \in high
      BY <1>4
    <2> QED
      BY <1>8, <2>1, <2>2, <2>3
  <1>10. ASSUME NEW i \in DOMAIN sel, NEW j \in DOMAIN sel, i < j
         PROVE  sel[i] # sel[j] /\ BestScore(hits, sel[i]) >= BestScore(hits, sel[j])
    <2>1. i \in 1 .. n /\ j \in 1 .. n
      BY <1>5, <1>7
    <2> QED
      BY <1>6, <1>7, <1>9, <1>10, <2>1
  <1>11. ASSUME NEW p \in high \ ToSet(sel), sel # <<>>
         PROVE  Len(sel) = Limit /\ BestScore(hits, p) <= BestScore(hits, Last(sel))
    <2>1. PICK k \in 1 .. n : seq[k] = p
      BY <1>4
    <2>2. k \notin 1 .. Len(sel)
      <3>1. SUFFICES ASSUME k \in 1 .. Len(sel) PROVE FALSE
        OBVIOUS
      <3>2. sel[k] = p /\ k \in DOMAIN sel
        BY <1>6, <1>7, <2>1, <3>1
      <3> QED
        BY <1>11, <3>2 DEF ToSet
    <2>3. Len(sel) < k /\ Len(sel) = Limit /\ Len(sel) \in 1 .. n
      BY <1>5, <1>6, <1>7, <2>2
    <2>4. Last(sel) = seq[Len(sel)]
      BY <1>6, <2>3 DEF Last
    <2>5. BestScore(hits, seq[Len(sel)]) >= BestScore(hits, p)
      BY <1>9, <2>1, <2>3
    <2>6. seq[Len(sel)] \in high
      BY <1>4, <2>3
    <2> QED
      BY <1>8, <2>3, <2>4, <2>5, <2>6
  <1> QED
    BY <1>6, <1>7, <1>10, <1>11 DEF high

\* What is selected by time or by score is the best evidence.
LEMMA EvidenceIsBest ==
    ASSUME query \in Queries, answering.selected # <<>> => IsSearch, Evidence,
           IsSearch => IsResult(answering.selected),
           answering.urls <= Len(answering.selected)
    PROVE  BestEvidence
  <1> DEFINE selected == answering.selected
  <1> DEFINE hits == answering.hits
  <1> DEFINE high(p) == /\ BestScore(hits, p) >= MinScore
                        /\ \A hit \in hits : BestScore(hits, p) * RatioDen >= hit[2] * RatioNum
  <1>1. SUFFICES ASSUME selected # <<>>
                 PROVE  /\ Len(selected) <= Limit /\ answering.urls <= Len(selected)
                        /\ \A p \in ToSet(selected) :
                              \/ query.words = {}
                              \/ \E word \in query.words : query.candidates[p] \in Hours(word)
                        /\ hits # {} =>
                             /\ \A i \in DOMAIN selected : high(selected[i])
                             /\ \A i, j \in DOMAIN selected : i < j =>
                                  /\ selected[i] # selected[j]
                                  /\ BestScore(hits, selected[i]) >= BestScore(hits, selected[j])
                             /\ \A hit \in hits : hit[1] \notin ToSet(selected) =>
                                  \/ ~high(hit[1])
                                  \/ /\ Len(selected) = Limit
                                     /\ hit[2] <= BestScore(hits, Last(selected))
    BY DEF BestEvidence
  <1>2. IsSearch /\ IsResult(selected) /\ selected \in Seq(Nat) /\ Len(selected) <= Limit
    BY <1>1 DEF IsResult, ResultIsValid
  <1>3. ToSet(selected) \subseteq Candidates
    <2>1. CASE hits = {}
      <3>1. selected = First(InTimeOrder(Candidates), Limit)
        BY <1>1, <2>1 DEF Evidence
      <3>2. Candidates \subseteq DOMAIN query.candidates
        BY DEF Candidates
      <3>3. IsFiniteSet(Candidates)
        BY <1>2, <3>2, RequestIs, FS_Subset
      <3>4. OrdersStrictly(TimeOrder(Candidates), Candidates)
        BY <1>2, TimeOrderIsStrict
      <3> DEFINE seq == SortedBy(Candidates, TimeOrder(Candidates))
      <3>5. seq \in Seq(Candidates)
        BY <3>3, <3>4, Sorted
      <3> HIDE DEF seq
      <3>6. First(seq, Limit) \in Seq(Candidates)
        BY <1>2, <3>5, RequestIs, FirstIs
      <3>7. selected \in Seq(Candidates)
        BY <3>1, <3>6, InTimeOrderIs DEF seq
      <3> QED
        BY <3>7 DEF ToSet
    <2>2. CASE hits # {}
      <3>1. /\ hits \in (SUBSET Hits) \ {{}} /\ Strays(hits) = {}
            /\ selected = First(Cutoff(hits), Limit)
        BY <1>1, <2>2 DEF Evidence
      <3>2. selected \in Seq(HighHits(hits))
        BY <1>2, <3>1, HitsAreBest
      <3>3. ToSet(selected) \subseteq HighHits(hits)
        BY <3>2 DEF ToSet
      <3>4. HighHits(hits) \subseteq Candidates
        BY <3>1 DEF HighHits, HitPhotos, Strays
      <3> QED
        BY <3>3, <3>4
    <2> QED
      BY <2>1, <2>2
  <1>4. ASSUME NEW p \in ToSet(selected), query.words # {}
        PROVE  \E word \in query.words : query.candidates[p] \in Hours(word)
    <2>1. p \in DOMAIN query.candidates /\ InTimeWindows(query.candidates[p])
      BY <1>3, <1>4 DEF Candidates
    <2>2. query.candidates[p] # NoTime
      BY <2>1 DEF InTimeWindows
    <2>3. PICK word \in query.words : InWindow(TimeWindows[word], query.candidates[p])
      BY <2>1 DEF InTimeWindows
    <2>4. query.candidates[p] \in 0 .. 23 /\ word \in DOMAIN TimeWindows
      BY <1>2, <2>1, <2>2, RequestIs
    <2> QED
      BY <2>3, <2>4, WindowIsHours
  <1>5. ASSUME hits # {}
        PROVE  /\ \A i \in DOMAIN selected : high(selected[i])
               /\ \A i, j \in DOMAIN selected : i < j =>
                    /\ selected[i] # selected[j]
                    /\ BestScore(hits, selected[i]) >= BestScore(hits, selected[j])
               /\ \A hit \in hits : hit[1] \notin ToSet(selected) =>
                    \/ ~high(hit[1])
                    \/ /\ Len(selected) = Limit
                       /\ hit[2] <= BestScore(hits, Last(selected))
    <2>1. /\ hits \in (SUBSET Hits) \ {{}} /\ Strays(hits) = {}
          /\ selected = First(Cutoff(hits), Limit)
      BY <1>1, <1>5 DEF Evidence
    <2> HIDE DEF selected, hits
    <2>2. /\ selected \in Seq(HighHits(hits)) /\ Len(selected) <= Limit
          /\ \A i, j \in DOMAIN selected : i < j =>
               /\ selected[i] # selected[j]
               /\ BestScore(hits, selected[i]) >= BestScore(hits, selected[j])
          /\ \A p \in HighHits(hits) \ ToSet(selected) :
               selected # <<>> => /\ Len(selected) = Limit
                                  /\ BestScore(hits, p) <= BestScore(hits, Last(selected))
      BY <1>2, <2>1, HitsAreBest
    <2>3. \A p \in HitPhotos(hits) : p \in HighHits(hits) <=> high(p)
      BY <2>1, HighIs
    <2>4. HighHits(hits) \subseteq HitPhotos(hits)
      BY DEF HighHits
    <2> HIDE DEF high
    <2>5. \A i \in DOMAIN selected : high(selected[i])
      <3> TAKE i \in DOMAIN selected
      <3>1. selected[i] \in HighHits(hits)
        BY <2>2
      <3> QED
        BY <2>3, <2>4, <3>1
    <2>6. ASSUME NEW hit \in hits, hit[1] \notin ToSet(selected), high(hit[1])
          PROVE  Len(selected) = Limit /\ hit[2] <= BestScore(hits, Last(selected))
      <3>1. hit[1] \in HitPhotos(hits)
        BY DEF HitPhotos
      <3>2. hit[1] \in HighHits(hits)
        BY <2>3, <2>6, <3>1
      <3>3. /\ Len(selected) = Limit
            /\ BestScore(hits, hit[1]) <= BestScore(hits, Last(selected))
        BY <1>1, <2>2, <2>6, <3>2
      <3>4. hit[2] <= BestScore(hits, hit[1]) /\ BestScore(hits, hit[1]) \in Nat
        BY <2>1, <3>1, BestScoreIs
      <3>5. hit[2] \in Nat
        BY <2>1, QueryAssumption DEF Hits
      <3>6. BestScore(hits, Last(selected)) \in Nat
        <4>1. Len(selected) \in 1 .. Len(selected)
          BY <1>1, <2>2, EmptySeq
        <4>2. Last(selected) \in HighHits(hits)
          BY <2>2, <4>1 DEF Last
        <4> QED
          BY <2>1, <2>4, <4>2, BestScoreIs
      <3> QED
        BY <3>3, <3>4, <3>5, <3>6
    <2> QED
      BY <2>2, <2>5, <2>6
  <1> QED
    BY <1>2, <1>4, <1>5

-----------------------------------------------------------------------------
(* Queries: the calendar.                                                  *)

\* The days that a leap year has more than others.
LeapDay(y) == IF Leap(y) THEN 1 ELSE 0

\* A leap year has a day more.
LEMMA YearLength ==
    ASSUME NEW y \in Int
    PROVE  /\ DaysBeforeYear(y) \in Int /\ LeapDay(y) \in 0 .. 1
           /\ DaysBeforeYear(y + 1) = DaysBeforeYear(y) + 365 + LeapDay(y)
  BY DEF DaysBeforeYear, LeapDay, Leap

\* Years come one after the other.
LEMMA YearsGrow ==
    ASSUME NEW y \in Int, NEW z \in Int, y < z
    PROVE  DaysBeforeYear(y) + 365 * (z - y) <= DaysBeforeYear(z)
  BY DEF DaysBeforeYear

\* A later year begins no earlier.
LEMMA YearsInOrder ==
    ASSUME NEW y \in Int, NEW z \in Int, y <= z
    PROVE  DaysBeforeYear(y) <= DaysBeforeYear(z)
  <1>1. DaysBeforeYear(y) \in Int /\ DaysBeforeYear(z) \in Int
    BY YearLength
  <1>2. CASE y = z
    BY <1>1, <1>2
  <1>3. CASE y < z
    <2>1. DaysBeforeYear(y) + 365 * (z - y) <= DaysBeforeYear(z)
      BY <1>3, YearsGrow
    <2>2. 365 * (z - y) \in Nat
      BY <1>3
    <2> QED
      BY <1>1, <2>1, <2>2
  <1> QED
    BY <1>2, <1>3

\* The days before the months.
LEMMA MonthStarts ==
    ASSUME NEW y \in Int
    PROVE  /\ FirstOfMonth(12 * y) = DaysBeforeYear(y) + 1
           /\ FirstOfMonth(12 * y + 1) = DaysBeforeYear(y) + 32
           /\ FirstOfMonth(12 * y + 2) = DaysBeforeYear(y) + LeapDay(y) + 60
           /\ FirstOfMonth(12 * y + 3) = DaysBeforeYear(y) + LeapDay(y) + 91
           /\ FirstOfMonth(12 * y + 4) = DaysBeforeYear(y) + LeapDay(y) + 121
           /\ FirstOfMonth(12 * y + 5) = DaysBeforeYear(y) + LeapDay(y) + 152
           /\ FirstOfMonth(12 * y + 6) = DaysBeforeYear(y) + LeapDay(y) + 182
           /\ FirstOfMonth(12 * y + 7) = DaysBeforeYear(y) + LeapDay(y) + 213
           /\ FirstOfMonth(12 * y + 8) = DaysBeforeYear(y) + LeapDay(y) + 244
           /\ FirstOfMonth(12 * y + 9) = DaysBeforeYear(y) + LeapDay(y) + 274
           /\ FirstOfMonth(12 * y + 10) = DaysBeforeYear(y) + LeapDay(y) + 305
           /\ FirstOfMonth(12 * y + 11) = DaysBeforeYear(y) + LeapDay(y) + 335
  <1>1. ASSUME NEW m \in 0 .. 11
        PROVE  FirstOfMonth(12 * y + m) = Ordinal(y, m + 1, 1)
    <2>1. (12 * y + m) \div 12 = y /\ (12 * y + m) % 12 = m
      OBVIOUS
    <2> QED
      BY <2>1 DEF FirstOfMonth
  <1>2. DaysBeforeYear(y) \in Int /\ LeapDay(y) \in Int
    BY YearLength
  <1>3. ASSUME NEW m \in 1 .. 12
        PROVE  Ordinal(y, m, 1) = DaysBeforeYear(y) + DaysBeforeMonth[m]
                                    + (IF m > 2 THEN LeapDay(y) ELSE 0) + 1
    BY DEF Ordinal, LeapDay
  <1>4. /\ DaysBeforeMonth[1] = 0 /\ DaysBeforeMonth[2] = 31 /\ DaysBeforeMonth[3] = 59
        /\ DaysBeforeMonth[4] = 90 /\ DaysBeforeMonth[5] = 120 /\ DaysBeforeMonth[6] = 151
        /\ DaysBeforeMonth[7] = 181 /\ DaysBeforeMonth[8] = 212 /\ DaysBeforeMonth[9] = 243
        /\ DaysBeforeMonth[10] = 273 /\ DaysBeforeMonth[11] = 304 /\ DaysBeforeMonth[12] = 334
    BY DEF DaysBeforeMonth
  <1>5. FirstOfMonth(12 * y) = DaysBeforeYear(y) + 1
    <2>1. 12 * y = 12 * y + 0
      OBVIOUS
    <2> QED
      BY <1>1, <1>2, <1>3, <1>4, <2>1
  <1>6. /\ FirstOfMonth(12 * y + 1) = DaysBeforeYear(y) + 32
        /\ FirstOfMonth(12 * y + 2) = DaysBeforeYear(y) + LeapDay(y) + 60
        /\ FirstOfMonth(12 * y + 3) = DaysBeforeYear(y) + LeapDay(y) + 91
        /\ FirstOfMonth(12 * y + 4) = DaysBeforeYear(y) + LeapDay(y) + 121
        /\ FirstOfMonth(12 * y + 5) = DaysBeforeYear(y) + LeapDay(y) + 152
        /\ FirstOfMonth(12 * y + 6) = DaysBeforeYear(y) + LeapDay(y) + 182
    BY <1>1, <1>2, <1>3, <1>4
  <1>7. /\ FirstOfMonth(12 * y + 7) = DaysBeforeYear(y) + LeapDay(y) + 213
        /\ FirstOfMonth(12 * y + 8) = DaysBeforeYear(y) + LeapDay(y) + 244
        /\ FirstOfMonth(12 * y + 9) = DaysBeforeYear(y) + LeapDay(y) + 274
        /\ FirstOfMonth(12 * y + 10) = DaysBeforeYear(y) + LeapDay(y) + 305
        /\ FirstOfMonth(12 * y + 11) = DaysBeforeYear(y) + LeapDay(y) + 335
    BY <1>1, <1>2, <1>3, <1>4
  <1> QED
    BY <1>5, <1>6, <1>7

\* Every date has a year.
LEMMA YearExists ==
    ASSUME NEW date \in Nat
    PROVE  \E y \in Nat : DaysBeforeYear(y) < date /\ date <= DaysBeforeYear(y + 1)
  <1> DEFINE InYear(n, y) == DaysBeforeYear(y) < n /\ n <= DaysBeforeYear(y + 1)
  <1> DEFINE Holding == {n \in Nat : \E y \in Nat : InYear(n, y)}
  <1>1. 0 \in Holding
    <2>1. InYear(0, 0)
      BY DEF DaysBeforeYear
    <2> QED
      BY <2>1
  <1>2. ASSUME NEW n \in 1 .. date, n - 1 \in Holding PROVE n \in Holding
    <2>1. PICK y \in Nat : InYear(n - 1, y)
      BY <1>2
    <2>2. /\ DaysBeforeYear(y) \in Int /\ DaysBeforeYear(y + 1) \in Int
          /\ DaysBeforeYear(y + 1) < DaysBeforeYear(y + 1 + 1) /\ DaysBeforeYear(y + 1 + 1) \in Int
      BY YearLength
    <2>3. InYear(n, y) \/ InYear(n, y + 1)
      BY <2>1, <2>2
    <2>4. y + 1 \in Nat /\ n \in Nat
      OBVIOUS
    <2> HIDE DEF InYear
    <2> QED
      BY <2>3, <2>4
  <1>3. \A n \in 0 .. date : n \in Holding
    <2> HIDE DEF Holding
    <2> QED
      BY <1>1, <1>2, UpTo
  <1> QED
    BY <1>3

\* The year of a date is the one that it lies in.
LEMMA YearIs ==
    ASSUME NEW date \in Nat
    PROVE  /\ YearOf(date) \in Nat
           /\ \A y \in Int : YearOf(date) = y
                <=> DaysBeforeYear(y) < date /\ date <= DaysBeforeYear(y + 1)
  <1> DEFINE In(y) == DaysBeforeYear(y) < date /\ date <= DaysBeforeYear(y + 1)
  <1> DEFINE Years == (date \div 366) .. (date \div 365) + 1
  <1>1. \A y \in Int : DaysBeforeYear(y) \in Int
    BY YearLength
  <1>2. ASSUME NEW y \in Int, NEW z \in Int, In(y), In(z) PROVE y = z
    <2>1. CASE y < z
      <3>1. DaysBeforeYear(y + 1) <= DaysBeforeYear(z)
        <4>1. CASE y + 1 = z
          BY <1>1, <4>1
        <4>2. CASE y + 1 < z
          BY <1>1, <4>2, YearsGrow
        <4> QED
          BY <2>1, <4>1, <4>2
      <3> QED
        BY <1>1, <1>2, <3>1
    <2>2. CASE z < y
      <3>1. DaysBeforeYear(z + 1) <= DaysBeforeYear(y)
        <4>1. CASE z + 1 = y
          BY <1>1, <4>1
        <4>2. CASE z + 1 < y
          BY <1>1, <4>2, YearsGrow
        <4> QED
          BY <2>2, <4>1, <4>2
      <3> QED
        BY <1>1, <1>2, <3>1
    <2> QED
      BY <2>1, <2>2
  <1>3. ASSUME NEW y \in Nat, In(y) PROVE y \in Years
    <2>1. DaysBeforeYear(y + 1) <= 366 * y
      BY DEF DaysBeforeYear
    <2>2. y >= 1 => DaysBeforeYear(y) >= 365 * (y - 1)
      BY DEF DaysBeforeYear
    <2>3. date <= 366 * y /\ (y >= 1 => 365 * (y - 1) < date)
      BY <1>1, <1>3, <2>1, <2>2
    <2>4. date \div 366 <= y
      BY <2>3
    <2>5. y <= (date \div 365) + 1
      BY <2>3
    <2> QED
      BY <2>4, <2>5
  <1>4. PICK y \in Nat : In(y)
    BY YearExists
  <1>5. YearOf(date) = CHOOSE z \in Years : In(z)
    BY DEF YearOf
  <1>6. \A z \in Years : z \in Int
    OBVIOUS
  <1> HIDE DEF In, Years
  <1>7. YearOf(date) \in Years /\ In(YearOf(date))
    BY <1>3, <1>4, <1>5
  <1>8. YearOf(date) = y
    BY <1>2, <1>4, <1>6, <1>7
  <1>9. \A z \in Int : YearOf(date) = z <=> In(z)
    BY <1>2, <1>4, <1>8
  <1> QED
    BY <1>8, <1>9 DEF In

\* A month has 28 to 31 days, as calendar.monthrange says.
LEMMA MonthLength ==
    ASSUME NEW k \in Int
    PROVE  /\ FirstOfMonth(k) \in Int
           /\ FirstOfMonth(k + 1) - FirstOfMonth(k) \in 28 .. 31
           /\ FirstOfMonth(k + 1) = FirstOfMonth(k) + DaysInMonth(k \div 12, (k % 12) + 1)
  <1> DEFINE y == k \div 12
  <1> DEFINE m == k % 12
  <1>1. y \in Int /\ m \in 0 .. 11 /\ k = 12 * y + m
    OBVIOUS
  <1> HIDE DEF y, m
  <1>2. /\ DaysBeforeYear(y) \in Int /\ LeapDay(y) \in 0 .. 1
        /\ DaysBeforeYear(y + 1) = DaysBeforeYear(y) + 365 + LeapDay(y)
    BY <1>1, YearLength
  <1>3. FirstOfMonth(12 * y + 12) = DaysBeforeYear(y + 1) + 1
    <2>1. FirstOfMonth(12 * (y + 1)) = DaysBeforeYear(y + 1) + 1
      BY <1>1, MonthStarts
    <2>2. 12 * (y + 1) = 12 * y + 12
      BY <1>1
    <2> QED
      BY <2>1, <2>2
  <1> DEFINE Start(i) == FirstOfMonth(12 * y + i)
  <1> DEFINE rest == DaysBeforeYear(y) + LeapDay(y)
  <1>4. /\ Start(0) = DaysBeforeYear(y) + 1 /\ Start(1) = DaysBeforeYear(y) + 32
        /\ Start(2) = rest + 60 /\ Start(3) = rest + 91 /\ Start(4) = rest + 121
        /\ Start(5) = rest + 152 /\ Start(6) = rest + 182 /\ Start(7) = rest + 213
        /\ Start(8) = rest + 244 /\ Start(9) = rest + 274 /\ Start(10) = rest + 305
        /\ Start(11) = rest + 335 /\ Start(12) = rest + 366
    <2>1. 12 * y + 0 = 12 * y
      BY <1>1
    <2>2. Start(0) = DaysBeforeYear(y) + 1
      BY <1>1, <2>1, MonthStarts
    <2>3. Start(12) = rest + 366
      BY <1>2, <1>3
    <2>4. /\ Start(1) = DaysBeforeYear(y) + 32
          /\ Start(2) = rest + 60 /\ Start(3) = rest + 91 /\ Start(4) = rest + 121
          /\ Start(5) = rest + 152 /\ Start(6) = rest + 182 /\ Start(7) = rest + 213
          /\ Start(8) = rest + 244 /\ Start(9) = rest + 274 /\ Start(10) = rest + 305
          /\ Start(11) = rest + 335
      BY <1>1, MonthStarts
    <2> HIDE DEF Start, rest
    <2> QED
      BY <2>2, <2>3, <2>4
  <1>5. rest \in Int /\ DaysBeforeYear(y) + 1 \in {rest, rest + 1} /\ DaysBeforeYear(y) \in Int
    BY <1>2
  <1>12. rest = DaysBeforeYear(y) + LeapDay(y)
    OBVIOUS
  <1> HIDE DEF rest
  <1>6. 12 * y + m + 1 = 12 * y + (m + 1)
    BY <1>1
  <1>7. FirstOfMonth(k) = Start(m) /\ FirstOfMonth(k + 1) = Start(m + 1)
    BY <1>1, <1>6
  <1> HIDE DEF Start
  <1>8. \/ m = 0 \/ m = 1 \/ m = 2 \/ m = 3 \/ m = 4 \/ m = 5
        \/ m = 6 \/ m = 7 \/ m = 8 \/ m = 9 \/ m = 10 \/ m = 11
    BY <1>1
  <1> DEFINE length == IF m = 1 THEN 28 + LeapDay(y) ELSE IF m \in {3, 5, 8, 10} THEN 30 ELSE 31
  <1>9. DaysInMonth(y, m + 1) = length
    BY <1>1 DEF DaysInMonth, LeapDay
  <1>11. Start(m) \in Int /\ Start(m + 1) = Start(m) + length
    BY <1>2, <1>4, <1>5, <1>8, <1>12
  <1>13. length \in 28 .. 31
    BY <1>2
  <1> HIDE DEF length
  <1>14. Start(m) \in Int /\ Start(m + 1) - Start(m) \in 28 .. 31
    BY <1>11, <1>13
  <1> QED
    BY <1>7, <1>9, <1>11, <1>14 DEF y, m

\* Months come one after the other.
LEMMA MonthsGrow ==
    ASSUME NEW k \in Int, NEW l \in Int, k < l
    PROVE  FirstOfMonth(k) + 28 <= FirstOfMonth(l)
  <1> DEFINE n == l - k - 1
  <1> DEFINE Holding == {i \in Nat : FirstOfMonth(k) + 28 <= FirstOfMonth(k + 1 + i)}
  <1>1. n \in Nat /\ k + 1 + n = l
    OBVIOUS
  <1>2. 0 \in Holding
    <2>1. /\ FirstOfMonth(k) \in Int /\ FirstOfMonth(k + 1) \in Int
          /\ FirstOfMonth(k + 1) - FirstOfMonth(k) \in 28 .. 31
      BY MonthLength
    <2>2. k + 1 + 0 = k + 1
      OBVIOUS
    <2> QED
      BY <2>1, <2>2
  <1>3. ASSUME NEW i \in 1 .. n, i - 1 \in Holding PROVE i \in Holding
    <2>1. k + 1 + (i - 1) \in Int /\ k + 1 + (i - 1) + 1 = k + 1 + i /\ i \in Nat
      OBVIOUS
    <2>2. /\ FirstOfMonth(k + 1 + (i - 1)) \in Int /\ FirstOfMonth(k + 1 + i) \in Int
          /\ FirstOfMonth(k + 1 + i) - FirstOfMonth(k + 1 + (i - 1)) \in 28 .. 31
      BY <2>1, MonthLength
    <2>3. FirstOfMonth(k) \in Int /\ FirstOfMonth(k) + 28 <= FirstOfMonth(k + 1 + (i - 1))
      BY <1>3, MonthLength
    <2> QED
      BY <2>1, <2>2, <2>3
  <1>4. \A i \in 0 .. n : i \in Holding
    <2> HIDE DEF Holding, n
    <2> QED
      BY <1>1, <1>2, <1>3, UpTo
  <1> QED
    BY <1>1, <1>4

\* A later month begins no earlier.
LEMMA MonthsInOrder ==
    ASSUME NEW k \in Int, NEW l \in Int, k <= l
    PROVE  FirstOfMonth(k) <= FirstOfMonth(l)
  <1>1. FirstOfMonth(k) \in Int /\ FirstOfMonth(l) \in Int
    BY MonthLength
  <1>2. CASE k = l
    BY <1>1, <1>2
  <1>3. CASE k < l
    BY <1>1, <1>3, MonthsGrow
  <1> QED
    BY <1>2, <1>3

\* A year begins with its January.
LEMMA YearStarts ==
    ASSUME NEW y \in Int
    PROVE  FirstOfMonth(12 * y) = DaysBeforeYear(y) + 1
  BY MonthStarts

\* The month of a date is the one that it lies in.
LEMMA MonthIs ==
    ASSUME NEW date \in Nat
    PROVE  /\ MonthOf(date) \in Nat /\ YearOf(date) = MonthOf(date) \div 12
           /\ \A k \in Int : MonthOf(date) = k
                <=> FirstOfMonth(k) <= date /\ date < FirstOfMonth(k + 1)
  <1> DEFINE In(k) == FirstOfMonth(k) <= date /\ date < FirstOfMonth(k + 1)
  <1> DEFINE y == YearOf(date)
  <1> DEFINE Months == {12 * y + m : m \in 0 .. 11}
  <1>1. y \in Nat /\ DaysBeforeYear(y) < date /\ date <= DaysBeforeYear(y + 1)
    BY YearIs
  <1>2. \A k \in Int : FirstOfMonth(k) \in Int
    BY MonthLength
  <1> HIDE DEF y
  <1>3. ASSUME NEW k \in Int, NEW l \in Int, In(k), In(l) PROVE k = l
    <2>1. ~(k < l)
      <3> SUFFICES ASSUME k < l PROVE FALSE
        OBVIOUS
      <3>1. FirstOfMonth(k + 1) <= FirstOfMonth(l)
        <4>1. k + 1 = l \/ k + 1 < l
          OBVIOUS
        <4> QED
          BY <1>2, <4>1, MonthsGrow
      <3> QED
        BY <1>2, <1>3, <3>1
    <2>2. ~(l < k)
      <3> SUFFICES ASSUME l < k PROVE FALSE
        OBVIOUS
      <3>1. FirstOfMonth(l + 1) <= FirstOfMonth(k)
        <4>1. l + 1 = k \/ l + 1 < k
          OBVIOUS
        <4> QED
          BY <1>2, <4>1, MonthsGrow
      <3> QED
        BY <1>2, <1>3, <3>1
    <2> QED
      BY <2>1, <2>2
  <1>4. \E m \in 0 .. 11 : In(12 * y + m)
    <2>1. FirstOfMonth(12 * y) <= date /\ date < FirstOfMonth(12 * y + 12)
      <3>1. 12 * (y + 1) = 12 * y + 12
        BY <1>1
      <3>2. FirstOfMonth(12 * y) = DaysBeforeYear(y) + 1
        BY <1>1, YearStarts
      <3>3. FirstOfMonth(12 * y + 12) = DaysBeforeYear(y + 1) + 1
        BY <1>1, <3>1, YearStarts
      <3>4. DaysBeforeYear(y) \in Int /\ DaysBeforeYear(y + 1) \in Int
        BY <1>1, YearLength
      <3> QED
        BY <1>1, <3>2, <3>3, <3>4
    <2> DEFINE Holding == {m \in Nat : FirstOfMonth(12 * y + m) <= date}
    <2>2. SUFFICES ASSUME \A m \in 0 .. 11 : ~In(12 * y + m) PROVE FALSE
      OBVIOUS
    <2>3. 0 \in Holding
      BY <1>1, <2>1
    <2>4. ASSUME NEW m \in 1 .. 12, m - 1 \in Holding PROVE m \in Holding
      <3>1. m - 1 \in 0 .. 11 /\ 12 * y + (m - 1) + 1 = 12 * y + m /\ 12 * y + m \in Int
        BY <1>1
      <3>2. ~(date < FirstOfMonth(12 * y + m))
        BY <2>2, <2>4, <3>1
      <3> QED
        BY <1>2, <3>1, <3>2
    <2>5. \A m \in 0 .. 12 : m \in Holding
      <3> HIDE DEF Holding
      <3> QED
        BY <2>3, <2>4, UpTo
    <2>6. FirstOfMonth(12 * y + 12) <= date
      BY <2>5
    <2> QED
      BY <1>1, <1>2, <2>1, <2>6
  <1>5. PICK m \in 0 .. 11 : In(12 * y + m)
    BY <1>4
  <1>6. MonthOf(date) = CHOOSE k \in Months : In(k)
    BY DEF MonthOf, y
  <1>7. \A k \in Months : k \in Int
    BY <1>1
  <1>8. 12 * y + m \in Months
    OBVIOUS
  <1>9. 12 * y + m \in Nat /\ (12 * y + m) \div 12 = y
    BY <1>1
  <1> HIDE DEF In, Months
  <1>10. MonthOf(date) \in Months /\ In(MonthOf(date))
    BY <1>5, <1>6, <1>8
  <1>11. MonthOf(date) = 12 * y + m
    BY <1>3, <1>5, <1>7, <1>9, <1>10
  <1>12. \A k \in Int : MonthOf(date) = k <=> In(k)
    BY <1>3, <1>5, <1>9, <1>11
  <1> QED
    BY <1>9, <1>11, <1>12 DEF In, y

\* Whether a date is in a month or later.
LEMMA SinceMonth ==
    ASSUME NEW date \in Nat, NEW k \in Int
    PROVE  FirstOfMonth(k) <= date <=> k <= MonthOf(date)
  <1>1. /\ MonthOf(date) \in Nat /\ FirstOfMonth(MonthOf(date)) <= date
        /\ date < FirstOfMonth(MonthOf(date) + 1)
    BY MonthIs
  <1>2. \A l \in Int : FirstOfMonth(l) \in Int
    BY MonthLength
  <1>3. CASE k <= MonthOf(date)
    <2>1. FirstOfMonth(k) <= FirstOfMonth(MonthOf(date))
      <3>1. k = MonthOf(date) \/ k < MonthOf(date)
        BY <1>1, <1>3
      <3> QED
        BY <1>1, <1>2, <3>1, MonthsGrow
    <2> QED
      BY <1>1, <1>2, <1>3, <2>1
  <1>4. CASE MonthOf(date) + 1 <= k
    <2>1. FirstOfMonth(MonthOf(date) + 1) <= FirstOfMonth(k)
      <3>1. k = MonthOf(date) + 1 \/ MonthOf(date) + 1 < k
        BY <1>1, <1>4
      <3> QED
        BY <1>1, <1>2, <3>1, MonthsGrow
    <2> QED
      BY <1>1, <1>2, <1>4, <2>1
  <1> QED
    BY <1>1, <1>3, <1>4

\* A day on which a request may come.
IsToday(today) ==
    /\ today.year \in 1900 .. LastYear - 1
    /\ today.month \in 1 .. 12
    /\ today.day \in 1 .. DaysInMonth(today.year, today.month)

\* Its ordinal.
Now(today) == Ordinal(today.year, today.month, today.day)

\* The last day of the calendar.
EndOfTime == DaysBeforeYear(LastYear + 1)

\* The month and the year of a reference date, which is far from the bounds of
\* the calendar.
LEMMA TodayIs ==
    ASSUME NEW today, IsToday(today)
    PROVE  /\ Now(today) \in Nat /\ Now(today) > 2000 /\ Now(today) + 365 <= EndOfTime
           /\ EndOfTime \in Nat
           /\ MonthOf(Now(today)) = 12 * today.year + today.month - 1
           /\ YearOf(Now(today)) = today.year
  <1> DEFINE y == today.year
  <1> DEFINE m == today.month
  <1> DEFINE d == today.day
  <1> DEFINE k == 12 * y + m - 1
  <1>1. y \in 1900 .. 9998 /\ m \in 1 .. 12 /\ d \in 1 .. DaysInMonth(y, m)
    BY DEF IsToday, LastYear
  <1>2. Now(today) = Ordinal(y, m, d)
    BY DEF Now
  <1> HIDE DEF y, m, d
  <1>3. /\ DaysBeforeYear(y) \in Int /\ LeapDay(y) \in 0 .. 1
        /\ DaysBeforeYear(y + 1) = DaysBeforeYear(y) + 365 + LeapDay(y)
    BY <1>1, YearLength
  <1>4. d \in 1 .. 31
    BY <1>1 DEF DaysInMonth
  <1>5. Ordinal(y, m, d) = FirstOfMonth(k) + d - 1
    <2>1. k \div 12 = y /\ (k % 12) + 1 = m
      BY <1>1
    <2>2. FirstOfMonth(k) = Ordinal(y, m, 1)
      BY <2>1 DEF FirstOfMonth
    <2>3. DaysBeforeMonth[m] \in Int
      BY <1>1 DEF DaysBeforeMonth
    <2> QED
      BY <1>3, <1>4, <2>2, <2>3 DEF Ordinal
  <1>6. FirstOfMonth(k) \in Int /\ FirstOfMonth(k + 1) \in Int
    <2>1. k \in Int /\ k + 1 \in Int
      BY <1>1
    <2> HIDE DEF k
    <2> QED
      BY <2>1, MonthLength
  <1>7. d <= FirstOfMonth(k + 1) - FirstOfMonth(k)
    <2>1. k \in Int /\ k \div 12 = y /\ (k % 12) + 1 = m
      BY <1>1
    <2>2. FirstOfMonth(k + 1) = FirstOfMonth(k) + DaysInMonth(y, m)
      BY <2>1, MonthLength
    <2>3. DaysInMonth(y, m) \in Int
      BY DEF DaysInMonth
    <2> QED
      BY <1>1, <1>6, <2>2, <2>3
  <1>8. FirstOfMonth(k) <= Now(today) /\ Now(today) < FirstOfMonth(k + 1)
    BY <1>2, <1>4, <1>5, <1>6, <1>7
  <1>9. DaysBeforeYear(y) < Now(today) /\ Now(today) <= DaysBeforeYear(y + 1)
    <2>1. DaysBeforeYear(y) < FirstOfMonth(k)
      <3>1. FirstOfMonth(12 * y) = DaysBeforeYear(y) + 1
        BY <1>1, YearStarts
      <3>2. 12 * y <= k /\ k \in Int /\ 12 * y \in Int
        BY <1>1
      <3> HIDE DEF k
      <3>3. FirstOfMonth(12 * y) <= FirstOfMonth(k)
        BY <3>2, MonthsInOrder
      <3> QED
        BY <1>3, <1>6, <3>1, <3>3
    <2>2. FirstOfMonth(k + 1) <= DaysBeforeYear(y + 1) + 1
      <3>1. FirstOfMonth(12 * (y + 1)) = DaysBeforeYear(y + 1) + 1
        BY <1>1, YearStarts
      <3>2. k + 1 <= 12 * (y + 1) /\ k + 1 \in Int /\ 12 * (y + 1) \in Int
        BY <1>1
      <3> HIDE DEF k
      <3>3. FirstOfMonth(k + 1) <= FirstOfMonth(12 * (y + 1))
        BY <3>2, MonthsInOrder
      <3> QED
        BY <3>1, <3>3
    <2> QED
      BY <1>2, <1>3, <1>4, <1>5, <1>6, <1>8, <2>1, <2>2
  <1>10. DaysBeforeYear(1900) > 2000 /\ EndOfTime \in Nat /\ DaysBeforeYear(9999) + 365 <= EndOfTime
    <2>1. LastYear + 1 = 10000
      BY DEF LastYear
    <2>2. DaysBeforeYear(10000) = 3652059
      BY DEF DaysBeforeYear
    <2>3. DaysBeforeYear(9999) = 3651694 /\ DaysBeforeYear(1900) = 693595
      BY DEF DaysBeforeYear
    <2> QED
      BY <2>1, <2>2, <2>3 DEF EndOfTime
  <1>11. DaysBeforeYear(1900) <= DaysBeforeYear(y) /\ DaysBeforeYear(y + 1) <= DaysBeforeYear(9999)
    <2>1. 1900 <= y /\ y + 1 <= 9999 /\ y \in Int /\ y + 1 \in Int
      BY <1>1
    <2>2. DaysBeforeYear(1900) <= DaysBeforeYear(y)
      BY <2>1, YearsInOrder
    <2>3. DaysBeforeYear(y + 1) <= DaysBeforeYear(9999)
      BY <2>1, YearsInOrder
    <2> QED
      BY <2>2, <2>3
  <1>12. DaysBeforeYear(1900) \in Int /\ DaysBeforeYear(9999) \in Int /\ DaysBeforeYear(y + 1) \in Int
    BY <1>1, YearLength
  <1>13. Now(today) \in Nat /\ Now(today) > 2000 /\ Now(today) + 365 <= EndOfTime
    BY <1>2, <1>3, <1>4, <1>5, <1>6, <1>9, <1>10, <1>11, <1>12
  <1>14. YearOf(Now(today)) = y
    BY <1>1, <1>9, <1>13, YearIs
  <1>15. MonthOf(Now(today)) = k
    <2>1. k \in Int
      BY <1>1
    <2> QED
      BY <1>8, <1>13, <2>1, MonthIs
  <1> QED
    BY <1>10, <1>13, <1>14, <1>15 DEF y, m

-----------------------------------------------------------------------------
(* Queries: relative dates.                                                *)

\* The expression means the dates of a range, as far as they are not after today.
MeansSpan(expr, today, first, last) ==
    /\ first \in Int /\ last \in Int /\ first <= last /\ last <= first + 365
    /\ \A date \in 0 .. Now(today) : Means(expr, today, date) <=> first <= date /\ date <= last

\* The range that an expression means, or none if that leaves the calendar.
Resolved(expr, today, range) ==
    \E first, last \in Int :
        /\ MeansSpan(expr, today, first, last)
        /\ \/ range = Span(first, last)
           \/ range = NoDates /\ (first <= 6 \/ EndOfTime < last)

\* What DatesAreRight says of the dates of an output.
RightDates(output, today, dates) ==
    LET from == dates[1]
        to == dates[2]
        now == Now(today)
        means(date) == Means(output.relative, today, date)
    IN  /\ from <= now /\ to <= now
        /\ from # NoDate /\ to # NoDate => from <= to
        /\ output.relative.unit # "none" =>
             IF from # NoDate
             THEN /\ means(from) /\ ~means(from - 1)
                  /\ means(to) /\ (to = now \/ ~means(to + 1))
             ELSE \/ Incomplete(output.relative)
                  \/ \A date \in now - 900 .. now : ~means(date)

\* What DateRange does with a range that has both ends or none.
LEMMA CutToday ==
    ASSUME NEW output, NEW today, IsToday(today), NEW range,
           output.relative.unit # "none", ResolveRelative(output.relative, today) = range
    PROVE  /\ range = NoDates => DateRange(output, today) = NoDates
           /\ \A a, b \in Nat : range = <<a, b>> /\ a <= b =>
                DateRange(output, today) =
                    IF Now(today) < a THEN NoDates
                    ELSE <<a, IF b <= Now(today) THEN b ELSE Now(today)>>
  <1> DEFINE now == Now(today)
  <1> DEFINE end == IF range[2] = NoDate THEN NoDate ELSE Min({range[2], now})
  <1>1. now \in Nat
    BY TodayIs
  <1>2. DateRange(output, today) =
            IF range[1] # NoDate /\ range[1] > (IF end = NoDate THEN now ELSE end)
            THEN NoDates ELSE <<range[1], end>>
    BY DEF DateRange, Now
  <1> HIDE DEF now
  <1>3. ASSUME range = NoDates PROVE DateRange(output, today) = NoDates
    <2>1. range[1] = NoDate /\ range[2] = NoDate
      BY <1>3 DEF NoDates
    <2>2. end = NoDate
      BY <2>1
    <2> HIDE DEF end
    <2> QED
      BY <1>2, <2>1, <2>2 DEF NoDates
  <1>4. ASSUME NEW a \in Nat, NEW b \in Nat, range = <<a, b>>, a <= b
        PROVE  DateRange(output, today) =
                 IF now < a THEN NoDates ELSE <<a, IF b <= now THEN b ELSE now>>
    <2>1. range[1] = a /\ range[2] = b /\ a # NoDate /\ b # NoDate
      BY <1>4 DEF NoDate
    <2>2. end = IF b <= now THEN b ELSE now
      BY <1>1, <2>1, MinIs
    <2>3. end \in Nat /\ end # NoDate
      BY <1>1, <2>2 DEF NoDate
    <2>4. DateRange(output, today) = IF a > end THEN NoDates ELSE <<a, end>>
      BY <1>2, <2>1, <2>3
    <2>5. a > end <=> now < a
      BY <1>1, <1>4, <2>2
    <2> QED
      BY <2>2, <2>4, <2>5
  <1> QED
    BY <1>3, <1>4 DEF now

\* A range that an expression means gives right dates.
LEMMA ResolvedIsRight ==
    ASSUME NEW output, NEW today, IsToday(today), output.relative.unit # "none",
           Resolved(output.relative, today, ResolveRelative(output.relative, today))
    PROVE  RightDates(output, today, DateRange(output, today))
  <1> DEFINE now == Now(today)
  <1> DEFINE expr == output.relative
  <1> DEFINE range == ResolveRelative(expr, today)
  <1> DEFINE dates == DateRange(output, today)
  <1> DEFINE means(date) == Means(expr, today, date)
  <1>1. now \in Nat /\ now > 2000 /\ EndOfTime \in Nat /\ now + 365 <= EndOfTime
    BY TodayIs
  <1>2. PICK a \in Int, b \in Int :
            /\ MeansSpan(expr, today, a, b)
            /\ \/ range = Span(a, b)
               \/ range = NoDates /\ (a <= 6 \/ EndOfTime < b)
    BY DEF Resolved
  <1>3. a <= b /\ b <= a + 365 /\ \A date \in 0 .. now : means(date) <=> a <= date /\ date <= b
    BY <1>2 DEF MeansSpan
  <1>4. range = NoDates => dates = NoDates
    BY CutToday
  <1>5. \A c, d \in Nat : range = <<c, d>> /\ c <= d =>
            dates = IF now < c THEN NoDates ELSE <<c, IF d <= now THEN d ELSE now>>
    BY CutToday
  <1> HIDE DEF now, expr, range, dates, means
  <1>6. CASE range = <<a, b>> /\ 1 <= a
    <2>1. a \in Nat /\ b \in Nat
      BY <1>3, <1>6
    <2>2. dates = IF now < a THEN NoDates ELSE <<a, IF b <= now THEN b ELSE now>>
      BY <1>3, <1>5, <1>6, <2>1
    <2>3. CASE now < a
      <3>1. dates[1] = NoDate /\ dates[2] = NoDate
        BY <2>2, <2>3 DEF NoDates
      <3>2. \A date \in now - 900 .. now : ~means(date)
        BY <1>1, <1>3, <2>3
      <3>3. NoDate <= now
        BY <1>1 DEF NoDate
      <3> QED
        BY <3>1, <3>2, <3>3 DEF RightDates, now, expr, dates, means
    <2>4. CASE a <= now
      <3> DEFINE to == IF b <= now THEN b ELSE now
      <3>1. dates[1] = a /\ dates[2] = to /\ a # NoDate
        BY <1>1, <2>1, <2>2, <2>4 DEF NoDate
      <3>2. to \in Nat /\ a <= to /\ to <= now /\ to <= b /\ (to = now \/ to = b)
        BY <1>1, <1>3, <2>1, <2>4
      <3> HIDE DEF to
      <3>3. means(a) /\ ~means(a - 1) /\ means(to)
        BY <1>1, <1>3, <1>6, <2>1, <2>4, <3>2
      <3>4. to = now \/ ~means(to + 1)
        <4>1. CASE to # now
          <5>1. to = b /\ to + 1 \in 0 .. now
            BY <1>1, <3>2, <4>1
          <5> QED
            BY <1>3, <2>1, <5>1
        <4> QED
          BY <4>1
      <3> QED
        BY <2>4, <3>1, <3>2, <3>3, <3>4 DEF RightDates, now, expr, dates, means
    <2> QED
      BY <1>1, <2>1, <2>3, <2>4
  <1>7. CASE range = NoDates /\ (a <= 6 \/ EndOfTime < b)
    <2>1. dates[1] = NoDate /\ dates[2] = NoDate
      BY <1>4, <1>7 DEF NoDates
    <2>2. \A date \in now - 900 .. now : ~means(date)
      <3> SUFFICES ASSUME NEW date \in now - 900 .. now, means(date) PROVE FALSE
        OBVIOUS
      <3>1. date \in 0 .. now /\ date > 1000
        BY <1>1
      <3>2. a <= date /\ date <= b
        BY <1>3, <3>1
      <3> QED
        BY <1>1, <1>3, <1>7, <3>1, <3>2
    <2>3. NoDate <= now
      BY <1>1 DEF NoDate
    <2> QED
      BY <2>1, <2>2, <2>3 DEF RightDates, now, expr, dates, means
  <1>8. range = Span(a, b) => \/ range = <<a, b>> /\ 1 <= a
                              \/ range = NoDates /\ (a <= 6 \/ EndOfTime < b)
    <2>1. CASE 1 <= a /\ b <= EndOfTime
      <3>1. InCalendar(a) /\ InCalendar(b)
        BY <1>1, <1>3, <2>1 DEF InCalendar, EndOfTime
      <3> QED
        BY <2>1, <3>1 DEF Span
    <2>2. CASE ~(1 <= a)
      <3>1. ~InCalendar(a) /\ a <= 6
        BY <2>2 DEF InCalendar
      <3> QED
        BY <3>1 DEF Span
    <2>3. CASE ~(b <= EndOfTime)
      <3>1. ~InCalendar(b) /\ EndOfTime < b
        BY <1>1, <2>3 DEF InCalendar, EndOfTime
      <3> QED
        BY <3>1 DEF Span
    <2> QED
      BY <2>1, <2>2, <2>3
  <1> QED
    BY <1>2, <1>6, <1>7, <1>8

\* Days.
LEMMA DayResolved ==
    ASSUME NEW expr, NEW today, IsToday(today), expr.offset \in Int,
           expr.unit = "day", ~Incomplete(expr)
    PROVE  Resolved(expr, today, ResolveRelative(expr, today))
  <1> DEFINE day == Now(today) + expr.offset
  <1>1. Now(today) \in Nat
    BY TodayIs
  <1>2. ResolveRelative(expr, today) = Span(day, day)
    BY DEF ResolveRelative, Now
  <1>3. \A date \in 0 .. Now(today) : Means(expr, today, date) <=> date - Now(today) = expr.offset
    BY DEF Means, Now
  <1>4. \A date \in 0 .. Now(today) : date - Now(today) = expr.offset <=> day <= date /\ date <= day
    BY <1>1
  <1>5. MeansSpan(expr, today, day, day)
    BY <1>1, <1>3, <1>4 DEF MeansSpan
  <1> QED
    BY <1>1, <1>2, <1>5 DEF Resolved

\* Weeks, and the days of a week.
LEMMA WeekResolved ==
    ASSUME NEW expr, NEW today, IsToday(today), expr.offset \in Int,
           expr.weekday \in 0 .. 6 \cup {Absent}, expr.unit = "week", ~Incomplete(expr)
    PROVE  Resolved(expr, today, ResolveRelative(expr, today))
  <1> DEFINE now == Now(today)
  <1> DEFINE monday == now - Weekday(now) + 7 * expr.offset
  <1> DEFINE day == monday + expr.weekday
  <1>1. now \in Nat /\ EndOfTime \in Nat
    BY TodayIs
  <1>2. ResolveRelative(expr, today) =
            IF expr.weekday = Absent THEN Span(monday, monday + 6)
            ELSE IF InCalendar(monday) THEN Span(day, day) ELSE NoDates
    BY DEF ResolveRelative, Now
  <1>3. \A date \in 0 .. now : Means(expr, today, date) <=>
            /\ ((date - 1) \div 7) - ((now - 1) \div 7) = expr.offset
            /\ expr.weekday \in {Absent, Weekday(date)}
    BY DEF Means, Now
  <1> HIDE DEF now
  <1>4. monday \in Int
    BY <1>1 DEF Weekday
  <1>5. ASSUME NEW date \in 0 .. now
        PROVE  /\ ((date - 1) \div 7) - ((now - 1) \div 7) = expr.offset
                    <=> monday <= date /\ date <= monday + 6
               /\ monday <= date /\ date <= monday + 6 => Weekday(date) = date - monday
    <2> DEFINE week == (now - 1) \div 7
    <2>1. week \in Int /\ now - Weekday(now) = 7 * week + 1
      BY <1>1 DEF Weekday
    <2>2. monday = 7 * (week + expr.offset) + 1
      BY <2>1
    <2>3. week + expr.offset \in Int
      BY <2>1
    <2> DEFINE w == week + expr.offset
    <2>4. ((date - 1) \div 7) - week = expr.offset <=> (date - 1) \div 7 = w
      BY <1>1, <2>1
    <2>5. monday = 7 * w + 1 /\ w \in Int
      BY <2>2, <2>3
    <2> HIDE DEF w, monday
    <2>6. (date - 1) \div 7 = w <=> monday <= date /\ date <= monday + 6
      BY <1>1, <2>5
    <2>7. monday <= date /\ date <= monday + 6 => Weekday(date) = date - monday
      BY <1>1, <2>5 DEF Weekday
    <2> QED
      BY <2>4, <2>6, <2>7
  <1> HIDE DEF monday
  <1>6. CASE expr.weekday = Absent
    <2>1. MeansSpan(expr, today, monday, monday + 6)
      BY <1>1, <1>3, <1>4, <1>5, <1>6 DEF MeansSpan, now
    <2>2. ResolveRelative(expr, today) = Span(monday, monday + 6)
      BY <1>2, <1>6
    <2>3. monday + 6 \in Int
      BY <1>4
    <2> QED
      BY <1>4, <2>1, <2>2, <2>3 DEF Resolved
  <1>7. CASE expr.weekday # Absent
    <2>1. expr.weekday \in 0 .. 6 /\ day \in Int
      BY <1>4, <1>7
    <2>2. \A date \in 0 .. now : Means(expr, today, date) <=> day <= date /\ date <= day
      <3> TAKE date \in 0 .. now
      <3>1. Means(expr, today, date) <=>
                (monday <= date /\ date <= monday + 6 /\ expr.weekday = date - monday)
        BY <1>3, <1>5, <1>7
      <3> QED
        BY <1>1, <1>4, <2>1, <3>1
    <2>3. MeansSpan(expr, today, day, day)
      BY <2>1, <2>2 DEF MeansSpan, now
    <2>4. \/ ResolveRelative(expr, today) = Span(day, day)
          \/ ResolveRelative(expr, today) = NoDates /\ (day <= 6 \/ EndOfTime < day)
      <3>1. ~InCalendar(monday) => day <= 6 \/ EndOfTime < day
        BY <1>1, <1>4, <2>1 DEF InCalendar, EndOfTime
      <3> QED
        BY <1>2, <1>7, <3>1
    <2> HIDE DEF day
    <2> QED
      BY <2>1, <2>3, <2>4 DEF Resolved
  <1> QED
    BY <1>6, <1>7

\* The latest day of a name.
LEMMA WeekdayResolved ==
    ASSUME NEW expr, NEW today, IsToday(today),
           expr.weekday \in 0 .. 6 \cup {Absent}, expr.unit = "weekday", ~Incomplete(expr)
    PROVE  Resolved(expr, today, ResolveRelative(expr, today))
  <1> DEFINE now == Now(today)
  <1> DEFINE back == (Weekday(now) - expr.weekday) % 7
  <1> DEFINE day == now - back
  <1>1. now \in Nat /\ expr.weekday \in 0 .. 6
    BY TodayIs DEF Incomplete
  <1>2. ResolveRelative(expr, today) = Span(day, day)
    BY DEF ResolveRelative, Now
  <1>3. \A date \in 0 .. now : Means(expr, today, date) <=>
            date \in now - 6 .. now /\ Weekday(date) = expr.weekday
    BY DEF Means, Now
  <1> HIDE DEF now
  <1>4. day \in Int
    BY <1>1 DEF Weekday
  <1>5. ASSUME NEW date \in 0 .. now
        PROVE  date \in now - 6 .. now /\ Weekday(date) = expr.weekday <=> day <= date /\ date <= day
    BY <1>1 DEF Weekday
  <1> HIDE DEF day
  <1>6. MeansSpan(expr, today, day, day)
    BY <1>3, <1>4, <1>5 DEF MeansSpan, now
  <1> QED
    BY <1>2, <1>4, <1>6 DEF Resolved

\* Years.
LEMMA YearResolved ==
    ASSUME NEW expr, NEW today, IsToday(today), expr.offset \in Int,
           expr.unit = "year", ~Incomplete(expr)
    PROVE  Resolved(expr, today, ResolveRelative(expr, today))
  <1> DEFINE now == Now(today)
  <1> DEFINE y == today.year + expr.offset
  <1> DEFINE first == DaysBeforeYear(y) + 1
  <1> DEFINE last == DaysBeforeYear(y + 1)
  <1>1. now \in Nat /\ YearOf(now) = today.year /\ today.year \in Nat
    BY TodayIs DEF IsToday
  <1>2. ResolveRelative(expr, today) = Span(first, last)
    BY DEF ResolveRelative, Now
  <1>3. \A date \in 0 .. now : Means(expr, today, date) <=> YearOf(date) - YearOf(now) = expr.offset
    BY DEF Means, Now
  <1>4. y \in Int
    BY <1>1
  <1>5. YearOf(now) + expr.offset = y
    BY <1>1
  <1> HIDE DEF now, y
  <1>6. /\ DaysBeforeYear(y) \in Int /\ LeapDay(y) \in 0 .. 1
        /\ DaysBeforeYear(y + 1) = DaysBeforeYear(y) + 365 + LeapDay(y)
    BY <1>4, YearLength
  <1>7. first \in Int /\ last \in Int /\ first <= last /\ last <= first + 365
    BY <1>6
  <1>8. ASSUME NEW date \in 0 .. now
        PROVE  Means(expr, today, date) <=> first <= date /\ date <= last
    <2>1. date \in Nat
      BY <1>1
    <2>2. YearOf(date) \in Nat
      BY <2>1, YearIs
    <2>3. YearOf(date) - YearOf(now) = expr.offset <=> YearOf(date) = y
      BY <1>1, <1>5, <2>2
    <2>4. YearOf(date) = y <=> DaysBeforeYear(y) < date /\ date <= DaysBeforeYear(y + 1)
      BY <1>4, <2>1, YearIs
    <2> QED
      BY <1>3, <1>6, <2>1, <2>3, <2>4
  <1> HIDE DEF first, last
  <1>9. MeansSpan(expr, today, first, last)
    BY <1>7, <1>8 DEF MeansSpan, now
  <1> QED
    BY <1>2, <1>7, <1>9 DEF Resolved

\* The n months from the k-th have their days from the first to the last.
SpanOfMonths(k, n, first, last) ==
    /\ MonthRange(k, n) = Span(first, last)
    /\ first \in Int /\ last \in Int /\ first <= last /\ last <= first + 365
    /\ \A date \in Nat : first <= date /\ date <= last
                           <=> k <= MonthOf(date) /\ MonthOf(date) < k + n

\* The days of some months.
LEMMA MonthsSpan ==
    ASSUME NEW k \in Int, NEW n \in {1, 3}
    PROVE  SpanOfMonths(k, n, FirstOfMonth(k), FirstOfMonth(k + n) - 1)
  <1> DEFINE first == FirstOfMonth(k)
  <1> DEFINE last == FirstOfMonth(k + n) - 1
  <1>1. MonthRange(k, n) = Span(first, last)
    BY DEF MonthRange
  <1>2. /\ FirstOfMonth(k) \in Int /\ FirstOfMonth(k + 1) - FirstOfMonth(k) \in 28 .. 31
        /\ FirstOfMonth(k + 1) \in Int
        /\ FirstOfMonth(k + 1 + 1) - FirstOfMonth(k + 1) \in 28 .. 31 /\ FirstOfMonth(k + 1 + 1) \in Int
        /\ FirstOfMonth(k + 1 + 1 + 1) - FirstOfMonth(k + 1 + 1) \in 28 .. 31
        /\ FirstOfMonth(k + 1 + 1 + 1) \in Int
    <2>1. k + 1 \in Int /\ k + 1 + 1 \in Int /\ k + 1 + 1 + 1 \in Int
      OBVIOUS
    <2>2. FirstOfMonth(k) \in Int /\ FirstOfMonth(k + 1) - FirstOfMonth(k) \in 28 .. 31
      BY MonthLength
    <2>3. FirstOfMonth(k + 1) \in Int /\ FirstOfMonth(k + 1 + 1) - FirstOfMonth(k + 1) \in 28 .. 31
      BY <2>1, MonthLength
    <2>4. /\ FirstOfMonth(k + 1 + 1) \in Int
          /\ FirstOfMonth(k + 1 + 1 + 1) - FirstOfMonth(k + 1 + 1) \in 28 .. 31
      BY <2>1, MonthLength
    <2>5. FirstOfMonth(k + 1 + 1 + 1) \in Int
      BY <2>1, MonthLength
    <2> QED
      BY <2>2, <2>3, <2>4, <2>5
  <1>3. k + 3 = k + 1 + 1 + 1 /\ k + n \in Int
    OBVIOUS
  <1>4. first \in Int /\ last \in Int /\ first <= last /\ last <= first + 365
    <2>1. CASE n = 1
      BY <1>2, <2>1
    <2>2. CASE n = 3
      BY <1>2, <1>3, <2>2
    <2> QED
      BY <2>1, <2>2
  <1>5. ASSUME NEW date \in Nat
        PROVE  first <= date /\ date <= last <=> k <= MonthOf(date) /\ MonthOf(date) < k + n
    <2>1. MonthOf(date) \in Nat
      BY MonthIs
    <2>2. FirstOfMonth(k) <= date <=> k <= MonthOf(date)
      BY SinceMonth
    <2>3. FirstOfMonth(k + n) <= date <=> k + n <= MonthOf(date)
      BY <1>3, SinceMonth
    <2>4. date <= last <=> ~(FirstOfMonth(k + n) <= date)
      <3>1. FirstOfMonth(k + n) \in Int
        BY <1>3, MonthLength
      <3> QED
        BY <3>1
    <2>5. MonthOf(date) < k + n <=> ~(k + n <= MonthOf(date))
      BY <1>3, <2>1
    <2> QED
      BY <2>2, <2>3, <2>4, <2>5
  <1> HIDE DEF first, last
  <1>6. SpanOfMonths(k, n, first, last)
    BY <1>1, <1>4, <1>5 DEF SpanOfMonths
  <1> QED
    BY <1>6 DEF first, last

\* An expression that means some months.
LEMMA MonthsResolved ==
    ASSUME NEW expr, NEW today, IsToday(today), NEW k \in Int, NEW n \in {1, 3},
           ResolveRelative(expr, today) = MonthRange(k, n),
           \A date \in 0 .. Now(today) :
              Means(expr, today, date) <=> k <= MonthOf(date) /\ MonthOf(date) < k + n
    PROVE  Resolved(expr, today, ResolveRelative(expr, today))
  <1> DEFINE first == FirstOfMonth(k)
  <1> DEFINE last == FirstOfMonth(k + n) - 1
  <1>1. SpanOfMonths(k, n, first, last)
    BY MonthsSpan
  <1>2. \A date \in 0 .. Now(today) : date \in Nat
    BY TodayIs
  <1> HIDE DEF first, last
  <1>3. MeansSpan(expr, today, first, last)
    BY <1>1, <1>2 DEF MeansSpan, SpanOfMonths
  <1> QED
    BY <1>1, <1>3 DEF Resolved, SpanOfMonths

\* Months.
LEMMA MonthResolved ==
    ASSUME NEW expr, NEW today, IsToday(today), expr.offset \in Int,
           expr.unit = "month", ~Incomplete(expr)
    PROVE  Resolved(expr, today, ResolveRelative(expr, today))
  <1> DEFINE now == Now(today)
  <1> DEFINE k == 12 * today.year + today.month - 1 + expr.offset
  <1>1. /\ now \in Nat /\ MonthOf(now) = 12 * today.year + today.month - 1
        /\ today.year \in Nat /\ today.month \in Nat
    BY TodayIs DEF IsToday
  <1>2. ResolveRelative(expr, today) = MonthRange(k, 1)
    BY DEF ResolveRelative
  <1>3. \A date \in 0 .. now : Means(expr, today, date) <=> MonthOf(date) - MonthOf(now) = expr.offset
    BY DEF Means, Now
  <1> HIDE DEF now
  <1>4. k \in Int
    BY <1>1
  <1>5. ASSUME NEW date \in 0 .. now
        PROVE  Means(expr, today, date) <=> k <= MonthOf(date) /\ MonthOf(date) < k + 1
    <2>1. MonthOf(date) \in Nat
      BY <1>1, MonthIs
    <2>2. MonthOf(date) - MonthOf(now) = expr.offset <=> MonthOf(date) = k
      BY <1>1, <2>1
    <2> QED
      BY <1>3, <1>4, <2>1, <2>2
  <1> HIDE DEF k
  <1> QED
    BY <1>2, <1>4, <1>5, MonthsResolved DEF now

\* Seasons.
LEMMA SeasonResolved ==
    ASSUME NEW expr, NEW today, IsToday(today), expr.offset \in Int,
           expr.season \in DOMAIN SeasonStart \cup {"none"},
           expr.unit = "season", ~Incomplete(expr)
    PROVE  Resolved(expr, today, ResolveRelative(expr, today))
  <1> DEFINE now == Now(today)
  <1> DEFINE start == SeasonStart[expr.season]
  <1> DEFINE latest == IF Ordinal(today.year, start, 1) <= now THEN today.year ELSE today.year - 1
  <1> DEFINE year == IF expr.offset = Absent THEN latest ELSE today.year + expr.offset
  <1> DEFINE k == 12 * year + start - 1
  <1>1. /\ now \in Nat /\ YearOf(now) = today.year
        /\ MonthOf(now) = 12 * today.year + today.month - 1
        /\ today.year \in Nat /\ today.month \in 1 .. 12
    BY TodayIs DEF IsToday
  <1>2. start \in {3, 6, 9, 12}
    <2>1. expr.season \in DOMAIN SeasonStart
      BY DEF Incomplete
    <2> QED
      BY <2>1 DEF SeasonStart
  <1>3. ResolveRelative(expr, today) = MonthRange(k, 3)
    BY DEF ResolveRelative, Now
  <1>4. \A date \in 0 .. now : Means(expr, today, date) <=>
            /\ InSeason(date, start)
            /\ SeasonYear(date, start) = IF expr.offset = Absent THEN SeasonYear(now, start)
                                         ELSE YearOf(now) + expr.offset
    BY DEF Means, Now
  <1> HIDE DEF now, start
  <1>5. Ordinal(today.year, start, 1) <= now <=> start <= today.month
    <2> DEFINE s == 12 * today.year + start - 1
    <2>1. s \in Int /\ s \div 12 = today.year /\ (s % 12) + 1 = start
      <3> DEFINE y == today.year
      <3> DEFINE m == start
      <3>1. y \in Nat /\ m \in 1 .. 12
        BY <1>1, <1>2
      <3> HIDE DEF y, m
      <3>2. /\ 12 * y + m - 1 \in Int /\ (12 * y + m - 1) \div 12 = y
            /\ ((12 * y + m - 1) % 12) + 1 = m
        BY <3>1
      <3> QED
        BY <3>2 DEF y, m
    <2>2. FirstOfMonth(s) = Ordinal(today.year, start, 1)
      BY <2>1 DEF FirstOfMonth
    <2>3. FirstOfMonth(s) <= now <=> s <= MonthOf(now)
      <3> HIDE DEF s
      <3> QED
        BY <1>1, <2>1, SinceMonth
    <2>4. s <= MonthOf(now) <=> start <= today.month
      BY <1>1, <1>2
    <2> QED
      BY <2>2, <2>3, <2>4
  <1>6. year \in Int /\ k \in Int
    BY <1>1, <1>2
  <1>7. SeasonYear(now, start) = latest
    BY <1>1, <1>2, <1>5 DEF SeasonYear
  <1>8. year = IF expr.offset = Absent THEN SeasonYear(now, start) ELSE YearOf(now) + expr.offset
    BY <1>1, <1>7
  <1> HIDE DEF year
  <1>9. ASSUME NEW date \in 0 .. now
        PROVE  Means(expr, today, date) <=> k <= MonthOf(date) /\ MonthOf(date) < k + 3
    <2>1. MonthOf(date) \in Nat
      BY <1>1, MonthIs
    <2>2. Means(expr, today, date) <=>
            /\ (MonthOf(date) - (start - 1)) % 12 <= 2
            /\ (MonthOf(date) - (start - 1)) \div 12 = year
      BY <1>4, <1>8 DEF InSeason, SeasonYear
    <2> QED
      BY <1>2, <1>6, <2>1, <2>2
  <1> HIDE DEF k
  <1> QED
    BY <1>3, <1>6, <1>9, MonthsResolved DEF now

\* The dates of every output that the model may write are right.
LEMMA DatesOfOutput ==
    ASSUME NEW output, IsOutput(output), NEW today, IsToday(today)
    PROVE  RightDates(output, today, DateRange(output, today))
  <1> DEFINE now == Now(today)
  <1> DEFINE expr == output.relative
  <1> DEFINE dates == DateRange(output, today)
  <1>1. now \in Nat /\ NoDate \in Int /\ NoDate <= now
    BY TodayIs DEF NoDate
  <1>2. CASE expr.unit = "none"
    <2> DEFINE range == IF BadDate \in {output.from, output.to} THEN NoDates
                        ELSE <<output.from, output.to>>
    <2> DEFINE end == IF range[2] = NoDate THEN NoDate ELSE Min({range[2], now})
    <2>1. dates = IF range[1] # NoDate /\ range[1] > (IF end = NoDate THEN now ELSE end)
                  THEN NoDates ELSE <<range[1], end>>
      BY <1>2 DEF DateRange, Now
    <2>2. range[1] \in Int /\ range[2] \in Int
      <3>1. output.from \in Int /\ output.to \in Int
        BY DEF IsOutput
      <3> QED
        BY <1>1, <3>1 DEF NoDates
    <2> HIDE DEF range, now
    <2>3. end \in Int /\ end <= now
      BY <1>1, <2>2, MinIs
    <2> HIDE DEF end
    <2>4. CASE dates = NoDates
      <3>1. dates[1] = NoDate /\ dates[2] = NoDate
        BY <2>4 DEF NoDates
      <3> HIDE DEF dates
      <3> QED
        BY <1>1, <1>2, <3>1 DEF RightDates, now, dates
    <2>5. CASE /\ dates = <<range[1], end>>
               /\ range[1] = NoDate \/ range[1] <= (IF end = NoDate THEN now ELSE end)
      <3>1. dates[1] = range[1] /\ dates[2] = end
        BY <2>5
      <3>2. dates[1] <= now /\ dates[2] <= now
        BY <1>1, <2>2, <2>3, <2>5, <3>1
      <3>3. dates[1] # NoDate /\ dates[2] # NoDate => dates[1] <= dates[2]
        BY <2>2, <2>3, <2>5, <3>1
      <3> HIDE DEF dates
      <3> QED
        BY <1>2, <3>2, <3>3 DEF RightDates, now, dates
    <2>6. \/ dates = NoDates
          \/ /\ dates = <<range[1], end>>
             /\ range[1] = NoDate \/ range[1] <= (IF end = NoDate THEN now ELSE end)
      <3>1. (IF end = NoDate THEN now ELSE end) \in Int
        BY <1>1, <2>3
      <3> HIDE DEF dates
      <3> QED
        BY <2>1, <2>2, <3>1
    <2> QED
      BY <2>4, <2>5, <2>6
  <1>3. CASE expr.unit # "none" /\ Incomplete(expr)
    <2>1. ResolveRelative(expr, today) = NoDates
      BY <1>3 DEF ResolveRelative
    <2>2. dates = NoDates
      BY <1>3, <2>1, CutToday
    <2>3. dates[1] = NoDate /\ dates[2] = NoDate
      BY <2>2 DEF NoDates
    <2> HIDE DEF dates, now
    <2> QED
      BY <1>1, <1>3, <2>3 DEF RightDates, now, dates
  <1>4. CASE expr.unit # "none" /\ ~Incomplete(expr)
    <2>1. /\ expr.unit \in {"day", "week", "weekday", "month", "year", "season"}
          /\ expr.offset \in Int /\ expr.weekday \in 0 .. 6 \cup {Absent}
          /\ expr.season \in DOMAIN SeasonStart \cup {"none"}
      BY <1>4 DEF IsOutput
    <2> HIDE DEF expr
    <2>2. Resolved(expr, today, ResolveRelative(expr, today))
      BY <1>4, <2>1, DayResolved, WeekResolved, WeekdayResolved, MonthResolved, YearResolved,
         SeasonResolved
    <2> QED
      BY <1>4, <2>2, ResolvedIsRight DEF expr
  <1> QED
    BY <1>2, <1>3, <1>4

-----------------------------------------------------------------------------
(* Queries: the invariant.                                                 *)

\* The dates that a parse may find.
AllDates ==
    {NoDates} \cup {DateRange(output, q.today) : output \in Outputs, q \in Queries}

QueryStates ==
    [pc : {"start", "encode", "search", "ranked", "answer", "parse", "unwind", "ended"},
     stage : {"", "encode", "search", "answer", "parse"}, now : Nat, since : Nat,
     hits : SUBSET Hits, selected : Seq(Nat), urls : Nat, output : Outputs \cup {NoOutput},
     dates : AllDates, parsed : BOOLEAN,
     answer : {"", "NO_EVIDENCE", "text", "VLM_UNAVAILABLE", "TIMEOUT"},
     outcome : {Running, "OK", "INTERNAL_ERROR", "MODEL_NOT_READY", "TIMEOUT", "CANCELED"}]

QueryTypeOK == query \in Queries /\ answering \in QueryStates

\* Only a search selects, and what it selects is a result.
SelectsResults ==
    /\ ~IsSearch => answering.selected = <<>>
    /\ IsSearch => IsResult(answering.selected)
    /\ answering.urls <= Len(answering.selected)

\* How much time the stages have taken, and what they have found.
StagesInTime ==
    LET pc == answering.pc
        stage == answering.stage
        now == answering.now
        since == answering.since
    IN  /\ since <= now
        /\ pc # "ended" => answering.outcome = Running /\ ~answering.parsed
        /\ pc = "start" => /\ now = 0 /\ answering.selected = <<>>
                           /\ answering.urls = 0 /\ answering.hits = {}
        /\ pc = "parse" => ~IsSearch /\ since = 0 /\ now <= ParseLimit
        /\ pc \in {"encode", "search"} =>
              IsSearch /\ since = 0 /\ now <= RetrievalLimit /\ answering.selected = <<>>
        /\ pc = "ranked" => IsSearch
        /\ pc = "answer" => IsSearch /\ since <= RetrievalLimit /\ now - since <= AnswerLimit
        /\ pc = "unwind" =>
              /\ stage # "" /\ now - since <= ReleaseLimit
              /\ stage = "parse" => ~IsSearch /\ since <= ParseLimit
              /\ stage \in {"encode", "search"} => IsSearch /\ answering.selected = <<>>
              /\ stage = "answer" => IsSearch /\ since <= RetrievalLimit + AnswerLimit

\* The dates are those of the output that was parsed.
ParsedFromOutput ==
    answering.parsed => /\ ~IsSearch /\ answering.output \in Outputs
                        /\ answering.dates = DateRange(answering.output, query.today)

\* The inductive invariant.
QueryInv ==
    /\ QueryTypeOK /\ SelectsResults /\ Evidence /\ StagesInTime /\ ParsedFromOutput
    /\ OnlyRetrievalFails

\* The limits are numbers.
LEMMA LimitsAreNumbers ==
    /\ ParseLimit \in Nat \ {0} /\ RetrievalLimit \in Nat \ {0} /\ AnswerLimit \in Nat \ {0}
    /\ RequestLimit \in Nat \ {0} /\ ReleaseLimit \in Nat \ {0}
  BY QueryAssumption

\* The start.
LEMMA QueryStarts == QueryInit => QueryInv
  <1> SUFFICES ASSUME QueryInit PROVE QueryInv
    OBVIOUS
  <1>1. query \in Queries
    BY DEF QueryInit
  <1>2. answering = [pc |-> "start", stage |-> "", now |-> 0, since |-> 0, hits |-> {},
                     selected |-> <<>>, urls |-> 0, output |-> NoOutput, dates |-> NoDates,
                     parsed |-> FALSE, answer |-> "", outcome |-> Running]
    BY DEF QueryInit
  <1>3. <<>> \in Seq(Nat) /\ Len(<<>>) = 0
    OBVIOUS
  <1>4. /\ answering.pc = "start" /\ answering.stage = "" /\ answering.now = 0
        /\ answering.since = 0 /\ answering.hits = {} /\ answering.selected = <<>>
        /\ answering.urls = 0 /\ answering.outcome = Running
    BY <1>2
  <1>5. answering.parsed = FALSE
    BY <1>2
  <1>6. answering \in QueryStates
    <2>1. {} \in SUBSET Hits /\ NoOutput \in Outputs \cup {NoOutput} /\ NoDates \in AllDates
      BY DEF AllDates
    <2>2. FALSE \in BOOLEAN /\ Running \in {Running, "OK", "INTERNAL_ERROR", "MODEL_NOT_READY",
                                            "TIMEOUT", "CANCELED"}
      OBVIOUS
    <2> DEFINE nothing == <<>>
    <2> DEFINE no == FALSE
    <2>3. nothing \in Seq(Nat) /\ no \in BOOLEAN
      BY <1>3
    <2>4. answering = [pc |-> "start", stage |-> "", now |-> 0, since |-> 0, hits |-> {},
                       selected |-> nothing, urls |-> 0, output |-> NoOutput, dates |-> NoDates,
                       parsed |-> no, answer |-> "", outcome |-> Running]
      BY <1>2
    <2> HIDE DEF nothing, no
    <2> QED
      BY <2>1, <2>2, <2>3, <2>4 DEF QueryStates
  <1>7. SelectsResults
    <2>1. IsSearch => IsResult(<<>>)
      BY <1>1, NothingIsResult
    <2>2. answering.urls <= Len(answering.selected)
      <3>1. answering.selected \in Seq(Nat)
        BY <1>6 DEF QueryStates
      <3>2. answering.urls = 0
        BY <1>4
      <3> QED
        BY <3>1, <3>2
    <2>3. IsSearch => IsResult(answering.selected)
      BY <1>4, <2>1
    <2> QED
      BY <1>4, <2>2, <2>3 DEF SelectsResults
  <1>8. Evidence
    BY <1>4 DEF Evidence
  <1>9. StagesInTime
    <2>1. answering.pc = "start" /\ answering.now = 0 /\ answering.since = 0
      BY <1>4
    <2>2. answering.outcome = Running /\ answering.selected = <<>> /\ ~answering.parsed
      BY <1>4, <1>5
    <2>3. answering.urls = 0
      BY <1>4
    <2>4. answering.hits = {}
      BY <1>4
    <2> QED
      BY <2>1, <2>2, <2>3, <2>4 DEF StagesInTime
  <1>10. ParsedFromOutput
    BY <1>5 DEF ParsedFromOutput
  <1>11. OnlyRetrievalFails
    BY <1>4 DEF OnlyRetrievalFails, Running
  <1> QED
    BY <1>1, <1>6, <1>7, <1>8, <1>9, <1>10, <1>11 DEF QueryInv, QueryTypeOK

\* What depends on the request alone stays.
LEMMA RequestStays ==
    ASSUME UNCHANGED query
    PROVE  /\ IsSearch' = IsSearch /\ Limit' = Limit /\ Candidates' = Candidates
           /\ InTimeOrder(Candidates)' = InTimeOrder(Candidates)
           /\ \A photos : IsResult(photos)' <=> IsResult(photos)
           /\ \A hits : Strays(hits)' = Strays(hits)
  <1>1. query' = query
    OBVIOUS
  <1>2. IsSearch' = IsSearch
    BY <1>1 DEF IsSearch
  <1>3. Limit' = Limit
    BY <1>1 DEF Limit
  <1>4. Candidates' = Candidates
    BY <1>1 DEF Candidates, InTimeWindows
  <1>5. InTimeOrder(Candidates)' = InTimeOrder(Candidates)
    BY <1>1, <1>4 DEF InTimeOrder
  <1>6. ASSUME NEW photos PROVE IsResult(photos)' <=> IsResult(photos)
    BY <1>1, <1>3 DEF IsResult, ResultIsValid
  <1>7. ASSUME NEW hits PROVE Strays(hits)' = Strays(hits)
    BY <1>4 DEF Strays
  <1> QED
    BY <1>2, <1>3, <1>4, <1>5, <1>6, <1>7

\* A query ends with an error.
LEMMA RaisesKeeps ==
    ASSUME QueryInv, UNCHANGED query,
           NEW code \in {"INTERNAL_ERROR", "MODEL_NOT_READY", "TIMEOUT", "CANCELED"},
           Raises(code),
           code # "CANCELED" => IsSearch,
           code = "INTERNAL_ERROR" => Strays(answering.hits) # {},
           \/ code = "CANCELED" \/ answering.selected = <<>>
           \/ /\ answering.stage = "answer" /\ code = "TIMEOUT"
              /\ answering.now - answering.since >= ReleaseLimit
    PROVE  QueryInv'
  <1>1. query \in Queries /\ answering \in QueryStates
    BY DEF QueryInv, QueryTypeOK
  <1>2. answering' = [answering EXCEPT !.pc = "ended", !.outcome = code]
    BY DEF Raises, Proceed
  <1>3. answering' \in QueryStates
    BY <1>1, <1>2 DEF QueryStates
  <1>4. /\ answering'.pc = "ended" /\ answering'.outcome = code
        /\ answering'.stage = answering.stage /\ answering'.now = answering.now
        /\ answering'.since = answering.since /\ answering'.hits = answering.hits
        /\ answering'.selected = answering.selected /\ answering'.urls = answering.urls
        /\ answering'.output = answering.output /\ answering'.dates = answering.dates
        /\ answering'.parsed = answering.parsed
    BY <1>1, <1>2 DEF QueryStates
  <1>5. query' = query
    OBVIOUS
  <1>6. /\ IsSearch' = IsSearch /\ Limit' = Limit
        /\ InTimeOrder(Candidates)' = InTimeOrder(Candidates)
        /\ \A photos : IsResult(photos)' <=> IsResult(photos)
        /\ \A hits : Strays(hits)' = Strays(hits)
    BY RequestStays
  <1>7. SelectsResults'
    BY <1>4, <1>6 DEF QueryInv, SelectsResults
  <1>8. Evidence'
    BY <1>4, <1>6 DEF QueryInv, Evidence
  <1>9. StagesInTime'
    BY <1>4 DEF QueryInv, StagesInTime
  <1>10. ParsedFromOutput'
    <2>1. answering.parsed => ParsedFromOutput'
      BY <1>4, <1>5, <1>6 DEF QueryInv, ParsedFromOutput
    <2>2. ~answering.parsed => ~answering'.parsed
      BY <1>4
    <2> QED
      BY <2>1, <2>2 DEF ParsedFromOutput
  <1>11. OnlyRetrievalFails'
    BY <1>4, <1>6 DEF OnlyRetrievalFails
  <1> QED
    BY <1>1, <1>3, <1>5, <1>7, <1>8, <1>9, <1>10, <1>11 DEF QueryInv, QueryTypeOK

\* A search ends with a response.
LEMMA RespondsKeeps ==
    ASSUME QueryInv, UNCHANGED query, IsSearch, answering.pc # "ended",
           NEW photos, IsResult(photos),
           NEW answer \in {"", "NO_EVIDENCE", "text", "VLM_UNAVAILABLE", "TIMEOUT"},
           Responds(photos, answer),
           answering.urls <= Len(photos),
           \/ photos = answering.selected
           \/ photos = <<>>
           \/ answering.hits = {} /\ photos = First(InTimeOrder(Candidates), Limit)
    PROVE  QueryInv'
  <1>1. query \in Queries /\ answering \in QueryStates /\ query' = query
    BY DEF QueryInv, QueryTypeOK
  <1>2. answering' = [answering EXCEPT !.pc = "ended", !.outcome = "OK",
                                       !.selected = photos, !.answer = answer]
    BY DEF Responds, Proceed, IsResult
  <1>3. photos \in Seq(Nat)
    BY DEF IsResult
  <1>4. answering' \in QueryStates
    BY <1>1, <1>2, <1>3 DEF QueryStates
  <1>5. /\ answering'.pc = "ended" /\ answering'.outcome = "OK"
        /\ answering'.now = answering.now /\ answering'.since = answering.since
        /\ answering'.hits = answering.hits /\ answering'.urls = answering.urls
        /\ answering'.selected = photos
    BY <1>1, <1>2 DEF QueryStates
  <1>6. answering'.parsed = answering.parsed
    BY <1>1, <1>2 DEF QueryStates
  <1>7. /\ IsSearch' = IsSearch /\ Limit' = Limit
        /\ InTimeOrder(Candidates)' = InTimeOrder(Candidates)
        /\ \A p : IsResult(p)' <=> IsResult(p)
        /\ \A hits : Strays(hits)' = Strays(hits)
    BY RequestStays
  <1>8. SelectsResults'
    BY <1>5, <1>7 DEF SelectsResults
  <1>9. Evidence'
    <2>1. CASE photos = answering.selected
      BY <1>5, <1>7, <2>1 DEF QueryInv, Evidence
    <2>2. CASE photos = <<>>
      BY <1>5, <2>2 DEF Evidence
    <2>3. CASE answering.hits = {} /\ photos = First(InTimeOrder(Candidates), Limit)
      BY <1>5, <1>7, <2>3 DEF Evidence
    <2> QED
      BY <2>1, <2>2, <2>3
  <1>10. StagesInTime'
    BY <1>5 DEF QueryInv, StagesInTime
  <1>11. ParsedFromOutput'
    <2>1. ~answering.parsed
      BY DEF QueryInv, StagesInTime
    <2>2. ~answering'.parsed
      BY <1>6, <2>1
    <2> QED
      BY <2>2 DEF ParsedFromOutput
  <1>12. OnlyRetrievalFails'
    BY <1>5 DEF OnlyRetrievalFails
  <1> QED
    BY <1>1, <1>4, <1>8, <1>9, <1>10, <1>11, <1>12 DEF QueryInv, QueryTypeOK

\* A query goes on with what it has selected.
LEMMA GoesOnKeeps ==
    ASSUME QueryInv, UNCHANGED query, answering.pc # "ended",
           answering' \in QueryStates, answering'.outcome = Running,
           answering'.parsed = answering.parsed,
           answering'.selected = answering.selected, answering'.hits = answering.hits,
           answering'.urls <= Len(answering.selected), StagesInTime'
    PROVE  QueryInv'
  <1>1. query \in Queries /\ query' = query
    BY DEF QueryInv, QueryTypeOK
  <1>2. /\ IsSearch' = IsSearch /\ Limit' = Limit
        /\ InTimeOrder(Candidates)' = InTimeOrder(Candidates)
        /\ \A p : IsResult(p)' <=> IsResult(p)
        /\ \A hits : Strays(hits)' = Strays(hits)
    BY RequestStays
  <1>3. SelectsResults'
    BY <1>2 DEF QueryInv, SelectsResults
  <1>4. Evidence'
    BY <1>2 DEF QueryInv, Evidence
  <1>5. ParsedFromOutput'
    <2>1. ~answering.parsed
      BY DEF QueryInv, StagesInTime
    <2>2. ~answering'.parsed
      BY <2>1
    <2> QED
      BY <2>2 DEF ParsedFromOutput
  <1>6. OnlyRetrievalFails'
    BY DEF OnlyRetrievalFails, Running
  <1> QED
    BY <1>1, <1>3, <1>4, <1>5, <1>6 DEF QueryInv, QueryTypeOK

-----------------------------------------------------------------------------
(* Queries: the steps.                                                     *)

\* A search starts.
LEMMA StartSearchKeeps == QueryInv /\ StartSearch => QueryInv'
  <1> SUFFICES ASSUME QueryInv, StartSearch PROVE QueryInv'
    OBVIOUS
  <1>1. query \in Queries /\ answering \in QueryStates /\ IsSearch
    BY DEF QueryInv, QueryTypeOK, StartSearch
  <1>2. /\ UNCHANGED query /\ answering.pc = "start"
        /\ answering.urls = 0 /\ answering.hits = {}
    BY DEF StartSearch, Reached, QueryInv, StagesInTime
  <1>3. \A photos \in Seq(Nat) : answering.urls <= Len(photos)
    BY <1>2
  <1>4. CASE Candidates = {}
    <2>1. Responds(<<>>, NoEvidence)
      BY <1>4 DEF StartSearch
    <2>2. NoEvidence \in {"", "NO_EVIDENCE"} /\ IsResult(<<>>)
      BY <1>1, NothingIsResult DEF NoEvidence
    <2> DEFINE nothing == <<>>
    <2>3. nothing \in Seq(Nat)
      OBVIOUS
    <2>4. answering.urls <= Len(nothing)
      <3> HIDE DEF nothing
      <3> QED
        BY <1>3, <2>3
    <2>5. Responds(nothing, NoEvidence) /\ IsResult(nothing)
      BY <2>1, <2>2
    <2>6. nothing = <<>>
      OBVIOUS
    <2> HIDE DEF nothing
    <2> QED
      BY <1>1, <1>2, <2>2, <2>4, <2>5, <2>6, RespondsKeeps
  <1>5. CASE Candidates # {} /\ query.words # {} /\ query.intent = "SEARCH" /\ ~HasVisualQuery
    <2> DEFINE photos == First(InTimeOrder(Candidates), Limit)
    <2>1. Responds(photos, "")
      BY <1>5 DEF StartSearch
    <2>2. IsResult(photos)
      BY <1>1, TimesAreResult
    <2>3. photos = First(InTimeOrder(Candidates), Limit)
      OBVIOUS
    <2> HIDE DEF photos
    <2>4. answering.urls <= Len(photos)
      BY <1>3, <2>2 DEF IsResult
    <2> QED
      BY <1>1, <1>2, <2>1, <2>2, <2>3, <2>4, RespondsKeeps
  <1>6. CASE Candidates # {} /\ ~(query.words # {} /\ query.intent = "SEARCH" /\ ~HasVisualQuery)
    <2>1. answering' = [answering EXCEPT !.pc = "encode"]
      BY <1>6 DEF StartSearch, Proceed
    <2>2. answering' \in QueryStates
      BY <1>1, <2>1 DEF QueryStates
    <2>3. /\ answering'.pc = "encode" /\ answering'.outcome = answering.outcome
          /\ answering'.now = answering.now /\ answering'.since = answering.since
          /\ answering'.selected = answering.selected /\ answering'.urls = answering.urls
          /\ answering'.hits = answering.hits /\ answering'.parsed = answering.parsed
      BY <1>1, <2>1 DEF QueryStates
    <2>4. IsSearch'
      BY <1>1, <1>2, RequestStays
    <2>5. answering.now = 0 /\ answering.since \in Nat /\ answering.selected = <<>>
      BY <1>1, <1>2 DEF QueryInv, StagesInTime, QueryStates
    <2>6. StagesInTime'
      BY <1>2, <2>3, <2>4, <2>5, LimitsAreNumbers DEF QueryInv, StagesInTime
    <2>7. answering.urls <= Len(answering.selected) /\ answering.outcome = Running
      BY <1>2 DEF QueryInv, SelectsResults, StagesInTime
    <2> QED
      BY <1>2, <2>2, <2>3, <2>6, <2>7, GoesOnKeeps
  <1> QED
    BY <1>4, <1>5, <1>6

\* The text is encoded, or it fails.
LEMMA EncodeKeeps == QueryInv /\ Encode => QueryInv'
  <1> SUFFICES ASSUME QueryInv, Encode PROVE QueryInv'
    OBVIOUS
  <1>1. query \in Queries /\ answering \in QueryStates /\ UNCHANGED query /\ answering.pc = "encode"
    BY DEF QueryInv, QueryTypeOK, Encode, Reached
  <1>2. IsSearch /\ answering.selected = <<>>
    BY <1>1 DEF QueryInv, StagesInTime
  <1>3. CASE Raises("MODEL_NOT_READY") \/ Raises("TIMEOUT")
    BY <1>1, <1>2, <1>3, RaisesKeeps
  <1>4. CASE answering' = [answering EXCEPT !.pc = "search"]
    <2>1. answering' \in QueryStates
      BY <1>1, <1>4 DEF QueryStates
    <2>2. /\ answering'.pc = "search" /\ answering'.outcome = answering.outcome
          /\ answering'.now = answering.now /\ answering'.since = answering.since
          /\ answering'.selected = answering.selected /\ answering'.urls = answering.urls
          /\ answering'.hits = answering.hits /\ answering'.parsed = answering.parsed
      BY <1>1, <1>4 DEF QueryStates
    <2>3. IsSearch'
      BY <1>1, <1>2, RequestStays
    <2>4. StagesInTime'
      BY <1>1, <2>2, <2>3 DEF QueryInv, StagesInTime
    <2>5. answering.urls <= Len(answering.selected) /\ answering.outcome = Running
      BY <1>1 DEF QueryInv, SelectsResults, StagesInTime
    <2> QED
      BY <1>1, <2>1, <2>2, <2>4, <2>5, GoesOnKeeps
  <1> QED
    BY <1>3, <1>4 DEF Encode, Proceed

\* A query that ends without photos and without an error of the model.
LEMMA EndsEmptyKeeps ==
    ASSUME QueryInv, UNCHANGED query, answering' \in QueryStates, answering'.pc = "ended",
           answering'.selected = <<>>, answering'.urls = 0, ParsedFromOutput',
           answering'.now = answering.now, answering'.since = answering.since,
           \/ answering'.outcome = "OK"
           \/ IsSearch /\ answering'.outcome = "INTERNAL_ERROR" /\ Strays(answering'.hits) # {}
    PROVE  QueryInv'
  <1>1. query \in Queries /\ query' = query
    BY DEF QueryInv, QueryTypeOK
  <1>2. /\ IsSearch' = IsSearch
        /\ \A p : IsResult(p)' <=> IsResult(p)
        /\ \A hits : Strays(hits)' = Strays(hits)
    BY RequestStays
  <1>3. SelectsResults'
    <2>1. IsSearch => IsResult(<<>>)
      BY <1>1, NothingIsResult
    <2>2. answering'.selected \in Seq(Nat)
      BY DEF QueryStates
    <2>3. answering'.urls <= Len(answering'.selected)
      BY <2>2
    <2>4. IsSearch' => IsResult(answering.selected)'
      BY <1>2, <2>1
    <2> QED
      BY <2>3, <2>4 DEF SelectsResults
  <1>4. Evidence'
    BY DEF Evidence
  <1>5. StagesInTime'
    BY DEF QueryInv, StagesInTime
  <1>6. OnlyRetrievalFails'
    BY <1>2 DEF OnlyRetrievalFails
  <1> QED
    BY <1>1, <1>3, <1>4, <1>5, <1>6 DEF QueryInv, QueryTypeOK

\* The hits are there: they are selected from, or the search ends.
LEMMA SearchVectorsKeeps == QueryInv /\ SearchVectors => QueryInv'
  <1> SUFFICES ASSUME QueryInv, SearchVectors PROVE QueryInv'
    OBVIOUS
  <1>1. query \in Queries /\ answering \in QueryStates /\ UNCHANGED query /\ answering.pc = "search"
    BY DEF QueryInv, QueryTypeOK, SearchVectors, Reached
  <1>2. IsSearch /\ answering.selected = <<>> /\ answering.since = 0
    BY <1>1 DEF QueryInv, StagesInTime
  <1>3. CASE Raises("MODEL_NOT_READY")
    BY <1>1, <1>2, <1>3, RaisesKeeps
  <1>4. CASE Raises("TIMEOUT")
    BY <1>1, <1>2, <1>4, RaisesKeeps
  <1>5. ASSUME NEW k \in 0 .. Limit, NEW hits \in kSubset(k, Attachments \X Scores),
               NEW selected, selected = First(Cutoff(hits), Limit),
               LET found == [answering EXCEPT !.hits = hits, !.selected = selected]
               IN  IF Strays(hits) # {}
                   THEN Proceed([answering EXCEPT !.hits = hits, !.pc = "ended",
                                                  !.outcome = "INTERNAL_ERROR"])
                   ELSE IF query.intent = "SEARCH" \/ selected = <<>>
                   THEN Proceed([found EXCEPT !.pc = "ranked"])
                   ELSE Proceed([found EXCEPT !.pc = "answer", !.since = answering.now])
        PROVE  QueryInv'
    <2>1. hits \in SUBSET Hits
      BY <1>5 DEF kSubset, Hits
    <2>2. answering.urls = 0 /\ answering.urls \in Nat /\ answering.now \in Nat
      <3>1. answering.urls \in Nat /\ answering.urls <= Len(answering.selected)
        BY <1>1 DEF QueryInv, SelectsResults, QueryStates
      <3>2. Len(answering.selected) = 0
        BY <1>2
      <3>3. answering.now \in Nat
        BY <1>1 DEF QueryStates
      <3> QED
        BY <3>1, <3>2, <3>3
    <2>3. ~answering.parsed /\ answering.outcome = Running /\ answering.now <= RetrievalLimit
      BY <1>1 DEF QueryInv, StagesInTime
    <2>4. CASE Strays(hits) # {}
      <3>1. answering' = [answering EXCEPT !.hits = hits, !.pc = "ended",
                                           !.outcome = "INTERNAL_ERROR"]
        BY <1>5, <2>4 DEF Proceed
      <3>2. answering' \in QueryStates
        BY <1>1, <2>1, <3>1 DEF QueryStates
      <3>3. /\ answering'.pc = "ended" /\ answering'.outcome = "INTERNAL_ERROR"
            /\ answering'.hits = hits /\ answering'.selected = answering.selected
            /\ answering'.urls = answering.urls
            /\ answering'.now = answering.now /\ answering'.since = answering.since
        BY <1>1, <3>1 DEF QueryStates
      <3>4. answering'.parsed = answering.parsed
        BY <1>1, <3>1 DEF QueryStates
      <3>5. ParsedFromOutput'
        <4>1. ~answering'.parsed
          BY <2>3, <3>4
        <4> QED
          BY <4>1 DEF ParsedFromOutput
      <3>6. answering'.selected = <<>> /\ answering'.urls = 0
        BY <1>2, <2>2, <3>3
      <3> QED
        BY <1>1, <1>2, <2>4, <3>2, <3>3, <3>5, <3>6, EndsEmptyKeeps
    <2>5. CASE Strays(hits) = {}
      <3>1. IsResult(selected) /\ selected \in Seq(Nat)
        BY <1>1, <1>2, <1>5, <2>1, <2>5, HitsAreResult DEF IsResult
      <3>2. hits = {} => selected = <<>>
        <4>1. SUFFICES ASSUME hits = {} PROVE selected = <<>>
          OBVIOUS
        <4>2. HighHits(hits) = {}
          BY <4>1 DEF HighHits, HitPhotos
        <4>3. OrdersStrictly(ScoreOrder(hits, {}), {}) /\ IsFiniteSet({}) /\ Cardinality({}) = 0
          BY FS_EmptySet DEF OrdersStrictly
        <4> DEFINE seq == SortedBy({}, ScoreOrder(hits, {}))
        <4>4. seq \in Seq({}) /\ Len(seq) = 0
          BY <4>3, Sorted
        <4>5. selected = First(seq, Limit)
          BY <1>5, <4>2, CutoffIs
        <4> HIDE DEF seq
        <4>6. First(seq, Limit) \in Seq({})
          BY <1>1, <1>2, <4>4, RequestIs, FirstIs
        <4>7. Len(selected) = 0
          <5>1. selected \in Seq({}) /\ Len(selected) \in Nat
            BY <4>5, <4>6
          <5>2. Len(selected) # 0 => 1 \in 1 .. Len(selected)
            BY <5>1
          <5> QED
            BY <5>1, <5>2, ElementOfSeq
        <4> QED
          BY <3>1, <4>7, EmptySeq
      <3>3. /\ query' = query /\ IsSearch' = IsSearch
            /\ Limit' = Limit
            /\ \A p : IsResult(p)' <=> IsResult(p)
            /\ \A h : Strays(h)' = Strays(h)
        BY <1>1, RequestStays
      <3>4. /\ answering' \in QueryStates
            /\ answering'.outcome = Running /\ answering'.selected = selected
            /\ answering'.hits = hits /\ answering'.urls = 0 /\ answering'.now = answering.now
            /\ answering'.since \in {0, answering.now}
            /\ \/ answering'.pc = "ranked"
               \/ answering'.pc = "answer" /\ answering'.since = answering.now
        <4> DEFINE found == [answering EXCEPT !.hits = hits, !.selected = selected]
        <4>1. CASE query.intent = "SEARCH" \/ selected = <<>>
          <5>1. answering' = [found EXCEPT !.pc = "ranked"]
            BY <1>5, <2>5, <4>1 DEF Proceed
          <5>2. answering' \in QueryStates
            BY <1>1, <2>1, <3>1, <5>1 DEF QueryStates
          <5>3. /\ answering'.outcome = answering.outcome /\ answering'.selected = selected
                /\ answering'.hits = hits /\ answering'.urls = answering.urls
                /\ answering'.now = answering.now /\ answering'.since = answering.since
                /\ answering'.pc = "ranked"
            BY <1>1, <5>1 DEF QueryStates
          <5> QED
            BY <1>2, <2>2, <2>3, <5>2, <5>3
        <4>2. CASE ~(query.intent = "SEARCH" \/ selected = <<>>)
          <5>1. answering' = [found EXCEPT !.pc = "answer", !.since = answering.now]
            BY <1>5, <2>5, <4>2 DEF Proceed
          <5>2. answering' \in QueryStates
            BY <1>1, <2>1, <2>2, <3>1, <5>1 DEF QueryStates
          <5>3. /\ answering'.outcome = answering.outcome /\ answering'.selected = selected
                /\ answering'.hits = hits /\ answering'.urls = answering.urls
                /\ answering'.now = answering.now /\ answering'.since = answering.now
                /\ answering'.pc = "answer"
            BY <1>1, <5>1 DEF QueryStates
          <5> QED
            BY <1>2, <2>2, <2>3, <5>2, <5>3
        <4> QED
          BY <4>1, <4>2
      <3>5. ~answering'.parsed
        <4>1. answering'.parsed = answering.parsed
          <5> DEFINE found == [answering EXCEPT !.hits = hits, !.selected = selected]
          <5>1. CASE query.intent = "SEARCH" \/ selected = <<>>
            <6>1. answering' = [found EXCEPT !.pc = "ranked"]
              BY <1>5, <2>5, <5>1 DEF Proceed
            <6> QED
              BY <1>1, <6>1 DEF QueryStates
          <5>2. CASE ~(query.intent = "SEARCH" \/ selected = <<>>)
            <6>1. answering' = [found EXCEPT !.pc = "answer", !.since = answering.now]
              BY <1>5, <2>5, <5>2 DEF Proceed
            <6> QED
              BY <1>1, <6>1 DEF QueryStates
          <5> QED
            BY <5>1, <5>2
        <4> QED
          BY <2>3, <4>1
      <3>6. SelectsResults'
        <4>1. answering'.urls <= Len(answering'.selected)
          BY <3>1, <3>4
        <4>2. IsResult(answering.selected)'
          BY <3>1, <3>3, <3>4
        <4> QED
          BY <1>2, <3>3, <4>1, <4>2 DEF SelectsResults
      <3>7. Evidence'
        <4>1. answering'.selected # <<>> => answering'.hits \in (SUBSET Hits) \ {{}}
          BY <2>1, <3>2, <3>4
        <4>2. First(Cutoff(answering.hits), Limit)' = First(Cutoff(hits), Limit)
          BY <3>3, <3>4 DEF First, Cutoff, Ranking, HitPhotos, BestScore
        <4>3. Strays(answering.hits)' = {}
          BY <2>5, <3>3, <3>4
        <4>4. answering'.selected = First(Cutoff(hits), Limit)
          BY <1>5, <3>4
        <4> QED
          BY <4>1, <4>2, <4>3, <4>4 DEF Evidence
      <3>8. StagesInTime'
        <4>1. /\ answering'.since <= answering'.now /\ answering'.now - answering'.since >= 0
              /\ answering'.now <= RetrievalLimit /\ answering'.outcome = Running
          BY <2>2, <2>3, <3>4
        <4>2. answering'.pc = "answer" =>
                answering'.since <= RetrievalLimit /\ answering'.now - answering'.since <= AnswerLimit
          BY <2>2, <3>4, <4>1, LimitsAreNumbers
        <4>3. answering'.pc \in {"ranked", "answer"} /\ IsSearch'
          BY <1>2, <3>3, <3>4
        <4> QED
          BY <3>5, <4>1, <4>2, <4>3 DEF StagesInTime
      <3>9. ParsedFromOutput'
        BY <3>5 DEF ParsedFromOutput
      <3>10. OnlyRetrievalFails'
        BY <3>4 DEF OnlyRetrievalFails, Running
      <3> QED
        BY <1>1, <3>3, <3>4, <3>6, <3>7, <3>8, <3>9, <3>10 DEF QueryInv, QueryTypeOK
    <2> QED
      BY <2>4, <2>5
  <1> QED
    BY <1>3, <1>4, <1>5 DEF SearchVectors

\* A search without a question ends with its photos.
LEMMA RespondRankedKeeps == QueryInv /\ RespondRanked => QueryInv'
  <1> SUFFICES ASSUME QueryInv, RespondRanked PROVE QueryInv'
    OBVIOUS
  <1>1. /\ UNCHANGED query /\ answering.pc = "ranked"
        /\ Responds(answering.selected, NoEvidence)
    BY DEF RespondRanked, Reached
  <1>2. IsSearch
    BY <1>1 DEF QueryInv, StagesInTime
  <1>3. IsResult(answering.selected) /\ answering.urls <= Len(answering.selected)
    BY <1>2 DEF QueryInv, SelectsResults
  <1>4. NoEvidence \in {"", "NO_EVIDENCE"}
    BY DEF NoEvidence
  <1> QED
    BY <1>1, <1>2, <1>3, <1>4, RespondsKeeps

\* The url of one more photo.
LEMMA ResolveImageKeeps == QueryInv /\ ResolveImage => QueryInv'
  <1> SUFFICES ASSUME QueryInv, ResolveImage PROVE QueryInv'
    OBVIOUS
  <1>1. /\ answering \in QueryStates /\ UNCHANGED query /\ answering.pc = "answer"
        /\ answering.urls < Len(answering.selected)
    BY DEF QueryInv, QueryTypeOK, ResolveImage, Reached
  <1>2. IsSearch
    BY <1>1 DEF QueryInv, StagesInTime
  <1>3. IsResult(answering.selected) /\ answering.urls <= Len(answering.selected)
    BY <1>2 DEF QueryInv, SelectsResults
  <1>4. CASE Responds(answering.selected, "VLM_UNAVAILABLE")
    BY <1>1, <1>2, <1>3, <1>4, RespondsKeeps
  <1>5. CASE answering' = [answering EXCEPT !.urls = @ + 1]
    <2> DEFINE urls == answering.urls + 1
    <2>0. urls \in Nat
      <3>1. answering.urls \in Nat
        BY <1>1 DEF QueryStates
      <3> QED
        BY <3>1
    <2>7. answering' = [answering EXCEPT !.urls = urls]
      BY <1>5
    <2> HIDE DEF urls
    <2>1. answering' \in QueryStates
      BY <1>1, <2>7, <2>0 DEF QueryStates
    <2>2. /\ answering'.pc = "answer" /\ answering'.outcome = answering.outcome
          /\ answering'.now = answering.now /\ answering'.since = answering.since
          /\ answering'.selected = answering.selected /\ answering'.urls = urls
          /\ answering'.hits = answering.hits /\ answering'.parsed = answering.parsed
      BY <1>1, <2>7 DEF QueryStates
    <2>3. IsSearch'
      BY <1>1, <1>2, RequestStays
    <2>4. StagesInTime'
      BY <1>1, <2>2, <2>3 DEF QueryInv, StagesInTime
    <2>5. answering'.urls <= Len(answering.selected)
      <3>1. answering.selected \in Seq(Nat) /\ answering.urls \in Nat
        BY <1>1 DEF QueryStates
      <3>2. Len(answering.selected) \in Nat
        BY <3>1
      <3>3. urls <= Len(answering.selected)
        BY <1>1, <3>1, <3>2 DEF urls
      <3> QED
        BY <2>2, <3>3
    <2>6. answering.outcome = Running
      BY <1>1 DEF QueryInv, StagesInTime
    <2> QED
      BY <1>1, <2>1, <2>2, <2>4, <2>5, <2>6, GoesOnKeeps
  <1> QED
    BY <1>4, <1>5 DEF ResolveImage, Proceed

\* The model answers, or fails.
LEMMA AnswerKeeps == QueryInv /\ Answer => QueryInv'
  <1> SUFFICES ASSUME QueryInv, Answer PROVE QueryInv'
    OBVIOUS
  <1>1. UNCHANGED query /\ answering.pc = "answer"
    BY DEF Answer, Reached
  <1>2. PICK answer \in {"text", "NO_EVIDENCE", "VLM_UNAVAILABLE", "TIMEOUT"} :
            Responds(answering.selected, answer)
    BY DEF Answer
  <1>3. IsSearch
    BY <1>1 DEF QueryInv, StagesInTime
  <1>4. IsResult(answering.selected) /\ answering.urls <= Len(answering.selected)
    BY <1>3 DEF QueryInv, SelectsResults
  <1> QED
    BY <1>1, <1>2, <1>3, <1>4, RespondsKeeps

\* A parse starts.
LEMMA StartParseKeeps == QueryInv /\ StartParse => QueryInv'
  <1> SUFFICES ASSUME QueryInv, StartParse PROVE QueryInv'
    OBVIOUS
  <1>1. /\ answering \in QueryStates /\ UNCHANGED query /\ answering.pc = "start" /\ ~IsSearch
        /\ answering' = [answering EXCEPT !.pc = "parse"]
    BY DEF QueryInv, QueryTypeOK, StartParse, Reached, Proceed
  <1>2. answering' \in QueryStates
    BY <1>1 DEF QueryStates
  <1>3. /\ answering'.pc = "parse" /\ answering'.outcome = answering.outcome
        /\ answering'.now = answering.now /\ answering'.since = answering.since
        /\ answering'.selected = answering.selected /\ answering'.urls = answering.urls
        /\ answering'.hits = answering.hits /\ answering'.parsed = answering.parsed
    BY <1>1 DEF QueryStates
  <1>4. ~IsSearch'
    BY <1>1, RequestStays
  <1>5. answering.now = 0 /\ answering.since = 0
    <2>1. answering.now = 0 /\ answering.since <= answering.now
      BY <1>1 DEF QueryInv, StagesInTime
    <2>2. answering.since \in Nat
      BY <1>1 DEF QueryStates
    <2> QED
      BY <2>1, <2>2
  <1>6. StagesInTime'
    BY <1>1, <1>3, <1>4, <1>5, LimitsAreNumbers DEF QueryInv, StagesInTime
  <1>7. answering.urls <= Len(answering.selected) /\ answering.outcome = Running
    BY <1>1 DEF QueryInv, SelectsResults, StagesInTime
  <1> QED
    BY <1>1, <1>2, <1>3, <1>6, <1>7, GoesOnKeeps

\* What a parse has not selected.
LEMMA ParseSelectsNothing ==
    ASSUME QueryInv, ~IsSearch
    PROVE  answering.selected = <<>> /\ answering.urls = 0
  <1>1. answering.selected = <<>> /\ answering.urls <= Len(answering.selected)
    BY DEF QueryInv, SelectsResults
  <1>2. answering.urls \in Nat
    BY DEF QueryInv, QueryTypeOK, QueryStates
  <1>3. Len(answering.selected) = 0
    BY <1>1
  <1> QED
    BY <1>1, <1>2, <1>3

\* A parse falls back to a request without dates.
LEMMA FallbackKeeps ==
    ASSUME QueryInv, UNCHANGED query, ~IsSearch, answering.pc # "ended", Fallback
    PROVE  QueryInv'
  <1>1. answering \in QueryStates
    BY DEF QueryInv, QueryTypeOK
  <1>2. answering' = [answering EXCEPT !.pc = "ended", !.outcome = "OK"]
    BY DEF Fallback, Proceed
  <1>3. answering' \in QueryStates
    BY <1>1, <1>2 DEF QueryStates
  <1>4. /\ answering'.pc = "ended" /\ answering'.outcome = "OK"
        /\ answering'.now = answering.now /\ answering'.since = answering.since
        /\ answering'.selected = answering.selected /\ answering'.urls = answering.urls
    BY <1>1, <1>2 DEF QueryStates
  <1>5. answering'.parsed = answering.parsed
    BY <1>1, <1>2 DEF QueryStates
  <1>6. ParsedFromOutput'
    <2>1. ~answering.parsed
      BY DEF QueryInv, StagesInTime
    <2>2. ~answering'.parsed
      BY <1>5, <2>1
    <2> QED
      BY <2>2 DEF ParsedFromOutput
  <1>7. answering'.selected = <<>> /\ answering'.urls = 0
    BY <1>4, ParseSelectsNothing
  <1> QED
    BY <1>3, <1>4, <1>6, <1>7, EndsEmptyKeeps

\* The output is there: it is parsed, or the parse falls back.
LEMMA ParseKeeps == QueryInv /\ Parse => QueryInv'
  <1> SUFFICES ASSUME QueryInv, Parse PROVE QueryInv'
    OBVIOUS
  <1>1. query \in Queries /\ answering \in QueryStates /\ UNCHANGED query /\ answering.pc = "parse"
    BY DEF QueryInv, QueryTypeOK, Parse, Reached
  <1>2. ~IsSearch
    BY <1>1 DEF QueryInv, StagesInTime
  <1>3. CASE Fallback
    BY <1>1, <1>2, <1>3, FallbackKeeps
  <1>4. ASSUME NEW output \in Outputs, ParsesOutput(output)
        PROVE  QueryInv'
    <2> DEFINE dates == DateRange(output, query.today)
    <2>1. ~(NoDate \notin {dates[1], dates[2]} /\ dates[1] > dates[2])
      BY DEF DateRange, NoDates
    <2>2. answering' = [answering EXCEPT !.pc = "ended", !.outcome = "OK", !.parsed = TRUE,
                                         !.output = output, !.dates = dates]
      BY <1>4, <2>1 DEF ParsesOutput, Proceed
    <2>3. dates \in AllDates
      BY <1>1 DEF AllDates
    <2> HIDE DEF dates
    <2>4. answering' \in QueryStates
      BY <1>1, <2>2, <2>3 DEF QueryStates
    <2>5. /\ answering'.pc = "ended" /\ answering'.outcome = "OK"
          /\ answering'.now = answering.now /\ answering'.since = answering.since
          /\ answering'.selected = answering.selected /\ answering'.urls = answering.urls
          /\ answering'.output = output /\ answering'.dates = dates
      BY <1>1, <2>2 DEF QueryStates
    <2>6. ParsedFromOutput'
      <3>1. ~IsSearch' /\ query' = query
        BY <1>1, <1>2, RequestStays
      <3>2. answering'.dates = DateRange(output, query.today)
        BY <2>5 DEF dates
      <3> QED
        BY <2>5, <3>1, <3>2 DEF ParsedFromOutput
    <2>7. answering'.selected = <<>> /\ answering'.urls = 0
      BY <1>2, <2>5, ParseSelectsNothing
    <2> QED
      BY <1>1, <2>4, <2>5, <2>6, <2>7, EndsEmptyKeeps
  <1> QED
    BY <1>3, <1>4 DEF Parse

\* Time passes up to the next limit.
LEMMA PassTimeKeeps == QueryInv /\ PassTime => QueryInv'
  <1> SUFFICES ASSUME QueryInv, PassTime PROVE QueryInv'
    OBVIOUS
  <1>1. /\ answering \in QueryStates /\ UNCHANGED query /\ Waiting /\ ~StageDue
        /\ answering.pc = "unwind" => answering.now - answering.since < ReleaseLimit
        /\ answering' = [answering EXCEPT !.now = @ + 1]
    BY DEF QueryInv, QueryTypeOK, PassTime, Proceed
  <1>2. answering.now \in Nat /\ answering.since \in Nat
    BY <1>1 DEF QueryStates
  <1> DEFINE now == answering.now + 1
  <1>3. now \in Nat /\ now = answering.now + 1
    BY <1>2
  <1>4. answering' = [answering EXCEPT !.now = now]
    BY <1>1
  <1> HIDE DEF now
  <1>5. answering' \in QueryStates
    BY <1>1, <1>3, <1>4 DEF QueryStates
  <1>6. /\ answering'.pc = answering.pc /\ answering'.outcome = answering.outcome
        /\ answering'.now = now /\ answering'.since = answering.since
        /\ answering'.stage = answering.stage
        /\ answering'.selected = answering.selected /\ answering'.urls = answering.urls
        /\ answering'.hits = answering.hits
    BY <1>1, <1>4 DEF QueryStates
  <1>7. answering'.parsed = answering.parsed
    BY <1>1, <1>4 DEF QueryStates
  <1>8. answering.pc \in {"parse", "encode", "search", "answer", "unwind"}
    BY <1>1 DEF Waiting, InStage
  <1>9. IsSearch' = IsSearch
    BY <1>1, RequestStays
  <1>10. /\ answering.pc = "parse" => now - answering.since <= ParseLimit
         /\ answering.pc \in {"encode", "search"} => now - answering.since <= RetrievalLimit
         /\ answering.pc = "answer" => now - answering.since <= AnswerLimit
         /\ answering.pc = "unwind" => now - answering.since <= ReleaseLimit
    BY <1>1, <1>2, <1>3, LimitsAreNumbers DEF StageDue, InStage, StageLimit
  <1>11. StagesInTime'
    <2>1. answering.since <= now
      <3>1. answering.since <= answering.now
        BY DEF QueryInv, StagesInTime
      <3> QED
        BY <1>2, <1>3, <3>1
    <2>2. answering.since = 0 => now - answering.since = now
      BY <1>2, <1>3
    <2>3. answering'.outcome = Running /\ ~answering'.parsed
      BY <1>6, <1>7, <1>8 DEF QueryInv, StagesInTime
    <2> QED
      BY <1>6, <1>8, <1>9, <1>10, <2>1, <2>2, <2>3 DEF QueryInv, StagesInTime
  <1>12. answering.urls <= Len(answering.selected) /\ answering.outcome = Running
    BY <1>8 DEF QueryInv, SelectsResults, StagesInTime
  <1> QED
    BY <1>1, <1>5, <1>6, <1>7, <1>8, <1>11, <1>12, GoesOnKeeps

\* A stage has had its time.
LEMMA StageTimeoutKeeps == QueryInv /\ StageTimeout => QueryInv'
  <1> SUFFICES ASSUME QueryInv, StageTimeout PROVE QueryInv'
    OBVIOUS
  <1>1. /\ answering \in QueryStates /\ UNCHANGED query
        /\ answering.pc \in {"parse", "encode", "search", "answer"}
        /\ answering' = [answering EXCEPT !.pc = "unwind", !.stage = answering.pc,
                                          !.since = answering.now]
    BY DEF QueryInv, QueryTypeOK, StageTimeout, StageDue, InStage, Proceed
  <1>2. answering.now \in Nat /\ answering.since \in Nat
    BY <1>1 DEF QueryStates
  <1>3. answering' \in QueryStates
    BY <1>1, <1>2 DEF QueryStates
  <1>4. /\ answering'.pc = "unwind" /\ answering'.outcome = answering.outcome
        /\ answering'.now = answering.now /\ answering'.since = answering.now
        /\ answering'.stage = answering.pc
        /\ answering'.selected = answering.selected /\ answering'.urls = answering.urls
        /\ answering'.hits = answering.hits
    BY <1>1 DEF QueryStates
  <1>5. answering'.parsed = answering.parsed
    BY <1>1 DEF QueryStates
  <1>6. IsSearch' = IsSearch
    BY <1>1, RequestStays
  <1>7. StagesInTime'
    <2>1. /\ answering.now - answering.now = 0 /\ 0 <= ReleaseLimit
          /\ answering.now <= answering.now
      BY <1>2, LimitsAreNumbers
    <2>2. answering'.outcome = Running /\ ~answering'.parsed
      BY <1>1, <1>4, <1>5 DEF QueryInv, StagesInTime
    <2>3. answering.pc = "answer" => answering.now <= RetrievalLimit + AnswerLimit
      BY <1>2, LimitsAreNumbers DEF QueryInv, StagesInTime
    <2>4. answering.pc = "parse" => answering.now <= ParseLimit
      BY DEF QueryInv, StagesInTime
    <2> QED
      BY <1>1, <1>4, <1>6, <2>1, <2>2, <2>3, <2>4 DEF QueryInv, StagesInTime
  <1>8. answering.urls <= Len(answering.selected) /\ answering.outcome = Running
    BY <1>1 DEF QueryInv, SelectsResults, StagesInTime
  <1> QED
    BY <1>1, <1>3, <1>4, <1>5, <1>7, <1>8, GoesOnKeeps

\* A stage fails.
LEMMA StageFailsKeeps == QueryInv /\ StageFails => QueryInv'
  <1> SUFFICES ASSUME QueryInv, StageFails PROVE QueryInv'
    OBVIOUS
  <1>1. answering \in QueryStates /\ UNCHANGED query /\ answering.pc = "unwind"
    BY DEF QueryInv, QueryTypeOK, StageFails, Reached
  <1>2. answering.stage \in {"parse", "encode", "search", "answer"}
    BY <1>1 DEF QueryInv, StagesInTime, QueryStates
  <1>3. CASE answering.stage = "parse"
    <2>1. ~IsSearch
      BY <1>1, <1>3 DEF QueryInv, StagesInTime
    <2>2. Fallback
      BY <1>3 DEF StageFails
    <2> QED
      BY <1>1, <2>1, <2>2, FallbackKeeps
  <1>4. CASE answering.stage \in {"encode", "search"}
    <2>1. IsSearch /\ answering.selected = <<>>
      BY <1>1, <1>4 DEF QueryInv, StagesInTime
    <2>2. Raises("TIMEOUT")
      BY <1>4 DEF StageFails
    <2> QED
      BY <1>1, <2>1, <2>2, RaisesKeeps
  <1>5. CASE answering.stage = "answer"
    <2>1. IsSearch
      BY <1>1, <1>5 DEF QueryInv, StagesInTime
    <2>2. Responds(answering.selected, "TIMEOUT")
      BY <1>5 DEF StageFails
    <2>3. IsResult(answering.selected) /\ answering.urls <= Len(answering.selected)
      BY <2>1 DEF QueryInv, SelectsResults
    <2> QED
      BY <1>1, <2>1, <2>2, <2>3, RespondsKeeps
  <1> QED
    BY <1>2, <1>3, <1>4, <1>5

\* The limit of the request strikes a search alone, and one whose photos are
\* found only while it gives back a slot too late: this is what the limits of
\* the stages leave of it.
LEMMA RequestTimeoutKeeps == QueryInv /\ RequestTimeout => QueryInv'
  <1> SUFFICES ASSUME QueryInv, RequestTimeout PROVE QueryInv'
    OBVIOUS
  <1>1. /\ answering \in QueryStates /\ UNCHANGED query /\ answering.now >= RequestLimit
        /\ answering.pc \in {"parse", "encode", "search", "answer", "unwind"}
        /\ Raises("TIMEOUT")
    BY DEF QueryInv, QueryTypeOK, RequestTimeout, RequestDue, Waiting, InStage
  <1>2. answering.now \in Nat /\ answering.since \in Nat
    BY <1>1 DEF QueryStates
  <1> DEFINE now == answering.now
             since == answering.since
  <1>3. now >= RequestLimit /\ now \in Nat /\ since \in Nat
    BY <1>1, <1>2
  <1>4. answering.stage \in {"", "parse", "encode", "search", "answer"}
    BY <1>1 DEF QueryStates
  <1>5. answering.pc # "parse"
    <2>1. answering.pc = "parse" => now <= ParseLimit
      BY DEF QueryInv, StagesInTime
    <2> HIDE DEF now
    <2> QED
      BY <1>3, <2>1, LimitsAreNumbers, LimitsAssumption
  <1>6. answering.pc # "answer"
    <2>1. answering.pc = "answer" => since <= RetrievalLimit /\ now - since <= AnswerLimit
      BY DEF QueryInv, StagesInTime
    <2> HIDE DEF now, since
    <2> QED
      BY <1>3, <2>1, LimitsAreNumbers, LimitsAssumption
  <1>7. CASE answering.pc \in {"encode", "search"}
    <2>1. IsSearch /\ answering.selected = <<>>
      BY <1>7 DEF QueryInv, StagesInTime
    <2> QED
      BY <1>1, <2>1, RaisesKeeps
  <1>8. CASE answering.pc = "unwind"
    <2>1. /\ answering.stage # "" /\ now - since <= ReleaseLimit
          /\ answering.stage = "parse" => ~IsSearch /\ since <= ParseLimit
          /\ answering.stage \in {"encode", "search"} => IsSearch /\ answering.selected = <<>>
          /\ answering.stage = "answer" => IsSearch /\ since <= RetrievalLimit + AnswerLimit
      BY <1>8 DEF QueryInv, StagesInTime
    <2>2. answering.stage # "parse"
      <3>1. answering.stage = "parse" => since <= ParseLimit /\ now - since <= ReleaseLimit
        BY <2>1
      <3> HIDE DEF now, since
      <3> QED
        BY <1>3, <3>1, LimitsAreNumbers, LimitsAssumption
    <2>3. answering.stage = "answer" => now - since >= ReleaseLimit
      <3> HIDE DEF now, since
      <3> QED
        BY <1>3, <2>1, LimitsAreNumbers, LimitsAssumption
    <2> QED
      BY <1>1, <1>4, <2>1, <2>2, <2>3, RaisesKeeps
  <1> QED
    BY <1>1, <1>5, <1>6, <1>7, <1>8

\* The client is gone.
LEMMA AbortQueryKeeps == QueryInv /\ AbortQuery => QueryInv'
  <1> SUFFICES ASSUME QueryInv, AbortQuery PROVE QueryInv'
    OBVIOUS
  <1>1. UNCHANGED query /\ Raises("CANCELED")
    BY DEF AbortQuery
  <1> QED
    BY <1>1, RaisesKeeps

\* Nothing changes.
LEMMA QueryStutters == QueryInv /\ UNCHANGED queryVars => QueryInv'
  <1> SUFFICES ASSUME QueryInv, UNCHANGED queryVars PROVE QueryInv'
    OBVIOUS
  <1>1. query' = query /\ answering' = answering
    BY DEF queryVars
  <1>2. /\ IsSearch' = IsSearch /\ Limit' = Limit
        /\ InTimeOrder(Candidates)' = InTimeOrder(Candidates)
        /\ \A photos : IsResult(photos)' <=> IsResult(photos)
        /\ \A hits : Strays(hits)' = Strays(hits)
    BY <1>1, RequestStays
  <1>3. QueryTypeOK' /\ StagesInTime' /\ ParsedFromOutput'
    BY <1>1, <1>2 DEF QueryInv, QueryTypeOK, StagesInTime, ParsedFromOutput
  <1>4. SelectsResults' /\ Evidence' /\ OnlyRetrievalFails'
    BY <1>1, <1>2 DEF QueryInv, SelectsResults, Evidence, OnlyRetrievalFails
  <1> QED
    BY <1>3, <1>4 DEF QueryInv

-----------------------------------------------------------------------------
(* Queries: the theorems.                                                  *)

\* QueryService._run, parse and search: each stage keeps to its limit, only a
\* search selects photos and what it selects passes _validate_result, and the
\* selected photos come from the hits or from the times.
THEOREM QueryInvariant == QuerySpec => []QueryInv
  <1>1. QueryInit => QueryInv
    BY QueryStarts
  <1>2. QueryInv /\ [QueryNext]_queryVars => QueryInv'
    BY StartSearchKeeps, EncodeKeeps, SearchVectorsKeeps, RespondRankedKeeps, ResolveImageKeeps,
       AnswerKeeps, StartParseKeeps, ParseKeeps, PassTimeKeeps, StageTimeoutKeeps,
       StageFailsKeeps, RequestTimeoutKeeps, AbortQueryKeeps, QueryStutters
    DEF QueryNext
  <1> QED
    BY <1>1, <1>2, PTL DEF QuerySpec

\* The exception handlers of _run and the timeouts of parse and search: a query
\* fails only in its retrieval, or when the slot of a late answer comes back too
\* late, and with an internal error only for hits outside of the candidates.
THEOREM OnlyOutsideFails == QuerySpec => []OnlyRetrievalFails
  <1>1. QueryInv => OnlyRetrievalFails
    BY DEF QueryInv
  <1> QED
    BY <1>1, QueryInvariant, PTL

\* apply_cutoff, order_by_taken_at and the limit of search: the photos returned
\* are the best of the hits, in order, at a time that the query names.
THEOREM BestIsReturned == QuerySpec => []BestEvidence
  <1>1. ASSUME QueryInv PROVE BestEvidence
    <2>1. query \in Queries /\ Evidence
      BY <1>1 DEF QueryInv, QueryTypeOK
    <2>2. /\ answering.selected # <<>> => IsSearch
          /\ IsSearch => IsResult(answering.selected)
          /\ answering.urls <= Len(answering.selected)
      BY <1>1 DEF QueryInv, SelectsResults
    <2> QED
      BY <2>1, <2>2, EvidenceIsBest
  <1> QED
    BY <1>1, QueryInvariant, PTL

\* parse with resolve_relative_date and _date_range: the dates of a parsed query
\* are in order and not in the future, and for a relative expression exactly
\* the days up to today that it means, whatever the model writes.
THEOREM DatesAreAsMeant == QuerySpec => []DatesAreRight
  <1>1. QueryInv => DatesAreRight
    <2> SUFFICES ASSUME QueryInv, answering.parsed PROVE DatesAreRight
      BY DEF DatesAreRight
    <2>1. /\ ~IsSearch /\ answering.output \in Outputs
          /\ answering.dates = DateRange(answering.output, query.today)
      BY DEF QueryInv, ParsedFromOutput
    <2>2. IsOutput(answering.output)
      BY <2>1, InputAssumption
    <2>3. IsToday(query.today)
      <3>1. IsRequest(query)
        BY InputAssumption DEF QueryInv, QueryTypeOK
      <3> QED
        BY <2>1, <3>1 DEF IsRequest, IsSearch, IsToday
    <2>4. RightDates(answering.output, query.today, answering.dates)
      BY <2>1, <2>2, <2>3, DatesOfOutput
    <2> QED
      BY <2>4 DEF DatesAreRight, RightDates, Now
  <1> QED
    BY <1>1, QueryInvariant, PTL
=============================================================================
