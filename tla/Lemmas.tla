------------------------------- MODULE Lemmas -------------------------------
(***************************************************************************)
(* What the theorems about the modules need of numbers, finite sets,       *)
(* sorted sequences and folds.                                             *)
(***************************************************************************)
EXTENDS Sorting, Sequences, FiniteSetsExt, SequencesExt, FiniteSetTheorems,
        SequenceTheorems, WellFoundedInduction, TLAPS

-----------------------------------------------------------------------------
(* Induction up to a bound.                                                *)

\* What holds of 0 and goes from each number to the next holds up to a bound.
LEMMA UpTo ==
    ASSUME NEW bound \in Nat, NEW Holding, 0 \in Holding,
           \A n \in 1 .. bound : n - 1 \in Holding => n \in Holding
    PROVE  \A n \in 0 .. bound : n \in Holding
  <1> DEFINE less == {p \in Nat \X Nat : p[1] < p[2]}
  <1> DEFINE Lacks == {n \in 0 .. bound : n \notin Holding}
  <1>1. IsWellFoundedOn(less, Nat)
    BY NatLessThanWellFounded DEF OpToRel
  <1>2. SUFFICES ASSUME Lacks # {} PROVE FALSE
    OBVIOUS
  <1>3. PICK m \in Lacks : \A n \in Lacks : ~(<<n, m>> \in less)
    <2>1. Lacks \subseteq Nat
      OBVIOUS
    <2> HIDE DEF less, Lacks
    <2> QED
      BY <1>1, <1>2, <2>1, WFMin
  <1>4. m \in 1 .. bound /\ m \notin Holding
    OBVIOUS
  <1>5. m - 1 \in 0 .. bound /\ <<m - 1, m>> \in less
    BY <1>4
  <1>6. m - 1 \in Holding
    BY <1>3, <1>5
  <1> QED
    BY <1>4, <1>6

\* Every non-empty set of natural numbers has a least element.
LEMMA SmallestOfNat ==
    ASSUME NEW S \in SUBSET Nat, S # {}
    PROVE  \E i \in S : \A n \in S : i <= n
  <1> DEFINE less == {p \in Nat \X Nat : p[1] < p[2]}
  <1>1. IsWellFoundedOn(less, Nat)
    BY NatLessThanWellFounded DEF OpToRel
  <1>2. \E i \in S : \A n \in S : ~(<<n, i>> \in less)
    <2>1. S \subseteq Nat
      OBVIOUS
    <2> HIDE DEF less
    <2> QED
      BY <1>1, <2>1, WFMin
  <1>3. \A i, n \in S : i \in Nat /\ n \in Nat /\ (~(n < i) => i <= n)
    OBVIOUS
  <1>4. \A i, n \in S : n < i => <<n, i>> \in less
    OBVIOUS
  <1> HIDE DEF less
  <1> QED
    BY <1>2, <1>3, <1>4

-----------------------------------------------------------------------------
(* Sorting and maxima.                                                     *)

\* A relation that orders a set strictly and totally.
OrdersStrictly(R, S) ==
    /\ \A p \in S : <<p, p>> \notin R
    /\ \A p, q \in S : p # q => <<p, q>> \in R \/ <<q, p>> \in R
    /\ \A p, q, r \in S : <<p, q>> \in R /\ <<q, r>> \in R => <<p, r>> \in R

\* The elements before p.
Below(S, R, p) == {q \in S : <<q, p>> \in R}

\* The ranks of a finite set are 0, 1, ... without gaps, in its order.
LEMMA Ranks ==
    ASSUME NEW S, IsFiniteSet(S), NEW R, OrdersStrictly(R, S)
    PROVE  /\ \A p \in S : Cardinality(Below(S, R, p)) \in 0 .. Cardinality(S) - 1
           /\ \A p, q \in S : <<p, q>> \in R
                => Cardinality(Below(S, R, p)) < Cardinality(Below(S, R, q))
           /\ \A k \in 0 .. Cardinality(S) - 1 :
                \E p \in S : Cardinality(Below(S, R, p)) = k
  <1> DEFINE rank == [p \in S |-> Cardinality(Below(S, R, p))]
  <1> DEFINE Places_ == 0 .. Cardinality(S) - 1
  <1>1. Cardinality(S) \in Nat
    BY FS_CardinalityType
  <1>2. \A p \in S : IsFiniteSet(Below(S, R, p)) /\ Cardinality(Below(S, R, p)) \in Places_
    <2> TAKE p \in S
    <2>1. Below(S, R, p) \subseteq S \ {p}
      BY DEF Below, OrdersStrictly
    <2>2. IsFiniteSet(S \ {p}) /\ Cardinality(S \ {p}) = Cardinality(S) - 1
      BY FS_RemoveElement
    <2>3. /\ IsFiniteSet(Below(S, R, p))
          /\ Cardinality(Below(S, R, p)) <= Cardinality(S \ {p})
      BY <2>1, <2>2, FS_Subset
    <2>4. Cardinality(Below(S, R, p)) \in Nat
      BY <2>3, FS_CardinalityType
    <2> QED
      BY <1>1, <2>2, <2>3, <2>4
  <1>3. ASSUME NEW p \in S, NEW q \in S, <<p, q>> \in R
        PROVE  Cardinality(Below(S, R, p)) < Cardinality(Below(S, R, q))
    <2>1. Below(S, R, p) \cup {p} \subseteq Below(S, R, q) /\ p \notin Below(S, R, p)
      BY <1>3 DEF Below, OrdersStrictly
    <2>2. Cardinality(Below(S, R, p) \cup {p}) = Cardinality(Below(S, R, p)) + 1
      BY <1>2, <2>1, FS_AddElement
    <2>3. Cardinality(Below(S, R, p) \cup {p}) <= Cardinality(Below(S, R, q))
      BY <1>2, <2>1, FS_Subset
    <2> QED
      BY <1>1, <1>2, <2>2, <2>3
  <1>4. rank \in Injection(S, Places_)
    <2>1. rank \in [S -> Places_]
      BY <1>2
    <2>2. ASSUME NEW p \in S, NEW q \in S, p # q PROVE rank[p] # rank[q]
      <3>1. <<p, q>> \in R \/ <<q, p>> \in R
        BY <2>2 DEF OrdersStrictly
      <3>2. rank[p] \in Places_ /\ rank[q] \in Places_
        BY <2>1
      <3>3. rank[p] < rank[q] \/ rank[q] < rank[p]
        BY <1>3, <3>1
      <3> QED
        BY <1>1, <3>2, <3>3
    <2> HIDE DEF rank, Places_
    <2> QED
      BY <2>1, <2>2 DEF Injection, IsInjective
  <1>5. IsFiniteSet(Places_) /\ Cardinality(Places_) = Cardinality(S)
    <2>1. 0 \in Int /\ Cardinality(S) - 1 \in Int
      BY <1>1
    <2>2. /\ IsFiniteSet(Places_)
          /\ Cardinality(Places_) = IF 0 > Cardinality(S) - 1 THEN 0 ELSE Cardinality(S) - 1 - 0 + 1
      BY <2>1, FS_Interval
    <2> QED
      BY <1>1, <2>2
  <1>6. rank \in Surjection(S, Places_)
    <2> HIDE DEF rank, Places_
    <2> QED
      BY <1>4, <1>5, FS_Injection
  <1>7. \A k \in Places_ : \E p \in S : rank[p] = k
    <2> HIDE DEF rank, Places_
    <2> QED
      BY <1>6 DEF Surjection
  <1> QED
    BY <1>2, <1>3, <1>7

\* A sorted sequence has each element of the set once, in the order.
LEMMA Sorted ==
    ASSUME NEW S, IsFiniteSet(S), NEW R, OrdersStrictly(R, S)
    PROVE  /\ SortedBy(S, R) \in Seq(S)
           /\ Len(SortedBy(S, R)) = Cardinality(S)
           /\ \A p \in S : \E k \in 1 .. Cardinality(S) : SortedBy(S, R)[k] = p
           /\ \A i, j \in 1 .. Cardinality(S) :
                i < j => /\ <<SortedBy(S, R)[i], SortedBy(S, R)[j]>> \in R
                         /\ SortedBy(S, R)[i] # SortedBy(S, R)[j]
  <1> DEFINE n == Cardinality(S)
  <1> DEFINE seq == SortedBy(S, R)
  <1>1. n \in Nat
    BY FS_CardinalityType
  <1>2. ASSUME NEW k \in 1 .. n
        PROVE  seq[k] \in S /\ Cardinality(Below(S, R, seq[k])) = k - 1
    <2>1. seq[k] = CHOOSE p \in S : Cardinality(Below(S, R, p)) = k - 1
      BY DEF SortedBy, Below
    <2>2. k - 1 \in 0 .. n - 1
      BY <1>1
    <2>3. \E p \in S : Cardinality(Below(S, R, p)) = k - 1
      BY <2>2, Ranks
    <2> QED
      BY <2>1, <2>3
  <1>3. \E pick : seq = [k \in 1 .. n |-> pick[k]]
    <2> DEFINE at(k) == CHOOSE p \in S : Cardinality({q \in S : <<q, p>> \in R}) = k - 1
    <2>1. seq = [k \in 1 .. n |-> at(k)]
      BY DEF SortedBy
    <2> HIDE DEF at, seq
    <2>2. seq = [k \in 1 .. n |-> seq[k]]
      BY <2>1
    <2> QED
      BY <2>2
  <1> HIDE DEF seq
  <1>4. seq = [k \in 1 .. n |-> seq[k]]
    BY <1>3
  <1>5. seq \in Seq(S) /\ Len(seq) = n
    BY <1>1, <1>2, <1>4
  <1>6. ASSUME NEW p \in S PROVE \E k \in 1 .. n : seq[k] = p
    <2> DEFINE k == Cardinality(Below(S, R, p)) + 1
    <2>1. k \in 1 .. n /\ k - 1 = Cardinality(Below(S, R, p))
      BY <1>1, Ranks
    <2>2. seq[k] \in S /\ Cardinality(Below(S, R, seq[k])) = Cardinality(Below(S, R, p))
      BY <1>2, <2>1
    <2>3. \A r \in S : Cardinality(Below(S, R, r)) \in 0 .. n - 1
      BY Ranks
    <2>4. seq[k] = p
      <3>1. CASE <<seq[k], p>> \in R
        BY <1>1, <2>2, <2>3, <3>1, Ranks
      <3>2. CASE <<p, seq[k]>> \in R
        BY <1>1, <2>2, <2>3, <3>2, Ranks
      <3> QED
        BY <2>2, <3>1, <3>2 DEF OrdersStrictly
    <2> QED
      BY <2>1, <2>4
  <1>7. ASSUME NEW i \in 1 .. n, NEW j \in 1 .. n, i < j
        PROVE  <<seq[i], seq[j]>> \in R /\ seq[i] # seq[j]
    <2>1. seq[i] \in S /\ seq[j] \in S
      BY <1>2
    <2>2. Cardinality(Below(S, R, seq[i])) < Cardinality(Below(S, R, seq[j]))
      BY <1>1, <1>2, <1>7
    <2>3. seq[i] # seq[j]
      BY <1>1, <1>2, <1>7
    <2>4. <<seq[j], seq[i]>> \notin R
      <3>1. SUFFICES ASSUME <<seq[j], seq[i]>> \in R PROVE FALSE
        OBVIOUS
      <3>2. Cardinality(Below(S, R, seq[j])) < Cardinality(Below(S, R, seq[i]))
        BY <2>1, <3>1, Ranks
      <3> QED
        BY <1>1, <1>2, <1>7, <3>2
    <2> QED
      BY <2>1, <2>3, <2>4 DEF OrdersStrictly
  <1>8. \A i, j \in 1 .. n : i < j => <<seq[i], seq[j]>> \in R /\ seq[i] # seq[j]
    BY <1>7
  <1>9. \A p \in S : \E k \in 1 .. n : seq[k] = p
    BY <1>6
  <1> HIDE DEF n
  <1>10. /\ seq \in Seq(S) /\ Len(seq) = n
         /\ \A p \in S : \E k \in 1 .. n : seq[k] = p
         /\ \A i, j \in 1 .. n : i < j => <<seq[i], seq[j]>> \in R /\ seq[i] # seq[j]
    BY <1>5, <1>8, <1>9
  <1> QED
    BY <1>10 DEF seq, n

\* A finite set that is not empty has a last element in a strict order.
LEMMA LastExists ==
    ASSUME NEW S, IsFiniteSet(S), S # {}, NEW R, OrdersStrictly(R, S)
    PROVE  \E x \in S : \A y \in S \ {x} : <<y, x>> \in R
  <1> DEFINE n == Cardinality(S)
  <1>1. n \in Nat /\ n # 0
    BY FS_CardinalityType, FS_EmptySet
  <1>2. PICK x \in S : Cardinality(Below(S, R, x)) = n - 1
    <2>1. n - 1 \in 0 .. n - 1
      BY <1>1
    <2> QED
      BY <2>1, Ranks
  <1>3. ASSUME NEW y \in S \ {x} PROVE <<y, x>> \in R
    <2>1. SUFFICES ASSUME <<x, y>> \in R PROVE FALSE
      BY DEF OrdersStrictly
    <2>2. /\ Cardinality(Below(S, R, x)) < Cardinality(Below(S, R, y))
          /\ Cardinality(Below(S, R, y)) \in 0 .. n - 1
      BY <2>1, Ranks
    <2> QED
      BY <1>1, <1>2, <2>2
  <1> QED
    BY <1>3

\* And a first one.
LEMMA FirstExists ==
    ASSUME NEW S, IsFiniteSet(S), S # {}, NEW R, OrdersStrictly(R, S)
    PROVE  \E x \in S : \A y \in S \ {x} : <<x, y>> \in R
  <1>1. Cardinality(S) \in Nat /\ Cardinality(S) # 0
    BY FS_CardinalityType, FS_EmptySet
  <1>2. PICK x \in S : Cardinality(Below(S, R, x)) = 0
    <2>1. 0 \in 0 .. Cardinality(S) - 1
      BY <1>1
    <2> QED
      BY <2>1, Ranks
  <1>3. ASSUME NEW y \in S \ {x} PROVE <<x, y>> \in R
    <2>1. SUFFICES ASSUME <<y, x>> \in R PROVE FALSE
      BY DEF OrdersStrictly
    <2>2. /\ Cardinality(Below(S, R, y)) < Cardinality(Below(S, R, x))
          /\ Cardinality(Below(S, R, y)) \in 0 .. Cardinality(S) - 1
      BY <2>1, Ranks
    <2> QED
      BY <1>1, <1>2, <2>2
  <1> QED
    BY <1>3

\* A finite set of numbers that is not empty has a greatest one.
LEMMA MaxIs ==
    ASSUME NEW S \in SUBSET Nat, IsFiniteSet(S), S # {}
    PROVE  Max(S) \in S /\ \A x \in S : x <= Max(S)
  <1> DEFINE R == {xy \in S \X S : xy[1] < xy[2]}
  <1> DEFINE n == Cardinality(S)
  <1>1. n \in Nat /\ n # 0
    BY FS_CardinalityType, FS_EmptySet
  <1>2. OrdersStrictly(R, S)
    BY DEF OrdersStrictly
  <1>3. PICK x \in S : Cardinality(Below(S, R, x)) = n - 1
    <2>1. n - 1 \in 0 .. n - 1
      BY <1>1
    <2> HIDE DEF R
    <2> QED
      BY <1>2, <2>1, Ranks
  <1>4. \A y \in S : ~(<<x, y>> \in R)
    <2> HIDE DEF R
    <2> QED
      BY <1>1, <1>2, <1>3, Ranks
  <1>5. ASSUME NEW y \in S PROVE x >= y
    <2>1. <<x, y>> \in S \X S /\ <<x, y>>[1] = x /\ <<x, y>>[2] = y
      OBVIOUS
    <2>2. ~(x < y)
      BY <1>4, <2>1
    <2> QED
      BY <2>2
  <1> HIDE DEF R, n
  <1> QED
    BY <1>5 DEF Max

\* The lesser of two numbers.
LEMMA MinIs ==
    ASSUME NEW a \in Int, NEW b \in Int
    PROVE  Min({a, b}) = IF a <= b THEN a ELSE b
  BY DEF Min

\* A sequence that holds nothing twice has as many elements as it is long.
LEMMA NothingTwice ==
    ASSUME NEW S, NEW seq \in Seq(S),
           \A i, j \in 1 .. Len(seq) : i < j => seq[i] # seq[j]
    PROVE  IsFiniteSet(ToSet(seq)) /\ Cardinality(ToSet(seq)) = Len(seq)
  <1> DEFINE n == Len(seq)
  <1>1. n \in Nat /\ DOMAIN seq = 1 .. n
    OBVIOUS
  <1>2. ToSet(seq) = {seq[i] : i \in 1 .. n}
    BY <1>1 DEF ToSet
  <1>3. seq \in [1 .. n -> ToSet(seq)]
    BY <1>1, <1>2
  <1>4. \A i, j \in 1 .. n : seq[i] = seq[j] => i = j
    <2>1. \A i, j \in 1 .. n : i < j \/ j < i \/ i = j
      BY <1>1
    <2> QED
      BY <2>1
  <1>5. \A x \in ToSet(seq) : \E i \in 1 .. n : seq[i] = x
    BY <1>2
  <1> HIDE DEF n
  <1>6. seq \in Bijection(1 .. n, ToSet(seq))
    BY <1>3, <1>4, <1>5 DEF Bijection, Injection, Surjection, IsInjective
  <1>7. ExistsBijection(1 .. n, ToSet(seq))
    BY <1>6 DEF ExistsBijection
  <1>8. IsFiniteSet(1 .. n) /\ Cardinality(1 .. n) = n
    <2>1. 1 \in Int /\ n \in Int
      BY <1>1
    <2>2. IsFiniteSet(1 .. n) /\ Cardinality(1 .. n) = IF 1 > n THEN 0 ELSE n - 1 + 1
      BY <2>1, FS_Interval
    <2> QED
      BY <1>1, <2>2
  <1> QED
    BY <1>7, <1>8, FS_Bijection DEF n

-----------------------------------------------------------------------------
(* Folding: the recursion that defines a fold has a solution.              *)

\* The recursion of a fold over the subsets of a set: the element picked, with
\* the result for the others.
Recurses(fold, Sets, base, pick, step) ==
    \A s \in Sets : fold[s] = IF s = {} THEN base ELSE step[<<fold[s \ {pick[s]}], pick[s]>>]

\* The recursion over the subsets of a finite set has a solution.
LEMMA FoldExists ==
    ASSUME NEW S, IsFiniteSet(S), NEW Acc, NEW base \in Acc,
           NEW pick, \A s \in SUBSET S : s # {} => pick[s] \in s,
           NEW step \in [Acc \X S -> Acc]
    PROVE  \E fold \in [SUBSET S -> Acc] : Recurses(fold, SUBSET S, base, pick, step)
  <1> DEFINE Sized(n) == {s \in SUBSET S : Cardinality(s) <= n}
  <1> DEFINE HasFold(n) == \E fold \in [Sized(n) -> Acc] :
                              Recurses(fold, Sized(n), base, pick, step)
  <1> DEFINE Holding == {n \in Nat : HasFold(n)}
  <1>1. \A s \in SUBSET S : IsFiniteSet(s) /\ Cardinality(s) \in Nat
    BY FS_Subset, FS_CardinalityType
  <1>2. 0 \in Holding
    <2> DEFINE fold == [s \in Sized(0) |-> base]
    <2>1. \A s \in Sized(0) : s = {}
      BY <1>1, FS_EmptySet
    <2>2. fold \in [Sized(0) -> Acc] /\ Recurses(fold, Sized(0), base, pick, step)
      BY <2>1 DEF Recurses
    <2> QED
      BY <2>2
  <1>3. ASSUME NEW n \in Nat \ {0}, n - 1 \in Holding PROVE n \in Holding
    <2>1. PICK before \in [Sized(n - 1) -> Acc] : Recurses(before, Sized(n - 1), base, pick, step)
      BY <1>3
    <2> DEFINE fold == [s \in Sized(n) |->
                          IF s = {} THEN base ELSE step[<<before[s \ {pick[s]}], pick[s]>>]]
    <2>2. Sized(n - 1) \subseteq Sized(n)
      BY <1>1
    <2>3. \A s \in Sized(n) : s # {} => pick[s] \in S /\ s \ {pick[s]} \in Sized(n - 1)
      <3> TAKE s \in Sized(n)
      <3>1. HAVE s # {}
      <3>2. pick[s] \in s
        BY <3>1
      <3>3. Cardinality(s \ {pick[s]}) = Cardinality(s) - 1
        BY <1>1, <3>2, FS_RemoveElement
      <3>4. Cardinality(s) <= n /\ Cardinality(s) \in Nat
        BY <1>1
      <3> QED
        BY <3>2, <3>3, <3>4
    <2>4. fold \in [Sized(n) -> Acc]
      <3>1. ASSUME NEW s \in Sized(n), s # {}
            PROVE  step[<<before[s \ {pick[s]}], pick[s]>>] \in Acc
        <4>1. before[s \ {pick[s]}] \in Acc /\ pick[s] \in S
          BY <2>3, <3>1
        <4> QED
          BY <4>1
      <3> HIDE DEF Sized
      <3> QED
        BY <3>1
    <2>5. \A s \in Sized(n - 1) : fold[s] = before[s]
      <3> HIDE DEF Sized
      <3> QED
        BY <2>1, <2>2 DEF Recurses
    <2>6. Recurses(fold, Sized(n), base, pick, step)
      <3>1. \A s \in Sized(n) : fold[s] = IF s = {} THEN base ELSE step[<<before[s \ {pick[s]}], pick[s]>>]
        OBVIOUS
      <3> HIDE DEF Sized, fold
      <3> QED
        BY <2>3, <2>5, <3>1 DEF Recurses
    <2>7. HasFold(n)
      <3> HIDE DEF fold, Sized
      <3> QED
        BY <2>4, <2>6
    <2> HIDE DEF HasFold
    <2> QED
      BY <2>7
  <1> DEFINE all == Cardinality(S)
  <1>4. all \in Nat
    BY FS_CardinalityType
  <1>5. all \in Holding
    <2> HIDE DEF Holding, all
    <2>1. \A n \in 1 .. all : n - 1 \in Holding => n \in Holding
      BY <1>3, <1>4
    <2>2. \A n \in 0 .. all : n \in Holding
      BY <1>2, <1>4, <2>1, UpTo
    <2> QED
      BY <1>4, <2>2
  <1>6. Sized(all) = SUBSET S
    BY FS_Subset
  <1>7. HasFold(all)
    <2> HIDE DEF HasFold
    <2> QED
      BY <1>5
  <1> HIDE DEF Sized
  <1>8. PICK fold \in [Sized(all) -> Acc] : Recurses(fold, Sized(all), base, pick, step)
    BY <1>7
  <1>9. fold \in [SUBSET S -> Acc] /\ Recurses(fold, SUBSET S, base, pick, step)
    BY <1>6, <1>8
  <1> QED
    BY <1>9

\* The greatest of the first numbers is the last one.
LEMMA UpToANumber ==
    ASSUME NEW n \in Nat \ {0}
    PROVE  Max(1 .. n) = n /\ 1 .. n # {} /\ (1 .. n) \ {n} = 1 .. n - 1
  <1>3. 1 .. n # {}
    OBVIOUS
  <1>4. \A x : x \in (1 .. n) \ {n} <=> x \in 1 .. n - 1
    OBVIOUS
  <1>1. n \in 1 .. n /\ \A y \in 1 .. n : n >= y
    OBVIOUS
  <1>2. \A x \in 1 .. n : (\A y \in 1 .. n : x >= y) => x = n
    OBVIOUS
  <1> QED
    BY <1>1, <1>2, <1>3, <1>4 DEF Max

\* The recursion of FoldLeft: the last element is folded in last.
FoldsLeft(fold, seq, base, step) ==
    \A s \in SUBSET DOMAIN seq :
        /\ s # {} => Max(s) \in s
        /\ fold[s] = IF s = {} THEN base ELSE step[<<fold[s \ {Max(s)}], seq[Max(s)]>>]

\* That recursion has a solution.
LEMMA FoldLeftExists ==
    ASSUME NEW S, NEW seq \in Seq(S), NEW Acc, NEW base \in Acc,
           NEW step \in [Acc \X S -> Acc]
    PROVE  \E fold \in [SUBSET DOMAIN seq -> Acc] : FoldsLeft(fold, seq, base, step)
  <1> DEFINE D == DOMAIN seq
  <1> DEFINE pick == [s \in SUBSET D |-> Max(s)]
  <1> DEFINE at == [ai \in Acc \X D |-> step[<<ai[1], seq[ai[2]]>>]]
  <1>1. Len(seq) \in Nat /\ D = 1 .. Len(seq) /\ \A i \in D : seq[i] \in S
    OBVIOUS
  <1>2. IsFiniteSet(D) /\ D \in SUBSET Nat
    <2>1. 1 \in Int /\ Len(seq) \in Int
      BY <1>1
    <2> QED
      BY <1>1, <2>1, FS_Interval
  <1>3. \A s \in SUBSET D : s # {} => Max(s) \in s
    <2> TAKE s \in SUBSET D
    <2> HAVE s # {}
    <2>1. s \in SUBSET Nat /\ IsFiniteSet(s)
      BY <1>2, FS_Subset
    <2> QED
      BY <2>1, MaxIs
  <1>4. \A s \in SUBSET D : pick[s] = Max(s)
    OBVIOUS
  <1>5. at \in [Acc \X D -> Acc]
    BY <1>1
  <1>6. \A a \in Acc, i \in D : at[<<a, i>>] = step[<<a, seq[i]>>]
    OBVIOUS
  <1> HIDE DEF D, pick, at
  <1>7. PICK fold \in [SUBSET D -> Acc] : Recurses(fold, SUBSET D, base, pick, at)
    <2>1. \A s \in SUBSET D : s # {} => pick[s] \in s
      BY <1>3, <1>4
    <2> QED
      BY <1>2, <1>5, <2>1, FoldExists
  <1>8. \A s \in SUBSET D : fold[s] = IF s = {} THEN base
                                      ELSE step[<<fold[s \ {Max(s)}], seq[Max(s)]>>]
    <2> TAKE s \in SUBSET D
    <2>1. fold[s] = IF s = {} THEN base ELSE at[<<fold[s \ {pick[s]}], pick[s]>>]
      BY <1>7 DEF Recurses
    <2>2. CASE s # {}
      <3>1. Max(s) \in D /\ pick[s] = Max(s)
        BY <1>3, <1>4, <2>2
      <3>2. fold[s \ {Max(s)}] \in Acc
        BY <1>7
      <3>3. at[<<fold[s \ {Max(s)}], Max(s)>>] = step[<<fold[s \ {Max(s)}], seq[Max(s)]>>]
        BY <1>6, <3>1, <3>2
      <3> QED
        BY <2>1, <2>2, <3>1, <3>3
    <2> QED
      BY <2>1, <2>2
  <1> QED
    BY <1>3, <1>8 DEF D, FoldsLeft

\* The recursion as far as its results are of a set.
FollowsIn(Acc, fold, seq, step) ==
    \A s \in SUBSET DOMAIN seq :
        s # {} /\ fold[s \ {Max(s)}] \in Acc => fold[s] = step[<<fold[s \ {Max(s)}], seq[Max(s)]>>]

\* The results for the first parts of the sequence.
StepsLeft(acc, fold, seq, base, step) ==
    /\ acc[0] = base /\ acc[Len(seq)] = fold[DOMAIN seq]
    /\ \A n \in 1 .. Len(seq) : acc[n] = step[<<acc[n - 1], seq[n]>>]

\* A solution of that recursion goes through the sequence from the left.
LEMMA FoldLeftSteps ==
    ASSUME NEW S, NEW seq \in Seq(S), NEW Acc, NEW base \in Acc,
           NEW step \in [Acc \X S -> Acc], NEW fold, fold[{}] = base,
           FollowsIn(Acc, fold, seq, step)
    PROVE  \E acc \in [0 .. Len(seq) -> Acc] : StepsLeft(acc, fold, seq, base, step)
  <1>1. Len(seq) \in Nat /\ DOMAIN seq = 1 .. Len(seq) /\ \A i \in DOMAIN seq : seq[i] \in S
    OBVIOUS
  <1> DEFINE acc == [n \in 0 .. Len(seq) |-> fold[1 .. n]]
  <1>2. acc[0] = base
    <2>1. 1 .. 0 = {} /\ 0 \in 0 .. Len(seq)
      BY <1>1
    <2> QED
      BY <2>1
  <1>3. \A n \in 1 .. Len(seq) : acc[n - 1] \in Acc => acc[n] = step[<<acc[n - 1], seq[n]>>]
    <2> TAKE n \in 1 .. Len(seq)
    <2> HAVE acc[n - 1] \in Acc
    <2>1. 1 .. n \in SUBSET DOMAIN seq
      BY <1>1
    <2>2. Max(1 .. n) = n /\ 1 .. n # {} /\ (1 .. n) \ {n} = 1 .. n - 1
      BY <1>1, UpToANumber
    <2>3. n - 1 \in 0 .. Len(seq) /\ n \in 0 .. Len(seq)
      BY <1>1
    <2>4. acc[n - 1] = fold[1 .. n - 1] /\ acc[n] = fold[1 .. n]
      BY <2>3
    <2> HIDE DEF acc
    <2> QED
      BY <2>1, <2>2, <2>4 DEF FollowsIn
  <1>4. acc[Len(seq)] = fold[DOMAIN seq]
    <2>1. Len(seq) \in 0 .. Len(seq)
      BY <1>1
    <2> QED
      BY <1>1, <2>1
  <1>5. acc = [n \in 0 .. Len(seq) |-> acc[n]]
    OBVIOUS
  <1> HIDE DEF acc
  <1>6. \A n \in 0 .. Len(seq) : acc[n] \in Acc
    <2> DEFINE Holding == {n \in 0 .. Len(seq) : acc[n] \in Acc}
    <2>1. 0 \in Holding
      BY <1>1, <1>2
    <2>2. \A n \in 1 .. Len(seq) : n - 1 \in Holding => n \in Holding
      <3> TAKE n \in 1 .. Len(seq)
      <3> HAVE n - 1 \in Holding
      <3>1. acc[n - 1] \in Acc /\ seq[n] \in S
        BY <1>1
      <3>2. step[<<acc[n - 1], seq[n]>>] \in Acc
        BY <3>1
      <3>3. acc[n] \in Acc
        BY <1>3, <3>1, <3>2
      <3> QED
        BY <1>1, <3>3
    <2> HIDE DEF Holding
    <2>3. \A n \in 0 .. Len(seq) : n \in Holding
      BY <1>1, <2>1, <2>2, UpTo
    <2> QED
      BY <2>3 DEF Holding
  <1>7. \A n \in 1 .. Len(seq) : n - 1 \in 0 .. Len(seq)
    BY <1>1
  <1> QED
    BY <1>2, <1>3, <1>4, <1>5, <1>6, <1>7 DEF StepsLeft

-----------------------------------------------------------------------------
(* Finite sets, one element after the other.                               *)

\* The element of a set that is taken first.
PickOf(s) == CHOOSE x \in s : TRUE

\* The element picked is one of the set.
LEMMA PickOfIs == ASSUME NEW s, s # {} PROVE PickOf(s) \in s
  BY DEF PickOf

\* What holds of no elements, and of a set if it does without the element
\* picked, holds of a finite set.
LEMMA OverSubsets ==
    ASSUME NEW S, IsFiniteSet(S), NEW Good, {} \in Good,
           \A s \in SUBSET S : s # {} /\ s \ {PickOf(s)} \in Good => s \in Good
    PROVE  S \in Good
  <1> DEFINE Holding == {n \in Nat : \A s \in SUBSET S : Cardinality(s) <= n => s \in Good}
  <1>1. \A s \in SUBSET S : IsFiniteSet(s) /\ Cardinality(s) \in Nat
    BY FS_Subset, FS_CardinalityType
  <1>2. 0 \in Holding
    <2>1. \A s \in SUBSET S : Cardinality(s) <= 0 => s = {}
      BY <1>1, FS_EmptySet
    <2> QED
      BY <2>1
  <1>3. ASSUME NEW n \in Nat \ {0}, n - 1 \in Holding PROVE n \in Holding
    <2>1. ASSUME NEW s \in SUBSET S, Cardinality(s) <= n, s # {}
          PROVE  s \in Good
      <3>1. PickOf(s) \in s
        BY <2>1, PickOfIs
      <3>2. Cardinality(s \ {PickOf(s)}) = Cardinality(s) - 1
        BY <1>1, <3>1, FS_RemoveElement
      <3>3. Cardinality(s \ {PickOf(s)}) <= n - 1
        BY <1>1, <2>1, <3>2
      <3>4. s \ {PickOf(s)} \in Good
        BY <1>3, <3>3
      <3> QED
        BY <2>1, <3>4
    <2> QED
      BY <2>1
  <1> DEFINE all == Cardinality(S)
  <1>4. all \in Nat
    BY FS_CardinalityType
  <1>5. all \in Holding
    <2> HIDE DEF Holding, all
    <2>1. \A n \in 1 .. all : n - 1 \in Holding => n \in Holding
      BY <1>3, <1>4
    <2>2. \A n \in 0 .. all : n \in Holding
      BY <1>2, <1>4, <2>1, UpTo
    <2> QED
      BY <1>4, <2>2
  <1> QED
    BY <1>4, <1>5
=============================================================================
