----------------------- MODULE SnapshotCollectorProofs -----------------------
(***************************************************************************)
(* Proofs about the lists of Orderings and the plans of SnapshotCollector, *)
(* for every topology, alarm and answer.                                   *)
(***************************************************************************)
EXTENDS SnapshotCollector, FiniteSetTheorems, WellFoundedInduction, TLAPS

-----------------------------------------------------------------------------
(* Induction, by way of the least counterexample.                          *)

LEMMA Least ==
  ASSUME NEW T, T \subseteq Nat, T # {}
  PROVE  \E x \in T : \A y \in T : x <= y
<1> DEFINE R == OpToRel(<, Nat)
<1>1. IsWellFoundedOn(R, Nat)
  BY NatLessThanWellFounded, Zenon
<1>2. \A x, y \in Nat : x < y => <<x, y>> \in R
  BY DEF OpToRel
<1> HIDE DEF R
<1>3. PICK x \in T : \A y \in T : ~ (<<y, x>> \in R)
  BY <1>1, WFMin
<1>4. ASSUME NEW y \in T PROVE x <= y
  <2>1. x \in Nat /\ y \in Nat /\ ~(y < x)
    BY <1>2, <1>3
  <2> QED BY <2>1
<1> QED
  BY <1>4

(* A set of numbers with 0 and with the successor of each of its members.  *)
LEMMA Induction ==
  ASSUME NEW T, 0 \in T, \A n \in Nat : n \in T => n + 1 \in T
  PROVE  Nat \subseteq T
<1>1. SUFFICES ASSUME Nat \ T # {} PROVE FALSE
  OBVIOUS
<1>2. PICK x \in Nat \ T : \A y \in Nat \ T : x <= y
  BY <1>1, Least
<1>3. x # 0 /\ x \in Nat
  BY <1>2
<1>4. x - 1 \in Nat /\ ~(x <= x - 1) /\ (x - 1) + 1 = x
  BY <1>3
<1> QED
  BY <1>2, <1>4

-----------------------------------------------------------------------------
(* Ranks.                                                                  *)

(* A total order of the members of S, as a set of pairs.                   *)
Orders(R, S) ==
  /\ \A x \in S : <<x, x>> \in R
  /\ \A x, y \in S : <<x, y>> \in R \/ <<y, x>> \in R
  /\ \A x, y \in S : <<x, y>> \in R /\ <<y, x>> \in R => x = y
  /\ \A x, y, z \in S : <<x, y>> \in R /\ <<y, z>> \in R => <<x, z>> \in R

UpTo(R, S, x) == {y \in S : <<y, x>> \in R}

(* Of two members the later one has more before it.                        *)
LEMMA RankGrows ==
  ASSUME NEW S, IsFiniteSet(S), NEW R, Orders(R, S),
         NEW x \in S, NEW y \in S, <<x, y>> \in R, x # y
  PROVE  /\ Cardinality(UpTo(R, S, x)) \in Nat
         /\ Cardinality(UpTo(R, S, y)) \in Nat
         /\ Cardinality(UpTo(R, S, x)) < Cardinality(UpTo(R, S, y))
<1> DEFINE X == UpTo(R, S, x)
           Y == UpTo(R, S, y)
<1>1. X \subseteq S /\ Y \subseteq S /\ X \subseteq Y
  BY DEF UpTo, Orders
<1>2. y \in Y /\ y \notin X
  BY DEF UpTo, Orders
<1> HIDE DEF X, Y
<1>3. IsFiniteSet(X) /\ IsFiniteSet(Y)
  BY <1>1, FS_Subset
<1>4. /\ Cardinality(X) \in Nat /\ Cardinality(Y) \in Nat
      /\ Cardinality(X) <= Cardinality(Y) /\ Cardinality(X) # Cardinality(Y)
  BY <1>1, <1>2, <1>3, FS_Subset, FS_CardinalityType
<1> QED
  BY <1>4 DEF X, Y

(* Every rank up to the number of members is the rank of one of them.      *)
LEMMA RanksOnto ==
  ASSUME NEW S, IsFiniteSet(S), NEW R, Orders(R, S)
  PROVE  /\ \A x \in S : Cardinality(UpTo(R, S, x)) \in 1..Cardinality(S)
         /\ \A x, y \in S :
              Cardinality(UpTo(R, S, x)) = Cardinality(UpTo(R, S, y)) => x = y
         /\ \A n \in 1..Cardinality(S) :
              \E x \in S : Cardinality(UpTo(R, S, x)) = n
<1> DEFINE rank == [x \in S |-> Cardinality(UpTo(R, S, x))]
           Ranks == 1..Cardinality(S)
<1>1. Cardinality(S) \in Nat
  BY FS_CardinalityType
<1>2. ASSUME NEW x \in S
      PROVE  Cardinality(UpTo(R, S, x)) \in Ranks
  <2>1. UpTo(R, S, x) \subseteq S /\ x \in UpTo(R, S, x)
    BY DEF UpTo, Orders
  <2>2. /\ IsFiniteSet(UpTo(R, S, x))
        /\ Cardinality(UpTo(R, S, x)) <= Cardinality(S)
    BY <2>1, FS_Subset
  <2>3. /\ Cardinality(UpTo(R, S, x)) \in Nat
        /\ Cardinality(UpTo(R, S, x)) # 0
    BY <2>1, <2>2, FS_CardinalityType, FS_EmptySet
  <2> QED
    BY <1>1, <2>2, <2>3
<1>3. ASSUME NEW x \in S, NEW y \in S,
             Cardinality(UpTo(R, S, x)) = Cardinality(UpTo(R, S, y))
      PROVE  x = y
  <2>1. CASE <<x, y>> \in R
    BY <1>3, <2>1, RankGrows
  <2>2. CASE <<y, x>> \in R
    BY <1>3, <2>2, RankGrows
  <2> QED
    BY <2>1, <2>2 DEF Orders
<1>4. rank \in Injection(S, Ranks)
  <2>1. rank \in [S -> Ranks]
    BY <1>2
  <2>2. \A x, y \in S : rank[x] = rank[y] => x = y
    BY <1>3
  <2> QED
    BY <2>1, <2>2 DEF Injection, IsInjective
<1>5. IsFiniteSet(Ranks) /\ Cardinality(Ranks) = Cardinality(S)
  BY <1>1, FS_Interval
<1>6. rank \in Surjection(S, Ranks)
  BY <1>4, <1>5, FS_Injection
<1>7. \A n \in Ranks : \E x \in S : rank[x] = n
  BY <1>6 DEF Surjection
<1> QED
  BY <1>2, <1>3, <1>7

-----------------------------------------------------------------------------
(* The lists of Orderings.                                                 *)

(* A function over 1..n is a sequence of its values.                       *)
LEMMA FunctionSeq ==
  ASSUME NEW n \in Nat, NEW s, DOMAIN s = 1..n, s = [i \in DOMAIN s |-> s[i]]
  PROVE  IsSeq(s) /\ Len(s) = n
<1>1. \A i \in 1..n : s[i] \in Elements(s)
  BY DEF Elements
<1>2. s \in [1..n -> Elements(s)]
  BY <1>1
<1>3. s \in Seq(Elements(s)) /\ Len(s) = n
  BY <1>2
<1> QED
  BY <1>3 DEF IsSeq

LEMMA Interval ==
  ASSUME NEW n \in Nat
  PROVE  IsFiniteSet(1..n) /\ Cardinality(1..n) = n
<1>1. 1 \in Int /\ n \in Int /\ (IF 1 > n THEN 0 ELSE n - 1 + 1) = n
  OBVIOUS
<1> QED
  BY <1>1, FS_Interval

LEMMA SeqFacts ==
  ASSUME NEW s, IsSeq(s)
  PROVE  /\ Len(s) \in Nat /\ DOMAIN s = 1..Len(s)
         /\ s = [i \in DOMAIN s |-> s[i]]
         /\ \A i \in DOMAIN s : s[i] \in Elements(s)
         /\ IsFiniteSet(DOMAIN s) /\ Cardinality(DOMAIN s) = Len(s)
<1>1. /\ Len(s) \in Nat /\ DOMAIN s = 1..Len(s)
      /\ s = [i \in DOMAIN s |-> s[i]]
  BY DEF IsSeq
<1>2. \A i \in DOMAIN s : s[i] \in Elements(s)
  BY DEF Elements
<1>3. IsFiniteSet(1..Len(s)) /\ Cardinality(1..Len(s)) = Len(s)
  BY <1>1, Interval
<1> QED
  BY <1>1, <1>2, <1>3

LEMMA NoElements == IsSeq(<<>>) /\ Len(<<>>) = 0 /\ DOMAIN <<>> = {}
BY DEF IsSeq, Elements

(* A concatenation, whatever the elements are.                             *)
LEMMA Joined ==
  ASSUME NEW s, IsSeq(s), NEW t, IsSeq(t)
  PROVE  /\ IsSeq(s \o t) /\ Len(s \o t) = Len(s) + Len(t)
         /\ \A i \in 1..Len(s) : (s \o t)[i] = s[i]
         /\ \A i \in 1..Len(t) : (s \o t)[Len(s) + i] = t[i]
         /\ Elements(s \o t) = Elements(s) \cup Elements(t)
<1> DEFINE S == Elements(s) \cup Elements(t)
           st == s \o t
<1>1. s \in Seq(S) /\ t \in Seq(S)
  <2>1. /\ Len(s) \in Nat /\ DOMAIN s = 1..Len(s)
        /\ s = [i \in DOMAIN s |-> s[i]] /\ \A i \in DOMAIN s : s[i] \in S
    BY SeqFacts
  <2>2. /\ Len(t) \in Nat /\ DOMAIN t = 1..Len(t)
        /\ t = [i \in DOMAIN t |-> t[i]] /\ \A i \in DOMAIN t : t[i] \in S
    BY SeqFacts
  <2> HIDE DEF S
  <2>3. s \in [1..Len(s) -> S] /\ t \in [1..Len(t) -> S]
    BY <2>1, <2>2
  <2> QED
    BY <2>1, <2>2, <2>3
<1> HIDE DEF S
<1>2. /\ st \in Seq(S) /\ Len(st) = Len(s) + Len(t)
      /\ Len(s) \in Nat /\ Len(t) \in Nat /\ DOMAIN st = 1..(Len(s) + Len(t))
      /\ DOMAIN s = 1..Len(s) /\ DOMAIN t = 1..Len(t)
      /\ \A i \in 1..Len(s) : st[i] = s[i]
      /\ \A i \in (Len(s) + 1)..(Len(s) + Len(t)) : st[i] = t[i - Len(s)]
  BY <1>1
<1> HIDE DEF st
<1>3. st = [i \in DOMAIN st |-> st[i]]
  BY <1>2
<1>4. \A i \in 1..Len(t) : st[Len(s) + i] = t[i]
  <2>1. ASSUME NEW i \in 1..Len(t) PROVE st[Len(s) + i] = t[i]
    <3>1. Len(s) + i \in (Len(s) + 1)..(Len(s) + Len(t)) /\ (Len(s) + i) - Len(s) = i
      BY <1>2
    <3> QED
      BY <1>2, <3>1
  <2> QED
    BY <2>1
<1>5. IsSeq(st)
  BY <1>2, <1>3, FunctionSeq
<1>6. Elements(st) = Elements(s) \cup Elements(t)
  <2>1. ASSUME NEW i \in DOMAIN st PROVE st[i] \in Elements(s) \cup Elements(t)
    <3>1. CASE i <= Len(s)
      BY <1>2, <3>1 DEF Elements
    <3>2. CASE ~(i <= Len(s))
      <4>1. i \in (Len(s) + 1)..(Len(s) + Len(t)) /\ i - Len(s) \in DOMAIN t
        BY <1>2, <3>2
      <4> QED
        BY <1>2, <4>1 DEF Elements
    <3> QED
      BY <3>1, <3>2
  <2>2. ASSUME NEW i \in DOMAIN s PROVE s[i] \in Elements(st)
    BY <1>2 DEF Elements
  <2>3. ASSUME NEW i \in DOMAIN t PROVE t[i] \in Elements(st)
    <3>1. Len(s) + i \in DOMAIN st
      BY <1>2
    <3> QED
      BY <1>2, <1>4, <3>1 DEF Elements
  <2> QED
    BY <2>1, <2>2, <2>3 DEF Elements
<1> QED
  BY <1>2, <1>4, <1>5, <1>6 DEF st

(* Every member of S at its rank.                                          *)
LEMMA AscendingFacts ==
  ASSUME NEW S, S \subseteq Nat, IsFiniteSet(S)
  PROVE  /\ IsSeq(Ascending(S)) /\ Len(Ascending(S)) = Cardinality(S)
         /\ DOMAIN Ascending(S) = 1..Cardinality(S) /\ Cardinality(S) \in Nat
         /\ \A n \in 1..Cardinality(S) : Ascending(S)[n] \in S
         /\ Elements(Ascending(S)) = S
         /\ \A m, n \in 1..Cardinality(S) :
              m < n => Ascending(S)[m] < Ascending(S)[n]
<1> DEFINE R == {p \in S \X S : p[1] <= p[2]}
           Below(x) == {y \in S : y <= x}
           A == Ascending(S)
<1>1. Orders(R, S)
  BY DEF Orders
<1>2. \A x \in S : UpTo(R, S, x) = Below(x)
  BY DEF UpTo
<1> HIDE DEF R, Below
<1>a. /\ \A x \in S : Cardinality(UpTo(R, S, x)) \in 1..Cardinality(S)
      /\ \A x, y \in S :
           Cardinality(UpTo(R, S, x)) = Cardinality(UpTo(R, S, y)) => x = y
      /\ \A n \in 1..Cardinality(S) :
           \E x \in S : Cardinality(UpTo(R, S, x)) = n
  BY ONLY IsFiniteSet(S), <1>1, RanksOnto
<1>3. /\ \A x \in S : Cardinality(Below(x)) \in 1..Cardinality(S)
      /\ \A x, y \in S : Cardinality(Below(x)) = Cardinality(Below(y)) => x = y
      /\ \A n \in 1..Cardinality(S) : \E x \in S : Cardinality(Below(x)) = n
  BY <1>2, <1>a
<1>4. Cardinality(S) \in Nat
  BY FS_CardinalityType
<1>5. /\ DOMAIN A = 1..Cardinality(S) /\ A = [n \in DOMAIN A |-> A[n]]
      /\ \A n \in 1..Cardinality(S) :
           A[n] = CHOOSE x \in S : Cardinality(Below(x)) = n
  BY DEF Ascending, Below
<1> HIDE DEF A
<1>6. \A n \in 1..Cardinality(S) : A[n] \in S /\ Cardinality(Below(A[n])) = n
  <2>1. ASSUME NEW n \in 1..Cardinality(S)
        PROVE  A[n] \in S /\ Cardinality(Below(A[n])) = n
    <3>1. \E x \in S : Cardinality(Below(x)) = n
      BY <1>3
    <3> QED
      BY <1>5, <3>1
  <2> QED
    BY <2>1
<1>7. IsSeq(A) /\ Len(A) = Cardinality(S)
  BY <1>4, <1>5, FunctionSeq
<1>8. ASSUME NEW x \in S PROVE \E n \in 1..Cardinality(S) : A[n] = x
  <2>1. Cardinality(Below(x)) \in 1..Cardinality(S)
    BY <1>3
  <2>2. A[Cardinality(Below(x))] = x
    BY <1>3, <1>6, <2>1
  <2> QED
    BY <2>1, <2>2
<1>9. Elements(A) = S
  <2>1. ASSUME NEW x \in S PROVE x \in Elements(A)
    BY <1>5, <1>8 DEF Elements
  <2>2. ASSUME NEW x \in Elements(A) PROVE x \in S
    BY <1>5, <1>6 DEF Elements
  <2> QED
    BY <2>1, <2>2
<1>10. ASSUME NEW m \in 1..Cardinality(S), NEW n \in 1..Cardinality(S), m < n
       PROVE  A[m] < A[n]
  <2>0. m # n /\ m \in Nat /\ n \in Nat
    BY <1>4, <1>10
  <2>1. A[m] \in S /\ A[n] \in S /\ A[m] \in Nat /\ A[n] \in Nat /\ A[m] # A[n]
    BY <1>6, <2>0
  <2>2. SUFFICES ASSUME A[n] <= A[m] PROVE FALSE
    BY <2>1
  <2>3. <<A[n], A[m]>> \in R
    BY <2>1, <2>2 DEF R
  <2>4. n < m
    BY <1>1, <1>2, <1>6, <2>1, <2>3, RankGrows
  <2> QED
    BY <1>4, <1>10, <2>4
<1> QED
  BY <1>4, <1>5, <1>6, <1>7, <1>9, <1>10 DEF A

(* The elements at the chosen places, in their order and no other.         *)
LEMMA SelectedFacts ==
  ASSUME NEW s, IsSeq(s), NEW places, places \subseteq DOMAIN s
  PROVE  /\ IsSeq(Selected(s, places))
         /\ Len(Selected(s, places)) = Cardinality(places)
         /\ DOMAIN Selected(s, places) = 1..Cardinality(places)
         /\ Cardinality(places) \in Nat
         /\ Elements(Selected(s, places)) = {s[i] : i \in places}
         /\ \A n \in 1..Cardinality(places) :
              /\ Ascending(places)[n] \in places
              /\ Selected(s, places)[n] = s[Ascending(places)[n]]
         /\ \A m, n \in 1..Cardinality(places) :
              m < n => Ascending(places)[m] < Ascending(places)[n]
<1> DEFINE A == Ascending(places)
           P == Selected(s, places)
<1>1. places \subseteq Nat /\ IsFiniteSet(places)
  <2>1. DOMAIN s \subseteq Nat /\ IsFiniteSet(DOMAIN s)
    BY SeqFacts
  <2> QED
    BY <2>1, FS_Subset
<1>2. /\ DOMAIN A = 1..Cardinality(places) /\ Cardinality(places) \in Nat
      /\ \A n \in 1..Cardinality(places) : A[n] \in places
      /\ Elements(A) = places
      /\ \A m, n \in 1..Cardinality(places) : m < n => A[m] < A[n]
  BY <1>1, AscendingFacts
<1> HIDE DEF A
<1>3. P = [n \in DOMAIN A |-> s[A[n]]]
  BY DEF Selected, A
<1> HIDE DEF P
<1>4. IsSeq(P) /\ Len(P) = Cardinality(places)
  BY <1>2, <1>3, FunctionSeq
<1>5. Elements(P) = {s[i] : i \in places}
  BY <1>2, <1>3 DEF Elements
<1> QED
  BY <1>2, <1>3, <1>4, <1>5 DEF A, P

(* Selecting every place changes nothing.                                  *)
LEMMA SelectedAll ==
  ASSUME NEW s, IsSeq(s), NEW places, places = DOMAIN s
  PROVE  Selected(s, places) = s
<1> DEFINE A == Ascending(places)
           n == Len(s)
<1>1. /\ n \in Nat /\ places = 1..n /\ IsFiniteSet(places)
      /\ Cardinality(places) = n /\ s = [i \in 1..n |-> s[i]]
  BY SeqFacts
<1>2. /\ DOMAIN A = 1..n
      /\ \A i \in 1..n : A[i] \in 1..n
      /\ \A i, j \in 1..n : i < j => A[i] < A[j]
  BY <1>1, AscendingFacts
<1> HIDE DEF A, n
<1>3. \A k \in Nat : k \in 1..n => A[k] >= k
  <2> DEFINE T == {k \in Nat : k \in 1..n => A[k] >= k}
  <2>1. 0 \in T
    BY <1>1
  <2>2. ASSUME NEW k \in Nat, k \in T PROVE k + 1 \in T
    <3>1. CASE k + 1 \in 1..n
      <4>1. CASE k = 0
        <5>1. A[1] \in 1..n
          BY <1>1, <1>2, <3>1, <4>1
        <5> QED
          BY <1>1, <4>1, <5>1
      <4>2. CASE k # 0
        <5>1. k \in 1..n /\ k < k + 1
          BY <1>1, <3>1, <4>2
        <5>2. A[k] < A[k + 1] /\ A[k] >= k /\ A[k] \in 1..n /\ A[k + 1] \in 1..n
          BY <1>2, <2>2, <3>1, <5>1
        <5> QED
          BY <1>1, <5>2
      <4> QED
        BY <4>1, <4>2
    <3>2. CASE k + 1 \notin 1..n
      BY <3>2
    <3> QED
      BY <3>1, <3>2
  <2> HIDE DEF T
  <2>3. Nat \subseteq T
    BY <2>1, <2>2, Induction
  <2> QED
    BY <2>3 DEF T
<1>4. \A k \in Nat : k < n => A[n - k] <= n - k
  <2> DEFINE T == {k \in Nat : k < n => A[n - k] <= n - k}
  <2>1. 0 \in T
    BY <1>1, <1>2
  <2>2. ASSUME NEW k \in Nat, k \in T PROVE k + 1 \in T
    <3>1. CASE k + 1 < n
      <4>1. /\ n - (k + 1) \in 1..n /\ n - k \in 1..n /\ n - (k + 1) < n - k
            /\ k < n
        BY <1>1, <3>1
      <4>2. /\ A[n - (k + 1)] < A[n - k] /\ A[n - k] <= n - k
            /\ A[n - k] \in 1..n /\ A[n - (k + 1)] \in 1..n
        BY <1>2, <2>2, <4>1
      <4> QED
        BY <1>1, <4>1, <4>2
    <3>2. CASE ~(k + 1 < n)
      BY <3>2
    <3> QED
      BY <3>1, <3>2
  <2> HIDE DEF T
  <2>3. Nat \subseteq T
    BY <2>1, <2>2, Induction
  <2> QED
    BY <2>3 DEF T
<1>5. ASSUME NEW i \in 1..n PROVE A[i] = i
  <2>1. /\ i \in Nat /\ n - i \in Nat /\ n - i < n /\ n - (n - i) = i
    BY <1>1
  <2>2. A[i] >= i /\ A[i] <= i /\ A[i] \in 1..n
    BY <1>2, <1>3, <1>4, <2>1
  <2> QED
    BY <1>1, <2>1, <2>2
<1>6. Selected(s, places) = [i \in DOMAIN A |-> s[A[i]]]
  BY DEF Selected, A
<1> QED
  BY <1>1, <1>2, <1>5, <1>6

(* FlattenSeq by its prefixes: its recursive function exists.              *)
LEMMA FlattenStep ==
  ASSUME NEW seqs, IsSeq(seqs), Len(seqs) # 0,
         \A i \in DOMAIN seqs : IsSeq(seqs[i])
  PROVE  \E f : /\ f = [i \in 1..Len(seqs) |->
                          IF i = 1 THEN seqs[i] ELSE f[i - 1] \o seqs[i]]
                /\ FlattenSeq(seqs) = f[Len(seqs)]
<1> DEFINE Step(f, m) == [i \in 1..m |-> IF i = 1 THEN seqs[i] ELSE f[i - 1] \o seqs[i]]
           n == Len(seqs)
           Has(m) == \E f : f = Step(f, m)
           Due(m) == m <= n => Has(m)
           T == {m \in Nat : Due(m)}
<1>1. 0 \in T
  <2>1. <<>> = Step(<<>>, 0)
    OBVIOUS
  <2> HIDE DEF Step
  <2> QED BY <2>1
<1>2. ASSUME NEW m \in Nat, m \in T PROVE m + 1 \in T
  <2>1. CASE m + 1 <= n
    <3>1. m <= n
      BY <2>1, SeqFacts
    <3>a. Has(m)
      BY <1>2, <3>1
    <3>2. PICK f : f = Step(f, m)
      BY <3>a
    <3> DEFINE g == [i \in 1..(m + 1) |-> IF i = m + 1 THEN (IF i = 1 THEN seqs[i] ELSE f[i - 1] \o seqs[i]) ELSE f[i]]
    <3>b. \A i \in 1..m : f[i] = IF i = 1 THEN seqs[i] ELSE f[i - 1] \o seqs[i]
      <4> DEFINE sf == Step(f, m)
      <4>1. \A i \in 1..m : sf[i] = IF i = 1 THEN seqs[i] ELSE f[i - 1] \o seqs[i]
        OBVIOUS
      <4>2. f = sf
        BY <3>2
      <4> HIDE DEF sf
      <4> QED BY <4>1, <4>2
    <3>3. \A i \in 1..m : g[i] = f[i] /\ f[i] = IF i = 1 THEN seqs[i] ELSE f[i - 1] \o seqs[i]
      BY <3>b
    <3>4. ASSUME NEW i \in 1..(m + 1) PROVE g[i] = IF i = 1 THEN seqs[i] ELSE g[i - 1] \o seqs[i]
      <4>1. CASE i = m + 1 
        <5>1. i = 1 \/ i - 1 \in 1..m
          BY <4>1
        <5>2. i # 1 => g[i-1] = f[i-1]
          BY <5>1, <3>3
        <5> QED BY <4>1, <5>2
      <4>2. CASE i # m + 1
        <5>1. i \in 1..m /\ (i = 1 \/ i - 1 \in 1..m)
          BY <4>2
        <5> QED BY <5>1, <3>3
      <4> QED BY <4>1, <4>2
    <3>6. g = [i \in 1..(m+1) |-> g[i]]
      OBVIOUS
    <3> HIDE DEF g
    <3>5. g = Step(g, m + 1)
      BY <3>4, <3>6
    <3> HIDE DEF Step
    <3> QED BY <3>5
  <2>2. CASE ~(m + 1 <= n)
    <3>1. Due(m + 1)
      BY <2>2
    <3> HIDE DEF Due
    <3> QED
      BY <3>1
  <2> QED BY <2>1, <2>2
<1> HIDE DEF T
<1>3. n \in Nat /\ n \in T
  BY <1>1, <1>2, Induction, SeqFacts
<1>b. Due(n)
  <2> HIDE DEF Due
  <2> QED
    BY <1>3 DEF T
<1>a. Has(n)
  <2> HIDE DEF Has
  <2> QED
    BY <1>b, <1>3
<1>4. PICK f : f = Step(f, n)
  BY <1>a
<1>5. (CHOOSE h : h = Step(h, n)) = Step((CHOOSE h : h = Step(h, n)), n)
  BY <1>4
<1>6. FlattenSeq(seqs) = (CHOOSE h : h = Step(h, n))[n]
  BY DEF FlattenSeq
<1> DEFINE F == CHOOSE h : h = Step(h, n)
<1>7. F = Step(F, n) /\ FlattenSeq(seqs) = F[n]
  BY <1>5, <1>6
<1> HIDE DEF F
<1> QED
  BY <1>7

(* What is in order within the parts and from each part to the next ones   *)
(* is in order in their concatenation.                                     *)
LEMMA FlattenOrdered ==
  ASSUME NEW seqs, IsSeq(seqs), \A i \in DOMAIN seqs : IsSeq(seqs[i]),
         NEW R,
         \A i \in DOMAIN seqs : \A j, k \in DOMAIN seqs[i] :
           j < k => <<seqs[i][j], seqs[i][k]>> \in R,
         \A h, i \in DOMAIN seqs : h < i =>
           \A x \in Elements(seqs[h]) : \A y \in Elements(seqs[i]) :
             <<x, y>> \in R
  PROVE  /\ IsSeq(FlattenSeq(seqs))
         /\ Elements(FlattenSeq(seqs)) =
              UNION {Elements(seqs[i]) : i \in DOMAIN seqs}
         /\ \A j, k \in DOMAIN FlattenSeq(seqs) :
              j < k => <<FlattenSeq(seqs)[j], FlattenSeq(seqs)[k]>> \in R
<1> DEFINE n == Len(seqs)
<1>0. n \in Nat /\ DOMAIN seqs = 1..n
  BY SeqFacts
<1>1. CASE n = 0
  <2>1. FlattenSeq(seqs) = seqs /\ DOMAIN seqs = {}
    BY <1>0, <1>1 DEF FlattenSeq
  <2> QED
    BY <2>1 DEF Elements
<1>2. CASE n # 0
  <2>1. PICK f : /\ f = [i \in 1..n |->
                           IF i = 1 THEN seqs[i] ELSE f[i - 1] \o seqs[i]]
                 /\ FlattenSeq(seqs) = f[n]
    BY <1>2, FlattenStep
  <2>2. \A i \in 1..n : f[i] = IF i = 1 THEN seqs[i] ELSE f[i - 1] \o seqs[i]
    <3> DEFINE g == [i \in 1..n |-> IF i = 1 THEN seqs[i] ELSE f[i - 1] \o seqs[i]]
    <3>1. \A i \in 1..n : g[i] = IF i = 1 THEN seqs[i] ELSE f[i - 1] \o seqs[i]
      OBVIOUS
    <3>2. f = g
      BY <2>1
    <3> HIDE DEF g
    <3> QED
      BY <3>1, <3>2
  <2> DEFINE Good(m) == /\ IsSeq(f[m])
                        /\ Elements(f[m]) = UNION {Elements(seqs[i]) : i \in 1..m}
                        /\ \A j, k \in DOMAIN f[m] :
                             j < k => <<f[m][j], f[m][k]>> \in R
             Due(m) == m \in 1..n => Good(m)
             T == {m \in Nat : Due(m)}
  <2>3. 0 \in T
    BY <1>0
  <2>4. ASSUME NEW m \in Nat, m \in T PROVE m + 1 \in T
    <3>1. SUFFICES ASSUME m + 1 \in 1..n PROVE Good(m + 1)
      <4> HIDE DEF Good
      <4> QED
        OBVIOUS
    <3>2. CASE m = 0
      <4>1. f[1] = seqs[1] /\ IsSeq(seqs[1]) /\ 1..1 = {1} /\ m + 1 = 1
        BY <1>0, <2>2, <3>1, <3>2
      <4> QED
        BY <1>0, <3>1, <4>1
    <3>3. CASE m # 0
      <4>1. /\ m \in 1..n /\ m + 1 # 1 /\ (m + 1) - 1 = m
            /\ 1..(m + 1) = (1..m) \cup {m + 1} /\ \A i \in 1..m : i < m + 1
            /\ 1..m \subseteq 1..n
        BY <1>0, <3>1, <3>3
      <4> DEFINE s == f[m]
                 t == seqs[m + 1]
                 st == f[m + 1]
      <4>2. Good(m)
        BY <2>4, <4>1
      <4>3. st = s \o t /\ IsSeq(s) /\ IsSeq(t)
        BY <1>0, <2>2, <3>1, <4>1, <4>2
      <4>4. /\ IsSeq(st)
            /\ Elements(st) = Elements(s) \cup Elements(t)
            /\ Len(st) = Len(s) + Len(t)
            /\ \A i \in 1..Len(s) : st[i] = s[i]
            /\ \A i \in 1..Len(t) : st[Len(s) + i] = t[i]
        <5> HIDE DEF s, t, st
        <5> QED
          BY <4>3, Joined
      <4>5. /\ Elements(s) = UNION {Elements(seqs[i]) : i \in 1..m}
            /\ \A j, k \in DOMAIN s : j < k => <<s[j], s[k]>> \in R
        BY <4>2
      <4>6. \A j, k \in DOMAIN t : j < k => <<t[j], t[k]>> \in R
        BY <1>0, <3>1
      <4>7. \A x \in Elements(s) : \A y \in Elements(t) : <<x, y>> \in R
        BY <1>0, <3>1, <4>1, <4>5
      <4>8. Elements(st) = UNION {Elements(seqs[i]) : i \in 1..(m + 1)}
        BY <4>1, <4>4, <4>5
      <4>9. /\ Len(s) \in Nat /\ Len(t) \in Nat
            /\ DOMAIN s = 1..Len(s) /\ DOMAIN t = 1..Len(t)
            /\ DOMAIN st = 1..(Len(s) + Len(t))
            /\ \A i \in DOMAIN s : s[i] \in Elements(s)
            /\ \A i \in DOMAIN t : t[i] \in Elements(t)
        BY <4>3, <4>4, SeqFacts
      <4> HIDE DEF s, t, st
      <4>10. ASSUME NEW j \in DOMAIN st, NEW k \in DOMAIN st, j < k
             PROVE  <<st[j], st[k]>> \in R
        <5>1. CASE k <= Len(s)
          <6>1. j \in DOMAIN s /\ k \in DOMAIN s
            BY <4>9, <4>10, <5>1
          <6> QED
            BY <4>4, <4>5, <4>9, <4>10, <6>1
        <5>2. CASE ~(k <= Len(s)) /\ j <= Len(s)
          <6>1. /\ j \in DOMAIN s /\ k - Len(s) \in DOMAIN t
                /\ Len(s) + (k - Len(s)) = k
            BY <4>9, <4>10, <5>2
          <6>2. st[j] \in Elements(s) /\ st[k] \in Elements(t)
            BY <4>4, <4>9, <6>1
          <6> QED
            BY <4>7, <6>2
        <5>3. CASE ~(j <= Len(s))
          <6>1. /\ j - Len(s) \in DOMAIN t /\ k - Len(s) \in DOMAIN t
                /\ j - Len(s) < k - Len(s)
                /\ Len(s) + (k - Len(s)) = k /\ Len(s) + (j - Len(s)) = j
            BY <4>9, <4>10, <5>3
          <6>2. st[j] = t[j - Len(s)] /\ st[k] = t[k - Len(s)]
            BY <4>4, <4>9, <6>1
          <6> QED
            BY <4>6, <6>1, <6>2
        <5>4. j <= Len(s) \/ ~(j <= Len(s))
          OBVIOUS
        <5> QED
          BY <5>1, <5>2, <5>3
      <4> QED
        BY <4>4, <4>8, <4>10 DEF st
    <3> QED
      BY <3>2, <3>3
  <2> HIDE DEF T
  <2>5. n \in T
    BY <1>0, <2>3, <2>4, Induction
  <2>6. Due(n)
    BY <2>5 DEF T
  <2>7. Good(n)
    BY <1>0, <1>2, <2>6
  <2> QED
    BY <1>0, <2>1, <2>7
<1> QED
  BY <1>1, <1>2

(* A concatenation has the elements of its parts and no other.             *)
LEMMA FlattenFacts ==
  ASSUME NEW seqs, IsSeq(seqs), \A i \in DOMAIN seqs : IsSeq(seqs[i])
  PROVE  /\ IsSeq(FlattenSeq(seqs))
         /\ Elements(FlattenSeq(seqs)) =
              UNION {Elements(seqs[i]) : i \in DOMAIN seqs}
<1> DEFINE All == UNION {Elements(seqs[i]) : i \in DOMAIN seqs}
           R == All \X All
<1>1. \A i \in DOMAIN seqs : \A j \in DOMAIN seqs[i] : seqs[i][j] \in All
  BY DEF Elements
<1>2. \A i \in DOMAIN seqs : \A j, k \in DOMAIN seqs[i] :
        j < k => <<seqs[i][j], seqs[i][k]>> \in R
  BY <1>1
<1>3. \A h, i \in DOMAIN seqs : h < i =>
        \A x \in Elements(seqs[h]) : \A y \in Elements(seqs[i]) :
          <<x, y>> \in R
  OBVIOUS
<1> HIDE DEF R
<1> QED
  BY <1>2, <1>3, FlattenOrdered

(* A prefix: all of it where it is short enough.                           *)
LEMMA CutFacts ==
  ASSUME NEW s, IsSeq(s), NEW bound \in Nat
  PROVE  /\ IsSeq(Cut(s, bound)) /\ Elements(Cut(s, bound)) \subseteq Elements(s)
         /\ Len(Cut(s, bound)) <= Len(s) /\ Len(Cut(s, bound)) <= bound
         /\ \A i \in DOMAIN Cut(s, bound) : Cut(s, bound)[i] = s[i]
         /\ Len(s) <= bound => Cut(s, bound) = s
<1> DEFINE m == IF bound < Len(s) THEN bound ELSE Len(s)
           C == Cut(s, bound)
<1>1. /\ Len(s) \in Nat /\ DOMAIN s = 1..Len(s)
      /\ s = [i \in DOMAIN s |-> s[i]]
      /\ \A i \in DOMAIN s : s[i] \in Elements(s)
  BY SeqFacts
<1>2. C = SubSeq(s, 1, m)
  BY DEF Cut
<1>3. /\ m \in Nat /\ m <= Len(s) /\ m <= bound /\ 1..m \subseteq 1..Len(s)
      /\ Len(s) <= bound => m = Len(s)
  BY <1>1
<1>4. s \in Seq(Elements(s))
  BY DEF IsSeq
<1> HIDE DEF m, C
<1>5. C \in [1..m -> Elements(s)] /\ \A i \in 1..m : C[i] = s[i]
  <2>1. C \in Seq(Elements(s)) /\ Len(C) = m
    BY <1>1, <1>2, <1>3, <1>4
  <2>2. ASSUME NEW i \in 1..m PROVE C[i] = s[i]
    <3>1. 1 + i - 1 = i /\ i \in 1..Len(s) /\ m = 1 + m - 1
      BY <1>3
    <3> QED
      BY <1>1, <1>2, <1>3, <1>4, <3>1
  <2> QED
    BY <2>1, <2>2
<1>6. DOMAIN C = 1..m /\ C = [i \in DOMAIN C |-> C[i]]
  BY <1>5
<1>7. IsSeq(C) /\ Len(C) = m
  BY <1>3, <1>6, FunctionSeq
<1>8. Elements(C) \subseteq Elements(s)
  BY <1>5, <1>6 DEF Elements
<1>9. Len(s) <= bound => C = s
  BY <1>1, <1>3, <1>5, <1>6
<1> QED
  BY <1>3, <1>5, <1>6, <1>7, <1>8, <1>9 DEF C

(* A sorted list is as long as the list.                                   *)
LEMMA SortedSeq ==
  ASSUME NEW s, IsSeq(s), NEW before
  PROVE  IsSeq(Sorted(s, before)) /\ Len(Sorted(s, before)) = Len(s)
<1> DEFINE S == Sorted(s, before)
<1>1. DOMAIN S = DOMAIN s /\ S = [n \in DOMAIN S |-> S[n]]
  BY DEF Sorted
<1> HIDE DEF S
<1>2. IsSeq(S) /\ Len(S) = Len(s)
  BY <1>1, SeqFacts, FunctionSeq
<1> QED
  BY <1>2 DEF S

(* Mapped over a list.                                                     *)
LEMMA MappedSeq ==
  ASSUME NEW s, IsSeq(s), NEW t, DOMAIN t = DOMAIN s, t = [i \in DOMAIN t |-> t[i]]
  PROVE  IsSeq(t) /\ Len(t) = Len(s)
BY SeqFacts, FunctionSeq

LEMMA OneElement ==
  ASSUME NEW x
  PROVE  /\ IsSeq(<<x>>) /\ Len(<<x>>) = 1 /\ DOMAIN <<x>> = {1}
         /\ <<x>>[1] = x /\ Elements(<<x>>) = {x}
<1>1. Elements(<<x>>) = {x}
  BY DEF Elements
<1> QED
  BY <1>1 DEF IsSeq

-----------------------------------------------------------------------------
(* Plans.                                                                  *)

LEMMA ResolvedServices ==
  ASSUME NEW t, Parsed(t), NEW arn
  PROVE  /\ IsSeq(ResolveAlarm(t, arn))
         /\ \A i \in DOMAIN ResolveAlarm(t, arn) :
              \E j \in DOMAIN t.services :
                /\ ResolveAlarm(t, arn)[i] = t.services[j]
                /\ t.services[j].key \in MappedKeys(t, arn)
         /\ {ResolveAlarm(t, arn)[i].key : i \in DOMAIN ResolveAlarm(t, arn)}
              = Keys(t.services) \cap MappedKeys(t, arn)
<1> DEFINE s == t.services
           places == {i \in DOMAIN s : s[i].key \in MappedKeys(t, arn)}
           R == ResolveAlarm(t, arn)
<1>1. IsSeq(s) /\ places \subseteq DOMAIN s
  BY DEF Parsed
<1>2. R = Selected(s, places)
  BY DEF ResolveAlarm
<1> HIDE DEF R
<1>3. /\ IsSeq(R) /\ Elements(R) = {s[i] : i \in places}
  BY <1>1, <1>2, SelectedFacts
<1>4. \A i \in DOMAIN R : \E j \in places : R[i] = s[j]
  BY <1>3 DEF Elements
<1>5. \A j \in places : \E i \in DOMAIN R : R[i] = s[j]
  BY <1>3 DEF Elements
<1>6. {R[i].key : i \in DOMAIN R} = Keys(s) \cap MappedKeys(t, arn)
  BY <1>4, <1>5 DEF Keys
<1> QED
  BY <1>3, <1>4, <1>6 DEF R

(* What a call of a topology may be: of a service, and needing only what   *)
(* is in the allowlist.                                                    *)
Allowed(t, call) == \A n \in call.needs : IsAllowed(t, n[1], n[2])

LEMMA CallsForFacts ==
  ASSUME NEW t, Parsed(t), NEW j \in DOMAIN t.services,
         NEW c \in CollectorNames \ {"all_pilo_services"}
  PROVE  /\ IsSeq(CallsFor(c, t.services[j]))
         /\ \A k \in DOMAIN CallsFor(c, t.services[j]) :
              /\ CallsFor(c, t.services[j])[k].service = t.services[j].key
              /\ Allowed(t, CallsFor(c, t.services[j])[k])
              /\ CallsFor(c, t.services[j])[k].source \in Elements(Sources)
              /\ CallsFor(c, t.services[j])[k].source
                   # "ecs.describe_services.all_pilo"
              /\ CallsFor(c, t.services[j])[k].source = "github.deployments"
                   => c = "recent_github_deployments"
<1> DEFINE s == t.services[j]
           Calls == CallsFor(c, s)
           Fine(call) == /\ call.service = s.key /\ Allowed(t, call)
                         /\ call.source \in Elements(Sources)
                         /\ call.source # "ecs.describe_services.all_pilo"
                         /\ call.source = "github.deployments"
                              => c = "recent_github_deployments"
           Reading == Elements(Sources) \ {"ecs.describe_services.all_pilo",
                                           "github.deployments"}
<1>0. /\ \A f \in Lists : IsSeq(s[f])
      /\ \A f \in Lists : \A i \in DOMAIN s[f] : s[f][i] \in ListedIn(t, f)
      /\ \A f \in Names : s[f] \in NamedIn(t, f)
  BY DEF Parsed, ListedIn, NamedIn, Elements
<1>1. \A source \in Reading : Fine(EcsCall(source, s))
  BY <1>0 DEF EcsCall, Allowed, IsAllowed, AllowedResources, Names
<1>2. \A source \in Reading :
        /\ \A i \in DOMAIN s.log_groups :
             Fine(Call(source, s, "log_group", s.log_groups[i]))
        /\ \A i \in DOMAIN s.target_groups :
             Fine(Call(source, s, "target_group", s.target_groups[i]))
        /\ \A i \in DOMAIN s.rds_instances :
             Fine(Call(source, s, "rds_instance", s.rds_instances[i]))
  BY <1>0 DEF Call, Allowed, IsAllowed, AllowedResources, Names, Lists
<1>3. \A source \in {"ecs.describe_services", "ecs.describe_tasks",
                     "elbv2.describe_target_health", "logs.filter_log_events",
                     "rds.describe_db_instances"} :
        source \in Reading
  BY DEF Sources, Elements
<1>4. /\ IsSeq(s.log_groups) /\ IsSeq(s.target_groups) /\ IsSeq(s.rds_instances)
  BY <1>0 DEF Lists
<1>a. c = "recent_github_deployments" =>
        Fine(Call("github.deployments", s, "github_repository", s.github_repository))
  <2>1. "github.deployments" \in Elements(Sources)
    BY DEF Sources, Elements
  <2> QED
    BY <1>0, <2>1 DEF Call, Allowed, IsAllowed, AllowedResources, Names
<1> HIDE DEF s, Fine, Reading
<1> SUFFICES IsSeq(Calls) /\ \A k \in DOMAIN Calls : Fine(Calls[k])
  BY DEF s, Fine
<1>5. CASE c = "alarm_target_ecs"
  <2>1. Calls = <<EcsCall("ecs.describe_services", s)>>
    BY <1>5 DEF CallsFor
  <2>2. Fine(EcsCall("ecs.describe_services", s))
    BY <1>1, <1>3
  <2> HIDE DEF Calls
  <2> QED
    BY <2>1, <2>2, OneElement
<1>6. CASE c = "stopped_tasks_and_logs"
  <2> DEFINE first == <<EcsCall("ecs.describe_tasks", s)>>
             logs == [i \in DOMAIN s.log_groups |->
                        Call("logs.filter_log_events", s, "log_group",
                             s.log_groups[i])]
  <2>1. Calls = first \o logs
    BY <1>6 DEF CallsFor
  <2>2. /\ IsSeq(first) /\ Elements(first) = {EcsCall("ecs.describe_tasks", s)}
    BY OneElement
  <2>3. Fine(EcsCall("ecs.describe_tasks", s))
    BY <1>1, <1>3
  <2>4. /\ DOMAIN logs = DOMAIN s.log_groups /\ logs = [i \in DOMAIN logs |-> logs[i]]
        /\ \A i \in DOMAIN logs : Fine(logs[i])
    BY <1>2, <1>3
  <2> HIDE DEF Calls, first, logs
  <2>5. IsSeq(logs)
    BY <1>4, <2>4, MappedSeq
  <2>6. \A x \in Elements(logs) : Fine(x)
    BY <2>4 DEF Elements
  <2>7. IsSeq(Calls) /\ \A x \in Elements(Calls) : Fine(x)
    BY <2>1, <2>2, <2>3, <2>5, <2>6, Joined
  <2> QED
    BY <2>7 DEF Elements
<1>7. CASE c = "alb_target_health"
  <2>1. Calls = [i \in DOMAIN s.target_groups |->
                   Call("elbv2.describe_target_health", s, "target_group",
                        s.target_groups[i])]
    BY <1>7 DEF CallsFor
  <2>2. /\ DOMAIN Calls = DOMAIN s.target_groups
        /\ Calls = [i \in DOMAIN Calls |-> Calls[i]]
        /\ \A i \in DOMAIN Calls : Fine(Calls[i])
    <3> HIDE DEF Calls
    <3> QED
      BY <1>2, <1>3, <2>1
  <2> HIDE DEF Calls
  <2> QED
    BY <1>4, <2>2, MappedSeq
<1>8. CASE c = "recent_github_deployments"
  <2>1. Calls = <<Call("github.deployments", s, "github_repository",
                       s.github_repository)>>
    BY <1>8 DEF CallsFor
  <2>2. Fine(Call("github.deployments", s, "github_repository",
                  s.github_repository))
    BY <1>8, <1>a
  <2> HIDE DEF Calls
  <2> QED
    BY <2>1, <2>2, OneElement
<1>9. CASE c = "rds_basic_status"
  <2>1. Calls = [i \in DOMAIN s.rds_instances |->
                   Call("rds.describe_db_instances", s, "rds_instance",
                        s.rds_instances[i])]
    BY <1>9 DEF CallsFor
  <2>2. /\ DOMAIN Calls = DOMAIN s.rds_instances
        /\ Calls = [i \in DOMAIN Calls |-> Calls[i]]
        /\ \A i \in DOMAIN Calls : Fine(Calls[i])
    <3> HIDE DEF Calls
    <3> QED
      BY <1>2, <1>3, <2>1
  <2> HIDE DEF Calls
  <2> QED
    BY <1>4, <2>2, MappedSeq
<1>10. c \in {"alarm_target_ecs", "stopped_tasks_and_logs", "alb_target_health",
              "recent_github_deployments", "rds_basic_status"}
  BY DEF CollectorNames, Collectors, Elements
<1> QED
  BY <1>5, <1>6, <1>7, <1>8, <1>9, <1>10

(* The calls of OncePerResource read different resources.                  *)
LEMMA OnceFacts ==
  ASSUME NEW calls, IsSeq(calls)
  PROVE  /\ IsSeq(OncePerResource(calls))
         /\ Elements(OncePerResource(calls)) \subseteq Elements(calls)
         /\ \A k, m \in DOMAIN OncePerResource(calls) : k # m =>
              OncePerResource(calls)[k].on # OncePerResource(calls)[m].on
<1> DEFINE places == {i \in DOMAIN calls :
                        \A j \in 1..(i - 1) : calls[j].on # calls[i].on}
           O == OncePerResource(calls)
           A == Ascending(places)
<1>1. O = Selected(calls, places) /\ places \subseteq DOMAIN calls
  BY DEF OncePerResource
<1>2. /\ IsSeq(O) /\ DOMAIN O = 1..Cardinality(places)
      /\ Cardinality(places) \in Nat
      /\ Elements(O) = {calls[i] : i \in places}
      /\ \A n \in DOMAIN O : A[n] \in places /\ O[n] = calls[A[n]]
      /\ \A m, n \in DOMAIN O : m < n => A[m] < A[n]
  <2> HIDE DEF O, places
  <2>1. /\ IsSeq(O) /\ DOMAIN O = 1..Cardinality(places)
        /\ Cardinality(places) \in Nat
        /\ Elements(O) = {calls[i] : i \in places}
    BY <1>1, SelectedFacts
  <2>2. /\ \A n \in 1..Cardinality(places) : A[n] \in places /\ O[n] = calls[A[n]]
        /\ \A m, n \in 1..Cardinality(places) : m < n => A[m] < A[n]
    BY <1>1, SelectedFacts
  <2> QED
    BY <2>1, <2>2
<1>3. Elements(O) \subseteq Elements(calls)
  BY <1>1, <1>2 DEF Elements
<1>4. /\ Len(calls) \in Nat /\ DOMAIN calls = 1..Len(calls)
  BY SeqFacts
<1>5. ASSUME NEW i \in places, NEW j \in places, i < j
      PROVE  calls[i].on # calls[j].on
  <2>1. i \in 1..(j - 1)
    BY <1>4, <1>5
  <2> QED
    BY <2>1
<1> HIDE DEF A, O, places
<1>6. ASSUME NEW k \in DOMAIN O, NEW m \in DOMAIN O, k # m
      PROVE  O[k].on # O[m].on
  <2>1. k < m \/ m < k
    BY <1>2, <1>6
  <2> QED
    BY <1>2, <1>5, <2>1
<1> QED
  BY <1>2, <1>3, <1>6 DEF O

(* Every call of a plan is allowed and, but for those of all_pilo_services, *)
(* for a service of the alarm.                                             *)
LEMMA PlanFacts ==
  ASSUME NEW t, Parsed(t), NEW arn, NEW c \in CollectorNames
  PROVE  /\ IsSeq(Plan(c, t, arn))
         /\ \A k \in DOMAIN Plan(c, t, arn) :
              /\ Allowed(t, Plan(c, t, arn)[k])
              /\ Plan(c, t, arn)[k].source \in Elements(Sources)
              /\ Plan(c, t, arn)[k].source = "ecs.describe_services.all_pilo"
                   <=> c = "all_pilo_services"
              /\ Plan(c, t, arn)[k].source = "github.deployments"
                   => c = "recent_github_deployments"
              /\ c # "all_pilo_services" =>
                   Plan(c, t, arn)[k].service
                     \in Keys(t.services) \cap MappedKeys(t, arn)
<1> DEFINE P == Plan(c, t, arn)
           Fine(call) ==
             /\ Allowed(t, call) /\ call.source \in Elements(Sources)
             /\ call.source = "ecs.describe_services.all_pilo"
                  <=> c = "all_pilo_services"
             /\ call.source = "github.deployments"
                  => c = "recent_github_deployments"
             /\ c # "all_pilo_services" =>
                  call.service \in Keys(t.services) \cap MappedKeys(t, arn)
<1> SUFFICES IsSeq(P) /\ \A x \in Elements(P) : Fine(x)
  BY DEF Elements
<1>1. CASE c = "all_pilo_services"
  <2> DEFINE calls == [i \in DOMAIN t.services |->
                         ClusterCall(t, t.services[i].ecs_cluster)]
  <2>1. P = OncePerResource(calls)
    BY <1>1 DEF Plan
  <2>2. IsSeq(t.services)
    BY DEF Parsed
  <2>3. DOMAIN calls = DOMAIN t.services /\ calls = [i \in DOMAIN calls |-> calls[i]]
    OBVIOUS
  <2>4. ASSUME NEW j \in DOMAIN t.services PROVE Fine(calls[j])
    <3> DEFINE cluster == t.services[j].ecs_cluster
               S == ServicesIn(t, cluster)
               places == {i \in DOMAIN t.services :
                            t.services[i].ecs_cluster = cluster}
    <3>1. Elements(S) = {t.services[i] : i \in places}
      <4>1. S = Selected(t.services, places) /\ places \subseteq DOMAIN t.services
        BY DEF ServicesIn
      <4> HIDE DEF places, S
      <4> QED
        BY <2>2, <4>1, SelectedFacts
    <3>2. \A i \in DOMAIN S : \E k \in DOMAIN t.services : S[i] = t.services[k]
      BY <3>1 DEF Elements
    <3>3. \A i \in DOMAIN S : S[i].ecs_service \in NamedIn(t, "ecs_service")
      BY <3>2 DEF NamedIn
    <3>4. cluster \in NamedIn(t, "ecs_cluster")
      BY DEF NamedIn
    <3> DEFINE x == ClusterCall(t, cluster)
    <3>5. /\ x.source = "ecs.describe_services.all_pilo"
          /\ x.needs = {<<"ecs_cluster", cluster>>} \cup
               {<<"ecs_service", S[i].ecs_service>> : i \in DOMAIN S}
      BY DEF ClusterCall
    <3>6. calls[j] = x
      OBVIOUS
    <3>7. "ecs.describe_services.all_pilo" \in Elements(Sources)
      BY DEF Elements, Sources
    <3> HIDE DEF S, x, cluster
    <3>8. Allowed(t, x)
      BY <3>3, <3>4, <3>5 DEF Allowed, IsAllowed, AllowedResources
    <3> HIDE DEF calls
    <3> QED
      BY <1>1, <3>5, <3>6, <3>7, <3>8
  <2> HIDE DEF P, calls, Fine
  <2>5. IsSeq(calls)
    BY <2>2, <2>3, MappedSeq
  <2>6. IsSeq(P) /\ Elements(P) \subseteq Elements(calls)
    BY <2>1, <2>5, OnceFacts
  <2> QED
    BY <2>3, <2>4, <2>6 DEF Elements
<1>2. CASE c # "all_pilo_services"
  <2> DEFINE ss == ResolveAlarm(t, arn)
             parts == [i \in DOMAIN ss |-> CallsFor(c, ss[i])]
             calls == FlattenSeq(parts)
  <2>1. P = calls \/ P = OncePerResource(calls)
    BY <1>2 DEF Plan
  <2>2. /\ IsSeq(ss)
        /\ \A i \in DOMAIN ss : \E j \in DOMAIN t.services :
             /\ ss[i] = t.services[j]
             /\ t.services[j].key \in MappedKeys(t, arn)
    BY ResolvedServices
  <2>3. /\ DOMAIN parts = DOMAIN ss /\ parts = [i \in DOMAIN parts |-> parts[i]]
        /\ \A i \in DOMAIN parts : parts[i] = CallsFor(c, ss[i])
    OBVIOUS
  <2> HIDE DEF ss, parts, P
  <2>4. ASSUME NEW i \in DOMAIN ss
        PROVE  IsSeq(CallsFor(c, ss[i]))
               /\ \A x \in Elements(CallsFor(c, ss[i])) : Fine(x)
    <3>1. PICK j \in DOMAIN t.services :
            /\ ss[i] = t.services[j]
            /\ t.services[j].key \in MappedKeys(t, arn)
      BY <2>2
    <3> DEFINE C == CallsFor(c, t.services[j])
    <3>2. /\ IsSeq(C)
          /\ \A k \in DOMAIN C :
              /\ C[k].service = t.services[j].key /\ Allowed(t, C[k])
              /\ C[k].source \in Elements(Sources)
              /\ C[k].source # "ecs.describe_services.all_pilo"
              /\ C[k].source = "github.deployments"
                   => c = "recent_github_deployments"
      BY <1>2, CallsForFacts
    <3>3. t.services[j].key \in Keys(t.services) \cap MappedKeys(t, arn)
      BY <3>1 DEF Keys
    <3> HIDE DEF C
    <3>4. IsSeq(C) /\ \A x \in Elements(C) : Fine(x)
      BY <1>2, <3>2, <3>3 DEF Elements
    <3> QED
      BY <3>1, <3>4 DEF C
  <2> HIDE DEF Fine
  <2>5. IsSeq(parts) /\ \A i \in DOMAIN parts : IsSeq(parts[i])
    BY <2>2, <2>3, <2>4, MappedSeq
  <2>6. IsSeq(calls) /\ Elements(calls) = UNION {Elements(parts[i]) : i \in DOMAIN parts}
    BY <2>5, FlattenFacts
  <2>7. \A x \in Elements(calls) : Fine(x)
    BY <2>3, <2>4, <2>6
  <2> HIDE DEF calls
  <2>8. CASE P = calls
    BY <2>6, <2>7, <2>8
  <2>9. CASE P = OncePerResource(calls)
    BY <2>6, <2>7, <2>9, OnceFacts
  <2> QED
    BY <2>1, <2>8, <2>9
<1> QED
  BY <1>1, <1>2

(* A sort by an order of positions moves the elements and changes none.    *)
Reached(s, before) ==
  {p \in (DOMAIN s) \X (DOMAIN s) :
     <<p[1], p[2]>> \in before
       \/ (p[1] <= p[2] /\ <<p[2], p[1]>> \notin before)}

LEMMA SortedFacts ==
  ASSUME NEW s, IsSeq(s), NEW before, Orders(Reached(s, before), DOMAIN s)
  PROVE  \E moved \in [DOMAIN s -> DOMAIN s] :
           /\ \A n \in DOMAIN s : Sorted(s, before)[n] = s[moved[n]]
           /\ \A m, n \in DOMAIN s : moved[m] = moved[n] => m = n
<1> DEFINE D == DOMAIN s
           R == Reached(s, before)
           place(i) == Cardinality({j \in D :
                         <<j, i>> \in before \/ (j <= i /\ <<i, j>> \notin before)})
           moved == [n \in D |-> CHOOSE i \in D : place(i) = n]
<1>1. /\ IsFiniteSet(D) /\ Cardinality(D) = Len(s) /\ D = 1..Len(s)
  BY SeqFacts
<1>2. \A i \in D : UpTo(R, D, i) =
        {j \in D : <<j, i>> \in before \/ (j <= i /\ <<i, j>> \notin before)}
  BY DEF UpTo, Reached
<1>3. \A i \in D : place(i) = Cardinality(UpTo(R, D, i))
  BY <1>2
<1>4. \A n \in D : Sorted(s, before)[n] = s[moved[n]]
  BY DEF Sorted
<1> HIDE DEF place, R
<1>5. \A n \in 1..Cardinality(D) : \E i \in D : Cardinality(UpTo(R, D, i)) = n
  BY <1>1, RanksOnto DEF R
<1>6. \A n \in D : moved[n] \in D /\ place(moved[n]) = n
  <2>1. ASSUME NEW n \in D PROVE moved[n] \in D /\ place(moved[n]) = n
    <3>1. \E i \in D : place(i) = n
      BY <1>1, <1>3, <1>5
    <3> QED
      BY <3>1
  <2> QED
    BY <2>1
<1>7. moved \in [D -> D]
  BY <1>6
<1>8. \A m, n \in D : moved[m] = moved[n] => m = n
  BY <1>6
<1> HIDE DEF moved
<1> QED
  BY <1>4, <1>7, <1>8

LEMMA SortedByTime ==
  ASSUME NEW s, IsSeq(s), \A n \in DOMAIN s : s[n].time \in Nat
  PROVE  /\ IsSeq(ByTime(s)) /\ Elements(ByTime(s)) \subseteq Elements(s)
<1> DEFINE before == Earlier(s)
           B == ByTime(s)
<1>1. DOMAIN s \subseteq Nat
  BY SeqFacts
<1>2. \A i, j \in DOMAIN s : <<i, j>> \in before <=> s[i].time < s[j].time
  BY DEF Earlier
<1>3. \A i, j \in DOMAIN s : <<i, j>> \in Reached(s, before) <=>
        (s[i].time < s[j].time \/ (i <= j /\ ~(s[j].time < s[i].time)))
  BY <1>2 DEF Reached
<1>4. Orders(Reached(s, before), DOMAIN s)
  BY <1>1, <1>3 DEF Orders
<1>5. PICK moved \in [DOMAIN s -> DOMAIN s] :
        \A n \in DOMAIN s : Sorted(s, before)[n] = s[moved[n]]
  BY <1>4, SortedFacts
<1>6. B = Sorted(s, before)
  BY DEF ByTime
<1>7. IsSeq(B) /\ Len(B) = Len(s)
  BY <1>6, SortedSeq
<1>8. DOMAIN B = DOMAIN s
  BY <1>7, SeqFacts
<1> HIDE DEF B, before
<1>9. \A n \in DOMAIN B : B[n] \in Elements(s)
  BY <1>5, <1>6, <1>8 DEF Elements
<1> QED
  BY <1>7, <1>9 DEF Elements, B

-----------------------------------------------------------------------------
(* The IDs of the Evidence.                                                *)

(* A list of all of S in a strict order R: the n-th has n elements of S    *)
(* before it, itself included.                                             *)
LEMMA OrderedRanks ==
  ASSUME NEW S, IsFiniteSet(S), NEW R, NEW order, IsSeq(order),
         Elements(order) = S,
         \A x, y \in S : <<x, y>> \in R => x # y /\ <<y, x>> \notin R,
         \A m, n \in DOMAIN order : m < n => <<order[m], order[n]>> \in R
  PROVE  /\ Len(order) = Cardinality(S)
         /\ \A n \in DOMAIN order :
              Cardinality({y \in S : y = order[n] \/ <<y, order[n]>> \in R}) = n
<1>1. /\ Len(order) \in Nat /\ DOMAIN order = 1..Len(order)
      /\ order = [i \in DOMAIN order |-> order[i]]
      /\ \A i \in DOMAIN order : order[i] \in S
  BY SeqFacts
<1>2. ASSUME NEW m \in DOMAIN order, NEW n \in DOMAIN order, order[m] = order[n]
      PROVE  m = n
  <2>1. m \in Nat /\ n \in Nat
    BY <1>1
  <2>2. ~(m < n) /\ ~(n < m)
    BY <1>1, <1>2
  <2> QED
    BY <2>1, <2>2
<1>3. ASSUME NEW n \in 0..Len(order), NEW T, T = {order[m] : m \in 1..n}
      PROVE  IsFiniteSet(T) /\ Cardinality(T) = n
  <2> DEFINE f == [m \in 1..n |-> order[m]]
  <2>1. n \in Nat /\ 1..n \subseteq DOMAIN order
    BY <1>1
  <2>2. f \in Bijection(1..n, T)
    <3>1. f \in [1..n -> T]
      BY <1>3
    <3>2. \A a, b \in 1..n : f[a] = f[b] => a = b
      BY <1>2, <2>1
    <3>3. \A x \in T : \E a \in 1..n : f[a] = x
      BY <1>3
    <3> HIDE DEF f
    <3> QED
      BY <3>1, <3>2, <3>3 DEF Bijection, Injection, Surjection, IsInjective
  <2>3. ExistsBijection(1..n, T)
    BY <2>2 DEF ExistsBijection
  <2>4. IsFiniteSet(1..n) /\ Cardinality(1..n) = n
    BY <2>1, Interval
  <2> QED
    BY <2>3, <2>4, FS_Bijection
<1>4. Len(order) = Cardinality(S)
  <2>1. S = {order[m] : m \in 1..Len(order)}
    BY <1>1 DEF Elements
  <2>2. Len(order) \in 0..Len(order)
    BY <1>1
  <2> QED
    BY <1>3, <2>1, <2>2
<1>5. ASSUME NEW n \in DOMAIN order
      PROVE  Cardinality({y \in S : y = order[n] \/ <<y, order[n]>> \in R}) = n
  <2> DEFINE T == {y \in S : y = order[n] \/ <<y, order[n]>> \in R}
  <2>1. n \in 0..Len(order) /\ n \in 1..n /\ 1..n \subseteq DOMAIN order /\ n \in Nat
    BY <1>1
  <2>2. ASSUME NEW m \in 1..n PROVE order[m] \in T
    <3>1. m \in DOMAIN order /\ m \in Nat /\ (m = n \/ m < n)
      BY <2>1
    <3> QED
      BY <1>1, <3>1
  <2>3. ASSUME NEW y \in T PROVE \E m \in 1..n : y = order[m]
    <3>1. PICK m \in DOMAIN order : y = order[m]
      BY DEF Elements
    <3>2. ~(n < m)
      <4>1. SUFFICES ASSUME n < m PROVE FALSE
        OBVIOUS
      <4>2. <<order[n], y>> \in R /\ order[n] \in S /\ y \in S
        BY <1>1, <3>1, <4>1
      <4> QED
        BY <4>2
    <3>3. m \in 1..n
      BY <1>1, <2>1, <3>2
    <3> QED
      BY <3>1, <3>3
  <2> HIDE DEF T
  <2>4. T = {order[m] : m \in 1..n}
    BY <2>2, <2>3
  <2>5. Cardinality(T) = n
    BY <1>3, <2>1, <2>4
  <2> QED
    BY <2>5 DEF T
<1> QED
  BY <1>4, <1>5

(* The rows by the rank of their source and then by their place.           *)
Before(rows) ==
  {p \in (DOMAIN rows) \X (DOMAIN rows) :
     \/ Rank(rows[p[1]]) < Rank(rows[p[2]])
     \/ Rank(rows[p[1]]) = Rank(rows[p[2]]) /\ p[1] < p[2]}

LEMMA RankFacts ==
  ASSUME NEW row, row.source \in Elements(Sources)
  PROVE  /\ Rank(row) \in 1..7 /\ Sources[Rank(row)] = row.source
         /\ \A n \in 1..7 : Sources[n] = row.source => n = Rank(row)
<1>1. DOMAIN Sources = 1..7
  BY DEF Sources
<1>2. \A m, n \in 1..7 : Sources[m] = Sources[n] => m = n
  <2>1. 1..7 = {1, 2, 3, 4, 5, 6, 7}
    OBVIOUS
  <2> QED
    BY <2>1 DEF Sources
<1>3. \E n \in 1..7 : Sources[n] = row.source
  BY <1>1 DEF Elements
<1> QED
  BY <1>1, <1>2, <1>3 DEF Rank

LEMMA AllocatedByRank ==
  ASSUME NEW rows, IsSeq(rows), \A i \in DOMAIN rows : rows[i].source \in Elements(Sources)
  PROVE  /\ Len(AllocateEvidenceIds(rows)) = Len(rows)
         /\ \A j \in DOMAIN rows :
              LET n == Cardinality({i \in DOMAIN rows :
                         \/ Rank(rows[i]) < Rank(rows[j])
                         \/ Rank(rows[i]) = Rank(rows[j]) /\ i <= j})
              IN AllocateEvidenceIds(rows)[n] = [id |-> <<"E", n>>, item |-> rows[j]]
<1> DEFINE D == DOMAIN rows
           own(n) == {i \in D : rows[i].source = Sources[n]}
           places == [n \in DOMAIN Sources |-> PlacesOf(rows, Sources[n])]
           order == FlattenSeq(places)
           R == Before(rows)
           A == AllocateEvidenceIds(rows)
<1>1. /\ IsFiniteSet(D) /\ D \subseteq Nat /\ Cardinality(D) = Len(rows)
      /\ DOMAIN Sources = 1..7 /\ D = 1..Len(rows)
  BY SeqFacts DEF Sources
<1>2. ASSUME NEW n \in 1..7
      PROVE  /\ IsSeq(places[n]) /\ Elements(places[n]) = own(n)
             /\ \A j, k \in DOMAIN places[n] : j < k => places[n][j] < places[n][k]
  <2> DEFINE mine == own(n)
  <2>1. IsFiniteSet(mine) /\ mine \subseteq Nat
    BY <1>1, FS_Subset
  <2>2. places[n] = Ascending(mine)
    BY <1>1 DEF PlacesOf
  <2> HIDE DEF mine, places
  <2> QED
    BY <2>1, <2>2, AscendingFacts DEF mine
<1>3. \A n \in 1..7 : \A i \in own(n) : i \in D /\ Rank(rows[i]) = n
  BY RankFacts
<1>4. \A i \in D : Rank(rows[i]) \in 1..7 /\ i \in own(Rank(rows[i]))
  BY RankFacts
<1>5. IsSeq(places) /\ DOMAIN places = 1..7
  <2>1. DOMAIN places = 1..7 /\ places = [n \in DOMAIN places |-> places[n]]
    BY <1>1
  <2> HIDE DEF places
  <2> QED
    BY <2>1, FunctionSeq
<1> HIDE DEF places, own
<1>6. \A i \in DOMAIN places : \A j, k \in DOMAIN places[i] :
        j < k => <<places[i][j], places[i][k]>> \in R
  <2> SUFFICES ASSUME NEW i \in 1..7, NEW j \in DOMAIN places[i],
                      NEW k \in DOMAIN places[i], j < k
               PROVE  <<places[i][j], places[i][k]>> \in R
    BY <1>5
  <2>1. places[i][j] \in own(i) /\ places[i][k] \in own(i) /\ places[i][j] < places[i][k]
    BY <1>2 DEF Elements
  <2> QED
    BY <1>3, <2>1 DEF Before
<1>7. \A h, i \in DOMAIN places : h < i =>
        \A x \in Elements(places[h]) : \A y \in Elements(places[i]) : <<x, y>> \in R
  BY <1>2, <1>3, <1>5 DEF Before
<1>8. /\ IsSeq(order)
      /\ Elements(order) = UNION {Elements(places[i]) : i \in DOMAIN places}
      /\ \A j, k \in DOMAIN order : j < k => <<order[j], order[k]>> \in R
  <2> HIDE DEF R
  <2> QED
    BY <1>2, <1>5, <1>6, <1>7, FlattenOrdered
<1>9. Elements(order) = D
  <2>1. Elements(order) = UNION {own(n) : n \in 1..7}
    BY <1>2, <1>5, <1>8
  <2> QED
    BY <1>3, <1>4, <2>1
<1>10. \A x, y \in D : <<x, y>> \in R => x # y /\ <<y, x>> \notin R
  BY <1>1, <1>4 DEF Before
<1>11. A = [n \in DOMAIN order |-> [id |-> <<"E", n>>, item |-> rows[order[n]]]]
  BY DEF AllocateEvidenceIds, places
<1> HIDE DEF order, D
<1>12. /\ Len(order) = Cardinality(D)
       /\ \A n \in DOMAIN order :
            Cardinality({y \in D : y = order[n] \/ <<y, order[n]>> \in R}) = n
  <2> HIDE DEF R
  <2> QED
    BY <1>1, <1>8, <1>9, <1>10, OrderedRanks
<1>13. Len(A) = Len(rows)
  <2>1. DOMAIN A = DOMAIN order /\ A = [n \in DOMAIN A |-> A[n]]
    BY <1>11
  <2> HIDE DEF A
  <2>2. Len(A) = Len(order)
    BY <1>8, <2>1, MappedSeq
  <2> QED
    BY <1>1, <1>12, <2>2
<1>14. ASSUME NEW j \in D
       PROVE  LET n == Cardinality({i \in D :
                         \/ Rank(rows[i]) < Rank(rows[j])
                         \/ Rank(rows[i]) = Rank(rows[j]) /\ i <= j})
              IN A[n] = [id |-> <<"E", n>>, item |-> rows[j]]
  <2>1. PICK n \in DOMAIN order : order[n] = j
    BY <1>9 DEF Elements
  <2>2. {i \in D : \/ Rank(rows[i]) < Rank(rows[j])
                   \/ Rank(rows[i]) = Rank(rows[j]) /\ i <= j}
          = {y \in D : y = order[n] \/ <<y, order[n]>> \in R}
    <3>1. ASSUME NEW i \in D
          PROVE  (\/ Rank(rows[i]) < Rank(rows[j])
                  \/ Rank(rows[i]) = Rank(rows[j]) /\ i <= j)
                   <=> (i = j \/ <<i, j>> \in R)
      <4>1. i \in Nat /\ j \in Nat
        BY <1>1
      <4>2. (i <= j) <=> (i = j \/ i < j)
        BY <4>1
      <4>3. <<i, j>> \in R <=> \/ Rank(rows[i]) < Rank(rows[j])
                               \/ Rank(rows[i]) = Rank(rows[j]) /\ i < j
        BY DEF Before, D
      <4> HIDE DEF R
      <4> QED
        BY <4>2, <4>3
    <3> HIDE DEF R
    <3> QED
      BY <2>1, <3>1
  <2> HIDE DEF R
  <2>3. A[n] = [id |-> <<"E", n>>, item |-> rows[j]]
    BY <1>11, <2>1
  <2> HIDE DEF A
  <2> QED
    BY <1>12, <2>2, <2>3
<1> QED
  BY <1>13, <1>14 DEF D, A

-----------------------------------------------------------------------------
(* No two calls of a plan, and no two rows of an answer, are the same.     *)

(* Two calls that no row can have in common.                               *)
Differ(x, y) == x.source # y.source \/ x.service # y.service \/ x.on # y.on

OnePerResource ==
  {"all_pilo_services", "recent_github_deployments", "rds_basic_status"}

LEMMA DistinctCalls ==
  ASSUME NEW t, Parsed(t), Loadable(t), NEW j \in DOMAIN t.services,
         NEW c \in CollectorNames \ {"all_pilo_services"}
  PROVE  LET calls == CallsFor(c, t.services[j])
         IN  \A k, m \in DOMAIN calls : k < m => Differ(calls[k], calls[m])
<1> DEFINE s == t.services[j]
           Calls == CallsFor(c, s)
<1>1. /\ \A f \in Lists : IsSeq(s[f]) /\ Distinct(s[f])
  BY DEF Parsed, Loadable, ValidServices, ValidService, ValidList
<1>2. /\ IsSeq(s.log_groups) /\ IsSeq(s.target_groups) /\ IsSeq(s.rds_instances)
      /\ Distinct(s.log_groups) /\ Distinct(s.target_groups) /\ Distinct(s.rds_instances)
  BY <1>1 DEF Lists
<1>3. \A source, type, id : /\ Call(source, s, type, id).on = id
                            /\ Call(source, s, type, id).source = source
  BY DEF Call
<1>4. \A source : EcsCall(source, s).source = source
  BY DEF EcsCall
<1> HIDE DEF s
<1> SUFFICES ASSUME NEW k \in DOMAIN Calls, NEW m \in DOMAIN Calls, k < m
             PROVE  Differ(Calls[k], Calls[m])
  BY DEF s
<1>5. ASSUME NEW x, Calls = <<x>> PROVE FALSE
  <2>1. k = 1 /\ m = 1
    <3> HIDE DEF Calls
    <3> QED
      BY <1>5, OneElement
  <2> QED
    BY <2>1
<1>6. ASSUME NEW ids, NEW source, NEW type, IsSeq(ids), Distinct(ids),
             Calls = [i \in DOMAIN ids |-> Call(source, s, type, ids[i])]
      PROVE  Calls[k].on # Calls[m].on
  <2> HIDE DEF Calls
  <2>1. k \in DOMAIN ids /\ m \in DOMAIN ids /\ k # m
    <3>1. k \in DOMAIN ids /\ m \in DOMAIN ids
      BY <1>6
    <3>2. k \in Nat /\ m \in Nat
      BY <1>6, <3>1, SeqFacts
    <3> QED
      BY <3>1, <3>2
  <2>2. Calls[k].on = ids[k] /\ Calls[m].on = ids[m]
    BY <1>3, <1>6, <2>1
  <2> QED
    BY <1>6, <2>1, <2>2 DEF Distinct
<1>7. CASE c = "alarm_target_ecs"
  BY <1>5, <1>7 DEF CallsFor
<1>8. CASE c = "stopped_tasks_and_logs"
  <2> DEFINE x == EcsCall("ecs.describe_tasks", s)
             first == <<x>>
             logs == [i \in DOMAIN s.log_groups |->
                        Call("logs.filter_log_events", s, "log_group",
                             s.log_groups[i])]
  <2>1. Calls = first \o logs
    BY <1>8 DEF CallsFor
  <2>2. IsSeq(first) /\ Len(first) = 1 /\ first[1] = x
    BY OneElement
  <2>3. /\ DOMAIN logs = DOMAIN s.log_groups /\ logs = [i \in DOMAIN logs |-> logs[i]]
        /\ \A i \in DOMAIN logs : /\ logs[i].source = "logs.filter_log_events"
                                  /\ logs[i].on = s.log_groups[i]
    BY <1>3
  <2>4. x.source = "ecs.describe_tasks"
    BY <1>4
  <2> HIDE DEF Calls, first, logs, x
  <2>5. IsSeq(logs)
    BY <1>2, <2>3, MappedSeq
  <2>6. /\ IsSeq(Calls) /\ Len(Calls) = 1 + Len(logs)
        /\ \A i \in 1..1 : Calls[i] = first[i]
        /\ \A i \in 1..Len(logs) : Calls[1 + i] = logs[i]
    <3>1. /\ IsSeq(Calls) /\ Len(Calls) = Len(first) + Len(logs)
          /\ \A i \in 1..Len(first) : Calls[i] = first[i]
          /\ \A i \in 1..Len(logs) : Calls[Len(first) + i] = logs[i]
      <4>1. ASSUME NEW u, NEW v, IsSeq(u), IsSeq(v), NEW w, w = u \o v
            PROVE  /\ IsSeq(w) /\ Len(w) = Len(u) + Len(v)
                   /\ \A i \in 1..Len(u) : w[i] = u[i]
                   /\ \A i \in 1..Len(v) : w[Len(u) + i] = v[i]
        BY <4>1, Joined
      <4>2. IsSeq(first)
        BY <2>2
      <4>3. IsSeq(logs)
        BY <2>5
      <4>4. Calls = first \o logs
        BY <2>1
      <4>5. IsSeq(Calls)
        BY <4>1, <4>2, <4>3, <4>4
      <4>6. Len(Calls) = Len(first) + Len(logs)
        BY <4>1, <4>2, <4>3, <4>4
      <4>7. \A i \in 1..Len(first) : Calls[i] = first[i]
        BY <4>1, <4>2, <4>3, <4>4
      <4>8. \A i \in 1..Len(logs) : Calls[Len(first) + i] = logs[i]
        BY <4>1, <4>2, <4>3, <4>4
      <4> QED
        BY <4>5, <4>6, <4>7, <4>8
    <3> QED
      BY <2>2, <3>1
  <2>7. Len(logs) \in Nat /\ DOMAIN logs = 1..Len(logs) /\ DOMAIN Calls = 1..Len(Calls)
    BY <2>5, <2>6, SeqFacts
  <2>8. /\ m - 1 \in DOMAIN logs /\ 1 + (m - 1) = m
        /\ k # 1 => k - 1 \in DOMAIN logs /\ 1 + (k - 1) = k /\ k - 1 # m - 1
    BY <2>6, <2>7
  <2>9. Calls[m] = logs[m - 1] /\ (k # 1 => Calls[k] = logs[k - 1])
    BY <2>6, <2>7, <2>8
  <2>10. CASE k = 1
    BY <2>2, <2>3, <2>4, <2>6, <2>8, <2>9, <2>10 DEF Differ
  <2>11. CASE k # 1
    <3>1. s.log_groups[k - 1] # s.log_groups[m - 1]
      BY <1>2, <2>3, <2>8, <2>11 DEF Distinct
    <3> QED
      BY <2>3, <2>8, <2>9, <2>11, <3>1 DEF Differ
  <2> QED
    BY <2>10, <2>11
<1>9. CASE c = "alb_target_health"
  <2>1. Calls = [i \in DOMAIN s.target_groups |->
                   Call("elbv2.describe_target_health", s, "target_group",
                        s.target_groups[i])]
    BY <1>9 DEF CallsFor
  <2> HIDE DEF Calls
  <2> QED
    BY <1>2, <1>6, <2>1 DEF Differ
<1>10. CASE c = "recent_github_deployments"
  BY <1>5, <1>10 DEF CallsFor
<1>11. CASE c = "rds_basic_status"
  <2>1. Calls = [i \in DOMAIN s.rds_instances |->
                   Call("rds.describe_db_instances", s, "rds_instance",
                        s.rds_instances[i])]
    BY <1>11 DEF CallsFor
  <2> HIDE DEF Calls
  <2> QED
    BY <1>2, <1>6, <2>1 DEF Differ
<1>12. c \in {"alarm_target_ecs", "stopped_tasks_and_logs", "alb_target_health",
              "recent_github_deployments", "rds_basic_status"}
  BY DEF CollectorNames, Collectors, Elements
<1> QED
  BY <1>7, <1>8, <1>9, <1>10, <1>11, <1>12

(* Selecting and cutting keep elements different.                          *)
LEMMA DistinctSelected ==
  ASSUME NEW s, IsSeq(s), NEW places, places \subseteq DOMAIN s, Distinct(s)
  PROVE  Distinct(Selected(s, places))
<1> DEFINE A == Ascending(places)
           L == Selected(s, places)
           n == Cardinality(places)
<1>1. /\ DOMAIN L = 1..n /\ n \in Nat
      /\ \A i \in 1..n : A[i] \in places /\ L[i] = s[A[i]]
      /\ \A i, j \in 1..n : i < j => A[i] < A[j]
  BY SelectedFacts
<1>2. places \subseteq Nat
  BY SeqFacts
<1> HIDE DEF A, L, n
<1>3. ASSUME NEW i \in 1..n, NEW j \in 1..n, L[i] = L[j] PROVE i = j
  <2>1. A[i] = A[j] /\ A[i] \in Nat
    BY <1>1, <1>2, <1>3 DEF Distinct
  <2>2. i \in Nat /\ j \in Nat /\ ~(A[i] < A[j]) /\ ~(A[j] < A[i])
    BY <1>1, <2>1
  <2> QED
    BY <1>1, <2>2
<1> QED
  BY <1>1, <1>3 DEF Distinct, L

LEMMA DistinctCut ==
  ASSUME NEW s, IsSeq(s), NEW bound \in Nat, Distinct(s)
  PROVE  Distinct(Cut(s, bound))
<1> DEFINE C == Cut(s, bound)
<1>1. /\ IsSeq(C) /\ Len(C) <= Len(s) /\ \A i \in DOMAIN C : C[i] = s[i]
  BY CutFacts
<1> HIDE DEF C
<1>2. Len(C) \in Nat /\ Len(s) \in Nat /\ DOMAIN C = 1..Len(C) /\ DOMAIN s = 1..Len(s)
  BY <1>1, SeqFacts
<1>3. DOMAIN C \subseteq DOMAIN s
  BY <1>1, <1>2
<1> QED
  BY <1>1, <1>3 DEF Distinct, C

(* The keys of a loaded topology's services differ.                        *)
LEMMA DistinctKeys ==
  ASSUME NEW t, Parsed(t), Loadable(t), NEW places, places \subseteq DOMAIN t.services
  PROVE  LET s == Selected(t.services, places)
         IN  \A i, j \in DOMAIN s : s[i].key = s[j].key => i = j
<1> DEFINE S == t.services
           A == Ascending(places)
           L == Selected(S, places)
           n == Cardinality(places)
<1>1. IsSeq(S) /\ places \subseteq Nat
  BY SeqFacts DEF Parsed
<1>2. /\ DOMAIN L = 1..n /\ n \in Nat
      /\ \A i \in 1..n : A[i] \in places /\ L[i] = S[A[i]]
      /\ \A i, j \in 1..n : i < j => A[i] < A[j]
  BY <1>1, SelectedFacts
<1>3. \A i, j \in DOMAIN S : S[i].key = S[j].key => i = j
  BY DEF Loadable, ValidServices, Distinct
<1> HIDE DEF A, L, n, S
<1>4. ASSUME NEW i \in 1..n, NEW j \in 1..n, L[i].key = L[j].key PROVE i = j
  <2>1. A[i] = A[j] /\ A[i] \in Nat
    BY <1>1, <1>2, <1>3, <1>4 DEF S
  <2>2. i \in Nat /\ j \in Nat /\ ~(A[i] < A[j]) /\ ~(A[j] < A[i])
    BY <1>2, <2>1
  <2> QED
    BY <1>2, <2>2
<1> QED
  BY <1>2, <1>4 DEF L, S

(* The calls of a plan read different things.                              *)
LEMMA PlanApart ==
  ASSUME NEW t, Parsed(t), Loadable(t), NEW arn, NEW c \in CollectorNames
  PROVE  LET P == Plan(c, t, arn)
         IN  \A k, m \in DOMAIN P : k # m =>
               /\ Differ(P[k], P[m])
               /\ c \in OnePerResource => P[k].on # P[m].on
<1> DEFINE P == Plan(c, t, arn)
<1>1. ASSUME NEW calls, IsSeq(calls), P = OncePerResource(calls)
      PROVE  \A k, m \in DOMAIN P : k # m => P[k].on # P[m].on
  <2> HIDE DEF P
  <2> QED
    BY <1>1, OnceFacts
<1>2. CASE c = "all_pilo_services"
  <2> DEFINE calls == [i \in DOMAIN t.services |->
                         ClusterCall(t, t.services[i].ecs_cluster)]
  <2>1. P = OncePerResource(calls)
    BY <1>2 DEF Plan
  <2>2. DOMAIN calls = DOMAIN t.services /\ calls = [i \in DOMAIN calls |-> calls[i]]
    OBVIOUS
  <2> HIDE DEF P, calls
  <2>3. IsSeq(calls)
    BY <2>2, MappedSeq DEF Parsed
  <2>4. \A k, m \in DOMAIN P : k # m => P[k].on # P[m].on
    BY <2>1, <2>3, OnceFacts
  <2> QED
    BY <2>4 DEF Differ, P
<1>3. CASE c # "all_pilo_services"
  <2> DEFINE places == {i \in DOMAIN t.services : t.services[i].key \in MappedKeys(t, arn)}
             ss == ResolveAlarm(t, arn)
             parts == [i \in DOMAIN ss |-> CallsFor(c, ss[i])]
             calls == FlattenSeq(parts)
             All == UNION {Elements(parts[i]) : i \in DOMAIN parts}
             R == {p \in All \X All : Differ(p[1], p[2])}
  <2>1. P = IF c \in OnePerResource THEN OncePerResource(calls) ELSE calls
    BY <1>3 DEF Plan, OnePerResource
  <2>2. /\ IsSeq(ss)
        /\ \A i \in DOMAIN ss : \E j \in DOMAIN t.services : ss[i] = t.services[j]
    BY ResolvedServices
  <2>3. /\ DOMAIN parts = DOMAIN ss /\ parts = [i \in DOMAIN parts |-> parts[i]]
        /\ \A i \in DOMAIN parts : parts[i] = CallsFor(c, ss[i])
    OBVIOUS
  <2>4. \A i, j \in DOMAIN ss : ss[i].key = ss[j].key => i = j
    <3>1. ss = Selected(t.services, places) /\ places \subseteq DOMAIN t.services
      BY DEF ResolveAlarm
    <3> HIDE DEF ss, places
    <3> QED
      BY <3>1, DistinctKeys
  <2> HIDE DEF ss, parts, P
  <2>5. ASSUME NEW i \in DOMAIN ss
        PROVE  /\ IsSeq(parts[i])
               /\ \A x \in Elements(parts[i]) : x.service = ss[i].key
               /\ \A k, m \in DOMAIN parts[i] : k < m => Differ(parts[i][k], parts[i][m])
    <3>1. PICK j \in DOMAIN t.services : ss[i] = t.services[j]
      BY <2>2
    <3> DEFINE C == CallsFor(c, t.services[j])
    <3>2. /\ IsSeq(C) /\ \A k \in DOMAIN C : C[k].service = t.services[j].key
      BY <1>3, CallsForFacts
    <3>3. \A k, m \in DOMAIN C : k < m => Differ(C[k], C[m])
      BY <1>3, DistinctCalls
    <3>4. parts[i] = C
      BY <2>3, <3>1
    <3> HIDE DEF C
    <3> QED
      BY <3>1, <3>2, <3>3, <3>4 DEF Elements
  <2>6. IsSeq(parts) /\ \A i \in DOMAIN parts : IsSeq(parts[i])
    BY <2>2, <2>3, <2>5, MappedSeq
  <2>7. \A i \in DOMAIN parts : \A j, k \in DOMAIN parts[i] :
          j < k => <<parts[i][j], parts[i][k]>> \in R
    BY <2>3, <2>5 DEF Elements
  <2>8. \A h, i \in DOMAIN parts : h < i =>
          \A x \in Elements(parts[h]) : \A y \in Elements(parts[i]) : <<x, y>> \in R
    <3> SUFFICES ASSUME NEW h \in DOMAIN parts, NEW i \in DOMAIN parts, h < i,
                        NEW x \in Elements(parts[h]), NEW y \in Elements(parts[i])
                 PROVE  <<x, y>> \in R
      OBVIOUS
    <3>1. h # i
      <4>1. h \in Nat
        BY <2>6, SeqFacts
      <4> QED
        BY <4>1
    <3>2. x.service # y.service
      BY <2>3, <2>4, <2>5, <3>1
    <3> QED
      BY <3>2 DEF Differ
  <2>9. /\ IsSeq(calls)
        /\ \A j, k \in DOMAIN calls : j < k => <<calls[j], calls[k]>> \in R
    <3> HIDE DEF R
    <3> QED
      BY <2>6, <2>7, <2>8, FlattenOrdered
  <2> HIDE DEF calls
  <2>10. CASE c \in OnePerResource
    <3>1. \A k, m \in DOMAIN P : k # m => P[k].on # P[m].on
      BY <2>1, <2>9, <2>10, OnceFacts
    <3> QED
      BY <3>1 DEF Differ, P
  <2>11. CASE c \notin OnePerResource
    <3>1. P = calls
      BY <2>1, <2>11
    <3>2. ASSUME NEW k \in DOMAIN P, NEW m \in DOMAIN P, k # m
          PROVE  Differ(P[k], P[m])
      <4>1. k \in Nat /\ m \in Nat
        BY <2>9, <3>1, SeqFacts
      <4>2. k < m \/ m < k
        BY <3>2, <4>1
      <4>3. Differ(P[k], P[m]) \/ Differ(P[m], P[k])
        BY <2>9, <3>1, <4>2
      <4> QED
        BY <4>3 DEF Differ
    <3> QED
      BY <2>11, <3>2 DEF P
  <2> QED
    BY <2>10, <2>11
<1> QED
  BY <1>2, <1>3

LEMMA DistinctRecent ==
  ASSUME NEW s, IsSeq(s), Distinct(s), \A n \in DOMAIN s : s[n].id \in Nat
  PROVE  Distinct(Recent(s))
<1> DEFINE matching == {i \in DOMAIN s : s[i].environment = "dev" /\ s[i].recent}
           kept == Selected(s, matching)
           before == Newer(kept)
           B == Sorted(kept, before)
<1>1. matching \subseteq DOMAIN s
  OBVIOUS
<1>2. Recent(s) = Cut(B, MaxRows)
  BY DEF Recent
<1> HIDE DEF matching
<1>3. IsSeq(kept) /\ Elements(kept) = {s[i] : i \in matching}
  BY <1>1, SelectedFacts
<1>4. Distinct(kept)
  BY <1>1, DistinctSelected
<1> HIDE DEF kept
<1>5. DOMAIN kept \subseteq Nat /\ \A n \in DOMAIN kept : kept[n].id \in Nat
  BY <1>1, <1>3, SeqFacts
<1>6. \A i, j \in DOMAIN kept : <<i, j>> \in before <=> kept[i].id > kept[j].id
  BY DEF Newer
<1>7. \A i, j \in DOMAIN kept : <<i, j>> \in Reached(kept, before) <=>
        (kept[i].id > kept[j].id \/ (i <= j /\ ~(kept[j].id > kept[i].id)))
  BY <1>6 DEF Reached
<1>8. Orders(Reached(kept, before), DOMAIN kept)
  BY <1>5, <1>7 DEF Orders
<1> HIDE DEF before
<1>9. PICK moved \in [DOMAIN kept -> DOMAIN kept] :
        /\ \A n \in DOMAIN kept : B[n] = kept[moved[n]]
        /\ \A m, n \in DOMAIN kept : moved[m] = moved[n] => m = n
  BY <1>3, <1>8, SortedFacts
<1>10. IsSeq(B) /\ DOMAIN B = DOMAIN kept
  <2>1. IsSeq(B) /\ Len(B) = Len(kept)
    BY <1>3, SortedSeq
  <2> HIDE DEF B
  <2> QED
    BY <1>3, <2>1, SeqFacts
<1> HIDE DEF B
<1>11. Distinct(B)
  BY <1>4, <1>9, <1>10 DEF Distinct
<1> QED
  BY <1>2, <1>10, <1>11, DistinctCut, CollectorAssumption
=============================================================================
