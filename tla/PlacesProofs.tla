---------------------------- MODULE PlacesProofs ----------------------------
(***************************************************************************)
(* Lemmas the proofs about several modules rest on: places listed in an    *)
(* order, numbered sets, the least number of a set, sequences of sequences *)
(* put one after the other.                                                *)
(***************************************************************************)
EXTENDS Places, SequencesExt, FunctionTheorems, FiniteSetTheorems, SequenceTheorems,
        WellFoundedInduction, TLAPS

-----------------------------------------------------------------------------
(* Places in an order.  The rank of a place is how many come before it; two places have different ranks,
   and there are as many ranks as places, so each rank is that of one place. *)

Total(places, before) ==
    /\ \A i \in places : <<i, i>> \notin before
    /\ \A i, j \in places : i = j \/ <<i, j>> \in before \/ <<j, i>> \in before
    /\ \A i, j, k \in places : <<i, j>> \in before /\ <<j, k>> \in before => <<i, k>> \in before

LEMMA Smaller ==
    ASSUME NEW S, IsFiniteSet(S), NEW T \in SUBSET S, NEW x \in S, x \notin T
    PROVE  /\ Cardinality(T) \in Nat /\ Cardinality(S) \in Nat
           /\ Cardinality(T) < Cardinality(S)
<1>1. IsFiniteSet(T) /\ Cardinality(T) <= Cardinality(S) /\ (Cardinality(S) = Cardinality(T) => S = T)
  BY FS_Subset
<1>2. Cardinality(T) \in Nat /\ Cardinality(S) \in Nat
  BY <1>1, FS_CardinalityType
<1> QED
  BY <1>1, <1>2

LEMMA Ordered ==
    ASSUME NEW places, IsFiniteSet(places), NEW before, Total(places, before)
    PROVE  LET order == InOrder(places, before)
               n == Cardinality(places)
           IN /\ n \in Nat
              /\ order \in Bijection(1..n, places)
              /\ \A k, l \in 1..n : k < l => <<order[k], order[l]>> \in before
<1> DEFINE n == Cardinality(places)
           Before(i) == {j \in places : <<j, i>> \in before}
           rank == [i \in places |-> Cardinality(Before(i)) + 1]
           order == InOrder(places, before)
<1>1. n \in Nat
  BY FS_CardinalityType
<1>2. ASSUME NEW i \in places
      PROVE  Cardinality(Before(i)) \in Nat /\ Cardinality(Before(i)) < n
  <2>1. Before(i) \in SUBSET places /\ i \notin Before(i)
    BY DEF Total
  <2> HIDE DEF Before
  <2> QED
    BY <2>1, Smaller
<1>3. ASSUME NEW i \in places, NEW j \in places, <<i, j>> \in before
      PROVE  Cardinality(Before(i)) < Cardinality(Before(j))
  <2>1. Before(i) \in SUBSET Before(j) /\ i \in Before(j) /\ i \notin Before(i)
    BY <1>3 DEF Total
  <2>2. Before(j) \in SUBSET places
    OBVIOUS
  <2> HIDE DEF Before
  <2>3. IsFiniteSet(Before(j))
    BY <2>2, FS_Subset
  <2> QED
    BY <2>1, <2>3, Smaller
<1> HIDE DEF Before
<1>4. rank \in [places -> 1..n]
  <2>1. \A i \in places : Cardinality(Before(i)) + 1 \in 1..n
    BY <1>1, <1>2
  <2> QED
    BY <2>1
<1>5. ASSUME NEW i \in places, NEW j \in places, rank[i] = rank[j]
      PROVE  i = j
  <2>1. Cardinality(Before(i)) = Cardinality(Before(j))
    <3>1. Cardinality(Before(i)) + 1 = Cardinality(Before(j)) + 1
      BY <1>5
    <3> QED
      BY <1>2, <3>1
  <2>2. <<i, j>> \notin before /\ <<j, i>> \notin before
    BY <1>2, <1>3, <2>1
  <2> QED
    BY <2>2 DEF Total
<1>6. rank \in Surjection(places, 1..n)
  <2>1. rank \in Injection(places, 1..n)
    <3> HIDE DEF rank
    <3> QED
      BY <1>4, <1>5, Fun_IsInj
  <2>2. IsFiniteSet(1..n) /\ Cardinality(1..n) = n
    BY <1>1, FS_Interval
  <2> HIDE DEF rank
  <2> QED
    BY <2>1, <2>2, FS_Injection
<1>7. ASSUME NEW k \in 1..n
      PROVE  order[k] \in places /\ rank[order[k]] = k
  <2>1. PICK i \in places : rank[i] = k
    <3> DEFINE N == 1..n
    <3>1. rank \in Surjection(places, N) /\ k \in N
      BY <1>6
    <3> HIDE DEF rank, N
    <3>2. \A t \in N : \E s \in places : rank[s] = t
      BY <3>1, Fun_SurjectionProperties
    <3> QED
      BY <3>1, <3>2
  <2>2. Cardinality(Before(i)) = k - 1
    BY <1>2, <2>1
  <2>3. order[k] = CHOOSE j \in places : Cardinality(Before(j)) = k - 1
    BY DEF InOrder, Before
  <2>4. order[k] \in places /\ Cardinality(Before(order[k])) = k - 1
    BY <2>2, <2>3
  <2> QED
    BY <2>4
<1>8. order \in Bijection(1..n, places)
  <2>1. DOMAIN order = 1..n /\ order = [k \in 1..n |-> order[k]]
    <3> DEFINE it(k) == CHOOSE i \in places : Cardinality(Before(i)) = k - 1
    <3>1. order = [k \in 1..n |-> it(k)]
      BY DEF InOrder, Before
    <3> HIDE DEF order, it, n
    <3> QED
      BY <3>1
  <2> HIDE DEF order, rank
  <2>2. order \in [1..n -> places]
    BY <1>7, <2>1
  <2>3. \A k, l \in 1..n : order[k] = order[l] => k = l
    BY <1>7
  <2>4. \A i \in places : order[rank[i]] = i
    BY <1>4, <1>5, <1>7
  <2>5. \A i \in places : \E k \in 1..n : order[k] = i
    BY <1>4, <2>4
  <2> QED
    BY <2>2, <2>3, <2>5, Fun_IsBij
<1>9. ASSUME NEW k \in 1..n, NEW l \in 1..n, k < l
      PROVE  <<order[k], order[l]>> \in before
  <2>1. order[k] \in places /\ order[l] \in places /\ rank[order[k]] = k /\ rank[order[l]] = l
    BY <1>7
  <2>2. order[k] # order[l]
    BY <1>9, <2>1
  <2>3. Cardinality(Before(order[k])) + 1 = k /\ Cardinality(Before(order[l])) + 1 = l
    BY <2>1
  <2>4. <<order[l], order[k]>> \notin before
    <3>1. ~(Cardinality(Before(order[l])) < Cardinality(Before(order[k])))
      BY <1>2, <1>9, <2>1, <2>3
    <3> QED
      BY <1>3, <2>1, <3>1
  <2> QED
    BY <2>1, <2>2, <2>4 DEF Total
<1> QED
  BY <1>1, <1>8, <1>9

(* What numbers a set. *)
LEMMA OneToOne ==
    ASSUME NEW n, NEW S, NEW f, f \in Bijection(1..n, S)
    PROVE  /\ \A k \in 1..n : f[k] \in S
           /\ \A k, l \in 1..n : f[k] = f[l] => k = l
           /\ \A i \in S : \E k \in 1..n : f[k] = i
<1> DEFINE N == 1..n
<1>1. f \in Bijection(N, S)
  OBVIOUS
<1> HIDE DEF N
<1>2. /\ f \in [N -> S]
      /\ \A k, l \in N : f[k] = f[l] => k = l
      /\ \A i \in S : \E k \in N : f[k] = i
  BY <1>1, Fun_BijectionProperties
<1>3. \A k \in N : f[k] \in S
  BY <1>2
<1> QED
  BY <1>2, <1>3 DEF N

LEMMA EitherSide ==
    ASSUME NEW n \in Nat, NEW m \in Nat, NEW r \in 1..(n + m)
    PROVE  (r \in 1..n /\ r <= n) \/ (r - n \in 1..m /\ r = n + (r - n) /\ ~(r <= n))
OBVIOUS

(* Places in the order they are numbered in. *)
LEMMA SortedPlaces ==
    ASSUME NEW places, IsFiniteSet(places), \A i \in places : i \in Nat
    PROVE  LET n == Cardinality(places)
           IN /\ n \in Nat /\ DOMAIN Sorted(places) = 1..n
              /\ Sorted(places) \in Bijection(1..n, places)
              /\ \A k \in 1..n : Sorted(places)[k] \in places
              /\ \A k, l \in 1..n : Sorted(places)[k] = Sorted(places)[l] => k = l
              /\ \A i \in places : \E k \in 1..n : Sorted(places)[k] = i
              /\ \A k, l \in 1..n : k < l => Sorted(places)[k] < Sorted(places)[l]
<1> DEFINE n == Cardinality(places)
<1>1. Total(places, Given(places))
  <2>1. \A i, j \in places : <<i, j>> \in Given(places) <=> i < j
    BY DEF Given
  <2> QED
    BY <2>1 DEF Total
<1>2. /\ n \in Nat /\ Sorted(places) \in Bijection(1..n, places)
      /\ \A k, l \in 1..n : k < l => <<Sorted(places)[k], Sorted(places)[l]>> \in Given(places)
  BY <1>1, Ordered DEF Sorted
<1>3. DOMAIN Sorted(places) = 1..n
  BY DEF Sorted, InOrder
<1>4. \A k, l \in 1..n : k < l => Sorted(places)[k] < Sorted(places)[l]
  <2>1. \A x \in Given(places) : x[1] < x[2]
    BY DEF Given
  <2> QED
    BY <1>2, <2>1
<1>5. /\ \A k \in 1..n : Sorted(places)[k] \in places
      /\ \A k, l \in 1..n : Sorted(places)[k] = Sorted(places)[l] => k = l
      /\ \A i \in places : \E k \in 1..n : Sorted(places)[k] = i
  <2> HIDE DEF n
  <2> QED
    BY <1>2, OneToOne
<1> QED
  BY <1>2, <1>3, <1>4, <1>5

(* A sequence is numbered from one. *)
LEMMA CountedFromOne ==
    ASSUME NEW S, NEW s \in Seq(S)
    PROVE  /\ DOMAIN s = 1..Len(s) /\ Len(s) \in Nat
           /\ IsFiniteSet(DOMAIN s) /\ Cardinality(DOMAIN s) = Len(s)
<1>1. DOMAIN s = 1..Len(s) /\ Len(s) \in Nat
  OBVIOUS
<1> DEFINE n == Len(s)
<1>2. n \in Nat
  BY <1>1
<1> HIDE DEF n
<1>3. IsFiniteSet(1..n) /\ Cardinality(1..n) = IF 1 > n THEN 0 ELSE n - 1 + 1
  <2>1. n \in Int /\ 1 \in Int
    BY <1>2
  <2> QED
    BY <2>1, FS_Interval
<1>4. Cardinality(1..n) = n
  BY <1>2, <1>3
<1> QED
  BY <1>1, <1>3, <1>4 DEF n

LEMMA SequencePlaces ==
    ASSUME NEW s, IsSequence(s)
    PROVE  /\ Len(s) \in Nat /\ DOMAIN s = 1..Len(s) /\ s = [i \in 1..Len(s) |-> s[i]]
           /\ IsFiniteSet(DOMAIN s) /\ Cardinality(DOMAIN s) = Len(s)
           /\ \A i \in DOMAIN s : i \in Nat /\ i >= 1
           /\ \A T \in SUBSET DOMAIN s : IsFiniteSet(T) /\ \A i \in T : i \in Nat
<1> DEFINE S == {s[i] : i \in DOMAIN s}
<1>1. s \in Seq(S)
  BY DEF IsSequence
<1> HIDE DEF S
<1>2. DOMAIN s = 1..Len(s) /\ Len(s) \in Nat /\ s = [i \in 1..Len(s) |-> s[i]]
  BY <1>1
<1>3. IsFiniteSet(DOMAIN s) /\ Cardinality(DOMAIN s) = Len(s)
  BY <1>1, CountedFromOne
<1>4. \A T \in SUBSET DOMAIN s : IsFiniteSet(T)
  BY <1>3, FS_Subset
<1> QED
  BY <1>2, <1>3, <1>4

(* One function after another, and a finite set in any order. *)
LEMMA BothParts ==
    ASSUME NEW n \in Nat, NEW m \in Nat, NEW a, NEW b, NEW S,
           a \in [1..n -> S], b \in [1..m -> S]
    PROVE  /\ DOMAIN (a \o b) = 1..(n + m)
           /\ \A k \in 1..n : (a \o b)[k] = a[k]
           /\ \A k \in 1..m : (a \o b)[n + k] = b[k]
<1>1. a \in Seq(S) /\ b \in Seq(S) /\ Len(a) = n /\ Len(b) = m
  OBVIOUS
<1>2. /\ a \o b \in Seq(S) /\ Len(a \o b) = n + m
      /\ \A i \in 1..(n + m) : (a \o b)[i] = IF i <= n THEN a[i] ELSE b[i - n]
  BY <1>1, ConcatProperties
<1>3. DOMAIN (a \o b) = 1..(n + m)
  BY <1>2
<1>4. \A k \in 1..n : k \in 1..(n + m) /\ k <= n
  OBVIOUS
<1>5. \A k \in 1..m : n + k \in 1..(n + m) /\ ~(n + k <= n) /\ (n + k) - n = k
  OBVIOUS
<1> QED
  BY <1>2, <1>3, <1>4, <1>5

LEMMA Listed ==
    ASSUME NEW S, IsFiniteSet(S)
    PROVE  Cardinality(S) \in Nat /\ SetToSeq(S) \in Bijection(1..Cardinality(S), S)
<1> DEFINE n == Cardinality(S)
<1>1. n \in Nat /\ ExistsBijection(1..n, S)
  BY FS_CardinalityType
<1> HIDE DEF n
<1>2. PICK f : f \in Bijection(1..n, S)
  BY <1>1 DEF ExistsBijection
<1>3. f \in [1..n -> S] /\ IsInjective(f)
  BY <1>2 DEF Bijection, Injection
<1>4. SetToSeq(S) \in [1..n -> S] /\ IsInjective(SetToSeq(S))
  <2>1. SetToSeq(S) = CHOOSE g \in [1..n -> S] : IsInjective(g)
    BY DEF SetToSeq, n
  <2> QED
    BY <1>3, <2>1
<1>5. SetToSeq(S) \in Injection(1..n, S)
  BY <1>4 DEF Injection
<1>6. IsFiniteSet(1..n) /\ Cardinality(1..n) = n
  <2>1. IsFiniteSet(1..n) /\ Cardinality(1..n) = IF 1 > n THEN 0 ELSE n - 1 + 1
    BY <1>1, FS_Interval
  <2> QED
    BY <1>1, <2>1
<1>7. SetToSeq(S) \in Surjection(1..n, S)
  <2>1. Cardinality(1..n) = Cardinality(S)
    BY <1>6 DEF n
  <2> QED
    BY <1>5, <2>1, FS_Injection
<1>8. SetToSeq(S) \in Bijection(1..n, S)
  BY <1>5, <1>7 DEF Bijection
<1> QED
  BY <1>1, <1>8 DEF n

-----------------------------------------------------------------------------
(* A set of numbers has a least one. *)
LEMMA Least ==
    ASSUME NEW T, T \subseteq Nat, T # {}
    PROVE  \E x \in T : \A y \in T : x <= y
<1> DEFINE R == OpToRel(<, Nat)
<1>1. IsWellFoundedOn(R, Nat)
  BY NatLessThanWellFounded
<1>2. \A x, y \in Nat : <<x, y>> \in R <=> x < y
  BY DEF OpToRel
<1> HIDE DEF R
<1>3. PICK x \in T : \A y \in T : ~(<<y, x>> \in R)
  BY <1>1, WFMin
<1>4. \A y \in T : ~(y < x) /\ y \in Nat
  BY <1>2, <1>3
<1>5. \A y \in T : x <= y
  BY <1>4
<1> QED
  BY <1>5

(* FlattenSeq goes one sequence further at a time. *)
Flattens(f, s, m) == f = [i \in 1..m |-> IF i = 1 THEN s[i] ELSE f[i - 1] \o s[i]]

LEMMA FlattenExists ==
    ASSUME NEW s, NEW m \in Nat
    PROVE  \E f : Flattens(f, s, m)
<1> DEFINE T == {k \in Nat : ~\E f : Flattens(f, s, k)}
<1> SUFFICES ASSUME T # {} PROVE FALSE
  OBVIOUS
<1>1. PICK k \in T : \A y \in T : k <= y
  BY Least
<1>2. k # 0
  <2>1. Flattens([i \in 1..0 |-> 0], s, 0)
    BY DEF Flattens
  <2> QED
    BY <1>1, <2>1
<1>3. k \in Nat /\ k - 1 \in Nat /\ k - 1 \notin T
  BY <1>1, <1>2
<1>4. PICK f : Flattens(f, s, k - 1)
  BY <1>3
<1> DEFINE g == [i \in 1..k |-> IF i = k THEN (IF i = 1 THEN s[i] ELSE f[i - 1] \o s[i]) ELSE f[i]]
<1>5. Flattens(g, s, k)
  <2> SUFFICES ASSUME NEW i \in 1..k
               PROVE  g[i] = IF i = 1 THEN s[i] ELSE g[i - 1] \o s[i]
    BY DEF Flattens
  <2>1. CASE i = k
    BY <1>3, <2>1
  <2>2. CASE i # k
    <3>1. i \in 1..(k - 1) /\ g[i] = f[i] /\ (i # 1 => i - 1 \in 1..k /\ i - 1 # k /\ g[i - 1] = f[i - 1])
      BY <1>3, <2>2
    <3>2. f[i] = IF i = 1 THEN s[i] ELSE f[i - 1] \o s[i]
      BY <1>4, <3>1 DEF Flattens
    <3> QED
      BY <3>1, <3>2
  <2> QED
    BY <2>1, <2>2
<1> QED
  BY <1>1, <1>5

LEMMA FlattenSteps ==
    ASSUME NEW s, Len(s) \in Nat \ {0}
    PROVE  \E f : Flattens(f, s, Len(s)) /\ FlattenSeq(s) = f[Len(s)]
<1> DEFINE Def(f) == f = [i \in 1..Len(s) |-> IF i = 1 THEN s[i] ELSE f[i - 1] \o s[i]]
           c == CHOOSE f : Def(f)
<1>1. \E f : Def(f)
  BY FlattenExists DEF Flattens
<1>2. Def(c)
  BY <1>1
<1>3. FlattenSeq(s) = c[Len(s)]
  BY DEF FlattenSeq
<1> QED
  BY <1>2, <1>3 DEF Flattens

(* What one sequence after another has where. *)
Joins(c, a, b) ==
    /\ Len(c) = Len(a) + Len(b)
    /\ \A x \in 1..Len(a) : c[x] = a[x]
    /\ \A x \in 1..Len(b) : c[Len(a) + x] = b[x]
    /\ \A x \in 1..Len(c) : x \in 1..Len(a) \/ \E k \in 1..Len(b) : x = Len(a) + k

LEMMA Concat ==
    ASSUME NEW S, NEW a \in Seq(S), NEW b \in Seq(S)
    PROVE  a \o b \in Seq(S) /\ Joins(a \o b, a, b)
<1>1. a \o b \in Seq(S) /\ Len(a \o b) = Len(a) + Len(b) /\ Len(a) \in Nat /\ Len(b) \in Nat
  OBVIOUS
<1>2. /\ \A x \in 1..Len(a) : (a \o b)[x] = a[x]
      /\ \A x \in 1..Len(b) : (a \o b)[Len(a) + x] = b[x]
  OBVIOUS
<1>3. ASSUME NEW x \in 1..Len(a \o b), x \notin 1..Len(a)
      PROVE  \E k \in 1..Len(b) : x = Len(a) + k
  <2>1. x - Len(a) \in 1..Len(b) /\ x = Len(a) + (x - Len(a))
    BY <1>1, <1>3
  <2> QED
    BY <2>1
<1> QED
  BY <1>1, <1>2, <1>3 DEF Joins

AreBeside(c, d, a, b, p, q) ==
    /\ Len(c) = Len(d)
    /\ \A x \in 1..Len(c) :
         \/ x \in 1..Len(a) /\ c[x] = a[x] /\ d[x] = b[x]
         \/ \E k \in 1..Len(p) : c[x] = p[k] /\ d[x] = q[k]

LEMMA Beside ==
    ASSUME NEW S, NEW a \in Seq(S), NEW b \in Seq(S), NEW p \in Seq(S), NEW q \in Seq(S),
           Len(a) = Len(b), Len(p) = Len(q)
    PROVE  /\ a \o p \in Seq(S) /\ b \o q \in Seq(S)
           /\ AreBeside(a \o p, b \o q, a, b, p, q)
<1>1. a \o p \in Seq(S) /\ Joins(a \o p, a, p) /\ b \o q \in Seq(S) /\ Joins(b \o q, b, q)
  BY Concat
<1> DEFINE c == a \o p
           d == b \o q
<1> HIDE DEF c, d
<1>3. ASSUME NEW x \in 1..Len(c)
      PROVE  \/ x \in 1..Len(a) /\ c[x] = a[x] /\ d[x] = b[x]
             \/ \E k \in 1..Len(p) : c[x] = p[k] /\ d[x] = q[k]
  <2>1. CASE x \in 1..Len(a)
    BY <1>1, <2>1 DEF c, d, Joins
  <2>2. CASE x \notin 1..Len(a)
    <3>1. PICK k \in 1..Len(p) : x = Len(a) + k
      BY <1>1, <2>2 DEF c, Joins
    <3>2. c[x] = p[k] /\ d[x] = q[k]
      BY <1>1, <3>1 DEF c, d, Joins
    <3> QED
      BY <3>2
  <2> QED
    BY <2>1, <2>2
<1> QED
  BY <1>1, <1>3 DEF c, d, Joins, AreBeside

(* Two sequences of the same shape, put end to end, stay side by side. *)
SameShape(s, t) == Len(s) = Len(t) /\ \A i \in 1..Len(s) : Len(s[i]) = Len(t[i])
SideBySide(a, b, s, t, m) ==
    /\ Len(a) = Len(b)
    /\ \A n \in 1..Len(a) : \E i \in 1..m : \E k \in 1..Len(s[i]) : a[n] = s[i][k] /\ b[n] = t[i][k]

LEMMA FlattenTogether ==
    ASSUME NEW S, NEW s \in Seq(Seq(S)), NEW t \in Seq(Seq(S)), SameShape(s, t)
    PROVE  /\ FlattenSeq(s) \in Seq(S) /\ FlattenSeq(t) \in Seq(S)
           /\ SideBySide(FlattenSeq(s), FlattenSeq(t), s, t, Len(s))
<1> DEFINE n == Len(s)
<1>0. n \in Nat /\ Len(t) = n /\ \A i \in 1..n : s[i] \in Seq(S) /\ t[i] \in Seq(S) /\ Len(s[i]) = Len(t[i])
  BY DEF SameShape
<1>1. CASE n = 0
  <2>1. FlattenSeq(s) = s /\ FlattenSeq(t) = t
    BY <1>0, <1>1 DEF FlattenSeq
  <2>2. s = <<>> /\ t = <<>>
    BY <1>0, <1>1
  <2>3. <<>> \in Seq(S) /\ Len(<<>>) = 0
    OBVIOUS
  <2>4. SideBySide(<<>>, <<>>, s, t, Len(s))
    BY <2>3 DEF SideBySide
  <2> QED
    BY <2>1, <2>2, <2>3, <2>4
<1>2. CASE n # 0
  <2> HIDE DEF n
  <2>1. PICK f : Flattens(f, s, n) /\ FlattenSeq(s) = f[n]
    BY <1>0, <1>2, FlattenSteps DEF n
  <2>2. PICK g : Flattens(g, t, n) /\ FlattenSeq(t) = g[n]
    BY <1>0, <1>2, FlattenSteps DEF n
  <2> DEFINE Good(m) == f[m] \in Seq(S) /\ g[m] \in Seq(S) /\ SideBySide(f[m], g[m], s, t, m)
             T == {m \in 1..n : ~Good(m)}
  <2>3. ASSUME T # {} PROVE FALSE
    <3>1. T \subseteq Nat
      BY <1>0
    <3>2. PICK m \in T : \A y \in T : m <= y
      BY <2>3, <3>1, Least
    <3>3. m \in 1..n /\ ~Good(m) /\ (m # 1 => m - 1 \in 1..n /\ Good(m - 1))
      <4>1. m \in 1..n /\ ~Good(m)
        OBVIOUS
      <4>2. m # 1 => m - 1 \in 1..n /\ m - 1 \notin T
        BY <1>0, <3>2, <4>1
      <4> QED
        BY <4>1, <4>2
    <3>4. CASE m = 1
      <4>1. f[m] = s[m] /\ g[m] = t[m]
        BY <2>1, <2>2, <3>3, <3>4 DEF Flattens
      <4>2. s[m] \in Seq(S) /\ t[m] \in Seq(S) /\ Len(s[m]) = Len(t[m]) /\ m \in 1..m
        BY <1>0, <3>3, <3>4
      <4>3. SideBySide(f[m], g[m], s, t, m)
        BY <4>1, <4>2 DEF SideBySide
      <4> QED
        BY <3>3, <4>1, <4>2, <4>3
    <3>5. CASE m # 1
      <4>1. f[m] = f[m - 1] \o s[m] /\ g[m] = g[m - 1] \o t[m]
        BY <2>1, <2>2, <3>3, <3>5 DEF Flattens
      <4>2. s[m] \in Seq(S) /\ t[m] \in Seq(S) /\ Len(s[m]) = Len(t[m]) /\ m \in Nat
        BY <1>0, <3>3
      <4>3. f[m - 1] \in Seq(S) /\ g[m - 1] \in Seq(S) /\ SideBySide(f[m - 1], g[m - 1], s, t, m - 1)
        BY <3>3, <3>5
      <4>4. Len(f[m - 1]) = Len(g[m - 1])
        BY <4>3 DEF SideBySide
      <4>5. /\ f[m] \in Seq(S) /\ g[m] \in Seq(S) /\ Len(f[m]) = Len(g[m])
            /\ \A x \in 1..Len(f[m]) :
                 \/ x \in 1..Len(f[m - 1]) /\ f[m][x] = f[m - 1][x] /\ g[m][x] = g[m - 1][x]
                 \/ \E k \in 1..Len(s[m]) : f[m][x] = s[m][k] /\ g[m][x] = t[m][k]
        <5> DEFINE a == f[m - 1]
                   b == g[m - 1]
                   p == s[m]
                   q == t[m]
                   c == f[m]
                   d == g[m]
        <5>1. /\ a \in Seq(S) /\ b \in Seq(S) /\ p \in Seq(S) /\ q \in Seq(S)
              /\ Len(a) = Len(b) /\ Len(p) = Len(q) /\ c = a \o p /\ d = b \o q
          BY <4>1, <4>2, <4>3, <4>4
        <5> HIDE DEF a, b, p, q, c, d
        <5>2. a \o p \in Seq(S) /\ b \o q \in Seq(S) /\ AreBeside(a \o p, b \o q, a, b, p, q)
          BY <5>1, Beside
        <5> QED
          BY <5>1, <5>2 DEF AreBeside, a, b, p, q, c, d
      <4>6. ASSUME NEW x \in 1..Len(f[m])
            PROVE  \E i \in 1..m : \E k \in 1..Len(s[i]) : f[m][x] = s[i][k] /\ g[m][x] = t[i][k]
        <5>1. CASE x \in 1..Len(f[m - 1]) /\ f[m][x] = f[m - 1][x] /\ g[m][x] = g[m - 1][x]
          <6>1. PICK i \in 1..(m - 1) : \E k \in 1..Len(s[i]) : f[m - 1][x] = s[i][k] /\ g[m - 1][x] = t[i][k]
            BY <4>3, <5>1 DEF SideBySide
          <6>2. i \in 1..m
            BY <4>2
          <6> QED
            BY <5>1, <6>1, <6>2
        <5>2. CASE \E k \in 1..Len(s[m]) : f[m][x] = s[m][k] /\ g[m][x] = t[m][k]
          <6>1. m \in 1..m
            BY <3>3
          <6> QED
            BY <5>2, <6>1
        <5> QED
          BY <4>5, <5>1, <5>2
      <4> QED
        BY <3>3, <4>5, <4>6 DEF SideBySide
    <3> QED
      BY <3>4, <3>5
  <2>4. Good(n)
    <3>1. n \in 1..n
      BY <1>0, <1>2
    <3> QED
      BY <2>3, <3>1
  <2> QED
    BY <2>1, <2>2, <2>4 DEF n
<1> QED
  BY <1>1, <1>2

(* FlattenSeq from nothing, one sequence after another. *)
Adds(f, s, n) ==
    /\ f[0] = <<>> /\ FlattenSeq(s) = f[n]
    /\ \A i \in 1..n : f[i] = f[i - 1] \o s[i]

LEMMA FlattenAdds ==
    ASSUME NEW S, NEW s \in Seq(Seq(S))
    PROVE  \E f : /\ Adds(f, s, Len(s))
                  /\ \A i \in 0..Len(s) : f[i] \in Seq(S)
<1> DEFINE n == Len(s)
<1>1. n \in Nat /\ \A i \in 1..n : s[i] \in Seq(S)
  OBVIOUS
<1>2. CASE n = 0
  <2> DEFINE f == [i \in 0..0 |-> <<>>]
  <2>1. FlattenSeq(s) = s /\ s = <<>>
    BY <1>2 DEF FlattenSeq
  <2>2. f[0] = <<>> /\ <<>> \in Seq(S)
    OBVIOUS
  <2>3. Adds(f, s, n)
    BY <1>2, <2>1, <2>2 DEF Adds
  <2>4. \A i \in 0..n : f[i] \in Seq(S)
    BY <1>2, <2>2
  <2> HIDE DEF f
  <2> QED
    BY <2>3, <2>4
<1>3. CASE n # 0
  <2> HIDE DEF n
  <2>1. PICK g : Flattens(g, s, n) /\ FlattenSeq(s) = g[n]
    BY <1>1, <1>3, FlattenSteps DEF n
  <2> DEFINE f == [i \in 0..n |-> IF i = 0 THEN <<>> ELSE g[i]]
  <2>2. f[0] = <<>> /\ \A i \in 1..n : f[i] = g[i]
    BY <1>1
  <2>3. ASSUME NEW i \in 1..n PROVE f[i] = f[i - 1] \o s[i]
    <3>1. CASE i = 1
      <4>1. s[i] \in Seq(S)
        BY <1>1
      <4>2. <<>> \o s[i] = s[i]
        BY <4>1
      <4>3. f[i] = s[i]
        BY <2>1, <2>2, <3>1 DEF Flattens
      <4>4. f[i - 1] = <<>>
        BY <2>2, <3>1
      <4> QED
        BY <4>2, <4>3, <4>4
    <3>2. CASE i # 1
      <4>1. i - 1 \in 1..n
        BY <1>1, <3>2
      <4>2. g[i] = g[i - 1] \o s[i]
        BY <2>1, <3>2 DEF Flattens
      <4> HIDE DEF f
      <4> QED
        BY <2>2, <4>1, <4>2
    <3> QED
      BY <3>1, <3>2
  <2>4. FlattenSeq(s) = f[n]
    BY <1>1, <1>3, <2>1, <2>2
  <2> HIDE DEF f
  <2> DEFINE T == {i \in 0..n : f[i] \notin Seq(S)}
  <2>5. ASSUME T # {} PROVE FALSE
    <3>1. T \subseteq Nat
      OBVIOUS
    <3>2. PICK i \in T : \A y \in T : i <= y
      BY <2>5, <3>1, Least
    <3>3. <<>> \in Seq(S)
      OBVIOUS
    <3>4. i # 0 /\ i \in 1..n /\ i - 1 \in 0..n /\ ~(i <= i - 1)
      <4>1. i \in 0..n /\ i # 0
        BY <2>2, <3>3
      <4> QED
        BY <1>1, <4>1
    <3>5. f[i - 1] \in Seq(S)
      BY <3>2, <3>4
    <3>6. s[i] \in Seq(S) /\ f[i] = f[i - 1] \o s[i]
      BY <1>1, <2>3, <3>4
    <3>7. f[i] \in Seq(S)
      BY <3>5, <3>6
    <3> QED
      BY <3>7
  <2>6. Adds(f, s, n)
    BY <2>2, <2>3, <2>4 DEF Adds
  <2> QED
    BY <2>5, <2>6 DEF n
<1> QED
  BY <1>2, <1>3
=============================================================================
