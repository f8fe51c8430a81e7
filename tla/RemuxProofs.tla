------------------------------ MODULE RemuxProofs ------------------------------
(***************************************************************************)
(* What a remux promises, for every request, every width of offsets and    *)
(* every buffer.                                                           *)
(*                                                                         *)
(* The tables of a track are sums: of durations, of samples in runs of     *)
(* chunks, of sizes.  The first part is about sums over finite sets and    *)
(* along sequences, the second about what an accepted table locates.       *)
(*                                                                         *)
(* The tracks kept are sequences of chunks, and the output is all of them, *)
(* each once, in an order of fractions.  So the media is as long as the    *)
(* samples of all tracks, and what was copied after each step is the media *)
(* before the next chunk.                                                  *)
(*                                                                         *)
(* The movie box is laid out twice.  Its size does not depend on where its *)
(* chunks are said to be, only on how wide the offsets are: that is why    *)
(* what is written before the media ends where the offsets say it does.    *)
(*                                                                         *)
(* A rewritten track keeps every table but its chunk offsets, so it has    *)
(* the samples it had, in chunks that are elsewhere.  A sample is as far   *)
(* into its chunk as it was, its chunk is where the offset says, and the   *)
(* pieces copied for that chunk stand there: so the offset leads to the    *)
(* bytes it led to in the source.                                          *)
(***************************************************************************)
EXTENDS Remux, Functions, PlacesProofs

-----------------------------------------------------------------------------
(* Sums.  A sum over a finite set may be taken in any order. *)

SumIs(f, iter, S) ==
    iter = [s \in SUBSET S |-> IF s = {} THEN 0
                               ELSE f[CHOOSE x \in s : TRUE] + iter[s \ {CHOOSE x \in s : TRUE}]]
Sum(f, S) == (CHOOSE iter : SumIs(f, iter, S))[S]

LEMMA SumByChoice ==
    ASSUME NEW f
    PROVE  SumFunction(f) = Sum(f, DOMAIN f)
BY DEF SumFunction, SumFunctionOnSet, FoldFunctionOnSet, MapThenFoldSet, SumIs, Sum

(* The partial sums of the sets of at most k. *)
UpTo(S, k) == {s \in SUBSET S : Cardinality(s) <= k}
PartSum(f, iter, S, k) ==
    iter = [s \in UpTo(S, k) |-> IF s = {} THEN 0
                                 ELSE f[CHOOSE x \in s : TRUE] + iter[s \ {CHOOSE x \in s : TRUE}]]

LEMMA OneLess ==
    ASSUME NEW S, IsFiniteSet(S), NEW s \in SUBSET S, NEW x \in s
    PROVE  /\ IsFiniteSet(s) /\ Cardinality(s) \in Nat /\ Cardinality(s) >= 1
           /\ IsFiniteSet(s \ {x}) /\ Cardinality(s \ {x}) = Cardinality(s) - 1 /\ s \ {x} \in SUBSET S
<1>1. IsFiniteSet(s) /\ Cardinality(s) \in Nat
  BY FS_Subset, FS_CardinalityType
<1>2. IsFiniteSet(s \ {x}) /\ Cardinality(s \ {x}) = Cardinality(s) - 1
  BY <1>1, FS_RemoveElement
<1>3. Cardinality(s) # 0
  BY <1>1, FS_EmptySet
<1> QED
  BY <1>1, <1>2, <1>3

LEMMA PartSums ==
    ASSUME NEW f, NEW S, IsFiniteSet(S), NEW k \in Nat
    PROVE  \E iter : PartSum(f, iter, S, k)
<1> DEFINE T == {n \in Nat : ~\E iter : PartSum(f, iter, S, n)}
<1> SUFFICES ASSUME T # {} PROVE FALSE
  OBVIOUS
<1>1. PICK n \in T : \A y \in T : n <= y
  BY Least
<1>2. n # 0
  <2> DEFINE iter == [s \in UpTo(S, 0) |-> 0]
  <2>1. \A s \in UpTo(S, 0) : s = {}
    <3> SUFFICES ASSUME NEW s \in UpTo(S, 0) PROVE s = {}
      OBVIOUS
    <3>1. IsFiniteSet(s) /\ Cardinality(s) <= 0 /\ Cardinality(s) \in Nat
      BY FS_Subset, FS_CardinalityType DEF UpTo
    <3> QED
      BY <3>1, FS_EmptySet
  <2>2. PartSum(f, iter, S, 0)
    BY <2>1 DEF PartSum
  <2> QED
    BY <2>2
<1>3. n - 1 \in Nat /\ n - 1 \notin T
  BY <1>1, <1>2
<1>4. PICK g : PartSum(f, g, S, n - 1)
  BY <1>3
<1> DEFINE v(s) == IF s = {} THEN 0 ELSE f[CHOOSE x \in s : TRUE] + g[s \ {CHOOSE x \in s : TRUE}]
           h == [s \in UpTo(S, n) |-> v(s)]
<1>5. \A s \in UpTo(S, n - 1) : g[s] = v(s)
  BY <1>4 DEF PartSum
<1>6. ASSUME NEW s \in UpTo(S, n), s # {}
      PROVE  s \ {CHOOSE x \in s : TRUE} \in UpTo(S, n - 1)
  <2> DEFINE c == CHOOSE x \in s : TRUE
  <2>1. c \in s /\ s \in SUBSET S /\ Cardinality(s) <= n
    BY <1>6 DEF UpTo
  <2> HIDE DEF c
  <2>2. Cardinality(s) \in Nat /\ Cardinality(s \ {c}) = Cardinality(s) - 1 /\ s \ {c} \in SUBSET S
    BY <2>1, OneLess
  <2>3. Cardinality(s \ {c}) <= n - 1
    BY <2>1, <2>2
  <2> QED
    BY <2>2, <2>3 DEF UpTo, c
<1>7. UpTo(S, n - 1) \subseteq UpTo(S, n)
  <2> SUFFICES ASSUME NEW s \in UpTo(S, n - 1) PROVE s \in UpTo(S, n)
    OBVIOUS
  <2>1. s \in SUBSET S /\ Cardinality(s) <= n - 1
    BY DEF UpTo
  <2>2. Cardinality(s) \in Nat
    BY <2>1, FS_Subset, FS_CardinalityType
  <2> QED
    BY <1>1, <2>1, <2>2 DEF UpTo
<1>8. \A s \in UpTo(S, n - 1) : h[s] = g[s]
  BY <1>5, <1>7
<1>9. PartSum(f, h, S, n)
  <2>1. \A s \in UpTo(S, n) : s # {} => h[s \ {CHOOSE x \in s : TRUE}] = g[s \ {CHOOSE x \in s : TRUE}]
    BY <1>6, <1>8
  <2> DEFINE w(s) == IF s = {} THEN 0 ELSE f[CHOOSE x \in s : TRUE] + h[s \ {CHOOSE x \in s : TRUE}]
  <2>2. ASSUME NEW s \in UpTo(S, n) PROVE v(s) = w(s)
    <3> HIDE DEF h
    <3>1. CASE s = {}
      BY <3>1
    <3>2. CASE s # {}
      <4>1. h[s \ {CHOOSE x \in s : TRUE}] = g[s \ {CHOOSE x \in s : TRUE}]
        BY <2>1, <3>2
      <4> QED
        BY <3>2, <4>1
    <3> QED
      BY <3>1, <3>2
  <2>3. h = [s \in UpTo(S, n) |-> v(s)]
    OBVIOUS
  <2> HIDE DEF v, h
  <2>4. h = [s \in UpTo(S, n) |-> w(s)]
    <3> HIDE DEF w
    <3> QED
      BY <2>2, <2>3
  <2> QED
    BY <2>4 DEF PartSum
<1> QED
  BY <1>1, <1>9

LEMMA SumExists ==
    ASSUME NEW f, NEW S, IsFiniteSet(S)
    PROVE  \E iter : SumIs(f, iter, S)
<1> DEFINE n == Cardinality(S)
<1>1. n \in Nat
  BY FS_CardinalityType
<1>2. PICK iter : PartSum(f, iter, S, n)
  BY <1>1, PartSums
<1>3. UpTo(S, n) = SUBSET S
  BY FS_Subset DEF UpTo
<1> QED
  BY <1>2, <1>3 DEF PartSum, SumIs

(* Two sums of one function agree wherever both are. *)
LEMMA SumsAgree ==
    ASSUME NEW f, NEW S, IsFiniteSet(S), NEW R \in SUBSET S, NEW g, NEW h, SumIs(f, g, S), SumIs(f, h, R),
           NEW s \in SUBSET R
    PROVE  g[s] = h[s]
<1> DEFINE Bad == {z \in SUBSET R : g[z] # h[z]}
           T == {Cardinality(z) : z \in Bad}
<1> SUFFICES ASSUME Bad # {} PROVE FALSE
  OBVIOUS
<1>1. T \subseteq Nat /\ T # {}
  <2>1. \A z \in SUBSET R : Cardinality(z) \in Nat
    BY FS_Subset, FS_CardinalityType
  <2> QED
    BY <2>1
<1>2. PICK k \in T : \A y \in T : k <= y
  BY <1>1, Least
<1>3. PICK z \in Bad : Cardinality(z) = k
  BY <1>2
<1>4. g[{}] = 0 /\ h[{}] = 0
  BY DEF SumIs
<1>5. z # {}
  BY <1>3, <1>4
<1> DEFINE c == CHOOSE x \in z : TRUE
<1>6. c \in z /\ z \in SUBSET S
  BY <1>3, <1>5
<1>7. g[z] = f[c] + g[z \ {c}] /\ h[z] = f[c] + h[z \ {c}]
  BY <1>3, <1>5, <1>6 DEF SumIs
<1> HIDE DEF c
<1>8. Cardinality(z) \in Nat /\ Cardinality(z \ {c}) = Cardinality(z) - 1
  BY <1>6, OneLess
<1>9. z \ {c} \notin Bad
  <2>1. ~(k <= Cardinality(z \ {c}))
    BY <1>3, <1>8
  <2> QED
    BY <1>2, <2>1
<1> QED
  BY <1>3, <1>7, <1>9

LEMMA SumChosen ==
    ASSUME NEW f, NEW S, IsFiniteSet(S)
    PROVE  /\ Sum(f, {}) = 0
           /\ S # {} => Sum(f, S) = f[CHOOSE x \in S : TRUE] + Sum(f, S \ {CHOOSE x \in S : TRUE})
<1> DEFINE g(R) == CHOOSE iter : SumIs(f, iter, R)
<1>1. \A R \in SUBSET S : SumIs(f, g(R), R)
  <2> SUFFICES ASSUME NEW R \in SUBSET S PROVE SumIs(f, g(R), R)
    OBVIOUS
  <2>1. \E iter : SumIs(f, iter, R)
    BY FS_Subset, SumExists
  <2> QED
    BY <2>1
<1>2. \A R \in SUBSET S : Sum(f, R) = g(R)[R]
  BY DEF Sum
<1> HIDE DEF g
<1>3. Sum(f, {}) = 0
  BY <1>1, <1>2 DEF SumIs
<1>4. ASSUME S # {}
      PROVE  Sum(f, S) = f[CHOOSE x \in S : TRUE] + Sum(f, S \ {CHOOSE x \in S : TRUE})
  <2> DEFINE c == CHOOSE x \in S : TRUE
             R == S \ {c}
  <2>1. g(S)[S] = f[c] + g(S)[R]
    BY <1>1, <1>4 DEF SumIs
  <2>2. R \in SUBSET S
    OBVIOUS
  <2> HIDE DEF c, R
  <2>3. g(S)[R] = g(R)[R]
    BY <1>1, <2>2, SumsAgree
  <2> QED
    BY <1>2, <2>1, <2>2, <2>3 DEF c, R
<1> QED
  BY <1>3, <1>4

(* Of a family of sets, one that has no smaller one by an element less. *)
LEMMA LeastSet ==
    ASSUME NEW S, IsFiniteSet(S), NEW B, B \subseteq SUBSET S, B # {}
    PROVE  \E z \in B : \A c \in z : z \ {c} \notin B
<1> DEFINE T == {Cardinality(z) : z \in B}
<1>1. \A z \in SUBSET S : Cardinality(z) \in Nat
  BY FS_Subset, FS_CardinalityType
<1>2. T \subseteq Nat /\ T # {}
  BY <1>1
<1>3. PICK k \in T : \A y \in T : k <= y
  BY <1>2, Least
<1>4. PICK z \in B : Cardinality(z) = k
  BY <1>3
<1>5. ASSUME NEW c \in z PROVE z \ {c} \notin B
  <2>1. Cardinality(z) \in Nat /\ Cardinality(z \ {c}) = Cardinality(z) - 1
    BY OneLess
  <2>2. ~(k <= Cardinality(z \ {c}))
    BY <1>4, <2>1
  <2> QED
    BY <1>3, <2>2
<1> QED
  BY <1>4, <1>5

LEMMA SumNat ==
    ASSUME NEW f, NEW S, IsFiniteSet(S), \A x \in S : f[x] \in Nat
    PROVE  Sum(f, S) \in Nat
<1> DEFINE B == {z \in SUBSET S : Sum(f, z) \notin Nat}
<1> SUFFICES ASSUME B # {} PROVE FALSE
  BY DEF B
<1>1. PICK z \in B : \A c \in z : z \ {c} \notin B
  <2>1. B \subseteq SUBSET S
    OBVIOUS
  <2> HIDE DEF B
  <2> QED
    BY <2>1, LeastSet
<1>2. IsFiniteSet(z) /\ z \in SUBSET S /\ Sum(f, z) \notin Nat
  BY FS_Subset
<1>3. z # {}
  <2>1. Sum(f, {}) = 0
    BY SumChosen
  <2> QED
    BY <1>2, <2>1
<1> DEFINE c == CHOOSE x \in z : TRUE
<1>4. c \in z /\ Sum(f, z) = f[c] + Sum(f, z \ {c})
  BY <1>2, <1>3, SumChosen
<1> HIDE DEF c
<1>5. Sum(f, z \ {c}) \in Nat
  BY <1>1, <1>2, <1>4
<1>6. f[c] \in Nat
  BY <1>2, <1>4
<1> DEFINE p == f[c]
           q == Sum(f, z \ {c})
           r == Sum(f, z)
<1>7. p \in Nat /\ q \in Nat /\ r = p + q /\ r \notin Nat
  BY <1>2, <1>4, <1>5, <1>6
<1> HIDE DEF p, q, r
<1> QED
  BY <1>7

LEMMA SumTake ==
    ASSUME NEW f, NEW S, IsFiniteSet(S), \A x \in S : f[x] \in Nat, NEW a \in S
    PROVE  /\ Sum(f, S) = f[a] + Sum(f, S \ {a})
           /\ Sum(f, S) \in Nat /\ Sum(f, S \ {a}) \in Nat
<1>0. \A z \in SUBSET S : IsFiniteSet(z) /\ Sum(f, z) \in Nat
  <2> SUFFICES ASSUME NEW z \in SUBSET S PROVE IsFiniteSet(z) /\ Sum(f, z) \in Nat
    OBVIOUS
  <2>1. IsFiniteSet(z) /\ \A x \in z : f[x] \in Nat
    BY FS_Subset
  <2> QED
    BY <2>1, SumNat
<1> DEFINE B == {z \in SUBSET S : \E x \in z : Sum(f, z) # f[x] + Sum(f, z \ {x})}
<1>1. B = {}
  <2> SUFFICES ASSUME B # {} PROVE FALSE
    OBVIOUS
  <2>1. PICK z \in B : \A c \in z : z \ {c} \notin B
    <3>1. B \subseteq SUBSET S
      OBVIOUS
    <3> HIDE DEF B
    <3> QED
      BY <3>1, LeastSet
  <2>2. PICK x \in z : Sum(f, z) # f[x] + Sum(f, z \ {x})
    BY <2>1
  <2>3. z \in SUBSET S /\ IsFiniteSet(z)
    BY <1>0, <2>1
  <2> DEFINE c == CHOOSE e \in z : TRUE
  <2>4. c \in z /\ Sum(f, z) = f[c] + Sum(f, z \ {c})
    BY <2>2, <2>3, SumChosen
  <2> HIDE DEF c
  <2>5. x # c
    BY <2>2, <2>4
  <2> DEFINE u == z \ {c}
             w == z \ {x}
             both == z \ {c, x}
  <2>6. /\ u \in SUBSET S /\ w \in SUBSET S /\ x \in u /\ c \in w
        /\ u \ {x} = both /\ w \ {c} = both /\ both \in SUBSET S /\ u \notin B /\ w \notin B
    BY <2>1, <2>2, <2>3, <2>4, <2>5
  <2>7. Sum(f, z) = f[c] + Sum(f, u)
    BY <2>4
  <2>8. Sum(f, z) # f[x] + Sum(f, w)
    BY <2>2
  <2> HIDE DEF u, w, both
  <2>9. Sum(f, u) = f[x] + Sum(f, both) /\ Sum(f, w) = f[c] + Sum(f, both)
    BY <2>6
  <2>10. f[x] \in Nat /\ f[c] \in Nat /\ Sum(f, both) \in Nat
    BY <1>0, <2>2, <2>3, <2>4, <2>6
  <2> DEFINE p == f[x]
             q == f[c]
             r == Sum(f, both)
             l == Sum(f, z)
             lu == Sum(f, u)
             lw == Sum(f, w)
  <2>11. p \in Nat /\ q \in Nat /\ r \in Nat /\ l = q + lu /\ l # p + lw /\ lu = p + r /\ lw = q + r
    BY <2>7, <2>8, <2>9, <2>10
  <2> HIDE DEF p, q, r, l, lu, lw
  <2> QED
    BY <2>11
<1>2. S \ {a} \in SUBSET S /\ S \in SUBSET S
  OBVIOUS
<1> QED
  BY <1>0, <1>1, <1>2

LEMMA SumSame ==
    ASSUME NEW f, NEW g, NEW S, IsFiniteSet(S), \A x \in S : f[x] = g[x]
    PROVE  Sum(f, S) = Sum(g, S)
<1> DEFINE B == {z \in SUBSET S : Sum(f, z) # Sum(g, z)}
<1> SUFFICES ASSUME B # {} PROVE FALSE
  BY DEF B
<1>1. PICK z \in B : \A c \in z : z \ {c} \notin B
  <2>1. B \subseteq SUBSET S
    OBVIOUS
  <2> HIDE DEF B
  <2> QED
    BY <2>1, LeastSet
<1>2. IsFiniteSet(z) /\ z \in SUBSET S
  BY FS_Subset
<1>3. z # {}
  BY <1>2, SumChosen
<1> DEFINE c == CHOOSE x \in z : TRUE
<1>4. c \in z /\ Sum(f, z) = f[c] + Sum(f, z \ {c}) /\ Sum(g, z) = g[c] + Sum(g, z \ {c})
  BY <1>2, <1>3, SumChosen
<1> HIDE DEF c
<1>5. Sum(f, z \ {c}) = Sum(g, z \ {c}) /\ f[c] = g[c]
  BY <1>1, <1>2, <1>4
<1> QED
  BY <1>4, <1>5

LEMMA SumUnion ==
    ASSUME NEW f, NEW A, NEW C, IsFiniteSet(A), IsFiniteSet(C), A \cap C = {}, \A x \in A \cup C : f[x] \in Nat
    PROVE  /\ IsFiniteSet(A \cup C) /\ Sum(f, A \cup C) = Sum(f, A) + Sum(f, C)
           /\ Sum(f, A) \in Nat /\ Sum(f, C) \in Nat
<1>1. \A z \in SUBSET A : IsFiniteSet(z) /\ IsFiniteSet(z \cup C)
  BY FS_Subset, FS_Union
<1>2. \A z \in SUBSET A : Sum(f, z) \in Nat /\ Sum(f, z \cup C) \in Nat
  <2> SUFFICES ASSUME NEW z \in SUBSET A PROVE Sum(f, z) \in Nat /\ Sum(f, z \cup C) \in Nat
    OBVIOUS
  <2>1. IsFiniteSet(z) /\ \A x \in z : f[x] \in Nat
    BY <1>1
  <2>2. IsFiniteSet(z \cup C) /\ \A x \in z \cup C : f[x] \in Nat
    BY <1>1
  <2> QED
    BY <2>1, <2>2, SumNat
<1>3. Sum(f, C) \in Nat
  BY SumNat
<1> DEFINE B == {z \in SUBSET A : Sum(f, z \cup C) # Sum(f, z) + Sum(f, C)}
<1>4. B = {}
  <2> SUFFICES ASSUME B # {} PROVE FALSE
    OBVIOUS
  <2>1. PICK z \in B : \A c \in z : z \ {c} \notin B
    <3>1. B \subseteq SUBSET A
      OBVIOUS
    <3> HIDE DEF B
    <3> QED
      BY <3>1, LeastSet
  <2>2. Sum(f, z \cup C) # Sum(f, z) + Sum(f, C)
    BY <2>1
  <2>3. z # {}
    <3>1. Sum(f, {}) = 0
      BY SumChosen
    <3>2. ({} \cup C) = C
      OBVIOUS
    <3> QED
      BY <1>3, <2>2, <3>1, <3>2
  <2>4. PICK c \in z : TRUE
    BY <2>3
  <2> DEFINE u == z \ {c}
             v == z \cup C
             w == u \cup C
  <2>5. u \in SUBSET A /\ u \notin B /\ v \ {c} = w /\ c \in v /\ z \in SUBSET A
    BY <2>1, <2>4
  <2>6. Sum(f, w) = Sum(f, u) + Sum(f, C)
    BY <2>5
  <2>7. Sum(f, v) # Sum(f, z) + Sum(f, C)
    BY <2>2
  <2>8. IsFiniteSet(v) /\ (\A x \in v : f[x] \in Nat) /\ IsFiniteSet(z) /\ (\A x \in z : f[x] \in Nat)
    BY <1>1, <2>5
  <2>9. Sum(f, z) = f[c] + Sum(f, u)
    BY <2>8, SumTake
  <2>10. Sum(f, v) = f[c] + Sum(f, w)
    <3> HIDE DEF v
    <3>1. Sum(f, v) = f[c] + Sum(f, v \ {c})
      BY <2>5, <2>8, SumTake
    <3> QED
      BY <2>5, <3>1
  <2> HIDE DEF u, v, w
  <2>11. f[c] \in Nat /\ Sum(f, u) \in Nat
    BY <1>2, <2>4, <2>5, <2>8
  <2> DEFINE p == f[c]
             q == Sum(f, u)
             r == Sum(f, C)
             lv == Sum(f, v)
             lz == Sum(f, z)
             lw == Sum(f, w)
  <2>12. p \in Nat /\ q \in Nat /\ r \in Nat /\ lw = q + r /\ lv # lz + r /\ lz = p + q /\ lv = p + lw
    BY <1>3, <2>6, <2>7, <2>9, <2>10, <2>11
  <2> HIDE DEF p, q, r, lv, lz, lw
  <2> QED
    BY <2>12
<1>5. A \in SUBSET A
  OBVIOUS
<1> QED
  BY <1>1, <1>2, <1>3, <1>4, <1>5

Carries(h, f, A, g, C) == h \in Bijection(A, C) /\ \A x \in A : f[x] \in Nat /\ f[x] = g[h[x]]
LEMMA SumMoved ==
    ASSUME NEW f, NEW g, NEW A, NEW C, NEW h, IsFiniteSet(A), Carries(h, f, A, g, C)
    PROVE  Sum(f, A) = Sum(g, C) /\ IsFiniteSet(C)
<1> DEFINE image(z) == {h[x] : x \in z}
           B == {z \in SUBSET A : Sum(f, z) # Sum(g, image(z))}
<1>c. h \in Bijection(A, C) /\ (\A x \in A : f[x] = g[h[x]]) /\ \A x \in A : f[x] \in Nat
  BY DEF Carries
<1>0. h \in [A -> C] /\ (\A x, y \in A : h[x] = h[y] => x = y) /\ (\A z \in C : \E x \in A : h[x] = z)
  BY <1>c DEF Bijection, Injection, Surjection, IsInjective
<1>1. \A z \in SUBSET A : IsFiniteSet(z) /\ IsFiniteSet(image(z)) /\ \A y \in image(z) : g[y] \in Nat
  <2> SUFFICES ASSUME NEW z \in SUBSET A
               PROVE IsFiniteSet(z) /\ IsFiniteSet(image(z)) /\ \A y \in image(z) : g[y] \in Nat
    OBVIOUS
  <2>1. IsFiniteSet(z)
    BY FS_Subset
  <2> DEFINE hz == [x \in z |-> h[x]]
  <2>2. hz \in Surjection(z, image(z))
    BY <1>0 DEF Surjection
  <2>3. IsFiniteSet(image(z))
    <3> HIDE DEF hz
    <3> DEFINE iz == image(z)
    <3>1. hz \in Surjection(z, iz)
      BY <2>2
    <3> HIDE DEF iz
    <3>2. IsFiniteSet(iz)
      BY <2>1, <3>1, FS_Surjection
    <3> QED
      BY <3>2 DEF iz
  <2>4. \A y \in image(z) : g[y] \in Nat
    BY <1>c
  <2> QED
    BY <2>1, <2>3, <2>4
<1>4. B = {}
  <2> SUFFICES ASSUME B # {} PROVE FALSE
    OBVIOUS
  <2>1. PICK z \in B : \A c \in z : z \ {c} \notin B
    <3>1. B \subseteq SUBSET A
      OBVIOUS
    <3> HIDE DEF B
    <3> QED
      BY <3>1, LeastSet
  <2>2. Sum(f, z) # Sum(g, image(z)) /\ z \in SUBSET A
    BY <2>1
  <2>3. z # {}
    <3>1. Sum(f, {}) = 0 /\ Sum(g, {}) = 0
      BY FS_EmptySet, SumChosen
    <3>2. image({}) = {}
      OBVIOUS
    <3> HIDE DEF image
    <3> QED
      BY <2>2, <3>1, <3>2
  <2>4. PICK c \in z : TRUE
    BY <2>3
  <2> DEFINE u == z \ {c}
             iz == image(z)
             iu == image(u)
  <2>5. u \in SUBSET A /\ u \notin B
    BY <2>1, <2>2, <2>4
  <2>6. iz \ {h[c]} = iu /\ h[c] \in iz
    BY <1>0, <2>2, <2>4
  <2>7. Sum(f, u) = Sum(g, iu) /\ Sum(f, z) # Sum(g, iz)
    BY <2>2, <2>5
  <2>8. IsFiniteSet(z) /\ (\A x \in z : f[x] \in Nat) /\ IsFiniteSet(iz) /\ (\A y \in iz : g[y] \in Nat) /\ f[c] = g[h[c]]
    BY <1>c, <1>1, <2>2, <2>4
  <2>9. Sum(f, z) = f[c] + Sum(f, u)
    <3> HIDE DEF B, image
    <3>1. Sum(f, z) = f[c] + Sum(f, z \ {c})
      BY <2>4, <2>8, SumTake
    <3> QED
      BY <3>1
  <2> HIDE DEF u, iz, iu, image, B
  <2>10. Sum(g, iz) = g[h[c]] + Sum(g, iu)
    <3>1. Sum(g, iz) = g[h[c]] + Sum(g, iz \ {h[c]})
      BY <2>6, <2>8, SumTake
    <3> QED
      BY <2>6, <3>1
  <2> QED
    BY <2>7, <2>8, <2>9, <2>10
<1>5. A \in SUBSET A /\ image(A) = C
  BY <1>0
<1> QED
  BY <1>1, <1>4, <1>5

(* A sum part by part. *)
PartOf(S, p, i) == {x \in S : p[x] = i}
LEMMA SumOfParts ==
    ASSUME NEW f, NEW S, IsFiniteSet(S), NEW I, IsFiniteSet(I), NEW p, \A x \in S : p[x] \in I /\ f[x] \in Nat,
           NEW sums, \A i \in I : sums[i] = Sum(f, PartOf(S, p, i))
    PROVE  Sum(f, S) = Sum(sums, I) /\ \A i \in I : sums[i] \in Nat
<1> DEFINE P(J) == {x \in S : p[x] \in J}
           B == {J \in SUBSET I : Sum(f, P(J)) # Sum(sums, J)}
<1>1. \A J \in SUBSET I : IsFiniteSet(J) /\ IsFiniteSet(P(J)) /\ P(J) \in SUBSET S
  BY FS_Subset
<1>2. \A i \in I : sums[i] \in Nat /\ IsFiniteSet(PartOf(S, p, i))
  <2> SUFFICES ASSUME NEW i \in I PROVE sums[i] \in Nat /\ IsFiniteSet(PartOf(S, p, i))
    OBVIOUS
  <2>1. PartOf(S, p, i) \in SUBSET S
    BY DEF PartOf
  <2>2. IsFiniteSet(PartOf(S, p, i)) /\ \A x \in PartOf(S, p, i) : f[x] \in Nat
    BY <2>1, FS_Subset
  <2>3. Sum(f, PartOf(S, p, i)) \in Nat
    BY <2>2, SumNat
  <2> QED
    BY <2>2, <2>3
<1>3. B = {}
  <2> SUFFICES ASSUME B # {} PROVE FALSE
    OBVIOUS
  <2>1. PICK J \in B : \A c \in J : J \ {c} \notin B
    <3>1. B \subseteq SUBSET I
      OBVIOUS
    <3> HIDE DEF B
    <3> QED
      BY <3>1, LeastSet
  <2>2. Sum(f, P(J)) # Sum(sums, J) /\ J \in SUBSET I /\ IsFiniteSet(J)
    BY <1>1, <2>1
  <2>3. J # {}
    <3>1. Sum(f, {}) = 0 /\ Sum(sums, {}) = 0
      BY FS_EmptySet, SumChosen
    <3>2. P({}) = {}
      OBVIOUS
    <3> HIDE DEF P
    <3> QED
      BY <2>2, <3>1, <3>2
  <2>4. PICK c \in J : TRUE
    BY <2>3
  <2> DEFINE u == J \ {c}
             a == P(u)
             d == PartOf(S, p, c)
             w == P(J)
  <2>5. u \in SUBSET I /\ u \notin B /\ c \in I
    BY <2>1, <2>2, <2>4
  <2>6. w = a \cup d /\ a \cap d = {} /\ a \in SUBSET S /\ d \in SUBSET S
    BY <2>2, <2>4 DEF PartOf
  <2>7. IsFiniteSet(a) /\ IsFiniteSet(d)
    BY <2>6, FS_Subset
  <2>8. Sum(f, a) = Sum(sums, u) /\ Sum(f, w) # Sum(sums, J) /\ sums[c] = Sum(f, d)
    BY <2>2, <2>5
  <2>9. Sum(sums, J) = sums[c] + Sum(sums, u) /\ Sum(sums, u) \in Nat
    <3> HIDE DEF B, P
    <3>1. \A i \in J : sums[i] \in Nat
      BY <1>2, <2>2
    <3>2. Sum(sums, J) = sums[c] + Sum(sums, J \ {c}) /\ Sum(sums, J \ {c}) \in Nat
      BY <2>2, <2>4, <3>1, SumTake
    <3> QED
      BY <3>2
  <2> HIDE DEF u, a, d, w, P, B
  <2>10. Sum(f, w) = Sum(f, a) + Sum(f, d) /\ Sum(f, a) \in Nat /\ Sum(f, d) \in Nat
    <3>1. \A x \in a \cup d : f[x] \in Nat
      BY <2>6
    <3>2. Sum(f, a \cup d) = Sum(f, a) + Sum(f, d) /\ Sum(f, a) \in Nat /\ Sum(f, d) \in Nat
      BY <2>6, <2>7, <3>1, SumUnion
    <3> QED
      BY <2>6, <3>2
  <2> DEFINE k == Sum(f, a)
             l == Sum(f, d)
             m == Sum(f, w)
             n == Sum(sums, J)
             o == Sum(sums, u)
             q == sums[c]
  <2>11. k \in Nat /\ l \in Nat /\ m = k + l /\ k = o /\ m # n /\ q = l /\ n = q + o
    BY <2>8, <2>9, <2>10
  <2> HIDE DEF k, l, m, n, o, q
  <2> QED
    BY <2>11
<1>4. I \in SUBSET I /\ P(I) = S
  OBVIOUS
<1>5. Sum(f, S) = Sum(sums, I)
  BY <1>3, <1>4
<1> QED
  BY <1>2, <1>5

-----------------------------------------------------------------------------
(* Sums along a sequence. *)

LEMMA Numbers ==
    ASSUME NEW n \in Nat
    PROVE  IsFiniteSet(1..n) /\ Cardinality(1..n) = n
<1>1. n \in Int /\ 1 \in Int
  OBVIOUS
<1>2. IsFiniteSet(1..n) /\ Cardinality(1..n) = IF 1 > n THEN 0 ELSE n - 1 + 1
  BY <1>1, FS_Interval
<1> QED
  BY <1>2

LEMMA SumNone == ASSUME NEW f PROVE Sum(f, 1..0) = 0
<1>1. 1..0 = {}
  OBVIOUS
<1>2. Sum(f, {}) = 0
  BY FS_EmptySet, SumChosen
<1> QED
  BY <1>1, <1>2

LEMMA SumNext ==
    ASSUME NEW f, NEW n \in Nat, \A i \in 1..(n + 1) : f[i] \in Nat
    PROVE  /\ Sum(f, 1..(n + 1)) = Sum(f, 1..n) + f[n + 1]
           /\ Sum(f, 1..(n + 1)) \in Nat /\ Sum(f, 1..n) \in Nat /\ f[n + 1] \in Nat
<1> DEFINE S == 1..(n + 1)
           a == n + 1
<1>1. IsFiniteSet(S) /\ a \in S /\ \A i \in S : f[i] \in Nat
  BY Numbers
<1>2. S \ {a} = 1..n
  OBVIOUS
<1> HIDE DEF S, a
<1>3. Sum(f, S) = f[a] + Sum(f, S \ {a}) /\ Sum(f, S) \in Nat /\ Sum(f, S \ {a}) \in Nat /\ f[a] \in Nat
  BY <1>1, SumTake
<1>4. Sum(f, S) = f[a] + Sum(f, 1..n) /\ Sum(f, S) \in Nat /\ Sum(f, 1..n) \in Nat /\ f[a] \in Nat
  BY <1>2, <1>3
<1> DEFINE x == Sum(f, S)
           y == Sum(f, 1..n)
           z == f[a]
<1>5. x = z + y /\ x \in Nat /\ y \in Nat /\ z \in Nat
  BY <1>4
<1>6. x = y + z
  <2> HIDE DEF x, y, z
  <2> QED
    BY <1>5
<1> QED
  BY <1>5, <1>6 DEF S, a

LEMMA SumUpTo ==
    ASSUME NEW f, NEW n \in Nat, \A i \in 1..n : f[i] \in Nat
    PROVE  Sum(f, 1..n) \in Nat
BY Numbers, SumNat

(* A sum grows with what is summed. *)
LEMMA SumGrows ==
    ASSUME NEW f, NEW n \in Nat, \A i \in 1..n : f[i] \in Nat, NEW k \in 1..n
    PROVE  /\ Sum(f, 1..(k - 1)) \in Nat /\ Sum(f, 1..n) \in Nat /\ f[k] \in Nat
           /\ Sum(f, 1..(k - 1)) + f[k] <= Sum(f, 1..n)
<1> DEFINE T == {j \in Nat : k <= j /\ j <= n /\ ~(Sum(f, 1..(k - 1)) + f[k] <= Sum(f, 1..j))}
<1>0. \A j \in 0..n : Sum(f, 1..j) \in Nat
  <2> SUFFICES ASSUME NEW j \in 0..n PROVE Sum(f, 1..j) \in Nat
    OBVIOUS
  <2>1. \A i \in 1..j : f[i] \in Nat
    OBVIOUS
  <2> QED
    BY <2>1, SumUpTo
<1>1. T = {}
  <2> SUFFICES ASSUME T # {} PROVE FALSE
    OBVIOUS
  <2>1. PICK j \in T : \A y \in T : j <= y
    BY Least
  <2>2. Sum(f, 1..k) = Sum(f, 1..(k - 1)) + f[k]
    <3>1. k - 1 \in Nat /\ (\A i \in 1..((k - 1) + 1) : f[i] \in Nat) /\ (k - 1) + 1 = k
      OBVIOUS
    <3>2. Sum(f, 1..((k - 1) + 1)) = Sum(f, 1..(k - 1)) + f[(k - 1) + 1]
      BY <3>1, SumNext
    <3> QED
      BY <3>1, <3>2
  <2>3. j # k
    <3>1. Sum(f, 1..k) \in Nat
      BY <1>0
    <3> QED
      BY <2>1, <2>2, <3>1
  <2>4. j - 1 \in Nat /\ j - 1 \notin T /\ k <= j - 1 /\ j - 1 <= n
    BY <2>1, <2>3
  <2>5. Sum(f, 1..j) = Sum(f, 1..(j - 1)) + f[j] /\ f[j] \in Nat
    <3>1. j - 1 \in Nat /\ (\A i \in 1..((j - 1) + 1) : f[i] \in Nat) /\ (j - 1) + 1 = j
      BY <2>1, <2>4
    <3>2. Sum(f, 1..((j - 1) + 1)) = Sum(f, 1..(j - 1)) + f[(j - 1) + 1] /\ f[(j - 1) + 1] \in Nat
      BY <3>1, SumNext
    <3> QED
      BY <3>1, <3>2
  <2> DEFINE x == Sum(f, 1..(k - 1)) + f[k]
             y == Sum(f, 1..(j - 1))
             z == f[j]
             w == Sum(f, 1..j)
  <2>6. x \in Nat /\ y \in Nat /\ z \in Nat
    BY <1>0, <2>1, <2>4, <2>5
  <2>7. x <= y /\ ~(x <= w) /\ w = y + z
    BY <2>1, <2>4, <2>5
  <2> HIDE DEF x, y, z, w
  <2> QED
    BY <2>6, <2>7
<1>2. n \in Nat /\ k <= n /\ n <= n
  OBVIOUS
<1> QED
  BY <1>0, <1>1, <1>2

LEMMA SumConcat ==
    ASSUME NEW a \in Seq(Nat), NEW b \in Seq(Nat)
    PROVE  /\ Sum(a \o b, 1..Len(a \o b)) = Sum(a, 1..Len(a)) + Sum(b, 1..Len(b))
           /\ Sum(a, 1..Len(a)) \in Nat /\ Sum(b, 1..Len(b)) \in Nat
<1> DEFINE n == Len(a)
           m == Len(b)
           c == a \o b
           B == (n + 1)..(n + m)
           h == [k \in 1..m |-> n + k]
<1>1. c \in Seq(Nat) /\ Joins(c, a, b)
  BY Concat
<1>2. n \in Nat /\ m \in Nat /\ (\A k \in 1..n : a[k] \in Nat) /\ (\A k \in 1..m : b[k] \in Nat)
  OBVIOUS
<1>3. Len(c) = n + m /\ (\A k \in 1..n : c[k] = a[k]) /\ (\A k \in 1..m : c[n + k] = b[k])
  BY <1>1 DEF Joins
<1>4. \A k \in 1..(n + m) : c[k] \in Nat
  BY <1>1, <1>3
<1>5. 1..(n + m) = (1..n) \cup B /\ (1..n) \cap B = {}
  BY <1>2
<1>6. h \in Bijection(1..m, B)
  <2>1. h \in [1..m -> B]
    BY <1>2
  <2>2. \A k, l \in 1..m : h[k] = h[l] => k = l
    BY <1>2
  <2>3. \A z \in B : \E k \in 1..m : h[k] = z
    <3> SUFFICES ASSUME NEW z \in B PROVE \E k \in 1..m : h[k] = z
      OBVIOUS
    <3>1. z - n \in 1..m /\ h[z - n] = z
      BY <1>2
    <3> QED
      BY <3>1
  <2> QED
    BY <2>1, <2>2, <2>3, Fun_IsBij
<1>7. IsFiniteSet(1..n) /\ IsFiniteSet(1..m)
  BY <1>2, Numbers
<1>8. \A k \in 1..m : b[k] = c[h[k]]
  BY <1>3
<1>9. \A k \in B : c[k] \in Nat
  BY <1>4, <1>5
<1> DEFINE M == 1..m
<1>14. IsFiniteSet(M) /\ h \in Bijection(M, B) /\ (\A k \in M : b[k] = c[h[k]]) /\ \A k \in M : b[k] \in Nat
  BY <1>2, <1>6, <1>7, <1>8
<1> HIDE DEF h, B, c, M, n, m
<1>10. Sum(b, 1..m) = Sum(c, B) /\ IsFiniteSet(B)
  <2>1. IsFiniteSet(M) /\ Carries(h, b, M, c, B)
    BY <1>14 DEF Carries
  <2>5. Sum(b, M) = Sum(c, B) /\ IsFiniteSet(B)
    BY <2>1, SumMoved
  <2> QED
    BY <2>5 DEF M
<1>11. Sum(a, 1..n) = Sum(c, 1..n)
  BY <1>3, <1>7, SumSame
<1>12. \A k \in 1..n : c[k] \in Nat
  BY <1>2, <1>3
<1>13. Sum(c, (1..n) \cup B) = Sum(c, 1..n) + Sum(c, B) /\ Sum(c, 1..n) \in Nat /\ Sum(c, B) \in Nat
  <2>1. \A k \in (1..n) \cup B : c[k] \in Nat
    BY <1>9, <1>12
  <2> QED
    BY <1>5, <1>7, <1>10, <2>1, SumUnion
<1>15. Sum(c, 1..Len(c)) = Sum(a, 1..n) + Sum(b, 1..m) /\ Sum(a, 1..n) \in Nat /\ Sum(b, 1..m) \in Nat
  BY <1>3, <1>5, <1>10, <1>11, <1>13
<1> QED
  BY <1>15 DEF c, n, m

-----------------------------------------------------------------------------
(* What the parts of a flattened sequence add up to. *)


LEMMA FlattenLen ==
    ASSUME NEW S, NEW s \in Seq(Seq(S)), NEW lens, \A i \in 1..Len(s) : lens[i] = Len(s[i])
    PROVE  FlattenSeq(s) \in Seq(S) /\ Len(FlattenSeq(s)) = Sum(lens, 1..Len(s))
<1>0. Len(s) \in Nat /\ \A i \in 1..Len(s) : s[i] \in Seq(S) /\ lens[i] \in Nat
  OBVIOUS
<1>1. FlattenSeq(s) \in Seq(S)
  BY FlattenTogether DEF SameShape
<1>2. CASE Len(s) = 0
  <2>1. FlattenSeq(s) = s
    BY <1>2 DEF FlattenSeq
  <2>2. Sum(lens, 1..0) = 0
    BY SumNone
  <2> QED
    BY <1>1, <1>2, <2>1, <2>2
<1>3. CASE Len(s) # 0
  <2>1. PICK f : Flattens(f, s, Len(s)) /\ FlattenSeq(s) = f[Len(s)]
    BY <1>0, <1>3, FlattenSteps
  <2> DEFINE Ok(i) == f[i] \in Seq(S) /\ Len(f[i]) = Sum(lens, 1..i)
             T == {i \in Nat : 1 <= i /\ i <= Len(s) /\ ~Ok(i)}
  <2>2. T = {}
    <3> SUFFICES ASSUME T # {} PROVE FALSE
      OBVIOUS
    <3>1. PICK i \in T : \A y \in T : i <= y
      BY Least
    <3>2. i \in 1..Len(s) /\ ~Ok(i)
      BY <1>0, <3>1
    <3>3. CASE i = 1
      <4>1. f[i] = s[i]
        BY <2>1, <3>2, <3>3 DEF Flattens
      <4>2. Sum(lens, 1..(0 + 1)) = Sum(lens, 1..0) + lens[0 + 1]
        <5>1. \A j \in 1..(0 + 1) : lens[j] \in Nat
          BY <1>0, <3>2, <3>3
        <5> QED
          BY <5>1, SumNext
      <4>3. Sum(lens, 1..1) = lens[1]
        BY <1>0, <3>2, <3>3, <4>2, SumNone
      <4> QED
        BY <1>0, <3>2, <3>3, <4>1, <4>3
    <3>4. CASE i # 1
      <4>1. i - 1 \in Nat /\ i - 1 \notin T /\ 1 <= i - 1 /\ i - 1 <= Len(s) /\ (i - 1) + 1 = i
        <5> HIDE DEF Ok
        <5>1. i \in Nat /\ i >= 1 /\ i <= Len(s) /\ i - 1 \in Nat /\ ~(i <= i - 1)
          BY <1>0, <3>2, <3>4
        <5>2. i - 1 \notin T
          BY <3>1, <5>1
        <5> QED
          BY <1>0, <3>4, <5>1, <5>2
      <4>2. f[i] = f[i - 1] \o s[i] /\ Ok(i - 1)
        BY <2>1, <3>2, <3>4, <4>1 DEF Flattens
      <4>3. Sum(lens, 1..((i - 1) + 1)) = Sum(lens, 1..(i - 1)) + lens[(i - 1) + 1]
        <5>1. \A j \in 1..((i - 1) + 1) : lens[j] \in Nat
          BY <1>0, <3>2, <4>1
        <5> QED
          BY <4>1, <5>1, SumNext
      <4>4. f[i] \in Seq(S) /\ Len(f[i]) = Len(f[i - 1]) + Len(s[i])
        <5> DEFINE a == f[i - 1]
                   b == s[i]
        <5>1. a \in Seq(S) /\ b \in Seq(S)
          BY <1>0, <3>2, <4>2
        <5> HIDE DEF a, b
        <5>2. a \o b \in Seq(S) /\ Len(a \o b) = Len(a) + Len(b)
          BY <5>1
        <5> QED
          BY <4>2, <5>2 DEF a, b
      <4> QED
        BY <3>2, <4>1, <4>2, <4>3, <4>4
    <3> QED
      BY <3>3, <3>4
  <2>3. Ok(Len(s))
    BY <1>0, <1>3, <2>2
  <2> QED
    BY <1>1, <2>1, <2>3
<1> QED
  BY <1>2, <1>3

LEMMA FlattenSum ==
    ASSUME NEW s \in Seq(Seq(Nat)), NEW sums, \A i \in 1..Len(s) : sums[i] = Sum(s[i], 1..Len(s[i]))
    PROVE  Sum(FlattenSeq(s), 1..Len(FlattenSeq(s))) = Sum(sums, 1..Len(s))
<1>0. Len(s) \in Nat /\ \A i \in 1..Len(s) : s[i] \in Seq(Nat) /\ sums[i] \in Nat
  <2> SUFFICES ASSUME NEW i \in 1..Len(s) PROVE s[i] \in Seq(Nat) /\ sums[i] \in Nat
    OBVIOUS
  <2>1. s[i] \in Seq(Nat)
    OBVIOUS
  <2>2. Sum(s[i], 1..Len(s[i])) \in Nat
    <3>1. Len(s[i]) \in Nat /\ \A k \in 1..Len(s[i]) : s[i][k] \in Nat
      BY <2>1
    <3> QED
      BY <3>1, SumUpTo
  <2> QED
    BY <2>1, <2>2
<1>2. CASE Len(s) = 0
  <2>1. FlattenSeq(s) = s
    BY <1>2 DEF FlattenSeq
  <2>2. Sum(sums, 1..0) = 0 /\ Sum(s, 1..0) = 0
    BY SumNone
  <2> QED
    BY <1>2, <2>1, <2>2
<1>3. CASE Len(s) # 0
  <2>1. PICK f : Flattens(f, s, Len(s)) /\ FlattenSeq(s) = f[Len(s)]
    BY <1>0, <1>3, FlattenSteps
  <2> DEFINE Ok(i) == f[i] \in Seq(Nat) /\ Sum(f[i], 1..Len(f[i])) = Sum(sums, 1..i)
             T == {i \in Nat : 1 <= i /\ i <= Len(s) /\ ~Ok(i)}
  <2>2. T = {}
    <3> SUFFICES ASSUME T # {} PROVE FALSE
      OBVIOUS
    <3>1. PICK i \in T : \A y \in T : i <= y
      BY Least
    <3>2. i \in 1..Len(s) /\ ~Ok(i)
      BY <1>0, <3>1
    <3>3. CASE i = 1
      <4>1. f[i] = s[i]
        BY <2>1, <3>2, <3>3 DEF Flattens
      <4>2. Sum(sums, 1..(0 + 1)) = Sum(sums, 1..0) + sums[0 + 1]
        <5>1. \A j \in 1..(0 + 1) : sums[j] \in Nat
          BY <1>0, <3>2, <3>3
        <5> QED
          BY <5>1, SumNext
      <4>3. Sum(sums, 1..1) = sums[1]
        BY <1>0, <3>2, <3>3, <4>2, SumNone
      <4> QED
        BY <1>0, <3>2, <3>3, <4>1, <4>3
    <3>4. CASE i # 1
      <4>1. i - 1 \in Nat /\ i - 1 \notin T /\ 1 <= i - 1 /\ i - 1 <= Len(s) /\ (i - 1) + 1 = i
        <5> HIDE DEF Ok
        <5>1. i \in Nat /\ i >= 1 /\ i <= Len(s) /\ i - 1 \in Nat /\ ~(i <= i - 1)
          BY <1>0, <3>2, <3>4
        <5>2. i - 1 \notin T
          BY <3>1, <5>1
        <5> QED
          BY <1>0, <3>4, <5>1, <5>2
      <4>2. f[i] = f[i - 1] \o s[i] /\ Ok(i - 1)
        BY <2>1, <3>2, <3>4, <4>1 DEF Flattens
      <4>3. Sum(sums, 1..((i - 1) + 1)) = Sum(sums, 1..(i - 1)) + sums[(i - 1) + 1]
        <5>1. \A j \in 1..((i - 1) + 1) : sums[j] \in Nat
          BY <1>0, <3>2, <4>1
        <5> QED
          BY <4>1, <5>1, SumNext
      <4>4. f[i] \in Seq(Nat) /\ Sum(f[i], 1..Len(f[i])) = Sum(f[i - 1], 1..Len(f[i - 1])) + Sum(s[i], 1..Len(s[i]))
        <5>1. f[i - 1] \in Seq(Nat) /\ s[i] \in Seq(Nat)
          BY <1>0, <3>2, <4>2
        <5> QED
          BY <4>2, <5>1, SumConcat, Concat
      <4> QED
        BY <3>2, <4>1, <4>2, <4>3, <4>4
    <3> QED
      BY <3>3, <3>4
  <2>3. Ok(Len(s))
    BY <1>0, <1>3, <2>2
  <2> QED
    BY <2>1, <2>3
<1> QED
  BY <1>2, <1>3

(* Numbers that go up by one or stay, from one number to another. *)
IsStair(s, a, b) ==
    /\ s \in Seq(Nat) /\ Len(s) > 0
    /\ s[1] = a /\ s[Len(s)] = b
    /\ \A k \in 2..Len(s) : s[k] = s[k - 1] \/ s[k] = s[k - 1] + 1

LEMMA StairsMeet ==
    ASSUME NEW s, NEW t, NEW a, NEW b, NEW c, NEW d, IsStair(s, a, b), IsStair(t, c, d), c = b + 1
    PROVE  IsStair(s \o t, a, d)
<1> DEFINE n == Len(s)
           m == Len(t)
           u == s \o t
<1>1. /\ s \in Seq(Nat) /\ t \in Seq(Nat) /\ n \in Nat /\ n > 0 /\ m \in Nat /\ m > 0
      /\ s[1] = a /\ s[n] = b /\ t[1] = c /\ t[m] = d
      /\ \A k \in 2..n : s[k] = s[k - 1] \/ s[k] = s[k - 1] + 1
      /\ \A k \in 2..m : t[k] = t[k - 1] \/ t[k] = t[k - 1] + 1
  BY DEF IsStair
<1>2. u \in Seq(Nat) /\ Joins(u, s, t)
  BY <1>1, Concat
<1>3. Len(u) = n + m /\ (\A k \in 1..n : u[k] = s[k]) /\ (\A k \in 1..m : u[n + k] = t[k])
  BY <1>2 DEF Joins
<1> HIDE DEF n, m, u
<1>4. u[1] = a /\ u[n + m] = d /\ Len(u) > 0
  <2>1. 1 \in 1..n /\ m \in 1..m
    BY <1>1
  <2> QED
    BY <1>1, <1>3, <2>1
<1>5. ASSUME NEW k \in 2..(n + m) PROVE u[k] = u[k - 1] \/ u[k] = u[k - 1] + 1
  <2>1. CASE k <= n
    <3>1. k \in 1..n /\ k - 1 \in 1..n /\ k \in 2..n
      BY <1>1, <2>1
    <3> QED
      BY <1>1, <1>3, <3>1
  <2>2. CASE k = n + 1
    <3>1. 1 \in 1..m /\ n \in 1..n /\ k - 1 = n
      BY <1>1, <2>2
    <3>2. u[k] = t[1] /\ u[k - 1] = s[n]
      BY <1>3, <2>2, <3>1
    <3> QED
      BY <1>1, <3>2
  <2>3. CASE k > n + 1
    <3>1. k - n \in 2..m /\ (k - n) - 1 \in 1..m /\ k - n \in 1..m /\ n + (k - n) = k /\ n + ((k - n) - 1) = k - 1
      BY <1>1, <2>3
    <3>2. u[k] = t[k - n] /\ u[k - 1] = t[(k - n) - 1]
      BY <1>3, <3>1
    <3> QED
      BY <1>1, <3>1, <3>2
  <2> QED
    BY <1>1, <2>1, <2>2, <2>3
<1>6. IsStair(u, a, d)
  BY <1>2, <1>3, <1>4, <1>5 DEF IsStair
<1> QED
  BY <1>6 DEF u

LEMMA FlattenStairs ==
    ASSUME NEW s, Len(s) \in Nat \ {0}, NEW lo, NEW hi, \A i \in 1..Len(s) : IsStair(s[i], lo[i], hi[i]),
           \A i \in 2..Len(s) : lo[i] = hi[i - 1] + 1
    PROVE  IsStair(FlattenSeq(s), lo[1], hi[Len(s)])
<1>1. PICK f : Flattens(f, s, Len(s)) /\ FlattenSeq(s) = f[Len(s)]
  BY FlattenSteps
<1> DEFINE Ok(i) == IsStair(f[i], lo[1], hi[i])
           T == {i \in Nat : 1 <= i /\ i <= Len(s) /\ ~Ok(i)}
<1>2. T = {}
  <2> SUFFICES ASSUME T # {} PROVE FALSE
    OBVIOUS
  <2>1. PICK i \in T : \A y \in T : i <= y
    BY Least
  <2>2. i \in 1..Len(s) /\ ~Ok(i)
    BY <2>1
  <2>3. CASE i = 1
    <3>1. f[i] = s[i]
      BY <1>1, <2>2, <2>3 DEF Flattens
    <3> QED
      BY <2>2, <2>3, <3>1
  <2>4. CASE i # 1
    <3>1. i - 1 \in Nat /\ i - 1 \notin T /\ 1 <= i - 1 /\ i - 1 <= Len(s) /\ i \in 2..Len(s)
      <4> HIDE DEF Ok
      <4>1. i \in Nat /\ i >= 1 /\ i <= Len(s) /\ i - 1 \in Nat /\ ~(i <= i - 1)
        BY <2>2, <2>4
      <4>2. i - 1 \notin T
        BY <2>1, <4>1
      <4> QED
        BY <2>4, <4>1, <4>2
    <3>2. f[i] = f[i - 1] \o s[i] /\ Ok(i - 1)
      BY <1>1, <2>2, <2>4, <3>1 DEF Flattens
    <3>3. IsStair(s[i], lo[i], hi[i]) /\ lo[i] = hi[i - 1] + 1
      BY <2>2, <3>1
    <3> QED
      BY <2>2, <3>2, <3>3, StairsMeet
  <2> QED
    BY <2>3, <2>4
<1>3. Ok(Len(s))
  BY <1>2
<1> QED
  BY <1>1, <1>3

(* Every step between is trodden. *)
LEMMA StairCovers ==
    ASSUME NEW s, NEW a \in Nat, NEW b \in Nat, IsStair(s, a, b), NEW c \in a..b
    PROVE  \E k \in 1..Len(s) : s[k] = c
<1> DEFINE T == {k \in Nat : 1 <= k /\ k <= Len(s) /\ c <= s[k]}
<1>1. /\ Len(s) \in Nat /\ Len(s) > 0 /\ s[1] = a /\ s[Len(s)] = b /\ (\A k \in 1..Len(s) : s[k] \in Nat)
      /\ \A k \in 2..Len(s) : s[k] = s[k - 1] \/ s[k] = s[k - 1] + 1
  BY DEF IsStair
<1>2. Len(s) \in T
  BY <1>1
<1>3. PICK k \in T : \A y \in T : k <= y
  <2>1. T \subseteq Nat /\ T # {}
    BY <1>2
  <2> HIDE DEF T
  <2> QED
    BY <2>1, Least
<1>4. k \in 1..Len(s) /\ c <= s[k]
  BY <1>1, <1>3
<1>5. CASE k = 1
  BY <1>1, <1>4, <1>5
<1>6. CASE k # 1
  <2>1. k \in 2..Len(s) /\ k - 1 \in 1..Len(s) /\ ~(k <= k - 1)
    BY <1>1, <1>4, <1>6
  <2>2. k - 1 \notin T
    BY <1>3, <2>1
  <2>3. s[k - 1] < c /\ s[k - 1] \in Nat
    BY <1>1, <2>1, <2>2
  <2>4. s[k] = s[k - 1] \/ s[k] = s[k - 1] + 1
    BY <1>1, <2>1
  <2>5. s[k] = c
    BY <1>4, <2>3, <2>4
  <2> QED
    BY <1>4, <2>5
<1> QED
  BY <1>5, <1>6

-----------------------------------------------------------------------------
(* Values carried from one place to the next, anew where something begins. *)

CarriesOn(f, n, anew, start, add) == f = [i \in 1..n |-> IF i \in anew THEN start[i] ELSE f[i - 1] + add[i - 1]]

LEMMA CarriesExists ==
    ASSUME NEW n \in Nat, NEW anew, 1 \in anew, NEW start, NEW add
    PROVE  \E f : CarriesOn(f, n, anew, start, add)
<1> DEFINE T == {m \in Nat : ~\E f : CarriesOn(f, m, anew, start, add)}
<1> SUFFICES ASSUME T # {} PROVE FALSE
  OBVIOUS
<1>1. PICK m \in T : \A y \in T : m <= y
  BY Least
<1>2. m # 0
  <2>1. CarriesOn([i \in 1..0 |-> 0], 0, anew, start, add)
    BY DEF CarriesOn
  <2> QED
    BY <1>1, <2>1
<1>3. m - 1 \in Nat /\ m - 1 \notin T
  BY <1>1, <1>2
<1>4. PICK g : CarriesOn(g, m - 1, anew, start, add)
  BY <1>3
<1> DEFINE h == [i \in 1..m |-> IF i \in anew THEN start[i] ELSE g[i - 1] + add[i - 1]]
<1>5. \A i \in 1..(m - 1) : g[i] = IF i \in anew THEN start[i] ELSE g[i - 1] + add[i - 1]
  BY <1>4 DEF CarriesOn
<1>6. \A i \in 1..(m - 1) : h[i] = g[i]
  <2> SUFFICES ASSUME NEW i \in 1..(m - 1) PROVE h[i] = g[i]
    OBVIOUS
  <2>1. i \in 1..m
    BY <1>1
  <2> QED
    BY <1>5, <2>1
<1>7. ASSUME NEW i \in 1..m
      PROVE  h[i] = IF i \in anew THEN start[i] ELSE h[i - 1] + add[i - 1]
  <2>1. CASE i = 1
    BY <1>7, <2>1
  <2>2. CASE i # 1
    <3>1. i - 1 \in 1..(m - 1)
      BY <1>1, <1>7, <2>2
    <3>2. h[i - 1] = g[i - 1]
      BY <1>6, <3>1
    <3>3. h[i] = IF i \in anew THEN start[i] ELSE g[i - 1] + add[i - 1]
      BY <1>7
    <3> HIDE DEF h
    <3> QED
      BY <3>2, <3>3
  <2> QED
    BY <2>1, <2>2
<1>8. CarriesOn(h, m, anew, start, add)
  <2>1. h = [i \in 1..m |-> h[i]]
    OBVIOUS
  <2> HIDE DEF h
  <2> QED
    BY <1>7, <2>1 DEF CarriesOn
<1> QED
  BY <1>1, <1>8

IsRuns(runs) == runs \in Seq(Nat \X Nat)
IsTable(t) ==
    /\ IsRuns(t.timeToSample)
    /\ t.sampleToChunk \in Seq(Nat \X Nat \X Nat)
    /\ t.sizes \in Seq(Nat)
    /\ t.chunkOffsets \in Seq(Nat)
    /\ t.sync = {} \/ \E numbers \in Seq(Nat) : t.sync = {numbers}
    /\ t.composition = {} \/ \E runs \in Seq(Nat \X Int) : t.composition = {runs}

LEMMA AllOf ==
    ASSUME NEW S, NEW m \in Nat, NEW s, s = [k \in 1..m |-> s[k]], \A k \in 1..m : s[k] \in S
    PROVE  s \in Seq(S) /\ Len(s) = m /\ DOMAIN s = 1..m
<1>1. s \in [1..m -> S]
  OBVIOUS
<1> QED
  BY <1>1

LEMMA ManyTimes ==
    ASSUME NEW n \in Nat, NEW x
    PROVE  /\ DOMAIN Repeated(n, x) = 1..n /\ Len(Repeated(n, x)) = n
           /\ \A S : x \in S => Repeated(n, x) \in Seq(S)
<1>1. Repeated(n, x) = [k \in 1..n |-> x]
  BY DEF Repeated
<1> QED
  BY <1>1

LEMMA SumRepeated ==
    ASSUME NEW n \in Nat, NEW x \in Nat, NEW f, \A k \in 1..n : f[k] = x
    PROVE  Sum(f, 1..n) = n * x
<1> DEFINE T == {m \in Nat : m <= n /\ Sum(f, 1..m) # m * x}
<1>1. T = {}
  <2> SUFFICES ASSUME T # {} PROVE FALSE
    OBVIOUS
  <2>1. PICK m \in T : \A y \in T : m <= y
    BY Least
  <2>2. m # 0
    BY <2>1, SumNone
  <2>3. m - 1 \in Nat /\ m - 1 \notin T /\ m - 1 <= n /\ m \in Nat /\ m <= n
    BY <2>1, <2>2
  <2>4. Sum(f, 1..(m - 1)) = (m - 1) * x
    BY <2>3
  <2>5. Sum(f, 1..((m - 1) + 1)) = Sum(f, 1..(m - 1)) + f[(m - 1) + 1]
    <3>1. \A i \in 1..((m - 1) + 1) : f[i] \in Nat
      BY <2>3
    <3> QED
      BY <2>3, <3>1, SumNext
  <2>6. (m - 1) + 1 = m /\ f[m] = x
    BY <2>2, <2>3
  <2>7. Sum(f, 1..m) = (m - 1) * x + x
    BY <2>4, <2>5, <2>6
  <2>8. (m - 1) * x + x = m * x
    BY <2>3
  <2> QED
    BY <2>1, <2>7, <2>8
<1> QED
  BY <1>1

(* Runs written out: as many samples as they cover, and all together what they say. *)
LEMMA ExpandedRuns ==
    ASSUME NEW runs, IsRuns(runs)
    PROVE  /\ Expanded(runs) \in Seq(Nat)
           /\ Len(Expanded(runs)) = Covered(runs)
           /\ Sum(Expanded(runs), 1..Covered(runs)) = SumFunction([i \in DOMAIN runs |-> runs[i][1] * runs[i][2]])
<1> DEFINE s == [i \in DOMAIN runs |-> Repeated(runs[i][1], runs[i][2])]
           lens == [i \in DOMAIN runs |-> runs[i][1]]
           sums == [i \in DOMAIN runs |-> runs[i][1] * runs[i][2]]
<1>1. DOMAIN runs = 1..Len(runs) /\ Len(runs) \in Nat /\ \A i \in 1..Len(runs) : runs[i][1] \in Nat /\ runs[i][2] \in Nat
  BY DEF IsRuns
<1>2. \A i \in 1..Len(runs) : s[i] \in Seq(Nat) /\ Len(s[i]) = runs[i][1] /\ \A k \in 1..Len(s[i]) : s[i][k] = runs[i][2]
  BY <1>1, ManyTimes DEF Repeated
<1>3. s \in Seq(Seq(Nat)) /\ Len(s) = Len(runs)
  BY <1>1, <1>2
<1>4. \A i \in 1..Len(s) : lens[i] = Len(s[i])
  BY <1>1, <1>2, <1>3
<1>5. \A i \in 1..Len(s) : sums[i] = Sum(s[i], 1..Len(s[i]))
  <2> SUFFICES ASSUME NEW i \in 1..Len(s) PROVE sums[i] = Sum(s[i], 1..Len(s[i]))
    OBVIOUS
  <2>1. runs[i][1] \in Nat /\ runs[i][2] \in Nat /\ Len(s[i]) = runs[i][1] /\ \A k \in 1..runs[i][1] : s[i][k] = runs[i][2]
    BY <1>1, <1>2, <1>3
  <2> HIDE DEF s
  <2>2. Sum(s[i], 1..runs[i][1]) = runs[i][1] * runs[i][2]
    BY <2>1, SumRepeated
  <2> QED
    BY <1>1, <1>3, <2>1, <2>2
<1>6. Expanded(runs) = FlattenSeq(s)
  BY DEF Expanded
<1>7. Covered(runs) = Sum(lens, DOMAIN lens) /\ SumFunction(sums) = Sum(sums, DOMAIN sums)
  BY SumByChoice DEF Covered
<1>8. DOMAIN lens = 1..Len(s) /\ DOMAIN sums = 1..Len(s)
  BY <1>1, <1>3
<1> HIDE DEF s, lens, sums
<1>9. FlattenSeq(s) \in Seq(Nat) /\ Len(FlattenSeq(s)) = Sum(lens, 1..Len(s))
  BY <1>3, <1>4, FlattenLen
<1>10. Sum(FlattenSeq(s), 1..Len(FlattenSeq(s))) = Sum(sums, 1..Len(s))
  BY <1>3, <1>5, FlattenSum
<1>11. /\ Expanded(runs) \in Seq(Nat)
       /\ Len(Expanded(runs)) = Covered(runs)
       /\ Sum(Expanded(runs), 1..Covered(runs)) = SumFunction(sums)
  BY <1>6, <1>7, <1>8, <1>9, <1>10
<1> QED
  BY <1>11 DEF sums

-----------------------------------------------------------------------------
(* The chunks of the samples. *)

ChunksOfRun(t, i) ==
    [k \in 1..(NextFirst(t, i) - t.sampleToChunk[i][1]) |->
        Repeated(t.sampleToChunk[i][2], t.sampleToChunk[i][1] + k - 1)]

LEMMA RunFacts ==
    ASSUME NEW t, IsTable(t), ChunkRunsAscend(t), NEW i \in 1..Len(t.sampleToChunk)
    PROVE  /\ t.sampleToChunk[i][1] \in Nat \ {0} /\ t.sampleToChunk[i][2] \in Nat \ {0}
           /\ NextFirst(t, i) \in Nat /\ NextFirst(t, i) > t.sampleToChunk[i][1]
           /\ Len(t.sampleToChunk) \in Nat /\ DOMAIN t.sampleToChunk = 1..Len(t.sampleToChunk)
           /\ i > 1 => NextFirst(t, i - 1) = t.sampleToChunk[i][1]
           /\ i = Len(t.sampleToChunk) => NextFirst(t, i) = ChunkCount(t) + 1
<1> DEFINE runs == t.sampleToChunk
<1>1. /\ Len(runs) \in Nat /\ DOMAIN runs = 1..Len(runs) /\ ChunkCount(t) \in Nat
      /\ \A j \in 1..Len(runs) : runs[j] \in Nat \X Nat \X Nat
  BY DEF IsTable, ChunkCount
<1>2. \A j \in 1..Len(runs) : runs[j][1] \in Nat /\ runs[j][2] \in Nat
  BY <1>1
<1>3. \A j \in 1..Len(runs) : /\ runs[j][1] > IF j = 1 THEN 0 ELSE runs[j - 1][1]
                              /\ runs[j][1] <= ChunkCount(t)
                              /\ runs[j][2] > 0
  BY <1>1 DEF ChunkRunsAscend
<1>4. runs[i][1] > 0
  <2>1. CASE i = 1
    BY <1>3, <2>1
  <2>2. CASE i # 1
    <3>1. i - 1 \in 1..Len(runs)
      BY <1>1, <2>2
    <3>2. runs[i][1] > runs[i - 1][1] /\ runs[i - 1][1] \in Nat
      BY <1>2, <1>3, <2>2, <3>1
    <3> QED
      BY <1>2, <3>2
  <2> QED
    BY <2>1, <2>2
<1>5. NextFirst(t, i) \in Nat /\ NextFirst(t, i) > runs[i][1]
  <2>1. CASE i < Len(runs)
    <3>1. i + 1 \in 1..Len(runs) /\ i + 1 # 1 /\ (i + 1) - 1 = i
      BY <1>1, <2>1
    <3>2. runs[i + 1][1] > runs[i][1]
      BY <1>3, <3>1
    <3> QED
      BY <1>2, <2>1, <3>1, <3>2 DEF NextFirst
  <2>2. CASE ~(i < Len(runs))
    BY <1>1, <1>2, <1>3, <2>2 DEF NextFirst
  <2> QED
    BY <2>1, <2>2
<1>6. i > 1 => NextFirst(t, i - 1) = runs[i][1]
  <2> SUFFICES ASSUME i > 1 PROVE NextFirst(t, i - 1) = runs[i][1]
    OBVIOUS
  <2>1. i - 1 < Len(runs) /\ (i - 1) + 1 = i
    BY <1>1
  <2> QED
    BY <2>1 DEF NextFirst
<1>7. i = Len(runs) => NextFirst(t, i) = ChunkCount(t) + 1
  BY <1>1 DEF NextFirst
<1> QED
  BY <1>1, <1>2, <1>3, <1>4, <1>5, <1>6, <1>7

LEMMA RunStair ==
    ASSUME NEW t, IsTable(t), ChunkRunsAscend(t), NEW i \in 1..Len(t.sampleToChunk)
    PROVE  LET run == FlattenSeq(ChunksOfRun(t, i)) IN
           /\ IsStair(run, t.sampleToChunk[i][1], NextFirst(t, i) - 1)
           /\ Len(run) = (NextFirst(t, i) - t.sampleToChunk[i][1]) * t.sampleToChunk[i][2]
<1> DEFINE a == t.sampleToChunk[i][1]
           c == t.sampleToChunk[i][2]
           m == NextFirst(t, i) - a
           s == ChunksOfRun(t, i)
           lo == [k \in 1..m |-> a + k - 1]
           lens == [k \in 1..m |-> c]
<1>1. a \in Nat \ {0} /\ c \in Nat \ {0} /\ m \in Nat \ {0} /\ NextFirst(t, i) = a + m
  BY RunFacts
<1>2. s = [k \in 1..m |-> Repeated(c, a + k - 1)]
  BY DEF ChunksOfRun
<1> HIDE DEF a, c, m, s
<1>3. \A k \in 1..m : s[k] \in Seq(Nat) /\ Len(s[k]) = c
  BY <1>1, <1>2, ManyTimes
<1>4. s \in Seq(Seq(Nat)) /\ Len(s) = m
  <2>1. s = [k \in 1..m |-> s[k]]
    BY <1>2
  <2>2. m \in Nat /\ \A k \in 1..m : s[k] \in Seq(Nat)
    BY <1>1, <1>3
  <2> QED
    BY <2>1, <2>2, AllOf
<1>5. \A k \in 1..m : IsStair(s[k], lo[k], lo[k])
  <2> SUFFICES ASSUME NEW k \in 1..m PROVE IsStair(s[k], a + k - 1, a + k - 1)
    OBVIOUS
  <2>1. s[k] = [j \in 1..c |-> a + k - 1]
    BY <1>2 DEF Repeated
  <2> QED
    BY <1>1, <1>3, <2>1 DEF IsStair
<1>6. \A k \in 2..m : lo[k] = lo[k - 1] + 1
  <2> SUFFICES ASSUME NEW k \in 2..m PROVE lo[k] = lo[k - 1] + 1
    OBVIOUS
  <2>1. k \in 1..m /\ k - 1 \in 1..m
    BY <1>1
  <2> QED
    BY <1>1, <2>1
<1>7. lo[1] = a /\ lo[m] = a + m - 1
  BY <1>1
<1>8. \A k \in 1..m : lens[k] = c /\ lens[k] = Len(s[k])
  BY <1>3
<1> HIDE DEF lo, lens
<1>9. IsStair(FlattenSeq(s), lo[1], lo[m])
  <2>1. /\ Len(s) \in Nat \ {0} /\ (\A k \in 1..Len(s) : IsStair(s[k], lo[k], lo[k]))
        /\ \A k \in 2..Len(s) : lo[k] = lo[k - 1] + 1
    BY <1>1, <1>4, <1>5, <1>6
  <2>2. IsStair(FlattenSeq(s), lo[1], lo[Len(s)])
    BY <2>1, FlattenStairs
  <2> QED
    BY <1>4, <2>2
<1>10. Len(FlattenSeq(s)) = m * c
  <2>1. \A k \in 1..Len(s) : lens[k] = Len(s[k])
    BY <1>4, <1>8
  <2>2. Len(FlattenSeq(s)) = Sum(lens, 1..Len(s))
    BY <1>4, <2>1, FlattenLen
  <2>3. Sum(lens, 1..m) = m * c
    BY <1>1, <1>8, SumRepeated
  <2> QED
    BY <1>4, <2>2, <2>3
<1>11. a + m - 1 = NextFirst(t, i) - 1
  BY <1>1
<1>12. IsStair(FlattenSeq(s), a, NextFirst(t, i) - 1)
  BY <1>7, <1>9, <1>11
<1> QED
  BY <1>10, <1>12 DEF a, c, m, s

(* Every chunk, in order, as often as it has samples. *)
LEMMA ChunkStair ==
    ASSUME NEW t, IsTable(t), ChunkRunsAscend(t)
    PROVE  /\ ChunkOfEach(t) \in Seq(Nat)
           /\ Len(ChunkOfEach(t)) = SamplesInChunks(t)
           /\ t.sampleToChunk # <<>> => IsStair(ChunkOfEach(t), 1, ChunkCount(t))
<1> DEFINE n == Len(t.sampleToChunk)
           s == [i \in 1..n |-> FlattenSeq(ChunksOfRun(t, i))]
           lo == [i \in 1..n |-> t.sampleToChunk[i][1]]
           hi == [i \in 1..n |-> NextFirst(t, i) - 1]
           lens == [i \in 1..n |-> (NextFirst(t, i) - t.sampleToChunk[i][1]) * t.sampleToChunk[i][2]]
<1>1. n \in Nat /\ DOMAIN t.sampleToChunk = 1..n
  BY DEF IsTable
<1>2. ChunkOfEach(t) = FlattenSeq(s)
  BY <1>1 DEF ChunkOfEach, ChunksOfRun
<1>3. SamplesInChunks(t) = Sum(lens, 1..n)
  <2>1. SamplesInChunks(t) = SumFunction(lens) /\ DOMAIN lens = 1..n
    BY <1>1 DEF SamplesInChunks
  <2> HIDE DEF lens
  <2> QED
    BY <2>1, SumByChoice
<1>4. \A i \in 1..n : IsStair(s[i], lo[i], hi[i]) /\ Len(s[i]) = lens[i]
  <2> SUFFICES ASSUME NEW i \in 1..n PROVE IsStair(s[i], lo[i], hi[i]) /\ Len(s[i]) = lens[i]
    OBVIOUS
  <2>1. /\ IsStair(FlattenSeq(ChunksOfRun(t, i)), t.sampleToChunk[i][1], NextFirst(t, i) - 1)
        /\ Len(FlattenSeq(ChunksOfRun(t, i))) = (NextFirst(t, i) - t.sampleToChunk[i][1]) * t.sampleToChunk[i][2]
    BY RunStair
  <2> QED
    BY <2>1
<1>5. s \in Seq(Seq(Nat)) /\ Len(s) = n
  <2>1. s = [i \in 1..n |-> s[i]]
    OBVIOUS
  <2> HIDE DEF s
  <2>2. n \in Nat /\ \A i \in 1..n : s[i] \in Seq(Nat)
    BY <1>1, <1>4 DEF IsStair
  <2> QED
    BY <2>1, <2>2, AllOf
<1>6. FlattenSeq(s) \in Seq(Nat) /\ Len(FlattenSeq(s)) = Sum(lens, 1..n)
  <2>1. \A i \in 1..Len(s) : lens[i] = Len(s[i])
    BY <1>4, <1>5
  <2> HIDE DEF s, lens, n
  <2>2. FlattenSeq(s) \in Seq(Nat) /\ Len(FlattenSeq(s)) = Sum(lens, 1..Len(s))
    BY <1>5, <2>1, FlattenLen
  <2> QED
    BY <1>5, <2>2
<1>7. ASSUME t.sampleToChunk # <<>> PROVE IsStair(FlattenSeq(s), 1, ChunkCount(t))
  <2>1. n # 0
    BY <1>7 DEF IsTable
  <2>2. \A i \in 2..n : lo[i] = hi[i - 1] + 1
    <3> SUFFICES ASSUME NEW i \in 2..n PROVE lo[i] = hi[i - 1] + 1
      OBVIOUS
    <3>1. i \in 1..n /\ i - 1 \in 1..n /\ i > 1
      BY <1>1
    <3>2. NextFirst(t, i - 1) = t.sampleToChunk[i][1] /\ NextFirst(t, i - 1) \in Nat
      BY <3>1, RunFacts
    <3> QED
      BY <3>1, <3>2
  <2>3. lo[1] = 1 /\ hi[n] = ChunkCount(t)
    <3>1. 1 \in 1..n /\ n \in 1..n
      BY <1>1, <2>1
    <3>2. t.sampleToChunk[1][1] = 1
      BY <1>7 DEF ChunkRunsAscend
    <3>3. NextFirst(t, n) = ChunkCount(t) + 1
      BY <3>1, RunFacts
    <3>4. ChunkCount(t) \in Nat
      BY DEF ChunkCount, IsTable
    <3> HIDE DEF n
    <3>5. NextFirst(t, n) - 1 = ChunkCount(t)
      BY <3>3, <3>4
    <3> QED
      BY <3>1, <3>2, <3>5
  <2> HIDE DEF s, lo, hi, n
  <2>4. Len(s) \in Nat \ {0} /\ (\A i \in 1..Len(s) : IsStair(s[i], lo[i], hi[i])) /\ \A i \in 2..Len(s) : lo[i] = hi[i - 1] + 1
    BY <1>1, <1>4, <1>5, <2>1, <2>2
  <2>5. IsStair(FlattenSeq(s), lo[1], hi[Len(s)])
    BY <2>4, FlattenStairs
  <2> QED
    BY <1>5, <2>3, <2>5
<1> QED
  BY <1>2, <1>3, <1>6, <1>7

-----------------------------------------------------------------------------
(* The samples a table locates. *)

Begins(c, i) == ~(i > 1 /\ c[i] = c[i - 1])
OffsetsAre(f, t) ==
    f = [i \in 1..Len(ChunkOfEach(t)) |->
            IF i > 1 /\ ChunkOfEach(t)[i] = ChunkOfEach(t)[i - 1]
            THEN f[i - 1] + OrZero(t.sizes, i - 1) ELSE t.chunkOffsets[ChunkOfEach(t)[i]]]
TimesAre(f, t) ==
    f = [i \in 1..Len(ChunkOfEach(t)) |->
            IF i = 1 THEN 0 ELSE f[i - 1] + OrZero(Expanded(t.timeToSample), i - 1)]

LEMMA OffsetsExist == ASSUME NEW t, Len(ChunkOfEach(t)) \in Nat PROVE \E f : OffsetsAre(f, t)
<1> DEFINE c == ChunkOfEach(t)
           n == Len(c)
           anew == {i \in 1..(n + 1) : Begins(c, i)}
           start == [i \in 1..(n + 1) |-> t.chunkOffsets[c[i]]]
           add == [i \in 1..(n + 1) |-> OrZero(t.sizes, i)]
<1>1. 1 \in anew /\ n \in Nat
  <2>1. n \in Nat /\ 1 \in 1..(n + 1)
    OBVIOUS
  <2> QED
    BY <2>1 DEF Begins
<1>2. \A i \in 1..n : /\ i \in anew <=> Begins(c, i)
                      /\ start[i] = t.chunkOffsets[c[i]]
                      /\ i > 1 => add[i - 1] = OrZero(t.sizes, i - 1)
  BY <1>1
<1> HIDE DEF anew, start, add
<1>3. PICK f : CarriesOn(f, n, anew, start, add)
  BY <1>1, CarriesExists
<1>4. f = [i \in 1..n |-> IF i \in anew THEN start[i] ELSE f[i - 1] + add[i - 1]]
  BY <1>3 DEF CarriesOn
<1>5. \A i \in 1..n : (IF i \in anew THEN start[i] ELSE f[i - 1] + add[i - 1])
                      = IF i > 1 /\ c[i] = c[i - 1] THEN f[i - 1] + OrZero(t.sizes, i - 1) ELSE t.chunkOffsets[c[i]]
  BY <1>1, <1>2 DEF Begins
<1>6. f = [i \in 1..n |-> IF i > 1 /\ c[i] = c[i - 1] THEN f[i - 1] + OrZero(t.sizes, i - 1) ELSE t.chunkOffsets[c[i]]]
  BY <1>4, <1>5
<1> QED
  BY <1>6 DEF OffsetsAre

LEMMA TimesExist == ASSUME NEW t, Len(ChunkOfEach(t)) \in Nat PROVE \E f : TimesAre(f, t)
<1> DEFINE d == Expanded(t.timeToSample)
           n == Len(ChunkOfEach(t))
           anew == {1}
           start == [i \in 1..(n + 1) |-> 0]
           add == [i \in 1..(n + 1) |-> OrZero(d, i)]
<1>1. 1 \in anew /\ n \in Nat
  OBVIOUS
<1>0. \A i \in 1..n : i \in 1..(n + 1) /\ (i # 1 => i - 1 \in 1..(n + 1))
  BY <1>1
<1>2. \A i \in 1..n : (i \in anew <=> i = 1) /\ start[i] = 0 /\ (i # 1 => add[i - 1] = OrZero(d, i - 1))
  BY <1>0
<1> HIDE DEF anew, start, add
<1>3. PICK f : CarriesOn(f, n, anew, start, add)
  BY <1>1, CarriesExists
<1>4. f = [i \in 1..n |-> IF i \in anew THEN start[i] ELSE f[i - 1] + add[i - 1]]
  BY <1>3 DEF CarriesOn
<1>5. \A i \in 1..n : (IF i \in anew THEN start[i] ELSE f[i - 1] + add[i - 1])
                      = IF i = 1 THEN 0 ELSE f[i - 1] + OrZero(d, i - 1)
  BY <1>1, <1>2
<1>6. f = [i \in 1..n |-> IF i = 1 THEN 0 ELSE f[i - 1] + OrZero(d, i - 1)]
  BY <1>4, <1>5
<1> QED
  BY <1>6 DEF TimesAre

(* A sample by its fields. *)
SampleOf(t, offset, time, i) ==
    [offset |-> offset[i], size |-> OrZero(t.sizes, i), time |-> time[i],
     duration |-> OrZero(Expanded(t.timeToSample), i),
     composition |-> IF t.composition = {} THEN 0
                     ELSE OrZero(Expanded(CHOOSE runs \in t.composition : TRUE), i),
     sync |-> \A numbers \in t.sync : i \in ToSet(numbers),
     chunk |-> ChunkOfEach(t)[i]]

LEMMA SamplesAre ==
    ASSUME NEW t, Len(ChunkOfEach(t)) \in Nat
    PROVE  \E offset, time : /\ OffsetsAre(offset, t) /\ TimesAre(time, t)
                             /\ Samples(t) = [i \in 1..Len(ChunkOfEach(t)) |-> SampleOf(t, offset, time, i)]
<1> DEFINE offset == CHOOSE f : OffsetsAre(f, t)
           time == CHOOSE f : TimesAre(f, t)
<1>1. OffsetsAre(offset, t) /\ TimesAre(time, t)
  BY OffsetsExist, TimesExist
<1>2. Samples(t) = [i \in 1..Len(ChunkOfEach(t)) |-> SampleOf(t, offset, time, i)]
  BY DEF Samples, SampleOf, OffsetsAre, TimesAre
<1> QED
  BY <1>1, <1>2

(* What the samples of a consistent table are, step by step. *)
Located(t, s) ==
    /\ s = [i \in 1..SampleCount(t) |-> s[i]]
    /\ \A i \in 1..SampleCount(t) :
         /\ s[i].chunk = ChunkOfEach(t)[i]
         /\ s[i].size = t.sizes[i]
         /\ s[i].duration = Expanded(t.timeToSample)[i]
         /\ s[i].sync <=> \A numbers \in t.sync : i \in ToSet(numbers)
         /\ s[i].offset = IF i > 1 /\ s[i].chunk = s[i - 1].chunk
                          THEN s[i - 1].offset + s[i - 1].size ELSE t.chunkOffsets[s[i].chunk]
         /\ s[i].time = IF i = 1 THEN 0 ELSE s[i - 1].time + s[i - 1].duration

LEMMA TableLengths ==
    ASSUME NEW t, IsTable(t), Consistent(t)
    PROVE  LET n == SampleCount(t) IN
           /\ n \in Nat /\ Len(ChunkOfEach(t)) = n /\ DOMAIN t.sizes = 1..n
           /\ Expanded(t.timeToSample) \in Seq(Nat) /\ Len(Expanded(t.timeToSample)) = n
           /\ DOMAIN Expanded(t.timeToSample) = 1..n
<1>1. SampleCount(t) \in Nat /\ DOMAIN t.sizes = 1..SampleCount(t)
  BY DEF SampleCount, IsTable
<1>2. Len(ChunkOfEach(t)) = SampleCount(t)
  BY ChunkStair DEF Consistent, ChunksPlaceAll
<1>3. IsRuns(t.timeToSample) /\ Covered(t.timeToSample) = SampleCount(t)
  BY DEF IsTable, Consistent, TimesCoverAll
<1>4. Expanded(t.timeToSample) \in Seq(Nat) /\ Len(Expanded(t.timeToSample)) = SampleCount(t)
  BY <1>3, ExpandedRuns
<1> QED
  BY <1>1, <1>2, <1>4

LEMMA SamplesLocated ==
    ASSUME NEW t, IsTable(t), Consistent(t)
    PROVE  Located(t, Samples(t)) /\ Len(Samples(t)) = SampleCount(t)
<1> DEFINE n == SampleCount(t)
           c == ChunkOfEach(t)
           d == Expanded(t.timeToSample)
           s == Samples(t)
<1>1. n \in Nat /\ Len(c) = n /\ DOMAIN t.sizes = 1..n /\ DOMAIN d = 1..n
  BY TableLengths
<1>2. PICK offset, time : /\ OffsetsAre(offset, t) /\ TimesAre(time, t)
                          /\ s = [i \in 1..Len(c) |-> SampleOf(t, offset, time, i)]
  BY <1>1, SamplesAre
<1>3. s = [i \in 1..n |-> SampleOf(t, offset, time, i)]
  BY <1>1, <1>2
<1>4. \A i \in 1..n : offset[i] = IF i > 1 /\ c[i] = c[i - 1]
                                  THEN offset[i - 1] + OrZero(t.sizes, i - 1) ELSE t.chunkOffsets[c[i]]
  BY <1>1, <1>2 DEF OffsetsAre
<1>5. \A i \in 1..n : time[i] = IF i = 1 THEN 0 ELSE time[i - 1] + OrZero(d, i - 1)
  BY <1>1, <1>2 DEF TimesAre
<1>6. \A i \in 1..n : OrZero(t.sizes, i) = t.sizes[i] /\ OrZero(d, i) = d[i]
  BY <1>1 DEF OrZero
<1>7. \A i \in 1..n : i # 1 => i - 1 \in 1..n
  BY <1>1
<1> HIDE DEF s, n, d, c
<1>8. \A i \in 1..n : /\ s[i].chunk = c[i] /\ s[i].size = t.sizes[i] /\ s[i].duration = d[i]
                      /\ s[i].sync = (\A numbers \in t.sync : i \in ToSet(numbers))
                      /\ s[i].offset = offset[i] /\ s[i].time = time[i]
  BY <1>3, <1>6 DEF SampleOf, c, d
<1>9. ASSUME NEW i \in 1..n
      PROVE  /\ s[i].offset = IF i > 1 /\ s[i].chunk = s[i - 1].chunk
                              THEN s[i - 1].offset + s[i - 1].size ELSE t.chunkOffsets[s[i].chunk]
             /\ s[i].time = IF i = 1 THEN 0 ELSE s[i - 1].time + s[i - 1].duration
  <2>1. CASE i = 1
    <3>1. ~(i > 1)
      BY <2>1
    <3>2. s[i].chunk = c[i] /\ s[i].offset = offset[i] /\ s[i].time = time[i]
      BY <1>8
    <3>3. offset[i] = t.chunkOffsets[c[i]]
      BY <1>4, <3>1
    <3>4. time[i] = 0
      BY <1>5, <2>1
    <3> QED
      BY <2>1, <3>1, <3>2, <3>3, <3>4
  <2>2. CASE i # 1
    <3>1. i - 1 \in 1..n
      BY <1>7, <2>2
    <3>2. /\ s[i].chunk = c[i] /\ s[i - 1].chunk = c[i - 1] /\ s[i].offset = offset[i] /\ s[i - 1].offset = offset[i - 1]
          /\ s[i - 1].size = t.sizes[i - 1] /\ s[i].time = time[i] /\ s[i - 1].time = time[i - 1]
          /\ s[i - 1].duration = d[i - 1]
      BY <1>8, <3>1
    <3>3. offset[i] = IF i > 1 /\ c[i] = c[i - 1] THEN offset[i - 1] + t.sizes[i - 1] ELSE t.chunkOffsets[c[i]]
      BY <1>4, <1>6, <3>1
    <3>4. time[i] = time[i - 1] + d[i - 1]
      BY <1>5, <1>6, <2>2, <3>1
    <3> QED
      BY <2>2, <3>2, <3>3, <3>4
  <2> QED
    BY <2>1, <2>2
<1>10. s = [i \in 1..n |-> s[i]] /\ Len(s) = n
  BY <1>1, <1>3
<1>11. Located(t, s)
  BY <1>8, <1>9, <1>10 DEF Located, n, c, d
<1> QED
  BY <1>10, <1>11 DEF s, n

-----------------------------------------------------------------------------
(* Sync samples are listed in order, each once. *)

LEMMA SyncCounted ==
    ASSUME NEW n \in Nat, NEW numbers \in Seq(Nat),
           \A i \in DOMAIN numbers : numbers[i] \in (IF i = 1 THEN 1 ELSE numbers[i - 1] + 1)..n
    PROVE  Cardinality({i \in 1..n : i \in ToSet(numbers)}) = Len(numbers)
<1> DEFINE m == Len(numbers)
<1>1. m \in Nat /\ DOMAIN numbers = 1..m /\ \A i \in 1..m : numbers[i] \in Nat
  OBVIOUS
<1>2. ASSUME NEW i \in 1..m PROVE \A j \in 1..m : i < j => numbers[i] < numbers[j]
  <2> DEFINE T == {j \in Nat : j <= m /\ i < j /\ ~(numbers[i] < numbers[j])}
  <2>1. T = {}
    <3> SUFFICES ASSUME T # {} PROVE FALSE
      OBVIOUS
    <3>1. PICK j \in T : \A y \in T : j <= y
      BY Least
    <3>2. j \in 1..m /\ i < j /\ ~(numbers[i] < numbers[j]) /\ j # 1 /\ j - 1 \in 1..m /\ ~(j <= j - 1)
      BY <1>1
    <3>3. j - 1 \notin T
      BY <3>1, <3>2
    <3>4. j - 1 = i \/ numbers[i] < numbers[j - 1]
      BY <1>1, <3>2, <3>3
    <3>5. numbers[j - 1] < numbers[j]
      <4>1. numbers[j] \in (numbers[j - 1] + 1)..n /\ numbers[j - 1] \in Nat
        BY <1>1, <3>2
      <4> QED
        BY <4>1
    <3>6. numbers[i] \in Nat /\ numbers[j] \in Nat /\ numbers[j - 1] \in Nat
      BY <1>1, <1>2, <3>2
    <3> QED
      BY <3>2, <3>4, <3>5, <3>6
  <2> QED
    BY <1>1, <2>1
<1> DEFINE S == {i \in 1..n : i \in ToSet(numbers)}
<1>3. ToSet(numbers) = {numbers[i] : i \in 1..m}
  BY <1>1 DEF ToSet
<1>4. \A i \in 1..m : numbers[i] \in 1..n
  <2> SUFFICES ASSUME NEW i \in 1..m PROVE numbers[i] \in 1..n
    OBVIOUS
  <2>1. CASE i = 1
    BY <1>1, <2>1
  <2>2. CASE i # 1
    <3>1. i - 1 \in 1..m
      BY <1>1, <2>2
    <3>2. numbers[i - 1] \in Nat /\ i \in DOMAIN numbers
      BY <1>1, <3>1
    <3>3. numbers[i] \in (numbers[i - 1] + 1)..n
      BY <2>2, <3>2
    <3> QED
      BY <3>2, <3>3
  <2> QED
    BY <2>1, <2>2
<1>5. S = {numbers[i] : i \in 1..m}
  BY <1>3, <1>4
<1>6. numbers \in Bijection(1..m, S)
  <2>1. numbers \in [1..m -> S]
    BY <1>1, <1>5
  <2>2. \A i, j \in 1..m : numbers[i] = numbers[j] => i = j
    <3> SUFFICES ASSUME NEW i \in 1..m, NEW j \in 1..m, numbers[i] = numbers[j] PROVE i = j
      OBVIOUS
    <3>1. ~(numbers[i] < numbers[j]) /\ ~(numbers[j] < numbers[i])
      BY <1>1
    <3>2. ~(i < j) /\ ~(j < i)
      BY <1>2, <3>1
    <3> QED
      BY <1>1, <3>2
  <2>3. \A x \in S : \E i \in 1..m : numbers[i] = x
    BY <1>5
  <2> HIDE DEF S
  <2> QED
    BY <2>1, <2>2, <2>3, Fun_IsBij
<1> HIDE DEF S
<1>7. IsFiniteSet(1..m) /\ Cardinality(1..m) = m
  BY <1>1, Numbers
<1>8. Cardinality(S) = m
  <2> DEFINE M == 1..m
  <2>1. IsFiniteSet(M) /\ ExistsBijection(M, S)
    BY <1>6, <1>7 DEF ExistsBijection
  <2> HIDE DEF M
  <2>2. Cardinality(S) = Cardinality(M)
    BY <2>1, FS_Bijection
  <2> QED
    BY <1>7, <2>2 DEF M
<1> QED
  BY <1>8 DEF S

-----------------------------------------------------------------------------
(* Times add up. *)
LEMMA TimesAddUp ==
    ASSUME NEW n \in Nat \ {0}, NEW d, (\A i \in 1..n : d[i] \in Nat), NEW time,
           \A i \in 1..n : time[i] = IF i = 1 THEN 0 ELSE time[i - 1] + d[i - 1]
    PROVE  time[n] + d[n] = Sum(d, 1..n) /\ \A i \in 1..n : time[i] \in Nat
<1> DEFINE Bad(i) == ~(time[i] = Sum(d, 1..(i - 1)))
           T == {i \in Nat : 1 <= i /\ i <= n /\ Bad(i)}
<1>0. \A i \in 1..n : Sum(d, 1..(i - 1)) \in Nat
  <2> SUFFICES ASSUME NEW i \in 1..n PROVE Sum(d, 1..(i - 1)) \in Nat
    OBVIOUS
  <2>1. i - 1 \in Nat /\ \A j \in 1..(i - 1) : d[j] \in Nat
    OBVIOUS
  <2> QED
    BY <2>1, SumUpTo
<1>1. T = {}
  <2> SUFFICES ASSUME T # {} PROVE FALSE
    OBVIOUS
  <2>1. PICK i \in T : \A y \in T : i <= y
    BY Least
  <2>2. i \in 1..n /\ ~(time[i] = Sum(d, 1..(i - 1)))
    BY <2>1
  <2>3. CASE i = 1
    <3>1. i - 1 = 0 /\ time[i] = 0
      BY <2>2, <2>3
    <3>2. Sum(d, 1..(i - 1)) = 0
      BY <3>1, SumNone
    <3> QED
      BY <2>2, <3>1, <3>2
  <2>4. CASE i # 1
    <3>1. i \in Nat /\ i >= 1 /\ i - 1 \in 1..n /\ ~(i <= i - 1)
      BY <2>2, <2>4
    <3>2. i - 1 \notin T
      <4> HIDE DEF Bad
      <4> QED
        BY <2>1, <3>1
    <3>3. time[i - 1] = Sum(d, 1..((i - 1) - 1))
      BY <3>1, <3>2
    <3>4. Sum(d, 1..(i - 1)) = Sum(d, 1..((i - 1) - 1)) + d[i - 1]
      <4> DEFINE k == (i - 1) - 1
      <4>1. k \in Nat /\ k + 1 = i - 1 /\ \A j \in 1..(k + 1) : d[j] \in Nat
        BY <2>2, <3>1
      <4> HIDE DEF k
      <4>2. Sum(d, 1..(k + 1)) = Sum(d, 1..k) + d[k + 1]
        BY <4>1, SumNext
      <4>3. Sum(d, 1..(i - 1)) = Sum(d, 1..k) + d[i - 1]
        BY <4>1, <4>2
      <4> QED
        BY <4>3 DEF k
    <3>5. time[i] = time[i - 1] + d[i - 1]
      BY <2>2, <2>4
    <3> QED
      BY <2>2, <3>3, <3>4, <3>5
  <2> QED
    BY <2>3, <2>4
<1>2. \A i \in 1..n : time[i] = Sum(d, 1..(i - 1))
  BY <1>1
<1>3. Sum(d, 1..n) = Sum(d, 1..(n - 1)) + d[n]
  <2>1. n - 1 \in Nat /\ (n - 1) + 1 = n /\ \A i \in 1..((n - 1) + 1) : d[i] \in Nat
    OBVIOUS
  <2>2. Sum(d, 1..((n - 1) + 1)) = Sum(d, 1..(n - 1)) + d[(n - 1) + 1]
    BY <2>1, SumNext
  <2> QED
    BY <2>1, <2>2
<1>4. n \in 1..n
  OBVIOUS
<1> QED
  BY <1>0, <1>2, <1>3, <1>4

LEMMA TableAgrees ==
    ASSUME NEW t, IsTable(t), Consistent(t)
    PROVE  LocatesEverySample(t)
<1> DEFINE n == SampleCount(t)
           c == ChunkOfEach(t)
           d == Expanded(t.timeToSample)
           s == Samples(t)
           durations == [i \in DOMAIN t.timeToSample |-> t.timeToSample[i][1] * t.timeToSample[i][2]]
<1>1. n \in Nat /\ Len(c) = n /\ DOMAIN t.sizes = 1..n /\ d \in Seq(Nat) /\ Len(d) = n /\ DOMAIN d = 1..n
  BY TableLengths
<1>2. Located(t, s) /\ Len(s) = n
  BY SamplesLocated
<1>3. s = [i \in 1..n |-> s[i]]
  BY <1>2 DEF Located
<1> HIDE DEF s, n, d, c
<1>4. DOMAIN s = 1..n
  BY <1>3
<1>5. \A i \in 1..n : /\ s[i].chunk = c[i] /\ s[i].size = t.sizes[i] /\ s[i].duration = d[i]
                      /\ s[i].sync <=> \A numbers \in t.sync : i \in ToSet(numbers)
                      /\ s[i].offset = IF i > 1 /\ s[i].chunk = s[i - 1].chunk
                                       THEN s[i - 1].offset + s[i - 1].size ELSE t.chunkOffsets[s[i].chunk]
                      /\ s[i].time = IF i = 1 THEN 0 ELSE s[i - 1].time + s[i - 1].duration
  BY <1>2 DEF Located, n, c, d
<1>6. ASSUME n > 0
      PROVE  ChunkCount(t) \in Nat /\ IsStair(c, 1, ChunkCount(t))
  <2>1. t.sampleToChunk # <<>>
    BY <1>6 DEF Consistent, ChunksExist, n
  <2>2. ChunkCount(t) \in Nat
    BY DEF ChunkCount, IsTable
  <2> QED
    BY <2>1, <2>2, ChunkStair DEF Consistent, c
<1>7. s # <<>> => n > 0
  BY <1>1, <1>4
<1>8. ASSUME NEW k \in 1..ChunkCount(t), s # <<>>
      PROVE  \E i \in DOMAIN s : s[i].chunk = k
  <2>1. PICK i \in 1..Len(c) : c[i] = k
    BY <1>6, <1>7, <1>8, StairCovers
  <2>2. i \in 1..n /\ i \in DOMAIN s
    BY <1>1, <1>4
  <2>3. s[i].chunk = c[i]
    BY <1>5, <2>2
  <2> QED
    BY <2>1, <2>2, <2>3
<1>9. ASSUME NEW i \in DOMAIN s
      PROVE  IF i > 1 /\ s[i - 1].chunk = s[i].chunk
             THEN s[i].offset = s[i - 1].offset + s[i - 1].size
             ELSE /\ s[i].chunk = IF i = 1 THEN 1 ELSE s[i - 1].chunk + 1
                  /\ s[i].offset = t.chunkOffsets[s[i].chunk]
  <2>1. i \in 1..n /\ n > 0 /\ n \in Nat
    BY <1>1, <1>4, <1>9
  <2>2. IsStair(c, 1, ChunkCount(t))
    BY <1>6, <2>1
  <2>3. s[i].offset = IF i > 1 /\ s[i].chunk = s[i - 1].chunk
                      THEN s[i - 1].offset + s[i - 1].size ELSE t.chunkOffsets[s[i].chunk]
    BY <1>5, <2>1
  <2>4. CASE i = 1
    <3>1. c[1] = 1 /\ ~(i > 1)
      BY <2>2, <2>4 DEF IsStair
    <3>2. s[i].chunk = c[i]
      BY <1>5, <2>1
    <3> QED
      BY <2>3, <2>4, <3>1, <3>2
  <2>5. CASE i # 1
    <3>1. i > 1 /\ i \in 2..Len(c) /\ i - 1 \in 1..n
      BY <1>1, <2>1, <2>5
    <3>2. c[i] = c[i - 1] \/ c[i] = c[i - 1] + 1
      BY <2>2, <3>1 DEF IsStair
    <3>3. s[i].chunk = c[i] /\ s[i - 1].chunk = c[i - 1]
      BY <1>5, <2>1, <3>1
    <3> QED
      BY <2>3, <2>5, <3>1, <3>2, <3>3
  <2> QED
    BY <2>4, <2>5
<1>10. \A i \in 2..Len(s) : s[i].time = s[i - 1].time + s[i - 1].duration
  <2> SUFFICES ASSUME NEW i \in 2..Len(s) PROVE s[i].time = s[i - 1].time + s[i - 1].duration
    OBVIOUS
  <2>1. i \in 1..n /\ i # 1
    BY <1>1, <1>2
  <2> QED
    BY <1>5, <2>1
<1>11. ASSUME s # <<>>
       PROVE  s[Len(s)].time + s[Len(s)].duration = SumFunction(durations)
  <2>1. n \in Nat \ {0} /\ n \in 1..n /\ \A i \in 1..n : d[i] \in Nat
    BY <1>1, <1>7, <1>11
  <2> DEFINE time == [i \in 1..n |-> s[i].time]
  <2>2. \A i \in 1..n : time[i] = IF i = 1 THEN 0 ELSE time[i - 1] + d[i - 1]
    <3> SUFFICES ASSUME NEW i \in 1..n PROVE time[i] = IF i = 1 THEN 0 ELSE time[i - 1] + d[i - 1]
      OBVIOUS
    <3>1. CASE i = 1
      BY <1>5, <3>1
    <3>2. CASE i # 1
      <4>1. i - 1 \in 1..n
        BY <1>1, <3>2
      <4>2. s[i].time = s[i - 1].time + s[i - 1].duration /\ s[i - 1].duration = d[i - 1]
        BY <1>5, <3>2, <4>1
      <4> QED
        BY <3>2, <4>1, <4>2
    <3> QED
      BY <3>1, <3>2
  <2>3. time[n] = s[n].time /\ s[n].duration = d[n]
    BY <1>5, <2>1
  <2> HIDE DEF time
  <2>4. time[n] + d[n] = Sum(d, 1..n)
    BY <2>1, <2>2, TimesAddUp
  <2>5. Sum(d, 1..n) = SumFunction(durations)
    <3>1. IsRuns(t.timeToSample) /\ Covered(t.timeToSample) = n
      BY DEF IsTable, Consistent, TimesCoverAll, n
    <3> QED
      BY <3>1, ExpandedRuns DEF d
  <2> QED
    BY <1>2, <2>3, <2>4, <2>5
<1>12. ASSUME NEW numbers \in t.sync
       PROVE  Cardinality({i \in DOMAIN s : s[i].sync}) = Len(numbers)
  <2>1. t.sync = {numbers} /\ numbers \in Seq(Nat)
    BY <1>12 DEF IsTable
  <2>2. \A i \in DOMAIN numbers : numbers[i] \in (IF i = 1 THEN 1 ELSE numbers[i - 1] + 1)..n
    BY <1>12 DEF Consistent, SyncAscends, n
  <2>3. {i \in DOMAIN s : s[i].sync} = {i \in 1..n : i \in ToSet(numbers)}
    <3>1. \A i \in 1..n : s[i].sync <=> i \in ToSet(numbers)
      BY <1>5, <2>1
    <3> QED
      BY <1>4, <3>1
  <2> QED
    BY <1>1, <2>1, <2>2, <2>3, SyncCounted
<1> QED
  BY <1>2, <1>8, <1>9, <1>10, <1>11, <1>12 DEF LocatesEverySample, s, n

-----------------------------------------------------------------------------
(* A table that was read. *)

LEMMA EntriesRead ==
    ASSUME NEW p, NEW S, IsPayload(p, S), ~Short(p)
    PROVE  Entries(p) \in Seq(S) /\ Len(Entries(p)) = p.count
<1>1. p.count \in Nat /\ p.entries \in Seq(S) /\ p.count <= Len(p.entries)
  BY DEF IsPayload, Short
<1> QED
  BY <1>1 DEF Entries

LEMMA SizesRead ==
    ASSUME NEW stbl, IsStbl(stbl), SizeBox(stbl) \in DOMAIN stbl, ~SizesRefused(stbl)
    PROVE  SizesOf(stbl) \in Seq(Nat)
<1> DEFINE p == stbl[SizeBox(stbl)]
<1>1. IsPayload(p, Nat)
  BY DEF IsStbl, SizeBox
<1>2. CASE SizeBox(stbl) = "stsz"
  <2>1. p.size \in Nat
    BY <1>2 DEF IsStbl
  <2>2. CASE p.size # 0
    <3>1. SizesOf(stbl) = [i \in 1..p.count |-> p.size] /\ p.count \in Nat
      BY <1>1, <1>2, <2>2 DEF SizesOf, IsPayload
    <3> HIDE DEF p
    <3> QED
      BY <2>1, <3>1
  <2>3. CASE p.size = 0
    <3>1. SizesOf(stbl) = Entries(p) /\ ~Short(p)
      BY <1>2, <2>3 DEF SizesOf, SizesRefused
    <3> HIDE DEF p
    <3> QED
      BY <1>1, <3>1, EntriesRead
  <2> QED
    BY <2>2, <2>3
<1>3. CASE SizeBox(stbl) # "stsz"
  <2>1. SizesOf(stbl) = Entries(p)
    BY <1>3 DEF SizesOf
  <2>2. p.count > 0 => ~Short(p)
    BY <1>3 DEF SizesRefused
  <2> HIDE DEF p
  <2>3. CASE p.count > 0
    BY <1>1, <2>1, <2>2, <2>3, EntriesRead
  <2>4. CASE ~(p.count > 0)
    <3>1. p.count = 0 /\ Len(p.entries) \in Nat
      BY <1>1, <2>4 DEF IsPayload
    <3>2. ~Short(p)
      BY <3>1 DEF Short
    <3> QED
      BY <1>1, <2>1, <3>2, EntriesRead
  <2> QED
    BY <2>3, <2>4
<1> QED
  BY <1>2, <1>3

LEMMA DecodedTable ==
    ASSUME NEW stbl, IsStbl(stbl), TableError(stbl) = "none"
    PROVE  /\ IsTable(Decoded(stbl)) /\ Consistent(Decoded(stbl))
           /\ ~Missing(stbl) /\ ~Truncated(stbl) /\ ~CttsUnknown(stbl)
<1>1. ~Missing(stbl) /\ ~Truncated(stbl) /\ ~CttsUnknown(stbl) /\ Consistent(Decoded(stbl))
  BY DEF TableError
<1>2. /\ "stts" \in DOMAIN stbl /\ "stsc" \in DOMAIN stbl
      /\ SizeBox(stbl) \in DOMAIN stbl /\ OffsetBox(stbl) \in DOMAIN stbl
  BY <1>1 DEF Missing
<1>3. /\ ~Short(stbl["stts"]) /\ ~Short(stbl["stsc"]) /\ ~Short(stbl[OffsetBox(stbl)]) /\ ~SizesRefused(stbl)
      /\ "stss" \in DOMAIN stbl => ~Short(stbl["stss"])
      /\ "ctts" \in DOMAIN stbl => ~Short(stbl["ctts"])
  BY <1>1 DEF Truncated, Optional
<1>4. IsPayload(stbl[OffsetBox(stbl)], Nat)
  BY <1>2 DEF IsStbl, OffsetBox
<1> DEFINE t == Decoded(stbl)
<1>5. t.timeToSample \in Seq(Nat \X Nat)
  <2>1. IsPayload(stbl["stts"], Nat \X Nat)
    BY <1>2 DEF IsStbl
  <2> QED
    BY <1>3, <2>1, EntriesRead DEF Decoded
<1>6. t.sampleToChunk \in Seq(Nat \X Nat \X Nat)
  <2>1. IsPayload(stbl["stsc"], Nat \X Nat \X Nat)
    BY <1>2 DEF IsStbl
  <2> QED
    BY <1>3, <2>1, EntriesRead DEF Decoded
<1>7. t.chunkOffsets \in Seq(Nat)
  BY <1>3, <1>4, EntriesRead DEF Decoded
<1>8. t.sizes \in Seq(Nat)
  BY <1>2, <1>3, SizesRead DEF Decoded
<1>9. t.sync = {} \/ \E numbers \in Seq(Nat) : t.sync = {numbers}
  <2>1. CASE "stss" \in DOMAIN stbl
    <3>1. IsPayload(stbl["stss"], Nat)
      BY <2>1 DEF IsStbl
    <3>2. Entries(stbl["stss"]) \in Seq(Nat)
      BY <1>3, <2>1, <3>1, EntriesRead
    <3> QED
      BY <2>1, <3>2 DEF Decoded, Optional
  <2>2. CASE "stss" \notin DOMAIN stbl
    BY <2>2 DEF Decoded, Optional
  <2> QED
    BY <2>1, <2>2
<1>10. t.composition = {} \/ \E runs \in Seq(Nat \X Int) : t.composition = {runs}
  <2>1. CASE "ctts" \in DOMAIN stbl
    <3>1. IsPayload(stbl["ctts"], Nat \X Int)
      BY <2>1 DEF IsStbl
    <3>2. Entries(stbl["ctts"]) \in Seq(Nat \X Int)
      BY <1>3, <2>1, <3>1, EntriesRead
    <3> QED
      BY <2>1, <3>2 DEF Decoded, Optional
  <2>2. CASE "ctts" \notin DOMAIN stbl
    BY <2>2 DEF Decoded, Optional
  <2> QED
    BY <2>1, <2>2
<1>11. IsTable(t)
  BY <1>5, <1>6, <1>7, <1>8, <1>9, <1>10 DEF IsTable, IsRuns
<1> QED
  BY <1>1, <1>11

-----------------------------------------------------------------------------
(* The tracks of a movie box. *)

TrakPlaces(moov) == {i \in DOMAIN moov : moov[i].kind = "trak"}

LEMMA TraksFound ==
    ASSUME NEW moov, IsSequence(moov)
    PROVE  /\ DOMAIN Traks(moov) = 1..Cardinality(TrakPlaces(moov)) /\ Cardinality(TrakPlaces(moov)) \in Nat
           /\ \A k \in DOMAIN Traks(moov) : \E i \in DOMAIN moov : Traks(moov)[k] = moov[i] /\ moov[i].kind = "trak"
<1> DEFINE T == TrakPlaces(moov)
<1>1. T \in SUBSET DOMAIN moov
  BY DEF TrakPlaces
<1>2. IsFiniteSet(T) /\ \A i \in T : i \in Nat
  BY <1>1, SequencePlaces
<1>3. Cardinality(T) \in Nat /\ \A k \in 1..Cardinality(T) : Sorted(T)[k] \in T
  BY <1>2, SortedPlaces
<1>4. Traks(moov) = [k \in 1..Cardinality(T) |-> moov[Sorted(T)[k]]]
  BY DEF Traks, At, TrakPlaces
<1>5. \A i \in T : i \in DOMAIN moov /\ moov[i].kind = "trak"
  BY DEF TrakPlaces
<1> HIDE DEF T
<1>6. ASSUME NEW k \in 1..Cardinality(T)
      PROVE  \E i \in DOMAIN moov : Traks(moov)[k] = moov[i] /\ moov[i].kind = "trak"
  <2>1. Sorted(T)[k] \in T /\ Traks(moov)[k] = moov[Sorted(T)[k]]
    BY <1>3, <1>4
  <2> QED
    BY <1>5, <2>1
<1> QED
  BY <1>3, <1>4, <1>6 DEF T

-----------------------------------------------------------------------------
(* The tracks kept. *)

SlotOf(r, n, index) ==
    LET trak == Traks(r.inputs[n].moov)[index] IN
    [input |-> n, index |-> index, trak |-> trak,
     source |-> TrackOf(trak.headers["tkhd"]),
     timescale |-> TimescaleOf(trak.headers["mdhd"]),
     samples |-> Samples(Decoded(trak.stbl))]
SlotsOf(r) ==
    [n \in DOMAIN r.inputs |-> [k \in DOMAIN r.inputs[n].tracks |-> SlotOf(r, n, r.inputs[n].tracks[k])]]

KeptFrom(r, slot) ==
    \E n \in DOMAIN r.inputs : \E k \in DOMAIN r.inputs[n].tracks : slot = SlotOf(r, n, r.inputs[n].tracks[k])

LEMMA SelectFlattens ==
    ASSUME NEW r, IsRequest(r)
    PROVE  /\ Select(r) = FlattenSeq(SlotsOf(r)) /\ Len(SlotsOf(r)) = Len(r.inputs) /\ Len(r.inputs) \in Nat
           /\ \E S : SlotsOf(r) \in Seq(Seq(S)) /\ Select(r) \in Seq(S)
           /\ DOMAIN Select(r) = 1..Len(Select(r)) /\ Len(Select(r)) \in Nat
           /\ \A x \in DOMAIN Select(r) : KeptFrom(r, Select(r)[x])
<1> DEFINE m == Len(r.inputs)
           s == SlotsOf(r)
           S == {SlotOf(r, p[1], p[2]) : p \in (DOMAIN r.inputs) \X Nat}
<1>1. m \in Nat /\ DOMAIN r.inputs = 1..m
  BY SequencePlaces DEF IsRequest
<1>2. \A n \in 1..m : r.inputs[n].tracks \in Seq(Nat)
  BY <1>1 DEF IsRequest, IsInput
<1>3. Select(r) = FlattenSeq(s)
  BY DEF Select, SlotsOf, SlotOf
<1>4. ASSUME NEW n \in 1..m
      PROVE  s[n] \in Seq(S)
  <2>1. s[n] = [k \in DOMAIN r.inputs[n].tracks |-> SlotOf(r, n, r.inputs[n].tracks[k])]
    BY <1>1 DEF SlotsOf
  <2>2. \A i \in Nat : SlotOf(r, n, i) \in S
    <3> SUFFICES ASSUME NEW i \in Nat PROVE SlotOf(r, n, i) \in S
      OBVIOUS
    <3>1. <<n, i>> \in (DOMAIN r.inputs) \X Nat /\ <<n, i>>[1] = n /\ <<n, i>>[2] = i
      BY <1>1
    <3> QED
      BY <3>1
  <2>3. /\ Len(r.inputs[n].tracks) \in Nat /\ DOMAIN r.inputs[n].tracks = 1..Len(r.inputs[n].tracks)
        /\ \A k \in 1..Len(r.inputs[n].tracks) : r.inputs[n].tracks[k] \in Nat
    BY <1>2
  <2> HIDE DEF s, S
  <2>4. s[n] = [k \in 1..Len(r.inputs[n].tracks) |-> s[n][k]]
    BY <2>1, <2>3
  <2>5. \A k \in 1..Len(r.inputs[n].tracks) : s[n][k] \in S
    BY <2>1, <2>2, <2>3
  <2> QED
    BY <2>3, <2>4, <2>5, AllOf
<1>5. s \in Seq(Seq(S)) /\ Len(s) = m
  <2>1. s = [n \in 1..m |-> s[n]]
    BY <1>1 DEF SlotsOf
  <2> HIDE DEF s, S
  <2> QED
    BY <1>1, <1>4, <2>1, AllOf
<1>6. Select(r) \in Seq(S) /\ SideBySide(Select(r), Select(r), s, s, m)
  <2> HIDE DEF s, S
  <2>1. SameShape(s, s)
    BY DEF SameShape
  <2> QED
    BY <1>3, <1>5, <2>1, FlattenTogether
<1>7. DOMAIN Select(r) = 1..Len(Select(r)) /\ Len(Select(r)) \in Nat
  BY <1>6
<1>8. ASSUME NEW x \in DOMAIN Select(r) PROVE KeptFrom(r, Select(r)[x])
  <2>1. PICK n \in 1..m : \E k \in 1..Len(s[n]) : Select(r)[x] = s[n][k]
    BY <1>6, <1>7, <1>8 DEF SideBySide
  <2>2. PICK k \in 1..Len(s[n]) : Select(r)[x] = s[n][k]
    BY <2>1
  <2>3. s[n] = [j \in DOMAIN r.inputs[n].tracks |-> SlotOf(r, n, r.inputs[n].tracks[j])]
    BY <1>1 DEF SlotsOf
  <2>4. k \in DOMAIN s[n] /\ DOMAIN s[n] = DOMAIN r.inputs[n].tracks
    <3> HIDE DEF s, S
    <3>1. DOMAIN s[n] = 1..Len(s[n])
      BY <1>4
    <3> QED
      BY <2>3, <3>1
  <2> QED
    BY <1>1, <2>2, <2>3, <2>4 DEF KeptFrom
<1> QED
  BY <1>1, <1>3, <1>5, <1>6, <1>7, <1>8

(* What a request that is not refused keeps. *)
SlotHolds(slot) ==
    /\ IsTrak(slot.trak) /\ TrackError(slot.trak) = "none" /\ ~SamplesRefused(Decoded(slot.trak.stbl))
    /\ slot.samples = Samples(Decoded(slot.trak.stbl))
    /\ slot.source = TrackOf(slot.trak.headers["tkhd"])
    /\ slot.timescale = TimescaleOf(slot.trak.headers["mdhd"])
    /\ slot.input \in Nat /\ slot.trak.kind = "trak"

LEMMA NoError ==
    ASSUME NEW r, Errors(r) = {}, NEW n \in DOMAIN r.inputs
    PROVE  LET traks == Traks(r.inputs[n].moov)
               tracks == r.inputs[n].tracks
           IN /\ \A k \in DOMAIN traks : TrackError(traks[k]) = "none"
              /\ \A k \in DOMAIN tracks : /\ tracks[k] \in DOMAIN traks
                                          /\ \A j \in 1..(k - 1) : tracks[j] # tracks[k]
                                          /\ ~SamplesRefused(Decoded(traks[tracks[k]].stbl))
<1> DEFINE of(i) ==
              LET input == r.inputs[i]
                  traks == Traks(input.moov)
                  read == {k \in DOMAIN traks : TrackError(traks[k]) # "none"}
              IN IF read # {} THEN {TrackError(traks[k]) : k \in read}
                 ELSE {"no such track" : k \in {k \in DOMAIN input.tracks :
                         \/ input.tracks[k] \notin DOMAIN traks
                         \/ \E j \in 1..(k - 1) : input.tracks[j] = input.tracks[k]}}
                      \cup {"overflow" : k \in {k \in DOMAIN input.tracks :
                         /\ input.tracks[k] \in DOMAIN traks
                         /\ SamplesRefused(Decoded(traks[input.tracks[k]].stbl))}}
           all == UNION {of(i) : i \in DOMAIN r.inputs}
<1>1. all = {}
  <2>1. Errors(r) = IF all # {} THEN all
                    ELSE IF \A i \in DOMAIN r.inputs : r.inputs[i].tracks = <<>> THEN {"nothing selected"} ELSE {}
    BY DEF Errors
  <2> HIDE DEF all
  <2> QED
    BY <2>1
<1>2. of(n) = {}
  <2> HIDE DEF of
  <2> QED
    BY <1>1
<1> DEFINE traks == Traks(r.inputs[n].moov)
           tracks == r.inputs[n].tracks
<1>3. \A k \in DOMAIN traks : TrackError(traks[k]) = "none"
  BY <1>2
<1>4. \A k \in DOMAIN tracks : tracks[k] \in DOMAIN traks /\ \A j \in 1..(k - 1) : tracks[j] # tracks[k]
  BY <1>2
<1>5. \A k \in DOMAIN tracks : tracks[k] \in DOMAIN traks => ~SamplesRefused(Decoded(traks[tracks[k]].stbl))
  BY <1>2
<1> QED
  BY <1>3, <1>4, <1>5

LEMMA SlotsHold ==
    ASSUME NEW r, IsRequest(r), Errors(r) = {}
    PROVE  \A x \in DOMAIN Select(r) : SlotHolds(Select(r)[x])
<1> SUFFICES ASSUME NEW x \in DOMAIN Select(r) PROVE SlotHolds(Select(r)[x])
  OBVIOUS
<1> DEFINE slot == Select(r)[x]
<1>1. PICK n \in DOMAIN r.inputs : \E k \in DOMAIN r.inputs[n].tracks : slot = SlotOf(r, n, r.inputs[n].tracks[k])
  BY SelectFlattens DEF KeptFrom
<1>2. PICK k \in DOMAIN r.inputs[n].tracks : slot = SlotOf(r, n, r.inputs[n].tracks[k])
  BY <1>1
<1> DEFINE traks == Traks(r.inputs[n].moov)
           index == r.inputs[n].tracks[k]
<1>3. index \in DOMAIN traks /\ TrackError(traks[index]) = "none" /\ ~SamplesRefused(Decoded(traks[index].stbl))
  BY NoError
<1>4. IsSequence(r.inputs[n].moov) /\ \A i \in DOMAIN r.inputs[n].moov : IsBox(r.inputs[n].moov[i])
  BY DEF IsRequest, IsInput
<1>5. IsTrak(traks[index]) /\ traks[index].kind = "trak"
  <2>1. PICK i \in DOMAIN r.inputs[n].moov : traks[index] = r.inputs[n].moov[i] /\ r.inputs[n].moov[i].kind = "trak"
    BY <1>3, <1>4, TraksFound
  <2>2. IsBox(traks[index]) /\ traks[index].kind = "trak"
    BY <1>4, <2>1
  <2> QED
    BY <2>2 DEF IsBox
<1>6. slot = [input |-> n, index |-> index, trak |-> traks[index],
              source |-> TrackOf(traks[index].headers["tkhd"]),
              timescale |-> TimescaleOf(traks[index].headers["mdhd"]),
              samples |-> Samples(Decoded(traks[index].stbl))]
  BY <1>2 DEF SlotOf
<1>7. n \in Nat
  <2>1. DOMAIN r.inputs = 1..Len(r.inputs) /\ Len(r.inputs) \in Nat
    BY SequencePlaces DEF IsRequest
  <2> QED
    BY <2>1
<1> HIDE DEF slot, traks, index
<1> QED
  BY <1>3, <1>5, <1>6, <1>7 DEF SlotHolds, slot

LEMMA TrackReads ==
    ASSUME NEW trak, IsTrak(trak), TrackError(trak) = "none"
    PROVE  HeadersRead(trak.headers) /\ IsStbl(trak.stbl) /\ TableError(trak.stbl) = "none"
BY DEF TrackError, IsTrak

-----------------------------------------------------------------------------
(* What is settled once the tracks are selected. *)

Before0 == {"select", "refused"}
States == {"select", "head", "copy", "done", "refused", "cancelled", "failed"}

Settled ==
    /\ request \in Request
    /\ pc \in States
    /\ pc \notin Before0 =>
         /\ Errors(request) = {}
         /\ slots = Select(request)
         /\ chunks = Interleaved(slots)
         /\ layout = LayOut(request, slots, chunks)

LEMMA SettledInit == Init => Settled
BY DEF Init, Settled, States, Before0

LEMMA SettledStep ==
    ASSUME Settled, [Next]_vars PROVE Settled'
<1>1. CASE Refuse
  BY <1>1 DEF Settled, Refuse, States, Before0
<1>2. CASE SelectTracks
  BY <1>2 DEF Settled, SelectTracks, States, Before0
<1>3. CASE WriteHead
  BY <1>3 DEF Settled, WriteHead, States, Before0
<1>4. CASE CopyChunk
  BY <1>4 DEF Settled, CopyChunk, States, Before0
<1>5. CASE Finish
  BY <1>5 DEF Settled, Finish, States, Before0
<1>6. CASE Fail
  BY <1>6 DEF Settled, Fail, States, Before0
<1>7. CASE UNCHANGED vars
  BY <1>7 DEF Settled, vars, States, Before0
<1> QED
  BY <1>1, <1>2, <1>3, <1>4, <1>5, <1>6, <1>7 DEF Next

(* Once the tracks are selected, the slots are the selection, the chunks its interleaving and the layout the
   one of both, whatever is copied, cancelled or fails. *)
THEOREM AlwaysSettled == Spec => []Settled
<1> QED
  BY SettledInit, SettledStep, PTL DEF Spec

LEMMA SettledSlots ==
    ASSUME Settled, pc \notin Before0
    PROVE  IsRequest(request) /\ \A n \in DOMAIN slots : SlotHolds(slots[n])
BY RequestAssumption, SlotsHold DEF Settled

LEMMA TablesAgree ==
    ASSUME Settled PROVE AcceptedTablesAgree
<1> SUFFICES ASSUME pc = "head", NEW n \in DOMAIN slots
             PROVE  LocatesEverySample(Decoded(slots[n].trak.stbl))
  BY DEF AcceptedTablesAgree
<1> DEFINE trak == slots[n].trak
<1>1. IsTrak(trak) /\ TrackError(trak) = "none"
  BY SettledSlots DEF SlotHolds, Before0
<1>2. IsStbl(trak.stbl) /\ TableError(trak.stbl) = "none"
  BY <1>1, TrackReads
<1>3. IsTable(Decoded(trak.stbl)) /\ Consistent(Decoded(trak.stbl))
  BY <1>2, DecodedTable
<1> QED
  BY <1>3, TableAgrees

(* The tables of every track that was accepted locate each of its samples, once and in order: SampleTable::read
   and SampleTable::samples. *)
THEOREM AcceptedTablesLocate == Spec => []AcceptedTablesAgree
BY AlwaysSettled, TablesAgree, PTL

-----------------------------------------------------------------------------
(* The fields of header boxes. *)

IsLayout(fields, n) ==
    /\ Len(fields) = n /\ DOMAIN fields = 1..n /\ n \in Nat
    /\ \A i \in 1..n : fields[i].width \in Nat
FieldIs(fields, name, c) == c \in DOMAIN fields /\ \A i \in DOMAIN fields : fields[i].name = name <=> i = c
Widths(fields) == [i \in DOMAIN fields |-> fields[i].width]

LEMMA BytesBefore ==
    ASSUME NEW fields, NEW n, IsLayout(fields, n), fields \in Seq({fields[i] : i \in DOMAIN fields}), NEW name, NEW c, FieldIs(fields, name, c)
    PROVE  /\ Before(fields, name) = Sum(Widths(fields), 1..(c - 1))
           /\ Bytes(fields) = Sum(Widths(fields), 1..n)
<1> DEFINE w == Widths(fields)
<1>1. (CHOOSE i \in DOMAIN fields : fields[i].name = name) = c
  BY DEF FieldIs
<1>2. c \in 1..n /\ n \in Nat /\ c - 1 \in Nat /\ c - 1 <= n /\ Len(fields) = n /\ DOMAIN fields = 1..n
  BY DEF FieldIs, IsLayout
<1>3. DOMAIN SubSeq(fields, 1, c - 1) = 1..(c - 1) /\ \A i \in 1..(c - 1) : SubSeq(fields, 1, c - 1)[i] = fields[i]
  BY <1>2
<1>4. Bytes(SubSeq(fields, 1, c - 1)) = Sum(w, 1..(c - 1))
  <2> DEFINE p == [i \in DOMAIN SubSeq(fields, 1, c - 1) |-> SubSeq(fields, 1, c - 1)[i].width]
  <2>1. Bytes(SubSeq(fields, 1, c - 1)) = Sum(p, DOMAIN p)
    BY SumByChoice DEF Bytes
  <2>2. DOMAIN p = 1..(c - 1)
    BY <1>3
  <2>3. \A i \in 1..(c - 1) : p[i] = w[i]
    BY <1>2, <1>3 DEF Widths
  <2> HIDE DEF p, w
  <2>4. Sum(p, 1..(c - 1)) = Sum(w, 1..(c - 1))
    BY <1>2, <2>3, Numbers, SumSame
  <2> QED
    BY <2>1, <2>2, <2>4
<1>5. Bytes(fields) = Sum(w, 1..n)
  <2>1. Bytes(fields) = SumFunction(w) /\ DOMAIN w = 1..n
    BY <1>2 DEF Bytes, Widths
  <2> HIDE DEF w
  <2> QED
    BY <2>1, SumByChoice
<1> QED
  BY <1>1, <1>4, <1>5 DEF Before

LEMMA FieldInside ==
    ASSUME NEW fields, NEW n, IsLayout(fields, n), fields \in Seq({fields[i] : i \in DOMAIN fields}), NEW name, NEW c, FieldIs(fields, name, c),
           fields[c].width = 4, NEW q \in Nat, Sum(Widths(fields), 1..(c - 1)) = 4 * q,
           NEW payload, Len(payload) \in Nat, Holds(payload, fields)
    PROVE  Get(payload, fields, name) = payload[q + 1] /\ q + 1 \in 1..Len(payload)
<1> DEFINE w == Widths(fields)
<1>1. Before(fields, name) = 4 * q /\ Bytes(fields) = Sum(w, 1..n)
  BY BytesBefore
<1>2. n \in Nat /\ c \in 1..n /\ (\A i \in 1..n : w[i] \in Nat) /\ w[c] = 4
  BY DEF FieldIs, IsLayout, Widths
<1>7. Sum(w, 1..(c - 1)) = 4 * q
  OBVIOUS
<1> HIDE DEF w
<1>3. Sum(w, 1..(c - 1)) + w[c] <= Sum(w, 1..n) /\ Sum(w, 1..n) \in Nat
  BY <1>2, SumGrows
<1>4. Sum(w, 1..n) <= 4 * Len(payload)
  BY <1>1 DEF Holds, Word
<1>5. 4 * q + 4 <= 4 * Len(payload)
  <2> DEFINE a == Sum(w, 1..n)
  <2>1. a \in Nat /\ 4 * q + 4 <= a /\ a <= 4 * Len(payload)
    BY <1>2, <1>3, <1>4, <1>7
  <2> HIDE DEF a
  <2> QED
    BY <2>1
<1>6. (4 * q) \div 4 = q
  OBVIOUS
<1> QED
  BY <1>1, <1>5, <1>6 DEF Get, Word

LEMMA FirstThree ==
    ASSUME NEW w, NEW a \in Nat, NEW b \in Nat, w[1] = a, w[2] = b, w[3] = b
    PROVE  Sum(w, 1..3) = a + 2 * b
<1>1. \A n \in {0, 1, 2} : \A i \in 1..(n + 1) : w[i] \in Nat
  <2> SUFFICES ASSUME NEW n \in {0, 1, 2}, NEW i \in 1..(n + 1) PROVE w[i] \in Nat
    OBVIOUS
  <2>1. i = 1 \/ i = 2 \/ i = 3
    OBVIOUS
  <2> QED
    BY <2>1
<1>2. ASSUME NEW n \in {0, 1, 2} PROVE Sum(w, 1..(n + 1)) = Sum(w, 1..n) + w[n + 1]
  <2>1. n \in Nat /\ \A i \in 1..(n + 1) : w[i] \in Nat
    BY <1>1
  <2> QED
    BY <2>1, SumNext
<1>3. Sum(w, 1..1) = a
  <2>1. Sum(w, 1..(0 + 1)) = Sum(w, 1..0) + w[0 + 1]
    BY <1>2
  <2>2. Sum(w, 1..0) = 0
    BY SumNone
  <2>3. 0 + 1 = 1
    OBVIOUS
  <2> QED
    BY <2>1, <2>2, <2>3
<1>4. Sum(w, 1..2) = a + b
  <2>1. Sum(w, 1..(1 + 1)) = Sum(w, 1..1) + w[1 + 1]
    BY <1>2
  <2>2. 1 + 1 = 2
    OBVIOUS
  <2> QED
    BY <1>3, <2>1, <2>2
<1>5. Sum(w, 1..(2 + 1)) = Sum(w, 1..2) + w[2 + 1]
  BY <1>2
<1>6. 2 + 1 = 3
  OBVIOUS
<1> QED
  BY <1>4, <1>5, <1>6

FieldNames ==
    {"version and flags", "creation time", "modification time", "timescale", "duration", "language", "track",
     "reserved", "layer", "alternate group", "volume", "reserved and matrix", "width", "height"}
Fields == [name : FieldNames, width : Nat]

LEMMA IsField ==
    ASSUME NEW name \in FieldNames, NEW width \in Nat
    PROVE  Field(name, width) \in Fields /\ Field(name, width).name = name /\ Field(name, width).width = width
BY DEF Field, Fields

LEMMA VersionedWidth == ASSUME NEW v \in {0, 1} PROVE Versioned(v) \in Nat
BY DEF Versioned

LEMMA ThreeFields ==
    ASSUME NEW F, NEW a \in F, NEW b \in F, NEW c \in F
    PROVE  LET s == <<a, b, c>> IN s \in Seq(F) /\ Len(s) = 3 /\ s[1] = a /\ s[2] = b /\ s[3] = c
OBVIOUS

LEMMA TenFields ==
    ASSUME NEW F, NEW a \in F, NEW b \in F, NEW c \in F, NEW d \in F, NEW e \in F, NEW f \in F, NEW g \in F,
           NEW h \in F, NEW i \in F, NEW j \in F
    PROVE  LET s == <<a, b, c, d, e, f, g, h, i, j>>
           IN /\ s \in Seq(F) /\ Len(s) = 10 /\ s[1] = a /\ s[2] = b /\ s[3] = c /\ s[4] = d /\ s[5] = e
              /\ s[6] = f /\ s[7] = g /\ s[8] = h /\ s[9] = i /\ s[10] = j
OBVIOUS

(* The field after the times of a header box. *)
Timed(rest, name) ==
    /\ rest \in Seq(Fields) /\ Len(rest) \in Nat \ {0}
    /\ rest[1] = Field(name, 4) /\ \A k \in 2..Len(rest) : rest[k].name # name

LEMMA TimedField ==
    ASSUME NEW v \in {0, 1}, NEW name \in {"timescale", "track"}, NEW rest, Timed(rest, name),
           NEW payload, Len(payload) \in Nat, Holds(payload, Times(v) \o rest)
    PROVE  LET q == IF v = 0 THEN 3 ELSE 5
           IN Get(payload, Times(v) \o rest, name) = payload[q + 1] /\ q + 1 \in 1..Len(payload)
<1> DEFINE F == Fields
           x == Versioned(v)
           a == Times(v)
           f == a \o rest
           m == Len(rest)
           q == IF v = 0 THEN 3 ELSE 5
<1>1. x \in Nat /\ 4 + 2 * x = 4 * q /\ q \in Nat
  BY DEF Versioned
<1> DEFINE a1 == Field("version and flags", 4)
           a2 == Field("creation time", x)
           a3 == Field("modification time", x)
<1>2. a1 \in F /\ a2 \in F /\ a3 \in F /\ a1.width = 4 /\ a2.width = x /\ a3.width = x
      /\ a1.name = "version and flags" /\ a2.name = "creation time" /\ a3.name = "modification time"
  <2>1. "version and flags" \in FieldNames /\ "creation time" \in FieldNames /\ "modification time" \in FieldNames
    BY DEF FieldNames
  <2>2. x \in Nat
    BY <1>1
  <2> HIDE DEF x
  <2>3. a1 \in Fields /\ a1.width = 4 /\ a1.name = "version and flags"
    <3>1. 4 \in Nat
      OBVIOUS
    <3>2. \A width \in Nat : LET f1 == Field("version and flags", width) IN
            f1 \in Fields /\ f1.width = width /\ f1.name = "version and flags"
      BY <2>1, IsField
    <3> QED
      BY <3>1, <3>2
  <2>4. a2 \in Fields /\ a2.width = x /\ a2.name = "creation time"
    BY <2>1, <2>2, IsField
  <2>5. a3 \in Fields /\ a3.width = x /\ a3.name = "modification time"
    BY <2>1, <2>2, IsField
  <2> QED
    BY <2>3, <2>4, <2>5
<1>3. /\ a \in Seq(F) /\ Len(a) = 3 /\ rest \in Seq(F) /\ m \in Nat /\ 1 \in 1..m
      /\ a[1] = a1 /\ a[2] = a2 /\ a[3] = a3
  <2>1. a = <<a1, a2, a3>>
    BY DEF Times
  <2>2. rest \in Seq(F) /\ m \in Nat \ {0}
    BY DEF Timed
  <2> HIDE DEF F, a1, a2, a3, a, m
  <2>3. a \in Seq(F) /\ Len(a) = 3 /\ a[1] = a1 /\ a[2] = a2 /\ a[3] = a3
    BY <1>2, <2>1, ThreeFields
  <2>4. m \in Nat /\ 1 \in 1..m
    BY <2>2
  <2> QED
    BY <2>2, <2>3, <2>4
<1>4. /\ a[1].width = 4 /\ a[2].width = x /\ a[3].width = x
      /\ a[1].name # name /\ a[2].name # name /\ a[3].name # name
  <2> HIDE DEF a1, a2, a3, a, x, F
  <2> QED
    BY <1>2, <1>3
<1>5. f \in Seq(F) /\ Joins(f, a, rest)
  <2> HIDE DEF F, a
  <2> QED
    BY <1>3, Concat
<1> HIDE DEF a, f, F, x
<1>6. /\ Len(f) = 3 + m /\ DOMAIN f = 1..(3 + m)
      /\ \A i \in 1..3 : f[i] = a[i]
      /\ \A k \in 1..m : f[3 + k] = rest[k]
  <2>1. Len(a) = 3
    BY <1>3
  <2> QED
    BY <1>5, <2>1 DEF Joins
<1>16. m \in Nat /\ 1 \in 1..m /\ DOMAIN f = 1..(3 + m)
  BY <1>3, <1>6
<1>17. rest[1] = Field(name, 4) /\ \A k \in 2..m : rest[k].name # name
  BY DEF Timed
<1> HIDE DEF m
<1>7. f[1] = a[1] /\ f[2] = a[2] /\ f[3] = a[3] /\ f[4] = Field(name, 4)
  <2>1. f[1] = a[1] /\ f[2] = a[2] /\ f[3] = a[3]
    BY <1>6
  <2>2. f[3 + 1] = rest[1] /\ 3 + 1 = 4
    BY <1>6, <1>16
  <2> HIDE DEF a, f
  <2> QED
    BY <1>17, <2>1, <2>2
<1>8. IsLayout(f, 3 + m)
  <2>1. \A i \in 1..(3 + m) : f[i] \in F
    BY <1>5, <1>6
  <2>2. \A i \in 1..(3 + m) : f[i].width \in Nat
    BY <2>1 DEF F, Fields
  <2> QED
    BY <1>6, <1>16, <2>2 DEF IsLayout
<1>9. FieldIs(f, name, 4)
  <2>1. 4 \in DOMAIN f
    BY <1>16
  <2>2. ASSUME NEW i \in DOMAIN f PROVE f[i].name = name <=> i = 4
    <3>1. i = 1 \/ i = 2 \/ i = 3 \/ i = 4 \/ (i - 3 \in 2..m /\ i = 3 + (i - 3))
      BY <1>16
    <3>2. CASE i = 1 \/ i = 2 \/ i = 3
      BY <1>4, <1>7, <3>2
    <3>3. CASE i = 4
      BY <1>7, <3>3 DEF Field
    <3>4. CASE i - 3 \in 2..m /\ i = 3 + (i - 3)
      <4>1. PICK k \in 2..m : i = 3 + k
        BY <3>4
      <4>2. k \in 1..m /\ i # 4
        BY <1>16, <4>1
      <4>3. f[i] = rest[k]
        BY <1>6, <4>1, <4>2
      <4>4. rest[k].name # name
        BY <1>17, <4>1
      <4> QED
        BY <4>2, <4>3, <4>4
    <3> QED
      BY <3>1, <3>2, <3>3, <3>4
  <2> QED
    BY <2>1, <2>2 DEF FieldIs
<1>10. Sum(Widths(f), 1..(4 - 1)) = 4 * q
  <2>1. 1 \in DOMAIN f /\ 2 \in DOMAIN f /\ 3 \in DOMAIN f
    BY <1>16
  <2>2. Widths(f)[1] = 4 /\ Widths(f)[2] = x /\ Widths(f)[3] = x
    BY <1>4, <1>7, <2>1 DEF Widths
  <2>3. Sum(Widths(f), 1..3) = 4 + 2 * x
    BY <1>1, <2>2, FirstThree
  <2>4. 4 - 1 = 3
    OBVIOUS
  <2> QED
    BY <1>1, <2>3, <2>4
<1>11. f[4].width = 4 /\ f \in Seq({f[i] : i \in DOMAIN f})
  <2>1. f[4].width = 4
    BY <1>7 DEF Field
  <2> QED
    BY <1>5, <2>1
<1>12. Holds(payload, f)
  BY DEF f, a
<1>13. Get(payload, f, name) = payload[q + 1] /\ q + 1 \in 1..Len(payload)
  <2>1. q \in Nat
    BY <1>1
  <2>2. IsLayout(f, 3 + m) /\ FieldIs(f, name, 4) /\ f[4].width = 4 /\ Sum(Widths(f), 1..(4 - 1)) = 4 * q
    BY <1>8, <1>9, <1>10, <1>11
  <2> HIDE DEF q, m
  <2> QED
    BY <1>11, <1>12, <2>1, <2>2, FieldInside
<1> QED
  BY <1>13 DEF f, a

LEMMA MdhdField ==
    ASSUME NEW mdhd \in Seq(Nat), Reads(mdhd, Mdhd)
    PROVE  LET q == IF VersionOf(mdhd) = 0 THEN 3 ELSE 5
           IN /\ VersionOf(mdhd) \in {0, 1}
              /\ TimescaleOf(mdhd) = mdhd[q + 1] /\ q + 1 \in 1..Len(mdhd)
<1> DEFINE v == VersionOf(mdhd)
           rest == <<Field("timescale", 4), Field("duration", Versioned(v)), Field("language", 2)>>
<1>1. v \in {0, 1} /\ Holds(mdhd, Mdhd(v)) /\ Mdhd(v) = Times(v) \o rest
  BY DEF Reads, Mdhd
<1>2. Timed(rest, "timescale")
  <2>1. Versioned(v) \in Nat
    BY <1>1, VersionedWidth
  <2> HIDE DEF v
  <2>2. "timescale" \in FieldNames /\ "duration" \in FieldNames /\ "language" \in FieldNames
    BY DEF FieldNames
  <2>3. /\ Field("timescale", 4) \in Fields /\ Field("duration", Versioned(v)) \in Fields
        /\ Field("language", 2) \in Fields
        /\ Field("duration", Versioned(v)).name # "timescale" /\ Field("language", 2).name # "timescale"
    BY <2>1, <2>2, IsField
  <2>4. \A k \in 2..3 : k = 2 \/ k = 3
    OBVIOUS
  <2>5. /\ rest \in Seq(Fields) /\ Len(rest) = 3 /\ rest[1] = Field("timescale", 4)
        /\ rest[2] = Field("duration", Versioned(v)) /\ rest[3] = Field("language", 2)
    BY <2>3, ThreeFields
  <2>6. rest[1] = Field("timescale", 4) /\ rest[2].name # "timescale" /\ rest[3].name # "timescale"
    BY <2>3, <2>5
  <2> HIDE DEF rest
  <2> QED
    BY <2>4, <2>5, <2>6 DEF Timed
<1>3. Len(mdhd) \in Nat
  OBVIOUS
<1> HIDE DEF rest
<1> QED
  BY <1>1, <1>2, <1>3, TimedField DEF TimescaleOf

LEMMA TkhdField ==
    ASSUME NEW tkhd \in Seq(Nat), Reads(tkhd, Tkhd)
    PROVE  LET q == IF VersionOf(tkhd) = 0 THEN 3 ELSE 5
           IN /\ VersionOf(tkhd) \in {0, 1}
              /\ TrackOf(tkhd) = tkhd[q + 1] /\ q + 1 \in 1..Len(tkhd)
<1> DEFINE v == VersionOf(tkhd)
           F == Fields
           rest == <<Field("track", 4), Field("reserved", 4), Field("duration", Versioned(v)),
                     Field("reserved", 8), Field("layer", 2), Field("alternate group", 2),
                     Field("volume", 2), Field("reserved and matrix", 2 + 36), Field("width", 4), Field("height", 4)>>
<1>4. v \in {0, 1}
  BY DEF Reads
<1>1. v \in {0, 1} /\ Holds(tkhd, Tkhd(v)) /\ Tkhd(v) = Times(v) \o rest
  BY DEF Reads, Tkhd
<1>2. Timed(rest, "track")
  <2>10. Versioned(v) \in Nat
    BY <1>4, VersionedWidth
  <2>9. 2 + 36 \in Nat
    OBVIOUS
  <2>1. Versioned(v) \in Nat /\ 2 + 36 \in Nat
    BY <2>10, <2>9
  <2> HIDE DEF v
  <2> DEFINE a == Field("track", 4)
             b == Field("reserved", 4)
             c == Field("duration", Versioned(v))
             d == Field("reserved", 8)
             e == Field("layer", 2)
             f == Field("alternate group", 2)
             g == Field("volume", 2)
             h == Field("reserved and matrix", 2 + 36)
             i == Field("width", 4)
             j == Field("height", 4)
  <2>2. /\ "track" \in FieldNames /\ "reserved" \in FieldNames /\ "duration" \in FieldNames /\ "layer" \in FieldNames
        /\ "alternate group" \in FieldNames /\ "volume" \in FieldNames /\ "reserved and matrix" \in FieldNames
        /\ "width" \in FieldNames /\ "height" \in FieldNames
    BY DEF FieldNames
  <2>3. /\ a \in Fields /\ b \in Fields /\ c \in Fields /\ d \in Fields /\ e \in Fields /\ f \in Fields
        /\ g \in Fields /\ h \in Fields /\ i \in Fields /\ j \in Fields
    <3>1. \A name \in FieldNames : \A width \in Nat : Field(name, width) \in Fields
      BY IsField
    <3>2. /\ a \in Fields /\ b \in Fields /\ d \in Fields /\ e \in Fields /\ f \in Fields
          /\ g \in Fields /\ i \in Fields /\ j \in Fields
      BY <2>2, <3>1
    <3>3. c \in Fields
      BY <2>1, <2>2, <3>1
    <3>4. h \in Fields
      BY <2>1, <2>2, <3>1
    <3> QED
      BY <3>2, <3>3, <3>4
  <2>4. /\ b.name # "track" /\ c.name # "track" /\ d.name # "track" /\ e.name # "track" /\ f.name # "track"
        /\ g.name # "track" /\ h.name # "track" /\ i.name # "track" /\ j.name # "track"
    BY DEF Field
  <2>5. rest = <<a, b, c, d, e, f, g, h, i, j>>
    OBVIOUS
  <2> HIDE DEF a, b, c, d, e, f, g, h, i, j, rest
  <2>6. /\ rest \in Seq(Fields) /\ Len(rest) = 10 /\ rest[1] = a /\ rest[2] = b /\ rest[3] = c /\ rest[4] = d
        /\ rest[5] = e /\ rest[6] = f /\ rest[7] = g /\ rest[8] = h /\ rest[9] = i /\ rest[10] = j
    BY <2>3, <2>5, TenFields
  <2>7. ASSUME NEW k \in 2..10 PROVE rest[k].name # "track"
    <3>1. k = 2 \/ k = 3 \/ k = 4 \/ k = 5 \/ k = 6 \/ k = 7 \/ k = 8 \/ k = 9 \/ k = 10
      OBVIOUS
    <3> QED
      BY <2>4, <2>6, <3>1
  <2>8. rest[1] = Field("track", 4)
    BY <2>6 DEF a
  <2> QED
    BY <2>6, <2>7, <2>8 DEF Timed
<1>3. Len(tkhd) \in Nat
  OBVIOUS
<1> HIDE DEF rest
<1> QED
  BY <1>1, <1>2, <1>3, TimedField DEF TrackOf

-----------------------------------------------------------------------------
(* The samples of a track, chunk by chunk. *)

Climbs(s) ==
    /\ Len(s) \in Nat /\ DOMAIN s = 1..Len(s)
    /\ \A i \in 1..Len(s) : s[i].chunk \in Nat
    /\ \A i \in 1..Len(s) : i = 1 \/ s[i].chunk = s[i - 1].chunk \/ s[i].chunk = s[i - 1].chunk + 1
IsFirst(s, i) == i \in DOMAIN s /\ (i = 1 \/ s[i - 1].chunk # s[i].chunk)
Together(s, i) == {k \in DOMAIN s : s[k].chunk = s[i].chunk}

LEMMA ChunksClimb ==
    ASSUME NEW s, Climbs(s), NEW l \in 1..Len(s), NEW k \in 1..l
    PROVE  s[k].chunk <= s[l].chunk
<1> DEFINE n == Len(s)
           Low(x) == s[k].chunk <= s[x].chunk
           T == {x \in Nat : k <= x /\ x <= l /\ ~Low(x)}
<1>1. n \in Nat /\ l \in 1..n /\ k \in Nat /\ 1 <= k /\ k <= l
  BY DEF Climbs
<1>2. \A i \in 1..n : s[i].chunk \in Nat
  BY DEF Climbs
<1>3. SUFFICES ASSUME T # {} PROVE FALSE
  <2>1. l \notin T
    BY <1>3
  <2> HIDE DEF Low
  <2>2. Low(l)
    BY <1>1, <2>1
  <2> QED
    BY <2>2 DEF Low
<1> HIDE DEF Low
<1>4. PICK x \in T : \A y \in T : x <= y
  BY <1>3, Least
<1>5. x \in Nat /\ k <= x /\ x <= l /\ ~Low(x) /\ x \in 1..n
  BY <1>1, <1>4
<1>6. CASE x = k
  <2>1. s[k].chunk \in Nat
    BY <1>2, <1>5, <1>6
  <2> QED
    BY <1>5, <1>6, <2>1 DEF Low
<1>7. CASE x # k
  <2>1. x - 1 \in Nat /\ k <= x - 1 /\ x - 1 <= l /\ x - 1 \in 1..n /\ x # 1
    BY <1>1, <1>5, <1>7
  <2>2. x - 1 \notin T
    BY <1>4, <2>1
  <2>3. Low(x - 1)
    BY <2>1, <2>2
  <2>4. s[x].chunk = s[x - 1].chunk \/ s[x].chunk = s[x - 1].chunk + 1
    BY <1>5, <2>1 DEF Climbs
  <2>5. s[x].chunk \in Nat /\ s[x - 1].chunk \in Nat /\ s[k].chunk \in Nat
    BY <1>1, <1>2, <1>5, <2>1
  <2> QED
    BY <1>5, <2>3, <2>4, <2>5 DEF Low
<1> QED
  BY <1>6, <1>7

(* The samples of a chunk are consecutive. *)
LEMMA BlockIsRange ==
    ASSUME NEW s, Climbs(s), NEW i, IsFirst(s, i)
    PROVE  \E j \in i..Len(s) : Together(s, i) = i..j
<1> DEFINE n == Len(s)
           B == Together(s, i)
           T == {n - k : k \in B}
<1>1. n \in Nat /\ DOMAIN s = 1..n /\ i \in 1..n
  BY DEF Climbs, IsFirst
<1>2. \A k \in 1..n : s[k].chunk \in Nat
  BY DEF Climbs
<1>3. \A k \in B : k \in 1..n /\ s[k].chunk = s[i].chunk
  BY <1>1 DEF Together
<1>4. \A k \in 1..n : s[k].chunk = s[i].chunk => k \in B
  BY <1>1 DEF Together
<1> HIDE DEF B, n
<1>5. T \subseteq Nat /\ n - i \in T
  BY <1>1, <1>3, <1>4
<1>6. PICK x \in T : \A y \in T : x <= y
  BY <1>5, Least
<1>7. PICK j \in B : x = n - j
  BY <1>6
<1>8. \A k \in B : k <= j
  <2> SUFFICES ASSUME NEW k \in B PROVE k <= j
    OBVIOUS
  <2>1. n - k \in T
    OBVIOUS
  <2>2. n - j <= n - k
    BY <1>6, <1>7, <2>1
  <2>3. k \in 1..n /\ j \in 1..n
    BY <1>3
  <2> QED
    BY <1>1, <2>2, <2>3
<1>9. j \in 1..n /\ i <= j /\ j \in i..n
  <2>1. i \in B
    BY <1>1, <1>4
  <2> QED
    BY <1>1, <1>3, <1>7, <1>8, <2>1
<1>10. ASSUME NEW k \in B PROVE k \in i..j
  <2>1. k \in 1..n /\ s[k].chunk = s[i].chunk /\ k <= j
    BY <1>3, <1>8
  <2>2. CASE k < i
    <3>1. i # 1 /\ i - 1 \in 1..n /\ k \in 1..(i - 1)
      BY <1>1, <2>1, <2>2
    <3>2. s[i - 1].chunk # s[i].chunk
      BY <3>1 DEF IsFirst
    <3>3. s[i].chunk = s[i - 1].chunk + 1
      BY <1>1, <3>1, <3>2 DEF Climbs, n
    <3>4. s[k].chunk <= s[i - 1].chunk
      BY <3>1, ChunksClimb DEF n
    <3>5. s[k].chunk \in Nat /\ s[i - 1].chunk \in Nat
      BY <1>2, <2>1, <3>1
    <3> QED
      BY <2>1, <3>3, <3>4, <3>5
  <2> QED
    BY <1>1, <2>1, <2>2
<1>11. ASSUME NEW k \in i..j PROVE k \in B
  <2>1. k \in 1..n /\ k \in 1..j /\ i \in 1..k
    BY <1>1, <1>9
  <2>2. s[i].chunk <= s[k].chunk /\ s[k].chunk <= s[j].chunk
    BY <1>9, <2>1, ChunksClimb DEF n
  <2>3. s[j].chunk = s[i].chunk
    BY <1>3, <1>7
  <2>4. s[i].chunk \in Nat /\ s[k].chunk \in Nat
    BY <1>1, <1>2, <2>1
  <2> QED
    BY <1>4, <2>1, <2>2, <2>3, <2>4
<1>12. B = i..j
  BY <1>10, <1>11
<1> QED
  BY <1>9, <1>12 DEF B, n

LEMMA ChunkBegins ==
    ASSUME NEW s, Climbs(s), NEW k \in 1..Len(s)
    PROVE  \E i \in 1..k : IsFirst(s, i) /\ s[i].chunk = s[k].chunk
<1> DEFINE n == Len(s)
           T == {x \in Nat : 1 <= x /\ x <= k /\ s[x].chunk = s[k].chunk}
<1>1. n \in Nat /\ DOMAIN s = 1..n /\ k \in 1..n
  BY DEF Climbs
<1>2. k \in T
  BY <1>1
<1>3. PICK i \in T : \A y \in T : i <= y
  BY <1>2, Least
<1>4. i \in 1..k /\ i \in 1..n /\ s[i].chunk = s[k].chunk
  BY <1>1, <1>3
<1>5. ASSUME i # 1 PROVE s[i - 1].chunk # s[i].chunk
  <2>1. i - 1 \in Nat /\ 1 <= i - 1 /\ i - 1 <= k /\ ~(i <= i - 1)
    BY <1>1, <1>4, <1>5
  <2>2. i - 1 \notin T
    BY <1>3, <2>1
  <2> QED
    BY <1>4, <2>1, <2>2
<1> QED
  BY <1>1, <1>4, <1>5 DEF IsFirst

(* What the samples of a kept track are. *)
Stored(slot) ==
    /\ IsSequence(slot.samples) /\ Climbs(slot.samples) /\ slot.timescale \in Nat /\ slot.input \in Nat
    /\ \A i \in 1..Len(slot.samples) :
         slot.samples[i].size \in Nat /\ slot.samples[i].time \in Nat /\ slot.samples[i].offset \in Nat

LEMMA SlotStored ==
    ASSUME NEW slot, SlotHolds(slot)
    PROVE  Stored(slot)
<1> DEFINE trak == slot.trak
           t == Decoded(trak.stbl)
           s == slot.samples
           n == SampleCount(t)
           d == Expanded(t.timeToSample)
           c == ChunkOfEach(t)
<1>1. IsTrak(trak) /\ TrackError(trak) = "none" /\ s = Samples(t) /\ slot.timescale = TimescaleOf(trak.headers["mdhd"])
  BY DEF SlotHolds
<1>2. HeadersRead(trak.headers) /\ IsStbl(trak.stbl) /\ TableError(trak.stbl) = "none"
  BY <1>1, TrackReads
<1>3. slot.timescale \in Nat
  <2> DEFINE mdhd == trak.headers["mdhd"]
  <2>1. "mdhd" \in DOMAIN trak.headers /\ Reads(mdhd, Mdhd)
    BY <1>2 DEF HeadersRead
  <2>2. mdhd \in Seq(Nat)
    BY <1>1, <2>1 DEF IsTrak
  <2> HIDE DEF mdhd
  <2>3. TimescaleOf(mdhd) \in Nat
    <3> DEFINE q == IF VersionOf(mdhd) = 0 THEN 3 ELSE 5
    <3>1. TimescaleOf(mdhd) = mdhd[q + 1] /\ q + 1 \in 1..Len(mdhd)
      BY <2>1, <2>2, MdhdField
    <3> HIDE DEF q
    <3> QED
      BY <2>2, <3>1
  <2> QED
    BY <1>1, <2>3 DEF mdhd
<1>4. IsTable(t) /\ Consistent(t)
  BY <1>2, DecodedTable
<1>5. Located(t, s) /\ Len(s) = n
  BY <1>1, <1>4, SamplesLocated
<1>6. n \in Nat /\ Len(c) = n /\ DOMAIN t.sizes = 1..n /\ d \in Seq(Nat) /\ Len(d) = n /\ t.sizes \in Seq(Nat)
  BY <1>4, TableLengths DEF IsTable
<1>7. c \in Seq(Nat) /\ (t.sampleToChunk # <<>> => IsStair(c, 1, ChunkCount(t)))
  BY <1>4, ChunkStair DEF Consistent
<1>8. n > 0 => t.sampleToChunk # <<>>
  BY <1>4 DEF Consistent, ChunksExist
<1> HIDE DEF s, n, c, d, t, trak
<1>9. DOMAIN s = 1..n
  BY <1>5 DEF Located, n
<1>10. \A i \in 1..n : /\ s[i].chunk = c[i] /\ s[i].size = t.sizes[i] /\ s[i].duration = d[i]
                       /\ s[i].time = IF i = 1 THEN 0 ELSE s[i - 1].time + s[i - 1].duration
  BY <1>5 DEF Located, n, c, d
<1>11. \A i \in 1..n : c[i] \in Nat /\ t.sizes[i] \in Nat /\ d[i] \in Nat
  <2>1. \A i \in 1..n : c[i] \in Nat
    BY <1>6, <1>7
  <2>2. \A i \in 1..n : d[i] \in Nat
    BY <1>6
  <2>3. \A i \in 1..n : t.sizes[i] \in Nat
    BY <1>6
  <2> QED
    BY <2>1, <2>2, <2>3
<1>12. \A i \in 1..n : i = 1 \/ s[i].chunk = s[i - 1].chunk \/ s[i].chunk = s[i - 1].chunk + 1
  <2> SUFFICES ASSUME NEW i \in 1..n, i # 1 PROVE s[i].chunk = s[i - 1].chunk \/ s[i].chunk = s[i - 1].chunk + 1
    OBVIOUS
  <2>1. n > 0 /\ i \in 2..n /\ i - 1 \in 1..n
    BY <1>6
  <2>2. c[i] = c[i - 1] \/ c[i] = c[i - 1] + 1
    BY <1>6, <1>7, <1>8, <2>1 DEF IsStair
  <2> QED
    BY <1>10, <2>1, <2>2
<1>13. \A i \in 1..n : s[i].time \in Nat
  <2>1. CASE n = 0
    BY <2>1
  <2>2. CASE n # 0
    <3> DEFINE time == [i \in 1..n |-> s[i].time]
    <3>1. \A i \in 1..n : time[i] = IF i = 1 THEN 0 ELSE time[i - 1] + d[i - 1]
      <4> SUFFICES ASSUME NEW i \in 1..n PROVE time[i] = IF i = 1 THEN 0 ELSE time[i - 1] + d[i - 1]
        OBVIOUS
      <4>1. CASE i = 1
        BY <1>10, <4>1
      <4>2. CASE i # 1
        <5>1. i - 1 \in 1..n
          BY <1>6, <4>2
        <5> QED
          BY <1>10, <4>2, <5>1
      <4> QED
        BY <4>1, <4>2
    <3>2. n \in Nat \ {0}
      BY <1>6, <2>2
    <3>3. \A i \in 1..n : time[i] = s[i].time
      OBVIOUS
    <3> HIDE DEF time
    <3>4. \A i \in 1..n : time[i] \in Nat
      BY <1>11, <3>1, <3>2, TimesAddUp
    <3> QED
      BY <3>3, <3>4
  <2> QED
    BY <2>1, <2>2
<1>14. Climbs(s)
  BY <1>5, <1>6, <1>9, <1>10, <1>11, <1>12 DEF Climbs
<1>15. \A i \in 1..Len(s) : s[i].size \in Nat /\ s[i].time \in Nat
  BY <1>5, <1>10, <1>11, <1>13
<1>16. \A i \in 1..n : s[i].offset \in Nat
  <2> SUFFICES ASSUME n # 0 PROVE \A i \in 1..n : s[i].offset \in Nat
    BY <1>6
  <2>1. IsStair(c, 1, ChunkCount(t)) /\ n > 0 /\ 1 \in 1..n /\ n \in 1..n
    BY <1>6, <1>7, <1>8
  <2>2. c[1] = 1 /\ c[n] = ChunkCount(t)
    BY <1>6, <2>1 DEF IsStair
  <2>3. t.chunkOffsets \in Seq(Nat) /\ ChunkCount(t) = Len(t.chunkOffsets)
    BY <1>4 DEF IsTable, ChunkCount
  <2>4. ASSUME NEW i \in 1..n PROVE t.chunkOffsets[s[i].chunk] \in Nat
    <3>1. 1 \in 1..i /\ i \in 1..n /\ i \in 1..Len(s) /\ n \in 1..Len(s)
      BY <1>5, <1>6, <2>1
    <3>2. s[1].chunk <= s[i].chunk /\ s[i].chunk <= s[n].chunk
      BY <1>14, <3>1, ChunksClimb
    <3>3. s[1].chunk = 1 /\ s[n].chunk = ChunkCount(t) /\ s[i].chunk \in Nat
      BY <1>10, <1>11, <2>1, <2>2
    <3>4. s[i].chunk \in 1..Len(t.chunkOffsets)
      BY <2>3, <3>2, <3>3
    <3> QED
      BY <2>3, <3>4
  <2>5. \A i \in 1..n : s[i].offset = IF i > 1 /\ s[i].chunk = s[i - 1].chunk
                                     THEN s[i - 1].offset + s[i - 1].size ELSE t.chunkOffsets[s[i].chunk]
    BY <1>5 DEF Located, n
  <2> DEFINE Is(i) == s[i].offset \in Nat
             T == {i \in Nat : 1 <= i /\ i <= n /\ ~Is(i)}
  <2>6. SUFFICES ASSUME T # {} PROVE FALSE
    <3> HIDE DEF Is
    <3>1. \A i \in 1..n : Is(i)
      BY <1>6, <2>6
    <3> QED
      BY <3>1 DEF Is
  <2> HIDE DEF Is
  <2>7. PICK i \in T : \A j \in T : i <= j
    BY <2>6, Least
  <2>8. i \in 1..n /\ ~Is(i)
    BY <1>6, <2>7
  <2>9. CASE i > 1 /\ s[i].chunk = s[i - 1].chunk
    <3>1. i - 1 \in Nat /\ 1 <= i - 1 /\ i - 1 <= n /\ i - 1 \in 1..n /\ ~(i <= i - 1)
      BY <1>6, <2>8, <2>9
    <3>2. i - 1 \notin T
      BY <2>7, <3>1
    <3>3. Is(i - 1)
      BY <3>1, <3>2
    <3>4. s[i].offset = s[i - 1].offset + s[i - 1].size /\ s[i - 1].size \in Nat
      BY <1>10, <1>11, <2>5, <2>8, <2>9, <3>1
    <3> QED
      BY <2>8, <3>3, <3>4 DEF Is
  <2>10. CASE ~(i > 1 /\ s[i].chunk = s[i - 1].chunk)
    <3>1. s[i].offset = t.chunkOffsets[s[i].chunk]
      BY <2>5, <2>8, <2>10
    <3> QED
      BY <2>4, <2>8, <3>1 DEF Is
  <2> QED
    BY <2>9, <2>10
<1>17. slot.input \in Nat
  BY DEF SlotHolds
<1>18. \A i \in 1..Len(s) : s[i].offset \in Nat
  BY <1>5, <1>16
<1>19. IsSequence(s)
  <2> DEFINE S == {s[i] : i \in DOMAIN s}
  <2>1. s = [i \in 1..n |-> s[i]]
    BY <1>5 DEF Located, n
  <2>2. \A i \in 1..n : s[i] \in S
    BY <1>9
  <2>3. n \in Nat
    BY <1>6
  <2> HIDE DEF S
  <2>4. s \in Seq(S)
    BY <2>1, <2>2, <2>3, AllOf
  <2> QED
    BY <2>4 DEF IsSequence, S
<1> QED
  BY <1>3, <1>14, <1>15, <1>17, <1>18, <1>19 DEF Stored, s

-----------------------------------------------------------------------------
(* Fractions compared crosswise are compared as fractions. *)

LEMMA TimesMore == ASSUME NEW x \in Nat, NEW y \in Nat, NEW z \in Nat, x <= y PROVE x * z <= y * z
<1> DEFINE d == y - x
<1>1. d \in Nat /\ y = x + d
  OBVIOUS
<1> HIDE DEF d
<1>2. (x + d) * z = x * z + d * z
  BY <1>1
<1>3. d * z \in Nat /\ x * z \in Nat
  BY <1>1
<1> QED
  BY <1>1, <1>2, <1>3

LEMMA TimesLess ==
    ASSUME NEW x \in Nat, NEW y \in Nat, NEW z \in Nat \ {0}, x * z <= y * z PROVE x <= y
<1> SUFFICES ASSUME y + 1 <= x PROVE FALSE
  OBVIOUS
<1>1. (y + 1) * z <= x * z
  BY TimesMore
<1>2. (y + 1) * z = y * z + z
  OBVIOUS
<1>3. y * z \in Nat /\ x * z \in Nat
  OBVIOUS
<1> QED
  BY <1>1, <1>2, <1>3

LEMMA Crosswise ==
    ASSUME NEW a \in Nat, NEW b \in Nat, NEW c \in Nat, NEW u \in Nat \ {0}, NEW v \in Nat \ {0}, NEW w \in Nat \ {0},
           a * v <= b * u, b * w <= c * v
    PROVE  a * w <= c * u
<1>1. (a * v) * w <= (b * u) * w
  <2>1. a * v \in Nat /\ b * u \in Nat /\ w \in Nat
    OBVIOUS
  <2> QED
    BY <2>1, TimesMore
<1>2. (b * w) * u <= (c * v) * u
  <2>1. b * w \in Nat /\ c * v \in Nat /\ u \in Nat
    OBVIOUS
  <2> QED
    BY <2>1, TimesMore
<1>3. (a * v) * w = (a * w) * v /\ (b * u) * w = (b * w) * u /\ (c * v) * u = (c * u) * v
  OBVIOUS
<1>4. a * w \in Nat /\ c * u \in Nat /\ (a * w) * v \in Nat /\ (c * u) * v \in Nat /\ (b * w) * u \in Nat
  OBVIOUS
<1>5. (a * w) * v <= (c * u) * v
  BY <1>1, <1>2, <1>3, <1>4
<1> QED
  BY <1>4, <1>5, TimesLess

-----------------------------------------------------------------------------
(* The order of the chunks. *)

IsChunk(c) == c.slot \in Nat /\ c.first \in Nat /\ c.time \in Nat /\ c.timescale \in Nat \ {0}

LEMMA EarlierIsStrict == ASSUME NEW c, IsChunk(c) PROVE ~Earlier(c, c)
<1>1. c.time * c.timescale \in Nat
  BY DEF IsChunk
<1> QED
  BY <1>1 DEF Earlier, IsChunk

LEMMA EarlierIsTotal ==
    ASSUME NEW c, NEW d, IsChunk(c), IsChunk(d), c.slot # d.slot \/ c.first # d.first
    PROVE  Earlier(c, d) \/ Earlier(d, c)
<1> DEFINE left == c.time * d.timescale
           right == d.time * c.timescale
<1>1. left \in Nat /\ right \in Nat
  BY DEF IsChunk
<1>2. Earlier(c, d) <=> (left < right \/ (left = right /\ (c.slot < d.slot \/ (c.slot = d.slot /\ c.first < d.first))))
  BY DEF Earlier
<1>3. Earlier(d, c) <=> (right < left \/ (right = left /\ (d.slot < c.slot \/ (d.slot = c.slot /\ d.first < c.first))))
  BY DEF Earlier
<1> HIDE DEF left, right
<1> QED
  BY <1>1, <1>2, <1>3 DEF IsChunk

LEMMA EarlierIsTransitive ==
    ASSUME NEW c, NEW d, NEW e, IsChunk(c), IsChunk(d), IsChunk(e), Earlier(c, d), Earlier(d, e)
    PROVE  Earlier(c, e)
<1> DEFINE p(x, y) == x.time * y.timescale
           Tie(x, y) == x.slot < y.slot \/ (x.slot = y.slot /\ x.first < y.first)
<1>1. p(c, d) \in Nat /\ p(d, c) \in Nat /\ p(d, e) \in Nat /\ p(e, d) \in Nat /\ p(c, e) \in Nat /\ p(e, c) \in Nat
  BY DEF IsChunk
<1>2. (p(c, d) < p(d, c) \/ (p(c, d) = p(d, c) /\ Tie(c, d))) /\ (p(d, e) < p(e, d) \/ (p(d, e) = p(e, d) /\ Tie(d, e)))
  BY DEF Earlier
<1>3. Earlier(c, e) <=> (p(c, e) < p(e, c) \/ (p(c, e) = p(e, c) /\ Tie(c, e)))
  BY DEF Earlier
<1>4. p(c, d) <= p(d, c) /\ p(d, e) <= p(e, d)
  <2> HIDE DEF p, Tie
  <2> QED
    BY <1>1, <1>2
<1>5. p(c, e) <= p(e, c)
  BY <1>4, Crosswise DEF IsChunk
<1>6. p(e, c) <= p(c, e) => p(e, d) <= p(d, e) /\ p(d, c) <= p(c, d)
  <2> SUFFICES ASSUME p(e, c) <= p(c, e) PROVE p(e, d) <= p(d, e) /\ p(d, c) <= p(c, d)
    OBVIOUS
  <2>1. p(e, d) <= p(d, e)
    BY <1>4, Crosswise DEF IsChunk
  <2>2. p(d, c) <= p(c, d)
    BY <1>4, Crosswise DEF IsChunk
  <2> QED
    BY <2>1, <2>2
<1>7. Tie(c, d) /\ Tie(d, e) => Tie(c, e)
  BY DEF IsChunk
<1> HIDE DEF p, Tie
<1> QED
  BY <1>1, <1>2, <1>3, <1>5, <1>6, <1>7

-----------------------------------------------------------------------------
(* The chunks of the tracks kept. *)

AllStored(kept) ==
    /\ Len(kept) \in Nat /\ DOMAIN kept = 1..Len(kept)
    /\ \A n \in 1..Len(kept) : Stored(kept[n])
Firsts(s) == {i \in DOMAIN s : IsFirst(s, i)}
Sizes(s) == [i \in DOMAIN s |-> s[i].size]
ChunkAt(kept, n, i) ==
    LET s == kept[n].samples IN
    [slot |-> n, first |-> i, count |-> Cardinality({k \in DOMAIN s : s[k].chunk = s[i].chunk}),
     bytes |-> SumOf([k \in {k \in DOMAIN s : s[k].chunk = s[i].chunk} |-> s[k].size]),
     time |-> s[i].time,
     timescale |-> IF kept[n].timescale = 0 THEN 1 ELSE kept[n].timescale]

(* A chunk holds the samples from its first on. *)
ChunkHolds(kept, c) ==
    /\ c.slot \in 1..Len(kept) /\ c.first \in Firsts(kept[c.slot].samples) /\ c = ChunkAt(kept, c.slot, c.first)
    /\ IsChunk(c) /\ c.bytes \in Nat /\ c.count \in Nat \ {0}
    /\ LET s == kept[c.slot].samples
           last == c.first + c.count - 1
       IN /\ last \in c.first..Len(s) /\ Together(s, c.first) = c.first..last
          /\ c.bytes = Sum(Sizes(s), c.first..last)

LEMMA FirstsAre ==
    ASSUME NEW kept, AllStored(kept), NEW n \in 1..Len(kept)
    PROVE  LET s == kept[n].samples
           IN /\ Len(s) \in Nat /\ DOMAIN s = 1..Len(s) /\ Climbs(s) /\ Firsts(s) \subseteq 1..Len(s)
              /\ IsFiniteSet(Firsts(s)) /\ IsFiniteSet(1..Len(s))
              /\ \A i \in 1..Len(s) : Sizes(s)[i] = s[i].size /\ Sizes(s)[i] \in Nat
              /\ DOMAIN Sizes(s) = 1..Len(s)
<1> DEFINE s == kept[n].samples
<1>1. Climbs(s) /\ \A i \in 1..Len(s) : s[i].size \in Nat
  BY DEF AllStored, Stored
<1>2. Len(s) \in Nat /\ DOMAIN s = 1..Len(s)
  BY <1>1 DEF Climbs
<1> HIDE DEF s
<1>3. Firsts(s) \subseteq 1..Len(s)
  BY <1>2 DEF Firsts
<1>4. IsFiniteSet(1..Len(s))
  BY <1>2, Numbers
<1>5. IsFiniteSet(Firsts(s))
  BY <1>3, <1>4, FS_Subset
<1>6. DOMAIN Sizes(s) = 1..Len(s) /\ \A i \in 1..Len(s) : Sizes(s)[i] = s[i].size /\ Sizes(s)[i] \in Nat
  BY <1>1, <1>2 DEF Sizes
<1> QED
  BY <1>1, <1>2, <1>3, <1>4, <1>5, <1>6 DEF s

LEMMA ChunkAtHolds ==
    ASSUME NEW kept, AllStored(kept), NEW n \in 1..Len(kept), NEW i \in Firsts(kept[n].samples)
    PROVE  ChunkHolds(kept, ChunkAt(kept, n, i)) /\ ChunkAt(kept, n, i).slot = n /\ ChunkAt(kept, n, i).first = i
<1> DEFINE s == kept[n].samples
           B == Together(s, i)
           f == [k \in B |-> s[k].size]
           c == ChunkAt(kept, n, i)
<1>1. /\ Len(s) \in Nat /\ DOMAIN s = 1..Len(s) /\ Climbs(s) /\ Firsts(s) \subseteq 1..Len(s)
      /\ \A k \in 1..Len(s) : Sizes(s)[k] = s[k].size /\ Sizes(s)[k] \in Nat
  BY FirstsAre
<1>2. IsFirst(s, i) /\ i \in 1..Len(s)
  BY <1>1 DEF Firsts
<1>3. PICK j \in i..Len(s) : B = i..j
  BY <1>1, <1>2, BlockIsRange
<1>4. c = [slot |-> n, first |-> i, count |-> Cardinality(B), bytes |-> SumOf(f), time |-> s[i].time,
           timescale |-> IF kept[n].timescale = 0 THEN 1 ELSE kept[n].timescale]
  BY DEF ChunkAt, Together
<1>5. s[i].time \in Nat /\ kept[n].timescale \in Nat /\ n \in Nat /\ i \in Nat
  BY <1>2 DEF AllStored, Stored
<1>6. IsFiniteSet(i..j) /\ Cardinality(i..j) = j - i + 1
  <2>1. i \in Int /\ j \in Int /\ ~(i > j)
    BY <1>2, <1>3
  <2>2. IsFiniteSet(i..j)
    BY <2>1, FS_Interval
  <2>3. Cardinality(i..j) = IF i > j THEN 0 ELSE j - i + 1
    BY <2>1, FS_Interval
  <2> QED
    BY <2>1, <2>2, <2>3
<1>7. SumOf(f) = Sum(Sizes(s), i..j) /\ Sum(Sizes(s), i..j) \in Nat
  <2>1. SumOf(f) = Sum(f, B)
    BY SumByChoice DEF SumOf
  <2>2. \A k \in B : k \in 1..Len(s) /\ f[k] = s[k].size
    BY <1>1 DEF Together
  <2> HIDE DEF f, B, s
  <2>3. \A k \in i..j : f[k] = Sizes(s)[k] /\ Sizes(s)[k] \in Nat
    BY <1>1, <1>3, <2>2
  <2>4. Sum(f, i..j) = Sum(Sizes(s), i..j)
    BY <1>6, <2>3, SumSame
  <2>5. Sum(Sizes(s), i..j) \in Nat
    BY <1>6, <2>3, SumNat
  <2> QED
    BY <1>3, <2>1, <2>4, <2>5
<1>8. c.slot = n /\ c.first = i /\ c.count = j - i + 1 /\ c.bytes = Sum(Sizes(s), i..j) /\ IsChunk(c)
  <2> HIDE DEF f, B, s, c
  <2>1. c.slot = n /\ c.first = i /\ c.count = j - i + 1 /\ c.bytes = SumOf(f) /\ c.time = s[i].time
        /\ c.timescale = IF kept[n].timescale = 0 THEN 1 ELSE kept[n].timescale
    BY <1>3, <1>4, <1>6
  <2>2. s[i].time \in Nat
    BY <1>5 DEF s
  <2> QED
    BY <1>5, <1>7, <2>1, <2>2 DEF IsChunk
<1> HIDE DEF c, B
<1>9. c.count \in Nat \ {0} /\ c.first + c.count - 1 = j /\ j \in Nat
  BY <1>2, <1>3, <1>8
<1>10. ChunkHolds(kept, c)
  <2>1. c.slot \in 1..Len(kept) /\ c.first \in Firsts(kept[c.slot].samples) /\ c = ChunkAt(kept, c.slot, c.first)
    BY <1>8 DEF c
  <2>2. kept[c.slot].samples = s
    BY <1>8
  <2> HIDE DEF s
  <2>3. /\ c.first + c.count - 1 \in c.first..Len(s)
        /\ Together(s, c.first) = c.first..(c.first + c.count - 1)
        /\ c.bytes = Sum(Sizes(s), c.first..(c.first + c.count - 1))
    BY <1>3, <1>8, <1>9 DEF B
  <2>4. c.bytes \in Nat
    BY <1>7, <1>8
  <2> QED
    BY <1>8, <1>9, <2>1, <2>2, <2>3, <2>4 DEF ChunkHolds
<1> QED
  BY <1>8, <1>10 DEF c

AllChunks(kept) == UNION {ChunksOf(kept, n) : n \in DOMAIN kept}
Order(kept) == {x \in AllChunks(kept) \X AllChunks(kept) : Earlier(x[1], x[2])}

LEMMA ChunksAre ==
    ASSUME NEW kept, AllStored(kept), NEW n \in 1..Len(kept)
    PROVE  LET F == Firsts(kept[n].samples)
           IN /\ [i \in F |-> ChunkAt(kept, n, i)] \in Bijection(F, ChunksOf(kept, n))
              /\ IsFiniteSet(ChunksOf(kept, n))
              /\ \A c \in ChunksOf(kept, n) : c.slot = n /\ ChunkHolds(kept, c)
<1> DEFINE F == Firsts(kept[n].samples)
           h == [i \in F |-> ChunkAt(kept, n, i)]
<1>1. ChunksOf(kept, n) = {ChunkAt(kept, n, i) : i \in F}
  <2>1. F = {i \in DOMAIN kept[n].samples : i = 1 \/ kept[n].samples[i - 1].chunk # kept[n].samples[i].chunk}
    BY DEF Firsts, IsFirst
  <2>2. ChunksOf(kept, n) = {ChunkAt(kept, n, i) : i \in
             {i \in DOMAIN kept[n].samples : i = 1 \/ kept[n].samples[i - 1].chunk # kept[n].samples[i].chunk}}
    BY DEF ChunksOf, ChunkAt
  <2> QED
    BY <2>1, <2>2
<1>2. \A i \in F : ChunkAt(kept, n, i).slot = n /\ ChunkAt(kept, n, i).first = i /\ ChunkHolds(kept, ChunkAt(kept, n, i))
  BY ChunkAtHolds
<1>3. IsFiniteSet(F)
  BY FirstsAre
<1> HIDE DEF F
<1>4. \A i \in F : h[i] = ChunkAt(kept, n, i)
  OBVIOUS
<1>5. h \in [F -> ChunksOf(kept, n)]
  BY <1>1
<1>6. \A i, j \in F : h[i] = h[j] => i = j
  BY <1>2, <1>4
<1>7. \A c \in ChunksOf(kept, n) : \E i \in F : h[i] = c
  BY <1>1, <1>4
<1> HIDE DEF h
<1>8. h \in Bijection(F, ChunksOf(kept, n))
  BY <1>5, <1>6, <1>7 DEF Bijection, Injection, Surjection, IsInjective
<1>9. IsFiniteSet(ChunksOf(kept, n))
  <2>1. h \in Surjection(F, ChunksOf(kept, n))
    BY <1>8 DEF Bijection
  <2> QED
    BY <1>3, <2>1, FS_Surjection
<1>10. \A c \in ChunksOf(kept, n) : c.slot = n /\ ChunkHolds(kept, c)
  BY <1>1, <1>2
<1> QED
  BY <1>8, <1>9, <1>10 DEF h, F

LEMMA AllChunksAre ==
    ASSUME NEW kept, AllStored(kept)
    PROVE  /\ IsFiniteSet(AllChunks(kept))
           /\ \A c \in AllChunks(kept) : ChunkHolds(kept, c)
           /\ \A n \in 1..Len(kept) : PartOf(AllChunks(kept), [c \in AllChunks(kept) |-> c.slot], n) = ChunksOf(kept, n)
           /\ Total(AllChunks(kept), Order(kept))
<1> DEFINE A == AllChunks(kept)
           m == Len(kept)
           p == [c \in A |-> c.slot]
<1>1. m \in Nat /\ DOMAIN kept = 1..m
  BY DEF AllStored
<1>2. \A n \in 1..m : IsFiniteSet(ChunksOf(kept, n)) /\ \A c \in ChunksOf(kept, n) : c.slot = n /\ ChunkHolds(kept, c)
  BY ChunksAre
<1>3. A = UNION {ChunksOf(kept, n) : n \in 1..m}
  BY <1>1 DEF AllChunks
<1>4. IsFiniteSet(A)
  <2> DEFINE M == 1..m
             S == {ChunksOf(kept, n) : n \in M}
             h == [n \in M |-> ChunksOf(kept, n)]
  <2>1. h \in Surjection(M, S)
    BY DEF Surjection
  <2>2. IsFiniteSet(M)
    BY <1>1, Numbers
  <2>3. \A T \in S : IsFiniteSet(T)
    BY <1>2
  <2>4. A = UNION S
    BY <1>3
  <2> HIDE DEF M, S, h
  <2>5. IsFiniteSet(S)
    BY <2>1, <2>2, FS_Surjection
  <2> QED
    BY <2>3, <2>4, <2>5, FS_UNION
<1> HIDE DEF A
<1>5. \A c \in A : ChunkHolds(kept, c) /\ c.slot \in 1..m /\ c \in ChunksOf(kept, c.slot)
  BY <1>2, <1>3
<1>6. ASSUME NEW n \in 1..m PROVE PartOf(A, p, n) = ChunksOf(kept, n)
  <2>1. \A c \in ChunksOf(kept, n) : c \in A /\ c.slot = n
    BY <1>2, <1>3
  <2> QED
    BY <1>5, <2>1 DEF PartOf
<1>7. \A c, d \in A : c.slot = d.slot /\ c.first = d.first => c = d
  <2> SUFFICES ASSUME NEW c \in A, NEW d \in A, c.slot = d.slot, c.first = d.first PROVE c = d
    OBVIOUS
  <2>1. c = ChunkAt(kept, c.slot, c.first) /\ d = ChunkAt(kept, d.slot, d.first)
    BY <1>5 DEF ChunkHolds
  <2> QED
    BY <2>1
<1>8. Total(A, Order(kept))
  <2>1. \A c, d \in A : <<c, d>> \in Order(kept) <=> Earlier(c, d)
    BY DEF Order, A
  <2>2. \A c \in A : IsChunk(c)
    BY <1>5 DEF ChunkHolds
  <2>3. \A c \in A : ~Earlier(c, c)
    BY <2>2, EarlierIsStrict
  <2>4. \A c, d \in A : c = d \/ Earlier(c, d) \/ Earlier(d, c)
    BY <1>7, <2>2, EarlierIsTotal
  <2>5. \A c, d, e \in A : Earlier(c, d) /\ Earlier(d, e) => Earlier(c, e)
    BY <2>2, EarlierIsTransitive
  <2> QED
    BY <2>1, <2>3, <2>4, <2>5 DEF Total
<1> QED
  BY <1>4, <1>5, <1>6, <1>8 DEF A

LEMMA InterleavedAll ==
    ASSUME NEW kept, AllStored(kept)
    PROVE  LET order == Interleaved(kept)
               m == Cardinality(AllChunks(kept))
           IN /\ m \in Nat /\ DOMAIN order = 1..m /\ Len(order) = m
              /\ order \in Bijection(1..m, AllChunks(kept))
              /\ \A k \in 1..m : ChunkHolds(kept, order[k])
              /\ order = [k \in 1..m |-> order[k]]
<1> DEFINE A == AllChunks(kept)
           m == Cardinality(A)
           order == Interleaved(kept)
<1>1. IsFiniteSet(A) /\ Total(A, Order(kept)) /\ \A c \in A : ChunkHolds(kept, c)
  BY AllChunksAre
<1>2. InOrder(A, Order(kept)) \in Bijection(1..m, A) /\ m \in Nat
  BY <1>1, Ordered
<1>3. order = InOrder(A, Order(kept))
  <2>1. \A c \in A : {d \in A : <<d, c>> \in Order(kept)} = {d \in A : Earlier(d, c)}
    BY DEF Order
  <2>2. order = [i \in 1..m |-> CHOOSE c \in A : Cardinality({d \in A : Earlier(d, c)}) = i - 1]
    BY DEF Interleaved, AllChunks
  <2>3. InOrder(A, Order(kept)) =
          [i \in 1..m |-> CHOOSE c \in A : Cardinality({d \in A : <<d, c>> \in Order(kept)}) = i - 1]
    BY DEF InOrder
  <2> HIDE DEF A
  <2>4. \A i \in 1..m : (CHOOSE c \in A : Cardinality({d \in A : Earlier(d, c)}) = i - 1)
                        = (CHOOSE c \in A : Cardinality({d \in A : <<d, c>> \in Order(kept)}) = i - 1)
    BY <2>1
  <2> QED
    BY <2>2, <2>3, <2>4
<1> HIDE DEF A, m
<1>4. order = [i \in 1..m |-> order[i]]
  <2> DEFINE o == InOrder(A, Order(kept))
  <2>1. o \in [1..m -> A]
    BY <1>2 DEF Bijection, Injection
  <2> HIDE DEF o, order
  <2>2. order = o
    BY <1>3 DEF o
  <2> QED
    BY <2>1, <2>2
<1> HIDE DEF order
<1>5. \A k \in 1..m : order[k] \in A
  BY <1>2, <1>3, OneToOne
<1>6. DOMAIN order = 1..m /\ Len(order) = m
  BY <1>2, <1>4
<1> QED
  BY <1>1, <1>2, <1>3, <1>4, <1>5, <1>6 DEF A, m, order

-----------------------------------------------------------------------------
(* The media, chunk by chunk and track by track. *)

Weights(order) == [k \in DOMAIN order |-> order[k].bytes]

LEMMA MediaIs ==
    ASSUME NEW kept, AllStored(kept)
    PROVE  LET order == Interleaved(kept)
           IN /\ MediaBefore(order, 1) = 0
              /\ \A i \in 1..(Len(order) + 1) :
                   /\ MediaBefore(order, i) = Sum(Weights(order), 1..(i - 1)) /\ MediaBefore(order, i) \in Nat
                   /\ MediaBefore(order, i) <= Media(order)
              /\ \A i \in 1..Len(order) : MediaBefore(order, i + 1) = MediaBefore(order, i) + order[i].bytes
              /\ Media(order) = Sum(Weights(order), 1..Len(order))
              /\ Media(order) \in Nat /\ Len(order) \in Nat /\ DOMAIN order = 1..Len(order)
              /\ \A i \in 1..Len(order) : Weights(order)[i] = order[i].bytes /\ Weights(order)[i] \in Nat
<1> DEFINE order == Interleaved(kept)
           w == Weights(order)
           m == Len(order)
<1>1. m \in Nat /\ DOMAIN order = 1..m /\ \A k \in 1..m : ChunkHolds(kept, order[k])
  BY InterleavedAll
<1>2. \A k \in 1..m : w[k] = order[k].bytes /\ w[k] \in Nat
  BY <1>1 DEF Weights, ChunkHolds
<1> HIDE DEF w, m, order
<1>3. ASSUME NEW i \in 1..(m + 1)
      PROVE  MediaBefore(order, i) = Sum(w, 1..(i - 1)) /\ Sum(w, 1..(i - 1)) \in Nat
  <2> DEFINE f == [k \in 1..(i - 1) |-> order[k].bytes]
  <2>1. i - 1 \in Nat /\ \A k \in 1..(i - 1) : k \in 1..m
    BY <1>1
  <2>2. MediaBefore(order, i) = Sum(f, 1..(i - 1))
    BY SumByChoice DEF MediaBefore, SumOf
  <2>3. \A k \in 1..(i - 1) : f[k] = w[k] /\ w[k] \in Nat
    BY <1>2, <2>1
  <2> HIDE DEF f
  <2>4. IsFiniteSet(1..(i - 1))
    BY <2>1, Numbers
  <2>5. Sum(f, 1..(i - 1)) = Sum(w, 1..(i - 1))
    BY <2>3, <2>4, SumSame
  <2>6. Sum(w, 1..(i - 1)) \in Nat
    BY <2>1, <2>3, SumUpTo
  <2> QED
    BY <2>2, <2>5, <2>6
<1>4. MediaBefore(order, 1) = 0
  <2>1. MediaBefore(order, 1) = Sum(w, 1..(1 - 1))
    BY <1>1, <1>3
  <2>2. 1 - 1 = 0
    OBVIOUS
  <2> QED
    BY <2>1, <2>2, SumNone
<1>5. ASSUME NEW i \in 1..m
      PROVE  MediaBefore(order, i + 1) = MediaBefore(order, i) + order[i].bytes
  <2>1. i \in 1..(m + 1) /\ i + 1 \in 1..(m + 1) /\ (i + 1) - 1 = (i - 1) + 1 /\ i - 1 \in Nat /\ (i - 1) + 1 = i
    BY <1>1
  <2>2. \A k \in 1..((i - 1) + 1) : w[k] \in Nat
    BY <1>1, <1>2
  <2>3. Sum(w, 1..((i - 1) + 1)) = Sum(w, 1..(i - 1)) + w[(i - 1) + 1]
    BY <2>1, <2>2, SumNext
  <2>4. MediaBefore(order, i + 1) = Sum(w, 1..((i + 1) - 1)) /\ MediaBefore(order, i) = Sum(w, 1..(i - 1))
    BY <1>3, <2>1
  <2>5. w[(i - 1) + 1] = order[i].bytes
    BY <1>2, <2>1
  <2> QED
    BY <2>1, <2>3, <2>4, <2>5
<1>6. Media(order) = Sum(w, 1..m) /\ Media(order) \in Nat
  <2>1. m + 1 \in 1..(m + 1) /\ (m + 1) - 1 = m
    BY <1>1
  <2>2. Media(order) = MediaBefore(order, m + 1)
    BY DEF Media, m
  <2>3. MediaBefore(order, m + 1) = Sum(w, 1..((m + 1) - 1)) /\ Sum(w, 1..((m + 1) - 1)) \in Nat
    BY <1>3, <2>1
  <2> QED
    BY <2>1, <2>2, <2>3
<1>7. ASSUME NEW i \in 1..(m + 1) PROVE MediaBefore(order, i) <= Media(order)
  <2>1. CASE i = m + 1
    BY <1>6, <2>1 DEF Media, m
  <2>2. CASE i # m + 1
    <3>1. i \in 1..m
      BY <1>1, <2>2
    <3>2. Sum(w, 1..(i - 1)) + w[i] <= Sum(w, 1..m) /\ Sum(w, 1..(i - 1)) \in Nat /\ w[i] \in Nat
      BY <1>1, <1>2, <3>1, SumGrows
    <3> DEFINE a == Sum(w, 1..(i - 1))
               b == Sum(w, 1..m)
    <3>3. MediaBefore(order, i) = a /\ Media(order) = b
      BY <1>3, <1>6
    <3>4. b \in Nat
      BY <1>6
    <3> HIDE DEF a, b
    <3>5. a + w[i] <= b /\ a \in Nat /\ w[i] \in Nat
      BY <3>2 DEF a, b
    <3> QED
      BY <3>3, <3>4, <3>5
  <2> QED
    BY <2>1, <2>2
<1> QED
  BY <1>1, <1>2, <1>3, <1>4, <1>5, <1>6, <1>7 DEF w, m, order

(* What the samples of a track come to. *)
TrackBytes(slot) == SumOf([i \in DOMAIN slot.samples |-> slot.samples[i].size])

LEMMA TrackCounted ==
    ASSUME NEW kept, AllStored(kept), NEW n \in 1..Len(kept)
    PROVE  LET C == ChunksOf(kept, n)
           IN Sum([c \in AllChunks(kept) |-> c.bytes], C) = TrackBytes(kept[n])
<1> DEFINE s == kept[n].samples
           F == Firsts(s)
           N == 1..Len(s)
           C == ChunksOf(kept, n)
           h == [i \in F |-> ChunkAt(kept, n, i)]
           f == [i \in F |-> h[i].bytes]
           g == [c \in AllChunks(kept) |-> c.bytes]
           p == [k \in N |-> CHOOSE i \in F : s[i].chunk = s[k].chunk]
<1>1. /\ Len(s) \in Nat /\ DOMAIN s = N /\ Climbs(s) /\ F \subseteq N /\ IsFiniteSet(F) /\ IsFiniteSet(N)
      /\ \A i \in N : Sizes(s)[i] = s[i].size /\ Sizes(s)[i] \in Nat
      /\ DOMAIN Sizes(s) = N
  BY FirstsAre
<1>2. h \in Bijection(F, C) /\ \A c \in C : ChunkHolds(kept, c)
  BY ChunksAre
<1>3. C \subseteq AllChunks(kept)
  BY DEF AllChunks, AllStored
<1>4. \A i \in F : h[i] \in C /\ h[i] = ChunkAt(kept, n, i)
  BY <1>2 DEF Bijection, Injection
<1>5. \A i \in F : f[i] = h[i].bytes /\ f[i] \in Nat /\ f[i] = g[h[i]]
  <2> SUFFICES ASSUME NEW i \in F PROVE f[i] = h[i].bytes /\ f[i] \in Nat /\ f[i] = g[h[i]]
    OBVIOUS
  <2> HIDE DEF h, C, F
  <2>1. h[i] \in C /\ ChunkHolds(kept, h[i]) /\ h[i] \in AllChunks(kept)
    BY <1>2, <1>3, <1>4
  <2>2. h[i].bytes \in Nat
    BY <2>1 DEF ChunkHolds
  <2> QED
    BY <2>1, <2>2
<1>6. Sum(f, F) = Sum(g, C)
  <2> HIDE DEF f, F, g, C, h
  <2>1. Carries(h, f, F, g, C)
    BY <1>2, <1>5 DEF Carries
  <2> QED
    BY <1>1, <2>1, SumMoved
<1>7. \A k \in N : \E i \in F : s[i].chunk = s[k].chunk
  <2> SUFFICES ASSUME NEW k \in N PROVE \E i \in F : s[i].chunk = s[k].chunk
    OBVIOUS
  <2> HIDE DEF s
  <2>1. PICK i \in 1..k : IsFirst(s, i) /\ s[i].chunk = s[k].chunk
    BY <1>1, ChunkBegins
  <2> QED
    BY <2>1 DEF IsFirst, Firsts
<1>8. \A k \in N : p[k] \in F /\ s[p[k]].chunk = s[k].chunk
  <2> HIDE DEF s, F
  <2> QED
    BY <1>7
<1>9. ASSUME NEW i \in F PROVE PartOf(N, p, i) = Together(s, i) /\ f[i] = Sum(Sizes(s), Together(s, i))
  <2>1. \A j \in F : s[j].chunk = s[i].chunk => j = i
    <3> SUFFICES ASSUME NEW j \in F, s[j].chunk = s[i].chunk PROVE j = i
      OBVIOUS
    <3> HIDE DEF s
    <3>1. IsFirst(s, i) /\ IsFirst(s, j)
      BY DEF Firsts
    <3>2. PICK a \in i..Len(s) : Together(s, i) = i..a
      BY <1>1, <3>1, BlockIsRange
    <3>3. PICK b \in j..Len(s) : Together(s, j) = j..b
      BY <1>1, <3>1, BlockIsRange
    <3>4. Together(s, i) = Together(s, j) /\ i \in Together(s, i) /\ j \in Together(s, j)
      BY <3>1 DEF Together, IsFirst
    <3>5. i \in Nat /\ j \in Nat
      BY <1>1
    <3> HIDE DEF F, N
    <3>6. i \in j..b /\ j \in i..a
      BY <3>2, <3>3, <3>4
    <3> QED
      BY <3>5, <3>6
  <2>2. PartOf(N, p, i) = Together(s, i)
    <3> HIDE DEF p, F, N, s
    <3>1. \A k \in N : p[k] = i <=> s[k].chunk = s[i].chunk
      BY <1>8, <2>1
    <3> QED
      BY <1>1, <3>1 DEF PartOf, Together
  <2>3. ChunkHolds(kept, ChunkAt(kept, n, i)) /\ ChunkAt(kept, n, i).slot = n /\ ChunkAt(kept, n, i).first = i
    BY ChunkAtHolds
  <2>4. h[i].bytes = Sum(Sizes(s), Together(s, i))
    <3> DEFINE c == ChunkAt(kept, n, i)
    <3> HIDE DEF c
    <3>1. ChunkHolds(kept, c) /\ c.slot = n /\ c.first = i
      BY <2>3 DEF c
    <3>2. Together(s, i) = i..(i + c.count - 1) /\ c.bytes = Sum(Sizes(s), i..(i + c.count - 1))
      BY <3>1 DEF ChunkHolds
    <3>3. h[i] = c
      BY <1>4 DEF c
    <3> QED
      BY <3>2, <3>3
  <2> QED
    BY <1>5, <2>2, <2>4
<1>10. Sum(Sizes(s), N) = Sum(f, F)
  <2> DEFINE z == Sizes(s)
  <2>1. \A k \in N : p[k] \in F /\ z[k] \in Nat
    BY <1>1, <1>8
  <2>2. \A i \in F : f[i] = Sum(z, PartOf(N, p, i))
    BY <1>9
  <2>3. IsFiniteSet(F) /\ IsFiniteSet(N)
    BY <1>1
  <2> HIDE DEF f, F, N, p, s, z
  <2>4. Sum(z, N) = Sum(f, F)
    BY <2>1, <2>2, <2>3, SumOfParts
  <2> QED
    BY <2>4 DEF z
<1>11. TrackBytes(kept[n]) = Sum(Sizes(s), N)
  <2>1. TrackBytes(kept[n]) = SumFunction(Sizes(s))
    BY DEF TrackBytes, Sizes, SumOf
  <2> HIDE DEF s, N
  <2> QED
    BY <1>1, <2>1, SumByChoice
<1> QED
  BY <1>6, <1>10, <1>11

(* The media is the samples of every track. *)
LEMMA MediaCounted ==
    ASSUME NEW kept, AllStored(kept)
    PROVE  /\ Media(Interleaved(kept)) = SumOf([n \in DOMAIN kept |-> TrackBytes(kept[n])])
           /\ \A n \in DOMAIN kept : TrackBytes(kept[n]) \in Nat
<1> DEFINE order == Interleaved(kept)
           A == AllChunks(kept)
           K == 1..Len(kept)
           m == Cardinality(A)
           w == Weights(order)
           g == [c \in A |-> c.bytes]
           p == [c \in A |-> c.slot]
           sums == [n \in DOMAIN kept |-> TrackBytes(kept[n])]
<1>1. /\ m \in Nat /\ Len(order) = m /\ order \in Bijection(1..m, A)
      /\ \A k \in 1..m : ChunkHolds(kept, order[k])
  BY InterleavedAll
<1>2. /\ Media(order) = Sum(w, 1..Len(order))
      /\ \A i \in 1..Len(order) : w[i] = order[i].bytes /\ w[i] \in Nat
  BY MediaIs
<1>3. /\ IsFiniteSet(A) /\ (\A c \in A : ChunkHolds(kept, c))
      /\ \A n \in K : PartOf(A, p, n) = ChunksOf(kept, n)
  BY AllChunksAre
<1>4. Len(kept) \in Nat /\ DOMAIN kept = K
  BY DEF AllStored
<1>5. \A n \in K : sums[n] = TrackBytes(kept[n])
  BY <1>4
<1>6. \A n \in K : Sum(g, ChunksOf(kept, n)) = TrackBytes(kept[n])
  BY TrackCounted
<1>7. \A c \in A : g[c] = c.bytes /\ g[c] \in Nat /\ p[c] \in K
  BY <1>3 DEF ChunkHolds
<1>8. IsFiniteSet(K)
  BY <1>4, Numbers
<1>9. \A n \in K : sums[n] = Sum(g, PartOf(A, p, n))
  BY <1>3, <1>5, <1>6
<1>10. DOMAIN sums = K
  BY <1>4
<1> HIDE DEF order, A, w, g, p, sums, K, m
<1>11. Sum(g, A) = Sum(sums, K) /\ \A n \in K : sums[n] \in Nat
  BY <1>3, <1>7, <1>8, <1>9, SumOfParts
<1>12. Sum(w, 1..m) = Sum(g, A)
  <2> DEFINE M == 1..m
  <2>1. IsFiniteSet(M)
    BY <1>1, Numbers
  <2>2. \A i \in M : order[i] \in A
    BY <1>1, OneToOne
  <2>3. \A i \in M : w[i] \in Nat /\ w[i] = g[order[i]]
    BY <1>1, <1>2, <1>7, <2>2
  <2>4. order \in Bijection(M, A)
    BY <1>1
  <2> HIDE DEF M
  <2>5. Carries(order, w, M, g, A)
    BY <2>3, <2>4 DEF Carries
  <2>6. Sum(w, M) = Sum(g, A)
    BY <2>1, <2>5, SumMoved
  <2> QED
    BY <2>6 DEF M
<1>13. SumOf(sums) = Sum(sums, K)
  BY <1>10, SumByChoice DEF SumOf
<1>14. Media(order) = SumOf(sums)
  BY <1>1, <1>2, <1>11, <1>12, <1>13
<1>15. \A n \in DOMAIN kept : TrackBytes(kept[n]) \in Nat
  BY <1>4, <1>5, <1>11
<1> QED
  BY <1>14, <1>15 DEF order, sums

-----------------------------------------------------------------------------
(* The pieces of a chunk. *)

Piece == [input : Nat, offset : Nat, size : Nat]
PieceSizes(copies) == [k \in DOMAIN copies |-> copies[k].size]
SizesOfPieces(copies) == Sum(PieceSizes(copies), 1..Len(copies))
RunOf(kept, c) == SubSeq(kept[c.slot].samples, c.first, c.first + c.count - 1)

LEMMA RunIs ==
    ASSUME NEW kept, AllStored(kept), NEW c, ChunkHolds(kept, c)
    PROVE  LET s == kept[c.slot].samples
               run == RunOf(kept, c)
           IN /\ Len(run) = c.count /\ DOMAIN run = 1..c.count /\ c.count \in Nat \ {0}
              /\ \A i \in 1..c.count : /\ c.first + i - 1 \in c.first..(c.first + c.count - 1)
                                       /\ c.first + i - 1 \in 1..Len(s)
                                       /\ run[i] = s[c.first + i - 1]
<1> DEFINE s == kept[c.slot].samples
           S == {s[i] : i \in DOMAIN s}
           n == Len(s)
           a == c.first
           m == c.count
<1>1. c.slot \in 1..Len(kept)
  BY DEF ChunkHolds
<1>2. s \in Seq(S) /\ n \in Nat
  BY <1>1 DEF AllStored, Stored, Climbs, IsSequence
<1>3. a \in 1..n /\ m \in Nat \ {0} /\ a + m - 1 <= n
  <2>1. a \in Firsts(s) /\ Firsts(s) \subseteq 1..n
    BY <1>1, FirstsAre DEF ChunkHolds
  <2>2. a + m - 1 \in a..n
    BY DEF ChunkHolds
  <2>3. m \in Nat \ {0}
    BY DEF ChunkHolds
  <2> HIDE DEF a, m, n
  <2> QED
    BY <1>2, <2>1, <2>2, <2>3
<1> HIDE DEF S, s, a, m
<1>4. a \in Nat /\ m \in Nat /\ m > 0 /\ a >= 1 /\ n \in Nat /\ a + m - 1 \in 1..n
  BY <1>2, <1>3
<1>5. /\ Len(SubSeq(s, a, a + m - 1)) = m
      /\ DOMAIN SubSeq(s, a, a + m - 1) = 1..m
      /\ \A i \in 1..m : SubSeq(s, a, a + m - 1)[i] = s[a + i - 1]
  BY <1>2, <1>4
<1>6. \A i \in 1..m : a + i - 1 \in a..(a + m - 1) /\ a + i - 1 \in 1..n
  BY <1>4
<1> QED
  BY <1>3, <1>5, <1>6 DEF RunOf, s, a, m, n

LEMMA RunSums ==
    ASSUME NEW kept, AllStored(kept), NEW c, ChunkHolds(kept, c)
    PROVE  LET run == RunOf(kept, c)
           IN /\ Sum(Sizes(run), 1..c.count) = c.bytes
              /\ \A i \in 1..c.count : Sizes(run)[i] = run[i].size /\ run[i].size \in Nat /\ run[i].offset \in Nat
<1> DEFINE s == kept[c.slot].samples
           run == RunOf(kept, c)
           a == c.first
           m == c.count
           z == Sizes(s)
           y == Sizes(run)
           M == 1..m
           C == a..(a + m - 1)
           h == [i \in M |-> a + i - 1]
<1>1. /\ DOMAIN run = M /\ m \in Nat \ {0}
      /\ \A i \in M : a + i - 1 \in C /\ a + i - 1 \in 1..Len(s) /\ run[i] = s[a + i - 1]
  BY RunIs
<1>2. c.slot \in 1..Len(kept) /\ c.bytes = Sum(z, C) /\ c.first \in Nat
  BY DEF ChunkHolds, IsChunk
<1>3. /\ DOMAIN s = 1..Len(s)
      /\ \A i \in 1..Len(s) : z[i] = s[i].size /\ z[i] \in Nat
  BY <1>2, FirstsAre
<1>4. \A i \in 1..Len(s) : s[i].offset \in Nat
  BY <1>2 DEF AllStored, Stored
<1>5. \A i \in M : y[i] = run[i].size
  BY <1>1 DEF Sizes
<1>6. h \in Bijection(M, C)
  <2>1. \A i \in M : h[i] = a + i - 1 /\ h[i] \in C
    BY <1>1
  <2>2. \A i, j \in M : h[i] = h[j] => i = j
    BY <1>1, <1>2
  <2>3. \A k \in C : k - a + 1 \in M /\ h[k - a + 1] = k
    BY <1>1, <1>2
  <2>4. h \in [M -> C]
    BY <2>1
  <2> HIDE DEF h, M, C
  <2>5. \A k \in C : \E i \in M : h[i] = k
    BY <2>3
  <2> QED
    BY <2>2, <2>4, <2>5 DEF Bijection, Injection, Surjection, IsInjective
<1>7. \A i \in M : y[i] \in Nat /\ y[i] = z[h[i]] /\ run[i].offset \in Nat
  <2> SUFFICES ASSUME NEW i \in M PROVE y[i] \in Nat /\ y[i] = z[h[i]] /\ run[i].offset \in Nat
    OBVIOUS
  <2> HIDE DEF y, z, run, s
  <2>1. a + i - 1 \in 1..Len(s) /\ run[i] = s[a + i - 1] /\ h[i] = a + i - 1
    BY <1>1
  <2> QED
    BY <1>3, <1>4, <1>5, <2>1
<1> HIDE DEF y, z, h, M, C
<1>8. IsFiniteSet(M)
  BY <1>1, Numbers DEF M
<1>9. Sum(y, M) = Sum(z, C)
  <2>1. Carries(h, y, M, z, C)
    BY <1>6, <1>7 DEF Carries
  <2> QED
    BY <1>8, <2>1, SumMoved
<1>10. Sum(y, M) = c.bytes
  BY <1>2, <1>9
<1>11. \A i \in M : y[i] = run[i].size /\ run[i].size \in Nat /\ run[i].offset \in Nat
  BY <1>5, <1>7
<1> QED
  BY <1>10, <1>11 DEF M, y

LEMMA PiecesHold ==
    ASSUME AllStored(slots), NEW c, ChunkHolds(slots, c)
    PROVE  PiecesOf(c) \in Seq(Piece) /\ SizesOfPieces(PiecesOf(c)) = c.bytes
<1> DEFINE run == RunOf(slots, c)
           m == c.count
           slot == slots[c.slot]
           one == [input |-> slot.input, offset |-> run[1].offset, size |-> c.bytes]
           each == [i \in DOMAIN run |-> [input |-> slot.input, offset |-> run[i].offset, size |-> run[i].size]]
<1>1. m \in Nat \ {0} /\ DOMAIN run = 1..m
  BY RunIs
<1>2. /\ Sum(Sizes(run), 1..m) = c.bytes
      /\ \A i \in 1..m : Sizes(run)[i] = run[i].size /\ run[i].size \in Nat /\ run[i].offset \in Nat
  BY RunSums
<1>3. slot.input \in Nat /\ c.bytes \in Nat
  BY DEF AllStored, Stored, ChunkHolds
<1>4. PiecesOf(c) = IF Contiguous(run) /\ c.bytes <= CopyBuffer THEN <<one>> ELSE each
  BY DEF PiecesOf, RunOf
<1> HIDE DEF run, m, slot
<1>5. one \in Piece
  <2>1. 1 \in 1..m
    BY <1>1
  <2> QED
    BY <1>2, <1>3, <2>1 DEF Piece
<1>6. CASE PiecesOf(c) = <<one>>
  <2>1. one.size = c.bytes
    OBVIOUS
  <2> HIDE DEF one
  <2> DEFINE q == <<one>>
             y == PieceSizes(q)
  <2>2. q \in Seq(Piece) /\ Len(q) = 1 /\ DOMAIN q = 1..1 /\ q[1] = one
    BY <1>5
  <2> HIDE DEF q
  <2>3. y[1] = c.bytes
    BY <2>1, <2>2 DEF PieceSizes
  <2> HIDE DEF y
  <2>4. Sum(y, 1..1) = c.bytes
    <3>1. 0 \in Nat /\ 0 + 1 = 1 /\ \A i \in 1..(0 + 1) : y[i] \in Nat
      BY <1>3, <2>3
    <3>2. Sum(y, 1..(0 + 1)) = Sum(y, 1..0) + y[0 + 1]
      BY <3>1, SumNext
    <3>3. Sum(y, 1..0) = 0
      BY SumNone
    <3> QED
      BY <1>3, <2>3, <3>1, <3>2, <3>3
  <2>5. SizesOfPieces(q) = c.bytes
    BY <2>2, <2>4 DEF SizesOfPieces, y
  <2> QED
    BY <1>6, <2>2, <2>5 DEF q
<1>7. CASE PiecesOf(c) = each
  <2>1. each = [i \in 1..m |-> each[i]] /\ DOMAIN each = 1..m
    BY <1>1
  <2>2. \A i \in 1..m : each[i] \in Piece /\ each[i].size = run[i].size
    BY <1>1, <1>2, <1>3 DEF Piece
  <2> HIDE DEF each
  <2>3. each \in Seq(Piece) /\ Len(each) = m
    BY <1>1, <2>1, <2>2, AllOf
  <2> DEFINE y == PieceSizes(each)
             z == Sizes(run)
  <2>4. \A i \in 1..m : y[i] = z[i]
    BY <1>2, <2>1, <2>2 DEF PieceSizes
  <2> HIDE DEF y, z
  <2>5. IsFiniteSet(1..m)
    BY <1>1, Numbers
  <2>6. Sum(y, 1..m) = Sum(z, 1..m)
    BY <2>4, <2>5, SumSame
  <2>7. SizesOfPieces(each) = c.bytes
    BY <1>2, <2>3, <2>6 DEF SizesOfPieces, y, z
  <2> QED
    BY <1>7, <2>3, <2>7
<1> QED
  BY <1>4, <1>6, <1>7

-----------------------------------------------------------------------------
(* What is rewritten, and its size. *)

LEMMA BoxSized == ASSUME NEW payload \in Nat PROVE BoxSize(payload) \in Nat
BY DEF BoxSize

LEMMA SumSized ==
    ASSUME NEW f, NEW n \in Nat, DOMAIN f = 1..n, \A i \in 1..n : f[i] \in Nat
    PROVE  SumOf(f) = Sum(f, 1..n) /\ SumOf(f) \in Nat
<1>1. SumOf(f) = Sum(f, 1..n)
  BY SumByChoice DEF SumOf
<1> QED
  BY <1>1, SumUpTo

(* The word a header box is patched at, counted from the first word after the box header. *)
PatchAt(header, words, narrowAt, wideAt) ==
    ((IF OrZero(BoxWords(header, words), 3) = 1 THEN wideAt ELSE narrowAt) \div Word + 1) - header \div Word

(* One word is replaced, if it is there. *)
IsPatched(after, words, at, value) ==
    /\ Len(after) = Len(words) /\ DOMAIN after = 1..Len(words) /\ Len(words) \in Nat
    /\ after \in Seq(Nat \cup {value})
    /\ \A i \in 1..Len(words) : after[i] = IF i = at THEN value ELSE words[i]

LEMMA PatchedWords ==
    ASSUME NEW header \in {8, 16}, NEW words \in Seq(Nat), NEW narrowAt \in Nat, NEW wideAt \in Nat, NEW value
    PROVE  IsPatched(Patched(header, words, narrowAt, wideAt, value), words,
                     PatchAt(header, words, narrowAt, wideAt), value)
<1> DEFINE S == Nat \cup {value}
           h == IF header = 8 THEN <<header, 0>> ELSE <<1, 0, 0, header>>
           q == header \div Word
           box == BoxWords(header, words)
           at == (IF OrZero(box, 3) = 1 THEN wideAt ELSE narrowAt) \div Word + 1
           patched == IF at \in DOMAIN box THEN [box EXCEPT ![at] = value] ELSE box
           n == Len(words)
           after == Patched(header, words, narrowAt, wideAt, value)
<1>1. q \in {2, 4} /\ h \in Seq(S) /\ Len(h) = q
  <2>1. CASE header = 8
    <3>1. h = <<8, 0>> /\ q = 2
      BY <2>1 DEF Word
    <3>2. <<8, 0>> \in Seq(S) /\ Len(<<8, 0>>) = 2
      OBVIOUS
    <3> QED
      BY <3>1, <3>2
  <2>2. CASE header = 16
    <3>1. h = <<1, 0, 0, 16>> /\ q = 4
      BY <2>2 DEF Word
    <3>2. <<1, 0, 0, 16>> \in Seq(S) /\ Len(<<1, 0, 0, 16>>) = 4
      OBVIOUS
    <3> QED
      BY <3>1, <3>2
  <2> QED
    BY <2>1, <2>2
<1>2. words \in Seq(S) /\ n \in Nat /\ DOMAIN words = 1..n
  OBVIOUS
<1>3. box = h \o words
  BY DEF BoxWords
<1> HIDE DEF S, h, q
<1>4. box \in Seq(S) /\ Joins(box, h, words)
  BY <1>1, <1>2, <1>3, Concat
<1>5. Len(box) = q + n /\ DOMAIN box = 1..(q + n) /\ \A i \in 1..n : box[q + i] = words[i]
  <2>1. Len(box) = q + n /\ \A i \in 1..n : box[q + i] = words[i]
    BY <1>1, <1>4 DEF Joins
  <2> QED
    BY <1>4, <2>1
<1>6. at \in Nat
  <2>1. \A x \in Nat : x \div 4 + 1 \in Nat
    OBVIOUS
  <2> QED
    BY <2>1 DEF Word
<1>7. value \in S
  BY DEF S
<1>12. at - q = PatchAt(header, words, narrowAt, wideAt)
  BY DEF PatchAt, q
<1> HIDE DEF box, at
<1>8. patched \in Seq(S) /\ Len(patched) = q + n /\ \A i \in 1..(q + n) : patched[i] = IF i = at THEN value ELSE box[i]
  <2>1. CASE at \in DOMAIN box
    <3>1. patched = [i \in 1..(q + n) |-> IF i = at THEN value ELSE box[i]]
      BY <1>5, <2>1
    <3>2. \A i \in 1..(q + n) : box[i] \in S
      BY <1>4, <1>5
    <3>3. q + n \in Nat
      BY <1>1, <1>2
    <3> HIDE DEF patched, n
    <3>4. patched = [i \in 1..(q + n) |-> patched[i]] /\ \A i \in 1..(q + n) : patched[i] \in S
      BY <1>7, <3>1, <3>2
    <3>5. patched \in Seq(S) /\ Len(patched) = q + n
      BY <3>3, <3>4, AllOf
    <3> QED
      BY <3>1, <3>5
  <2>2. CASE at \notin DOMAIN box
    BY <1>4, <1>5, <2>2
  <2> QED
    BY <2>1, <2>2
<1>9. after = SubSeq(patched, q + 1, Len(patched))
  BY DEF Patched, box, at, q
<1> HIDE DEF patched, n, after
<1>10. /\ Len(after) = n /\ DOMAIN after = 1..n /\ after \in Seq(S)
       /\ \A i \in 1..n : after[i] = patched[q + i]
  <2>1. q \in Nat /\ n \in Nat /\ Len(patched) = q + n
    BY <1>1, <1>2, <1>8
  <2>2. after \in Seq(S) /\ Len(after) = n
    BY <1>8, <1>9, <2>1
  <2>3. \A i \in 1..n : after[i] = patched[q + i]
    <3> SUFFICES ASSUME NEW i \in 1..n PROVE after[i] = patched[q + i]
      OBVIOUS
    <3>1. (q + 1) + i - 1 = q + i /\ i \in 1..((q + n) - (q + 1) + 1)
      BY <2>1
    <3> QED
      BY <1>8, <1>9, <2>1, <3>1
  <2> QED
    BY <2>2, <2>3
<1>11. ASSUME NEW i \in 1..n
       PROVE  after[i] = IF i = at - q THEN value ELSE words[i]
  <2>1. q + i \in 1..(q + n) /\ (q + i = at <=> i = at - q)
    BY <1>1, <1>2, <1>6
  <2> QED
    BY <1>5, <1>8, <1>10, <2>1
<1> QED
  BY <1>2, <1>10, <1>11, <1>12 DEF n, after, S, IsPatched

(* The references kept are sequences of sequences. *)
LEMMA KeptReferencesSized ==
    ASSUME NEW r, NEW kept, NEW slot, IsTrak(slot.trak)
    PROVE  LET tref == KeptReferences(r, kept, slot)
           IN /\ Len(tref) \in Nat /\ DOMAIN tref = 1..Len(tref) /\ tref = [k \in 1..Len(tref) |-> tref[k]]
              /\ \A k \in DOMAIN tref : Len(tref[k].targets) \in Nat
              /\ ReferencesSize(tref) \in Nat
<1> DEFINE known(targets) == At(targets, {k \in DOMAIN targets : Identified(kept, slot.input, targets[k]) # {}})
           last(id) == CHOOSE n \in Identified(kept, slot.input, id) :
                         \A m \in Identified(kept, slot.input, id) : m <= n
           renamed(targets) == [k \in DOMAIN known(targets) |-> IdOf(r, kept, last(known(targets)[k]))]
           source == slot.trak.tref
           every == [k \in DOMAIN source |-> [source[k] EXCEPT !.targets = renamed(@)]]
           T == {k \in DOMAIN every : every[k].targets # <<>>}
           tref == KeptReferences(r, kept, slot)
<1>1. tref = At(every, T)
  BY DEF KeptReferences
<1>2. /\ IsSequence(source)
      /\ \A k \in DOMAIN source : DOMAIN source[k] = {"kind", "targets"} /\ source[k].targets \in Seq(Nat)
  BY DEF IsTrak
<1>3. ASSUME NEW targets \in Seq(Nat) PROVE Len(renamed(targets)) \in Nat
  <2> DEFINE P == {k \in DOMAIN targets : Identified(kept, slot.input, targets[k]) # {}}
  <2>1. P \in SUBSET DOMAIN targets
    OBVIOUS
  <2>2. known(targets) = At(targets, P)
    OBVIOUS
  <2> HIDE DEF P, known
  <2>3. IsFiniteSet(P) /\ \A i \in P : i \in Nat
    <3>1. IsFiniteSet(DOMAIN targets) /\ \A i \in DOMAIN targets : i \in Nat
      BY CountedFromOne
    <3> QED
      BY <2>1, <3>1, FS_Subset
  <2>4. Cardinality(P) \in Nat
    BY <2>3, FS_CardinalityType
  <2>5. DOMAIN known(targets) = 1..Cardinality(P)
    BY <2>2 DEF At
  <2> QED
    BY <2>4, <2>5
<1>4. \A k \in DOMAIN source : Len(every[k].targets) \in Nat
  <2> SUFFICES ASSUME NEW k \in DOMAIN source PROVE Len(every[k].targets) \in Nat
    OBVIOUS
  <2> HIDE DEF renamed, source
  <2>1. every[k].targets = renamed(source[k].targets)
    BY <1>2
  <2> QED
    BY <1>2, <1>3, <2>1
<1>5. T \in SUBSET DOMAIN source
  OBVIOUS
<1> HIDE DEF every, T, source
<1>6. IsFiniteSet(T) /\ (\A i \in T : i \in Nat) /\ Cardinality(T) \in Nat
      /\ \A k \in 1..Cardinality(T) : Sorted(T)[k] \in T
  <2>1. IsFiniteSet(T) /\ \A i \in T : i \in Nat
    BY <1>2, <1>5, SequencePlaces
  <2> QED
    BY <2>1, SortedPlaces
<1>7. tref = [k \in 1..Cardinality(T) |-> every[Sorted(T)[k]]]
  BY <1>1 DEF At
<1> HIDE DEF tref
<1>8. Len(tref) = Cardinality(T) /\ DOMAIN tref = 1..Cardinality(T)
  BY <1>6, <1>7
<1>9. \A k \in DOMAIN tref : Len(tref[k].targets) \in Nat
  BY <1>4, <1>5, <1>6, <1>7, <1>8
<1>10. ReferencesSize(tref) \in Nat
  <2> DEFINE f == [k \in DOMAIN tref |-> BoxSize(4 * Len(tref[k].targets))]
             n == Cardinality(T)
  <2>1. \A k \in 1..n : f[k] \in Nat
    <3> SUFFICES ASSUME NEW k \in 1..n PROVE f[k] \in Nat
      OBVIOUS
    <3>1. 4 * Len(tref[k].targets) \in Nat
      BY <1>8, <1>9
    <3> QED
      BY <1>8, <3>1, BoxSized
  <2>2. DOMAIN f = 1..n /\ n \in Nat
    BY <1>6, <1>8
  <2>3. ReferencesSize(tref) = IF tref = <<>> THEN 0 ELSE BoxSize(SumOf(f))
    BY DEF ReferencesSize
  <2> HIDE DEF f, n
  <2>4. SumOf(f) \in Nat
    BY <2>1, <2>2, SumSized
  <2>5. BoxSize(SumOf(f)) \in Nat
    BY <2>4, BoxSized
  <2> QED
    BY <2>3, <2>5
<1> QED
  BY <1>6, <1>7, <1>8, <1>9, <1>10 DEF tref

(* The tables of a track, with its chunks elsewhere. *)
TableKind(wide) == IF wide THEN "co64" ELSE "stco"

IsMoved(new, stbl, m, offsets, wide) ==
    LET table == TableKind(wide)
    IN /\ DOMAIN new = (DOMAIN stbl \ {"stco", "co64"}) \cup {table}
       /\ \A kind \in DOMAIN stbl \ {"stco", "co64"} : new[kind] = stbl[kind]
       /\ OffsetBox(new) = table
       /\ new[table].count = m /\ Len(new[table].entries) = m /\ DOMAIN new[table].entries = 1..m
       /\ \A k \in 1..m : new[table].entries[k] = Narrowed(offsets[k], wide)
       /\ Entries(new[table]) = new[table].entries /\ ~Short(new[table])

LEMMA NewTablesAre ==
    ASSUME NEW stbl, NEW m \in Nat, NEW offsets, DOMAIN offsets = 1..m, Len(offsets) = m, NEW wide \in BOOLEAN
    PROVE  IsMoved(NewTables(stbl, offsets, wide), stbl, m, offsets, wide)
<1> DEFINE new == NewTables(stbl, offsets, wide)
           table == TableKind(wide)
           e == [k \in 1..m |-> Narrowed(offsets[k], wide)]
           S == {e[k] : k \in 1..m}
<1>1. table \in {"stco", "co64"} /\ (wide <=> table = "co64")
  BY DEF TableKind
<1>2. new = [kind \in (DOMAIN stbl \ {"stco", "co64"}) \cup {table} |->
               IF kind # table THEN stbl[kind] ELSE [count |-> m, entries |-> e]]
  BY DEF NewTables, TableKind
<1>3. e \in Seq(S) /\ Len(e) = m /\ DOMAIN e = 1..m /\ \A k \in 1..m : e[k] = Narrowed(offsets[k], wide)
  <2>1. e = [k \in 1..m |-> e[k]] /\ \A k \in 1..m : e[k] \in S
    OBVIOUS
  <2>2. \A k \in 1..m : e[k] = Narrowed(offsets[k], wide)
    OBVIOUS
  <2> HIDE DEF e, S
  <2>3. e \in Seq(S) /\ Len(e) = m /\ DOMAIN e = 1..m
    BY <2>1, AllOf
  <2> QED
    BY <2>2, <2>3
<1> HIDE DEF new, table, e, S
<1>4. /\ DOMAIN new = (DOMAIN stbl \ {"stco", "co64"}) \cup {table}
      /\ \A kind \in DOMAIN stbl \ {"stco", "co64"} : new[kind] = stbl[kind]
      /\ new[table] = [count |-> m, entries |-> e]
  BY <1>1, <1>2
<1>5. OffsetBox(new) = table
  BY <1>1, <1>4 DEF OffsetBox
<1>6. SubSeq(e, 1, m) = e
  BY <1>3
<1>7. Entries(new[table]) = e /\ ~Short(new[table])
  BY <1>3, <1>4, <1>6 DEF Entries, Short
<1> QED
  BY <1>3, <1>4, <1>5, <1>7 DEF new, table, IsMoved

(* A rewritten track, field by field. *)
TrackBoxIs(box, r, kept, n, offsets, wide) ==
    LET trak == kept[n].trak IN
    /\ DOMAIN box = {"kind", "tkhdHeader", "headers", "tref", "stbl", "other"}
    /\ box.kind = trak.kind /\ box.tkhdHeader = trak.tkhdHeader
    /\ DOMAIN box.headers = DOMAIN trak.headers
    /\ \A kind \in DOMAIN trak.headers : kind # "tkhd" => box.headers[kind] = trak.headers[kind]
    /\ box.headers["tkhd"] = IF Joined(r) THEN PatchTrack(trak.tkhdHeader, trak.headers["tkhd"], IdOf(r, kept, n))
                             ELSE trak.headers["tkhd"]
    /\ box.tref = KeptReferences(r, kept, kept[n])
    /\ box.stbl = NewTables(trak.stbl, offsets, wide)
    /\ box.other = IF {"stco", "co64"} \subseteq DOMAIN trak.stbl THEN trak.other + OffsetTableSize(Len(offsets), wide)
                   ELSE trak.other

LEMMA TrackBoxFields ==
    ASSUME NEW r, NEW kept, NEW n, IsTrak(kept[n].trak), TrackError(kept[n].trak) = "none", NEW offsets, NEW wide
    PROVE  TrackBoxIs(TrackBox(r, kept, n, offsets, wide), r, kept, n, offsets, wide)
<1> DEFINE trak == kept[n].trak
           box == TrackBox(r, kept, n, offsets, wide)
<1>1. DOMAIN trak = {"kind", "tkhdHeader", "headers", "tref", "stbl", "other"}
  BY DEF IsTrak
<1>2. "tkhd" \in DOMAIN trak.headers
  BY TrackReads DEF HeadersRead
<1> HIDE DEF trak
<1>3. box = [trak EXCEPT
               !.headers["tkhd"] =
                  IF Joined(r) THEN PatchTrack(trak.tkhdHeader, @, IdOf(r, kept, n)) ELSE @,
               !.tref = KeptReferences(r, kept, kept[n]),
               !.stbl = NewTables(@, offsets, wide),
               !.other = IF {"stco", "co64"} \subseteq DOMAIN trak.stbl THEN @ + OffsetTableSize(Len(offsets), wide) ELSE @]
  BY DEF TrackBox, trak
<1> HIDE DEF box
<1>4. /\ DOMAIN box = DOMAIN trak /\ box.kind = trak.kind /\ box.tkhdHeader = trak.tkhdHeader
      /\ box.tref = KeptReferences(r, kept, kept[n])
  BY <1>1, <1>3
<1>5. box.stbl = NewTables(trak.stbl, offsets, wide)
  BY <1>1, <1>3
<1>6. box.other = IF {"stco", "co64"} \subseteq DOMAIN trak.stbl THEN trak.other + OffsetTableSize(Len(offsets), wide)
                  ELSE trak.other
  BY <1>1, <1>3
<1>7. box.headers = [trak.headers EXCEPT !["tkhd"] =
                       IF Joined(r) THEN PatchTrack(trak.tkhdHeader, @, IdOf(r, kept, n)) ELSE @]
  BY <1>1, <1>3
<1>8. /\ DOMAIN box.headers = DOMAIN trak.headers
      /\ \A kind \in DOMAIN trak.headers : kind # "tkhd" => box.headers[kind] = trak.headers[kind]
      /\ box.headers["tkhd"] = IF Joined(r) THEN PatchTrack(trak.tkhdHeader, trak.headers["tkhd"], IdOf(r, kept, n))
                               ELSE trak.headers["tkhd"]
  BY <1>2, <1>7
<1> QED
  BY <1>1, <1>4, <1>5, <1>6, <1>8 DEF TrackBoxIs, trak, box

(* The size of a rewritten track does not depend on where its chunks are. *)
TrackSize(r, kept, n, m, wide) ==
    LET trak == kept[n].trak
        tkhd == IF Joined(r) THEN PatchTrack(trak.tkhdHeader, trak.headers["tkhd"], IdOf(r, kept, n))
                ELSE trak.headers["tkhd"]
        other == IF {"stco", "co64"} \subseteq DOMAIN trak.stbl THEN trak.other + OffsetTableSize(m, wide)
                 ELSE trak.other
    IN BoxSize(HeaderBoxSize(trak.tkhdHeader, tkhd) + ReferencesSize(KeptReferences(r, kept, kept[n]))
               + other + OffsetTableSize(m, wide))

LEMMA PatchTrackWords ==
    ASSUME NEW header \in {8, 16}, NEW words \in Seq(Nat), NEW value
    PROVE  IsPatched(PatchTrack(header, words, value), words, PatchAt(header, words, 20, 28), value)
<1>1. 20 \in Nat /\ 28 \in Nat
  OBVIOUS
<1>2. IsPatched(Patched(header, words, 20, 28, value), words, PatchAt(header, words, 20, 28), value)
  BY <1>1, PatchedWords
<1> QED
  BY <1>2 DEF PatchTrack

LEMMA TableSized == ASSUME NEW m \in Nat, NEW wide \in BOOLEAN PROVE OffsetTableSize(m, wide) \in Nat
<1> DEFINE x == IF wide THEN 8 ELSE 4
           y == 8 + m * x
<1>1. x \in Nat
  OBVIOUS
<1> HIDE DEF x
<1>2. y \in Nat
  BY <1>1
<1>3. OffsetTableSize(m, wide) = BoxSize(y)
  BY DEF OffsetTableSize, x
<1> HIDE DEF y
<1> QED
  BY <1>2, <1>3, BoxSized

LEMMA TrackSized ==
    ASSUME NEW r, NEW kept, NEW n, IsTrak(kept[n].trak), TrackError(kept[n].trak) = "none", kept[n].trak.kind = "trak",
           NEW m \in Nat, NEW offsets, DOMAIN offsets = 1..m, Len(offsets) = m, NEW wide \in BOOLEAN
    PROVE  /\ SizeOf(TrackBox(r, kept, n, offsets, wide)) = TrackSize(r, kept, n, m, wide)
           /\ TrackSize(r, kept, n, m, wide) \in Nat
           /\ TrackBox(r, kept, n, offsets, wide).kind = "trak"
<1> DEFINE trak == kept[n].trak
           box == TrackBox(r, kept, n, offsets, wide)
           tkhd == IF Joined(r) THEN PatchTrack(trak.tkhdHeader, trak.headers["tkhd"], IdOf(r, kept, n))
                   ELSE trak.headers["tkhd"]
           other == IF {"stco", "co64"} \subseteq DOMAIN trak.stbl THEN trak.other + OffsetTableSize(m, wide)
                    ELSE trak.other
           refs == ReferencesSize(KeptReferences(r, kept, kept[n]))
           table == OffsetTableSize(m, wide)
<1>1. TrackBoxIs(box, r, kept, n, offsets, wide)
  BY TrackBoxFields
<1>2. /\ trak.tkhdHeader \in {8, 16} /\ trak.other \in Nat
      /\ \A kind \in DOMAIN trak.headers : trak.headers[kind] \in Seq(Nat)
  BY DEF IsTrak
<1>3. "tkhd" \in DOMAIN trak.headers
  BY TrackReads DEF HeadersRead
<1>4. refs \in Nat
  BY KeptReferencesSized
<1>5. table \in Nat
  BY TableSized
<1> HIDE DEF trak, box, refs
<1>6. Len(tkhd) \in Nat
  <2> DEFINE words == trak.headers["tkhd"]
             value == IdOf(r, kept, n)
  <2>1. words \in Seq(Nat) /\ Len(words) \in Nat
    BY <1>2, <1>3
  <2> HIDE DEF words, value
  <2>2. Len(PatchTrack(trak.tkhdHeader, words, value)) = Len(words)
    BY <1>2, <2>1, PatchTrackWords DEF IsPatched
  <2> QED
    BY <2>1, <2>2 DEF words, value
<1>7. other \in Nat
  <2> HIDE DEF table
  <2>1. trak.other + table \in Nat
    BY <1>2, <1>5
  <2> QED
    BY <1>2, <2>1 DEF table
<1>8. SizeOf(box) = BoxSize(HeaderBoxSize(trak.tkhdHeader, tkhd) + refs + other + table)
  <2>1. box.kind = "trak" /\ box.tkhdHeader = trak.tkhdHeader /\ box.headers["tkhd"] = tkhd
        /\ box.other = other /\ ReferencesSize(box.tref) = refs
    BY <1>1 DEF TrackBoxIs, trak, refs
  <2>2. OffsetBox(box.stbl) = TableKind(wide) /\ Len(Entries(box.stbl[OffsetBox(box.stbl)])) = m
    <3>1. box.stbl = NewTables(trak.stbl, offsets, wide)
      BY <1>1 DEF TrackBoxIs, trak
    <3> DEFINE new == NewTables(trak.stbl, offsets, wide)
    <3>2. OffsetBox(new) = TableKind(wide) /\ Len(new[TableKind(wide)].entries) = m
          /\ Entries(new[TableKind(wide)]) = new[TableKind(wide)].entries
      <4> DEFINE stbl == trak.stbl
      <4> HIDE DEF stbl
      <4>1. IsMoved(NewTables(stbl, offsets, wide), stbl, m, offsets, wide)
        BY NewTablesAre
      <4> QED
        BY <4>1 DEF IsMoved, stbl
    <3> HIDE DEF new
    <3>3. box.stbl = new
      BY <3>1 DEF new
    <3> QED
      BY <3>2, <3>3
  <2>3. OffsetBox(box.stbl) = "co64" <=> wide
    BY <2>2 DEF TableKind
  <2>4. OffsetTableSize(Len(Entries(box.stbl[OffsetBox(box.stbl)])), OffsetBox(box.stbl) = "co64") = table
    BY <2>2, <2>3 DEF OffsetTableSize
  <2> HIDE DEF tkhd, other, table
  <2>5. SizeOf(box) = BoxSize(HeaderBoxSize(box.tkhdHeader, box.headers["tkhd"]) + ReferencesSize(box.tref) + box.other
                              + OffsetTableSize(Len(Entries(box.stbl[OffsetBox(box.stbl)])),
                                                OffsetBox(box.stbl) = "co64"))
    BY <2>1 DEF SizeOf
  <2> QED
    BY <2>1, <2>4, <2>5
<1>9. TrackSize(r, kept, n, m, wide) = BoxSize(HeaderBoxSize(trak.tkhdHeader, tkhd) + refs + other + table)
  BY DEF TrackSize, trak, refs
<1>10. HeaderBoxSize(trak.tkhdHeader, tkhd) + refs + other + table \in Nat
  <2> HIDE DEF tkhd, other, table
  <2>1. HeaderBoxSize(trak.tkhdHeader, tkhd) \in Nat
    BY <1>2, <1>6 DEF HeaderBoxSize, Word
  <2> QED
    BY <1>4, <1>5, <1>7, <2>1
<1>11. BoxSize(HeaderBoxSize(trak.tkhdHeader, tkhd) + refs + other + table) \in Nat
  <2> HIDE DEF tkhd, other, table
  <2> QED
    BY <1>10, BoxSized
<1>12. box.kind = "trak"
  BY <1>1 DEF TrackBoxIs
<1> QED
  BY <1>8, <1>9, <1>11, <1>12 DEF box

LEMMA ChunkOffsetsCounted ==
    ASSUME NEW order, IsFiniteSet(DOMAIN order), NEW n, NEW start
    PROVE  LET m == Cardinality({i \in DOMAIN order : order[i].slot = n})
           IN m \in Nat /\ DOMAIN ChunkOffsets(order, n, start) = 1..m /\ Len(ChunkOffsets(order, n, start)) = m
<1> DEFINE mine == {i \in DOMAIN order : order[i].slot = n}
           m == Cardinality(mine)
<1>1. IsFiniteSet(mine)
  BY FS_Subset
<1>2. m \in Nat
  BY <1>1, FS_CardinalityType
<1>3. DOMAIN ChunkOffsets(order, n, start) = 1..m
  BY DEF ChunkOffsets
<1>4. Len(ChunkOffsets(order, n, start)) = m
  <2> DEFINE nth(k) == CHOOSE i \in mine : Cardinality({j \in mine : order[j].first < order[i].first}) = k - 1
             f == [k \in 1..m |-> start + MediaBefore(order, nth(k))]
  <2>1. ChunkOffsets(order, n, start) = f
    BY DEF ChunkOffsets
  <2> HIDE DEF nth, m
  <2>2. Len(f) = m
    BY <1>2
  <2> QED
    BY <2>1, <2>2 DEF m
<1> QED
  BY <1>2, <1>3, <1>4

-----------------------------------------------------------------------------
(* The movie box. *)

NextId(r, kept) ==
    1 + IF kept = <<>> THEN 0
        ELSE CHOOSE id \in {IdOf(r, kept, n) : n \in DOMAIN kept} :
               \A n \in DOMAIN kept : IdOf(r, kept, n) <= id
TracksWritten(r, kept, order, wide, start) ==
    [n \in DOMAIN kept |-> TrackBox(r, kept, n, ChunkOffsets(order, n, start), wide)]
Rewritten(r, kept, order, wide, start, i) ==
    LET moov == r.inputs[1].moov
        child == moov[i]
    IN CASE child.kind = "mvhd" ->
              <<IF Joined(r) THEN [child EXCEPT !.words = PatchNextTrack(child.header, @, NextId(r, kept))] ELSE child>>
         [] child.kind = "trak" ->
              IF \E j \in 1..(i - 1) : moov[j].kind = "trak" THEN <<>>
              ELSE TracksWritten(r, kept, order, wide, start)
         [] child.kind = "udta" -> IF r.keepUdta THEN <<child>> ELSE <<>>
         [] OTHER -> <<child>>

LEMMA MovieBoxIs ==
    ASSUME NEW r, NEW kept, NEW order, NEW wide, NEW start
    PROVE  MovieBox(r, kept, order, wide, start) =
             FlattenSeq([i \in DOMAIN r.inputs[1].moov |-> Rewritten(r, kept, order, wide, start, i)])
BY DEF MovieBox, Rewritten, TracksWritten, NextId

(* Boxes of the same sizes. *)
Alike(s, t) ==
    /\ Len(s) \in Nat /\ DOMAIN s = 1..Len(s) /\ s = [k \in 1..Len(s) |-> s[k]]
    /\ Len(t) = Len(s) /\ DOMAIN t = 1..Len(s) /\ t = [k \in 1..Len(s) |-> t[k]]
    /\ \A k \in 1..Len(s) : SizeOf(s[k]) = SizeOf(t[k]) /\ SizeOf(s[k]) \in Nat

LEMMA OneAlike == ASSUME NEW box, SizeOf(box) \in Nat PROVE Alike(<<box>>, <<box>>)
<1> DEFINE s == <<box>>
<1>1. Len(s) = 1 /\ DOMAIN s = 1..1 /\ s = [k \in 1..1 |-> s[k]] /\ s[1] = box
  OBVIOUS
<1> HIDE DEF s
<1>2. \A k \in 1..1 : s[k] = box
  BY <1>1
<1> QED
  BY <1>1, <1>2 DEF Alike, s

LEMMA NoneAlike == Alike(<<>>, <<>>)
<1> DEFINE s == <<>>
<1>1. Len(s) = 0 /\ DOMAIN s = 1..0 /\ s = [k \in 1..0 |-> s[k]]
  OBVIOUS
<1> HIDE DEF s
<1> QED
  BY <1>1 DEF Alike, s

LEMMA FlattenAlike ==
    ASSUME NEW m \in Nat, NEW s, NEW t, s = [i \in 1..m |-> s[i]], t = [i \in 1..m |-> t[i]],
           \A i \in 1..m : Alike(s[i], t[i])
    PROVE  Alike(FlattenSeq(s), FlattenSeq(t))
<1> DEFINE S == UNION {{s[i][k] : k \in 1..Len(s[i])} \cup {t[i][k] : k \in 1..Len(s[i])} : i \in 1..m}
           a == FlattenSeq(s)
           b == FlattenSeq(t)
<1>1. ASSUME NEW i \in 1..m PROVE s[i] \in Seq(S) /\ t[i] \in Seq(S) /\ Len(t[i]) = Len(s[i])
  <2> DEFINE n == Len(s[i])
  <2>1. /\ n \in Nat /\ s[i] = [k \in 1..n |-> s[i][k]] /\ t[i] = [k \in 1..n |-> t[i][k]] /\ Len(t[i]) = n
    BY DEF Alike
  <2>2. \A k \in 1..n : s[i][k] \in S /\ t[i][k] \in S
    OBVIOUS
  <2> HIDE DEF S, n
  <2>3. s[i] \in Seq(S)
    BY <2>1, <2>2, AllOf
  <2>4. t[i] \in Seq(S)
    BY <2>1, <2>2, AllOf
  <2> QED
    BY <2>1, <2>3, <2>4 DEF n
<1> HIDE DEF S
<1>2. s \in Seq(Seq(S)) /\ Len(s) = m
  BY <1>1, AllOf
<1>3. t \in Seq(Seq(S)) /\ Len(t) = m
  BY <1>1, AllOf
<1>4. SameShape(s, t)
  BY <1>1, <1>2, <1>3 DEF SameShape
<1>5. a \in Seq(S) /\ b \in Seq(S) /\ SideBySide(a, b, s, t, m)
  BY <1>2, <1>3, <1>4, FlattenTogether
<1> HIDE DEF a, b
<1>6. /\ Len(a) \in Nat /\ DOMAIN a = 1..Len(a) /\ a = [k \in 1..Len(a) |-> a[k]]
      /\ Len(b) = Len(a) /\ DOMAIN b = 1..Len(a) /\ b = [k \in 1..Len(a) |-> b[k]]
  <2>1. Len(b) = Len(a)
    BY <1>5 DEF SideBySide
  <2> QED
    BY <1>5, <2>1
<1>7. ASSUME NEW x \in 1..Len(a) PROVE SizeOf(a[x]) = SizeOf(b[x]) /\ SizeOf(a[x]) \in Nat
  <2>1. PICK i \in 1..m : \E k \in 1..Len(s[i]) : a[x] = s[i][k] /\ b[x] = t[i][k]
    BY <1>5 DEF SideBySide
  <2>2. PICK k \in 1..Len(s[i]) : a[x] = s[i][k] /\ b[x] = t[i][k]
    BY <2>1
  <2>3. SizeOf(s[i][k]) = SizeOf(t[i][k]) /\ SizeOf(s[i][k]) \in Nat
    BY DEF Alike
  <2> QED
    BY <2>2, <2>3
<1> QED
  BY <1>6, <1>7 DEF Alike, a, b

LEMMA MoviesAlike ==
    ASSUME NEW a, NEW b, Alike(a, b)
    PROVE  MovieSize(a) = MovieSize(b) /\ MovieSize(a) \in Nat
<1> DEFINE f == [k \in DOMAIN a |-> SizeOf(a[k])]
           g == [k \in DOMAIN b |-> SizeOf(b[k])]
           n == Len(a)
<1>1. n \in Nat /\ DOMAIN f = 1..n /\ DOMAIN g = 1..n /\ \A k \in 1..n : f[k] = g[k] /\ f[k] \in Nat /\ g[k] \in Nat
  BY DEF Alike
<1>2. MovieSize(a) = BoxSize(SumOf(f)) /\ MovieSize(b) = BoxSize(SumOf(g))
  BY DEF MovieSize
<1> HIDE DEF f, g, n
<1>3. SumOf(f) = Sum(f, 1..n) /\ SumOf(f) \in Nat /\ SumOf(g) = Sum(g, 1..n)
  BY <1>1, SumSized
<1>4. IsFiniteSet(1..n)
  BY <1>1, Numbers
<1>5. Sum(f, 1..n) = Sum(g, 1..n)
  BY <1>1, <1>4, SumSame
<1>6. BoxSize(SumOf(f)) \in Nat
  BY <1>3, BoxSized
<1> QED
  BY <1>2, <1>3, <1>5, <1>6

AllHold(kept) ==
    /\ Len(kept) \in Nat /\ DOMAIN kept = 1..Len(kept)
    /\ \A n \in 1..Len(kept) : SlotHolds(kept[n])

LEMMA TracksAlike ==
    ASSUME NEW r, NEW kept, AllHold(kept), NEW order, IsFiniteSet(DOMAIN order), NEW wide \in BOOLEAN, NEW a, NEW b
    PROVE  Alike(TracksWritten(r, kept, order, wide, a), TracksWritten(r, kept, order, wide, b))
<1> DEFINE m == Len(kept)
           s == TracksWritten(r, kept, order, wide, a)
           t == TracksWritten(r, kept, order, wide, b)
<1>1. m \in Nat /\ DOMAIN kept = 1..m
  BY DEF AllHold
<1>2. s = [n \in 1..m |-> TrackBox(r, kept, n, ChunkOffsets(order, n, a), wide)]
  BY <1>1 DEF TracksWritten
<1>3. t = [n \in 1..m |-> TrackBox(r, kept, n, ChunkOffsets(order, n, b), wide)]
  BY <1>1 DEF TracksWritten
<1>4. ASSUME NEW n \in 1..m PROVE SizeOf(s[n]) = SizeOf(t[n]) /\ SizeOf(s[n]) \in Nat
  <2> DEFINE c == Cardinality({i \in DOMAIN order : order[i].slot = n})
             x == ChunkOffsets(order, n, a)
             y == ChunkOffsets(order, n, b)
  <2>1. c \in Nat /\ DOMAIN x = 1..c /\ Len(x) = c
    BY ChunkOffsetsCounted
  <2>2. DOMAIN y = 1..c /\ Len(y) = c
    BY ChunkOffsetsCounted
  <2>3. IsTrak(kept[n].trak) /\ TrackError(kept[n].trak) = "none" /\ kept[n].trak.kind = "trak"
    BY DEF AllHold, SlotHolds
  <2>4. s[n] = TrackBox(r, kept, n, x, wide) /\ t[n] = TrackBox(r, kept, n, y, wide)
    BY <1>2, <1>3
  <2> HIDE DEF c, x, y, s, t
  <2>5. SizeOf(TrackBox(r, kept, n, x, wide)) = TrackSize(r, kept, n, c, wide) /\ TrackSize(r, kept, n, c, wide) \in Nat
    BY <2>1, <2>3, TrackSized
  <2>6. SizeOf(TrackBox(r, kept, n, y, wide)) = TrackSize(r, kept, n, c, wide)
    BY <2>1, <2>2, <2>3, TrackSized
  <2> QED
    BY <2>4, <2>5, <2>6
<1> HIDE DEF m
<1>5. Len(s) = m /\ DOMAIN s = 1..m /\ s = [k \in 1..m |-> s[k]]
  BY <1>1, <1>2
<1>6. Len(t) = m /\ DOMAIN t = 1..m /\ t = [k \in 1..m |-> t[k]]
  BY <1>1, <1>3
<1> HIDE DEF s, t
<1> QED
  BY <1>1, <1>4, <1>5, <1>6 DEF Alike, s, t

LEMMA PatchNextWords ==
    ASSUME NEW header \in {8, 16}, NEW words \in Seq(Nat), NEW value
    PROVE  IsPatched(PatchNextTrack(header, words, value), words, PatchAt(header, words, 104, 116), value)
<1>1. 104 \in Nat /\ 116 \in Nat
  OBVIOUS
<1>2. IsPatched(Patched(header, words, 104, 116, value), words, PatchAt(header, words, 104, 116), value)
  BY <1>1, PatchedWords
<1> QED
  BY <1>2 DEF PatchNextTrack

(* The sizes of what is copied. *)
LEMMA ChildSized ==
    ASSUME NEW child, IsBox(child), child.kind # "trak"
    PROVE  SizeOf(child) \in Nat
<1>1. CASE child.kind = "mvhd"
  <2>1. child.header \in Nat /\ Len(child.words) \in Nat
    BY <1>1 DEF IsBox
  <2>2. SizeOf(child) = child.header + 4 * Len(child.words)
    BY <1>1 DEF SizeOf, HeaderBoxSize, Word
  <2> QED
    BY <2>1, <2>2
<1>2. CASE child.kind = "udta"
  <2> DEFINE boxes == child.boxes
             f == [k \in DOMAIN boxes |-> boxes[k].size]
  <2>1. Sized(boxes)
    BY <1>2 DEF IsBox
  <2>2. Len(boxes) \in Nat /\ DOMAIN boxes = 1..Len(boxes)
    BY <2>1, SequencePlaces DEF Sized
  <2>3. \A k \in 1..Len(boxes) : f[k] \in Nat
    BY <2>1, <2>2 DEF Sized
  <2>4. DOMAIN f = 1..Len(boxes)
    BY <2>2
  <2>5. SizeOf(child) = BoxSize(SumOf(f))
    BY <1>2 DEF SizeOf
  <2> HIDE DEF f, boxes
  <2>6. SumOf(f) \in Nat
    BY <2>2, <2>3, <2>4, SumSized
  <2> QED
    BY <2>5, <2>6, BoxSized
<1>3. CASE child.kind # "mvhd" /\ child.kind # "udta"
  <2>1. child.size \in Nat
    BY <1>3 DEF IsBox
  <2>2. SizeOf(child) = child.size
    BY <1>3 DEF SizeOf
  <2> QED
    BY <2>1, <2>2
<1> QED
  BY <1>1, <1>2, <1>3

LEMMA RewrittenAlike ==
    ASSUME NEW r, IsRequest(r), NEW kept, AllHold(kept), NEW order, IsFiniteSet(DOMAIN order), NEW wide \in BOOLEAN,
           NEW a, NEW b, NEW i \in DOMAIN r.inputs[1].moov
    PROVE  Alike(Rewritten(r, kept, order, wide, a, i), Rewritten(r, kept, order, wide, b, i))
<1> DEFINE moov == r.inputs[1].moov
           child == moov[i]
           x == Rewritten(r, kept, order, wide, a, i)
           y == Rewritten(r, kept, order, wide, b, i)
<1>1. IsBox(child)
  <2>1. 1 \in DOMAIN r.inputs
    <3>1. DOMAIN r.inputs = 1..Len(r.inputs) /\ Len(r.inputs) \in Nat /\ r.inputs = [k \in 1..Len(r.inputs) |-> r.inputs[k]]
      BY SequencePlaces DEF IsRequest
    <3>2. r.inputs # <<>>
      BY DEF IsRequest
    <3>3. Len(r.inputs) # 0
      BY <3>1, <3>2
    <3> QED
      BY <3>1, <3>3
  <2> QED
    BY <2>1 DEF IsRequest, IsInput
<1>2. CASE child.kind = "mvhd"
  <2> DEFINE new == [child EXCEPT !.words = PatchNextTrack(child.header, @, NextId(r, kept))]
             box == IF Joined(r) THEN new ELSE child
  <2>1. x = <<box>> /\ y = <<box>>
    BY <1>2 DEF Rewritten
  <2>2. DOMAIN child = {"kind", "header", "words"} /\ child.header \in {8, 16} /\ child.words \in Seq(Nat)
    BY <1>1, <1>2 DEF IsBox
  <2>3. SizeOf(child) \in Nat
    BY <1>1, <1>2, ChildSized
  <2>4. SizeOf(new) \in Nat
    <3> DEFINE words == PatchNextTrack(child.header, child.words, NextId(r, kept))
    <3> HIDE DEF child
    <3>1. new = [child EXCEPT !.words = words]
      OBVIOUS
    <3>2. Len(words) \in Nat
      BY <2>2, PatchNextWords DEF IsPatched
    <3> HIDE DEF words
    <3>3. new.kind = "mvhd" /\ new.header = child.header /\ new.words = words
      BY <1>2, <2>2, <3>1
    <3> HIDE DEF new
    <3>4. SizeOf(new) = child.header + 4 * Len(words)
      BY <3>3 DEF SizeOf, HeaderBoxSize, Word
    <3> QED
      BY <2>2, <3>2, <3>4
  <2>5. SizeOf(box) \in Nat
    BY <2>3, <2>4
  <2> HIDE DEF box
  <2> QED
    BY <2>1, <2>5, OneAlike
<1>3. CASE child.kind = "trak"
  <2>1. CASE \E j \in 1..(i - 1) : moov[j].kind = "trak"
    <3>1. x = <<>> /\ y = <<>>
      BY <1>3, <2>1 DEF Rewritten
    <3> QED
      BY <3>1, NoneAlike
  <2>2. CASE ~\E j \in 1..(i - 1) : moov[j].kind = "trak"
    <3>1. x = TracksWritten(r, kept, order, wide, a) /\ y = TracksWritten(r, kept, order, wide, b)
      BY <1>3, <2>2 DEF Rewritten
    <3> QED
      BY <3>1, TracksAlike
  <2> QED
    BY <2>1, <2>2
<1>4. CASE child.kind = "udta"
  <2>1. SizeOf(child) \in Nat
    BY <1>1, <1>4, ChildSized
  <2>2. CASE r.keepUdta
    <3>1. x = <<child>> /\ y = <<child>>
      BY <1>4, <2>2 DEF Rewritten
    <3> QED
      BY <2>1, <3>1, OneAlike
  <2>3. CASE ~r.keepUdta
    <3>1. x = <<>> /\ y = <<>>
      BY <1>4, <2>3 DEF Rewritten
    <3> QED
      BY <3>1, NoneAlike
  <2> QED
    BY <2>2, <2>3
<1>5. CASE child.kind \notin {"mvhd", "trak", "udta"}
  <2>1. SizeOf(child) \in Nat
    BY <1>1, <1>5, ChildSized
  <2>2. x = <<child>> /\ y = <<child>>
    BY <1>5 DEF Rewritten
  <2> QED
    BY <2>1, <2>2, OneAlike
<1> QED
  BY <1>2, <1>3, <1>4, <1>5

(* Where the media begins does not depend on where it was thought to. *)
LEMMA MovieSizeFixed ==
    ASSUME NEW r, IsRequest(r), NEW kept, AllHold(kept), NEW order, IsFiniteSet(DOMAIN order), NEW wide \in BOOLEAN,
           NEW a, NEW b
    PROVE  /\ MovieSize(MovieBox(r, kept, order, wide, a)) = MovieSize(MovieBox(r, kept, order, wide, b))
           /\ MovieSize(MovieBox(r, kept, order, wide, a)) \in Nat
<1> DEFINE moov == r.inputs[1].moov
           m == Len(moov)
           s == [i \in DOMAIN moov |-> Rewritten(r, kept, order, wide, a, i)]
           t == [i \in DOMAIN moov |-> Rewritten(r, kept, order, wide, b, i)]
<1>1. IsSequence(moov)
  <2>1. 1 \in DOMAIN r.inputs
    <3>1. DOMAIN r.inputs = 1..Len(r.inputs) /\ Len(r.inputs) \in Nat /\ r.inputs = [k \in 1..Len(r.inputs) |-> r.inputs[k]]
      BY SequencePlaces DEF IsRequest
    <3>2. r.inputs # <<>>
      BY DEF IsRequest
    <3>3. Len(r.inputs) # 0
      BY <3>1, <3>2
    <3> QED
      BY <3>1, <3>3
  <2> QED
    BY <2>1 DEF IsRequest, IsInput
<1>2. m \in Nat /\ DOMAIN moov = 1..m
  BY <1>1, SequencePlaces
<1>3. \A i \in 1..m : Alike(s[i], t[i])
  BY <1>2, RewrittenAlike
<1>4. MovieBox(r, kept, order, wide, a) = FlattenSeq(s) /\ MovieBox(r, kept, order, wide, b) = FlattenSeq(t)
  BY MovieBoxIs
<1>5. s = [i \in 1..m |-> s[i]] /\ t = [i \in 1..m |-> t[i]]
  BY <1>2
<1> HIDE DEF s, t, m
<1>6. Alike(FlattenSeq(s), FlattenSeq(t))
  BY <1>2, <1>3, <1>5, FlattenAlike
<1> QED
  BY <1>4, <1>6, MoviesAlike

-----------------------------------------------------------------------------
(* The layout, the media copied so far, and the report. *)

LEMMA FirstInput ==
    ASSUME NEW r, IsRequest(r)
    PROVE  1 \in DOMAIN r.inputs /\ IsInput(r.inputs[1])
<1>1. DOMAIN r.inputs = 1..Len(r.inputs) /\ Len(r.inputs) \in Nat /\ r.inputs = [k \in 1..Len(r.inputs) |-> r.inputs[k]]
  BY SequencePlaces DEF IsRequest
<1>2. r.inputs # <<>>
  BY DEF IsRequest
<1>3. Len(r.inputs) # 0
  BY <1>1, <1>2
<1>4. 1 \in DOMAIN r.inputs
  BY <1>1, <1>3
<1> QED
  BY <1>4 DEF IsRequest

LEMMA KeptSlots ==
    ASSUME Settled, pc \notin Before0
    PROVE  IsRequest(request) /\ AllHold(slots) /\ AllStored(slots) /\ chunks = Interleaved(slots)
<1>1. IsRequest(request) /\ \A n \in DOMAIN slots : SlotHolds(slots[n])
  BY SettledSlots
<1>2. slots = Select(request) /\ chunks = Interleaved(slots)
  BY DEF Settled
<1>3. Len(slots) \in Nat /\ DOMAIN slots = 1..Len(slots)
  BY <1>1, <1>2, SelectFlattens
<1>4. AllHold(slots)
  BY <1>1, <1>3 DEF AllHold
<1>5. \A n \in 1..Len(slots) : Stored(slots[n])
  BY <1>1, <1>3, SlotStored
<1>6. AllStored(slots)
  BY <1>3, <1>5 DEF AllStored
<1> QED
  BY <1>1, <1>2, <1>4, <1>6

UnknownBytes(boxes) == SumOf([k \in DOMAIN boxes |-> boxes[k].size])
HeadBytes(out) == out.ftyp + MovieSize(out.moov) + UnknownBytes(out.unknown) + IF out.large THEN 16 ELSE 8

LEMMA UnknownSized ==
    ASSUME NEW r, IsRequest(r)
    PROVE  UnknownBytes(KeptUnknown(r)) \in Nat
<1> DEFINE boxes == KeptUnknown(r)
           f == [k \in DOMAIN boxes |-> boxes[k].size]
<1>1. Sized(r.inputs[1].unknown)
  BY FirstInput DEF IsInput
<1>2. Len(boxes) \in Nat /\ DOMAIN boxes = 1..Len(boxes) /\ \A k \in 1..Len(boxes) : boxes[k].size \in Nat
  <2>1. CASE r.keepUnknown
    <3>1. boxes = r.inputs[1].unknown
      BY <2>1 DEF KeptUnknown
    <3> HIDE DEF boxes
    <3>2. IsSequence(boxes) /\ \A k \in DOMAIN boxes : boxes[k].size \in Nat
      BY <1>1, <3>1 DEF Sized
    <3>3. Len(boxes) \in Nat /\ DOMAIN boxes = 1..Len(boxes)
      BY <3>2, SequencePlaces
    <3> QED
      BY <3>2, <3>3
  <2>2. CASE ~r.keepUnknown
    <3>1. boxes = <<>>
      BY <2>2 DEF KeptUnknown
    <3> HIDE DEF boxes
    <3> QED
      BY <3>1
  <2> QED
    BY <2>1, <2>2
<1>3. UnknownBytes(boxes) = SumOf(f)
  BY DEF UnknownBytes
<1>4. DOMAIN f = 1..Len(boxes) /\ \A k \in 1..Len(boxes) : f[k] \in Nat
  BY <1>2
<1> HIDE DEF f, boxes
<1>5. SumOf(f) \in Nat
  BY <1>2, <1>4, SumSized
<1> QED
  BY <1>3, <1>5 DEF boxes

(* The media begins where what is written before it ends. *)
LEMMA LaidOut ==
    ASSUME NEW r, IsRequest(r), NEW kept, AllHold(kept), NEW order, IsFiniteSet(DOMAIN order), Media(order) \in Nat
    PROVE  LET out == LayOut(r, kept, order)
           IN HeadBytes(out) = out.base /\ out.base \in Nat /\ out.total = out.base + Media(order)
<1> DEFINE out == LayOut(r, kept, order)
           wide == ~FitsNarrowOffsets(MediaStart(r, kept, order, FALSE) + Media(order))
           base == MediaStart(r, kept, order, wide)
           first == MovieSize(MovieBox(r, kept, order, wide, 0))
           then == MovieSize(MovieBox(r, kept, order, wide, base))
           ftyp == r.inputs[1].ftyp
           rest == UnknownBytes(KeptUnknown(r))
           large == NeedsLargeHeader(Media(order))
           header == MediaHeader(order)
<1>1. out = [ftyp |-> ftyp, moov |-> MovieBox(r, kept, order, wide, base), unknown |-> KeptUnknown(r),
             large |-> large, wide |-> wide, base |-> base, total |-> base + Media(order)]
  BY DEF LayOut
<1>2. wide \in BOOLEAN
  OBVIOUS
<1>3. base = ftyp + first + rest + header
  BY DEF MediaStart, UnknownBytes
<1>4. header \in Nat /\ header = IF large THEN 16 ELSE 8
  BY DEF MediaHeader
<1>5. ftyp \in Nat
  BY FirstInput DEF IsInput
<1>6. rest \in Nat
  BY UnknownSized
<1> HIDE DEF wide
<1>7. first = then /\ first \in Nat
  <2> DEFINE b == base
  <2> HIDE DEF b
  <2>1. /\ MovieSize(MovieBox(r, kept, order, wide, 0)) = MovieSize(MovieBox(r, kept, order, wide, b))
        /\ MovieSize(MovieBox(r, kept, order, wide, 0)) \in Nat
    BY <1>2, MovieSizeFixed
  <2> QED
    BY <2>1 DEF b
<1>8. HeadBytes(out) = ftyp + then + rest + IF large THEN 16 ELSE 8
  BY <1>1 DEF HeadBytes
<1>9. out.base = base /\ out.total = base + Media(order)
  BY <1>1
<1> HIDE DEF out, base, first, then, ftyp, rest, large, header
<1>10. base \in Nat
  BY <1>3, <1>4, <1>5, <1>6, <1>7
<1>11. HeadBytes(out) = base
  BY <1>3, <1>4, <1>7, <1>8
<1> QED
  BY <1>9, <1>10, <1>11 DEF out

LEMMA LayoutHolds ==
    ASSUME Settled, pc \notin Before0
    PROVE  /\ HeadBytes(layout) = layout.base /\ layout.base \in Nat
           /\ layout.total = layout.base + Media(chunks) /\ Media(chunks) \in Nat
           /\ Len(chunks) \in Nat /\ DOMAIN chunks = 1..Len(chunks) /\ MediaBefore(chunks, 1) = 0
           /\ \A i \in 1..(Len(chunks) + 1) : MediaBefore(chunks, i) \in Nat /\ MediaBefore(chunks, i) <= Media(chunks)
           /\ \A i \in 1..Len(chunks) : /\ MediaBefore(chunks, i + 1) = MediaBefore(chunks, i) + chunks[i].bytes
                                        /\ ChunkHolds(slots, chunks[i]) /\ chunks[i].bytes \in Nat
<1>1. IsRequest(request) /\ AllHold(slots) /\ AllStored(slots) /\ chunks = Interleaved(slots)
  BY KeptSlots
<1>2. layout = LayOut(request, slots, chunks)
  BY DEF Settled
<1>3. /\ Media(chunks) \in Nat /\ Len(chunks) \in Nat /\ DOMAIN chunks = 1..Len(chunks) /\ MediaBefore(chunks, 1) = 0
      /\ \A i \in 1..(Len(chunks) + 1) : MediaBefore(chunks, i) \in Nat /\ MediaBefore(chunks, i) <= Media(chunks)
      /\ \A i \in 1..Len(chunks) : MediaBefore(chunks, i + 1) = MediaBefore(chunks, i) + chunks[i].bytes
  BY <1>1, MediaIs
<1>4. \A i \in 1..Len(chunks) : ChunkHolds(slots, chunks[i])
  BY <1>1, InterleavedAll
<1>5. \A i \in 1..Len(chunks) : chunks[i].bytes \in Nat
  BY <1>4 DEF ChunkHolds
<1>6. IsFiniteSet(DOMAIN chunks)
  BY <1>3, Numbers
<1>7. HeadBytes(layout) = layout.base /\ layout.base \in Nat /\ layout.total = layout.base + Media(chunks)
  BY <1>1, <1>2, <1>3, <1>6, LaidOut
<1> QED
  BY <1>3, <1>4, <1>5, <1>7

(* What was copied and written, and what the report says of it. *)
Counted ==
    /\ pc \in Before0 \cup {"head"} => copied = 0 /\ pieces = <<>>
    /\ pc \in {"copy", "cancelled", "done"} =>
         /\ copied \in 0..Len(chunks) /\ pieces \in Seq(Piece)
         /\ SizesOfPieces(pieces) = MediaBefore(chunks, copied + 1)
         /\ written = layout.base + MediaBefore(chunks, copied + 1)
    /\ pc = "done" =>
         /\ copied = Len(chunks) /\ report.bytes = written
         /\ \A n \in DOMAIN slots : report.tracks[n].bytes = TrackBytes(slots[n])

LEMMA CountedInit == Init => Counted
BY DEF Init, Counted, Before0

LEMMA SizesTogether ==
    ASSUME NEW a \in Seq(Piece), NEW b \in Seq(Piece)
    PROVE  /\ a \o b \in Seq(Piece) /\ SizesOfPieces(a \o b) = SizesOfPieces(a) + SizesOfPieces(b)
           /\ SizesOfPieces(a) \in Nat /\ SizesOfPieces(b) \in Nat
<1> DEFINE x == PieceSizes(a)
           y == PieceSizes(b)
           c == a \o b
           z == PieceSizes(c)
<1>1. \A p \in Piece : p.size \in Nat
  BY DEF Piece
<1>2. ASSUME NEW s \in Seq(Piece)
      PROVE  /\ PieceSizes(s) \in Seq(Nat) /\ Len(PieceSizes(s)) = Len(s)
             /\ \A k \in 1..Len(s) : PieceSizes(s)[k] = s[k].size
  <2> DEFINE f == PieceSizes(s)
  <2>1. Len(s) \in Nat /\ DOMAIN s = 1..Len(s) /\ \A k \in 1..Len(s) : s[k] \in Piece
    OBVIOUS
  <2>2. f = [k \in 1..Len(s) |-> s[k].size]
    BY <2>1 DEF PieceSizes
  <2>3. \A k \in 1..Len(s) : f[k] = s[k].size /\ f[k] \in Nat
    BY <1>1, <2>1, <2>2
  <2> HIDE DEF f
  <2>4. f = [k \in 1..Len(s) |-> f[k]]
    BY <2>2
  <2> QED
    BY <2>1, <2>3, <2>4, AllOf DEF f
<1>3. c \in Seq(Piece) /\ Joins(c, a, b)
  BY Concat
<1>4. x \in Seq(Nat) /\ y \in Seq(Nat) /\ z \in Seq(Nat) /\ Len(x) = Len(a) /\ Len(y) = Len(b) /\ Len(z) = Len(c)
  BY <1>2, <1>3
<1>5. /\ \A k \in 1..Len(a) : x[k] = a[k].size
      /\ \A k \in 1..Len(b) : y[k] = b[k].size
      /\ \A k \in 1..Len(c) : z[k] = c[k].size
  BY <1>2, <1>3
<1> HIDE DEF x, y, z, c
<1>6. /\ Sum(x \o y, 1..Len(x \o y)) = Sum(x, 1..Len(x)) + Sum(y, 1..Len(y))
      /\ Sum(x, 1..Len(x)) \in Nat /\ Sum(y, 1..Len(y)) \in Nat
  BY <1>4, SumConcat
<1>7. z = x \o y
  <2> DEFINE n == Len(a)
             m == Len(b)
  <2>1. n \in Nat /\ m \in Nat /\ Len(c) = n + m
    BY <1>3 DEF Joins
  <2>2. x \o y \in Seq(Nat) /\ Len(x \o y) = n + m /\ (\A k \in 1..n : (x \o y)[k] = x[k])
        /\ \A k \in 1..m : (x \o y)[n + k] = y[k]
    <3>1. x \o y \in Seq(Nat) /\ Joins(x \o y, x, y)
      BY <1>4, Concat
    <3> QED
      BY <1>4, <2>1, <3>1 DEF Joins
  <2>3. (\A k \in 1..n : c[k] = a[k]) /\ \A k \in 1..m : c[n + k] = b[k]
    BY <1>3 DEF Joins
  <2>4. ASSUME NEW k \in 1..(n + m) PROVE z[k] = (x \o y)[k]
    <3> HIDE DEF n, m
    <3>1. (k \in 1..n) \/ (k - n \in 1..m /\ k = n + (k - n))
      BY <2>1, EitherSide
    <3>2. CASE k \in 1..n
      <4>1. z[k] = c[k].size /\ x[k] = a[k].size
        BY <1>5, <2>1, <3>2 DEF n
      <4> QED
        BY <2>2, <2>3, <3>2, <4>1
    <3>3. CASE k - n \in 1..m /\ k = n + (k - n)
      <4> DEFINE l == k - n
      <4>1. z[k] = c[k].size /\ y[l] = b[l].size
        BY <1>5, <2>1, <3>3 DEF m
      <4>2. c[k] = b[l] /\ (x \o y)[k] = y[l]
        BY <2>2, <2>3, <3>3
      <4> QED
        BY <4>1, <4>2
    <3> QED
      BY <3>1, <3>2, <3>3
  <2> HIDE DEF n, m
  <2> DEFINE w == x \o y
             l == n + m
  <2>5. z \in Seq(Nat) /\ Len(z) = l /\ w \in Seq(Nat) /\ Len(w) = l /\ \A k \in 1..l : z[k] = w[k]
    BY <1>4, <2>1, <2>2, <2>4
  <2> HIDE DEF w, l
  <2>6. z = [k \in 1..l |-> z[k]] /\ w = [k \in 1..l |-> w[k]]
    BY <2>5
  <2>7. z = w
    BY <2>5, <2>6
  <2> QED
    BY <2>7 DEF w
<1> QED
  BY <1>3, <1>4, <1>6, <1>7 DEF SizesOfPieces, x, y, z, c

LEMMA NothingCopied == <<>> \in Seq(Piece) /\ SizesOfPieces(<<>>) = 0
<1>1. <<>> \in Seq(Piece) /\ Len(<<>>) = 0
  OBVIOUS
<1> QED
  BY <1>1, SumNone DEF SizesOfPieces

LEMMA CountedStep ==
    ASSUME Settled, Settled', Counted, [Next]_vars PROVE Counted'
<1>1. CASE Refuse
  BY <1>1 DEF Counted, Refuse, Before0
<1>2. CASE SelectTracks
  BY <1>2 DEF Counted, SelectTracks, Before0
<1>3. CASE WriteHead
  <2>1. pc = "head" /\ pc' = "copy" /\ copied' = 0 /\ pieces' = <<>> /\ chunks' = chunks /\ layout' = layout
    BY <1>3 DEF WriteHead, Counted, Before0
  <2>2. written' = HeadBytes(layout)
    BY <1>3 DEF WriteHead, HeadBytes, UnknownBytes
  <2>3. /\ HeadBytes(layout) = layout.base /\ layout.base \in Nat /\ Len(chunks) \in Nat /\ MediaBefore(chunks, 1) = 0
    BY <2>1, LayoutHolds DEF Before0
  <2>4. 0 \in 0..Len(chunks) /\ 0 + 1 = 1 /\ layout.base + 0 = layout.base
    BY <2>3
  <2>5. /\ copied' \in 0..Len(chunks') /\ pieces' \in Seq(Piece)
        /\ SizesOfPieces(pieces') = MediaBefore(chunks', copied' + 1)
        /\ written' = layout'.base + MediaBefore(chunks', copied' + 1)
    BY <2>1, <2>2, <2>3, <2>4, NothingCopied
  <2> QED
    BY <2>1, <2>5 DEF Counted, Before0
<1>4. CASE CopyChunk
  <2>1. /\ pc = "copy" /\ pc' \in {"copy", "cancelled"} /\ copied < Len(chunks)
        /\ pieces' = pieces \o PiecesOf(chunks[copied + 1]) /\ copied' = copied + 1
        /\ written' = written + chunks[copied + 1].bytes
        /\ chunks' = chunks /\ layout' = layout
    BY <1>4 DEF CopyChunk
  <2>2. /\ copied \in 0..Len(chunks) /\ pieces \in Seq(Piece)
        /\ SizesOfPieces(pieces) = MediaBefore(chunks, copied + 1)
        /\ written = layout.base + MediaBefore(chunks, copied + 1)
    BY <2>1 DEF Counted
  <2> DEFINE k == copied + 1
  <2>3. /\ layout.base \in Nat /\ Len(chunks) \in Nat
        /\ \A i \in 1..(Len(chunks) + 1) : MediaBefore(chunks, i) \in Nat
        /\ \A i \in 1..Len(chunks) : /\ MediaBefore(chunks, i + 1) = MediaBefore(chunks, i) + chunks[i].bytes
                                     /\ ChunkHolds(slots, chunks[i]) /\ chunks[i].bytes \in Nat
    BY <2>1, LayoutHolds DEF Before0
  <2>4. k \in 1..Len(chunks) /\ k \in 1..(Len(chunks) + 1) /\ k \in 0..Len(chunks)
    BY <2>1, <2>2, <2>3
  <2>5. AllStored(slots)
    BY <2>1, KeptSlots DEF Before0
  <2>6. PiecesOf(chunks[k]) \in Seq(Piece) /\ SizesOfPieces(PiecesOf(chunks[k])) = chunks[k].bytes
    BY <2>3, <2>4, <2>5, PiecesHold
  <2> DEFINE c == PiecesOf(chunks[k])
             p == pieces \o c
  <2> HIDE DEF k, c
  <2>7. p \in Seq(Piece) /\ SizesOfPieces(p) = SizesOfPieces(pieces) + SizesOfPieces(c)
    BY <2>2, <2>6, SizesTogether DEF c
  <2>8. pieces' = p /\ copied' = k /\ written' = written + chunks[k].bytes
    BY <2>1 DEF k, c
  <2> HIDE DEF p
  <2> DEFINE before == MediaBefore(chunks, k)
             bytes == chunks[k].bytes
  <2>9. before \in Nat /\ bytes \in Nat /\ MediaBefore(chunks, k + 1) = before + bytes
    BY <2>3, <2>4
  <2>10. SizesOfPieces(pieces) = before /\ SizesOfPieces(c) = bytes /\ written = layout.base + before
    BY <2>2, <2>6 DEF k, c
  <2> HIDE DEF before, bytes
  <2>11. SizesOfPieces(p) = before + bytes
    BY <2>7, <2>10
  <2>12. written' = layout.base + (before + bytes)
    BY <2>3, <2>8, <2>9, <2>10 DEF bytes
  <2>13. /\ copied' \in 0..Len(chunks') /\ pieces' \in Seq(Piece)
         /\ SizesOfPieces(pieces') = MediaBefore(chunks', copied' + 1)
         /\ written' = layout'.base + MediaBefore(chunks', copied' + 1)
    BY <2>1, <2>4, <2>7, <2>8, <2>9, <2>11, <2>12
  <2> QED
    BY <2>1, <2>13 DEF Counted, Before0
<1>5. CASE Finish
  <2>1. /\ pc = "copy" /\ copied = Len(chunks) /\ pc' = "done"
        /\ copied' = copied /\ pieces' = pieces /\ written' = written /\ layout' = layout /\ chunks' = chunks
        /\ slots' = slots
    BY <1>5 DEF Finish
  <2>2. report'.bytes = written
    BY <1>5 DEF Finish
  <2>3. \A n \in DOMAIN slots : report'.tracks[n].bytes = TrackBytes(slots[n])
    BY <1>5 DEF Finish, TrackBytes
  <2> QED
    BY <2>1, <2>2, <2>3 DEF Counted, Before0
<1>6. CASE Fail
  BY <1>6 DEF Counted, Fail, Before0
<1>7. CASE UNCHANGED vars
  BY <1>7 DEF Counted, vars, Before0
<1> QED
  BY <1>1, <1>2, <1>3, <1>4, <1>5, <1>6, <1>7 DEF Next

LEMMA ReportIsTrue == ASSUME Settled, Counted PROVE ReportMatchesOutput
<1> DEFINE f == [k \in DOMAIN pieces |-> pieces[k].size]
           media == SumOf(f)
<1>1. CASE pc \in {"copy", "cancelled", "done"}
  <2>1. /\ copied \in 0..Len(chunks) /\ pieces \in Seq(Piece)
        /\ SizesOfPieces(pieces) = MediaBefore(chunks, copied + 1)
        /\ written = layout.base + MediaBefore(chunks, copied + 1)
    BY <1>1 DEF Counted
  <2>2. media = SizesOfPieces(pieces)
    <3>1. SumOf(f) = Sum(f, DOMAIN f)
      BY SumByChoice DEF SumOf
    <3>2. f = PieceSizes(pieces) /\ DOMAIN f = 1..Len(pieces)
      BY <2>1 DEF PieceSizes
    <3> QED
      BY <3>1, <3>2 DEF SizesOfPieces
  <2>3. /\ layout.base \in Nat /\ layout.total = layout.base + Media(chunks) /\ Media(chunks) \in Nat
        /\ Len(chunks) \in Nat
        /\ \A i \in 1..(Len(chunks) + 1) : MediaBefore(chunks, i) \in Nat /\ MediaBefore(chunks, i) <= Media(chunks)
    BY <1>1, LayoutHolds DEF Before0
  <2>4. copied + 1 \in 1..(Len(chunks) + 1)
    BY <2>1, <2>3
  <2> HIDE DEF media
  <2>5. media \in Nat /\ media <= Media(chunks) /\ written = layout.base + media
    BY <2>1, <2>2, <2>3, <2>4
  <2>6. written <= layout.total
    BY <2>3, <2>5
  <2>7. ASSUME pc = "done"
        PROVE  /\ report.bytes = layout.total /\ report.bytes = layout.base + media
               /\ SumOf([n \in DOMAIN slots |-> report.tracks[n].bytes]) = media
    <3>1. /\ copied = Len(chunks) /\ report.bytes = written
          /\ \A n \in DOMAIN slots : report.tracks[n].bytes = TrackBytes(slots[n])
      BY <2>7 DEF Counted
    <3>2. media = Media(chunks)
      BY <2>1, <2>2, <3>1 DEF Media
    <3>3. AllStored(slots) /\ chunks = Interleaved(slots)
      BY <2>7, KeptSlots DEF Before0
    <3>4. Media(Interleaved(slots)) = SumOf([n \in DOMAIN slots |-> TrackBytes(slots[n])])
      BY <3>3, MediaCounted
    <3>5. [n \in DOMAIN slots |-> report.tracks[n].bytes] = [n \in DOMAIN slots |-> TrackBytes(slots[n])]
      BY <3>1
    <3>6. SumOf([n \in DOMAIN slots |-> report.tracks[n].bytes]) = media
      BY <3>2, <3>3, <3>4, <3>5
    <3> QED
      BY <2>3, <2>5, <3>1, <3>2, <3>6
  <2> QED
    BY <2>5, <2>6, <2>7 DEF ReportMatchesOutput, media
<1>2. CASE pc \notin {"copy", "cancelled", "done"}
  BY <1>2 DEF ReportMatchesOutput
<1> QED
  BY <1>1, <1>2

(* After every chunk, the pieces copied are as long as the media before the next one, and as much was written
   as the layout has before it. *)
THEOREM AlwaysCounted == Spec => [](Settled /\ Counted)
<1>1. Init => Settled /\ Counted
  BY SettledInit, CountedInit
<1>2. Settled /\ Counted /\ [Next]_vars => (Settled /\ Counted)'
  BY SettledStep, CountedStep
<1> QED
  BY <1>1, <1>2, PTL DEF Spec

(* The total announced is what is written, the media is what was copied, and the report counts every byte of it
   to the track it belongs to: layout, copy_chunk and the report of remux. *)
THEOREM ReportsAreTrue == Spec => []ReportMatchesOutput
<1>1. Settled /\ Counted => ReportMatchesOutput
  BY ReportIsTrue
<1> QED
  BY <1>1, AlwaysCounted, PTL

-----------------------------------------------------------------------------
(* Where the parts of a flattened sequence are. *)

LEMMA SortedRun ==
    ASSUME NEW p \in Nat, NEW l \in Nat
    PROVE  LET T == (p + 1)..(p + l)
           IN Cardinality(T) = l /\ IsFiniteSet(T) /\ \A k \in 1..l : Sorted(T)[k] = p + k
<1> DEFINE T == (p + 1)..(p + l)
           G == Given(T)
           Below(i) == {j \in T : <<j, i>> \in G}
<1>1. IsFiniteSet(T) /\ Cardinality(T) = l
  <2> DEFINE a == p + 1
             b == p + l
  <2>1. a \in Int /\ b \in Int /\ (IF a > b THEN 0 ELSE b - a + 1) = l
    OBVIOUS
  <2> HIDE DEF a, b
  <2>2. IsFiniteSet(a..b) /\ Cardinality(a..b) = IF a > b THEN 0 ELSE b - a + 1
    BY <2>1, FS_Interval
  <2> QED
    BY <2>1, <2>2 DEF a, b
<1>2. ASSUME NEW i \in T PROVE Cardinality(Below(i)) = i - (p + 1)
  <2>1. Below(i) = (p + 1)..(i - 1)
    <3>1. \A j \in T : <<j, i>> \in G <=> j < i
      BY DEF Given
    <3> HIDE DEF G
    <3>2. \A j \in T : <<j, i>> \in G <=> j \in (p + 1)..(i - 1)
      BY <3>1
    <3>3. \A j \in (p + 1)..(i - 1) : j \in T
      OBVIOUS
    <3> QED
      BY <3>2, <3>3
  <2> DEFINE a == p + 1
             b == i - 1
  <2>2. a \in Int /\ b \in Int /\ (IF a > b THEN 0 ELSE b - a + 1) = i - (p + 1)
    OBVIOUS
  <2> HIDE DEF a, b, Below
  <2>3. Cardinality(a..b) = IF a > b THEN 0 ELSE b - a + 1
    BY <2>2, FS_Interval
  <2> QED
    BY <2>1, <2>2, <2>3 DEF a, b
<1>3. ASSUME NEW k \in 1..l PROVE Sorted(T)[k] = p + k
  <2>1. Sorted(T)[k] = CHOOSE i \in T : Cardinality(Below(i)) = k - 1
    BY <1>1 DEF Sorted, InOrder
  <2>2. \A i \in T : Cardinality(Below(i)) = k - 1 <=> i = p + k
    <3> SUFFICES ASSUME NEW i \in T PROVE Cardinality(Below(i)) = k - 1 <=> i = p + k
      OBVIOUS
    <3>1. Cardinality(Below(i)) = i - (p + 1)
      BY <1>2
    <3> HIDE DEF Below
    <3> QED
      BY <3>1
  <2>3. p + k \in T
    OBVIOUS
  <2> HIDE DEF Below, T
  <2> QED
    BY <2>1, <2>2, <2>3
<1> QED
  BY <1>1, <1>3

FromOthers(c, x, s, m, at) == \E i \in 1..m : i # at /\ \E k \in 1..Len(s[i]) : c[x] = s[i][k]
Amid(c, s, m, at, p) ==
    /\ p \in Nat /\ p + Len(s[at]) <= Len(c)
    /\ \A k \in 1..Len(s[at]) : c[p + k] = s[at][k]
    /\ \A x \in 1..Len(c) : x \in (p + 1)..(p + Len(s[at])) \/ FromOthers(c, x, s, m, at)

(* One part more. *)
LEMMA OthersStay ==
    ASSUME NEW S, NEW a \in Seq(S), NEW b \in Seq(S), NEW s, NEW m \in Nat \ {0}, b = s[m], NEW at,
           NEW x \in 1..Len(a \o b),
           IF x \in 1..Len(a) THEN FromOthers(a, x, s, m - 1, at) ELSE m # at
    PROVE  FromOthers(a \o b, x, s, m, at)
<1> DEFINE c == a \o b
<1>1. Joins(c, a, b)
  BY Concat
<1>2. CASE x \in 1..Len(a)
  <2>1. PICK i \in 1..(m - 1) : i # at /\ \E k \in 1..Len(s[i]) : a[x] = s[i][k]
    BY <1>2 DEF FromOthers
  <2>2. i \in 1..m
    OBVIOUS
  <2>3. c[x] = a[x]
    BY <1>1, <1>2 DEF Joins
  <2> QED
    BY <2>1, <2>2, <2>3 DEF FromOthers
<1>3. CASE x \notin 1..Len(a)
  <2>1. PICK k \in 1..Len(b) : x = Len(a) + k
    BY <1>1, <1>3 DEF Joins
  <2>2. c[x] = s[m][k] /\ k \in 1..Len(s[m]) /\ m \in 1..m /\ m # at
    BY <1>1, <1>3, <2>1 DEF Joins
  <2> HIDE DEF c
  <2> QED
    BY <2>2 DEF FromOthers, c
<1> QED
  BY <1>2, <1>3

LEMMA PartComes ==
    ASSUME NEW S, NEW a \in Seq(S), NEW b \in Seq(S), NEW s, NEW m \in Nat \ {0}, b = s[m],
           \A x \in 1..Len(a) : FromOthers(a, x, s, m - 1, m)
    PROVE  Amid(a \o b, s, m, m, Len(a))
<1> DEFINE c == a \o b
           p == Len(a)
<1>1. c \in Seq(S) /\ Joins(c, a, b) /\ Len(c) = p + Len(b) /\ p \in Nat /\ Len(b) \in Nat
  BY Concat DEF Joins
<1>2. \A k \in 1..Len(b) : c[p + k] = b[k]
  BY <1>1 DEF Joins
<1>3. ASSUME NEW x \in 1..Len(c)
      PROVE  x \in (p + 1)..(p + Len(b)) \/ FromOthers(c, x, s, m, m)
  <2>1. CASE x \in 1..p
    BY <2>1, OthersStay
  <2>2. CASE x \notin 1..p
    <3> HIDE DEF c, p
    <3> QED
      BY <1>1, <2>2
  <2> QED
    BY <2>1, <2>2
<1> HIDE DEF c, p
<1>4. p + Len(b) <= Len(c)
  BY <1>1
<1> QED
  BY <1>1, <1>2, <1>3, <1>4 DEF Amid, c, p

LEMMA PartStays ==
    ASSUME NEW S, NEW a \in Seq(S), NEW b \in Seq(S), NEW s, NEW m \in Nat \ {0}, b = s[m],
           NEW at, at # m, Len(s[at]) \in Nat, NEW p, Amid(a, s, m - 1, at, p)
    PROVE  Amid(a \o b, s, m, at, p)
<1> DEFINE c == a \o b
           l == Len(s[at])
<1>1. c \in Seq(S) /\ Joins(c, a, b) /\ Len(c) = Len(a) + Len(b) /\ Len(a) \in Nat /\ Len(b) \in Nat
  <2>1. c \in Seq(S) /\ Joins(c, a, b)
    BY Concat
  <2>2. Len(c) = Len(a) + Len(b)
    BY <2>1 DEF Joins
  <2>3. Len(a) \in Nat /\ Len(b) \in Nat
    OBVIOUS
  <2> HIDE DEF c
  <2> QED
    BY <2>1, <2>2, <2>3
<1>2. /\ p \in Nat /\ p + l <= Len(a)
      /\ \A k \in 1..l : a[p + k] = s[at][k]
      /\ \A x \in 1..Len(a) : x \in (p + 1)..(p + l) \/ FromOthers(a, x, s, m - 1, at)
  BY DEF Amid
<1>3. ASSUME NEW x \in 1..Len(c)
      PROVE  x \in (p + 1)..(p + l) \/ FromOthers(c, x, s, m, at)
  <2>1. CASE x \in (p + 1)..(p + l)
    BY <2>1
  <2>2. CASE x \notin (p + 1)..(p + l)
    <3>1. IF x \in 1..Len(a) THEN FromOthers(a, x, s, m - 1, at) ELSE m # at
      BY <1>2, <2>2
    <3> HIDE DEF l
    <3> QED
      BY <3>1, OthersStay
  <2> QED
    BY <2>1, <2>2
<1>4. \A x \in 1..Len(a) : c[x] = a[x]
  BY <1>1 DEF Joins
<1> HIDE DEF c
<1>5. \A k \in 1..l : c[p + k] = s[at][k]
  <2> SUFFICES ASSUME NEW k \in 1..l PROVE c[p + k] = s[at][k]
    OBVIOUS
  <2>1. p + k \in 1..Len(a)
    BY <1>1, <1>2
  <2> QED
    BY <1>2, <1>4, <2>1
<1>6. p + l <= Len(c)
  BY <1>1, <1>2
<1> QED
  BY <1>2, <1>3, <1>5, <1>6 DEF Amid, c

LEMMA FlattenMiddle ==
    ASSUME NEW S, NEW s \in Seq(Seq(S)), NEW at \in 1..Len(s)
    PROVE  \E p : Amid(FlattenSeq(s), s, Len(s), at, p)
<1> DEFINE n == Len(s)
<1>1. n \in Nat \ {0} /\ (\A i \in 1..n : s[i] \in Seq(S)) /\ at \in 1..n
  OBVIOUS
<1> HIDE DEF n
<1>2. PICK f : Flattens(f, s, n) /\ FlattenSeq(s) = f[n]
  BY <1>1, FlattenSteps DEF n
<1> DEFINE Others(m) == \A x \in 1..Len(f[m]) : FromOthers(f[m], x, s, m, at)
           Found(m) == \E p : Amid(f[m], s, m, at, p)
           Good(m) == f[m] \in Seq(S) /\ (m < at => Others(m)) /\ (m >= at => Found(m))
           T == {m \in 1..n : ~Good(m)}
<1>3. ASSUME NEW m \in 1..n, m # 1 => Good(m - 1) PROVE Good(m)
  <2>1. s[m] \in Seq(S) /\ m \in Nat \ {0} /\ s[at] \in Seq(S) /\ Len(s[at]) \in Nat
    BY <1>1
  <2>2. CASE m = 1
    <3> DEFINE e == <<>>
    <3>1. e \in Seq(S) /\ f[m] = s[m] /\ Len(e) = 0
      BY <1>2, <2>2 DEF Flattens
    <3>2. f[m] = e \o s[m]
      BY <2>1, <3>1
    <3>3. \A x \in 1..Len(e) : FromOthers(e, x, s, m - 1, m)
      BY <3>1
    <3> HIDE DEF e
    <3>4. CASE m = at
      <4>1. Amid(e \o s[m], s, m, m, Len(e))
        BY <2>1, <3>1, <3>3, PartComes
      <4> QED
        BY <2>1, <3>1, <3>2, <3>4, <4>1
    <3>5. CASE m # at
      <4>1. ASSUME NEW x \in 1..Len(f[m]) PROVE FromOthers(f[m], x, s, m, at)
        <5>1. x \notin 1..Len(e) /\ x \in 1..Len(e \o s[m])
          BY <3>1, <3>2
        <5> QED
          BY <2>1, <3>1, <3>2, <3>5, <5>1, OthersStay
      <4>2. m < at
        BY <1>1, <2>2, <3>5
      <4> QED
        BY <2>1, <3>1, <4>1, <4>2
    <3> QED
      BY <3>4, <3>5
  <2>3. CASE m # 1
    <3>1. f[m] = f[m - 1] \o s[m] /\ Good(m - 1) /\ m - 1 \in 1..n
      <4>1. f[m] = f[m - 1] \o s[m]
        BY <1>2, <2>3 DEF Flattens
      <4>2. m - 1 \in 1..n
        BY <1>1, <2>3
      <4> QED
        BY <1>3, <2>3, <4>1, <4>2
    <3>2. f[m - 1] \in Seq(S) /\ f[m] \in Seq(S)
      <4>1. f[m - 1] \in Seq(S)
        BY <3>1
      <4> QED
        BY <2>1, <3>1, <4>1, Concat
    <3> DEFINE a == f[m - 1]
    <3>3. CASE m < at
      <4>1. \A x \in 1..Len(a) : FromOthers(a, x, s, m - 1, at)
        BY <1>1, <3>1, <3>3
      <4> HIDE DEF a
      <4>2. ASSUME NEW x \in 1..Len(f[m]) PROVE FromOthers(f[m], x, s, m, at)
        <5>1. IF x \in 1..Len(a) THEN FromOthers(a, x, s, m - 1, at) ELSE m # at
          BY <1>1, <3>3, <4>1
        <5> QED
          BY <2>1, <3>1, <3>2, <5>1, OthersStay DEF a
      <4> QED
        BY <1>1, <3>2, <3>3, <4>2
    <3>4. CASE m = at
      <4>1. \A x \in 1..Len(a) : FromOthers(a, x, s, m - 1, m)
        BY <1>1, <3>1, <3>4
      <4> HIDE DEF a
      <4>2. Amid(a \o s[m], s, m, m, Len(a))
        BY <2>1, <3>2, <4>1, PartComes DEF a
      <4>3. Amid(f[m], s, m, at, Len(a))
        BY <3>1, <3>4, <4>2 DEF a
      <4>4. Found(m) /\ ~(m < at)
        BY <1>1, <3>4, <4>3
      <4> QED
        BY <3>2, <4>4
    <3>5. CASE m > at
      <4>1. PICK p : Amid(a, s, m - 1, at, p)
        BY <1>1, <3>1, <3>5
      <4> HIDE DEF a
      <4>2. Amid(a \o s[m], s, m, at, p)
        BY <1>1, <2>1, <3>2, <3>5, <4>1, PartStays DEF a
      <4>3. Amid(f[m], s, m, at, p)
        BY <3>1, <4>2 DEF a
      <4>4. Found(m) /\ ~(m < at)
        BY <1>1, <3>5, <4>3
      <4> QED
        BY <3>2, <4>4
    <3> QED
      BY <1>1, <3>3, <3>4, <3>5
  <2> QED
    BY <2>2, <2>3
<1> HIDE DEF Good
<1>4. ASSUME T # {} PROVE FALSE
  <2>1. T \subseteq Nat
    BY <1>1
  <2>2. PICK m \in T : \A y \in T : m <= y
    BY <1>4, <2>1, Least
  <2>3. m \in 1..n /\ ~Good(m)
    OBVIOUS
  <2>4. m # 1 => m - 1 \in 1..n /\ m - 1 \notin T
    BY <1>1, <2>2, <2>3
  <2> QED
    BY <1>3, <2>3, <2>4
<1>5. Good(n)
  <2>1. n \in 1..n
    BY <1>1
  <2> QED
    BY <1>4, <2>1
<1> QED
  BY <1>1, <1>2, <1>5 DEF Good, n

-----------------------------------------------------------------------------
(* The tracks of the output. *)

(* Apart from the place of the first track, nothing of the movie box becomes a track. *)
LEMMA OthersAreNotTracks ==
    ASSUME NEW r, IsRequest(r), NEW kept, NEW order, NEW wide, NEW start, NEW i \in DOMAIN r.inputs[1].moov,
           r.inputs[1].moov[i].kind = "trak" => \E j \in 1..(i - 1) : r.inputs[1].moov[j].kind = "trak",
           NEW k \in 1..Len(Rewritten(r, kept, order, wide, start, i))
    PROVE  Rewritten(r, kept, order, wide, start, i)[k].kind # "trak"
<1> DEFINE moov == r.inputs[1].moov
           child == moov[i]
           x == Rewritten(r, kept, order, wide, start, i)
<1>1. IsBox(child)
  BY FirstInput DEF IsInput
<1>2. CASE child.kind = "mvhd"
  <2> DEFINE new == [child EXCEPT !.words = PatchNextTrack(child.header, @, NextId(r, kept))]
             box == IF Joined(r) THEN new ELSE child
  <2>1. x = <<box>>
    BY <1>2 DEF Rewritten
  <2>2. DOMAIN child = {"kind", "header", "words"}
    BY <1>1, <1>2 DEF IsBox
  <2> HIDE DEF child
  <2>3. new.kind = "mvhd"
    BY <1>2, <2>2
  <2>4. box.kind = "mvhd"
    BY <1>2, <2>3
  <2> HIDE DEF box
  <2>5. Len(<<box>>) = 1 /\ <<box>>[1] = box
    OBVIOUS
  <2>6. Len(x) = 1 /\ x[1] = box /\ k \in 1..Len(x)
    BY <2>1, <2>5
  <2> HIDE DEF x
  <2>7. k = 1
    BY <2>6
  <2>8. x[k].kind = "mvhd"
    BY <2>4, <2>6, <2>7
  <2> QED
    BY <2>8 DEF x
<1>3. CASE child.kind = "trak"
  <2>1. x = <<>>
    BY <1>3 DEF Rewritten
  <2>2. Len(x) = 0 /\ k \in 1..Len(x)
    BY <2>1
  <2> QED
    BY <2>2
<1>4. CASE child.kind \notin {"mvhd", "trak"}
  <2>1. x = <<>> \/ x = <<child>>
    BY <1>4 DEF Rewritten
  <2>2. k \in 1..Len(x)
    OBVIOUS
  <2> DEFINE one == <<child>>
             none == <<>>
  <2>3. Len(none) = 0 /\ Len(one) = 1 /\ one[1] = child
    OBVIOUS
  <2>4. x = none \/ x = one
    BY <2>1
  <2> HIDE DEF x, child, one, none
  <2>5. x = one
    BY <2>2, <2>3, <2>4
  <2>6. k = 1
    <3>1. Len(x) = 1
      BY <2>3, <2>5
    <3> QED
      BY <2>2, <3>1
  <2>7. x[k] = child
    BY <2>3, <2>5, <2>6
  <2> QED
    BY <1>4, <2>7 DEF x
<1> QED
  BY <1>2, <1>3, <1>4

(* The parts the movie box is put together from. *)
Parts(r, kept, order, wide, start) == [i \in DOMAIN r.inputs[1].moov |-> Rewritten(r, kept, order, wide, start, i)]

LEMMA PartsAre ==
    ASSUME NEW r, IsRequest(r), NEW kept, AllHold(kept), NEW order, IsFiniteSet(DOMAIN order), NEW wide \in BOOLEAN,
           NEW start
    PROVE  LET s == Parts(r, kept, order, wide, start)
           IN /\ Len(s) = Len(r.inputs[1].moov) /\ Len(s) \in Nat /\ DOMAIN r.inputs[1].moov = 1..Len(s)
              /\ \E S : s \in Seq(Seq(S))
              /\ \A i \in 1..Len(s) : s[i] = Rewritten(r, kept, order, wide, start, i)
<1> DEFINE moov == r.inputs[1].moov
           m == Len(moov)
           s == Parts(r, kept, order, wide, start)
           S == UNION {{s[i][k] : k \in 1..Len(s[i])} : i \in 1..m}
<1>1. m \in Nat /\ DOMAIN moov = 1..m
  <2>1. IsSequence(moov)
    BY FirstInput DEF IsInput
  <2> QED
    BY <2>1, SequencePlaces
<1>2. \A i \in 1..m : s[i] = Rewritten(r, kept, order, wide, start, i)
  BY <1>1 DEF Parts
<1>3. s = [i \in 1..m |-> s[i]]
  BY <1>1 DEF Parts
<1>4. ASSUME NEW i \in 1..m PROVE s[i] \in Seq(S)
  <2> DEFINE n == Len(s[i])
  <2>1. n \in Nat /\ s[i] = [k \in 1..n |-> s[i][k]]
    <3>1. Alike(Rewritten(r, kept, order, wide, start, i), Rewritten(r, kept, order, wide, start, i))
      BY <1>1, RewrittenAlike
    <3> QED
      BY <1>2, <3>1 DEF Alike
  <2>2. \A k \in 1..n : s[i][k] \in S
    OBVIOUS
  <2> HIDE DEF S, n
  <2> QED
    BY <2>1, <2>2, AllOf
<1> HIDE DEF S, s, m
<1>5. s \in Seq(Seq(S)) /\ Len(s) = m
  BY <1>1, <1>3, <1>4, AllOf
<1> QED
  BY <1>1, <1>2, <1>5 DEF s, m

LEMMA TracksLaidOut ==
    ASSUME NEW r, IsRequest(r), FirstHasTracks(r), NEW kept, AllHold(kept), NEW order, IsFiniteSet(DOMAIN order),
           NEW wide \in BOOLEAN, NEW start
    PROVE  LET traks == Traks(MovieBox(r, kept, order, wide, start))
           IN /\ Len(traks) = Len(kept) /\ DOMAIN traks = 1..Len(kept)
              /\ \A n \in 1..Len(kept) : traks[n] = TrackBox(r, kept, n, ChunkOffsets(order, n, start), wide)
<1> DEFINE moov == r.inputs[1].moov
           s == Parts(r, kept, order, wide, start)
           out == MovieBox(r, kept, order, wide, start)
           w == TracksWritten(r, kept, order, wide, start)
           l == Len(kept)
<1>0. IsSequence(moov) /\ l \in Nat /\ DOMAIN kept = 1..l
  BY FirstInput DEF IsInput, AllHold
<1>1. PICK S : /\ Len(s) = Len(moov) /\ Len(s) \in Nat /\ DOMAIN moov = 1..Len(s) /\ s \in Seq(Seq(S))
               /\ \A i \in 1..Len(s) : s[i] = Rewritten(r, kept, order, wide, start, i)
  <2> HIDE DEF s, moov
  <2> QED
    BY PartsAre DEF s, moov
<1>2. PICK at \in TrakPlaces(moov) : \A j \in TrakPlaces(moov) : at <= j
  <2>1. TrakPlaces(moov) # {}
    <3>1. DOMAIN Traks(moov) = 1..Cardinality(TrakPlaces(moov))
      BY <1>0, TraksFound
    <3>2. CASE TrakPlaces(moov) = {}
      <4>1. Cardinality(TrakPlaces(moov)) = 0
        BY <3>2, FS_EmptySet
      <4>2. Traks(moov) = [k \in 1..0 |-> moov[Sorted(TrakPlaces(moov))[k]]]
        BY <4>1 DEF Traks, At, TrakPlaces
      <4>3. Traks(moov) = <<>>
        BY <4>2
      <4> QED
        BY <4>3 DEF FirstHasTracks
    <3> QED
      BY <3>2
  <2>2. TrakPlaces(moov) \subseteq Nat
    BY <1>1 DEF TrakPlaces
  <2> QED
    BY <2>1, <2>2, Least
<1>3. at \in 1..Len(s) /\ moov[at].kind = "trak" /\ ~\E j \in 1..(at - 1) : moov[j].kind = "trak"
  <2>1. at \in 1..Len(s) /\ moov[at].kind = "trak"
    BY <1>1, <1>2 DEF TrakPlaces
  <2>2. ASSUME NEW j \in 1..(at - 1), moov[j].kind = "trak" PROVE FALSE
    <3>1. j \in DOMAIN moov
      BY <1>1, <2>1
    <3>2. j \in TrakPlaces(moov)
      BY <2>2, <3>1 DEF TrakPlaces
    <3>3. at <= j
      BY <1>2, <3>2
    <3> QED
      BY <1>1, <2>1, <3>3
  <2> QED
    BY <2>1, <2>2
<1>4. s[at] = w
  BY <1>1, <1>3 DEF Rewritten
<1>5. Len(w) = l /\ \A k \in 1..l : /\ w[k] = TrackBox(r, kept, k, ChunkOffsets(order, k, start), wide)
                                    /\ w[k].kind = "trak"
  <2>1. w = [n \in 1..l |-> w[n]] /\ \A k \in 1..l : w[k] = TrackBox(r, kept, k, ChunkOffsets(order, k, start), wide)
    BY <1>0 DEF TracksWritten
  <2>2. ASSUME NEW k \in 1..l PROVE TrackBox(r, kept, k, ChunkOffsets(order, k, start), wide).kind = "trak"
    <3>1. SlotHolds(kept[k])
      BY DEF AllHold
    <3>2. IsTrak(kept[k].trak) /\ TrackError(kept[k].trak) = "none" /\ kept[k].trak.kind = "trak"
      BY <3>1 DEF SlotHolds
    <3> DEFINE offsets == ChunkOffsets(order, k, start)
    <3> HIDE DEF offsets
    <3>3. TrackBoxIs(TrackBox(r, kept, k, offsets, wide), r, kept, k, offsets, wide)
      BY <3>2, TrackBoxFields
    <3>4. TrackBox(r, kept, k, offsets, wide).kind = "trak"
      BY <3>2, <3>3 DEF TrackBoxIs
    <3> QED
      BY <3>4 DEF offsets
  <2> HIDE DEF w
  <2>3. Len(w) = l
    BY <1>0, <2>1
  <2> QED
    BY <2>1, <2>2, <2>3
<1>6. out = FlattenSeq(s)
  BY MovieBoxIs DEF Parts
<1> HIDE DEF s, out, w, moov, l
<1>7. PICK p : Amid(out, s, Len(s), at, p)
  BY <1>1, <1>3, <1>6, FlattenMiddle
<1>8. out \in Seq(S)
  <2>1. SameShape(s, s)
    BY DEF SameShape
  <2> QED
    BY <1>1, <1>6, <2>1, FlattenTogether
<1>9. DOMAIN out = 1..Len(out) /\ Len(out) \in Nat
  BY <1>8
<1>10. /\ p \in Nat /\ p + l <= Len(out)
       /\ \A k \in 1..l : out[p + k] = w[k]
       /\ \A x \in 1..Len(out) : x \in (p + 1)..(p + l) \/ FromOthers(out, x, s, Len(s), at)
  BY <1>4, <1>5, <1>7 DEF Amid
<1>11. ASSUME NEW x \in 1..Len(out), FromOthers(out, x, s, Len(s), at) PROVE out[x].kind # "trak"
  <2>1. PICK i \in 1..Len(s) : i # at /\ \E k \in 1..Len(s[i]) : out[x] = s[i][k]
    BY <1>11 DEF FromOthers
  <2>2. PICK k \in 1..Len(s[i]) : out[x] = s[i][k]
    BY <2>1
  <2>3. s[i] = Rewritten(r, kept, order, wide, start, i) /\ i \in DOMAIN moov
    BY <1>1
  <2>4. ASSUME moov[i].kind = "trak" PROVE \E j \in 1..(i - 1) : moov[j].kind = "trak"
    <3>1. i \in TrakPlaces(moov)
      BY <2>3, <2>4 DEF TrakPlaces
    <3>2. at <= i /\ i # at
      BY <1>2, <2>1, <3>1
    <3>3. at \in 1..(i - 1)
      BY <1>1, <1>3, <3>2
    <3> QED
      BY <1>3, <3>3
  <2>5. Rewritten(r, kept, order, wide, start, i)[k].kind # "trak"
    BY <2>2, <2>3, <2>4, OthersAreNotTracks DEF moov
  <2> QED
    BY <2>2, <2>3, <2>5
<1>12. TrakPlaces(out) = (p + 1)..(p + l)
  <2>1. ASSUME NEW x \in (p + 1)..(p + l) PROVE x \in 1..Len(out) /\ out[x].kind = "trak"
    <3>1. x - p \in 1..l /\ x = p + (x - p) /\ x \in 1..Len(out)
      BY <1>0, <1>9, <1>10
    <3>2. out[x] = w[x - p]
      BY <1>10, <3>1
    <3> QED
      BY <1>5, <3>1, <3>2
  <2>2. ASSUME NEW x \in 1..Len(out), out[x].kind = "trak" PROVE x \in (p + 1)..(p + l)
    BY <1>10, <1>11, <2>2
  <2> QED
    BY <1>9, <2>1, <2>2 DEF TrakPlaces
<1> DEFINE T == (p + 1)..(p + l)
<1>13. Cardinality(T) = l /\ \A k \in 1..l : Sorted(T)[k] = p + k
  BY <1>0, <1>10, SortedRun
<1>14. Traks(out) = [k \in 1..l |-> out[Sorted(T)[k]]]
  <2>1. Traks(out) = At(out, T)
    BY <1>12 DEF Traks, TrakPlaces
  <2> HIDE DEF T
  <2> QED
    BY <1>13, <2>1 DEF At
<1>15. \A k \in 1..l : Traks(out)[k] = w[k]
  <2> HIDE DEF T
  <2> QED
    BY <1>10, <1>13, <1>14
<1>16. Len(Traks(out)) = l /\ DOMAIN Traks(out) = 1..l
  <2> HIDE DEF T
  <2> QED
    BY <1>0, <1>14
<1> QED
  BY <1>5, <1>15, <1>16 DEF out, l

-----------------------------------------------------------------------------
(* A table whose chunks were moved. *)

SameBut(u, t) ==
    /\ u.timeToSample = t.timeToSample /\ u.sampleToChunk = t.sampleToChunk /\ u.sizes = t.sizes
    /\ u.sync = t.sync /\ u.composition = t.composition
AsMany(u, t) ==
    \/ ChunkCount(u) = ChunkCount(t)
    \/ t.sampleToChunk = <<>> /\ SampleCount(t) = 0

LEMMA SameRuns ==
    ASSUME NEW t, IsTable(t), NEW u, SameBut(u, t), AsMany(u, t)
    PROVE  /\ DOMAIN u.sampleToChunk = DOMAIN t.sampleToChunk
           /\ \A i \in DOMAIN t.sampleToChunk : /\ NextFirst(u, i) = NextFirst(t, i)
                                                /\ u.sampleToChunk[i] = t.sampleToChunk[i]
                                                /\ ChunkCount(u) = ChunkCount(t)
<1>1. DOMAIN u.sampleToChunk = DOMAIN t.sampleToChunk
      /\ \A i \in DOMAIN t.sampleToChunk : u.sampleToChunk[i] = t.sampleToChunk[i]
  BY DEF SameBut
<1>2. ASSUME NEW i \in DOMAIN t.sampleToChunk PROVE NextFirst(u, i) = NextFirst(t, i) /\ ChunkCount(u) = ChunkCount(t)
  <2>1. t.sampleToChunk # <<>>
    OBVIOUS
  <2>2. ChunkCount(u) = ChunkCount(t)
    BY <2>1 DEF AsMany
  <2> QED
    BY <2>2 DEF SameBut, NextFirst
<1> QED
  BY <1>1, <1>2

LEMMA SameChunks ==
    ASSUME NEW t, IsTable(t), NEW u, SameBut(u, t), AsMany(u, t)
    PROVE  ChunkOfEach(u) = ChunkOfEach(t) /\ SamplesInChunks(u) = SamplesInChunks(t)
<1> DEFINE D == DOMAIN t.sampleToChunk
           w(v) == [i \in DOMAIN v.sampleToChunk |->
                      (NextFirst(v, i) - v.sampleToChunk[i][1]) * v.sampleToChunk[i][2]]
           p(v) == [i \in DOMAIN v.sampleToChunk |-> FlattenSeq(ChunksOfRun(v, i))]
<1>1. DOMAIN u.sampleToChunk = D /\ \A i \in D : NextFirst(u, i) = NextFirst(t, i) /\ u.sampleToChunk[i] = t.sampleToChunk[i]
  BY SameRuns
<1>2. w(u) = w(t)
  BY <1>1
<1>3. p(u) = p(t)
  <2>1. \A i \in D : ChunksOfRun(u, i) = ChunksOfRun(t, i)
    BY <1>1 DEF ChunksOfRun
  <2> QED
    BY <1>1, <2>1
<1>4. SamplesInChunks(u) = SumFunction(w(u)) /\ SamplesInChunks(t) = SumFunction(w(t))
  BY DEF SamplesInChunks
<1>5. ChunkOfEach(u) = FlattenSeq(p(u)) /\ ChunkOfEach(t) = FlattenSeq(p(t))
  BY DEF ChunkOfEach, ChunksOfRun
<1> HIDE DEF w, p
<1> QED
  BY <1>2, <1>3, <1>4, <1>5

LEMMA StillConsistent ==
    ASSUME NEW t, IsTable(t), Consistent(t), NEW u, SameBut(u, t), AsMany(u, t), u.chunkOffsets \in Seq(Nat)
    PROVE  IsTable(u) /\ Consistent(u) /\ SampleCount(u) = SampleCount(t)
<1>1. IsTable(u)
  BY DEF IsTable, SameBut
<1>2. SampleCount(u) = SampleCount(t)
  BY DEF SameBut, SampleCount
<1>3. TimesCoverAll(u)
  BY <1>2 DEF Consistent, TimesCoverAll, SameBut
<1>4. ChunkRunsAscend(u)
  <2> DEFINE D == DOMAIN t.sampleToChunk
  <2>1. /\ DOMAIN u.sampleToChunk = D
        /\ \A i \in D : ChunkCount(u) = ChunkCount(t)
    BY SameRuns
  <2>2. u.sampleToChunk = t.sampleToChunk
    BY DEF SameBut
  <2>3. ChunkRunsAscend(t)
    BY DEF Consistent
  <2> QED
    BY <2>1, <2>2, <2>3 DEF ChunkRunsAscend
<1>5. ChunksExist(u)
  <2> SUFFICES ASSUME SampleCount(u) > 0 PROVE u.sampleToChunk # <<>> /\ u.chunkOffsets # <<>>
    BY DEF ChunksExist
  <2>1. t.sampleToChunk # <<>> /\ t.chunkOffsets # <<>>
    BY <1>2 DEF Consistent, ChunksExist
  <2>2. Len(u.chunkOffsets) = Len(t.chunkOffsets)
    BY <2>1 DEF AsMany, ChunkCount
  <2>3. t.chunkOffsets \in Seq(Nat)
    BY DEF IsTable
  <2>4. Len(t.chunkOffsets) # 0
    BY <2>1, <2>3
  <2> QED
    BY <2>1, <2>2, <2>4 DEF SameBut
<1>6. ChunksPlaceAll(u)
  BY <1>2, SameChunks DEF Consistent, ChunksPlaceAll
<1>7. SyncAscends(u) /\ CompositionCoversAll(u)
  BY <1>2 DEF Consistent, SyncAscends, CompositionCoversAll, SameBut
<1> QED
  BY <1>1, <1>2, <1>3, <1>4, <1>5, <1>6, <1>7 DEF Consistent

(* Its samples are the same ones, elsewhere. *)
LEMMA SamplesStay ==
    ASSUME NEW t, IsTable(t), Consistent(t), NEW u, IsTable(u), Consistent(u), SameBut(u, t), AsMany(u, t)
    PROVE  /\ Len(Samples(u)) = SampleCount(t) /\ Len(Samples(t)) = SampleCount(t) /\ SampleCount(t) \in Nat
           /\ DOMAIN Samples(u) = 1..SampleCount(t) /\ DOMAIN Samples(t) = 1..SampleCount(t)
           /\ \A i \in 1..SampleCount(t) : SameSample(Samples(u)[i], Samples(t)[i])
<1> DEFINE n == SampleCount(t)
           a == Samples(u)
           b == Samples(t)
           d == Expanded(t.timeToSample)
<1>1. n \in Nat /\ Len(ChunkOfEach(t)) = n /\ ChunkOfEach(u) = ChunkOfEach(t) /\ Expanded(u.timeToSample) = d
  BY TableLengths, SameChunks DEF SameBut
<1>2. PICK offset, time : /\ OffsetsAre(offset, t) /\ TimesAre(time, t)
                          /\ b = [i \in 1..n |-> SampleOf(t, offset, time, i)]
  BY <1>1, SamplesAre
<1>3. PICK place, moment : /\ OffsetsAre(place, u) /\ TimesAre(moment, u)
                           /\ a = [i \in 1..n |-> SampleOf(u, place, moment, i)]
  BY <1>1, SamplesAre
<1>4. \A i \in 1..n : time[i] = IF i = 1 THEN 0 ELSE time[i - 1] + OrZero(d, i - 1)
  BY <1>1, <1>2 DEF TimesAre
<1>5. \A i \in 1..n : moment[i] = IF i = 1 THEN 0 ELSE moment[i - 1] + OrZero(d, i - 1)
  BY <1>1, <1>3 DEF TimesAre
<1> HIDE DEF n, a, b, d
<1>6. \A i \in 1..n : moment[i] = time[i]
  <2> DEFINE T == {i \in 1..n : moment[i] # time[i]}
  <2>1. T \subseteq Nat
    BY <1>1
  <2>2. ASSUME T # {} PROVE FALSE
    <3>1. PICK i \in T : \A y \in T : i <= y
      BY <2>1, <2>2, Least
    <3>2. i \in 1..n /\ moment[i] # time[i]
      OBVIOUS
    <3>3. i # 1
      BY <1>4, <1>5, <3>2
    <3>4. i - 1 \in 1..n /\ i - 1 \notin T
      BY <1>1, <3>1, <3>2, <3>3
    <3>5. moment[i - 1] = time[i - 1]
      BY <3>4
    <3> QED
      BY <1>4, <1>5, <3>2, <3>3, <3>5
  <2> QED
    BY <2>2
<1>7. ASSUME NEW i \in 1..n PROVE SameSample(a[i], b[i])
  <2>1. a[i] = SampleOf(u, place, moment, i) /\ b[i] = SampleOf(t, offset, time, i)
    BY <1>2, <1>3
  <2>2. moment[i] = time[i]
    BY <1>6
  <2> DEFINE x == SampleOf(u, place, moment, i)
             y == SampleOf(t, offset, time, i)
  <2>3. x.size = y.size /\ x.composition = y.composition /\ x.sync = y.sync
    BY DEF SampleOf, SameBut
  <2>4. x.time = y.time /\ x.duration = y.duration /\ x.chunk = y.chunk
    BY <1>1, <2>2 DEF SampleOf, d
  <2> HIDE DEF x, y
  <2>5. \A field \in {"size", "time", "duration", "composition", "sync", "chunk"} : x[field] = y[field]
    BY <2>3, <2>4
  <2>6. SameSample(x, y)
    BY <2>5 DEF SameSample
  <2> QED
    BY <2>1, <2>6 DEF x, y
<1>8. Len(a) = n /\ Len(b) = n /\ DOMAIN a = 1..n /\ DOMAIN b = 1..n
  BY <1>1, <1>2, <1>3
<1> QED
  BY <1>1, <1>7, <1>8 DEF n, a, b

-----------------------------------------------------------------------------
(* The tables of a rewritten track. *)

LEMMA TablesStillRead ==
    ASSUME NEW stbl, IsStbl(stbl), TableError(stbl) = "none",
           NEW new, NEW m \in Nat, NEW offsets, NEW wide \in BOOLEAN, IsMoved(new, stbl, m, offsets, wide)
    PROVE  /\ ~Missing(new) /\ ~Truncated(new) /\ ~CttsUnknown(new)
           /\ SameBut(Decoded(new), Decoded(stbl))
           /\ Decoded(new).chunkOffsets = new[TableKind(wide)].entries
<1> DEFINE table == TableKind(wide)
           Rest == DOMAIN stbl \ {"stco", "co64"}
<1>0. table \in {"stco", "co64"}
  BY DEF TableKind
<1>1. /\ DOMAIN new = Rest \cup {table} /\ \A kind \in Rest : new[kind] = stbl[kind]
      /\ OffsetBox(new) = table /\ Entries(new[table]) = new[table].entries /\ ~Short(new[table])
  BY DEF IsMoved
<1>2. ~Missing(stbl) /\ ~Truncated(stbl) /\ ~CttsUnknown(stbl)
  BY DecodedTable
<1> HIDE DEF table
<1>3. /\ "stts" \in Rest /\ "stsc" \in Rest /\ SizeBox(stbl) \in Rest
      /\ ("stss" \in DOMAIN new <=> "stss" \in DOMAIN stbl) /\ ("ctts" \in DOMAIN new <=> "ctts" \in DOMAIN stbl)
      /\ ("stss" \in DOMAIN stbl => "stss" \in Rest) /\ ("ctts" \in DOMAIN stbl => "ctts" \in Rest)
  BY <1>0, <1>1, <1>2 DEF Missing, SizeBox
<1>4. SizeBox(new) = SizeBox(stbl)
  BY <1>0, <1>1 DEF SizeBox
<1>5. /\ new["stts"] = stbl["stts"] /\ new["stsc"] = stbl["stsc"] /\ new[SizeBox(stbl)] = stbl[SizeBox(stbl)]
      /\ ("stss" \in DOMAIN stbl => new["stss"] = stbl["stss"])
      /\ ("ctts" \in DOMAIN stbl => new["ctts"] = stbl["ctts"])
  BY <1>1, <1>3
<1> HIDE DEF Rest
<1>6. ~Missing(new)
  BY <1>1, <1>3, <1>4 DEF Missing
<1>7. SizesRefused(new) <=> SizesRefused(stbl)
  BY <1>4, <1>5 DEF SizesRefused
<1>8. ~Truncated(new)
  <2>1. ~Short(stbl["stts"]) /\ ~Short(stbl["stsc"]) /\ ~SizesRefused(stbl)
        /\ ("stss" \in DOMAIN stbl => ~Short(stbl["stss"])) /\ ("ctts" \in DOMAIN stbl => ~Short(stbl["ctts"]))
    BY <1>2 DEF Truncated, Optional
  <2>2. ~Short(new["stts"]) /\ ~Short(new["stsc"]) /\ ~Short(new[OffsetBox(new)])
    BY <1>1, <1>5, <2>1
  <2>3. ("stss" \in DOMAIN new => ~Short(new["stss"])) /\ ("ctts" \in DOMAIN new => ~Short(new["ctts"]))
    BY <1>3, <1>5, <2>1
  <2> QED
    BY <1>7, <2>1, <2>2, <2>3 DEF Truncated, Optional
<1>9. ~CttsUnknown(new)
  BY <1>2, <1>3, <1>5 DEF CttsUnknown, Optional
<1>10. SizesOf(new) = SizesOf(stbl)
  BY <1>4, <1>5 DEF SizesOf
<1>11. SameBut(Decoded(new), Decoded(stbl))
  BY <1>3, <1>5, <1>10 DEF SameBut, Decoded, Optional
<1>12. Decoded(new).chunkOffsets = new[table].entries
  BY <1>1 DEF Decoded
<1> QED
  BY <1>6, <1>8, <1>9, <1>11, <1>12 DEF table

(* An identifier is patched in the second word or later: lengths and versions stay. *)
LEMMA HeadersStillRead ==
    ASSUME NEW r, NEW kept, NEW n, IsTrak(kept[n].trak), TrackError(kept[n].trak) = "none", NEW offsets, NEW wide
    PROVE  HeadersRead(TrackBox(r, kept, n, offsets, wide).headers)
<1> DEFINE trak == kept[n].trak
           box == TrackBox(r, kept, n, offsets, wide)
           old == trak.headers["tkhd"]
           new == box.headers["tkhd"]
<1>1. TrackBoxIs(box, r, kept, n, offsets, wide)
  BY TrackBoxFields
<1>2. HeadersRead(trak.headers)
  BY TrackReads
<1>3. /\ DOMAIN box.headers = DOMAIN trak.headers
      /\ \A kind \in DOMAIN trak.headers : kind # "tkhd" => box.headers[kind] = trak.headers[kind]
      /\ new = IF Joined(r) THEN PatchTrack(trak.tkhdHeader, old, IdOf(r, kept, n)) ELSE old
  BY <1>1 DEF TrackBoxIs
<1>4. "tkhd" \in DOMAIN trak.headers /\ old \in Seq(Nat) /\ trak.tkhdHeader \in {8, 16}
  BY <1>2 DEF HeadersRead, IsTrak
<1>5. new # <<>> /\ Len(new) = Len(old) /\ new[1] = old[1]
  <2>1. old # <<>> /\ Len(old) \in Nat \ {0}
    BY <1>2, <1>4 DEF HeadersRead, Reads
  <2>2. CASE ~Joined(r)
    BY <1>3, <2>1, <2>2
  <2>3. CASE Joined(r)
    <3> DEFINE header == trak.tkhdHeader
               value == IdOf(r, kept, n)
               at == PatchAt(header, old, 20, 28)
    <3>1. new = PatchTrack(header, old, value)
      BY <1>3, <2>3
    <3> HIDE DEF new, old, header, value
    <3>2. header \in {8, 16} /\ old \in Seq(Nat)
      BY <1>4 DEF header
    <3>3. IsPatched(new, old, at, value)
      BY <3>1, <3>2, PatchTrackWords
    <3>4. at # 1
      BY <3>2 DEF PatchAt, Word
    <3>5. Len(new) = Len(old) /\ DOMAIN new = 1..Len(old) /\ \A i \in 1..Len(old) : new[i] = IF i = at THEN value ELSE old[i]
      BY <3>3 DEF IsPatched
    <3> HIDE DEF at
    <3>6. 1 \in 1..Len(old)
      BY <2>1
    <3>7. new # <<>>
      BY <3>5, <3>6
    <3> QED
      BY <3>4, <3>5, <3>6, <3>7
  <2> QED
    BY <2>2, <2>3
<1> HIDE DEF new, old, box, trak
<1>6. Reads(new, Tkhd)
  <2>1. Reads(old, Tkhd)
    BY <1>2 DEF HeadersRead, old
  <2> QED
    BY <1>5, <2>1 DEF Reads, VersionOf, Holds
<1> QED
  BY <1>2, <1>3, <1>6 DEF HeadersRead, new, box

-----------------------------------------------------------------------------
(* Where in its chunk a sample is. *)

LEMMA SumLast ==
    ASSUME NEW g, NEW f \in Nat, NEW k \in Nat, f <= k, \A x \in f..k : g[x] \in Nat
    PROVE  /\ Sum(g, f..k) = Sum(g, f..(k - 1)) + g[k]
           /\ Sum(g, f..k) \in Nat /\ Sum(g, f..(k - 1)) \in Nat /\ g[k] \in Nat
<1> DEFINE S == f..k
<1>1. IsFiniteSet(S) /\ k \in S
  <2>1. IsFiniteSet(f..k)
    BY FS_Interval
  <2> QED
    BY <2>1
<1>2. S \ {k} = f..(k - 1)
  OBVIOUS
<1>3. \A x \in S : g[x] \in Nat
  OBVIOUS
<1> HIDE DEF S
<1>4. /\ Sum(g, S) = g[k] + Sum(g, S \ {k}) /\ Sum(g, S) \in Nat /\ Sum(g, S \ {k}) \in Nat /\ g[k] \in Nat
  BY <1>1, <1>3, SumTake
<1> DEFINE a == Sum(g, S)
           b == Sum(g, S \ {k})
<1>5. a = b + g[k]
  <2> HIDE DEF a, b
  <2>1. a = g[k] + b /\ a \in Nat /\ b \in Nat /\ g[k] \in Nat
    BY <1>4 DEF a, b
  <2> QED
    BY <2>1
<1> QED
  BY <1>2, <1>4, <1>5 DEF S

LEMMA SumEmpty == ASSUME NEW g, NEW f \in Nat PROVE Sum(g, f..(f - 1)) = 0
<1>1. f..(f - 1) = {}
  OBVIOUS
<1>2. Sum(g, {}) = 0
  <2>1. IsFiniteSet({})
    BY FS_EmptySet
  <2> QED
    BY <2>1, SumChosen
<1> QED
  BY <1>1, <1>2

(* Samples stored back to back from the first of a chunk. *)
BackToBack(s, f, j) == \A i \in (f + 1)..j : s[i].offset = s[i - 1].offset + s[i - 1].size

LEMMA OffsetInChunk ==
    ASSUME NEW s, NEW f \in Nat, NEW j \in Nat, BackToBack(s, f, j), NEW g,
           s[f].offset \in Nat, \A i \in f..j : g[i] \in Nat /\ g[i] = s[i].size, NEW i \in f..j
    PROVE  s[i].offset = s[f].offset + Sum(g, f..(i - 1)) /\ Sum(g, f..(i - 1)) \in Nat
<1> DEFINE Good(x) == s[x].offset = s[f].offset + Sum(g, f..(x - 1)) /\ Sum(g, f..(x - 1)) \in Nat
           T == {x \in f..j : ~Good(x)}
<1>1. T \subseteq Nat
  OBVIOUS
<1>2. Good(f)
  <2>1. Sum(g, f..(f - 1)) = 0
    BY SumEmpty
  <2> QED
    BY <2>1
<1>3. ASSUME NEW x \in (f + 1)..j, Good(x - 1) PROVE Good(x)
  <2> DEFINE k == x - 1
  <2>0. k \in Nat /\ f <= k /\ k \in f..j /\ x = k + 1 /\ \A y \in f..k : y \in f..j
    OBVIOUS
  <2>1. s[x].offset = s[k].offset + s[k].size
    BY DEF BackToBack
  <2>2. s[k].offset = s[f].offset + Sum(g, f..(k - 1)) /\ Sum(g, f..(k - 1)) \in Nat
    BY <1>3
  <2> HIDE DEF k
  <2>3. \A y \in f..k : g[y] \in Nat
    BY <2>0
  <2>4. Sum(g, f..k) = Sum(g, f..(k - 1)) + g[k] /\ Sum(g, f..k) \in Nat
    BY <2>0, <2>3, SumLast
  <2>5. g[k] \in Nat /\ g[k] = s[k].size
    BY <2>0
  <2> DEFINE a == Sum(g, f..k)
             b == Sum(g, f..(k - 1))
             o == s[f].offset
  <2>6. s[x].offset = o + a
    <3>1. s[x].offset = (o + b) + g[k] /\ a = b + g[k] /\ o \in Nat /\ b \in Nat /\ g[k] \in Nat
      BY <2>1, <2>2, <2>4, <2>5
    <3> HIDE DEF a, b, o
    <3> QED
      BY <3>1
  <2>7. k = x - 1
    BY DEF k
  <2> QED
    BY <2>4, <2>6, <2>7
<1> HIDE DEF Good
<1>4. ASSUME T # {} PROVE FALSE
  <2>1. PICK x \in T : \A y \in T : x <= y
    BY <1>1, <1>4, Least
  <2>2. x \in f..j /\ ~Good(x)
    OBVIOUS
  <2>3. x # f
    BY <1>2, <2>2
  <2>4. x \in (f + 1)..j /\ x - 1 \in f..j /\ x - 1 \notin T
    BY <2>1, <2>2, <2>3
  <2>5. Good(x - 1)
    BY <2>4
  <2> QED
    BY <1>3, <2>2, <2>4, <2>5
<1>5. Good(i)
  BY <1>4
<1> QED
  BY <1>5 DEF Good

-----------------------------------------------------------------------------
(* The chunks of a track are numbered in the order they begin. *)

LEMMA SameNumber ==
    ASSUME NEW A, NEW B, IsFiniteSet(A), NEW f, \A a \in A : f[a] \in B,
           \A a, b \in A : f[a] = f[b] => a = b, \A b \in B : \E a \in A : f[a] = b
    PROVE  IsFiniteSet(B) /\ Cardinality(A) = Cardinality(B)
<1> DEFINE h == [a \in A |-> f[a]]
<1>1. h \in [A -> B] /\ (\A a, b \in A : h[a] = h[b] => a = b) /\ \A b \in B : \E a \in A : h[a] = b
  OBVIOUS
<1> HIDE DEF h
<1>2. h \in Bijection(A, B)
  BY <1>1, Fun_IsBij
<1>3. ExistsBijection(A, B)
  BY <1>2, Fun_ExistsBij
<1> QED
  BY <1>3, FS_Bijection

LEMMA FirstsApart ==
    ASSUME NEW s, Climbs(s), NEW f \in Firsts(s), NEW g \in Firsts(s), s[f].chunk = s[g].chunk
    PROVE  f = g
<1>1. ASSUME NEW x \in Firsts(s), NEW y \in Firsts(s), x < y, s[x].chunk = s[y].chunk PROVE FALSE
  <2>1. /\ Len(s) \in Nat /\ x \in 1..Len(s) /\ y \in 1..Len(s) /\ (y = 1 \/ s[y - 1].chunk # s[y].chunk)
    BY DEF Climbs, Firsts, IsFirst
  <2>2. y # 1 /\ y - 1 \in 1..Len(s) /\ x \in 1..(y - 1) /\ y - 1 \in 1..y
    BY <1>1, <2>1
  <2>3. s[x].chunk <= s[y - 1].chunk
    BY <2>2, ChunksClimb
  <2>4. s[y - 1].chunk <= s[y].chunk
    BY <2>1, <2>2, ChunksClimb
  <2>5. s[x].chunk \in Nat /\ s[y - 1].chunk \in Nat /\ s[y].chunk \in Nat
    BY <2>1, <2>2 DEF Climbs
  <2> QED
    BY <1>1, <2>1, <2>2, <2>3, <2>4, <2>5
<1>2. f \in Nat /\ g \in Nat
  BY DEF Climbs, Firsts, IsFirst
<1>3. f < g \/ g < f \/ f = g
  BY <1>2
<1> QED
  BY <1>1, <1>3

(* From one, without a gap. *)
Numbered(s, m) ==
    /\ Climbs(s) /\ m \in Nat
    /\ \A i \in 1..Len(s) : s[i].chunk \in 1..m
    /\ \A c \in 1..m : \E i \in 1..Len(s) : s[i].chunk = c

LEMMA FirstsNumbered ==
    ASSUME NEW s, NEW m, Numbered(s, m)
    PROVE  /\ Cardinality(Firsts(s)) = m
           /\ \A f \in Firsts(s) : /\ s[f].chunk \in 1..m
                                   /\ Cardinality({g \in Firsts(s) : g < f}) = s[f].chunk - 1
<1> DEFINE F == Firsts(s)
           c == [g \in F |-> s[g].chunk]
<1>1. Climbs(s) /\ m \in Nat /\ Len(s) \in Nat /\ F \subseteq 1..Len(s)
  BY DEF Numbered, Climbs, Firsts
<1>2. IsFiniteSet(F)
  <2>1. IsFiniteSet(1..Len(s))
    BY <1>1, Numbers
  <2> HIDE DEF F
  <2> QED
    BY <1>1, <2>1, FS_Subset
<1>3. \A g \in F : c[g] = s[g].chunk /\ c[g] \in 1..m
  BY <1>1 DEF Numbered
<1>4. \A g, h \in F : c[g] = c[h] => g = h
  BY <1>1, <1>3, FirstsApart
<1>5. ASSUME NEW d \in 1..m PROVE \E g \in F : c[g] = d
  <2>1. PICK i \in 1..Len(s) : s[i].chunk = d
    BY DEF Numbered
  <2>2. PICK g \in 1..i : IsFirst(s, g) /\ s[g].chunk = s[i].chunk
    BY <1>1, ChunkBegins
  <2>3. g \in F
    BY <2>2 DEF Firsts, IsFirst
  <2> QED
    BY <1>3, <2>1, <2>2, <2>3
<1>6. \A g, h \in F : g < h => c[g] < c[h]
  <2> SUFFICES ASSUME NEW g \in F, NEW h \in F, g < h PROVE c[g] < c[h]
    OBVIOUS
  <2>1. g \in 1..Len(s) /\ h \in 1..Len(s) /\ g \in 1..h
    BY <1>1
  <2>2. s[g].chunk <= s[h].chunk
    BY <1>1, <2>1, ChunksClimb
  <2>3. c[g] # c[h]
    BY <1>4, <2>1
  <2> HIDE DEF c
  <2>4. c[g] <= c[h] /\ c[g] \in Nat /\ c[h] \in Nat
    BY <1>3, <2>2
  <2> QED
    BY <2>3, <2>4
<1> HIDE DEF c, F
<1>7. Cardinality(F) = m
  <2> DEFINE M == 1..m
  <2>1. Cardinality(M) = m
    BY <1>1, Numbers
  <2>2. (\A g \in F : c[g] \in M) /\ \A d \in M : \E g \in F : c[g] = d
    BY <1>3, <1>5
  <2> HIDE DEF M
  <2> QED
    BY <1>2, <1>4, <2>1, <2>2, SameNumber
<1>8. ASSUME NEW f \in F PROVE Cardinality({g \in F : g < f}) = c[f] - 1
  <2> DEFINE A == {g \in F : g < f}
             k == c[f] - 1
             M == 1..k
  <2>1. k \in Nat /\ c[f] = k + 1 /\ c[f] \in 1..m
    BY <1>1, <1>3
  <2>2. IsFiniteSet(A)
    BY <1>2, FS_Subset
  <2>3. \A g \in A : c[g] \in M
    <3> SUFFICES ASSUME NEW g \in A PROVE c[g] \in M
      OBVIOUS
    <3>1. c[g] < c[f] /\ c[g] \in 1..m
      BY <1>3, <1>6
    <3> HIDE DEF k
    <3> QED
      BY <1>1, <2>1, <3>1
  <2>4. \A d \in M : \E g \in A : c[g] = d
    <3> SUFFICES ASSUME NEW d \in M PROVE \E g \in A : c[g] = d
      OBVIOUS
    <3>1. d \in 1..m /\ d < c[f]
      <4> HIDE DEF k
      <4> QED
        BY <1>1, <2>1
    <3>2. PICK g \in F : c[g] = d
      BY <1>5, <3>1
    <3>3. g < f
      <4>1. g \in Nat /\ f \in Nat
        BY <1>1
      <4>2. CASE f < g
        <5>1. c[f] < c[g] /\ c[f] \in Nat /\ c[g] \in Nat
          BY <1>3, <1>6, <4>2
        <5> QED
          BY <3>1, <3>2, <5>1
      <4>3. CASE f = g
        <5>1. c[f] \in Nat
          BY <2>1
        <5> QED
          BY <3>1, <3>2, <4>3, <5>1
      <4> QED
        BY <4>1, <4>2, <4>3
    <3> QED
      BY <3>2, <3>3
  <2>5. Cardinality(M) = k
    <3> HIDE DEF k
    <3> QED
      BY <2>1, Numbers
  <2>6. \A g, h \in A : c[g] = c[h] => g = h
    BY <1>4
  <2> HIDE DEF A, M
  <2>7. Cardinality(A) = Cardinality(M)
    BY <2>2, <2>3, <2>4, <2>6, SameNumber
  <2> QED
    BY <2>5, <2>7 DEF A
<1> QED
  BY <1>3, <1>7, <1>8 DEF F

-----------------------------------------------------------------------------
(* The chunks of a track, numbered as its tables number them. *)

LEMMA ChunksNumbered ==
    ASSUME NEW slot, SlotHolds(slot)
    PROVE  LET s == slot.samples
               t == Decoded(slot.trak.stbl)
           IN /\ Len(s) = SampleCount(t) /\ Len(s) \in Nat
              /\ Len(s) > 0 => Numbered(s, ChunkCount(t))
              /\ Len(s) = 0 => Numbered(s, 0) /\ t.sampleToChunk = <<>>
<1> DEFINE t == Decoded(slot.trak.stbl)
           s == slot.samples
           n == Len(s)
           c == ChunkOfEach(t)
           m == ChunkCount(t)
<1>1. IsTrak(slot.trak) /\ TrackError(slot.trak) = "none" /\ s = Samples(t)
  BY DEF SlotHolds
<1>2. IsTable(t) /\ Consistent(t)
  BY <1>1, TrackReads, DecodedTable
<1>3. Climbs(s)
  BY SlotStored DEF Stored
<1>4. Located(t, s) /\ n = SampleCount(t)
  BY <1>1, <1>2, SamplesLocated
<1>5. n \in Nat /\ m \in Nat /\ Len(c) = n
  <2>1. n \in Nat /\ Len(c) = n
    BY <1>2, <1>4, TableLengths
  <2>2. t.chunkOffsets \in Seq(Nat)
    BY <1>2 DEF IsTable
  <2>3. m \in Nat
    BY <2>2 DEF ChunkCount
  <2> QED
    BY <2>1, <2>3
<1>6. \A i \in 1..n : s[i].chunk = c[i]
  BY <1>4 DEF Located
<1>7. t.sampleToChunk # <<>> => IsStair(c, 1, m)
  BY <1>2, ChunkStair DEF Consistent
<1>8. n > 0 => t.sampleToChunk # <<>>
  BY <1>2, <1>4 DEF Consistent, ChunksExist
<1> HIDE DEF n, s, t, c, m
<1>9. ASSUME n > 0 PROVE Numbered(s, m)
  <2>1. IsStair(c, 1, m)
    BY <1>7, <1>8, <1>9
  <2>2. c[1] = 1 /\ c[n] = m /\ 1 \in 1..n /\ n \in 1..n
    BY <1>5, <1>9, <2>1 DEF IsStair
  <2>3. s[1].chunk = 1 /\ s[n].chunk = m
    BY <1>6, <2>2
  <2>4. ASSUME NEW i \in 1..n PROVE s[i].chunk \in 1..m
    <3>1. 1 \in 1..i /\ i \in 1..n
      BY <1>5
    <3>2. s[1].chunk <= s[i].chunk
      BY <1>3, <3>1, ChunksClimb DEF n
    <3>3. s[i].chunk <= s[n].chunk
      BY <1>3, <2>2, ChunksClimb DEF n
    <3>4. s[i].chunk \in Nat
      BY <1>3 DEF Climbs, n
    <3> QED
      BY <1>5, <2>3, <3>2, <3>3, <3>4
  <2>5. ASSUME NEW d \in 1..m PROVE \E i \in 1..n : s[i].chunk = d
    <3>1. \E k \in 1..Len(c) : c[k] = d
      BY <1>5, <2>1, StairCovers
    <3> QED
      BY <1>5, <1>6, <3>1
  <2> QED
    BY <1>3, <1>5, <2>4, <2>5 DEF Numbered, n
<1>10. ASSUME n = 0 PROVE Numbered(s, 0) /\ t.sampleToChunk = <<>>
  <2>1. Numbered(s, 0)
    BY <1>3, <1>5, <1>10 DEF Numbered, n
  <2>2. t.sampleToChunk = <<>>
    <3>1. ASSUME IsStair(c, 1, m) PROVE FALSE
      BY <1>5, <1>10, <3>1 DEF IsStair
    <3> QED
      BY <1>7, <3>1
  <2> QED
    BY <2>1, <2>2
<1> QED
  BY <1>4, <1>5, <1>9, <1>10 DEF n, s, t, m

-----------------------------------------------------------------------------
(* The chunks of a track, in the order of the output and in its own. *)

Mine(order, n) == {i \in DOMAIN order : order[i].slot = n}

LEMMA MineAre ==
    ASSUME NEW kept, AllStored(kept), NEW n \in 1..Len(kept), NEW order, order = Interleaved(kept)
    PROVE  LET s == kept[n].samples
           IN /\ IsFiniteSet(Mine(order, n))
              /\ \A p \in Mine(order, n) : /\ order[p].first \in Firsts(s) /\ ChunkHolds(kept, order[p])
                                           /\ order[p].slot = n /\ p \in 1..Len(order)
              /\ \A p, q \in Mine(order, n) : order[p].first = order[q].first => p = q
              /\ \A f \in Firsts(s) : \E p \in Mine(order, n) : order[p].first = f
<1> DEFINE s == kept[n].samples
           M == Cardinality(AllChunks(kept))
           C == AllChunks(kept)
           P == Mine(order, n)
<1>1. /\ M \in Nat /\ DOMAIN order = 1..M /\ Len(order) = M /\ order \in Bijection(1..M, C)
      /\ \A k \in 1..M : ChunkHolds(kept, order[k])
  BY InterleavedAll
<1> HIDE DEF M, C
<1>2. (\A k, l \in 1..M : order[k] = order[l] => k = l) /\ \A c \in C : \E k \in 1..M : order[k] = c
  BY <1>1, OneToOne
<1>3. \A p \in P : p \in 1..M /\ order[p].slot = n
  BY <1>1 DEF Mine
<1>4. \A p \in 1..M : order[p].slot = n => p \in P
  BY <1>1 DEF Mine
<1>5. IsFiniteSet(P)
  <2>1. IsFiniteSet(1..M)
    BY <1>1, Numbers
  <2> HIDE DEF P
  <2>2. P \in SUBSET (1..M)
    BY <1>3
  <2> QED
    BY <2>1, <2>2, FS_Subset
<1> HIDE DEF P
<1>6. \A p \in P : order[p].first \in Firsts(s) /\ order[p] = ChunkAt(kept, n, order[p].first) /\ ChunkHolds(kept, order[p])
  <2> SUFFICES ASSUME NEW p \in P
               PROVE  order[p].first \in Firsts(s) /\ order[p] = ChunkAt(kept, n, order[p].first) /\ ChunkHolds(kept, order[p])
    OBVIOUS
  <2>1. ChunkHolds(kept, order[p]) /\ order[p].slot = n
    BY <1>1, <1>3
  <2> QED
    BY <2>1 DEF ChunkHolds
<1>7. ASSUME NEW p \in P, NEW q \in P, order[p].first = order[q].first PROVE p = q
  <2>1. order[p] = order[q]
    BY <1>6, <1>7
  <2> QED
    BY <1>2, <1>3, <2>1
<1>8. ASSUME NEW f \in Firsts(s) PROVE \E p \in P : order[p].first = f
  <2> DEFINE c == ChunkAt(kept, n, f)
  <2>1. c.slot = n /\ c.first = f
    BY ChunkAtHolds
  <2>2. c \in ChunksOf(kept, n)
    BY DEF ChunksOf, ChunkAt, Firsts, IsFirst
  <2> HIDE DEF c
  <2>3. c \in C
    BY <2>2 DEF C, AllChunks, AllStored
  <2>4. PICK p \in 1..M : order[p] = c
    BY <1>2, <2>3
  <2> QED
    BY <1>4, <2>1, <2>4
<1> QED
  BY <1>1, <1>3, <1>5, <1>6, <1>7, <1>8 DEF P

(* A chunk has a number in its track, and the offset written under that number is where the chunk is. *)
IsPlaced(kept, order, n, m, start, p) ==
    LET c == kept[n].samples[order[p].first].chunk
    IN c \in 1..m /\ ChunkOffsets(order, n, start)[c] = start + MediaBefore(order, p)

LEMMA ChunkPlaced ==
    ASSUME NEW kept, AllStored(kept), NEW n \in 1..Len(kept), NEW order, order = Interleaved(kept),
           NEW m, Numbered(kept[n].samples, m), NEW start
    PROVE  /\ Cardinality(Mine(order, n)) = m /\ m \in Nat
           /\ \A p \in Mine(order, n) : IsPlaced(kept, order, n, m, start, p)
<1> DEFINE s == kept[n].samples
           P == Mine(order, n)
           F == Firsts(s)
           first == [p \in P |-> order[p].first]
<1>1. /\ IsFiniteSet(P) /\ (\A p \in P : first[p] = order[p].first /\ first[p] \in F)
      /\ (\A p, q \in P : first[p] = first[q] => p = q) /\ \A f \in F : \E p \in P : first[p] = f
  BY MineAre
<1>2. Climbs(s) /\ m \in Nat
  BY DEF Numbered
<1>3. /\ Cardinality(F) = m
      /\ \A f \in F : s[f].chunk \in 1..m /\ Cardinality({g \in F : g < f}) = s[f].chunk - 1
  <2> HIDE DEF s
  <2> QED
    BY FirstsNumbered DEF s
<1>4. \A f, g \in F : s[f].chunk = s[g].chunk => f = g
  BY <1>2, FirstsApart
<1> HIDE DEF s, P, F, first
<1>5. Cardinality(P) = m
  <2>1. IsFiniteSet(P)
    BY <1>1
  <2>2. \A p \in P : first[p] \in F
    BY <1>1
  <2>3. \A p, q \in P : first[p] = first[q] => p = q
    BY <1>1
  <2>4. \A f \in F : \E p \in P : first[p] = f
    BY <1>1
  <2>5. IsFiniteSet(F) /\ Cardinality(P) = Cardinality(F)
    BY <2>1, <2>2, <2>3, <2>4, SameNumber
  <2> QED
    BY <1>3, <2>5
<1> DEFINE Earlier0(p) == {q \in P : order[q].first < order[p].first}
<1>6. ASSUME NEW p \in P PROVE Cardinality(Earlier0(p)) = s[first[p]].chunk - 1
  <2> DEFINE A == Earlier0(p)
             B == {g \in F : g < first[p]}
  <2>1. IsFiniteSet(A)
    <3>1. A \in SUBSET P
      OBVIOUS
    <3> HIDE DEF A
    <3> QED
      BY <1>1, <3>1, FS_Subset
  <2>2. \A q \in A : first[q] \in B
    BY <1>1
  <2>3. \A q, x \in A : first[q] = first[x] => q = x
    BY <1>1
  <2>4. \A b \in B : \E q \in A : first[q] = b
    BY <1>1
  <2>5. Cardinality(B) = s[first[p]].chunk - 1
    BY <1>1, <1>3
  <2> HIDE DEF A, B
  <2>6. Cardinality(A) = Cardinality(B)
    BY <2>1, <2>2, <2>3, <2>4, SameNumber
  <2> QED
    BY <2>5, <2>6 DEF A
<1> HIDE DEF Earlier0
<1>7. ASSUME NEW p \in P
      PROVE  /\ s[order[p].first].chunk \in 1..m
             /\ ChunkOffsets(order, n, start)[s[order[p].first].chunk] = start + MediaBefore(order, p)
  <2> DEFINE c == s[order[p].first].chunk
             Nth(i) == Cardinality(Earlier0(i)) = c - 1
             i0 == CHOOSE i \in P : Nth(i)
  <2>1. c \in 1..m
    BY <1>1, <1>3
  <2>2. \A i \in P : s[first[i]].chunk \in Nat /\ (Nth(i) <=> s[first[i]].chunk = c)
    <3> SUFFICES ASSUME NEW i \in P PROVE s[first[i]].chunk \in Nat /\ (Nth(i) <=> s[first[i]].chunk = c)
      OBVIOUS
    <3>1. Cardinality(Earlier0(i)) = s[first[i]].chunk - 1 /\ s[first[i]].chunk \in 1..m
      BY <1>1, <1>3, <1>6
    <3> HIDE DEF c
    <3> QED
      BY <1>2, <2>1, <3>1
  <2>3. c = s[first[p]].chunk
    BY <1>1
  <2>4. Nth(p)
    BY <2>2, <2>3
  <2>5. \A i \in P : Nth(i) => i = p
    BY <1>1, <1>4, <2>2, <2>3
  <2>6. i0 = p
    <3> HIDE DEF Nth
    <3> QED
      BY <2>4, <2>5
  <2>7. ChunkOffsets(order, n, start)[c] = start + MediaBefore(order, i0)
    <3>1. ChunkOffsets(order, n, start) =
            [k \in 1..Cardinality(P) |-> start + MediaBefore(order, CHOOSE i \in P : Cardinality(Earlier0(i)) = k - 1)]
      BY DEF ChunkOffsets, Mine, P, Earlier0
    <3> HIDE DEF c
    <3> QED
      BY <1>5, <2>1, <3>1
  <2> QED
    BY <2>1, <2>6, <2>7
<1> QED
  BY <1>2, <1>5, <1>7 DEF P, s, IsPlaced

LEMMA ChunkBackToBack ==
    ASSUME NEW t, NEW s, Located(t, s), SampleCount(t) \in Nat, NEW f \in Firsts(s), NEW j \in Nat, Together(s, f) = f..j
    PROVE  /\ BackToBack(s, f, j) /\ s[f].offset = t.chunkOffsets[s[f].chunk]
           /\ f \in 1..SampleCount(t)
<1> DEFINE n == SampleCount(t)
<1>1. /\ DOMAIN s = 1..n /\ n \in Nat
      /\ \A i \in 1..n : s[i].offset = IF i > 1 /\ s[i].chunk = s[i - 1].chunk
                                       THEN s[i - 1].offset + s[i - 1].size ELSE t.chunkOffsets[s[i].chunk]
  BY DEF Located
<1> HIDE DEF n
<1>2. f \in 1..n /\ (f = 1 \/ s[f - 1].chunk # s[f].chunk)
  BY <1>1 DEF Firsts, IsFirst
<1>3. s[f].offset = t.chunkOffsets[s[f].chunk]
  <2>1. ~(f > 1 /\ s[f].chunk = s[f - 1].chunk)
    BY <1>2
  <2> QED
    BY <1>1, <1>2, <2>1
<1>4. ASSUME NEW i \in (f + 1)..j PROVE s[i].offset = s[i - 1].offset + s[i - 1].size
  <2>1. f \in Nat
    BY <1>2
  <2>2. i \in f..j /\ i - 1 \in f..j
    BY <2>1
  <2>3. i \in 1..n /\ i - 1 \in 1..n /\ s[i].chunk = s[f].chunk /\ s[i - 1].chunk = s[f].chunk
    BY <1>1, <2>2 DEF Together
  <2>4. i > 1
    BY <1>1, <2>3
  <2> QED
    BY <1>1, <2>3, <2>4
<1> QED
  BY <1>2, <1>3, <1>4 DEF BackToBack, n

-----------------------------------------------------------------------------
(* The layout leads where the media is. *)

LEMMA LayoutFits ==
    ASSUME NEW r, IsRequest(r), NEW kept, AllHold(kept), NEW order, IsFiniteSet(DOMAIN order), Media(order) \in Nat
    PROVE  LET out == LayOut(r, kept, order)
           IN /\ out.wide \in BOOLEAN /\ out.base \in Nat
              /\ out.moov = MovieBox(r, kept, order, out.wide, out.base)
              /\ ~out.wide => out.base + Media(order) <= NarrowLimit
<1> DEFINE out == LayOut(r, kept, order)
           wide == ~FitsNarrowOffsets(MediaStart(r, kept, order, FALSE) + Media(order))
           base == MediaStart(r, kept, order, wide)
<1>1. out.base \in Nat
  BY LaidOut
<1>2. out.wide = wide /\ out.base = base /\ out.moov = MovieBox(r, kept, order, wide, base)
  BY DEF LayOut
<1>3. wide \in BOOLEAN
  OBVIOUS
<1>4. ASSUME ~wide PROVE base + Media(order) <= NarrowLimit
  <2>1. wide = FALSE
    BY <1>4
  <2>2. FitsNarrowOffsets(MediaStart(r, kept, order, FALSE) + Media(order))
    BY <1>4
  <2>3. base = MediaStart(r, kept, order, FALSE)
    BY <2>1
  <2> QED
    BY <2>2, <2>3 DEF FitsNarrowOffsets
<1> HIDE DEF wide, base, out
<1> QED
  BY <1>1, <1>2, <1>3, <1>4 DEF out

(* Every chunk offset written is where the chunk is. *)
LEMMA OffsetsInMedia ==
    ASSUME NEW kept, AllStored(kept), NEW n \in 1..Len(kept), NEW order, order = Interleaved(kept),
           NEW m, Numbered(kept[n].samples, m), NEW base \in Nat, NEW k \in 1..m
    PROVE  /\ ChunkOffsets(order, n, base)[k] \in Nat
           /\ ChunkOffsets(order, n, base)[k] <= base + Media(order)
<1> DEFINE s == kept[n].samples
<1>1. Climbs(s) /\ m \in Nat /\ \E i \in 1..Len(s) : s[i].chunk = k
  BY DEF Numbered
<1>2. PICK i \in 1..Len(s) : s[i].chunk = k
  BY <1>1
<1> HIDE DEF s
<1>3. PICK f \in 1..i : IsFirst(s, f) /\ s[f].chunk = s[i].chunk
  BY <1>1, ChunkBegins
<1>4. f \in Firsts(s)
  BY <1>3 DEF Firsts, IsFirst
<1>5. PICK p \in Mine(order, n) : order[p].first = f /\ p \in 1..Len(order)
  BY <1>4, MineAre DEF s
<1>6. ChunkOffsets(order, n, base)[k] = base + MediaBefore(order, p)
  <2>1. ChunkOffsets(order, n, base)[kept[n].samples[order[p].first].chunk] = base + MediaBefore(order, p)
    <3>1. IsPlaced(kept, order, n, m, base, p)
      BY <1>5, ChunkPlaced
    <3> QED
      BY <3>1 DEF IsPlaced
  <2> QED
    BY <1>2, <1>3, <1>5, <2>1 DEF s
<1>7. MediaBefore(order, p) \in Nat /\ MediaBefore(order, p) <= Media(order) /\ Media(order) \in Nat
  <2>1. Len(order) \in Nat
    BY MediaIs
  <2>2. p \in 1..(Len(order) + 1)
    BY <1>5, <2>1
  <2> QED
    BY <2>2, MediaIs
<1> DEFINE a == MediaBefore(order, p)
           b == Media(order)
           o == ChunkOffsets(order, n, base)[k]
<1>8. o = base + a /\ a \in Nat /\ b \in Nat /\ a <= b
  BY <1>6, <1>7
<1> HIDE DEF a, b, o
<1>9. o \in Nat /\ o <= base + b
  BY <1>8
<1> QED
  BY <1>9 DEF o, b

LEMMA EntriesWritten ==
    ASSUME NEW stbl, NEW m \in Nat, NEW offsets, DOMAIN offsets = 1..m, NEW wide \in BOOLEAN
    PROVE  NewTables(stbl, offsets, wide)[TableKind(wide)].entries = [k \in 1..m |-> Narrowed(offsets[k], wide)]
BY DEF NewTables, TableKind

Leads(entries, offsets, m) ==
    /\ DOMAIN offsets = 1..m /\ Len(offsets) = m /\ m \in Nat
    /\ entries \in Seq(Nat) /\ Len(entries) = m
    /\ \A k \in 1..m : entries[k] = offsets[k]

LEMMA EntriesLead ==
    ASSUME NEW kept, AllStored(kept), NEW n \in 1..Len(kept), NEW order, order = Interleaved(kept),
           NEW m, Numbered(kept[n].samples, m), NEW base \in Nat, NEW wide \in BOOLEAN,
           ~wide => base + Media(order) <= NarrowLimit, NEW stbl
    PROVE  Leads(NewTables(stbl, ChunkOffsets(order, n, base), wide)[TableKind(wide)].entries,
                 ChunkOffsets(order, n, base), m)
<1> DEFINE offsets == ChunkOffsets(order, n, base)
           entries == NewTables(stbl, offsets, wide)[TableKind(wide)].entries
<1>1. Cardinality(Mine(order, n)) = m /\ m \in Nat
  BY ChunkPlaced
<1>2. IsFiniteSet(DOMAIN order)
  <2>1. DOMAIN order = 1..Cardinality(AllChunks(kept)) /\ Cardinality(AllChunks(kept)) \in Nat
    BY InterleavedAll
  <2> QED
    BY <2>1, Numbers
<1>3. DOMAIN offsets = 1..m /\ Len(offsets) = m
  <2>1. Cardinality({i \in DOMAIN order : order[i].slot = n}) = m
    BY <1>1 DEF Mine
  <2> QED
    BY <1>2, <2>1, ChunkOffsetsCounted
<1>4. \A k \in 1..m : offsets[k] \in Nat /\ offsets[k] <= base + Media(order)
  BY OffsetsInMedia
<1>5. Media(order) \in Nat /\ NarrowLimit \in Nat
  BY MediaIs, LimitAssumption
<1>6. entries = [k \in 1..m |-> Narrowed(offsets[k], wide)]
  <2> HIDE DEF offsets
  <2> QED
    BY <1>1, <1>3, EntriesWritten
<1> HIDE DEF offsets, entries
<1>7. ASSUME NEW k \in 1..m PROVE Narrowed(offsets[k], wide) = offsets[k]
  <2> DEFINE o == offsets[k]
             b == Media(order)
  <2>1. o \in Nat /\ o <= base + b /\ b \in Nat /\ (~wide => base + b <= NarrowLimit)
    BY <1>4, <1>5
  <2> HIDE DEF o, b
  <2>2. wide \/ o <= NarrowLimit
    BY <1>5, <2>1
  <2>3. Narrowed(o, wide) = o
    BY <2>2 DEF Narrowed
  <2> QED
    BY <2>3 DEF o
<1>8. \A k \in 1..m : entries[k] = offsets[k] /\ entries[k] \in Nat
  BY <1>4, <1>6, <1>7
<1>9. entries = [k \in 1..m |-> entries[k]]
  BY <1>6
<1>10. entries \in Seq(Nat) /\ Len(entries) = m
  BY <1>1, <1>8, <1>9, AllOf
<1> QED
  BY <1>1, <1>3, <1>8, <1>10 DEF Leads, offsets, entries

-----------------------------------------------------------------------------
(* A rewritten track. *)

(* A rewritten track reads, and its table is that of its source with the chunks where they were written. *)
StillReads(trak, slot, offsets) ==
    LET u == Decoded(trak.stbl)
        t == Decoded(slot.trak.stbl)
    IN /\ TrackError(trak) = "none"
       /\ IsTable(t) /\ Consistent(t) /\ IsTable(u) /\ Consistent(u) /\ SameBut(u, t) /\ AsMany(u, t)
       /\ slot.samples = Samples(t)
       /\ \E m \in Nat : Numbered(slot.samples, m) /\ \A k \in 1..m : u.chunkOffsets[k] = offsets[k]

LEMMA TrackStillReads ==
    ASSUME NEW kept, AllHold(kept), AllStored(kept), NEW n \in 1..Len(kept), NEW order, order = Interleaved(kept),
           NEW base \in Nat, NEW wide \in BOOLEAN, ~wide => base + Media(order) <= NarrowLimit, NEW r
    PROVE  StillReads(TrackBox(r, kept, n, ChunkOffsets(order, n, base), wide), kept[n], ChunkOffsets(order, n, base))
<1> DEFINE slot == kept[n]
           old == slot.trak.stbl
           offsets == ChunkOffsets(order, n, base)
           trak == TrackBox(r, kept, n, offsets, wide)
           new == NewTables(old, offsets, wide)
           u == Decoded(new)
           t == Decoded(old)
           s == slot.samples
<1>1. SlotHolds(slot)
  BY DEF AllHold
<1>2. IsTrak(slot.trak) /\ TrackError(slot.trak) = "none" /\ s = Samples(t)
  BY <1>1 DEF SlotHolds
<1>3. IsStbl(old) /\ TableError(old) = "none"
  BY <1>2, TrackReads
<1>4. IsTable(t) /\ Consistent(t)
  BY <1>3, DecodedTable
<1>5. trak.stbl = new /\ HeadersRead(trak.headers)
  <2> HIDE DEF offsets
  <2>1. TrackBoxIs(trak, r, kept, n, offsets, wide)
    BY <1>2, TrackBoxFields
  <2>2. trak.stbl = new
    BY <2>1 DEF TrackBoxIs
  <2>3. HeadersRead(trak.headers)
    BY <1>2, HeadersStillRead
  <2> QED
    BY <2>2, <2>3
<1>6. /\ Len(s) = SampleCount(t) /\ Len(s) \in Nat
      /\ (Len(s) > 0 => Numbered(s, ChunkCount(t)))
      /\ (Len(s) = 0 => Numbered(s, 0) /\ t.sampleToChunk = <<>>)
  BY <1>1, ChunksNumbered
<1>7. PICK m \in Nat : Numbered(s, m) /\ (m = ChunkCount(t) \/ (t.sampleToChunk = <<>> /\ SampleCount(t) = 0))
  <2>1. ChunkCount(t) \in Nat
    BY <1>4 DEF ChunkCount, IsTable
  <2>2. CASE Len(s) > 0
    BY <1>6, <2>1, <2>2
  <2>3. CASE Len(s) = 0
    BY <1>6, <2>3
  <2> QED
    BY <1>6, <2>2, <2>3
<1> DEFINE entries == new[TableKind(wide)].entries
<1>8. /\ DOMAIN offsets = 1..m /\ Len(offsets) = m
      /\ entries \in Seq(Nat) /\ Len(entries) = m
      /\ \A k \in 1..m : entries[k] = offsets[k]
  <2>1. Leads(entries, offsets, m)
    BY <1>7, EntriesLead
  <2> HIDE DEF entries, offsets
  <2> QED
    BY <2>1 DEF Leads
<1>9. /\ ~Missing(new) /\ ~Truncated(new) /\ ~CttsUnknown(new) /\ SameBut(u, t) /\ u.chunkOffsets = entries
  <2> HIDE DEF offsets
  <2>1. IsMoved(new, old, m, offsets, wide)
    BY <1>8, NewTablesAre
  <2> HIDE DEF new, old
  <2> QED
    BY <1>3, <2>1, TablesStillRead
<1> HIDE DEF entries, u, t, s, new, old
<1>10. AsMany(u, t)
  BY <1>7, <1>8, <1>9 DEF AsMany, ChunkCount
<1>11. IsTable(u) /\ Consistent(u)
  BY <1>4, <1>8, <1>9, <1>10, StillConsistent
<1>12. TableError(new) = "none"
  BY <1>9, <1>11 DEF TableError, u
<1>13. TrackError(trak) = "none"
  BY <1>5, <1>12 DEF TrackError
<1>14. \A k \in 1..m : u.chunkOffsets[k] = offsets[k]
  BY <1>8, <1>9
<1> HIDE DEF offsets, trak
<1>15. \E x \in Nat : Numbered(s, x) /\ \A k \in 1..x : u.chunkOffsets[k] = offsets[k]
  BY <1>7, <1>14
<1>16. u = Decoded(trak.stbl)
  BY <1>5 DEF u
<1> QED
  BY <1>2, <1>4, <1>9, <1>10, <1>11, <1>13, <1>15, <1>16 DEF StillReads, offsets, trak, t, s, old

(* Where a sample of the output is, and where the source had it. *)
IsAt(kept, order, base, p, z, s, i) ==
    LET f == order[p].first
        before == Sum(Sizes(s), f..(i - 1))
    IN /\ i \in f..(f + order[p].count - 1) /\ before \in Nat
       /\ z[i].offset = base + MediaBefore(order, p) + before
       /\ s[i].offset = s[f].offset + before

LEMMA SampleRehoused ==
    ASSUME NEW kept, AllStored(kept), NEW n \in 1..Len(kept), NEW order, order = Interleaved(kept), NEW base \in Nat,
           NEW t, IsTable(t), Consistent(t), NEW u, IsTable(u), Consistent(u), SameBut(u, t), AsMany(u, t),
           kept[n].samples = Samples(t), NEW m, Numbered(kept[n].samples, m),
           \A k \in 1..m : u.chunkOffsets[k] = ChunkOffsets(order, n, base)[k],
           NEW i \in 1..Len(kept[n].samples)
    PROVE  \E p \in Mine(order, n) : IsAt(kept, order, base, p, Samples(u), kept[n].samples, i)
<1> DEFINE s == kept[n].samples
           z == Samples(u)
           g == Sizes(s)
           N == SampleCount(t)
<1>1. /\ Len(z) = N /\ Len(s) = N /\ N \in Nat /\ DOMAIN z = 1..N /\ DOMAIN s = 1..N
      /\ \A k \in 1..N : SameSample(z[k], s[k])
  BY SamplesStay
<1>2. \A k \in 1..N : z[k].chunk = s[k].chunk /\ z[k].size = s[k].size
  BY <1>1 DEF SameSample
<1>3. Located(t, s) /\ Located(u, z) /\ SampleCount(u) = N
  BY SamplesLocated DEF SameBut, SampleCount
<1>4. /\ Climbs(s) /\ (\A k \in 1..N : g[k] = s[k].size /\ g[k] \in Nat)
      /\ (\A k \in 1..N : s[k].offset \in Nat)
  <2>1. Stored(kept[n])
    BY DEF AllStored
  <2> QED
    BY <1>1, <2>1, FirstsAre DEF Stored
<1> HIDE DEF z, s, g, N
<1>5. PICK f \in 1..i : IsFirst(s, f) /\ s[f].chunk = s[i].chunk
  BY <1>4, ChunkBegins DEF s
<1>6. i \in 1..N /\ f \in 1..N /\ f \in Firsts(s) /\ f <= i
  BY <1>1, <1>5 DEF Firsts, IsFirst, s
<1>7. PICK p \in Mine(order, n) : order[p].first = f /\ ChunkHolds(kept, order[p]) /\ order[p].slot = n /\ p \in 1..Len(order)
  BY <1>6, MineAre DEF s
<1> DEFINE j == f + order[p].count - 1
<1>8. j \in f..N /\ Together(s, f) = f..j
  BY <1>1, <1>7 DEF ChunkHolds, s
<1>9. i \in f..j /\ j \in Nat /\ f \in Nat
  <2>1. i \in Together(s, f)
    BY <1>1, <1>5, <1>6 DEF Together
  <2>2. j \in Nat /\ f \in Nat
    BY <1>1, <1>6, <1>8
  <2> HIDE DEF j
  <2> QED
    BY <1>8, <2>1, <2>2
<1> HIDE DEF j
<1>10. BackToBack(s, f, j)
  BY <1>1, <1>3, <1>6, <1>8, <1>9, ChunkBackToBack DEF N
<1>11. BackToBack(z, f, j) /\ z[f].offset = u.chunkOffsets[z[f].chunk]
  <2>1. IsFirst(z, f)
    <3>1. f = 1 \/ s[f - 1].chunk # s[f].chunk
      BY <1>5 DEF IsFirst
    <3>2. f # 1 => f - 1 \in 1..N
      BY <1>1, <1>6
    <3> QED
      BY <1>1, <1>2, <1>6, <3>1, <3>2 DEF IsFirst
  <2>2. f \in Firsts(z)
    BY <2>1 DEF Firsts, IsFirst
  <2>3. Together(z, f) = f..j
    BY <1>1, <1>2, <1>6, <1>8 DEF Together
  <2> QED
    BY <1>1, <1>3, <1>9, <2>2, <2>3, ChunkBackToBack
<1>12. z[f].offset = base + MediaBefore(order, p) /\ z[f].offset \in Nat
  <2> DEFINE c == s[f].chunk
  <2>0. c = kept[n].samples[order[p].first].chunk
    BY <1>7 DEF s
  <2> HIDE DEF c
  <2>1. c \in 1..m /\ ChunkOffsets(order, n, base)[c] = base + MediaBefore(order, p)
    <3>1. IsPlaced(kept, order, n, m, base, p)
      BY <1>7, ChunkPlaced
    <3> QED
      BY <2>0, <3>1 DEF IsPlaced
  <2>2. z[f].chunk = s[f].chunk
    BY <1>2, <1>6
  <2>3. z[f].offset = base + MediaBefore(order, p)
    BY <1>7, <1>11, <2>1, <2>2 DEF c
  <2>4. MediaBefore(order, p) \in Nat
    <3>1. p \in 1..(Len(order) + 1)
      BY <1>7, MediaIs
    <3> QED
      BY <3>1, MediaIs
  <2> QED
    BY <2>3, <2>4
<1>13. \A k \in f..j : k \in 1..N
  BY <1>1, <1>6, <1>8
<1>14. s[i].offset = s[f].offset + Sum(g, f..(i - 1)) /\ Sum(g, f..(i - 1)) \in Nat
  <2>1. s[f].offset \in Nat /\ \A k \in f..j : g[k] \in Nat /\ g[k] = s[k].size
    BY <1>4, <1>6, <1>13
  <2> QED
    BY <1>9, <1>10, <2>1, OffsetInChunk
<1>15. z[i].offset = z[f].offset + Sum(g, f..(i - 1))
  <2>1. z[f].offset \in Nat /\ \A k \in f..j : g[k] \in Nat /\ g[k] = z[k].size
    BY <1>2, <1>4, <1>12, <1>13
  <2>2. BackToBack(z, f, j)
    BY <1>11
  <2>3. z[i].offset = z[f].offset + Sum(g, f..(i - 1)) /\ Sum(g, f..(i - 1)) \in Nat
    BY <1>9, <2>1, <2>2, OffsetInChunk
  <2> QED
    BY <2>3
<1>16. IsAt(kept, order, base, p, z, s, i)
  BY <1>7, <1>9, <1>12, <1>14, <1>15 DEF IsAt, g, j
<1> QED
  BY <1>16 DEF z, s

(* A rewritten track reads, and its samples are those of its source, where the output has them. *)
Survives(kept, order, base, n, trak) ==
    LET z == Samples(Decoded(trak.stbl))
        s == kept[n].samples
    IN /\ TrackError(trak) = "none"
       /\ Len(z) = Len(s) /\ Len(s) \in Nat /\ DOMAIN z = 1..Len(s)
       /\ \A i \in 1..Len(s) : /\ SameSample(z[i], s[i])
                               /\ \E p \in Mine(order, n) : IsAt(kept, order, base, p, z, s, i)

LEMMA TrackSurvives ==
    ASSUME NEW kept, AllHold(kept), AllStored(kept), NEW n \in 1..Len(kept), NEW order, order = Interleaved(kept),
           NEW base \in Nat, NEW wide \in BOOLEAN, ~wide => base + Media(order) <= NarrowLimit, NEW r
    PROVE  Survives(kept, order, base, n, TrackBox(r, kept, n, ChunkOffsets(order, n, base), wide))
<1> DEFINE offsets == ChunkOffsets(order, n, base)
           trak == TrackBox(r, kept, n, offsets, wide)
           u == Decoded(trak.stbl)
           t == Decoded(kept[n].trak.stbl)
           z == Samples(u)
           s == kept[n].samples
<1>1. /\ TrackError(trak) = "none"
      /\ IsTable(t) /\ Consistent(t) /\ IsTable(u) /\ Consistent(u) /\ SameBut(u, t) /\ AsMany(u, t)
      /\ s = Samples(t)
      /\ \E m \in Nat : Numbered(s, m) /\ \A k \in 1..m : u.chunkOffsets[k] = offsets[k]
  <2>1. StillReads(TrackBox(r, kept, n, ChunkOffsets(order, n, base), wide), kept[n], ChunkOffsets(order, n, base))
    BY TrackStillReads
  <2> QED
    BY <2>1 DEF StillReads
<1> HIDE DEF t, u, trak
<1>2. /\ Len(z) = Len(s) /\ Len(s) \in Nat /\ DOMAIN z = 1..Len(s)
      /\ \A i \in 1..Len(s) : SameSample(z[i], s[i])
  <2> DEFINE w == Samples(t)
  <2>1. /\ Len(z) = SampleCount(t) /\ Len(w) = SampleCount(t) /\ SampleCount(t) \in Nat
        /\ DOMAIN z = 1..SampleCount(t) /\ DOMAIN w = 1..SampleCount(t)
        /\ \A i \in 1..SampleCount(t) : SameSample(z[i], w[i])
    BY <1>1, SamplesStay
  <2> HIDE DEF z
  <2> QED
    BY <1>1, <2>1
<1>3. PICK m \in Nat : Numbered(s, m) /\ \A k \in 1..m : u.chunkOffsets[k] = offsets[k]
  BY <1>1
<1>4. ASSUME NEW i \in 1..Len(s) PROVE \E p \in Mine(order, n) : IsAt(kept, order, base, p, z, s, i)
  BY <1>1, <1>3, SampleRehoused
<1> QED
  BY <1>1, <1>2, <1>4 DEF Survives, u, trak

LEMMA TracksSurvive ==
    ASSUME Settled, pc \notin Before0, FirstHasTracks(request)
    PROVE  LET traks == Traks(layout.moov)
           IN /\ Len(traks) = Len(slots) /\ DOMAIN slots = 1..Len(slots)
              /\ \A n \in 1..Len(slots) : Survives(slots, chunks, layout.base, n, traks[n])
<1> DEFINE base == layout.base
           wide == layout.wide
           traks == Traks(layout.moov)
<1>1. IsRequest(request) /\ AllHold(slots) /\ AllStored(slots) /\ chunks = Interleaved(slots)
  BY KeptSlots
<1>2. layout = LayOut(request, slots, chunks)
  BY DEF Settled
<1>3. Media(chunks) \in Nat /\ IsFiniteSet(DOMAIN chunks)
  BY LayoutHolds, Numbers
<1>4. /\ wide \in BOOLEAN /\ base \in Nat
      /\ layout.moov = MovieBox(request, slots, chunks, wide, base)
      /\ (~wide => base + Media(chunks) <= NarrowLimit)
  BY <1>1, <1>2, <1>3, LayoutFits
<1> HIDE DEF base, wide
<1>5. /\ Len(traks) = Len(slots)
      /\ \A n \in 1..Len(slots) :
           traks[n] = TrackBox(request, slots, n, ChunkOffsets(chunks, n, base), wide)
  BY <1>1, <1>3, <1>4, TracksLaidOut
<1>6. DOMAIN slots = 1..Len(slots)
  BY <1>1 DEF AllHold
<1>7. ASSUME NEW n \in 1..Len(slots) PROVE Survives(slots, chunks, base, n, traks[n])
  <2>1. Survives(slots, chunks, base, n, TrackBox(request, slots, n, ChunkOffsets(chunks, n, base), wide))
    BY <1>1, <1>4, TrackSurvives
  <2> QED
    BY <1>5, <2>1
<1> QED
  BY <1>5, <1>6, <1>7 DEF base

-----------------------------------------------------------------------------
(* The pieces of a chunk among the pieces copied. *)

PiecesIn(kept, c) ==
    LET input == kept[c.slot].input
        run == RunOf(kept, c)
    IN IF Contiguous(run) /\ c.bytes <= CopyBuffer
       THEN <<[input |-> input, offset |-> run[1].offset, size |-> c.bytes]>>
       ELSE [i \in DOMAIN run |-> [input |-> input, offset |-> run[i].offset, size |-> run[i].size]]

LEMMA PiecesOfSlots == ASSUME NEW c PROVE PiecesOf(c) = PiecesIn(slots, c)
BY DEF PiecesOf, PiecesIn, RunOf

LEMMA PieceSized ==
    ASSUME NEW copies \in Seq(Piece)
    PROVE  /\ Len(copies) \in Nat /\ DOMAIN copies = 1..Len(copies)
           /\ \A k \in 1..Len(copies) : /\ copies[k] \in Piece
                                        /\ PieceSizes(copies)[k] = copies[k].size /\ PieceSizes(copies)[k] \in Nat
<1>1. Len(copies) \in Nat /\ DOMAIN copies = 1..Len(copies) /\ \A k \in 1..Len(copies) : copies[k] \in Piece
  OBVIOUS
<1>2. \A k \in 1..Len(copies) : PieceSizes(copies)[k] = copies[k].size
  BY <1>1 DEF PieceSizes
<1>3. \A p \in Piece : p.size \in Nat
  BY DEF Piece
<1> QED
  BY <1>1, <1>2, <1>3

(* The pieces q stand together, after others as long as the media before them. *)
Stands(copies, q, at, media) ==
    /\ at \in Nat /\ at + Len(q) <= Len(copies)
    /\ \A k \in 1..Len(q) : copies[at + k] = q[k]
    /\ Sum(PieceSizes(copies), 1..at) = media

LEMMA StandsOn ==
    ASSUME NEW a \in Seq(Piece), NEW b \in Seq(Piece), NEW q, Len(q) \in Nat, NEW at, NEW media, Stands(a, q, at, media)
    PROVE  Stands(a \o b, q, at, media)
<1> DEFINE c == a \o b
           n == Len(a)
           l == Len(q)
<1>1. c \in Seq(Piece) /\ Joins(c, a, b)
  BY Concat
<1>2. /\ n \in Nat /\ Len(b) \in Nat /\ Len(c) = n + Len(b)
      /\ \A k \in 1..n : c[k] = a[k]
  BY <1>1 DEF Joins
<1>3. /\ at \in Nat /\ at + l <= n /\ l \in Nat
      /\ \A k \in 1..l : a[at + k] = q[k]
      /\ Sum(PieceSizes(a), 1..at) = media
  BY DEF Stands
<1> HIDE DEF c, n, l
<1>4. at + l <= Len(c)
  BY <1>2, <1>3
<1>5. ASSUME NEW k \in 1..l PROVE c[at + k] = q[k]
  <2>1. at + k \in 1..n
    BY <1>2, <1>3
  <2> QED
    BY <1>2, <1>3, <2>1
<1>6. Sum(PieceSizes(c), 1..at) = Sum(PieceSizes(a), 1..at)
  <2> DEFINE x == PieceSizes(a)
             y == PieceSizes(c)
  <2>1. \A k \in 1..at : k \in 1..n /\ k \in 1..Len(c)
    BY <1>2, <1>3
  <2>2. (\A k \in 1..n : x[k] = a[k].size) /\ \A k \in 1..Len(c) : y[k] = c[k].size
    BY <1>1, PieceSized DEF n
  <2> HIDE DEF x, y
  <2>3. \A k \in 1..at : y[k] = x[k]
    BY <1>2, <2>1, <2>2
  <2>4. IsFiniteSet(1..at)
    BY <1>3, Numbers
  <2>5. Sum(y, 1..at) = Sum(x, 1..at)
    BY <2>3, <2>4, SumSame
  <2> QED
    BY <2>5 DEF x, y
<1> QED
  BY <1>3, <1>4, <1>5, <1>6 DEF Stands, c, l

LEMMA StandsLast ==
    ASSUME NEW a \in Seq(Piece), NEW b \in Seq(Piece)
    PROVE  Stands(a \o b, b, Len(a), SizesOfPieces(a))
<1> DEFINE c == a \o b
           n == Len(a)
<1>1. c \in Seq(Piece) /\ Joins(c, a, b)
  BY Concat
<1>2. /\ n \in Nat /\ Len(b) \in Nat /\ Len(c) = n + Len(b)
      /\ \A k \in 1..Len(b) : c[n + k] = b[k]
  BY <1>1 DEF Joins
<1>3. Stands(a, <<>>, n, SizesOfPieces(a))
  <2>1. Len(<<>>) = 0 /\ n + 0 <= n
    BY <1>2
  <2> HIDE DEF n
  <2>2. \A k \in 1..0 : FALSE
    OBVIOUS
  <2> QED
    BY <1>2, <2>1, <2>2 DEF Stands, SizesOfPieces, n
<1>4. Stands(c, <<>>, n, SizesOfPieces(a))
  <2>1. Len(<<>>) \in Nat
    OBVIOUS
  <2> HIDE DEF n
  <2> QED
    BY <1>3, <2>1, StandsOn
<1>5. Sum(PieceSizes(c), 1..n) = SizesOfPieces(a)
  BY <1>4 DEF Stands
<1> HIDE DEF c, n
<1>6. n + Len(b) <= Len(c)
  BY <1>2
<1> QED
  BY <1>2, <1>5, <1>6 DEF Stands, c, n

(* Every chunk copied is among the pieces, where the layout has it. *)
ChunksStand ==
    pc \in {"copy", "cancelled", "done"} =>
        \A i \in 1..copied : \E at \in Nat : Stands(pieces, PiecesIn(slots, chunks[i]), at, MediaBefore(chunks, i))

LEMMA ChunksStandInit == Init => ChunksStand
BY DEF Init, ChunksStand

LEMMA ChunksStandStep ==
    ASSUME Settled, Counted, ChunksStand, [Next]_vars PROVE ChunksStand'
<1>1. CASE Refuse
  BY <1>1 DEF ChunksStand, Refuse
<1>2. CASE SelectTracks
  BY <1>2 DEF ChunksStand, SelectTracks
<1>3. CASE WriteHead
  <2>1. copied' = 0
    BY <1>3 DEF WriteHead, Counted, Before0
  <2>2. \A i \in 1..0 : FALSE
    OBVIOUS
  <2> QED
    BY <2>1, <2>2 DEF ChunksStand
<1>4. CASE CopyChunk
  <2> DEFINE k == copied + 1
             q(i) == PiecesIn(slots, chunks[i])
             before(i) == MediaBefore(chunks, i)
             p == pieces \o q(k)
  <2>1. /\ pc = "copy" /\ copied < Len(chunks) /\ copied' = k
        /\ chunks' = chunks /\ slots' = slots /\ pieces' = p
    BY <1>4, PiecesOfSlots DEF CopyChunk
  <2>2. /\ copied \in 0..Len(chunks) /\ pieces \in Seq(Piece) /\ SizesOfPieces(pieces) = before(k)
    BY <2>1 DEF Counted
  <2>3. AllStored(slots) /\ Len(chunks) \in Nat /\ \A i \in 1..Len(chunks) : ChunkHolds(slots, chunks[i])
    BY <2>1, KeptSlots, LayoutHolds DEF Before0
  <2>4. copied \in Nat /\ k \in 1..Len(chunks) /\ \A i \in 1..copied : i \in 1..Len(chunks)
    BY <2>1, <2>2, <2>3
  <2>5. \A i \in 1..Len(chunks) : q(i) \in Seq(Piece)
    BY <2>3, PiecesHold, PiecesOfSlots
  <2> HIDE DEF q
  <2>6. \A i \in 1..Len(chunks) : Len(q(i)) \in Nat
    BY <2>5
  <2>7. \A i \in 1..copied : \E at \in Nat : Stands(pieces, q(i), at, before(i))
    BY <2>1 DEF ChunksStand, q
  <2> HIDE DEF before, k
  <2>8. ASSUME NEW i \in 1..copied PROVE \E at \in Nat : Stands(p, q(i), at, before(i))
    <3>1. PICK at \in Nat : Stands(pieces, q(i), at, before(i))
      BY <2>7
    <3>2. q(k) \in Seq(Piece) /\ Len(q(i)) \in Nat
      BY <2>4, <2>5, <2>6
    <3>3. Stands(p, q(i), at, before(i))
      BY <2>2, <3>1, <3>2, StandsOn
    <3> QED
      BY <3>3
  <2>9. \E at \in Nat : Stands(p, q(k), at, before(k))
    <3>1. Stands(p, q(k), Len(pieces), SizesOfPieces(pieces))
      BY <2>2, <2>4, <2>5, StandsLast
    <3>2. Len(pieces) \in Nat
      BY <2>2
    <3> QED
      BY <2>2, <3>1, <3>2
  <2>10. \A i \in 1..k : i \in 1..copied \/ i = k
    BY <2>4 DEF k
  <2> HIDE DEF p
  <2>11. \A i \in 1..k : \E at \in Nat : Stands(p, q(i), at, before(i))
    BY <2>8, <2>9, <2>10
  <2> QED
    BY <2>1, <2>11 DEF ChunksStand, q, before
<1>5. CASE Finish
  BY <1>5 DEF ChunksStand, Finish
<1>6. CASE Fail
  BY <1>6 DEF ChunksStand, Fail
<1>7. CASE UNCHANGED vars
  BY <1>7 DEF ChunksStand, vars
<1> QED
  BY <1>1, <1>2, <1>3, <1>4, <1>5, <1>6, <1>7 DEF Next

-----------------------------------------------------------------------------
(* The piece a sample is in. *)

(* From the f-th number on, the numbers of g are those that x has after its first a. *)
Follows(x, a, m, g, f) == \A k \in 1..m : x[a + k] = g[f + k - 1]
SumsAlong(x, a, g, f, l) ==
    /\ Sum(x, 1..(a + l)) = Sum(x, 1..a) + Sum(g, f..(f + l - 1))
    /\ Sum(x, 1..a) \in Nat /\ Sum(g, f..(f + l - 1)) \in Nat

LEMMA SumAlong ==
    ASSUME NEW x, NEW a \in Nat, NEW m \in Nat, \A k \in 1..(a + m) : x[k] \in Nat,
           NEW g, NEW f \in Nat, Follows(x, a, m, g, f), NEW l \in 0..m
    PROVE  SumsAlong(x, a, g, f, l)
<1> DEFINE Good(j) == /\ Sum(x, 1..(a + j)) = Sum(x, 1..a) + Sum(g, f..(f + j - 1))
                      /\ Sum(g, f..(f + j - 1)) \in Nat
           T == {j \in 0..m : ~Good(j)}
<1>1. Sum(x, 1..a) \in Nat
  <2>1. \A k \in 1..a : x[k] \in Nat
    OBVIOUS
  <2> QED
    BY <2>1, SumUpTo
<1>2. Good(0)
  <2>1. Sum(g, f..(f - 1)) = 0
    BY SumEmpty
  <2>2. f + 0 - 1 = f - 1 /\ a + 0 = a
    OBVIOUS
  <2> QED
    BY <1>1, <2>1, <2>2
<1>3. \A y \in f..(f + m - 1) : g[y] \in Nat
  <2> SUFFICES ASSUME NEW y \in f..(f + m - 1) PROVE g[y] \in Nat
    OBVIOUS
  <2> DEFINE k == y - f + 1
  <2>1. k \in 1..m /\ f + k - 1 = y /\ a + k \in 1..(a + m)
    OBVIOUS
  <2> HIDE DEF k
  <2> QED
    BY <2>1 DEF Follows
<1>4. ASSUME NEW j \in 1..m, Good(j - 1) PROVE Good(j)
  <2>1. Sum(x, 1..(a + j)) = Sum(x, 1..(a + (j - 1))) + x[a + j] /\ x[a + j] \in Nat
    <3> DEFINE n == a + (j - 1)
    <3>1. n \in Nat /\ n + 1 = a + j /\ n + 1 \in 1..(a + m)
      OBVIOUS
    <3> HIDE DEF n
    <3>2. \A k \in 1..(n + 1) : x[k] \in Nat
      BY <3>1
    <3>3. Sum(x, 1..(n + 1)) = Sum(x, 1..n) + x[n + 1] /\ x[n + 1] \in Nat
      BY <3>1, <3>2, SumNext
    <3> QED
      BY <3>1, <3>3 DEF n
  <2>2. /\ Sum(g, f..(f + j - 1)) = Sum(g, f..(f + (j - 1) - 1)) + g[f + j - 1]
        /\ Sum(g, f..(f + j - 1)) \in Nat
    <3> DEFINE k == f + j - 1
    <3>1. k \in Nat /\ f <= k /\ k - 1 = f + (j - 1) - 1 /\ \A y \in f..k : y \in f..(f + m - 1)
      OBVIOUS
    <3> HIDE DEF k
    <3>2. \A y \in f..k : g[y] \in Nat
      BY <1>3, <3>1
    <3>3. Sum(g, f..k) = Sum(g, f..(k - 1)) + g[k] /\ Sum(g, f..k) \in Nat
      BY <3>1, <3>2, SumLast
    <3> QED
      BY <3>1, <3>3 DEF k
  <2> DEFINE p == Sum(x, 1..(a + (j - 1)))
             q == Sum(g, f..(f + (j - 1) - 1))
             e == x[a + j]
             u == Sum(x, 1..a)
             v == Sum(x, 1..(a + j))
             w == Sum(g, f..(f + j - 1))
  <2>3. p = u + q /\ q \in Nat /\ u \in Nat /\ e \in Nat /\ v = p + e /\ w \in Nat
    BY <1>1, <1>4, <2>1, <2>2
  <2>4. w = q + e
    BY <2>2 DEF Follows
  <2>5. v = u + w
    <3> HIDE DEF p, q, e, u, v, w
    <3> QED
      BY <2>3, <2>4
  <2> QED
    BY <2>3, <2>5
<1>5. T = {}
  <2> SUFFICES ASSUME T # {} PROVE FALSE
    OBVIOUS
  <2>1. T \subseteq Nat /\ T \subseteq 0..m /\ (\A j \in 0..m : j \in T <=> ~Good(j))
    OBVIOUS
  <2> HIDE DEF T, Good
  <2>2. PICK j \in T : \A y \in T : j <= y
    BY <2>1, Least
  <2>3. j \in 0..m /\ ~Good(j) /\ j # 0
    BY <1>2, <2>1, <2>2
  <2>4. j \in 1..m /\ j - 1 \in 0..m /\ ~(j <= j - 1)
    BY <2>3
  <2>5. Good(j - 1)
    BY <2>1, <2>2, <2>4
  <2> QED
    BY <1>4, <2>3, <2>4, <2>5
<1>6. Good(l)
  BY <1>5
<1> QED
  BY <1>1, <1>6 DEF SumsAlong

LEMMA SumWithin ==
    ASSUME NEW g, NEW f \in Nat, NEW j \in Nat, \A x \in f..j : g[x] \in Nat, NEW i \in f..j
    PROVE  /\ Sum(g, f..(i - 1)) + g[i] <= Sum(g, f..j)
           /\ Sum(g, f..(i - 1)) \in Nat /\ g[i] \in Nat /\ Sum(g, f..j) \in Nat
<1> DEFINE m == j - f + 1
           x == [k \in 1..m |-> g[f + k - 1]]
           l == i - f + 1
<1>1. m \in Nat /\ l \in 1..m /\ l - 1 \in 0..m /\ m \in 0..m
      /\ f + m - 1 = j /\ f + (l - 1) - 1 = i - 1 /\ f + l - 1 = i
  OBVIOUS
<1>2. \A k \in 1..m : f + k - 1 \in f..j
  OBVIOUS
<1>3. \A k \in 1..m : x[k] = g[f + k - 1] /\ x[k] \in Nat
  BY <1>2
<1> HIDE DEF x, m, l
<1>4. \A n \in 0..m : Sum(x, 1..n) = Sum(g, f..(f + n - 1)) /\ Sum(g, f..(f + n - 1)) \in Nat
  <2> SUFFICES ASSUME NEW n \in 0..m
               PROVE  Sum(x, 1..n) = Sum(g, f..(f + n - 1)) /\ Sum(g, f..(f + n - 1)) \in Nat
    OBVIOUS
  <2> DEFINE a == 0
  <2>1. a \in Nat /\ a + m = m /\ a + n = n /\ 1..a = 1..0 /\ \A k \in 1..m : a + k = k
    BY <1>1
  <2> HIDE DEF a
  <2>2. \A k \in 1..(a + m) : x[k] \in Nat
    BY <1>3, <2>1
  <2>3. Follows(x, a, m, g, f)
    BY <1>3, <2>1 DEF Follows
  <2>4. SumsAlong(x, a, g, f, n)
    BY <1>1, <2>1, <2>2, <2>3, SumAlong
  <2>5. Sum(x, 1..a) = 0
    BY <2>1, SumNone
  <2> QED
    BY <2>1, <2>4, <2>5 DEF SumsAlong
<1>5. Sum(x, 1..(l - 1)) = Sum(g, f..(i - 1)) /\ Sum(x, 1..m) = Sum(g, f..j) /\ Sum(g, f..j) \in Nat /\ x[l] = g[i]
  BY <1>1, <1>3, <1>4
<1>6. Sum(x, 1..(l - 1)) + x[l] <= Sum(x, 1..m) /\ Sum(x, 1..(l - 1)) \in Nat /\ x[l] \in Nat
  BY <1>1, <1>3, SumGrows
<1> QED
  BY <1>5, <1>6

(* Where a piece begins in the output. *)
Begin(copies, start, k) == start + Sum(PieceSizes(copies), 1..(k - 1))
InPiece(copies, start, k, offset, size) ==
    /\ k \in 1..Len(copies) /\ offset \in Nat
    /\ Begin(copies, start, k) <= offset /\ offset + size <= Begin(copies, start, k) + copies[k].size

LEMMA PieceApart ==
    ASSUME NEW copies \in Seq(Piece), NEW start \in Nat, NEW size \in Nat, size > 0, NEW offset,
           NEW k, NEW l, InPiece(copies, start, k, offset, size), InPiece(copies, start, l, offset, size)
    PROVE  ~(k < l)
<1> SUFFICES ASSUME k < l PROVE FALSE
  OBVIOUS
<1> DEFINE x == PieceSizes(copies)
           n == l - 1
           a == Sum(x, 1..(k - 1))
           b == Sum(x, 1..n)
<1>1. k \in 1..Len(copies) /\ l \in 1..Len(copies) /\ Len(copies) \in Nat
  BY DEF InPiece
<1>2. \A j \in 1..Len(copies) : x[j] = copies[j].size /\ x[j] \in Nat
  BY PieceSized
<1>3. n \in Nat /\ k \in 1..n /\ \A j \in 1..n : j \in 1..Len(copies)
  BY <1>1
<1>4. \A j \in 1..n : x[j] \in Nat
  BY <1>2, <1>3
<1> HIDE DEF x, n
<1>5. a \in Nat /\ b \in Nat /\ x[k] \in Nat /\ a + x[k] <= b
  BY <1>3, <1>4, SumGrows
<1>6. offset + size <= start + a + x[k] /\ start + b <= offset /\ offset \in Nat
  BY <1>1, <1>2 DEF InPiece, Begin, x, n
<1> HIDE DEF a, b
<1> QED
  BY <1>5, <1>6

LEMMA SourceIs ==
    ASSUME pieces \in Seq(Piece), layout.base \in Nat, NEW size \in Nat, size > 0, NEW offset,
           NEW k, InPiece(pieces, layout.base, k, offset, size)
    PROVE  SourceOf(offset, size) = {<<pieces[k].input, pieces[k].offset + (offset - Begin(pieces, layout.base, k))>>}
<1> DEFINE start(j) == layout.base + SumOf([i \in 1..(j - 1) |-> pieces[i].size])
           K == {j \in DOMAIN pieces : start(j) <= offset /\ offset + size <= start(j) + pieces[j].size}
<1>1. Len(pieces) \in Nat /\ DOMAIN pieces = 1..Len(pieces)
      /\ \A j \in 1..Len(pieces) : PieceSizes(pieces)[j] = pieces[j].size
  BY PieceSized
<1>2. ASSUME NEW j \in 1..Len(pieces) PROVE start(j) = Begin(pieces, layout.base, j)
  <2> DEFINE n == j - 1
             f == [i \in 1..n |-> pieces[i].size]
             x == PieceSizes(pieces)
  <2>1. n \in Nat /\ \A i \in 1..n : i \in 1..Len(pieces)
    BY <1>1
  <2>2. DOMAIN f = 1..n /\ \A i \in 1..n : f[i] = x[i]
    BY <1>1, <2>1
  <2> HIDE DEF f, x, n
  <2>3. SumOf(f) = Sum(f, 1..n)
    BY <2>2, SumByChoice DEF SumOf
  <2>4. Sum(f, 1..n) = Sum(x, 1..n)
    BY <2>1, <2>2, Numbers, SumSame
  <2> QED
    BY <2>3, <2>4 DEF Begin, f, x, n
<1>3. k \in 1..Len(pieces) /\ offset \in Nat
  BY DEF InPiece
<1>4. ASSUME NEW j \in DOMAIN pieces
      PROVE  /\ j \in 1..Len(pieces)
             /\ (start(j) <= offset /\ offset + size <= start(j) + pieces[j].size)
                <=> InPiece(pieces, layout.base, j, offset, size)
  BY <1>1, <1>2, <1>3 DEF InPiece
<1>5. K = {j \in DOMAIN pieces : InPiece(pieces, layout.base, j, offset, size)}
  <2> HIDE DEF start
  <2> QED
    BY <1>4
<1>6. ASSUME NEW j \in K PROVE j = k
  <2>1. InPiece(pieces, layout.base, j, offset, size) /\ j \in 1..Len(pieces)
    BY <1>5 DEF InPiece
  <2>2. ~(j < k) /\ ~(k < j)
    BY <2>1, PieceApart
  <2> QED
    BY <1>1, <1>3, <2>1, <2>2
<1>7. k \in K
  BY <1>1, <1>3, <1>5
<1>8. K = {k}
  <2> HIDE DEF K
  <2> QED
    BY <1>6, <1>7
<1>9. SourceOf(offset, size) = {<<pieces[j].input, pieces[j].offset + (offset - start(j))>> : j \in K}
  BY DEF SourceOf
<1>10. start(k) = Begin(pieces, layout.base, k)
  BY <1>2, <1>3
<1> HIDE DEF K, start
<1> QED
  BY <1>8, <1>9, <1>10

(* A sample is in a piece of its chunk, with the bytes it had in the source. *)
Found(copies, start, offset, size, input, from) ==
    \E k \in 1..Len(copies) : /\ InPiece(copies, start, k, offset, size)
                              /\ copies[k].input = input
                              /\ copies[k].offset + (offset - Begin(copies, start, k)) = from

LEMMA SampleFound ==
    ASSUME NEW kept, AllStored(kept), NEW c, ChunkHolds(kept, c), NEW copies \in Seq(Piece), NEW start \in Nat,
           NEW at, NEW media \in Nat, Stands(copies, PiecesIn(kept, c), at, media),
           NEW s, s = kept[c.slot].samples, NEW i \in c.first..(c.first + c.count - 1),
           NEW before, before = Sum(Sizes(s), c.first..(i - 1)), s[i].offset = s[c.first].offset + before
    PROVE  Found(copies, start, start + media + before, s[i].size, kept[c.slot].input, s[i].offset)
<1> DEFINE f == c.first
           m == c.count
           j == f + m - 1
           g == Sizes(s)
           run == RunOf(kept, c)
           input == kept[c.slot].input
           q == PiecesIn(kept, c)
           one == [input |-> input, offset |-> run[1].offset, size |-> c.bytes]
           each == [l \in DOMAIN run |-> [input |-> input, offset |-> run[l].offset, size |-> run[l].size]]
           x == PieceSizes(copies)
           o == start + media + before
<1>1. /\ DOMAIN run = 1..m /\ m \in Nat \ {0}
      /\ \A l \in 1..m : f + l - 1 \in f..j /\ f + l - 1 \in 1..Len(s) /\ run[l] = s[f + l - 1]
  BY RunIs
<1>2. c.slot \in 1..Len(kept) /\ f \in Firsts(s) /\ c.bytes = Sum(g, f..j) /\ c.bytes \in Nat /\ f \in Nat
  BY DEF ChunkHolds, IsChunk
<1>3. \A k \in 1..Len(s) : g[k] = s[k].size /\ g[k] \in Nat /\ s[k].offset \in Nat
  <2>1. \A k \in 1..Len(s) : g[k] = s[k].size /\ g[k] \in Nat
    BY <1>2, FirstsAre
  <2>2. Stored(kept[c.slot])
    BY <1>2 DEF AllStored
  <2> QED
    BY <2>1, <2>2 DEF Stored
<1>4. /\ at \in Nat /\ at + Len(q) <= Len(copies) /\ (\A k \in 1..Len(q) : copies[at + k] = q[k])
      /\ Sum(x, 1..at) = media
  BY DEF Stands
<1>5. Len(copies) \in Nat /\ \A k \in 1..Len(copies) : x[k] = copies[k].size /\ x[k] \in Nat
  BY PieceSized
<1>6. q = IF Contiguous(run) /\ c.bytes <= CopyBuffer THEN <<one>> ELSE each
  BY DEF PiecesIn
<1> HIDE DEF q, x, g, run, f, m
<1>7. j \in Nat /\ f <= j /\ i \in f..j /\ i \in Nat
  <2>1. i \in f..j
    BY DEF f, m
  <2> HIDE DEF j
  <2>2. j \in Nat
    BY <1>1, <1>2 DEF j
  <2> QED
    BY <1>2, <2>1, <2>2
<1>8. \A k \in f..j : k \in 1..Len(s)
  <2> SUFFICES ASSUME NEW k \in f..j PROVE k \in 1..Len(s)
    OBVIOUS
  <2>1. k - f + 1 \in 1..m /\ f + (k - f + 1) - 1 = k
    BY <1>1, <1>2
  <2> QED
    BY <1>1, <2>1
<1> HIDE DEF j
<1>9. before + g[i] <= c.bytes /\ before \in Nat /\ g[i] \in Nat /\ g[i] = s[i].size
  <2>1. \A k \in f..j : g[k] \in Nat
    BY <1>3, <1>8
  <2>2. /\ Sum(g, f..(i - 1)) + g[i] <= Sum(g, f..j)
        /\ Sum(g, f..(i - 1)) \in Nat /\ g[i] \in Nat /\ Sum(g, f..j) \in Nat
    BY <1>2, <1>7, <2>1, SumWithin
  <2>3. before = Sum(g, f..(i - 1))
    BY DEF g, f
  <2> QED
    BY <1>2, <1>3, <1>7, <1>8, <2>2, <2>3
<1>10. s[f].offset \in Nat /\ s[i].offset = s[f].offset + before
  <2>1. f \in 1..Len(s)
    BY <1>2, <1>7, <1>8
  <2> QED
    BY <1>3, <2>1 DEF f
<1>11. o \in Nat
  BY <1>9
<1> HIDE DEF o
<1>12. CASE q = <<one>>
  <2> DEFINE k == at + 1
  <2>1. Len(q) = 1 /\ q[1] = one
    BY <1>12
  <2>2. k \in 1..Len(copies) /\ copies[k] = one /\ k - 1 = at
    BY <1>4, <1>5, <2>1
  <2>3. Begin(copies, start, k) = start + media
    BY <1>4, <2>2 DEF Begin, x
  <2>4. one.offset = s[f].offset /\ one.size = c.bytes /\ one.input = input
    <3>1. 1 \in 1..m /\ f + 1 - 1 = f
      BY <1>1, <1>2
    <3>2. run[1] = s[f]
      BY <1>1, <3>1
    <3> QED
      BY <3>2
  <2> HIDE DEF k, one
  <2>5. start + media <= o /\ o + g[i] <= start + media + c.bytes /\ o - (start + media) = before
    BY <1>2, <1>9 DEF o
  <2>6. InPiece(copies, start, k, o, s[i].size)
    BY <1>9, <1>11, <2>2, <2>3, <2>4, <2>5 DEF InPiece
  <2>7. copies[k].input = input /\ copies[k].offset + (o - Begin(copies, start, k)) = s[i].offset
    BY <1>10, <2>2, <2>3, <2>4, <2>5
  <2> QED
    BY <2>2, <2>6, <2>7 DEF Found, o, input
<1>13. CASE q = each
  <2> DEFINE l == i - f + 1
             k == at + l
  <2>1. l \in 1..m /\ f + l - 1 = i /\ l - 1 \in 0..m /\ f + (l - 1) - 1 = i - 1
    <3>1. j = f + m - 1
      BY DEF j
    <3> HIDE DEF j
    <3> QED
      BY <1>1, <1>2, <1>7, <3>1
  <2> HIDE DEF l
  <2>2. Len(q) = m /\ \A y \in 1..m : q[y] = each[y]
    BY <1>1, <1>13
  <2>3. k \in 1..Len(copies) /\ copies[k] = each[l] /\ k - 1 = at + (l - 1)
    <3>1. copies[at + l] = q[l]
      BY <1>4, <2>1, <2>2
    <3>2. at + l \in 1..Len(copies) /\ at + l - 1 = at + (l - 1)
      BY <1>1, <1>4, <1>5, <2>1, <2>2
    <3> HIDE DEF each
    <3>3. q[l] = each[l]
      BY <2>1, <2>2
    <3>4. copies[k] = each[l]
      BY <3>1, <3>3
    <3>5. k \in 1..Len(copies) /\ k - 1 = at + (l - 1)
      BY <1>1, <1>4, <2>1, <3>2
    <3> QED
      BY <3>4, <3>5
  <2>4. each[l].input = input /\ each[l].offset = s[i].offset /\ each[l].size = g[i]
    BY <1>1, <1>9, <2>1
  <2>5. Sum(x, 1..(k - 1)) = media + before
    <3>1. \A y \in 1..(at + m) : x[y] \in Nat
      <4>1. \A y \in 1..(at + m) : y \in 1..Len(copies)
        BY <1>1, <1>4, <1>5, <2>2
      <4> QED
        BY <1>5, <4>1
    <3>2. ASSUME NEW y \in 1..m PROVE x[at + y] = g[f + y - 1]
      <4>1. at + y \in 1..Len(copies) /\ copies[at + y] = q[y]
        BY <1>1, <1>4, <1>5, <2>2
      <4>2. x[at + y] = each[y].size /\ each[y].size = run[y].size
        BY <1>1, <1>5, <2>2, <4>1
      <4>3. run[y] = s[f + y - 1] /\ g[f + y - 1] = s[f + y - 1].size
        BY <1>1, <1>3
      <4> QED
        BY <4>2, <4>3
    <3>3. Follows(x, at, m, g, f)
      BY <3>2 DEF Follows
    <3> DEFINE n == l - 1
    <3>4. n \in 0..m /\ m \in Nat
      BY <1>1, <2>1
    <3> HIDE DEF n
    <3>5. SumsAlong(x, at, g, f, n)
      BY <1>2, <1>4, <3>1, <3>3, <3>4, SumAlong
    <3>6. Sum(x, 1..(at + n)) = Sum(x, 1..at) + Sum(g, f..(f + n - 1))
      BY <3>5 DEF SumsAlong
    <3>7. Sum(g, f..(f + n - 1)) = before
      BY <2>1 DEF n, g, f
    <3> QED
      BY <1>4, <2>3, <3>6, <3>7 DEF n
  <2>6. Begin(copies, start, k) = o
    <3>1. Begin(copies, start, k) = start + Sum(x, 1..(k - 1))
      BY DEF Begin, x
    <3>2. o = start + (media + before)
      BY <1>9 DEF o
    <3> QED
      BY <2>5, <3>1, <3>2
  <2> HIDE DEF k, each
  <2>7. InPiece(copies, start, k, o, s[i].size)
    BY <1>9, <1>11, <2>3, <2>4, <2>6 DEF InPiece
  <2>8. copies[k].input = input /\ copies[k].offset + (o - Begin(copies, start, k)) = s[i].offset
    BY <1>9, <1>10, <1>11, <2>3, <2>4, <2>6
  <2> QED
    BY <2>3, <2>7, <2>8 DEF Found, o, input
<1> QED
  BY <1>6, <1>12, <1>13

LEMMA FoundSource ==
    ASSUME pieces \in Seq(Piece), layout.base \in Nat, NEW size \in Nat, size > 0, NEW offset, NEW input, NEW from,
           Found(pieces, layout.base, offset, size, input, from)
    PROVE  SourceOf(offset, size) = {<<input, from>>}
<1>1. PICK k \in 1..Len(pieces) : /\ InPiece(pieces, layout.base, k, offset, size)
                                  /\ pieces[k].input = input
                                  /\ pieces[k].offset + (offset - Begin(pieces, layout.base, k)) = from
  BY DEF Found
<1>2. SourceOf(offset, size) = {<<pieces[k].input, pieces[k].offset + (offset - Begin(pieces, layout.base, k))>>}
  BY <1>1, SourceIs
<1> QED
  BY <1>1, <1>2

LEMMA SamplesHold ==
    ASSUME Settled, Counted, ChunksStand PROVE SamplesSurvive
<1> SUFFICES ASSUME pc = "done", FirstHasTracks(request) PROVE SamplesSurvive
  BY DEF SamplesSurvive
<1> DEFINE traks == Traks(layout.moov)
           z(n) == Samples(Decoded(traks[n].stbl))
           s(n) == slots[n].samples
           base == layout.base
<1>1. pc \notin Before0
  BY DEF Before0
<1>2. /\ Len(traks) = Len(slots) /\ DOMAIN slots = 1..Len(slots)
      /\ \A n \in 1..Len(slots) : Survives(slots, chunks, base, n, traks[n])
  BY <1>1, TracksSurvive
<1>3. AllStored(slots) /\ chunks = Interleaved(slots)
  BY <1>1, KeptSlots
<1>4. /\ base \in Nat /\ Len(chunks) \in Nat
      /\ \A i \in 1..(Len(chunks) + 1) : MediaBefore(chunks, i) \in Nat
      /\ \A i \in 1..Len(chunks) : ChunkHolds(slots, chunks[i])
  BY <1>1, LayoutHolds
<1>5. copied = Len(chunks) /\ pieces \in Seq(Piece)
  BY DEF Counted
<1>6. \A i \in 1..Len(chunks) :
         \E at \in Nat : Stands(pieces, PiecesIn(slots, chunks[i]), at, MediaBefore(chunks, i))
  BY <1>5 DEF ChunksStand
<1>7. ASSUME NEW n \in 1..Len(slots)
      PROVE  /\ TrackError(traks[n]) = "none" /\ Len(z(n)) = Len(s(n)) /\ DOMAIN z(n) = 1..Len(s(n))
             /\ \A i \in 1..Len(s(n)) :
                  /\ SameSample(z(n)[i], s(n)[i]) /\ z(n)[i].size \in Nat
                  /\ \E p \in Mine(chunks, n) : IsAt(slots, chunks, base, p, z(n), s(n), i)
  <2>1. Survives(slots, chunks, base, n, traks[n])
    BY <1>2
  <2>2. \A i \in 1..Len(s(n)) : s(n)[i].size \in Nat
    BY <1>3 DEF AllStored, Stored
  <2>3. /\ TrackError(traks[n]) = "none" /\ Len(z(n)) = Len(s(n)) /\ DOMAIN z(n) = 1..Len(s(n))
        /\ \A i \in 1..Len(s(n)) : /\ SameSample(z(n)[i], s(n)[i])
                                   /\ \E p \in Mine(chunks, n) : IsAt(slots, chunks, base, p, z(n), s(n), i)
    BY <2>1 DEF Survives
  <2>4. \A i \in 1..Len(s(n)) : z(n)[i].size = s(n)[i].size
    BY <2>3 DEF SameSample
  <2> HIDE DEF z, s
  <2> QED
    BY <2>2, <2>3, <2>4
<1> HIDE DEF z, base
<1>8. ASSUME NEW n \in 1..Len(slots), NEW i \in 1..Len(s(n)), z(n)[i].size > 0
      PROVE  SourceOf(z(n)[i].offset, z(n)[i].size) = {<<slots[n].input, s(n)[i].offset>>}
  <2>1. PICK p \in Mine(chunks, n) : IsAt(slots, chunks, base, p, z(n), s(n), i)
    BY <1>7
  <2>2. p \in 1..Len(chunks) /\ chunks[p].slot = n
    BY <1>3, MineAre
  <2> DEFINE c == chunks[p]
             before == Sum(Sizes(s(n)), c.first..(i - 1))
             media == MediaBefore(chunks, p)
             size == s(n)[i].size
             offset == z(n)[i].offset
  <2>3. /\ i \in c.first..(c.first + c.count - 1)
        /\ offset = base + media + before
        /\ s(n)[i].offset = s(n)[c.first].offset + before
    BY <2>1 DEF IsAt
  <2>4. PICK at \in Nat : Stands(pieces, PiecesIn(slots, c), at, media)
    BY <1>6, <2>2
  <2>5. ChunkHolds(slots, c) /\ media \in Nat /\ s(n) = slots[c.slot].samples
    <3>1. p \in 1..(Len(chunks) + 1)
      BY <1>4, <2>2
    <3> QED
      BY <1>4, <2>2, <3>1
  <2>6. size = z(n)[i].size /\ size \in Nat /\ size > 0
    BY <1>7, <1>8 DEF SameSample
  <2> HIDE DEF c, media, s
  <2> DEFINE t == s(n)
  <2> HIDE DEF t
  <2>7. Found(pieces, base, base + media + before, t[i].size, slots[c.slot].input, t[i].offset)
    <3>1. t = slots[c.slot].samples /\ before = Sum(Sizes(t), c.first..(i - 1)) /\ t[i].offset = t[c.first].offset + before
      BY <2>3, <2>5 DEF t
    <3> HIDE DEF before
    <3> QED
      BY <1>3, <1>4, <1>5, <2>3, <2>4, <2>5, <3>1, SampleFound
  <2>8. Found(pieces, base, offset, size, slots[n].input, s(n)[i].offset)
    BY <2>2, <2>3, <2>7 DEF c, t
  <2> HIDE DEF size, offset
  <2>9. SourceOf(offset, size) = {<<slots[n].input, s(n)[i].offset>>}
    BY <1>4, <1>5, <2>6, <2>8, FoundSource DEF base
  <2> QED
    BY <2>6, <2>9 DEF offset
<1> HIDE DEF s, traks
<1>9. \A n \in 1..Len(slots) :
        /\ TrackError(traks[n]) = "none" /\ Len(z(n)) = Len(s(n))
        /\ \A i \in DOMAIN z(n) :
             /\ SameSample(z(n)[i], s(n)[i])
             /\ z(n)[i].size > 0 => SourceOf(z(n)[i].offset, z(n)[i].size) = {<<slots[n].input, s(n)[i].offset>>}
  BY <1>7, <1>8
<1> QED
  BY <1>2, <1>9 DEF SamplesSurvive, z, s, traks

(* After every chunk, each of those copied stands where the layout has it. *)
THEOREM AlwaysStanding == Spec => [](Settled /\ Counted /\ ChunksStand)
<1>1. Init => Settled /\ Counted /\ ChunksStand
  BY SettledInit, CountedInit, ChunksStandInit
<1>2. Settled /\ Counted /\ ChunksStand /\ [Next]_vars => (Settled /\ Counted /\ ChunksStand)'
  BY SettledStep, CountedStep, ChunksStandStep
<1> QED
  BY <1>1, <1>2, PTL DEF Spec

(* Whatever is kept and whatever the widths of the offsets and the order of the chunks, each track of the output
   reads, has the samples of its source in the same order and with the same times, and leads to their bytes:
   chunk_offsets, sample_table_box and copy_chunk of remux. *)
THEOREM SamplesAreKept == Spec => []SamplesSurvive
<1>1. Settled /\ Counted /\ ChunksStand => SamplesSurvive
  BY SamplesHold
<1> QED
  BY <1>1, AlwaysStanding, PTL

-----------------------------------------------------------------------------
(* Identifiers that are patched read back. *)

(* The word an identifier is patched in, behind a box header of eight bytes. *)
LEMMA PatchPlace ==
    ASSUME NEW words \in Seq(Nat), words # <<>>, VersionOf(words) \in {0, 1}
    PROVE  /\ PatchAt(8, words, 20, 28) = IF VersionOf(words) = 0 THEN 4 ELSE 6
           /\ PatchAt(8, words, 104, 116) = IF VersionOf(words) = 0 THEN 25 ELSE 28
<1> DEFINE h == <<8, 0>>
           box == BoxWords(8, words)
           v == VersionOf(words)
<1>1. h \in Seq(Nat) /\ Len(h) = 2
  OBVIOUS
<1>2. box = h \o words
  BY DEF BoxWords
<1>3. Len(words) \in Nat /\ 1 \in 1..Len(words)
  OBVIOUS
<1> HIDE DEF h
<1>4. box \in Seq(Nat) /\ Joins(box, h, words)
  BY <1>1, <1>2, Concat
<1>5. box[3] = words[1] /\ 3 \in DOMAIN box
  <2>1. box[2 + 1] = words[1] /\ Len(box) = 2 + Len(words)
    BY <1>1, <1>3, <1>4 DEF Joins
  <2> HIDE DEF box
  <2>2. 3 \in 1..Len(box)
    BY <1>3, <2>1
  <2> QED
    BY <1>4, <2>1, <2>2
<1>6. OrZero(box, 3) = v
  BY <1>5 DEF OrZero, VersionOf
<1> HIDE DEF box, v
<1>7. 20 \div 4 = 5 /\ 28 \div 4 = 7 /\ 104 \div 4 = 26 /\ 116 \div 4 = 29 /\ 8 \div 4 = 2
  OBVIOUS
<1>8. PatchAt(8, words, 20, 28) = ((IF v = 1 THEN 28 ELSE 20) \div 4 + 1) - 8 \div 4
  BY <1>6 DEF PatchAt, Word, box
<1>9. PatchAt(8, words, 104, 116) = ((IF v = 1 THEN 116 ELSE 104) \div 4 + 1) - 8 \div 4
  BY <1>6 DEF PatchAt, Word, box
<1>10. CASE v = 0
  BY <1>7, <1>8, <1>9, <1>10 DEF v
<1>11. CASE v = 1
  BY <1>7, <1>8, <1>9, <1>11 DEF v
<1> QED
  BY <1>10, <1>11 DEF v

LEMMA TrackReadsBack ==
    ASSUME NEW words \in Seq(Nat), Reads(words, Tkhd), NEW value \in Nat
    PROVE  TrackOf(PatchTrack(8, words, value)) = value
<1> DEFINE after == PatchTrack(8, words, value)
           v == VersionOf(words)
           at == PatchAt(8, words, 20, 28)
<1>1. IsPatched(after, words, at, value)
  <2>1. 8 \in {8, 16}
    OBVIOUS
  <2> QED
    BY <2>1, PatchTrackWords
<1>2. words # <<>> /\ v \in {0, 1} /\ Holds(words, Tkhd(v))
  BY DEF Reads
<1>3. at = IF v = 0 THEN 4 ELSE 6
  BY <1>2, PatchPlace
<1> HIDE DEF at, after
<1>4. Len(words) \in Nat /\ 1 \in 1..Len(words) /\ words[1] = v
  BY <1>2 DEF VersionOf
<1>5. /\ Len(after) = Len(words) /\ DOMAIN after = 1..Len(words) /\ after \in Seq(Nat)
      /\ \A i \in 1..Len(words) : after[i] = IF i = at THEN value ELSE words[i]
  <2>1. Nat \cup {value} = Nat
    OBVIOUS
  <2> QED
    BY <1>1, <2>1 DEF IsPatched
<1>6. VersionOf(after) = v /\ after # <<>>
  <2>1. at # 1
    BY <1>3
  <2>2. after[1] = words[1]
    BY <1>4, <1>5, <2>1
  <2>3. after # <<>>
    BY <1>4, <1>5
  <2> QED
    BY <1>4, <2>2, <2>3 DEF VersionOf
<1> HIDE DEF v
<1>7. Holds(after, Tkhd(v))
  BY <1>2, <1>5 DEF Holds
<1>8. Reads(after, Tkhd)
  BY <1>2, <1>6, <1>7 DEF Reads
<1>9. LET q == IF v = 0 THEN 3 ELSE 5 IN TrackOf(after) = after[q + 1] /\ q + 1 \in 1..Len(after)
  BY <1>5, <1>6, <1>8, TkhdField
<1>10. TrackOf(after) = after[at] /\ at \in 1..Len(words)
  <2>1. CASE v = 0
    BY <1>3, <1>5, <1>9, <2>1
  <2>2. CASE v = 1
    BY <1>3, <1>5, <1>9, <2>2
  <2> QED
    BY <1>2, <2>1, <2>2
<1> QED
  BY <1>5, <1>10 DEF after

(* The fields of a movie header, and their places. *)
MvhdNames ==
    {"version and flags", "creation time", "modification time", "timescale", "duration", "rate to predefined", "next track"}
MvhdFields == [name : MvhdNames, width : Nat]

LEMMA IsMvhdField ==
    ASSUME NEW name \in MvhdNames, NEW width \in Nat
    PROVE  Field(name, width) \in MvhdFields /\ Field(name, width).name = name /\ Field(name, width).width = width
BY DEF Field, MvhdFields

LEMMA FourFields ==
    ASSUME NEW F, NEW a \in F, NEW b \in F, NEW c \in F, NEW d \in F
    PROVE  LET s == <<a, b, c, d>> IN s \in Seq(F) /\ Len(s) = 4 /\ s[1] = a /\ s[2] = b /\ s[3] = c /\ s[4] = d
OBVIOUS

Seven(s, F, a, b, c, d, e, g, h) ==
    /\ s \in Seq(F) /\ Len(s) = 7 /\ DOMAIN s = 1..7
    /\ s[1] = a /\ s[2] = b /\ s[3] = c /\ s[4] = d /\ s[5] = e /\ s[6] = g /\ s[7] = h

LEMMA SevenFields ==
    ASSUME NEW F, NEW a \in F, NEW b \in F, NEW c \in F, NEW d \in F, NEW e \in F, NEW g \in F, NEW h \in F
    PROVE  Seven(<<a, b, c>> \o <<d, e, g, h>>, F, a, b, c, d, e, g, h)
<1> DEFINE s == <<a, b, c>>
           t == <<d, e, g, h>>
<1>1. s \in Seq(F) /\ Len(s) = 3 /\ s[1] = a /\ s[2] = b /\ s[3] = c
  BY ThreeFields
<1>2. t \in Seq(F) /\ Len(t) = 4 /\ t[1] = d /\ t[2] = e /\ t[3] = g /\ t[4] = h
  BY FourFields
<1> HIDE DEF s, t
<1>3. s \o t \in Seq(F) /\ Joins(s \o t, s, t)
  BY <1>1, <1>2, Concat
<1>4. Len(s \o t) = 7
  BY <1>1, <1>2, <1>3 DEF Joins
<1>5. DOMAIN (s \o t) = 1..7
  BY <1>3, <1>4
<1>6. (s \o t)[1] = a /\ (s \o t)[2] = b /\ (s \o t)[3] = c
  <2>1. 1 \in 1..3 /\ 2 \in 1..3 /\ 3 \in 1..3
    OBVIOUS
  <2> QED
    BY <1>1, <1>3, <2>1 DEF Joins
<1>7. (s \o t)[4] = d /\ (s \o t)[5] = e /\ (s \o t)[6] = g /\ (s \o t)[7] = h
  <2>1. 1 \in 1..4 /\ 2 \in 1..4 /\ 3 \in 1..4 /\ 4 \in 1..4
    OBVIOUS
  <2>2. \A x \in 1..4 : (s \o t)[3 + x] = t[x]
    BY <1>1, <1>2, <1>3 DEF Joins
  <2> DEFINE u == s \o t
  <2> HIDE DEF u
  <2>3. u[3 + 1] = t[1] /\ u[3 + 2] = t[2] /\ u[3 + 3] = t[3] /\ u[3 + 4] = t[4]
    BY <2>1, <2>2 DEF u
  <2>4. 3 + 1 = 4 /\ 3 + 2 = 5 /\ 3 + 3 = 6 /\ 3 + 4 = 7
    OBVIOUS
  <2> QED
    BY <1>2, <2>3, <2>4 DEF u
<1> QED
  BY <1>3, <1>4, <1>5, <1>6, <1>7 DEF s, t, Seven

LEMMA FirstSix ==
    ASSUME NEW w, NEW a \in Nat, NEW b \in Nat, NEW c \in Nat, NEW d \in Nat,
           w[1] = a, w[2] = b, w[3] = b, w[4] = c, w[5] = b, w[6] = d
    PROVE  Sum(w, 1..6) = a + 3 * b + c + d
<1>1. \A i \in 1..6 : w[i] \in Nat
  <2> SUFFICES ASSUME NEW i \in 1..6 PROVE w[i] \in Nat
    OBVIOUS
  <2>1. i = 1 \/ i = 2 \/ i = 3 \/ i = 4 \/ i = 5 \/ i = 6
    OBVIOUS
  <2> QED
    BY <2>1
<1>2. ASSUME NEW n \in 3..5 PROVE Sum(w, 1..(n + 1)) = Sum(w, 1..n) + w[n + 1]
  <2>1. n \in Nat /\ \A i \in 1..(n + 1) : w[i] \in Nat
    BY <1>1
  <2> QED
    BY <2>1, SumNext
<1>3. Sum(w, 1..3) = a + 2 * b
  BY FirstThree
<1>4. Sum(w, 1..(3 + 1)) = Sum(w, 1..3) + w[3 + 1]
  BY <1>2
<1>5. Sum(w, 1..(4 + 1)) = Sum(w, 1..4) + w[4 + 1]
  BY <1>2
<1>6. Sum(w, 1..(5 + 1)) = Sum(w, 1..5) + w[5 + 1]
  BY <1>2
<1>7. Sum(w, 1..4) = a + 2 * b + c
  BY <1>3, <1>4
<1>8. Sum(w, 1..5) = a + 2 * b + c + b
  BY <1>5, <1>7
<1>9. Sum(w, 1..6) = a + 2 * b + c + b + d
  BY <1>6, <1>8
<1> QED
  BY <1>9

LEMMA MvhdField ==
    ASSUME NEW mvhd \in Seq(Nat), Reads(mvhd, Mvhd)
    PROVE  LET q == IF VersionOf(mvhd) = 0 THEN 24 ELSE 27
           IN /\ VersionOf(mvhd) \in {0, 1}
              /\ NextTrackOf(mvhd) = mvhd[q + 1] /\ q + 1 \in 1..Len(mvhd)
<1> DEFINE v == VersionOf(mvhd)
           x == Versioned(v)
           F == MvhdFields
           q == IF v = 0 THEN 24 ELSE 27
           d == Mvhd(v)
           wide == 4 + 2 + 10 + 36 + 24
           four == 4
           a1 == Field("version and flags", four)
           a2 == Field("creation time", x)
           a3 == Field("modification time", x)
           a4 == Field("timescale", four)
           a5 == Field("duration", x)
           a6 == Field("rate to predefined", wide)
           a7 == Field("next track", four)
<1>1. v \in {0, 1} /\ Holds(mvhd, d)
  BY DEF Reads
<1>2. x \in Nat /\ wide \in Nat /\ q \in Nat /\ 4 + 3 * x + 4 + wide = 4 * q
  BY <1>1 DEF Versioned
<1>3. d = <<a1, a2, a3>> \o <<a4, a5, a6, a7>>
  BY DEF Mvhd, Times
<1>13. wide \in Nat
  BY <1>2
<1>14. four \in Nat /\ four = 4
  OBVIOUS
<1> HIDE DEF x, wide, four
<1>4. /\ a1 \in F /\ a2 \in F /\ a3 \in F /\ a4 \in F /\ a5 \in F /\ a6 \in F /\ a7 \in F
      /\ a1.name = "version and flags" /\ a2.name = "creation time" /\ a3.name = "modification time"
      /\ a4.name = "timescale" /\ a5.name = "duration" /\ a6.name = "rate to predefined" /\ a7.name = "next track"
      /\ a1.width = four /\ a2.width = x /\ a3.width = x /\ a4.width = four /\ a5.width = x /\ a6.width = wide /\ a7.width = four
  <2>1. /\ "version and flags" \in MvhdNames /\ "creation time" \in MvhdNames /\ "modification time" \in MvhdNames
        /\ "timescale" \in MvhdNames /\ "duration" \in MvhdNames /\ "rate to predefined" \in MvhdNames
        /\ "next track" \in MvhdNames
    BY DEF MvhdNames
  <2>2. \A name \in MvhdNames : \A width \in Nat :
          /\ Field(name, width) \in MvhdFields /\ Field(name, width).name = name /\ Field(name, width).width = width
    BY IsMvhdField
  <2>3. four \in Nat /\ x \in Nat /\ wide \in Nat
    BY <1>2, <1>13, <1>14
  <2>4. a1 \in F /\ a1.name = "version and flags" /\ a1.width = four
    BY <2>1, <2>2, <2>3
  <2>5. a2 \in F /\ a2.name = "creation time" /\ a2.width = x
    BY <2>1, <2>2, <2>3
  <2>6. a3 \in F /\ a3.name = "modification time" /\ a3.width = x
    BY <2>1, <2>2, <2>3
  <2>7. a4 \in F /\ a4.name = "timescale" /\ a4.width = four
    BY <2>1, <2>2, <2>3
  <2>8. a5 \in F /\ a5.name = "duration" /\ a5.width = x
    BY <2>1, <2>2, <2>3
  <2>9. a6 \in F /\ a6.name = "rate to predefined" /\ a6.width = wide
    BY <2>1, <2>2, <2>3
  <2>10. a7 \in F /\ a7.name = "next track" /\ a7.width = four
    BY <2>1, <2>2, <2>3
  <2> HIDE DEF F, a1, a2, a3, a4, a5, a6, a7
  <2> QED
    BY <2>4, <2>5, <2>6, <2>7, <2>8, <2>9, <2>10
<1> HIDE DEF F, d, a1, a2, a3, a4, a5, a6, a7
<1>5. /\ d \in Seq(F) /\ Len(d) = 7 /\ DOMAIN d = 1..7
      /\ d[1] = a1 /\ d[2] = a2 /\ d[3] = a3 /\ d[4] = a4 /\ d[5] = a5 /\ d[6] = a6 /\ d[7] = a7
  <2>1. Seven(<<a1, a2, a3>> \o <<a4, a5, a6, a7>>, F, a1, a2, a3, a4, a5, a6, a7)
    BY <1>4, SevenFields
  <2>2. Seven(d, F, a1, a2, a3, a4, a5, a6, a7)
    BY <1>3, <2>1
  <2> QED
    BY <2>2 DEF Seven
<1>6. \A i \in 1..7 : i = 1 \/ i = 2 \/ i = 3 \/ i = 4 \/ i = 5 \/ i = 6 \/ i = 7
  OBVIOUS
<1>7. IsLayout(d, 7)
  <2>3. \A f \in F : f.width \in Nat
    BY DEF F, MvhdFields
  <2>2. ASSUME NEW i \in 1..7 PROVE d[i] \in F
    <3>1. d[1] \in F /\ d[2] \in F /\ d[3] \in F /\ d[4] \in F /\ d[5] \in F /\ d[6] \in F /\ d[7] \in F
      BY <1>4, <1>5
    <3> QED
      BY <1>6, <3>1
  <2>1. \A i \in 1..7 : d[i].width \in Nat
    BY <2>2, <2>3
  <2> QED
    BY <1>5, <2>1 DEF IsLayout
<1>8. FieldIs(d, "next track", 7)
  <2>2. /\ d[1].name = "version and flags" /\ d[2].name = "creation time" /\ d[3].name = "modification time"
        /\ d[4].name = "timescale" /\ d[5].name = "duration" /\ d[6].name = "rate to predefined"
        /\ d[7].name = "next track"
    BY <1>4, <1>5
  <2>3. /\ d[1].name # "next track" /\ d[2].name # "next track" /\ d[3].name # "next track"
        /\ d[4].name # "next track" /\ d[5].name # "next track" /\ d[6].name # "next track"
    BY <2>2
  <2>1. ASSUME NEW i \in 1..7 PROVE d[i].name = "next track" <=> i = 7
    BY <1>6, <2>2, <2>3
  <2>4. 7 \in DOMAIN d /\ \A i \in DOMAIN d : d[i].name = "next track" <=> i = 7
    <3>1. DOMAIN d = 1..7 /\ 7 \in 1..7
      BY <1>5
    <3> QED
      BY <2>1, <3>1
  <2> QED
    BY <2>4 DEF FieldIs
<1>9. Sum(Widths(d), 1..6) = 4 * q
  <2> DEFINE w == Widths(d)
  <2>1. w[1] = 4 /\ w[2] = x /\ w[3] = x /\ w[4] = 4 /\ w[5] = x /\ w[6] = wide
    <3>1. w = [i \in 1..7 |-> d[i].width]
      BY <1>5 DEF Widths
    <3> HIDE DEF w
    <3>2. w[1] = d[1].width /\ w[2] = d[2].width /\ w[3] = d[3].width /\ w[4] = d[4].width /\ w[5] = d[5].width
          /\ w[6] = d[6].width
      BY <3>1
    <3> QED
      BY <1>4, <1>5, <1>14, <3>2
  <2> HIDE DEF w
  <2>2. Sum(w, 1..6) = 4 + 3 * x + 4 + wide
    BY <1>2, <2>1, FirstSix
  <2> QED
    BY <1>2, <2>2 DEF w
<1>10. d[7].width = 4 /\ d \in Seq({d[i] : i \in DOMAIN d})
  <2>1. d = [i \in 1..7 |-> d[i]] /\ \A i \in 1..7 : d[i] \in {d[j] : j \in DOMAIN d}
    BY <1>5
  <2>2. 7 \in Nat
    OBVIOUS
  <2>3. d \in Seq({d[j] : j \in DOMAIN d})
    BY <2>1, <2>2, AllOf
  <2> QED
    BY <1>4, <1>5, <1>14, <2>3
<1>11. Get(mvhd, d, "next track") = mvhd[q + 1] /\ q + 1 \in 1..Len(mvhd)
  <2>1. Sum(Widths(d), 1..(7 - 1)) = 4 * q /\ Len(mvhd) \in Nat /\ q \in Nat
    BY <1>2, <1>9
  <2> HIDE DEF q
  <2> QED
    BY <1>1, <1>7, <1>8, <1>10, <2>1, FieldInside
<1> QED
  BY <1>1, <1>11 DEF NextTrackOf, d

(* The number that is patched is the one a reader of the output finds, if it finds any. *)
LEMMA NextReadsBack ==
    ASSUME NEW words \in Seq(Nat), NEW value \in Nat, Reads(PatchNextTrack(8, words, value), Mvhd)
    PROVE  NextTrackOf(PatchNextTrack(8, words, value)) = value
<1> DEFINE after == PatchNextTrack(8, words, value)
           v == VersionOf(after)
           at == PatchAt(8, words, 104, 116)
<1>1. IsPatched(after, words, at, value)
  <2>1. 8 \in {8, 16}
    OBVIOUS
  <2> QED
    BY <2>1, PatchNextWords
<1>2. after # <<>> /\ v \in {0, 1} /\ Holds(after, Mvhd(v)) /\ Reads(after, Mvhd)
  BY DEF Reads
<1> HIDE DEF after
<1>3. /\ Len(after) = Len(words) /\ DOMAIN after = 1..Len(words) /\ after \in Seq(Nat) /\ Len(words) \in Nat
      /\ \A i \in 1..Len(words) : after[i] = IF i = at THEN value ELSE words[i]
  <2>1. Nat \cup {value} = Nat
    OBVIOUS
  <2> QED
    BY <1>1, <2>1 DEF IsPatched
<1>4. 1 \in 1..Len(words) /\ words # <<>>
  BY <1>2, <1>3
<1>5. at # 1
  <2> DEFINE n == IF OrZero(BoxWords(8, words), 3) = 1 THEN 116 ELSE 104
  <2>1. at = (n \div 4 + 1) - 8 \div 4
    BY DEF PatchAt, Word
  <2>2. n = 116 \/ n = 104
    OBVIOUS
  <2> HIDE DEF n, at
  <2>3. 104 \div 4 = 26 /\ 116 \div 4 = 29 /\ 8 \div 4 = 2
    OBVIOUS
  <2> QED
    BY <2>1, <2>2, <2>3
<1>6. VersionOf(words) = v
  BY <1>3, <1>4, <1>5 DEF VersionOf
<1>7. at = IF v = 0 THEN 25 ELSE 28
  BY <1>2, <1>4, <1>6, PatchPlace
<1> HIDE DEF at
<1>8. LET q == IF v = 0 THEN 24 ELSE 27 IN NextTrackOf(after) = after[q + 1] /\ q + 1 \in 1..Len(after)
  BY <1>2, <1>3, MvhdField
<1> HIDE DEF v
<1>9. NextTrackOf(after) = after[at] /\ at \in 1..Len(words)
  <2>1. CASE v = 0
    BY <1>3, <1>7, <1>8, <2>1
  <2>2. CASE v = 1
    BY <1>3, <1>7, <1>8, <2>2
  <2> QED
    BY <1>2, <2>1, <2>2
<1> QED
  BY <1>3, <1>9 DEF after

-----------------------------------------------------------------------------
(* Sequences whose elements differ, put end to end. *)

Distinct(c) == \A x, y \in 1..Len(c) : c[x] = c[y] => x = y
AllApart(s) == \A i, j \in 1..Len(s) : \A k \in 1..Len(s[i]) : \A l \in 1..Len(s[j]) :
                 s[i][k] = s[j][l] => i = j /\ k = l
ComesFrom(c, s, m) == \A x \in 1..Len(c) : \E i \in 1..m : \E k \in 1..Len(s[i]) : c[x] = s[i][k]

LEMMA ConcatApart ==
    ASSUME NEW S, NEW a \in Seq(S), NEW b \in Seq(S), Distinct(a), Distinct(b),
           \A x \in 1..Len(a) : \A y \in 1..Len(b) : a[x] # b[y]
    PROVE  Distinct(a \o b)
<1> DEFINE c == a \o b
<1>1. Joins(c, a, b)
  BY Concat
<1> HIDE DEF c
<1> SUFFICES ASSUME NEW x \in 1..Len(c), NEW y \in 1..Len(c), c[x] = c[y] PROVE x = y
  BY DEF Distinct, c
<1>2. CASE x \in 1..Len(a) /\ y \in 1..Len(a)
  BY <1>1, <1>2 DEF Joins, Distinct
<1>3. CASE x \in 1..Len(a) /\ y \notin 1..Len(a)
  <2>1. PICK l \in 1..Len(b) : y = Len(a) + l
    BY <1>1, <1>3 DEF Joins
  <2>2. c[x] = a[x] /\ c[y] = b[l]
    BY <1>1, <1>3, <2>1 DEF Joins
  <2> QED
    BY <1>3, <2>2
<1>4. CASE x \notin 1..Len(a) /\ y \in 1..Len(a)
  <2>1. PICK l \in 1..Len(b) : x = Len(a) + l
    BY <1>1, <1>4 DEF Joins
  <2>2. c[y] = a[y] /\ c[x] = b[l]
    BY <1>1, <1>4, <2>1 DEF Joins
  <2> QED
    BY <1>4, <2>2
<1>5. CASE x \notin 1..Len(a) /\ y \notin 1..Len(a)
  <2>1. PICK k \in 1..Len(b) : x = Len(a) + k
    BY <1>1, <1>5 DEF Joins
  <2>2. PICK l \in 1..Len(b) : y = Len(a) + l
    BY <1>1, <1>5 DEF Joins
  <2>3. c[x] = b[k] /\ c[y] = b[l]
    BY <1>1, <2>1, <2>2 DEF Joins
  <2>4. k = l
    BY <2>3 DEF Distinct
  <2> QED
    BY <2>1, <2>2, <2>4
<1> QED
  BY <1>2, <1>3, <1>4, <1>5

LEMMA ConcatFrom ==
    ASSUME NEW S, NEW a \in Seq(S), NEW s, NEW m \in Nat, m # 0, s[m] \in Seq(S), ComesFrom(a, s, m - 1)
    PROVE  ComesFrom(a \o s[m], s, m)
<1> DEFINE c == a \o s[m]
<1>1. Joins(c, a, s[m])
  BY Concat
<1> HIDE DEF c
<1> SUFFICES ASSUME NEW x \in 1..Len(c) PROVE \E i \in 1..m : \E k \in 1..Len(s[i]) : c[x] = s[i][k]
  BY DEF ComesFrom, c
<1>2. CASE x \in 1..Len(a)
  <2>1. PICK i \in 1..(m - 1) : \E k \in 1..Len(s[i]) : a[x] = s[i][k]
    BY <1>2 DEF ComesFrom
  <2>2. i \in 1..m
    OBVIOUS
  <2>3. c[x] = a[x]
    BY <1>1, <1>2 DEF Joins
  <2> QED
    BY <2>1, <2>2, <2>3
<1>3. CASE x \notin 1..Len(a)
  <2>1. PICK k \in 1..Len(s[m]) : x = Len(a) + k
    BY <1>1, <1>3 DEF Joins
  <2>2. c[x] = s[m][k]
    BY <1>1, <2>1 DEF Joins
  <2>3. m \in 1..m
    OBVIOUS
  <2> QED
    BY <2>1, <2>2, <2>3
<1> QED
  BY <1>2, <1>3

LEMMA FlattenApart ==
    ASSUME NEW S, NEW s \in Seq(Seq(S)), AllApart(s)
    PROVE  Distinct(FlattenSeq(s))
<1> DEFINE n == Len(s)
<1>0. n \in Nat /\ \A i \in 1..n : s[i] \in Seq(S)
  OBVIOUS
<1>1. CASE n = 0
  <2>1. FlattenSeq(s) = s /\ Len(s) = 0
    BY <1>1 DEF FlattenSeq
  <2> QED
    BY <2>1 DEF Distinct
<1>2. CASE n # 0
  <2> HIDE DEF n
  <2>1. PICK f : Flattens(f, s, n) /\ FlattenSeq(s) = f[n]
    BY <1>0, <1>2, FlattenSteps DEF n
  <2> DEFINE Good(m) == f[m] \in Seq(S) /\ Distinct(f[m]) /\ ComesFrom(f[m], s, m)
             T == {m \in 1..n : ~Good(m)}
  <2>2. \A m \in 1..n : Distinct(s[m])
    BY <1>0 DEF AllApart, Distinct, n
  <2>3. ASSUME T # {} PROVE FALSE
    <3>1. T \subseteq Nat
      BY <1>0
    <3>2. PICK m \in T : \A y \in T : m <= y
      BY <2>3, <3>1, Least
    <3>3. m \in 1..n /\ ~Good(m)
      OBVIOUS
    <3>4. CASE m = 1
      <4>1. f[m] = s[m]
        BY <2>1, <3>3, <3>4 DEF Flattens
      <4>2. s[m] \in Seq(S) /\ m \in 1..m /\ Distinct(s[m])
        BY <1>0, <2>2, <3>3, <3>4
      <4>3. ComesFrom(f[m], s, m)
        BY <4>1, <4>2 DEF ComesFrom
      <4> QED
        BY <3>3, <4>1, <4>2, <4>3
    <3>5. CASE m # 1
      <4>1. f[m] = f[m - 1] \o s[m]
        BY <2>1, <3>3, <3>5 DEF Flattens
      <4>2. m - 1 \in 1..n /\ m - 1 \notin T /\ m \in Nat /\ m # 0
        BY <1>0, <3>2, <3>3, <3>5
      <4>3. Good(m - 1)
        BY <4>2
      <4> DEFINE a == f[m - 1]
                 b == s[m]
      <4>4. a \in Seq(S) /\ b \in Seq(S) /\ Distinct(a) /\ Distinct(b) /\ ComesFrom(a, s, m - 1)
        BY <1>0, <2>2, <3>3, <4>3
      <4>5. ASSUME NEW x \in 1..Len(a), NEW y \in 1..Len(b) PROVE a[x] # b[y]
        <5>1. PICK i \in 1..(m - 1) : \E k \in 1..Len(s[i]) : a[x] = s[i][k]
          BY <4>4 DEF ComesFrom
        <5>2. PICK k \in 1..Len(s[i]) : a[x] = s[i][k]
          BY <5>1
        <5>3. i \in 1..n /\ m \in 1..n /\ i # m
          BY <1>0, <3>3, <4>2
        <5>4. s[i][k] # s[m][y]
          BY <5>2, <5>3 DEF AllApart, n
        <5> QED
          BY <5>2, <5>4
      <4> HIDE DEF a, b
      <4>6. Distinct(a \o b)
        BY <4>4, <4>5, ConcatApart
      <4>7. ComesFrom(a \o b, s, m)
        BY <4>2, <4>4, ConcatFrom DEF b
      <4>8. a \o b \in Seq(S)
        BY <4>4, Concat
      <4> QED
        BY <3>3, <4>1, <4>6, <4>7, <4>8 DEF a, b
    <3> QED
      BY <3>4, <3>5
  <2>4. Good(n)
    <3>1. n \in 1..n
      BY <1>0, <1>2
    <3> QED
      BY <2>3, <3>1
  <2> QED
    BY <2>1, <2>4
<1> QED
  BY <1>1, <1>2

-----------------------------------------------------------------------------
(* The tracks kept are different tracks, and in a plain request bear different identifiers. *)

LEMMA SlotsApart ==
    ASSUME NEW r, IsRequest(r), Errors(r) = {}
    PROVE  Distinct(Select(r))
<1> DEFINE s == SlotsOf(r)
<1>1. Select(r) = FlattenSeq(s) /\ Len(s) = Len(r.inputs) /\ Len(r.inputs) \in Nat /\ \E S : s \in Seq(Seq(S))
  BY SelectFlattens
<1>2. PICK S : s \in Seq(Seq(S))
  BY <1>1
<1>3. DOMAIN r.inputs = 1..Len(r.inputs)
  BY SequencePlaces DEF IsRequest
<1>4. \A n \in 1..Len(s) :
        /\ DOMAIN s[n] = DOMAIN r.inputs[n].tracks /\ DOMAIN s[n] = 1..Len(s[n])
        /\ \A k \in DOMAIN s[n] : s[n][k] = SlotOf(r, n, r.inputs[n].tracks[k])
  <2> SUFFICES ASSUME NEW n \in 1..Len(s)
               PROVE  /\ DOMAIN s[n] = DOMAIN r.inputs[n].tracks /\ DOMAIN s[n] = 1..Len(s[n])
                      /\ \A k \in DOMAIN s[n] : s[n][k] = SlotOf(r, n, r.inputs[n].tracks[k])
    OBVIOUS
  <2>1. s[n] = [k \in DOMAIN r.inputs[n].tracks |-> SlotOf(r, n, r.inputs[n].tracks[k])]
    BY <1>1, <1>3 DEF SlotsOf
  <2> HIDE DEF s
  <2>2. s[n] \in Seq(S)
    BY <1>2
  <2>3. DOMAIN s[n] = 1..Len(s[n])
    BY <2>2
  <2> QED
    BY <2>1, <2>3
<1>5. AllApart(s)
  <2> HIDE DEF s
  <2> SUFFICES ASSUME NEW i \in 1..Len(s), NEW j \in 1..Len(s), NEW k \in 1..Len(s[i]), NEW l \in 1..Len(s[j]),
                      s[i][k] = s[j][l]
               PROVE  i = j /\ k = l
    BY DEF AllApart
  <2>1. /\ k \in DOMAIN r.inputs[i].tracks /\ s[i][k] = SlotOf(r, i, r.inputs[i].tracks[k])
        /\ l \in DOMAIN r.inputs[j].tracks /\ s[j][l] = SlotOf(r, j, r.inputs[j].tracks[l])
    BY <1>4
  <2>2. \A n, index : SlotOf(r, n, index).input = n /\ SlotOf(r, n, index).index = index
    BY DEF SlotOf
  <2>3. i = j /\ r.inputs[i].tracks[k] = r.inputs[j].tracks[l]
    <3> DEFINE p == r.inputs[i].tracks[k]
               q == r.inputs[j].tracks[l]
    <3>1. s[i][k] = SlotOf(r, i, p) /\ s[j][l] = SlotOf(r, j, q)
      BY <2>1
    <3> HIDE DEF p, q
    <3>2. SlotOf(r, i, p).input = i /\ SlotOf(r, i, p).index = p
      BY <2>2
    <3>3. SlotOf(r, j, q).input = j /\ SlotOf(r, j, q).index = q
      BY <2>2
    <3>5. SlotOf(r, i, p) = SlotOf(r, j, q)
      BY <3>1
    <3>4. i = j /\ p = q
      BY <3>2, <3>3, <3>5
    <3> QED
      BY <3>4 DEF p, q
  <2>4. i \in DOMAIN r.inputs
    BY <1>1, <1>3
  <2> DEFINE t == r.inputs[i].tracks
  <2>5. \A x \in DOMAIN t : \A y \in 1..(x - 1) : t[y] # t[x]
    BY <2>4, NoError
  <2>6. k \in DOMAIN t /\ l \in DOMAIN t /\ t[k] = t[l]
    BY <2>1, <2>3
  <2>7. k \in Nat /\ l \in Nat /\ k >= 1 /\ l >= 1
    <3>1. t \in Seq(Nat)
      BY <2>4 DEF IsRequest, IsInput
    <3> HIDE DEF t
    <3>2. DOMAIN t = 1..Len(t)
      BY <3>1
    <3> QED
      BY <2>6, <3>2
  <2> HIDE DEF t
  <2>8. CASE k < l
    <3>1. k \in 1..(l - 1)
      BY <2>7, <2>8
    <3> QED
      BY <2>5, <2>6, <3>1
  <2>9. CASE l < k
    <3>1. l \in 1..(k - 1)
      BY <2>7, <2>9
    <3> QED
      BY <2>5, <2>6, <3>1
  <2> QED
    BY <2>3, <2>7, <2>8, <2>9
<1> HIDE DEF s
<1> QED
  BY <1>1, <1>2, <1>5, FlattenApart

LEMMA SourcesApart ==
    ASSUME NEW r, IsRequest(r), Errors(r) = {}, Plain(r),
           NEW x \in DOMAIN Select(r), NEW y \in DOMAIN Select(r),
           Select(r)[x].input = Select(r)[y].input, Select(r)[x].source = Select(r)[y].source
    PROVE  x = y
<1> DEFINE c == Select(r)
           a == c[x]
           b == c[y]
<1>1. KeptFrom(r, a) /\ KeptFrom(r, b) /\ DOMAIN c = 1..Len(c)
  BY SelectFlattens
<1>2. PICK n \in DOMAIN r.inputs : \E k \in DOMAIN r.inputs[n].tracks : a = SlotOf(r, n, r.inputs[n].tracks[k])
  BY <1>1 DEF KeptFrom
<1>3. PICK k \in DOMAIN r.inputs[n].tracks : a = SlotOf(r, n, r.inputs[n].tracks[k])
  BY <1>2
<1>4. PICK m \in DOMAIN r.inputs : \E l \in DOMAIN r.inputs[m].tracks : b = SlotOf(r, m, r.inputs[m].tracks[l])
  BY <1>1 DEF KeptFrom
<1>5. PICK l \in DOMAIN r.inputs[m].tracks : b = SlotOf(r, m, r.inputs[m].tracks[l])
  BY <1>4
<1> DEFINE traks == Traks(r.inputs[n].moov)
           i == r.inputs[n].tracks[k]
           j == r.inputs[m].tracks[l]
<1> HIDE DEF c
<1>6. \A o, p : /\ SlotOf(r, o, p).input = o
                /\ SlotOf(r, o, p).source = TrackOf(Traks(r.inputs[o].moov)[p].headers["tkhd"])
  BY DEF SlotOf
<1>7. n = m
  <2>1. a.input = n /\ b.input = m
    BY <1>3, <1>5, <1>6
  <2> QED
    BY <2>1 DEF c
<1>8. TrackOf(traks[i].headers["tkhd"]) = TrackOf(traks[j].headers["tkhd"])
  <2>1. a.source = TrackOf(traks[i].headers["tkhd"])
    BY <1>3, <1>6
  <2>2. b.source = TrackOf(traks[j].headers["tkhd"])
    BY <1>5, <1>6, <1>7
  <2> QED
    BY <2>1, <2>2 DEF c
<1>9. i \in DOMAIN traks /\ j \in DOMAIN traks
  <2>1. i \in DOMAIN traks
    BY <1>3, NoError
  <2>2. j \in DOMAIN Traks(r.inputs[m].moov)
    BY <1>5, NoError
  <2> QED
    BY <1>7, <2>1, <2>2
<1>10. \A p \in DOMAIN traks : \A q \in 1..(p - 1) :
         TrackOf(traks[q].headers["tkhd"]) # TrackOf(traks[p].headers["tkhd"])
  BY DEF Plain
<1>11. i \in Nat /\ j \in Nat /\ i >= 1 /\ j >= 1
  <2>1. IsSequence(r.inputs[n].moov)
    BY DEF IsRequest, IsInput
  <2>2. /\ DOMAIN traks = 1..Cardinality(TrakPlaces(r.inputs[n].moov))
        /\ Cardinality(TrakPlaces(r.inputs[n].moov)) \in Nat
    BY <2>1, TraksFound
  <2> HIDE DEF traks, i, j
  <2> QED
    BY <1>9, <2>2
<1>12. i = j
  <2> HIDE DEF i, j, traks
  <2>1. CASE i < j
    <3>1. i \in 1..(j - 1)
      BY <1>11, <2>1
    <3> QED
      BY <1>8, <1>9, <1>10, <3>1
  <2>2. CASE j < i
    <3>1. j \in 1..(i - 1)
      BY <1>11, <2>2
    <3> QED
      BY <1>8, <1>9, <1>10, <3>1
  <2> QED
    BY <1>11, <2>1, <2>2
<1>13. c[x] = c[y]
  BY <1>3, <1>5, <1>7, <1>12
<1>14. Distinct(c)
  BY SlotsApart DEF c
<1>15. x \in 1..Len(c) /\ y \in 1..Len(c)
  BY <1>1 DEF c
<1> QED
  BY <1>13, <1>14, <1>15 DEF Distinct

-----------------------------------------------------------------------------
(* Leaving out empty sequences changes nothing when they are put end to end. *)

LEMMA FlattenSome ==
    ASSUME NEW S, NEW a \in Seq(Seq(S)), NEW P \in SUBSET DOMAIN a, \A k \in DOMAIN a : k \notin P => a[k] = <<>>
    PROVE  FlattenSeq(At(a, P)) = FlattenSeq(a) /\ At(a, P) \in Seq(Seq(S))
<1> DEFINE n == Len(a)
           p == Cardinality(P)
           z == Sorted(P)
           b == At(a, P)
<1>1. /\ n \in Nat /\ DOMAIN a = 1..n /\ IsFiniteSet(P) /\ (\A i \in P : i \in Nat)
      /\ \A i \in 1..n : a[i] \in Seq(S)
  <2>1. n \in Nat /\ DOMAIN a = 1..n /\ IsFiniteSet(DOMAIN a) /\ \A i \in 1..n : a[i] \in Seq(S)
    BY CountedFromOne
  <2>2. IsFiniteSet(P)
    BY <2>1, FS_Subset
  <2>3. \A i \in P : i \in Nat
    BY <2>1
  <2> QED
    BY <2>1, <2>2, <2>3
<1>2. /\ p \in Nat /\ \A k \in 1..p : z[k] \in P
      /\ \A i \in P : \E k \in 1..p : z[k] = i
      /\ \A k, l \in 1..p : k < l => z[k] < z[l]
      /\ \A k, l \in 1..p : z[k] = z[l] => k = l
  BY <1>1, SortedPlaces
<1>3. b = [k \in 1..p |-> a[z[k]]]
  BY DEF At
<1> HIDE DEF p, z
<1>4. /\ b = [k \in 1..p |-> b[k]] /\ \A k \in 1..p : b[k] = a[z[k]] /\ b[k] \in Seq(S)
  <2>1. \A k \in 1..p : z[k] \in 1..n
    BY <1>1, <1>2
  <2>2. \A k \in 1..p : b[k] = a[z[k]]
    BY <1>3
  <2> HIDE DEF b
  <2>3. \A k \in 1..p : b[k] \in Seq(S)
    BY <1>1, <2>1, <2>2
  <2>4. b = [k \in 1..p |-> b[k]]
    BY <1>3
  <2> QED
    BY <2>2, <2>3, <2>4
<1> HIDE DEF b
<1>5. b \in Seq(Seq(S)) /\ Len(b) = p
  BY <1>2, <1>4, AllOf
<1>6. PICK f : Adds(f, a, n) /\ \A i \in 0..n : f[i] \in Seq(S)
  BY FlattenAdds
<1>7. PICK g : Adds(g, b, p) /\ \A i \in 0..p : g[i] \in Seq(S)
  BY <1>5, FlattenAdds
<1> DEFINE Good(i) == \E q \in 0..p : (\A k \in 1..p : z[k] <= i <=> k <= q) /\ f[i] = g[q]
           T == {i \in 0..n : ~Good(i)}
<1>8. ASSUME T # {} PROVE FALSE
  <2>1. T \subseteq Nat
    OBVIOUS
  <2>2. PICK i \in T : \A y \in T : i <= y
    BY <1>8, <2>1, Least
  <2>3. i \in 0..n /\ ~Good(i)
    OBVIOUS
  <2> HIDE DEF Good
  <2>4. CASE i = 0
    <3>1. 0 \in 0..p /\ f[0] = g[0]
      BY <1>2, <1>6, <1>7 DEF Adds
    <3>2. \A k \in 1..p : z[k] <= 0 <=> k <= 0
      <4> SUFFICES ASSUME NEW k \in 1..p PROVE z[k] <= 0 <=> k <= 0
        OBVIOUS
      <4>1. z[k] \in 1..n
        BY <1>1, <1>2
      <4> QED
        BY <1>1, <1>2, <4>1
    <3> QED
      BY <2>3, <2>4, <3>1, <3>2 DEF Good
  <2>5. CASE i # 0
    <3>1. i \in 1..n /\ i - 1 \in 0..n /\ ~(i <= i - 1)
      BY <1>1, <2>3, <2>5
    <3>2. Good(i - 1)
      BY <2>2, <3>1
    <3>3. PICK q \in 0..p : (\A k \in 1..p : z[k] <= i - 1 <=> k <= q) /\ f[i - 1] = g[q]
      BY <3>2 DEF Good
    <3>4. f[i] = f[i - 1] \o a[i] /\ f[i - 1] \in Seq(S)
      BY <1>6, <3>1 DEF Adds
    <3>5. \A k \in 1..p : z[k] \in Nat
      BY <1>1, <1>2
    <3>6. CASE i \notin P
      <4>1. f[i] = f[i - 1]
        <5>1. a[i] = <<>>
          BY <1>1, <3>1, <3>6
        <5> DEFINE x == f[i - 1]
        <5>2. x \in Seq(S) /\ f[i] = x \o <<>>
          BY <3>4, <5>1
        <5> HIDE DEF x
        <5>3. x \o <<>> = x
          BY <5>2
        <5> QED
          BY <5>2, <5>3 DEF x
      <4>2. \A k \in 1..p : z[k] <= i <=> k <= q
        <5> SUFFICES ASSUME NEW k \in 1..p PROVE z[k] <= i <=> k <= q
          OBVIOUS
        <5>1. z[k] # i
          BY <1>2, <3>6
        <5>2. z[k] <= i <=> z[k] <= i - 1
          BY <3>1, <3>5, <5>1
        <5> QED
          BY <3>3, <5>2
      <4> QED
        BY <2>3, <3>3, <4>1, <4>2 DEF Good
    <3>7. CASE i \in P
      <4>1. PICK k \in 1..p : z[k] = i
        BY <1>2, <3>7
      <4>2. ~(k <= q)
        <5>1. ~(z[k] <= i - 1)
          BY <3>1, <4>1
        <5> QED
          BY <3>3, <5>1
      <4>3. q + 1 \in 1..p /\ q \in Nat /\ q + 1 <= k /\ (q + 1) - 1 = q
        BY <1>2, <4>2
      <4>4. q + 1 = k
        <5>1. CASE q + 1 < k
          <6>1. z[q + 1] < i
            BY <1>2, <4>1, <4>3, <5>1
          <6>2. z[q + 1] <= i - 1
            BY <3>1, <3>5, <4>3, <6>1
          <6>3. q + 1 <= q
            BY <3>3, <4>3, <6>2
          <6> QED
            BY <4>3, <6>3
        <5> QED
          BY <4>3, <5>1
      <4>5. f[i] = g[q + 1]
        <5>1. g[q + 1] = g[(q + 1) - 1] \o b[q + 1]
          BY <1>7, <4>3 DEF Adds
        <5>2. b[q + 1] = a[i]
          BY <1>4, <4>1, <4>4
        <5> QED
          BY <3>3, <3>4, <4>3, <5>1, <5>2
      <4>6. \A l \in 1..p : z[l] <= i <=> l <= q + 1
        <5> SUFFICES ASSUME NEW l \in 1..p PROVE z[l] <= i <=> l <= q + 1
          OBVIOUS
        <5>1. CASE l = q + 1
          BY <3>1, <4>1, <4>4, <5>1
        <5>2. CASE l # q + 1
          <6>1. z[l] # i
            BY <1>2, <4>1, <4>4, <5>2
          <6>2. z[l] <= i <=> z[l] <= i - 1
            BY <3>1, <3>5, <6>1
          <6>3. l <= q + 1 <=> l <= q
            BY <4>3, <5>2
          <6> QED
            BY <3>3, <6>2, <6>3
        <5> QED
          BY <5>1, <5>2
      <4>7. q + 1 \in 0..p
        BY <4>3
      <4> QED
        BY <2>3, <4>5, <4>6, <4>7 DEF Good
    <3> QED
      BY <3>6, <3>7
  <2> QED
    BY <2>4, <2>5
<1>9. f[n] = g[p]
  <2>1. n \in 0..n
    BY <1>1
  <2>2. PICK q \in 0..p : (\A k \in 1..p : z[k] <= n <=> k <= q) /\ f[n] = g[q]
    BY <1>8, <2>1
  <2>3. q = p
    <3>1. CASE q # p
      <4>1. p \in 1..p /\ ~(p <= q)
        BY <1>2, <3>1
      <4>2. z[p] <= n
        <5>1. z[p] \in 1..n
          BY <1>1, <1>2, <4>1
        <5> QED
          BY <1>1, <5>1
      <4> QED
        BY <2>2, <4>1, <4>2
    <3> QED
      BY <3>1
  <2> QED
    BY <2>2, <2>3
<1> QED
  BY <1>5, <1>6, <1>7, <1>9 DEF Adds, b

-----------------------------------------------------------------------------
(* The identifiers of the output. *)

LEMMA SourceIsNumber ==
    ASSUME NEW slot, SlotHolds(slot)
    PROVE  slot.source \in Nat /\ Reads(slot.trak.headers["tkhd"], Tkhd) /\ slot.trak.headers["tkhd"] \in Seq(Nat)
<1> DEFINE tkhd == slot.trak.headers["tkhd"]
<1>1. IsTrak(slot.trak) /\ TrackError(slot.trak) = "none" /\ slot.source = TrackOf(tkhd)
  BY DEF SlotHolds
<1>2. HeadersRead(slot.trak.headers)
  BY <1>1, TrackReads
<1>3. "tkhd" \in DOMAIN slot.trak.headers /\ Reads(tkhd, Tkhd)
  BY <1>2 DEF HeadersRead
<1>4. tkhd \in Seq(Nat)
  BY <1>1, <1>3 DEF IsTrak
<1> HIDE DEF tkhd
<1>5. LET q == IF VersionOf(tkhd) = 0 THEN 3 ELSE 5 IN TrackOf(tkhd) = tkhd[q + 1] /\ q + 1 \in 1..Len(tkhd)
  BY <1>3, <1>4, TkhdField
<1>6. TrackOf(tkhd) \in Nat
  BY <1>4, <1>5
<1> QED
  BY <1>1, <1>3, <1>4, <1>6 DEF tkhd

LEMMA IdIsNumber ==
    ASSUME NEW r, NEW kept, AllHold(kept), NEW n \in DOMAIN kept
    PROVE  IdOf(r, kept, n) \in Nat
<1>1. n \in Nat /\ SlotHolds(kept[n])
  BY DEF AllHold
<1>2. kept[n].source \in Nat
  BY <1>1, SourceIsNumber
<1> QED
  BY <1>1, <1>2 DEF IdOf

LEMMA IdsApart ==
    ASSUME NEW r, IsRequest(r), Errors(r) = {}, Plain(r),
           NEW x \in DOMAIN Select(r), NEW y \in DOMAIN Select(r), IdOf(r, Select(r), x) = IdOf(r, Select(r), y)
    PROVE  x = y
<1> DEFINE c == Select(r)
<1>1. CASE Joined(r)
  BY <1>1 DEF IdOf
<1>2. CASE ~Joined(r)
  <2>1. c[x].source = c[y].source
    BY <1>2 DEF IdOf
  <2>2. DOMAIN r.inputs = 1..Len(r.inputs) /\ Len(r.inputs) \in Nat
    BY SequencePlaces DEF IsRequest
  <2>3. \A n \in DOMAIN r.inputs : n = 1
    BY <1>2, <2>2 DEF Joined
  <2>4. ASSUME NEW z \in DOMAIN c PROVE c[z].input = 1
    <3>1. KeptFrom(r, c[z])
      BY SelectFlattens
    <3>2. PICK n \in DOMAIN r.inputs : \E k \in DOMAIN r.inputs[n].tracks : c[z] = SlotOf(r, n, r.inputs[n].tracks[k])
      BY <3>1 DEF KeptFrom
    <3>3. PICK k \in DOMAIN r.inputs[n].tracks : c[z] = SlotOf(r, n, r.inputs[n].tracks[k])
      BY <3>2
    <3>4. c[z].input = n
      BY <3>3 DEF SlotOf
    <3> QED
      BY <2>3, <3>4
  <2>5. c[x].input = c[y].input
    BY <2>4
  <2> HIDE DEF c
  <2> QED
    BY <2>1, <2>5, SourcesApart DEF c
<1> QED
  BY <1>1, <1>2

LEMMA KeptIsPlain ==
    ASSUME NEW r, IsRequest(r), Errors(r) = {}, Plain(r), NEW x \in DOMAIN Select(r)
    PROVE  Select(r)[x].trak.tkhdHeader = 8
<1> DEFINE slot == Select(r)[x]
<1>1. PICK n \in DOMAIN r.inputs : \E k \in DOMAIN r.inputs[n].tracks : slot = SlotOf(r, n, r.inputs[n].tracks[k])
  BY SelectFlattens DEF KeptFrom
<1>2. PICK k \in DOMAIN r.inputs[n].tracks : slot = SlotOf(r, n, r.inputs[n].tracks[k])
  BY <1>1
<1> DEFINE traks == Traks(r.inputs[n].moov)
           index == r.inputs[n].tracks[k]
<1>3. index \in DOMAIN traks
  BY NoError
<1>4. \A i \in DOMAIN traks : traks[i].tkhdHeader = 8
  BY DEF Plain
<1>5. slot.trak = traks[index]
  BY <1>2 DEF SlotOf
<1> HIDE DEF slot, traks, index
<1> QED
  BY <1>3, <1>4, <1>5 DEF slot

LEMMA WrittenId ==
    ASSUME NEW r, NEW kept, AllHold(kept), NEW n \in DOMAIN kept, kept[n].trak.tkhdHeader = 8, NEW offsets, NEW wide
    PROVE  TrackOf(TrackBox(r, kept, n, offsets, wide).headers["tkhd"]) = IdOf(r, kept, n)
<1> DEFINE box == TrackBox(r, kept, n, offsets, wide)
           tkhd == kept[n].trak.headers["tkhd"]
           id == IdOf(r, kept, n)
<1>1. SlotHolds(kept[n])
  BY DEF AllHold
<1>2. IsTrak(kept[n].trak) /\ TrackError(kept[n].trak) = "none" /\ kept[n].source = TrackOf(tkhd)
  BY <1>1 DEF SlotHolds
<1>3. TrackBoxIs(box, r, kept, n, offsets, wide)
  BY <1>2, TrackBoxFields
<1>4. box.headers["tkhd"] = IF Joined(r) THEN PatchTrack(8, tkhd, id) ELSE tkhd
  BY <1>3 DEF TrackBoxIs
<1>5. Reads(tkhd, Tkhd) /\ tkhd \in Seq(Nat) /\ id \in Nat
  BY <1>1, SourceIsNumber, IdIsNumber
<1>6. ~Joined(r) => id = TrackOf(tkhd)
  BY <1>2 DEF IdOf
<1> HIDE DEF box, tkhd, id
<1>7. TrackOf(PatchTrack(8, tkhd, id)) = id
  BY <1>5, TrackReadsBack
<1> QED
  BY <1>4, <1>6, <1>7 DEF box, tkhd, id

-----------------------------------------------------------------------------
(* The references of the output. *)

LEMMA AtSome ==
    ASSUME NEW S, NEW a \in Seq(S), NEW P \in SUBSET DOMAIN a
    PROVE  /\ At(a, P) \in Seq(S) /\ Len(At(a, P)) = Cardinality(P) /\ DOMAIN At(a, P) = 1..Cardinality(P)
           /\ Cardinality(P) \in Nat
           /\ \A k \in 1..Cardinality(P) : Sorted(P)[k] \in P /\ At(a, P)[k] = a[Sorted(P)[k]]
<1> DEFINE p == Cardinality(P)
           z == Sorted(P)
           b == At(a, P)
<1>1. IsFiniteSet(P) /\ \A i \in P : i \in Nat
  <2>1. IsFiniteSet(DOMAIN a) /\ \A i \in DOMAIN a : i \in Nat
    BY CountedFromOne
  <2> QED
    BY <2>1, FS_Subset
<1>2. p \in Nat /\ \A k \in 1..p : z[k] \in P
  BY <1>1, SortedPlaces
<1>3. b = [k \in 1..p |-> a[z[k]]]
  BY DEF At
<1> HIDE DEF b, p, z
<1>4. \A k \in 1..p : b[k] = a[z[k]] /\ b[k] \in S
  BY <1>2, <1>3
<1>5. b = [k \in 1..p |-> b[k]]
  BY <1>3
<1>6. b \in Seq(S) /\ Len(b) = p /\ DOMAIN b = 1..p
  BY <1>2, <1>4, <1>5, AllOf
<1> QED
  BY <1>2, <1>4, <1>6 DEF b, p, z

KnownPlaces(kept, input, targets) ==
    {j \in DOMAIN targets : \E m \in DOMAIN kept : kept[m].input = input /\ kept[m].source = targets[j]}
LastOf(kept, input, id) ==
    CHOOSE n \in Identified(kept, input, id) : \A m \in Identified(kept, input, id) : m <= n
Renamed(r, kept, input, targets) ==
    LET known == At(targets, KnownPlaces(kept, input, targets))
    IN [k \in DOMAIN known |-> IdOf(r, kept, LastOf(kept, input, known[k]))]

(* A target that is kept is renamed to the one track that has it. *)
LEMMA LastIs ==
    ASSUME NEW r, IsRequest(r), Errors(r) = {}, Plain(r), NEW kept, kept = Select(r),
           NEW input, NEW id, \E m \in DOMAIN kept : kept[m].input = input /\ kept[m].source = id
    PROVE  LET m == LastOf(kept, input, id)
           IN m \in DOMAIN kept /\ kept[m].input = input /\ kept[m].source = id
<1> DEFINE I == Identified(kept, input, id)
<1>1. I = {n \in DOMAIN kept : kept[n].input = input /\ kept[n].source = id}
  BY DEF Identified, SameInput
<1>2. PICK m \in I : TRUE
  BY <1>1
<1>3. DOMAIN kept = 1..Len(kept) /\ Len(kept) \in Nat
  BY SelectFlattens
<1>4. ASSUME NEW n \in I PROVE n <= m
  <2>1. n \in DOMAIN kept /\ m \in DOMAIN kept /\ kept[n].input = kept[m].input /\ kept[n].source = kept[m].source
    BY <1>1
  <2>2. n = m
    BY <2>1, SourcesApart
  <2> QED
    BY <1>3, <2>1, <2>2
<1> HIDE DEF I
<1>5. LastOf(kept, input, id) \in I
  <2>1. LastOf(kept, input, id) = CHOOSE n \in I : \A x \in I : x <= n
    BY DEF LastOf, I
  <2> QED
    BY <1>2, <1>4, <2>1
<1> QED
  BY <1>1, <1>5

LEMMA RenamedAre ==
    ASSUME NEW r, IsRequest(r), Errors(r) = {}, Plain(r), NEW kept, kept = Select(r), AllHold(kept),
           NEW input, NEW targets \in Seq(Nat)
    PROVE  LET known == At(targets, KnownPlaces(kept, input, targets))
               new == Renamed(r, kept, input, targets)
           IN /\ new \in Seq(Nat) /\ known \in Seq(Nat) /\ Len(new) = Len(known)
              /\ \A k \in 1..Len(new) : \E m \in DOMAIN kept :
                   IdOf(r, kept, m) = new[k] /\ kept[m].input = input /\ kept[m].source = known[k]
<1> DEFINE P == KnownPlaces(kept, input, targets)
           known == At(targets, P)
           new == Renamed(r, kept, input, targets)
           p == Cardinality(P)
<1>1. P \in SUBSET DOMAIN targets
  BY DEF KnownPlaces
<1>2. \A j \in P : \E m \in DOMAIN kept : kept[m].input = input /\ kept[m].source = targets[j]
  BY DEF KnownPlaces
<1>3. new = [k \in DOMAIN known |-> IdOf(r, kept, LastOf(kept, input, known[k]))]
  BY DEF Renamed
<1> HIDE DEF P, new
<1>4. /\ known \in Seq(Nat) /\ Len(known) = p /\ DOMAIN known = 1..p /\ p \in Nat
      /\ \A k \in 1..p : Sorted(P)[k] \in P /\ known[k] = targets[Sorted(P)[k]]
  BY <1>1, AtSome
<1> HIDE DEF known, p
<1>5. ASSUME NEW k \in 1..p
      PROVE  /\ new[k] \in Nat
             /\ \E m \in DOMAIN kept : IdOf(r, kept, m) = new[k] /\ kept[m].input = input /\ kept[m].source = known[k]
  <2> DEFINE id == known[k]
             m == LastOf(kept, input, id)
  <2>1. \E x \in DOMAIN kept : kept[x].input = input /\ kept[x].source = id
    BY <1>2, <1>4
  <2>2. new[k] = IdOf(r, kept, m)
    BY <1>3, <1>4
  <2> HIDE DEF id
  <2>3. m \in DOMAIN kept /\ kept[m].input = input /\ kept[m].source = id
    BY <2>1, LastIs
  <2> HIDE DEF m
  <2>4. IdOf(r, kept, m) \in Nat
    BY <2>3, IdIsNumber
  <2> QED
    BY <2>2, <2>3, <2>4 DEF id
<1>6. new = [k \in 1..p |-> new[k]]
  BY <1>3, <1>4
<1>7. new \in Seq(Nat) /\ Len(new) = p
  BY <1>4, <1>5, <1>6, AllOf
<1> QED
  BY <1>4, <1>5, <1>7 DEF new, known, P

Followed(r, kept, n) ==
    LET source == kept[n].trak.tref
        filtered == [k \in DOMAIN source |->
                       At(source[k].targets, KnownPlaces(kept, kept[n].input, source[k].targets))]
        tref == KeptReferences(r, kept, kept[n])
        flat == FlattenSeq(filtered)
        now == FlattenSeq([k \in DOMAIN tref |-> tref[k].targets])
    IN /\ Len(now) = Len(flat) /\ DOMAIN now = 1..Len(now)
       /\ \A k \in 1..Len(now) : \E m \in DOMAIN kept :
            IdOf(r, kept, m) = now[k] /\ kept[m].input = kept[n].input /\ kept[m].source = flat[k]

LEMMA ReferencesFollow ==
    ASSUME NEW r, IsRequest(r), Errors(r) = {}, Plain(r), NEW kept, kept = Select(r), AllHold(kept),
           NEW n \in DOMAIN kept
    PROVE  Followed(r, kept, n)
<1> DEFINE slot == kept[n]
           input == slot.input
           source == slot.trak.tref
           l == Len(source)
           new(targets) == Renamed(r, kept, input, targets)
           known(targets) == At(targets, KnownPlaces(kept, input, targets))
           every == [k \in DOMAIN source |-> [source[k] EXCEPT !.targets = new(@)]]
           e == [k \in DOMAIN source |-> new(source[k].targets)]
           T == {k \in DOMAIN every : every[k].targets # <<>>}
           filtered == [k \in DOMAIN source |-> known(source[k].targets)]
           tref == KeptReferences(r, kept, slot)
           now == FlattenSeq([k \in DOMAIN tref |-> tref[k].targets])
<1>1. /\ IsSequence(source)
      /\ \A k \in DOMAIN source : DOMAIN source[k] = {"kind", "targets"} /\ source[k].targets \in Seq(Nat)
  <2>1. IsTrak(slot.trak)
    BY DEF AllHold, SlotHolds
  <2> QED
    BY <2>1 DEF IsTrak
<1>2. l \in Nat /\ DOMAIN source = 1..l
  BY <1>1, SequencePlaces
<1>3. tref = At(every, T)
  <2>1. \A targets : {k \in DOMAIN targets : Identified(kept, input, targets[k]) # {}} = KnownPlaces(kept, input, targets)
    BY DEF Identified, SameInput, KnownPlaces
  <2> DEFINE known1(targets) == At(targets, {k \in DOMAIN targets : Identified(kept, slot.input, targets[k]) # {}})
             last(id) == CHOOSE x \in Identified(kept, slot.input, id) :
                           \A m \in Identified(kept, slot.input, id) : m <= x
             renamed(targets) == [k \in DOMAIN known1(targets) |-> IdOf(r, kept, last(known1(targets)[k]))]
             every1 == [k \in DOMAIN source |-> [source[k] EXCEPT !.targets = renamed(@)]]
  <2>2. tref = At(every1, {k \in DOMAIN every1 : every1[k].targets # <<>>})
    BY DEF KeptReferences
  <2>3. \A targets : known1(targets) = known(targets)
    BY <2>1
  <2>4. \A id : last(id) = LastOf(kept, input, id)
    BY DEF LastOf
  <2>5. \A targets : renamed(targets) = new(targets)
    <3> SUFFICES ASSUME NEW targets PROVE renamed(targets) = new(targets)
      OBVIOUS
    <3> HIDE DEF last
    <3>1. known1(targets) = known(targets)
      BY <2>3
    <3> HIDE DEF known1
    <3>2. new(targets) = [k \in DOMAIN known(targets) |-> IdOf(r, kept, LastOf(kept, input, known(targets)[k]))]
      BY DEF Renamed
    <3> QED
      BY <2>4, <3>1, <3>2
  <2>6. every1 = every
    <3> HIDE DEF renamed, new, source
    <3> QED
      BY <2>5
  <2> HIDE DEF every1, every
  <2> QED
    BY <2>2, <2>6
<1> HIDE DEF source, new, known, tref
<1>4. \A k \in 1..l : every[k].targets = new(source[k].targets)
  BY <1>1, <1>2
<1>5. T = {k \in DOMAIN e : e[k] # <<>>} /\ T \in SUBSET DOMAIN e /\ DOMAIN e = 1..l /\ DOMAIN every = 1..l
  BY <1>2, <1>4
<1>6. \A k \in 1..l : e[k] = new(source[k].targets) /\ filtered[k] = known(source[k].targets)
  BY <1>2
<1>7. e = [k \in 1..l |-> e[k]] /\ filtered = [k \in 1..l |-> filtered[k]]
  BY <1>2
<1> HIDE DEF l, every, e, filtered, T
<1>8. ASSUME NEW k \in 1..l
      PROVE  /\ e[k] \in Seq(Nat) /\ filtered[k] \in Seq(Nat) /\ Len(e[k]) = Len(filtered[k])
             /\ \A i \in 1..Len(e[k]) : \E m \in DOMAIN kept :
                  IdOf(r, kept, m) = e[k][i] /\ kept[m].input = input /\ kept[m].source = filtered[k][i]
  <2> DEFINE targets == source[k].targets
  <2>1. targets \in Seq(Nat)
    BY <1>1, <1>2
  <2> HIDE DEF targets, input
  <2>2. /\ new(targets) \in Seq(Nat) /\ known(targets) \in Seq(Nat) /\ Len(new(targets)) = Len(known(targets))
        /\ \A i \in 1..Len(new(targets)) : \E m \in DOMAIN kept :
             IdOf(r, kept, m) = new(targets)[i] /\ kept[m].input = input /\ kept[m].source = known(targets)[i]
    BY <2>1, RenamedAre DEF new, known
  <2>3. e[k] = new(targets) /\ filtered[k] = known(targets)
    BY <1>6 DEF targets
  <2> QED
    BY <2>2, <2>3
<1>9. e \in Seq(Seq(Nat)) /\ filtered \in Seq(Seq(Nat)) /\ Len(e) = l /\ Len(filtered) = l
  <2>1. e \in Seq(Seq(Nat)) /\ Len(e) = l
    BY <1>2, <1>7, <1>8, AllOf
  <2>2. filtered \in Seq(Seq(Nat)) /\ Len(filtered) = l
    BY <1>2, <1>7, <1>8, AllOf
  <2> QED
    BY <2>1, <2>2
<1>10. SameShape(e, filtered)
  BY <1>8, <1>9 DEF SameShape
<1>11. /\ FlattenSeq(e) \in Seq(Nat)
       /\ SideBySide(FlattenSeq(e), FlattenSeq(filtered), e, filtered, l)
  BY <1>9, <1>10, FlattenTogether
<1>12. now = FlattenSeq(e)
  <2> DEFINE p == Cardinality(T)
             z == Sorted(T)
  <2>1. \A k \in DOMAIN e : k \notin T => e[k] = <<>>
    BY <1>5
  <2>2. FlattenSeq(At(e, T)) = FlattenSeq(e)
    BY <1>5, <1>9, <2>1, FlattenSome
  <2>3. p \in Nat /\ \A k \in 1..p : z[k] \in T
    BY <1>5, <1>9, AtSome
  <2>4. tref = [k \in 1..p |-> every[z[k]]] /\ At(e, T) = [k \in 1..p |-> e[z[k]]]
    BY <1>3 DEF At
  <2> HIDE DEF p, z
  <2>5. \A k \in 1..p : tref[k].targets = e[z[k]]
    <3> SUFFICES ASSUME NEW k \in 1..p PROVE tref[k].targets = e[z[k]]
      OBVIOUS
    <3>1. z[k] \in 1..l
      BY <1>5, <2>3
    <3>2. tref[k] = every[z[k]]
      BY <2>4
    <3> QED
      BY <1>4, <1>6, <3>1, <3>2
  <2>6. DOMAIN tref = 1..p
    BY <2>4
  <2>7. [k \in DOMAIN tref |-> tref[k].targets] = At(e, T)
    BY <2>4, <2>5, <2>6
  <2> QED
    BY <2>2, <2>7
<1> HIDE DEF now
<1>13. Len(now) = Len(FlattenSeq(filtered)) /\ DOMAIN now = 1..Len(now)
  BY <1>11, <1>12 DEF SideBySide
<1>14. ASSUME NEW x \in 1..Len(now)
       PROVE  \E m \in DOMAIN kept :
                IdOf(r, kept, m) = now[x] /\ kept[m].input = input /\ kept[m].source = FlattenSeq(filtered)[x]
  <2>1. PICK k \in 1..l : \E i \in 1..Len(e[k]) : now[x] = e[k][i] /\ FlattenSeq(filtered)[x] = filtered[k][i]
    BY <1>11, <1>12 DEF SideBySide
  <2>2. PICK i \in 1..Len(e[k]) : now[x] = e[k][i] /\ FlattenSeq(filtered)[x] = filtered[k][i]
    BY <2>1
  <2>3. PICK m \in DOMAIN kept : IdOf(r, kept, m) = e[k][i] /\ kept[m].input = input /\ kept[m].source = filtered[k][i]
    BY <1>8
  <2> QED
    BY <2>2, <2>3
<1> QED
  BY <1>13, <1>14 DEF Followed, now, tref, filtered, known, source

-----------------------------------------------------------------------------
(* The movie header of the output. *)

LEMMA NextIsAbove ==
    ASSUME NEW r, Joined(r), NEW kept, AllHold(kept)
    PROVE  NextId(r, kept) \in Nat /\ \A n \in DOMAIN kept : IdOf(r, kept, n) < NextId(r, kept)
<1> DEFINE l == Len(kept)
           largest == CHOOSE id \in {IdOf(r, kept, n) : n \in DOMAIN kept} :
                        \A n \in DOMAIN kept : IdOf(r, kept, n) <= id
<1>1. l \in Nat /\ DOMAIN kept = 1..l
  BY DEF AllHold
<1>2. \A n \in DOMAIN kept : IdOf(r, kept, n) = n
  BY DEF IdOf
<1>3. NextId(r, kept) = 1 + IF kept = <<>> THEN 0 ELSE largest
  BY DEF NextId
<1>4. CASE kept = <<>>
  <2>1. DOMAIN kept = {}
    BY <1>4
  <2> HIDE DEF largest
  <2>2. NextId(r, kept) = 1
    BY <1>3, <1>4
  <2> QED
    BY <2>1, <2>2
<1>5. CASE DOMAIN kept = {} /\ kept # <<>>
  <2>1. l = 0
    BY <1>1, <1>5
  <2>2. \A n : IdOf(r, kept, n) = n
    BY DEF IdOf
  <2> QED
    BY <1>5, <2>1
<1>6. CASE l # 0 /\ kept # <<>>
  <2>1. l \in DOMAIN kept /\ \A n \in DOMAIN kept : n <= l
    BY <1>1, <1>6
  <2>2. l \in {IdOf(r, kept, n) : n \in DOMAIN kept} /\ \A n \in DOMAIN kept : IdOf(r, kept, n) <= l
    BY <1>2, <2>1
  <2>3. largest \in {IdOf(r, kept, n) : n \in DOMAIN kept} /\ \A n \in DOMAIN kept : IdOf(r, kept, n) <= largest
    <3> DEFINE I == {IdOf(r, kept, n) : n \in DOMAIN kept}
    <3> HIDE DEF I
    <3>1. largest = CHOOSE id \in I : \A n \in DOMAIN kept : IdOf(r, kept, n) <= id
      BY DEF I
    <3>2. \E id \in I : \A n \in DOMAIN kept : IdOf(r, kept, n) <= id
      BY <2>2 DEF I
    <3> HIDE DEF largest
    <3>3. largest \in I /\ \A n \in DOMAIN kept : IdOf(r, kept, n) <= largest
      BY <3>1, <3>2
    <3> QED
      BY <3>3 DEF I
  <2> HIDE DEF largest
  <2>4. largest \in Nat
    BY <1>1, <1>2, <2>3
  <2>5. NextId(r, kept) = 1 + largest
    BY <1>3, <1>6
  <2>6. \A n \in DOMAIN kept : IdOf(r, kept, n) \in Nat
    BY <1>1, <1>2
  <2> QED
    BY <2>3, <2>4, <2>5, <2>6
<1> QED
  BY <1>1, <1>4, <1>5, <1>6

(* The only movie headers a movie box gets are those that are rewritten. *)
LEMMA HeaderRewritten ==
    ASSUME NEW r, IsRequest(r), Plain(r), Joined(r), NEW kept, AllHold(kept), NEW order, NEW wide, NEW start,
           NEW i \in DOMAIN r.inputs[1].moov,
           NEW k \in 1..Len(Rewritten(r, kept, order, wide, start, i)),
           Rewritten(r, kept, order, wide, start, i)[k].kind = "mvhd"
    PROVE  \E words \in Seq(Nat) :
             Rewritten(r, kept, order, wide, start, i)[k].words = PatchNextTrack(8, words, NextId(r, kept))
<1> DEFINE moov == r.inputs[1].moov
           child == moov[i]
           x == Rewritten(r, kept, order, wide, start, i)
           next == NextId(r, kept)
<1>1. IsBox(child)
  BY FirstInput DEF IsInput
<1>2. CASE child.kind = "mvhd"
  <2> DEFINE box == [child EXCEPT !.words = PatchNextTrack(child.header, @, next)]
  <2>1. x = <<box>>
    BY <1>2 DEF Rewritten
  <2>2. DOMAIN child = {"kind", "header", "words"} /\ child.words \in Seq(Nat)
    BY <1>1, <1>2 DEF IsBox
  <2>3. child.header = 8
    BY <1>2, FirstInput DEF Plain
  <2>4. box.words = PatchNextTrack(8, child.words, next)
    BY <2>2, <2>3
  <2> HIDE DEF box
  <2>5. Len(<<box>>) = 1 /\ <<box>>[1] = box
    OBVIOUS
  <2>6. Len(x) = 1 /\ x[1] = box /\ k \in 1..Len(x)
    BY <2>1, <2>5
  <2> HIDE DEF x, next
  <2>7. k = 1
    BY <2>6
  <2>8. x[k].words = PatchNextTrack(8, child.words, next)
    BY <2>4, <2>6, <2>7
  <2> HIDE DEF child
  <2> QED
    BY <2>2, <2>8 DEF x, next
<1>3. CASE child.kind = "trak"
  <2>1. x = <<>> \/ x = TracksWritten(r, kept, order, wide, start)
    BY <1>3 DEF Rewritten
  <2>2. x # <<>>
    <3>1. Len(<<>>) = 0 /\ k \in 1..Len(x)
      OBVIOUS
    <3> HIDE DEF x
    <3>2. Len(x) # 0
      <4>1. CASE Len(x) = 0
        <5>1. k \in 1..0
          BY <3>1, <4>1
        <5> QED
          BY <5>1
      <4> QED
        BY <4>1
    <3> QED
      BY <3>1, <3>2
  <2>3. x = [n \in DOMAIN kept |-> TrackBox(r, kept, n, ChunkOffsets(order, n, start), wide)]
    BY <2>1, <2>2 DEF TracksWritten
  <2>4. Len(kept) \in Nat /\ DOMAIN kept = 1..Len(kept)
    BY DEF AllHold
  <2> DEFINE l == Len(kept)
  <2>5. x = [n \in 1..l |-> TrackBox(r, kept, n, ChunkOffsets(order, n, start), wide)] /\ k \in 1..Len(x)
    BY <2>3, <2>4
  <2> HIDE DEF x, l
  <2>6. k \in 1..l /\ x[k] = TrackBox(r, kept, k, ChunkOffsets(order, k, start), wide)
    <3>1. Len(x) = l
      BY <2>4, <2>5 DEF l
    <3> QED
      BY <2>5, <3>1
  <2>7. SlotHolds(kept[k])
    BY <2>6 DEF AllHold, l
  <2>8. IsTrak(kept[k].trak) /\ TrackError(kept[k].trak) = "none" /\ kept[k].trak.kind = "trak"
    BY <2>7 DEF SlotHolds
  <2> DEFINE offsets == ChunkOffsets(order, k, start)
  <2> HIDE DEF offsets
  <2>9. TrackBoxIs(TrackBox(r, kept, k, offsets, wide), r, kept, k, offsets, wide)
    BY <2>8, TrackBoxFields
  <2>10. TrackBox(r, kept, k, offsets, wide).kind = "trak"
    BY <2>8, <2>9 DEF TrackBoxIs
  <2>11. x[k].kind = "trak"
    BY <2>6, <2>10 DEF offsets
  <2> QED
    BY <2>11 DEF x
<1>4. CASE child.kind \notin {"mvhd", "trak"}
  <2>1. x = <<>> \/ x = <<child>>
    BY <1>4 DEF Rewritten
  <2>2. k \in 1..Len(x)
    OBVIOUS
  <2> DEFINE one == <<child>>
             none == <<>>
  <2>3. Len(none) = 0 /\ Len(one) = 1 /\ one[1] = child
    OBVIOUS
  <2>4. x = none \/ x = one
    BY <2>1
  <2> HIDE DEF x, child, one, none
  <2>5. x = one
    BY <2>2, <2>3, <2>4
  <2>6. k = 1
    <3>1. Len(x) = 1
      BY <2>3, <2>5
    <3> QED
      BY <2>2, <3>1
  <2>7. x[k] = child
    BY <2>3, <2>5, <2>6
  <2> QED
    BY <1>4, <2>7 DEF x
<1> QED
  BY <1>2, <1>3, <1>4

LEMMA HeadersWritten ==
    ASSUME NEW r, IsRequest(r), Plain(r), Joined(r), NEW kept, AllHold(kept), NEW order, IsFiniteSet(DOMAIN order),
           NEW wide \in BOOLEAN, NEW start,
           NEW k \in DOMAIN MovieBox(r, kept, order, wide, start),
           MovieBox(r, kept, order, wide, start)[k].kind = "mvhd"
    PROVE  \E words \in Seq(Nat) :
             MovieBox(r, kept, order, wide, start)[k].words = PatchNextTrack(8, words, NextId(r, kept))
<1> DEFINE s == Parts(r, kept, order, wide, start)
           out == MovieBox(r, kept, order, wide, start)
           moov == r.inputs[1].moov
<1>1. PICK S : /\ Len(s) \in Nat /\ DOMAIN moov = 1..Len(s) /\ s \in Seq(Seq(S))
               /\ \A i \in 1..Len(s) : s[i] = Rewritten(r, kept, order, wide, start, i)
  <2> HIDE DEF s, moov
  <2> QED
    BY PartsAre DEF s, moov
<1>2. out = FlattenSeq(s)
  BY MovieBoxIs DEF Parts
<1>3. k \in DOMAIN out /\ out[k].kind = "mvhd"
  OBVIOUS
<1> HIDE DEF s, out, moov
<1>4. out \in Seq(S) /\ SideBySide(out, out, s, s, Len(s))
  <2>1. SameShape(s, s)
    BY DEF SameShape
  <2> QED
    BY <1>1, <1>2, <2>1, FlattenTogether
<1>5. k \in 1..Len(out)
  BY <1>3, <1>4
<1>6. PICK i \in 1..Len(s) : \E j \in 1..Len(s[i]) : out[k] = s[i][j]
  BY <1>4, <1>5 DEF SideBySide
<1>7. PICK j \in 1..Len(s[i]) : out[k] = s[i][j]
  BY <1>6
<1>8. s[i] = Rewritten(r, kept, order, wide, start, i) /\ i \in DOMAIN moov
  BY <1>1
<1>9. \E words \in Seq(Nat) :
        Rewritten(r, kept, order, wide, start, i)[j].words = PatchNextTrack(8, words, NextId(r, kept))
  BY <1>3, <1>7, <1>8, HeaderRewritten DEF moov
<1>10. out[k] = Rewritten(r, kept, order, wide, start, i)[j]
  BY <1>7, <1>8
<1> QED
  BY <1>9, <1>10 DEF out

-----------------------------------------------------------------------------
(* The references counted as dropped, and the theorem. *)

Reported == pc = "done" => report.dropped = ReferencesDropped(request, slots)

LEMMA ReportedInit == Init => Reported
BY DEF Init, Reported

LEMMA ReportedStep ==
    ASSUME Reported, [Next]_vars PROVE Reported'
<1>1. CASE Refuse
  BY <1>1 DEF Reported, Refuse
<1>2. CASE SelectTracks
  BY <1>2 DEF Reported, SelectTracks
<1>3. CASE WriteHead
  BY <1>3 DEF Reported, WriteHead
<1>4. CASE CopyChunk
  BY <1>4 DEF Reported, CopyChunk
<1>5. CASE Finish
  <2>1. report'.dropped = ReferencesDropped(request, slots) /\ request' = request /\ slots' = slots
    BY <1>5 DEF Finish
  <2>2. ReferencesDropped(request, slots)' = ReferencesDropped(request, slots)
    BY <2>1
  <2> QED
    BY <2>1, <2>2 DEF Reported
<1>6. CASE Fail
  BY <1>6 DEF Reported, Fail
<1>7. CASE UNCHANGED vars
  BY <1>7 DEF Reported, vars
<1> QED
  BY <1>1, <1>2, <1>3, <1>4, <1>5, <1>6, <1>7 DEF Next

LEMMA TracksOfOutput ==
    ASSUME Settled, pc \notin Before0, FirstHasTracks(request), Plain(request)
    PROVE  LET traks == Traks(layout.moov)
           IN /\ DOMAIN slots = 1..Len(slots)
              /\ \A n \in DOMAIN slots : /\ TrackOf(traks[n].headers["tkhd"]) = IdOf(request, slots, n)
                                         /\ traks[n].tref = KeptReferences(request, slots, slots[n])
              /\ Joined(request) => \A k \in DOMAIN layout.moov : layout.moov[k].kind = "mvhd" =>
                   \E words \in Seq(Nat) : layout.moov[k].words = PatchNextTrack(8, words, NextId(request, slots))
<1> DEFINE base == layout.base
           wide == layout.wide
           traks == Traks(layout.moov)
<1>1. IsRequest(request) /\ AllHold(slots) /\ AllStored(slots) /\ chunks = Interleaved(slots)
  BY KeptSlots
<1>2. layout = LayOut(request, slots, chunks) /\ slots = Select(request) /\ Errors(request) = {}
  BY DEF Settled
<1>3. Media(chunks) \in Nat /\ IsFiniteSet(DOMAIN chunks)
  BY LayoutHolds, Numbers
<1>4. /\ wide \in BOOLEAN /\ base \in Nat
      /\ layout.moov = MovieBox(request, slots, chunks, wide, base)
  BY <1>1, <1>2, <1>3, LayoutFits
<1> HIDE DEF base, wide
<1>5. \A n \in 1..Len(slots) : traks[n] = TrackBox(request, slots, n, ChunkOffsets(chunks, n, base), wide)
  BY <1>1, <1>3, <1>4, TracksLaidOut
<1>6. DOMAIN slots = 1..Len(slots)
  BY <1>1 DEF AllHold
<1> HIDE DEF traks
<1>7. ASSUME NEW n \in DOMAIN slots
      PROVE  /\ TrackOf(traks[n].headers["tkhd"]) = IdOf(request, slots, n)
             /\ traks[n].tref = KeptReferences(request, slots, slots[n])
  <2> DEFINE offsets == ChunkOffsets(chunks, n, base)
  <2> HIDE DEF offsets
  <2>1. traks[n] = TrackBox(request, slots, n, offsets, wide)
    BY <1>5, <1>6 DEF offsets
  <2>2. slots[n].trak.tkhdHeader = 8
    BY <1>1, <1>2, KeptIsPlain
  <2>3. TrackOf(TrackBox(request, slots, n, offsets, wide).headers["tkhd"]) = IdOf(request, slots, n)
    BY <1>1, <2>2, WrittenId
  <2>4. SlotHolds(slots[n])
    BY <1>1, <1>6 DEF AllHold
  <2>5. IsTrak(slots[n].trak) /\ TrackError(slots[n].trak) = "none"
    BY <2>4 DEF SlotHolds
  <2>6. TrackBoxIs(TrackBox(request, slots, n, offsets, wide), request, slots, n, offsets, wide)
    BY <2>5, TrackBoxFields
  <2>7. TrackBox(request, slots, n, offsets, wide).tref = KeptReferences(request, slots, slots[n])
    BY <2>6 DEF TrackBoxIs
  <2> QED
    BY <2>1, <2>3, <2>7
<1>8. ASSUME Joined(request), NEW k \in DOMAIN layout.moov, layout.moov[k].kind = "mvhd"
      PROVE  \E words \in Seq(Nat) : layout.moov[k].words = PatchNextTrack(8, words, NextId(request, slots))
  <2>1. k \in DOMAIN MovieBox(request, slots, chunks, wide, base)
        /\ MovieBox(request, slots, chunks, wide, base)[k].kind = "mvhd"
    BY <1>4, <1>8
  <2>2. \E words \in Seq(Nat) :
          MovieBox(request, slots, chunks, wide, base)[k].words = PatchNextTrack(8, words, NextId(request, slots))
    BY <1>1, <1>3, <1>4, <1>8, <2>1, HeadersWritten
  <2> QED
    BY <1>4, <2>2
<1> QED
  BY <1>6, <1>7, <1>8 DEF traks

LEMMA ReferencesHold ==
    ASSUME Settled, Reported PROVE ReferencesResolve
<1> SUFFICES ASSUME pc = "done", Plain(request), FirstHasTracks(request) PROVE ReferencesResolve
  BY DEF ReferencesResolve
<1> DEFINE traks == Traks(layout.moov)
           id(n) == TrackOf(traks[n].headers["tkhd"])
           kept(n, source) == \E m \in DOMAIN slots : slots[m].input = slots[n].input /\ slots[m].source = source
           source(n) == slots[n].trak.tref
           filtered(n) == [k \in DOMAIN source(n) |->
                             At(source(n)[k].targets,
                                {j \in DOMAIN source(n)[k].targets : kept(n, source(n)[k].targets[j])})]
           now(n) == FlattenSeq([k \in DOMAIN traks[n].tref |-> traks[n].tref[k].targets])
<1>1. pc \notin Before0
  BY DEF Before0
<1>2. IsRequest(request) /\ AllHold(slots) /\ slots = Select(request) /\ Errors(request) = {}
  BY <1>1, KeptSlots DEF Settled
<1>3. /\ DOMAIN slots = 1..Len(slots)
      /\ \A n \in DOMAIN slots : id(n) = IdOf(request, slots, n) /\ traks[n].tref = KeptReferences(request, slots, slots[n])
      /\ Joined(request) => \A k \in DOMAIN layout.moov : layout.moov[k].kind = "mvhd" =>
           \E words \in Seq(Nat) : layout.moov[k].words = PatchNextTrack(8, words, NextId(request, slots))
  BY <1>1, TracksOfOutput
<1> HIDE DEF traks, id
<1>4. \A n, m \in DOMAIN slots : n # m => id(n) # id(m)
  <2> SUFFICES ASSUME NEW n \in DOMAIN slots, NEW m \in DOMAIN slots, id(n) = id(m) PROVE n = m
    OBVIOUS
  <2>1. IdOf(request, slots, n) = IdOf(request, slots, m)
    BY <1>3
  <2> QED
    BY <1>2, <2>1, IdsApart
<1>5. ASSUME Joined(request), NEW k \in DOMAIN layout.moov, layout.moov[k].kind = "mvhd",
             Reads(layout.moov[k].words, Mvhd), NEW n \in DOMAIN slots
      PROVE  id(n) < NextTrackOf(layout.moov[k].words)
  <2> DEFINE next == NextId(request, slots)
  <2>1. PICK words \in Seq(Nat) : layout.moov[k].words = PatchNextTrack(8, words, next)
    BY <1>3, <1>5
  <2>2. next \in Nat /\ IdOf(request, slots, n) < next
    BY <1>2, <1>5, NextIsAbove
  <2> HIDE DEF next
  <2>3. NextTrackOf(PatchNextTrack(8, words, next)) = next
    <3>1. Reads(PatchNextTrack(8, words, next), Mvhd)
      BY <1>5, <2>1
    <3> QED
      BY <2>2, <3>1, NextReadsBack
  <2> QED
    BY <1>3, <2>1, <2>2, <2>3
<1>6. ASSUME NEW n \in DOMAIN slots
      PROVE  /\ Len(now(n)) = Len(FlattenSeq(filtered(n)))
             /\ \A k \in DOMAIN now(n) : \E m \in DOMAIN slots :
                  id(m) = now(n)[k] /\ slots[m].input = slots[n].input /\ slots[m].source = FlattenSeq(filtered(n))[k]
  <2> DEFINE tref == KeptReferences(request, slots, slots[n])
             flat == FlattenSeq([k \in DOMAIN source(n) |->
                       At(source(n)[k].targets, KnownPlaces(slots, slots[n].input, source(n)[k].targets))])
             new == FlattenSeq([k \in DOMAIN tref |-> tref[k].targets])
  <2>1. Followed(request, slots, n)
    BY <1>2, ReferencesFollow
  <2>2. /\ Len(new) = Len(flat) /\ DOMAIN new = 1..Len(new)
        /\ \A k \in 1..Len(new) : \E m \in DOMAIN slots :
             IdOf(request, slots, m) = new[k] /\ slots[m].input = slots[n].input /\ slots[m].source = flat[k]
    BY <2>1 DEF Followed
  <2>3. filtered(n) = [k \in DOMAIN source(n) |->
                         At(source(n)[k].targets, KnownPlaces(slots, slots[n].input, source(n)[k].targets))]
    BY DEF KnownPlaces
  <2>4. FlattenSeq(filtered(n)) = flat
    <3> HIDE DEF filtered
    <3> QED
      BY <2>3
  <2>5. now(n) = new
    BY <1>3
  <2> HIDE DEF flat, new, filtered, now
  <2> QED
    BY <1>3, <2>2, <2>4, <2>5
<1>7. report.dropped = SumOf([n \in DOMAIN slots |-> TargetsIn(slots[n].trak.tref) - TargetsIn(traks[n].tref)])
  <2>1. report.dropped = SumOf([n \in DOMAIN slots |->
             TargetsIn(slots[n].trak.tref) - TargetsIn(KeptReferences(request, slots, slots[n]))])
    BY DEF Reported, ReferencesDropped
  <2>2. [n \in DOMAIN slots |->
             TargetsIn(slots[n].trak.tref) - TargetsIn(KeptReferences(request, slots, slots[n]))]
        = [n \in DOMAIN slots |-> TargetsIn(slots[n].trak.tref) - TargetsIn(traks[n].tref)]
    BY <1>3
  <2> QED
    BY <2>1, <2>2
<1> HIDE DEF filtered, now
<1> QED
  BY <1>4, <1>5, <1>6, <1>7 DEF ReferencesResolve, filtered, now, id, traks

(* Identifiers of the output are distinct and below the next one its movie header gives, every reference kept
   leads to the track its source's led to, and the others are counted as dropped: identifiers, references_box
   and renumber of remux. *)
THEOREM ReferencesAreKept == Spec => []ReferencesResolve
<1>1. Init => Reported
  BY ReportedInit
<1>2. Reported /\ [Next]_vars => Reported'
  BY ReportedStep
<1>3. Settled /\ Reported => ReferencesResolve
  BY ReferencesHold
<1> QED
  BY <1>1, <1>2, <1>3, AlwaysSettled, PTL DEF Spec
================================================================================
