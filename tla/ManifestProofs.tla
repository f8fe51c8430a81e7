------------------------------ MODULE ManifestProofs ------------------------------
(***************************************************************************)
(* What a manifest says of a recording and what a comparison answers, for  *)
(* every recording, every selection and every change of the file.          *)
(*                                                                         *)
(* A comparison takes the recorded boxes in turn, and each takes the first *)
(* free box of its kind and place: at most one, none twice, none only when *)
(* none is left.  So the findings count the boxes of both sides; and when  *)
(* all are found identical, the places are the same one by one, the shape  *)
(* says so, and so do the boxes, digest by digest.                         *)
(*                                                                         *)
(* The tracks chosen of the inputs land one after another in the output,   *)
(* each in a place of its own, so that the track and the input it came     *)
(* from tell the place, and the other way around.                          *)
(*                                                                         *)
(* The writer of a stream knows of the units before only what it has seen  *)
(* in the sample and whether the next refresh picture is new.  That is     *)
(* what the rule asks of the whole stream: an insertion is due to the      *)
(* writer where it is due to the rule.                                     *)
(*                                                                         *)
(* The invariant carries these through a run: every manifest is the one of *)
(* its file, record by record, the output is made of the choice, and what  *)
(* is written of a stream is what the rule gives up to there.              *)
(***************************************************************************)
EXTENDS Manifest, PlacesProofs

-----------------------------------------------------------------------------
(* Boxes taken in turn.  Each recorded box takes the least of the places that are free for it. *)

TakenBefore(f, i) == UNION {f[j] : j \in 1..(i - 1)}
FirstFree(r, p, f, i) ==
    {x \in Free(p, r[i], TakenBefore(f, i)) : \A y \in Free(p, r[i], TakenBefore(f, i)) : x <= y}
TakesInTurn(f, r, p, m) == f = [i \in 1..m |-> FirstFree(r, p, f, i)]

LEMMA MatchExists ==
    ASSUME NEW r, NEW p, NEW m \in Nat
    PROVE  \E f : TakesInTurn(f, r, p, m)
<1> DEFINE T == {k \in Nat : ~\E f : TakesInTurn(f, r, p, k)}
<1> SUFFICES ASSUME T # {} PROVE FALSE
  OBVIOUS
<1>1. PICK k \in T : \A y \in T : k <= y
  BY Least
<1>2. k # 0
  <2>1. TakesInTurn([i \in 1..0 |-> 0], r, p, 0)
    BY DEF TakesInTurn
  <2> QED
    BY <1>1, <2>1
<1>3. k \in Nat /\ k - 1 \in Nat /\ k - 1 \notin T
  BY <1>1, <1>2
<1>4. PICK f : TakesInTurn(f, r, p, k - 1)
  BY <1>3
<1> DEFINE g == [i \in 1..k |-> IF i = k THEN FirstFree(r, p, f, i) ELSE f[i]]
<1>5. TakesInTurn(g, r, p, k)
  <2> SUFFICES ASSUME NEW i \in 1..k
               PROVE  g[i] = FirstFree(r, p, g, i)
    BY DEF TakesInTurn
  <2>1. TakenBefore(g, i) = TakenBefore(f, i)
    <3>1. \A j \in 1..(i - 1) : j \in 1..k /\ j # k
      BY <1>3
    <3>2. \A j \in 1..(i - 1) : g[j] = f[j]
      BY <3>1
    <3> QED
      BY <3>2 DEF TakenBefore
  <2>2. FirstFree(r, p, g, i) = FirstFree(r, p, f, i)
    BY <2>1 DEF FirstFree
  <2>3. CASE i = k
    BY <2>2, <2>3
  <2>4. CASE i # k
    <3>1. i \in 1..(k - 1) /\ g[i] = f[i]
      BY <1>3, <2>4
    <3> HIDE DEF g
    <3>2. f[i] = FirstFree(r, p, f, i)
      BY <1>4, <3>1 DEF TakesInTurn
    <3> QED
      BY <2>2, <3>1, <3>2
  <2> QED
    BY <2>3, <2>4
<1> QED
  BY <1>1, <1>5

LEMMA MatchesInTurn ==
    ASSUME NEW r, NEW p, Len(r) \in Nat
    PROVE  TakesInTurn(Matches(r, p), r, p, Len(r))
<1> DEFINE Def(f) == f = [i \in 1..Len(r) |-> FirstFree(r, p, f, i)]
           c == CHOOSE f : Def(f)
<1>1. \E f : Def(f)
  BY MatchExists DEF TakesInTurn
<1>2. Def(c)
  BY <1>1
<1>3. Matches(r, p) = c
  BY DEF Matches, FirstFree, TakenBefore
<1> QED
  BY <1>2, <1>3 DEF TakesInTurn

SamePlace(a, b) == a.location = b.location /\ a.kind = b.kind

(* What a matching is: at most one box of the same place each, none twice, and none only when all the boxes
   of the place are taken. *)
IsMatching(f, r, p) ==
    /\ DOMAIN f = 1..Len(r)
    /\ \A i \in 1..Len(r) :
         /\ f[i] = {} \/ \E x \in DOMAIN p : f[i] = {x} /\ SamePlace(p[x], r[i])
         /\ \A j \in 1..Len(r) : i # j => f[i] \cap f[j] = {}
         /\ f[i] = {} => \A x \in DOMAIN p : SamePlace(p[x], r[i]) => \E j \in 1..Len(r) : x \in f[j]

LEMMA MatchesWell ==
    ASSUME NEW r, NEW p, Len(r) \in Nat, \A x \in DOMAIN p : x \in Nat
    PROVE  IsMatching(Matches(r, p), r, p)
<1> DEFINE f == Matches(r, p)
           n == Len(r)
<1>1. TakesInTurn(f, r, p, n)
  BY MatchesInTurn
<1>0. n \in Nat
  OBVIOUS
<1> HIDE DEF f, n
<1>2. DOMAIN f = 1..n /\ \A i \in 1..n : f[i] = FirstFree(r, p, f, i)
  BY <1>1 DEF TakesInTurn
<1>3. ASSUME NEW i \in 1..n
      PROVE  /\ f[i] = {} \/ \E x \in DOMAIN p : f[i] = {x} /\ SamePlace(p[x], r[i])
             /\ f[i] \cap TakenBefore(f, i) = {}
             /\ f[i] = {} => \A x \in DOMAIN p : SamePlace(p[x], r[i]) => \E j \in 1..n : x \in f[j]
  <2> DEFINE F == Free(p, r[i], TakenBefore(f, i))
  <2>1. f[i] = {x \in F : \A y \in F : x <= y}
    BY <1>2 DEF FirstFree
  <2>2. F = {x \in DOMAIN p : x \notin TakenBefore(f, i) /\ SamePlace(p[x], r[i])}
    BY DEF Free, SamePlace
  <2>3. F \subseteq Nat
    BY <2>2
  <2> HIDE DEF F
  <2>4. f[i] \cap TakenBefore(f, i) = {}
    BY <2>1, <2>2
  <2>5. CASE F = {}
    <3>1. f[i] = {}
      BY <2>1, <2>5
    <3>2. ASSUME NEW x \in DOMAIN p, SamePlace(p[x], r[i]) PROVE \E j \in 1..n : x \in f[j]
      <4>1. x \in TakenBefore(f, i)
        BY <2>2, <2>5, <3>2
      <4>2. PICK j \in 1..(i - 1) : x \in f[j]
        BY <4>1 DEF TakenBefore
      <4>3. j \in 1..n
        BY <1>0
      <4> QED
        BY <4>2, <4>3
    <3> QED
      BY <2>4, <3>1, <3>2
  <2>6. CASE F # {}
    <3>1. PICK x \in F : \A y \in F : x <= y
      BY <2>3, <2>6, Least
    <3>2. f[i] = {x}
      <4>1. x \in f[i]
        BY <2>1, <3>1
      <4>2. ASSUME NEW y \in f[i] PROVE y = x
        <5>1. x \in Nat /\ y \in Nat /\ x <= y /\ y <= x
          BY <2>1, <2>3, <3>1
        <5> QED
          BY <5>1
      <4> QED
        BY <4>1, <4>2
    <3>3. x \in DOMAIN p /\ SamePlace(p[x], r[i])
      BY <2>2, <3>1
    <3> QED
      BY <2>4, <3>2, <3>3
  <2> QED
    BY <2>5, <2>6
<1>4. ASSUME NEW i \in 1..n, NEW j \in 1..n, i < j PROVE f[i] \cap f[j] = {}
  <2>1. i \in 1..(j - 1)
    BY <1>0, <1>4
  <2>2. f[i] \subseteq TakenBefore(f, j)
    BY <2>1 DEF TakenBefore
  <2> QED
    BY <1>3, <2>2
<1>5. ASSUME NEW i \in 1..n, NEW j \in 1..n, i # j PROVE f[i] \cap f[j] = {}
  <2>1. i < j \/ j < i
    BY <1>0, <1>5
  <2> QED
    BY <1>4, <2>1
<1> QED
  BY <1>2, <1>3, <1>5 DEF IsMatching, n, f

(* Against boxes of the same places in the same order, every box takes its own. *)
Alike(r, p) == Len(r) = Len(p) /\ DOMAIN p = 1..Len(p) /\ \A i \in 1..Len(r) : SamePlace(p[i], r[i])

LEMMA MatchesItsOwn ==
    ASSUME NEW r, NEW p, Len(r) \in Nat, Alike(r, p)
    PROVE  DOMAIN Matches(r, p) = 1..Len(r) /\ \A i \in 1..Len(r) : Matches(r, p)[i] = {i}
<1> DEFINE f == Matches(r, p)
           n == Len(r)
           T == {i \in 1..n : f[i] # {i}}
<1>0. n \in Nat /\ DOMAIN p = 1..n /\ \A i \in 1..n : SamePlace(p[i], r[i])
  BY DEF Alike
<1>1. TakesInTurn(f, r, p, n)
  BY MatchesInTurn
<1> HIDE DEF f, n
<1>2. DOMAIN f = 1..n /\ \A i \in 1..n : f[i] = FirstFree(r, p, f, i)
  BY <1>1 DEF TakesInTurn
<1>3. ASSUME T # {} PROVE FALSE
  <2>1. T \subseteq Nat
    BY <1>0
  <2>2. PICK i \in T : \A y \in T : i <= y
    BY <1>3, <2>1, Least
  <2>3. i \in 1..n /\ f[i] # {i}
    OBVIOUS
  <2>4. \A j \in 1..(i - 1) : f[j] = {j}
    <3>1. \A j \in 1..(i - 1) : j \in 1..n /\ j \notin T
      BY <1>0, <2>2, <2>3
    <3> QED
      BY <3>1
  <2> HIDE DEF T
  <2>5. TakenBefore(f, i) = 1..(i - 1)
    BY <2>4 DEF TakenBefore
  <2> DEFINE F == Free(p, r[i], TakenBefore(f, i))
  <2>6. F = {x \in 1..n : x \notin 1..(i - 1) /\ SamePlace(p[x], r[i])}
    BY <1>0, <2>5 DEF Free, SamePlace
  <2>7. i \in F /\ \A x \in F : x \in 1..n /\ i <= x
    <3>1. i \notin 1..(i - 1) /\ \A x \in 1..n : x \notin 1..(i - 1) => i <= x
      BY <1>0, <2>3
    <3> HIDE DEF F
    <3> QED
      BY <1>0, <2>3, <2>6, <3>1
  <2>8. f[i] = {x \in F : \A y \in F : x <= y}
    BY <1>2, <2>3 DEF FirstFree
  <2> HIDE DEF F
  <2>9. ASSUME NEW x \in f[i] PROVE x = i
    <3>1. x \in 1..n /\ i <= x /\ x <= i
      BY <2>7, <2>8
    <3> QED
      BY <1>0, <2>3, <3>1
  <2>10. i \in f[i]
    BY <2>7, <2>8
  <2> QED
    BY <2>3, <2>9, <2>10
<1> QED
  BY <1>2, <1>3 DEF f, n

(* As many as there are, one for one, and wherever they are moved to. *)
LEMMA OneForOne ==
    ASSUME NEW A, NEW B, IsFiniteSet(A), NEW f \in [A -> B],
           \A x, y \in A : f[x] = f[y] => x = y, \A z \in B : \E x \in A : f[x] = z
    PROVE  IsFiniteSet(B) /\ Cardinality(B) = Cardinality(A)
<1>1. f \in Bijection(A, B)
  BY Fun_IsBij
<1>2. ExistsBijection(A, B)
  BY <1>1 DEF ExistsBijection
<1> QED
  BY <1>2, FS_Bijection

LEMMA Moved ==
    ASSUME NEW A, A \subseteq Nat, IsFiniteSet(A), NEW d \in Nat
    PROVE  LET B == {d + i : i \in A} IN IsFiniteSet(B) /\ Cardinality(B) = Cardinality(A)
<1> DEFINE B == {d + i : i \in A}
           f == [i \in A |-> d + i]
<1>1. f \in [A -> B] /\ \A z \in B : \E x \in A : f[x] = z
  OBVIOUS
<1>2. \A x, y \in A : f[x] = f[y] => x = y
  OBVIOUS
<1> HIDE DEF f, B
<1>3. IsFiniteSet(B) /\ Cardinality(B) = Cardinality(A)
  BY <1>1, <1>2, OneForOne
<1> QED
  BY <1>3 DEF B

LEMMA Parted ==
    ASSUME NEW B, NEW C, IsFiniteSet(B \cup C), B \cap C = {}
    PROVE  /\ IsFiniteSet(B) /\ IsFiniteSet(C) /\ Cardinality(B) \in Nat /\ Cardinality(C) \in Nat
           /\ Cardinality(B \cup C) = Cardinality(B) + Cardinality(C)
<1>1. IsFiniteSet(B) /\ IsFiniteSet(C)
  BY FS_Subset
<1>2. Cardinality(B) \in Nat /\ Cardinality(C) \in Nat
  BY <1>1, FS_CardinalityType
<1>3. Cardinality(B \cup C) = Cardinality(B) + Cardinality(C) - Cardinality(B \cap C)
  BY <1>1, FS_Union
<1>4. Cardinality(B \cap C) = 0
  BY FS_EmptySet
<1> QED
  BY <1>1, <1>2, <1>3, <1>4

(* One sequence after another. *)
LEMMA Chained ==
    ASSUME NEW a, NEW b, IsSequence(a), IsSequence(b)
    PROVE  IsSequence(a \o b) /\ Joins(a \o b, a, b)
<1> DEFINE S == {a[i] : i \in DOMAIN a} \cup {b[i] : i \in DOMAIN b}
           c == a \o b
<1>1. a \in Seq(S) /\ b \in Seq(S)
  <2> DEFINE A == {a[i] : i \in DOMAIN a}
             B == {b[i] : i \in DOMAIN b}
  <2>1. a \in Seq(A) /\ b \in Seq(B)
    BY DEF IsSequence
  <2>2. A \subseteq S /\ B \subseteq S
    OBVIOUS
  <2> HIDE DEF A, B, S
  <2>3. Seq(A) \subseteq Seq(S) /\ Seq(B) \subseteq Seq(S)
    BY <2>2
  <2> QED
    BY <2>1, <2>3
<1> HIDE DEF S
<1>2. c \in Seq(S) /\ Joins(c, a, b)
  BY <1>1, Concat
<1> HIDE DEF c
<1>3. IsSequence(c)
  BY <1>2 DEF IsSequence
<1> QED
  BY <1>2, <1>3 DEF c

LEMMA ListedFrom ==
    ASSUME NEW n \in Nat, NEW f, DOMAIN f = 1..n, f = [i \in 1..n |-> f[i]]
    PROVE  IsSequence(f) /\ Len(f) = n
BY DEF IsSequence

LEMMA Alone ==
    ASSUME NEW e
    PROVE  IsSequence(<<e>>) /\ Len(<<e>>) = 1 /\ <<e>>[1] = e
<1>1. DOMAIN <<e>> = 1..1 /\ <<e>>[1] = e
  OBVIOUS
<1> DEFINE f == <<e>>
<1>2. f = [i \in 1..1 |-> f[i]]
  OBVIOUS
<1> HIDE DEF f
<1>3. IsSequence(f) /\ Len(f) = 1
  BY <1>1, <1>2, ListedFrom DEF f
<1> QED
  BY <1>1, <1>3 DEF f

-----------------------------------------------------------------------------
(* Where the findings about boxes are among the findings. *)

AboutBox(r) == <<"box", r.location, r.kind>>
LaidOut(found, r, p, off) ==
    LET match == Matches(r, p)
        u == Sorted(DOMAIN p \ UNION {match[i] : i \in DOMAIN r})
    IN /\ off \in Nat /\ Len(found) \in Nat /\ DOMAIN found = 1..Len(found)
       /\ \A i \in 1..Len(r) :
            /\ off + i \in DOMAIN found
            /\ found[off + i] = Finding(AboutBox(r[i]), BoxOutcome(r[i], p, match[i]))
       /\ \A i \in 1..Len(u) :
            /\ off + Len(r) + i \in DOMAIN found
            /\ found[off + Len(r) + i] = Finding(AboutBox(p[u[i]]), "unexpected")
       /\ \A x \in DOMAIN found :
            \/ \E i \in 1..Len(r) : x = off + i
            \/ \E i \in 1..Len(u) : x = off + Len(r) + i
            \/ found[x].subject[1] # "box"

LEMMA SortedIsSequence ==
    ASSUME NEW places, IsFiniteSet(places), \A i \in places : i \in Nat
    PROVE  IsSequence(Sorted(places)) /\ Len(Sorted(places)) = Cardinality(places)
<1> DEFINE n == Cardinality(places)
           s == Sorted(places)
<1>1. n \in Nat /\ DOMAIN s = 1..n /\ s \in Bijection(1..n, places)
  BY SortedPlaces
<1> HIDE DEF n, s
<1>2. s = [i \in 1..n |-> s[i]]
  BY <1>1 DEF Bijection, Injection
<1> QED
  BY <1>1, <1>2, ListedFrom DEF n, s

LEMMA Findings ==
    ASSUME NEW m, NEW f, IsSequence(m.tracks), IsSequence(m.vendor), IsSequence(VendorBoxes(f))
    PROVE  /\ LaidOut(FindingsOf(m, f), m.vendor, VendorBoxes(f), 1 + Len(m.tracks))
           /\ FindingsOf(m, f)[1].subject = <<"file">>
           /\ FindingsOf(m, f)[1].outcome = IF m.digest = {} THEN "not recorded" ELSE Compare(m.digest, {FileDigest(f)})
           /\ \A k \in 1..Len(m.tracks) :
                FindingsOf(m, f)[1 + k].outcome = TrackOutcome(m.tracks[k], f)
           /\ FindingsOf(m, f)[Len(FindingsOf(m, f))].outcome
                = Compare(m.structure.fingerprint, StructuralFingerprint(f))
           /\ 1 \in DOMAIN FindingsOf(m, f) /\ Len(FindingsOf(m, f)) \in DOMAIN FindingsOf(m, f)
           /\ \A x \in DOMAIN FindingsOf(m, f) :
                \/ x = 1 \/ x = Len(FindingsOf(m, f))
                \/ \E k \in 1..Len(m.tracks) : x = 1 + k
                \/ FindingsOf(m, f)[x].subject[1] = "box"
<1> DEFINE r == m.vendor
           p == VendorBoxes(f)
           match == Matches(r, p)
           free == DOMAIN p \ UNION {match[i] : i \in DOMAIN r}
           u == Sorted(free)
           whole == Finding(<<"file">>, IF m.digest = {} THEN "not recorded" ELSE Compare(m.digest, {FileDigest(f)}))
           shape == Finding(<<"structure">>, Compare(m.structure.fingerprint, StructuralFingerprint(f)))
           tr == [k \in DOMAIN m.tracks |-> Finding(<<"track", m.tracks[k].index>>, TrackOutcome(m.tracks[k], f))]
           va == [i \in DOMAIN r |-> Finding(<<"box", r[i].location, r[i].kind>>, BoxOutcome(r[i], p, match[i]))]
           vb == [i \in DOMAIN u |-> Finding(<<"box", p[u[i]].location, p[u[i]].kind>>, "unexpected")]
           vv == va \o vb
           c1 == <<whole>> \o tr
           c2 == c1 \o vv
           c3 == c2 \o <<shape>>
<1>1. FindingsOf(m, f) = c3
  BY DEF FindingsOf, VendorFindings
<1>2. /\ Len(r) \in Nat /\ DOMAIN r = 1..Len(r) /\ Len(m.tracks) \in Nat /\ DOMAIN m.tracks = 1..Len(m.tracks)
      /\ IsFiniteSet(free) /\ \A x \in free : x \in Nat
  <2>1. \A T \in SUBSET DOMAIN p : IsFiniteSet(T) /\ \A x \in T : x \in Nat
    BY SequencePlaces
  <2>2. free \in SUBSET DOMAIN p
    OBVIOUS
  <2> HIDE DEF free
  <2> QED
    BY <2>1, <2>2, SequencePlaces
<1>3. IsSequence(u) /\ Len(u) \in Nat /\ DOMAIN u = 1..Len(u)
  BY <1>2, SortedIsSequence, SequencePlaces
<1>4. IsSequence(<<whole>>) /\ IsSequence(<<shape>>) /\ Len(<<whole>>) = 1 /\ Len(<<shape>>) = 1
      /\ <<whole>>[1] = whole /\ <<shape>>[1] = shape
  BY Alone
<1>5. /\ IsSequence(tr) /\ Len(tr) = Len(m.tracks)
      /\ IsSequence(va) /\ Len(va) = Len(r) /\ IsSequence(vb) /\ Len(vb) = Len(u)
  BY <1>2, <1>3, ListedFrom
<1>6. /\ \A i \in 1..Len(r) : va[i] = Finding(AboutBox(r[i]), BoxOutcome(r[i], p, match[i]))
      /\ \A i \in 1..Len(u) : vb[i] = Finding(AboutBox(p[u[i]]), "unexpected")
      /\ \A k \in 1..Len(tr) : tr[k].subject[1] = "track" /\ tr[k].outcome = TrackOutcome(m.tracks[k], f)
  BY <1>2, <1>3, <1>5 DEF AboutBox, Finding
<1>7. /\ whole.subject = <<"file">> /\ whole.subject[1] # "box" /\ shape.subject[1] # "box"
      /\ shape.outcome = Compare(m.structure.fingerprint, StructuralFingerprint(f))
      /\ whole.outcome = IF m.digest = {} THEN "not recorded" ELSE Compare(m.digest, {FileDigest(f)})
  BY DEF Finding
<1> HIDE DEF whole, shape, tr, va, vb, u
<1>8. IsSequence(vv) /\ Joins(vv, va, vb)
  BY <1>5, Chained
<1> HIDE DEF vv
<1>9. IsSequence(c1) /\ Joins(c1, <<whole>>, tr)
  BY <1>4, <1>5, Chained
<1> HIDE DEF c1
<1>10. IsSequence(c2) /\ Joins(c2, c1, vv)
  BY <1>8, <1>9, Chained
<1> HIDE DEF c2
<1>11. IsSequence(c3) /\ Joins(c3, c2, <<shape>>)
  BY <1>4, <1>10, Chained
<1> HIDE DEF c3
<1> DEFINE t == Len(m.tracks)
           n == Len(r)
           l == Len(u)
<1>12. /\ t \in Nat /\ n \in Nat /\ l \in Nat
       /\ Len(vv) = n + l /\ Len(c1) = 1 + t /\ Len(c2) = 1 + t + n + l /\ Len(c3) = 1 + t + n + l + 1
       /\ DOMAIN c3 = 1..Len(c3)
  <2>1. Len(vv) = n + l
    BY <1>5, <1>8 DEF Joins
  <2>2. Len(c1) = 1 + t
    BY <1>4, <1>5, <1>9 DEF Joins
  <2>3. Len(c2) = Len(c1) + Len(vv)
    BY <1>10 DEF Joins
  <2>4. Len(c3) = Len(c2) + 1
    BY <1>4, <1>11 DEF Joins
  <2>5. DOMAIN c3 = 1..Len(c3)
    BY <1>11, SequencePlaces
  <2>6. t \in Nat /\ n \in Nat /\ l \in Nat
    BY <1>2, <1>3
  <2> HIDE DEF t, n, l
  <2> QED
    BY <2>1, <2>2, <2>3, <2>4, <2>5, <2>6
<1> HIDE DEF t, n, l
<1>13. c3[Len(c3)] = shape
  <2>1. c3[Len(c2) + 1] = <<shape>>[1]
    BY <1>4, <1>11 DEF Joins
  <2> QED
    BY <1>4, <1>12, <2>1
<1>14. \A x \in 1..Len(c2) : c3[x] = c2[x]
  BY <1>11 DEF Joins
<1>15. /\ \A x \in 1..(1 + t) : c3[x] = c1[x]
       /\ \A x \in 1..(n + l) : c3[1 + t + x] = vv[x]
  <2>1. \A x \in 1..(1 + t) : x \in 1..Len(c2) /\ c2[x] = c1[x]
    BY <1>10, <1>12 DEF Joins
  <2>2. \A x \in 1..(n + l) : 1 + t + x \in 1..Len(c2) /\ c2[1 + t + x] = vv[x]
    BY <1>10, <1>12 DEF Joins
  <2> QED
    BY <1>14, <2>1, <2>2
<1>16. c3[1] = whole /\ \A k \in 1..t : c3[1 + k] = tr[k]
  <2>1. c1[1] = <<whole>>[1] /\ \A k \in 1..t : c1[1 + k] = tr[k]
    BY <1>4, <1>5, <1>9, <1>12 DEF Joins, t
  <2>2. 1 \in 1..(1 + t) /\ \A k \in 1..t : 1 + k \in 1..(1 + t)
    BY <1>12
  <2> QED
    BY <1>4, <1>15, <2>1, <2>2
<1>17. /\ \A i \in 1..n : c3[1 + t + i] = va[i] /\ 1 + t + i \in 1..Len(c3)
       /\ \A i \in 1..l : c3[1 + t + n + i] = vb[i] /\ 1 + t + n + i \in 1..Len(c3)
  <2>1. \A i \in 1..n : i \in 1..(n + l) /\ vv[i] = va[i]
    BY <1>5, <1>8, <1>12 DEF Joins, n, l
  <2>2. \A i \in 1..l : n + i \in 1..(n + l) /\ vv[n + i] = vb[i]
    BY <1>5, <1>8, <1>12 DEF Joins, n, l
  <2>3. \A i \in 1..l : 1 + t + (n + i) = 1 + t + n + i
    BY <1>12
  <2>4. /\ \A i \in 1..n : 1 + t + i \in 1..Len(c3)
        /\ \A i \in 1..l : 1 + t + n + i \in 1..Len(c3)
    BY <1>12
  <2> QED
    BY <1>15, <2>1, <2>2, <2>3, <2>4
<1>18. ASSUME NEW x \in 1..Len(c3)
       PROVE  \/ x = 1 \/ x = Len(c3) \/ \E k \in 1..t : x = 1 + k
              \/ \E i \in 1..n : x = 1 + t + i
              \/ \E i \in 1..l : x = 1 + t + n + i
  <2>1. x \in 2..(1 + t) => x - 1 \in 1..t /\ x = 1 + (x - 1)
    BY <1>12
  <2>2. x \in (2 + t)..(1 + t + n) => x - t - 1 \in 1..n /\ x = 1 + t + (x - t - 1)
    BY <1>12
  <2>3. x \in (2 + t + n)..(1 + t + n + l) => x - t - n - 1 \in 1..l /\ x = 1 + t + n + (x - t - n - 1)
    BY <1>12
  <2>4. \/ x = 1 \/ x = Len(c3) \/ x \in 2..(1 + t) \/ x \in (2 + t)..(1 + t + n)
        \/ x \in (2 + t + n)..(1 + t + n + l)
    BY <1>12
  <2> QED
    BY <2>1, <2>2, <2>3, <2>4
<1>19. LaidOut(c3, r, p, 1 + t)
  <2>1. 1 + t \in Nat /\ Len(c3) \in Nat
    BY <1>12
  <2>2. \A i \in 1..n : c3[1 + t + i] = Finding(AboutBox(r[i]), BoxOutcome(r[i], p, match[i]))
    BY <1>6, <1>17 DEF n
  <2>3. \A i \in 1..l : c3[1 + t + n + i] = Finding(AboutBox(p[u[i]]), "unexpected")
    BY <1>6, <1>17 DEF l
  <2>4. ASSUME NEW x \in 1..Len(c3)
        PROVE  \/ \E i \in 1..n : x = 1 + t + i
               \/ \E i \in 1..l : x = 1 + t + n + i
               \/ c3[x].subject[1] # "box"
    <3>1. CASE x = 1
      BY <1>7, <1>16, <3>1
    <3>2. CASE x = Len(c3)
      BY <1>7, <1>13, <3>2
    <3>3. ASSUME NEW k \in 1..t, x = 1 + k PROVE c3[x].subject[1] # "box"
      <4>1. c3[x] = tr[k] /\ tr[k].subject[1] = "track"
        BY <1>5, <1>6, <1>16, <3>3 DEF t
      <4> QED
        BY <4>1
    <3> QED
      BY <1>18, <3>1, <3>2, <3>3
  <2> QED
    BY <1>12, <1>17, <2>1, <2>2, <2>3, <2>4 DEF LaidOut, u, n, l
<1>20. ASSUME NEW x \in 1..Len(c3)
       PROVE  x = 1 \/ x = Len(c3) \/ (\E k \in 1..t : x = 1 + k) \/ c3[x].subject[1] = "box"
  <2>1. ASSUME NEW i \in 1..n, x = 1 + t + i PROVE c3[x].subject[1] = "box"
    <3>1. c3[x] = va[i]
      BY <1>17, <2>1
    <3>2. \E o : va[i] = Finding(AboutBox(r[i]), o)
      BY <1>6 DEF n
    <3>3. c3[x].subject = AboutBox(r[i])
      BY <3>1, <3>2 DEF Finding
    <3> QED
      BY <3>3 DEF AboutBox
  <2>2. ASSUME NEW i \in 1..l, x = 1 + t + n + i PROVE c3[x].subject[1] = "box"
    <3>1. c3[x] = vb[i]
      BY <1>17, <2>2
    <3>2. \E o : vb[i] = Finding(AboutBox(p[u[i]]), o)
      BY <1>6 DEF l
    <3>3. c3[x].subject = AboutBox(p[u[i]])
      BY <3>1, <3>2 DEF Finding
    <3> QED
      BY <3>3 DEF AboutBox
  <2> QED
    BY <1>18, <2>1, <2>2
<1>21. /\ \A k \in 1..t : c3[1 + k].outcome = TrackOutcome(m.tracks[k], f)
       /\ 1 \in 1..Len(c3) /\ Len(c3) \in 1..Len(c3)
  BY <1>5, <1>6, <1>12, <1>16 DEF t
<1> QED
  BY <1>1, <1>7, <1>12, <1>13, <1>16, <1>19, <1>20, <1>21 DEF t

-----------------------------------------------------------------------------
(* What the findings about the boxes of one place come to. *)

Settled == {"identical", "differs", "not recorded", "not checkable"}
BoxesOf(s, place) == {i \in DOMAIN s : <<s[i].location, s[i].kind>> = place}
FindingsAbout(found, place, outcomes) ==
    {i \in DOMAIN found : found[i].subject = <<"box">> \o place /\ found[i].outcome \in outcomes}
Counted(found, r, p, place) ==
    /\ Cardinality(BoxesOf(r, place)) = Cardinality(FindingsAbout(found, place, Settled))
                                      + Cardinality(FindingsAbout(found, place, {"missing"}))
    /\ Cardinality(BoxesOf(p, place)) = Cardinality(FindingsAbout(found, place, Settled))
                                      + Cardinality(FindingsAbout(found, place, {"unexpected"}))
    /\ \/ Cardinality(FindingsAbout(found, place, {"missing"})) = 0
       \/ Cardinality(FindingsAbout(found, place, {"unexpected"})) = 0

LEMMA OutcomesOfABox ==
    ASSUME NEW b, NEW p, NEW s
    PROVE  BoxOutcome(b, p, s) \in IF s = {} THEN {"missing"} ELSE Settled
BY DEF BoxOutcome, Compare, Settled

LEMMA Tagged ==
    ASSUME NEW a, NEW b, NEW c
    PROVE  <<a>> \o <<b, c>> = <<a, b, c>> /\ (<<a>> \o <<b, c>>)[1] = a
<1> DEFINE S == {a, b, c}
           s == <<a>>
           t == <<b, c>>
           w == <<a, b, c>>
<1>1. s \in Seq(S) /\ Len(s) = 1 /\ s[1] = a
  OBVIOUS
<1>2. t \in Seq(S) /\ Len(t) = 2 /\ t[1] = b /\ t[2] = c
  <2>1. t = [i \in 1..2 |-> t[i]] /\ t[1] = b /\ t[2] = c
    OBVIOUS
  <2>2. \A i \in 1..2 : t[i] \in S
    <3>1. \A i \in 1..2 : i = 1 \/ i = 2
      OBVIOUS
    <3> QED
      BY <2>1, <3>1
  <2> HIDE DEF t, S
  <2> QED
    BY <2>1, <2>2
<1>3. w \in Seq(S) /\ Len(w) = 3 /\ w[1] = a /\ w[2] = b /\ w[3] = c
  <2>1. w = [i \in 1..3 |-> w[i]] /\ w[1] = a /\ w[2] = b /\ w[3] = c
    OBVIOUS
  <2>2. \A i \in 1..3 : w[i] \in S
    <3>1. \A i \in 1..3 : i = 1 \/ i = 2 \/ i = 3
      OBVIOUS
    <3> QED
      BY <2>1, <3>1
  <2> HIDE DEF w, S
  <2> QED
    BY <2>1, <2>2
<1> HIDE DEF s, t, w, S
<1>4. /\ s \o t \in Seq(S) /\ Len(s \o t) = Len(s) + Len(t)
      /\ \A i \in 1..(Len(s) + Len(t)) : (s \o t)[i] = IF i <= Len(s) THEN s[i] ELSE t[i - Len(s)]
  BY <1>1, <1>2, ConcatProperties
<1>5. Len(s \o t) = 3 /\ (s \o t)[1] = a /\ (s \o t)[2] = b /\ (s \o t)[3] = c
  <2>1. \A i \in 1..3 : (s \o t)[i] = IF i <= 1 THEN s[i] ELSE t[i - 1]
    BY <1>1, <1>2, <1>4
  <2>2. (s \o t)[1] = s[1] /\ (s \o t)[2] = t[2 - 1] /\ (s \o t)[3] = t[3 - 1]
    <3>1. 1 \in 1..3 /\ 2 \in 1..3 /\ 3 \in 1..3 /\ 1 <= 1 /\ ~(2 <= 1) /\ ~(3 <= 1)
      OBVIOUS
    <3> QED
      BY <2>1, <3>1
  <2> QED
    BY <1>1, <1>2, <1>4, <2>2
<1>6. s \o t = w
  <2>1. \A i \in 1..3 : (s \o t)[i] = w[i]
    <3>1. \A i \in 1..3 : i = 1 \/ i = 2 \/ i = 3
      OBVIOUS
    <3> QED
      BY <1>3, <1>5, <3>1
  <2> QED
    BY <1>3, <1>4, <1>5, <2>1, SeqEqual
<1> QED
  BY <1>5, <1>6 DEF s, t, w

LEMMA BoxesCounted ==
    ASSUME NEW found, NEW r, NEW p, NEW off, IsSequence(r), IsSequence(p), LaidOut(found, r, p, off),
           NEW l, NEW k
    PROVE  Counted(found, r, p, <<l, k>>)
<1> DEFINE match == Matches(r, p)
           taken == UNION {match[i] : i \in DOMAIN r}
           free == DOMAIN p \ taken
           u == Sorted(free)
           n == Len(r)
           place == <<l, k>>
           Here(b) == b.location = l /\ b.kind = k
           About(outcomes) == FindingsAbout(found, place, outcomes)
           R == BoxesOf(r, place)
           R1 == {i \in R : match[i] # {}}
           R0 == {i \in R : match[i] = {}}
           P == BoxesOf(p, place)
           P1 == {x \in P : x \in taken}
           P0 == {x \in P : x \notin taken}
           U0 == {i \in 1..Len(u) : u[i] \in P0}
<1>1. /\ n \in Nat /\ DOMAIN r = 1..n /\ IsFiniteSet(DOMAIN r) /\ IsFiniteSet(DOMAIN p)
      /\ \A x \in DOMAIN p : x \in Nat
  BY SequencePlaces
<1>2. IsMatching(match, r, p)
  BY <1>1, MatchesWell DEF n
<1>3. /\ IsFiniteSet(free) /\ \A x \in free : x \in Nat
      /\ R \subseteq DOMAIN r /\ P \subseteq DOMAIN p /\ IsFiniteSet(R) /\ IsFiniteSet(P)
  <2>1. IsFiniteSet(free)
    BY <1>1, FS_Subset
  <2>2. R \subseteq DOMAIN r /\ P \subseteq DOMAIN p
    BY DEF BoxesOf
  <2>3. IsFiniteSet(R) /\ IsFiniteSet(P)
    BY <1>1, <2>2, FS_Subset
  <2> QED
    BY <1>1, <2>1, <2>2, <2>3
<1>4. /\ Len(u) \in Nat /\ \A i \in 1..Len(u) : u[i] \in free
      /\ \A i, j \in 1..Len(u) : u[i] = u[j] => i = j
      /\ \A x \in free : \E i \in 1..Len(u) : u[i] = x
  <2> DEFINE c == Cardinality(free)
  <2>1. c \in Nat /\ Len(u) = c
    BY <1>3, SortedPlaces, SortedIsSequence
  <2> HIDE DEF c
  <2>2. /\ \A i \in 1..c : u[i] \in free
        /\ \A i, j \in 1..c : u[i] = u[j] => i = j
        /\ \A x \in free : \E i \in 1..c : u[i] = x
    BY <1>3, SortedPlaces DEF c
  <2> QED
    BY <2>1, <2>2
<1>5. /\ off \in Nat /\ DOMAIN found = 1..Len(found)
      /\ \A i \in 1..n : off + i \in DOMAIN found
                         /\ found[off + i] = Finding(AboutBox(r[i]), BoxOutcome(r[i], p, match[i]))
      /\ \A i \in 1..Len(u) : off + n + i \in DOMAIN found
                         /\ found[off + n + i] = Finding(AboutBox(p[u[i]]), "unexpected")
      /\ \A x \in DOMAIN found :
           \/ \E i \in 1..n : x = off + i
           \/ \E i \in 1..Len(u) : x = off + n + i
           \/ found[x].subject[1] # "box"
  BY DEF LaidOut
<1>6. /\ \A i \in DOMAIN r : i \in R <=> Here(r[i])
      /\ \A i \in DOMAIN p : i \in P <=> Here(p[i])
  BY DEF BoxesOf
<1>7. \A b : AboutBox(b) = <<"box">> \o place <=> Here(b)
  <2>1. <<"box">> \o <<l, k>> = <<"box", l, k>>
    BY Tagged
  <2> QED
    BY <2>1 DEF AboutBox
<1>8. (<<"box">> \o place)[1] = "box"
  BY Tagged
<1>9. \A x \in taken : \E i \in 1..n : x \in match[i]
  BY <1>1
<1>10. \A i \in 1..n : match[i] \subseteq taken
  BY <1>1
<1> HIDE DEF match, u, n, place, R, P, taken, free
<1>11. \A outcomes : \A x \in About(outcomes) :
          \/ \E i \in R : x = off + i /\ BoxOutcome(r[i], p, match[i]) \in outcomes
          \/ \E i \in U0 : x = off + n + i /\ "unexpected" \in outcomes
  <2> SUFFICES ASSUME NEW outcomes, NEW x \in About(outcomes)
               PROVE  \/ \E i \in R : x = off + i /\ BoxOutcome(r[i], p, match[i]) \in outcomes
                      \/ \E i \in U0 : x = off + n + i /\ "unexpected" \in outcomes
    OBVIOUS
  <2>1. x \in DOMAIN found /\ found[x].subject = <<"box">> \o place /\ found[x].outcome \in outcomes
    BY DEF FindingsAbout
  <2>2. CASE \E i \in 1..n : x = off + i
    <3>1. PICK i \in 1..n : x = off + i
      BY <2>2
    <3>2. found[x] = Finding(AboutBox(r[i]), BoxOutcome(r[i], p, match[i]))
      BY <1>5, <3>1
    <3>3. AboutBox(r[i]) = <<"box">> \o place /\ BoxOutcome(r[i], p, match[i]) \in outcomes
      BY <2>1, <3>2 DEF Finding
    <3>4. i \in R
      BY <1>1, <1>6, <1>7, <3>3
    <3> QED
      BY <3>1, <3>3, <3>4
  <2>3. CASE \E i \in 1..Len(u) : x = off + n + i
    <3>1. PICK i \in 1..Len(u) : x = off + n + i
      BY <2>3
    <3>2. found[x] = Finding(AboutBox(p[u[i]]), "unexpected")
      BY <1>5, <3>1
    <3>3. AboutBox(p[u[i]]) = <<"box">> \o place /\ "unexpected" \in outcomes
      BY <2>1, <3>2 DEF Finding
    <3>4. u[i] \in DOMAIN p /\ u[i] \notin taken
      BY <1>4, <3>1 DEF free
    <3>5. i \in U0
      BY <1>6, <1>7, <3>3, <3>4
    <3> QED
      BY <3>1, <3>3, <3>5
  <2> QED
    BY <1>5, <1>8, <2>1, <2>2, <2>3
<1>12. ASSUME NEW outcomes, NEW i \in R, BoxOutcome(r[i], p, match[i]) \in outcomes
       PROVE  off + i \in About(outcomes)
  <2>1. i \in 1..n /\ Here(r[i])
    BY <1>1, <1>3, <1>6
  <2>2. found[off + i] = Finding(<<"box">> \o place, BoxOutcome(r[i], p, match[i])) /\ off + i \in DOMAIN found
    BY <1>5, <1>7, <2>1
  <2> QED
    BY <1>12, <2>2 DEF FindingsAbout, Finding
<1>13. ASSUME NEW outcomes, NEW i \in U0, "unexpected" \in outcomes
       PROVE  off + n + i \in About(outcomes)
  <2>1. i \in 1..Len(u) /\ Here(p[u[i]])
    BY <1>3, <1>6
  <2>2. AboutBox(p[u[i]]) = <<"box">> \o place
    BY <1>7, <2>1
  <2>3. found[off + n + i] = Finding(AboutBox(p[u[i]]), "unexpected") /\ off + n + i \in DOMAIN found
    BY <1>5, <2>1
  <2> QED
    BY <1>13, <2>2, <2>3 DEF FindingsAbout, Finding
<1>14. /\ \A i \in R1 : BoxOutcome(r[i], p, match[i]) \in Settled
       /\ \A i \in R0 : BoxOutcome(r[i], p, match[i]) = "missing"
       /\ R = R1 \cup R0 /\ R1 \cap R0 = {} /\ P = P1 \cup P0 /\ P1 \cap P0 = {}
       /\ "missing" \notin Settled /\ "unexpected" \notin Settled /\ "missing" # "unexpected"
  <2>1. \A i \in R1 : BoxOutcome(r[i], p, match[i]) \in Settled
    BY OutcomesOfABox
  <2>2. \A i \in R0 : BoxOutcome(r[i], p, match[i]) = "missing"
    BY OutcomesOfABox
  <2> QED
    BY <2>1, <2>2 DEF Settled
<1>15. About(Settled) = {off + i : i \in R1}
  BY <1>11, <1>12, <1>14
<1>16. About({"missing"}) = {off + i : i \in R0}
  BY <1>11, <1>12, <1>14
<1>17. About({"unexpected"}) = {(off + n) + i : i \in U0}
  BY <1>11, <1>13, <1>14
<1>18. R1 \subseteq Nat /\ R0 \subseteq Nat /\ U0 \subseteq Nat /\ n \in Nat /\ off + n \in Nat
  BY <1>1, <1>3, <1>4, <1>5
<1>19. /\ IsFiniteSet(R1) /\ IsFiniteSet(R0) /\ Cardinality(R) = Cardinality(R1) + Cardinality(R0)
       /\ IsFiniteSet(P1) /\ IsFiniteSet(P0) /\ Cardinality(P) = Cardinality(P1) + Cardinality(P0)
  <2> HIDE DEF R1, R0, P1, P0
  <2>1. IsFiniteSet(R1) /\ IsFiniteSet(R0) /\ Cardinality(R) = Cardinality(R1) + Cardinality(R0)
    <3>1. IsFiniteSet(R1 \cup R0) /\ R = R1 \cup R0 /\ R1 \cap R0 = {}
      BY <1>3, <1>14
    <3>2. IsFiniteSet(R1) /\ IsFiniteSet(R0) /\ Cardinality(R1 \cup R0) = Cardinality(R1) + Cardinality(R0)
      BY <3>1, Parted
    <3> QED
      BY <3>1, <3>2
  <2>2. IsFiniteSet(P1) /\ IsFiniteSet(P0) /\ Cardinality(P) = Cardinality(P1) + Cardinality(P0)
    <3>1. IsFiniteSet(P1 \cup P0) /\ P = P1 \cup P0 /\ P1 \cap P0 = {}
      BY <1>3, <1>14
    <3>2. IsFiniteSet(P1) /\ IsFiniteSet(P0) /\ Cardinality(P1 \cup P0) = Cardinality(P1) + Cardinality(P0)
      BY <3>1, Parted
    <3> QED
      BY <3>1, <3>2
  <2> QED
    BY <2>1, <2>2
<1>20. Cardinality(R1) = Cardinality(P1)
  <2> DEFINE f == [i \in R1 |-> CHOOSE x : x \in match[i]]
  <2>1. ASSUME NEW i \in R1
        PROVE  f[i] \in P1 /\ match[i] = {f[i]}
    <3>1. i \in 1..n /\ match[i] # {} /\ Here(r[i])
      BY <1>1, <1>3, <1>6
    <3>2. PICK x \in DOMAIN p : match[i] = {x} /\ SamePlace(p[x], r[i])
      BY <1>2, <3>1 DEF IsMatching, n
    <3>3. f[i] = x
      BY <3>2
    <3>4. x \in P /\ x \in taken
      BY <1>6, <1>10, <3>1, <3>2 DEF SamePlace
    <3> QED
      BY <3>2, <3>3, <3>4
  <2> HIDE DEF f
  <2>2. ASSUME NEW i \in R1, NEW j \in R1, f[i] = f[j] PROVE i = j
    <3>1. i \in 1..n /\ j \in 1..n
      BY <1>1, <1>3
    <3>2. i # j => match[i] \cap match[j] = {}
      BY <1>2, <3>1 DEF IsMatching, n
    <3> QED
      BY <2>1, <2>2, <3>2
  <2>3. ASSUME NEW x \in P1 PROVE \E i \in R1 : f[i] = x
    <3>1. PICK i \in 1..n : x \in match[i]
      BY <1>9
    <3>2. PICK y \in DOMAIN p : match[i] = {y} /\ SamePlace(p[y], r[i])
      BY <1>2, <3>1 DEF IsMatching, n
    <3>3. y = x /\ Here(p[x])
      BY <1>3, <1>6, <3>1, <3>2
    <3>4. i \in R1
      BY <1>1, <1>6, <3>1, <3>2, <3>3 DEF SamePlace
    <3> QED
      BY <2>1, <3>1, <3>4
  <2>4. f \in [R1 -> P1]
    <3>1. f = [i \in R1 |-> f[i]]
      BY DEF f
    <3> QED
      BY <2>1, <3>1
  <2> HIDE DEF R1, P1
  <2> QED
    BY <1>19, <2>2, <2>3, <2>4, OneForOne
<1>21. IsFiniteSet(U0) /\ Cardinality(U0) = Cardinality(P0)
  <2> DEFINE f == [i \in U0 |-> u[i]]
  <2>1. /\ f \in [U0 -> P0]
        /\ \A i, j \in U0 : f[i] = f[j] => i = j
    BY <1>4
  <2>2. \A x \in P0 : \E i \in U0 : f[i] = x
    <3>1. \A x \in P0 : x \in free
      BY <1>3 DEF free
    <3> QED
      BY <1>4, <3>1
  <2>3. IsFiniteSet(U0)
    <3> DEFINE c == Len(u)
    <3>1. c \in Nat
      BY <1>4
    <3> HIDE DEF c
    <3>2. IsFiniteSet(1..c)
      <4>1. c \in Int /\ 1 \in Int
        BY <3>1
      <4> QED
        BY <4>1, FS_Interval
    <3>3. U0 \subseteq 1..c
      BY DEF c
    <3> QED
      BY <3>2, <3>3, FS_Subset
  <2> HIDE DEF f, U0, P0
  <2>4. Cardinality(P0) = Cardinality(U0)
    BY <2>1, <2>2, <2>3, OneForOne
  <2> QED
    BY <2>3, <2>4
<1>22. R0 = {} \/ P0 = {}
  <2> SUFFICES ASSUME NEW i \in R0, NEW x \in P0 PROVE FALSE
    OBVIOUS
  <2>1. i \in 1..n /\ match[i] = {} /\ Here(r[i]) /\ x \in DOMAIN p /\ Here(p[x]) /\ x \notin taken
    BY <1>1, <1>3, <1>6
  <2>2. PICK j \in 1..n : x \in match[j]
    BY <1>2, <2>1 DEF IsMatching, n, SamePlace
  <2> QED
    BY <1>10, <2>1, <2>2
<1>23. /\ Cardinality(About(Settled)) = Cardinality(R1)
       /\ Cardinality(About({"missing"})) = Cardinality(R0)
       /\ Cardinality(About({"unexpected"})) = Cardinality(P0)
  <2> HIDE DEF R1, R0, P0, U0, About
  <2>1. /\ Cardinality({off + i : i \in R1}) = Cardinality(R1)
        /\ Cardinality({off + i : i \in R0}) = Cardinality(R0)
    BY <1>5, <1>18, <1>19, Moved
  <2>2. Cardinality({(off + n) + i : i \in U0}) = Cardinality(U0)
    BY <1>18, <1>21, Moved
  <2> QED
    BY <1>15, <1>16, <1>17, <1>21, <2>1, <2>2
<1>24. Cardinality(R0) = 0 \/ Cardinality(P0) = 0
  BY <1>22, FS_EmptySet
<1> QED
  BY <1>19, <1>20, <1>23, <1>24 DEF Counted, R, P, place

(* What is at some places of a sequence. *)
IsAt(a, s, places) ==
    /\ IsSequence(a) /\ DOMAIN a = 1..Len(a) /\ Len(a) \in Nat /\ Len(a) = Cardinality(places)
    /\ \A k \in DOMAIN a : Sorted(places)[k] \in places /\ a[k] = s[Sorted(places)[k]]
    /\ \A i \in places : \E k \in DOMAIN a : Sorted(places)[k] = i

LEMMA AtPlaces ==
    ASSUME NEW s, NEW places, IsFiniteSet(places), \A i \in places : i \in Nat
    PROVE  IsAt(At(s, places), s, places)
<1> DEFINE n == Cardinality(places)
           a == At(s, places)
<1>1. /\ n \in Nat
      /\ \A k \in 1..n : Sorted(places)[k] \in places
      /\ \A i \in places : \E k \in 1..n : Sorted(places)[k] = i
  BY SortedPlaces
<1>2. a = [k \in 1..n |-> s[Sorted(places)[k]]]
  BY DEF At
<1> HIDE DEF n, a
<1>3. DOMAIN a = 1..n /\ a = [k \in 1..n |-> a[k]] /\ \A k \in 1..n : a[k] = s[Sorted(places)[k]]
  BY <1>2
<1>4. IsSequence(a) /\ Len(a) = n
  BY <1>1, <1>3, ListedFrom
<1> QED
  BY <1>1, <1>3, <1>4 DEF IsAt, n, a

LEMMA SameSizes ==
    ASSUME NEW a, NEW b, Sizes(a) = Sizes(b)
    PROVE  DOMAIN a = DOMAIN b /\ \A i \in DOMAIN a : a[i].kind = b[i].kind /\ a[i].size = b[i].size
<1>1. DOMAIN Sizes(a) = DOMAIN a /\ DOMAIN Sizes(b) = DOMAIN b
  BY DEF Sizes
<1>2. DOMAIN a = DOMAIN b
  BY <1>1
<1>3. ASSUME NEW i \in DOMAIN a PROVE a[i].kind = b[i].kind /\ a[i].size = b[i].size
  <2>1. Sizes(a)[i] = <<a[i].kind, a[i].size>> /\ Sizes(b)[i] = <<b[i].kind, b[i].size>>
    BY <1>2 DEF Sizes
  <2> QED
    BY <2>1
<1> QED
  BY <1>2, <1>3

LEMMA SameLength ==
    ASSUME NEW a, NEW b, IsSequence(a), IsSequence(b), DOMAIN a = DOMAIN b
    PROVE  Len(a) = Len(b)
<1>1. Cardinality(DOMAIN a) = Len(a) /\ Cardinality(DOMAIN b) = Len(b)
  BY SequencePlaces
<1> QED
  BY <1>1

(* Two files of one shape have the same boxes at the same places, and the unknown ones are as long. *)
LooksLike(f, g) ==
    /\ DOMAIN f.top = DOMAIN g.top /\ DOMAIN f.userData = DOMAIN g.userData
    /\ \A i \in DOMAIN f.top : f.top[i].kind = g.top[i].kind /\ (f.top[i].clipped <=> g.top[i].clipped)
    /\ \A i \in DOMAIN f.top : Unknown(f.top[i]) => f.top[i].size = g.top[i].size
    /\ \A i \in DOMAIN f.userData : f.userData[i].kind = g.userData[i].kind

LEMMA SameClipped ==
    ASSUME NEW f, NEW g, IsFile(f), IsFile(g), DOMAIN f.top = DOMAIN g.top,
           Sizes(ClippedTail(f)) = Sizes(ClippedTail(g))
    PROVE  \A i \in DOMAIN f.top : f.top[i].clipped <=> g.top[i].clipped
<1> DEFINE n == Len(f.top)
<1>1. /\ n \in Nat /\ DOMAIN f.top = 1..n /\ DOMAIN g.top = 1..n /\ Len(g.top) = n
      /\ \A i \in 1..n : (f.top[i].clipped => i = n) /\ (g.top[i].clipped => i = n)
      /\ (f.top = <<>> <=> n = 0) /\ (g.top = <<>> <=> n = 0)
  <2>1. IsSequence(f.top) /\ IsSequence(g.top)
    BY DEF IsFile
  <2>2. Len(f.top) = Len(g.top)
    BY <2>1, SameLength
  <2>3. n \in Nat /\ DOMAIN f.top = 1..n /\ DOMAIN g.top = 1..Len(g.top)
    BY <2>1, SequencePlaces
  <2>4. (f.top = <<>> <=> n = 0) /\ (g.top = <<>> <=> Len(g.top) = 0)
    BY <2>1 DEF IsSequence
  <2> QED
    BY <2>2, <2>3, <2>4 DEF IsFile
<1>2. DOMAIN ClippedTail(f) = DOMAIN ClippedTail(g)
  BY SameSizes
<1>3. ASSUME n # 0 PROVE f.top[n].clipped <=> g.top[n].clipped
  <2>1. Last(f.top) = f.top[n] /\ Last(g.top) = g.top[n]
    BY <1>1 DEF Last
  <2>2. /\ DOMAIN ClippedTail(f) = IF f.top[n].clipped THEN 1..1 ELSE {}
        /\ DOMAIN ClippedTail(g) = IF g.top[n].clipped THEN 1..1 ELSE {}
    BY <1>1, <1>3, <2>1 DEF ClippedTail
  <2>3. 1..1 # {}
    OBVIOUS
  <2> QED
    BY <1>2, <2>2, <2>3
<1> QED
  BY <1>1, <1>3

LEMMA SameShapes ==
    ASSUME NEW f, NEW g, IsFile(f), IsFile(g), StructuralFingerprint(f) = StructuralFingerprint(g)
    PROVE  LooksLike(f, g)
<1>1. /\ Kinds(f.top) = Kinds(g.top)
      /\ Sizes(UnknownTopLevel(f)) = Sizes(UnknownTopLevel(g))
      /\ Sizes(ClippedTail(f)) = Sizes(ClippedTail(g))
      /\ Sizes(f.userData) = Sizes(g.userData)
  BY DEF StructuralFingerprint
<1>2. DOMAIN f.top = DOMAIN g.top /\ \A i \in DOMAIN f.top : f.top[i].kind = g.top[i].kind
  BY <1>1 DEF Kinds
<1>3. \A i \in DOMAIN f.top : f.top[i].clipped <=> g.top[i].clipped
  BY <1>1, <1>2, SameClipped
<1>4. DOMAIN f.userData = DOMAIN g.userData /\ \A i \in DOMAIN f.userData : f.userData[i].kind = g.userData[i].kind
  BY <1>1, SameSizes
<1> DEFINE U == {i \in DOMAIN f.top : Unknown(f.top[i])}
<1>5. U = {i \in DOMAIN g.top : Unknown(g.top[i])}
  BY <1>2, <1>3 DEF Unknown
<1>6. UnknownTopLevel(f) = At(f.top, U) /\ UnknownTopLevel(g) = At(g.top, U)
  BY <1>5 DEF UnknownTopLevel
<1>7. IsFiniteSet(U) /\ \A i \in U : i \in Nat
  <2>1. IsSequence(f.top)
    BY DEF IsFile
  <2> QED
    BY <2>1, SequencePlaces
<1>8. ASSUME NEW i \in U PROVE f.top[i].size = g.top[i].size
  <2> DEFINE a == At(f.top, U)
             b == At(g.top, U)
  <2> HIDE DEF U
  <2>1. IsAt(a, f.top, U) /\ IsAt(b, g.top, U)
    BY <1>7, AtPlaces
  <2>2. Sizes(a) = Sizes(b)
    BY <1>1, <1>6
  <2> HIDE DEF a, b
  <2>3. DOMAIN a = DOMAIN b /\ \A k \in DOMAIN a : a[k].size = b[k].size
    BY <2>2, SameSizes
  <2>4. PICK k \in DOMAIN a : Sorted(U)[k] = i
    BY <2>1 DEF IsAt
  <2>5. a[k] = f.top[i] /\ b[k] = g.top[i]
    BY <2>1, <2>3, <2>4 DEF IsAt
  <2> QED
    BY <2>3, <2>5
<1> QED
  BY <1>2, <1>3, <1>4, <1>8 DEF LooksLike

(* Their vendor boxes are at the same places, and are held or are not. *)
AsHeld(a, b) == SamePlace(a, b) /\ (a.digest = {} <=> b.digest = {})

LEMMA VendorsAlike ==
    ASSUME NEW f, NEW g, IsFile(f), IsFile(g), LooksLike(f, g)
    PROVE  /\ IsSequence(VendorBoxes(f)) /\ IsSequence(VendorBoxes(g))
           /\ Len(VendorBoxes(f)) = Len(VendorBoxes(g))
           /\ \A n \in 1..Len(VendorBoxes(f)) : AsHeld(VendorBoxes(f)[n], VendorBoxes(g)[n])
<1> DEFINE N == DOMAIN f.top
           s == [i \in N |-> VendorsAt(f, i)]
           t == [i \in N |-> VendorsAt(g, i)]
           n == Len(f.top)
           S == {s[i][k] : i \in N, k \in Nat} \cup {t[i][k] : i \in N, k \in Nat}
<1>1. VendorBoxes(f) = FlattenSeq(s) /\ VendorBoxes(g) = FlattenSeq(t)
  BY DEF VendorBoxes, LooksLike
<1>2. n \in Nat /\ N = 1..n
  BY SequencePlaces DEF IsFile
<1>3. /\ IsSequence(f.userData) /\ IsSequence(g.userData) /\ Len(f.userData) = Len(g.userData)
      /\ DOMAIN f.userData = 1..Len(f.userData) /\ Len(f.userData) \in Nat
  BY SameLength, SequencePlaces DEF IsFile, LooksLike
<1>4. FirstOf(f, "moov") = FirstOf(g, "moov")
  <2>1. ASSUME NEW i \in N
        PROVE  i \in FirstOf(f, "moov") <=> i \in FirstOf(g, "moov")
    <3>1. \A j \in 1..(i - 1) : j \in N
      BY <1>2
    <3>2. \A j \in N : f.top[j].kind = g.top[j].kind
      BY DEF LooksLike
    <3> HIDE DEF N
    <3>3. (\A j \in 1..(i - 1) : f.top[j].kind # "moov") <=> (\A j \in 1..(i - 1) : g.top[j].kind # "moov")
      BY <3>1, <3>2
    <3> QED
      BY <3>2, <3>3 DEF FirstOf, LooksLike, N
  <2>2. FirstOf(f, "moov") \subseteq N /\ FirstOf(g, "moov") \subseteq N
    BY DEF FirstOf, LooksLike
  <2> HIDE DEF N
  <2> QED
    BY <2>1, <2>2
<1>5. ASSUME NEW i \in N
      PROVE  /\ IsSequence(s[i]) /\ IsSequence(t[i]) /\ Len(s[i]) = Len(t[i])
             /\ \A k \in 1..Len(s[i]) : AsHeld(s[i][k], t[i][k])
  <2>1. s[i] = VendorsAt(f, i) /\ t[i] = VendorsAt(g, i)
    OBVIOUS
  <2>2. CASE i \in FirstOf(f, "moov")
    <3> DEFINE m == Len(f.userData)
               a == [k \in DOMAIN f.userData |-> Vendor(f.userData[k], "user data")]
               b == [k \in DOMAIN g.userData |-> Vendor(g.userData[k], "user data")]
    <3>1. s[i] = a /\ t[i] = b
      BY <1>4, <2>1, <2>2 DEF VendorsAt
    <3>2. DOMAIN a = 1..m /\ DOMAIN b = 1..m /\ a = [k \in 1..m |-> a[k]] /\ b = [k \in 1..m |-> b[k]] /\ m \in Nat
      BY <1>3 DEF LooksLike
    <3>3. \A k \in 1..m : AsHeld(a[k], b[k])
      BY <1>3 DEF Vendor, Held, AsHeld, SamePlace, LooksLike
    <3> HIDE DEF a, b, m
    <3>4. IsSequence(a) /\ Len(a) = m /\ IsSequence(b) /\ Len(b) = m
      BY <3>2, ListedFrom
    <3> QED
      BY <3>1, <3>3, <3>4
  <2>3. CASE i \notin FirstOf(f, "moov") /\ Unknown(f.top[i])
    <3> DEFINE v == Vendor(f.top[i], "top level")
               w == Vendor(g.top[i], "top level")
    <3>1. Unknown(g.top[i]) /\ f.top[i].kind = g.top[i].kind /\ f.top[i].size = g.top[i].size
      BY <2>3 DEF LooksLike, Unknown
    <3>2. s[i] = <<v>> /\ t[i] = <<w>>
      BY <1>4, <2>1, <2>3, <3>1 DEF VendorsAt
    <3>3. AsHeld(v, w)
      BY <3>1 DEF Vendor, Held, AsHeld, SamePlace
    <3> HIDE DEF v, w, s, t
    <3>4. /\ IsSequence(<<v>>) /\ Len(<<v>>) = 1 /\ <<v>>[1] = v
          /\ IsSequence(<<w>>) /\ Len(<<w>>) = 1 /\ <<w>>[1] = w
      BY Alone
    <3>5. \A k \in 1..1 : k = 1
      OBVIOUS
    <3> QED
      BY <3>2, <3>3, <3>4, <3>5
  <2>4. CASE i \notin FirstOf(f, "moov") /\ ~Unknown(f.top[i])
    <3>1. ~Unknown(g.top[i])
      BY <2>4 DEF LooksLike, Unknown
    <3>2. s[i] = <<>> /\ t[i] = <<>>
      BY <1>4, <2>1, <2>4, <3>1 DEF VendorsAt
    <3>3. IsSequence(<<>>) /\ Len(<<>>) = 0
      BY DEF IsSequence
    <3> QED
      BY <3>2, <3>3
  <2> QED
    BY <2>2, <2>3, <2>4
<1> HIDE DEF s, t, N
<1>6. /\ s \in Seq(Seq(S)) /\ t \in Seq(Seq(S)) /\ Len(s) = n /\ Len(t) = n
  <2>1. \A i \in N : s[i] \in Seq(S) /\ t[i] \in Seq(S)
    <3> SUFFICES ASSUME NEW i \in N PROVE s[i] \in Seq(S) /\ t[i] \in Seq(S)
      OBVIOUS
    <3> DEFINE a == s[i]
               b == t[i]
    <3>1. IsSequence(a) /\ IsSequence(b)
      BY <1>5
    <3>2. /\ Len(a) \in Nat /\ a = [k \in 1..Len(a) |-> a[k]]
          /\ Len(b) \in Nat /\ b = [k \in 1..Len(b) |-> b[k]]
      BY <3>1, SequencePlaces
    <3>3. (\A k \in 1..Len(a) : a[k] \in S) /\ \A k \in 1..Len(b) : b[k] \in S
      <4>1. (\A k \in 1..Len(a) : k \in Nat) /\ (\A k \in 1..Len(b) : k \in Nat)
        BY <3>2
      <4> QED
        BY <4>1
    <3> HIDE DEF a, b, S
    <3>4. a \in Seq(S) /\ b \in Seq(S)
      BY <3>2, <3>3
    <3> QED
      BY <3>4 DEF a, b
  <2>2. s = [i \in 1..n |-> s[i]] /\ t = [i \in 1..n |-> t[i]]
    BY <1>2 DEF s, t
  <2> HIDE DEF S, n
  <2> DEFINE T == Seq(S)
  <2>3. \A i \in 1..n : s[i] \in T /\ t[i] \in T
    BY <1>2, <2>1
  <2> HIDE DEF T
  <2>4. s \in [1..n -> T] /\ t \in [1..n -> T]
    BY <2>2, <2>3
  <2>5. s \in Seq(T) /\ t \in Seq(T) /\ Len(s) = n /\ Len(t) = n
    BY <1>2, <2>4
  <2> QED
    BY <2>5 DEF T
<1> HIDE DEF S, n
<1>7. SameShape(s, t)
  BY <1>2, <1>5, <1>6 DEF SameShape
<1>8. /\ FlattenSeq(s) \in Seq(S) /\ FlattenSeq(t) \in Seq(S)
      /\ SideBySide(FlattenSeq(s), FlattenSeq(t), s, t, Len(s))
  BY <1>6, <1>7, FlattenTogether
<1> DEFINE a == FlattenSeq(s)
           b == FlattenSeq(t)
<1> HIDE DEF a, b
<1>9. a \in Seq(S) /\ b \in Seq(S) /\ SideBySide(a, b, s, t, n)
  BY <1>6, <1>8 DEF a, b
<1>10. IsSequence(a) /\ IsSequence(b)
  BY <1>9 DEF IsSequence
<1>11. Len(a) = Len(b) /\ \A x \in 1..Len(a) : AsHeld(a[x], b[x])
  <2> SUFFICES ASSUME NEW x \in 1..Len(a) PROVE AsHeld(a[x], b[x])
    BY <1>9 DEF SideBySide
  <2>1. PICK i \in 1..n : \E k \in 1..Len(s[i]) : a[x] = s[i][k] /\ b[x] = t[i][k]
    BY <1>9 DEF SideBySide
  <2>2. PICK k \in 1..Len(s[i]) : a[x] = s[i][k] /\ b[x] = t[i][k]
    BY <2>1
  <2>3. AsHeld(s[i][k], t[i][k])
    BY <1>2, <1>5
  <2> QED
    BY <2>2, <2>3
<1> QED
  BY <1>1, <1>10, <1>11 DEF a, b

-----------------------------------------------------------------------------
(* What is chosen of an input. *)

Indexed(m) == IsSequence(m.tracks) /\ \A k \in DOMAIN m.tracks : m.tracks[k].index = k - 1
KeepsOf(t, m) == IsSequence(t) /\ \A k \in DOMAIN t : t[k] \in Nat /\ t[k] < Len(m.tracks)
AtMostOne(S) == \A x, y \in S : x = y

LEMMA KindsListed ==
    ASSUME NEW m, Indexed(m), NEW kind
    PROVE  /\ KeepsOf(TracksOfKind(m, kind), m)
           /\ Len(TracksOfKind(m, kind)) = Cardinality({k \in DOMAIN m.tracks : m.tracks[k].kind = kind})
<1> DEFINE K == {k \in DOMAIN m.tracks : m.tracks[k].kind = kind}
           all == At(m.tracks, K)
           t == TracksOfKind(m, kind)
           n == Len(m.tracks)
<1>1. IsFiniteSet(K) /\ (\A k \in K : k \in Nat) /\ n \in Nat /\ DOMAIN m.tracks = 1..n
  BY SequencePlaces DEF Indexed
<1>2. t = [k \in DOMAIN all |-> all[k].index]
  BY DEF TracksOfKind
<1>0. \A k \in K : m.tracks[k].index \in Nat /\ m.tracks[k].index < n
  <2>1. \A k \in K : k \in 1..n /\ m.tracks[k].index = k - 1
    BY <1>1 DEF Indexed
  <2> QED
    BY <1>1, <2>1
<1> HIDE DEF K
<1>3. IsAt(all, m.tracks, K)
  BY <1>1, AtPlaces
<1> HIDE DEF all, t, n
<1> DEFINE l == Len(all)
<1>4. l \in Nat /\ DOMAIN all = 1..l /\ DOMAIN t = 1..l /\ t = [k \in 1..l |-> t[k]] /\ l = Cardinality(K)
  BY <1>2, <1>3 DEF IsAt
<1> HIDE DEF l
<1>5. IsSequence(t) /\ Len(t) = l
  BY <1>4, ListedFrom
<1>6. ASSUME NEW k \in DOMAIN t PROVE t[k] \in Nat /\ t[k] < n
  <2>1. t[k] = all[k].index /\ Sorted(K)[k] \in K /\ all[k] = m.tracks[Sorted(K)[k]]
    BY <1>2, <1>3, <1>4 DEF IsAt
  <2> QED
    BY <1>0, <2>1
<1> QED
  BY <1>4, <1>5, <1>6 DEF KeepsOf, t, K, n

LEMMA CameraKeeps ==
    ASSUME NEW m, Indexed(m), NEW n \in {1, 2}
    PROVE  AtMostOne(Camera(m, n)) /\ \A t \in Camera(m, n) : KeepsOf(t, m)
<1> DEFINE videos == TracksOfKind(m, "video")
           audios == TracksOfKind(m, "audio")
           S == {videos[n]} \cup ToSet(audios)
           N == Len(m.tracks)
<1>1. CASE n > Len(videos)
  BY <1>1 DEF Camera, AtMostOne
<1>2. CASE ~(n > Len(videos))
  <2>1. Camera(m, n) = {Sorted(S)}
    BY <1>2 DEF Camera
  <2>2. KeepsOf(videos, m) /\ KeepsOf(audios, m)
    BY KindsListed
  <2>3. N \in Nat
    BY SequencePlaces DEF Indexed
  <2>4. n \in DOMAIN videos
    <3> HIDE DEF videos
    <3>1. Len(videos) \in Nat /\ DOMAIN videos = 1..Len(videos)
      BY <2>2, SequencePlaces DEF KeepsOf
    <3> QED
      BY <1>2, <3>1
  <2> HIDE DEF videos, audios, N
  <2>5. \A x \in S : x \in 0..(N - 1)
    BY <2>2, <2>3, <2>4 DEF KeepsOf, ToSet, N
  <2> HIDE DEF S
  <2>6. IsFiniteSet(S)
    <3>1. N - 1 \in Int /\ 0 \in Int
      BY <2>3
    <3>2. IsFiniteSet(0..(N - 1))
      BY <3>1, FS_Interval
    <3> QED
      BY <2>5, <3>2, FS_Subset
  <2>7. IsSequence(Sorted(S)) /\ \A k \in DOMAIN Sorted(S) : Sorted(S)[k] \in S
    <3>1. \A i \in S : i \in Nat
      BY <2>3, <2>5
    <3> QED
      BY <2>6, <3>1, SortedIsSequence, SortedPlaces
  <2>8. KeepsOf(Sorted(S), m)
    BY <2>3, <2>5, <2>7 DEF KeepsOf, N
  <2> QED
    BY <2>1, <2>8 DEF AtMostOne
<1> QED
  BY <1>1, <1>2

LEMMA RearKeeps ==
    ASSUME NEW m, Indexed(m)
    PROVE  AtMostOne(Rear(m)) /\ \A t \in Rear(m) : KeepsOf(t, m)
<1> DEFINE videos == TracksOfKind(m, "video")
<1>1. KeepsOf(videos, m)
  BY KindsListed
<1>2. Rear(m) = IF videos = <<>> THEN {} ELSE {<<videos[1]>>}
  BY DEF Rear
<1> HIDE DEF videos
<1>3. CASE videos # <<>>
  <2>1. 1 \in DOMAIN videos
    <3>1. Len(videos) \in Nat /\ DOMAIN videos = 1..Len(videos) /\ Len(videos) # 0
      BY <1>1, <1>3 DEF KeepsOf, IsSequence
    <3> QED
      BY <3>1
  <2>2. videos[1] \in Nat /\ videos[1] < Len(m.tracks)
    BY <1>1, <2>1 DEF KeepsOf
  <2> DEFINE v == videos[1]
  <2> HIDE DEF v
  <2>3. IsSequence(<<v>>) /\ DOMAIN <<v>> = 1..1 /\ <<v>>[1] = v
    BY Alone
  <2>4. KeepsOf(<<v>>, m)
    BY <2>2, <2>3 DEF KeepsOf, v
  <2> QED
    BY <1>2, <1>3, <2>4 DEF AtMostOne, v
<1> QED
  BY <1>2, <1>3 DEF AtMostOne

LEMMA ChoiceKeeps ==
    ASSUME NEW m, Indexed(m), NEW r \in Request, r.selection.kind # "none"
    PROVE  AtMostOne(Choice(m, r.selection)) /\ \A t \in Choice(m, r.selection) : KeepsOf(t, m)
<1> DEFINE s == r.selection
<1>1. s.kind \in {"none", "front", "rear", "both", "tracks"} /\ s.tracks \in Seq(Nat)
  BY RequestAssumption
<1> HIDE DEF s
<1>2. CASE s.kind = "front"
  BY <1>2, CameraKeeps DEF Choice, s
<1>3. CASE s.kind = "rear"
  BY <1>3, CameraKeeps DEF Choice, s
<1>4. CASE s.kind = "both"
  <2> DEFINE t == [k \in DOMAIN m.tracks |-> m.tracks[k].index]
             n == Len(m.tracks)
  <2>1. Choice(m, s) = {t}
    BY <1>4 DEF Choice
  <2>2. n \in Nat /\ DOMAIN m.tracks = 1..n /\ \A k \in 1..n : m.tracks[k].index = k - 1
    BY SequencePlaces DEF Indexed
  <2>3. DOMAIN t = 1..n /\ t = [k \in 1..n |-> t[k]] /\ \A k \in 1..n : t[k] \in Nat /\ t[k] < n
    BY <2>2
  <2> HIDE DEF t, n
  <2>4. KeepsOf(t, m)
    BY <2>2, <2>3, ListedFrom DEF KeepsOf, n
  <2> QED
    BY <2>1, <2>4 DEF AtMostOne, s
<1>5. CASE s.kind = "tracks"
  <2>1. Choice(m, s) = {tracks \in {s.tracks} :
              tracks # <<>> /\ \A k \in DOMAIN tracks : tracks[k] < Len(m.tracks)}
    BY <1>5 DEF Choice
  <2>2. IsSequence(s.tracks) /\ \A k \in DOMAIN s.tracks : s.tracks[k] \in Nat
    BY <1>1 DEF IsSequence
  <2> QED
    BY <2>1, <2>2 DEF AtMostOne, KeepsOf, s
<1> QED
  BY <1>1, <1>2, <1>3, <1>4, <1>5 DEF s

Inputs == Len(request.inputs)
KeptWell(kept) ==
    /\ Len(kept) = Inputs /\ DOMAIN kept = 1..Inputs
    /\ \A s \in 1..Inputs : KeepsOf(kept[s], manifests[s])

LEMMA ChosenKeeps ==
    ASSUME request \in Request, request.selection.kind # "none", \A s \in 1..Inputs : Indexed(manifests[s])
    PROVE  AtMostOne(Chosen) /\ \A kept \in Chosen : KeptWell(kept)
<1>0. Inputs \in {1, 2}
  BY RequestAssumption DEF Inputs
<1>1. CASE Inputs = 1
  <2>1. Chosen = {<<t>> : t \in Choice(manifests[1], request.selection)}
    BY <1>1 DEF Chosen, Inputs
  <2> DEFINE S == Choice(manifests[1], request.selection)
  <2>2. AtMostOne(S) /\ \A t \in S : KeepsOf(t, manifests[1])
    <3>1. Indexed(manifests[1])
      BY <1>1
    <3> QED
      BY <3>1, ChoiceKeeps
  <2> HIDE DEF S
  <2>3. ASSUME NEW t \in S PROVE KeptWell(<<t>>)
    <3>1. Len(<<t>>) = 1 /\ DOMAIN <<t>> = 1..1 /\ <<t>>[1] = t
      OBVIOUS
    <3>2. \A s \in 1..1 : s = 1
      OBVIOUS
    <3> QED
      BY <1>1, <2>2, <3>1, <3>2 DEF KeptWell
  <2>4. \A x, y \in S : <<x>> = <<y>>
    BY <2>2 DEF AtMostOne
  <2> QED
    BY <2>1, <2>3, <2>4 DEF AtMostOne, S
<1>2. CASE Inputs = 2
  <2> DEFINE F == Camera(manifests[1], 1)
             R == Rear(manifests[2])
  <2>1. Chosen \subseteq {<<front, rear>> : front \in F, rear \in R}
    BY <1>2 DEF Chosen, Inputs
  <2>2. AtMostOne(F) /\ AtMostOne(R) /\ (\A t \in F : KeepsOf(t, manifests[1])) /\ (\A t \in R : KeepsOf(t, manifests[2]))
    <3>1. Indexed(manifests[1]) /\ Indexed(manifests[2])
      BY <1>2
    <3>2. AtMostOne(F) /\ \A t \in F : KeepsOf(t, manifests[1])
      BY <3>1, CameraKeeps
    <3>3. AtMostOne(R) /\ \A t \in R : KeepsOf(t, manifests[2])
      BY <3>1, RearKeeps
    <3> QED
      BY <3>2, <3>3
  <2> HIDE DEF F, R
  <2>3. ASSUME NEW t \in F, NEW u \in R PROVE KeptWell(<<t, u>>)
    <3>1. Len(<<t, u>>) = 2 /\ DOMAIN <<t, u>> = 1..2 /\ <<t, u>>[1] = t /\ <<t, u>>[2] = u
      OBVIOUS
    <3>2. \A s \in 1..2 : s = 1 \/ s = 2
      OBVIOUS
    <3> QED
      BY <1>2, <2>2, <3>1, <3>2 DEF KeptWell
  <2>4. AtMostOne({<<front, rear>> : front \in F, rear \in R})
    BY <2>2 DEF AtMostOne
  <2>5. AtMostOne(Chosen)
    BY <2>1, <2>4 DEF AtMostOne
  <2> QED
    BY <2>1, <2>3, <2>5
<1> QED
  BY <1>0, <1>1, <1>2

-----------------------------------------------------------------------------
(* Where it lands in the output. *)

LEMMA FlattenOne ==
    ASSUME NEW s, Len(s) = 1
    PROVE  FlattenSeq(s) = s[1]
<1>0. Len(s) \in Nat \ {0}
  OBVIOUS
<1>1. PICK f : Flattens(f, s, Len(s)) /\ FlattenSeq(s) = f[Len(s)]
  BY <1>0, FlattenSteps
<1>2. 1 \in 1..1
  OBVIOUS
<1> QED
  BY <1>1, <1>2 DEF Flattens

LEMMA FlattenTwo ==
    ASSUME NEW s, Len(s) = 2
    PROVE  FlattenSeq(s) = s[1] \o s[2]
<1>0. Len(s) \in Nat \ {0}
  OBVIOUS
<1>1. PICK f : Flattens(f, s, Len(s)) /\ FlattenSeq(s) = f[Len(s)]
  BY <1>0, FlattenSteps
<1>2. 1 \in 1..2 /\ 2 \in 1..2 /\ 2 - 1 = 1
  OBVIOUS
<1>3. f[1] = s[1] /\ f[2] = f[1] \o s[2]
  BY <1>1, <1>2 DEF Flattens
<1> QED
  BY <1>1, <1>3

From(s, i) == [input |-> s, index |-> i]
LandedAt(kept, s, k) == IF s = 1 THEN k ELSE Len(kept[1]) + k
Lands(kept, L) ==
    /\ IsSequence(L)
    /\ \A s \in 1..Inputs : \A k \in 1..Len(kept[s]) :
         LandedAt(kept, s, k) \in DOMAIN L /\ L[LandedAt(kept, s, k)] = From(s, kept[s][k])
    /\ \A p \in DOMAIN L : \E s \in 1..Inputs : \E k \in 1..Len(kept[s]) : p = LandedAt(kept, s, k)
    /\ \A s, z \in 1..Inputs : \A k \in 1..Len(kept[s]) : \A l \in 1..Len(kept[z]) :
         LandedAt(kept, s, k) = LandedAt(kept, z, l) => s = z /\ k = l

LEMMA AllLand ==
    ASSUME request \in Request, NEW kept, KeptWell(kept)
    PROVE  Lands(kept, Landed(kept))
<1> DEFINE s == [n \in DOMAIN kept |-> [k \in DOMAIN kept[n] |-> [input |-> n, index |-> kept[n][k]]]]
           L == Landed(kept)
<1>0. Inputs \in {1, 2}
  BY RequestAssumption DEF Inputs
<1>1. L = FlattenSeq(s) /\ DOMAIN s = 1..Inputs
  BY DEF Landed, KeptWell
<1>2. Len(s) = Inputs
  <2>1. s = [n \in 1..Inputs |-> s[n]] /\ Inputs \in Nat
    BY <1>0 DEF KeptWell
  <2> HIDE DEF s
  <2> QED
    BY <2>1
<1>3. \A n \in 1..Inputs : Len(kept[n]) \in Nat /\ DOMAIN kept[n] = 1..Len(kept[n])
  BY SequencePlaces DEF KeptWell, KeepsOf
<1>4. ASSUME NEW n \in 1..Inputs
      PROVE  IsSequence(s[n]) /\ Len(s[n]) = Len(kept[n]) /\ \A k \in 1..Len(kept[n]) : s[n][k] = From(n, kept[n][k])
  <2> DEFINE t == s[n]
             l == Len(kept[n])
  <2>1. l \in Nat /\ DOMAIN t = 1..l /\ t = [k \in 1..l |-> t[k]] /\ \A k \in 1..l : t[k] = From(n, kept[n][k])
    BY <1>3 DEF KeptWell, From
  <2> HIDE DEF t, l
  <2>2. IsSequence(t) /\ Len(t) = l
    BY <2>1, ListedFrom
  <2> QED
    BY <2>1, <2>2 DEF t, l
<1> HIDE DEF s, L
<1>5. CASE Inputs = 1
  <2>1. L = s[1] /\ 1 \in 1..Inputs
    BY <1>1, <1>2, <1>5, FlattenOne
  <2>2. IsSequence(L) /\ DOMAIN L = 1..Len(kept[1]) /\ \A k \in 1..Len(kept[1]) : L[k] = From(1, kept[1][k])
    BY <1>4, <2>1, SequencePlaces
  <2>3. \A n \in 1..Inputs : n = 1 /\ \A k : LandedAt(kept, n, k) = k
    BY <1>5 DEF LandedAt
  <2> QED
    BY <2>1, <2>2, <2>3 DEF Lands, L
<1>6. CASE Inputs = 2
  <2> DEFINE a == s[1]
             b == s[2]
             x == Len(kept[1])
             y == Len(kept[2])
  <2>1. L = a \o b /\ 1 \in 1..Inputs /\ 2 \in 1..Inputs
    <3>1. Len(s) = 2
      BY <1>2, <1>6
    <3>2. FlattenSeq(s) = s[1] \o s[2]
      BY <3>1, FlattenTwo
    <3>3. 1 \in 1..2 /\ 2 \in 1..2
      OBVIOUS
    <3> QED
      BY <1>1, <1>6, <3>2, <3>3
  <2>2. /\ IsSequence(a) /\ IsSequence(b) /\ Len(a) = x /\ Len(b) = y /\ x \in Nat /\ y \in Nat
        /\ \A k \in 1..x : a[k] = From(1, kept[1][k])
        /\ \A k \in 1..y : b[k] = From(2, kept[2][k])
    BY <1>3, <1>4, <2>1
  <2> HIDE DEF a, b
  <2>3. IsSequence(L) /\ Joins(L, a, b)
    <3>1. IsSequence(a \o b) /\ Joins(a \o b, a, b)
      BY <2>2, Chained
    <3> QED
      BY <2>1, <3>1
  <2>4. DOMAIN L = 1..Len(L) /\ Len(L) = x + y
    BY <2>2, <2>3, SequencePlaces DEF Joins
  <2>5. /\ \A k \in 1..x : k \in 1..Len(L) /\ L[k] = From(1, kept[1][k])
        /\ \A k \in 1..y : x + k \in 1..Len(L) /\ L[x + k] = From(2, kept[2][k])
        /\ \A p \in 1..Len(L) : p \in 1..x \/ \E k \in 1..y : p = x + k
    <3>1. /\ \A k \in 1..x : L[k] = a[k]
          /\ \A k \in 1..y : L[x + k] = b[k]
          /\ \A p \in 1..Len(L) : p \in 1..x \/ \E k \in 1..y : p = x + k
      <4> HIDE DEF x, y
      <4>1. Len(a) = x /\ Len(b) = y
        BY <2>2
      <4> QED
        BY <2>3, <4>1 DEF Joins
    <3>2. (\A k \in 1..x : k \in 1..Len(L)) /\ (\A k \in 1..y : x + k \in 1..Len(L))
      <4>1. x \in Nat /\ y \in Nat /\ Len(L) = x + y
        BY <2>2, <2>4
      <4> HIDE DEF x, y
      <4> QED
        BY <4>1
    <3> HIDE DEF x, y
    <3> QED
      BY <2>2, <3>1, <3>2
  <2>6. \A n \in 1..Inputs : n = 1 \/ n = 2
    BY <1>6
  <2>7. (\A k : LandedAt(kept, 1, k) = k) /\ (\A k : LandedAt(kept, 2, k) = x + k)
    BY DEF LandedAt
  <2>8. ASSUME NEW n \in 1..Inputs, NEW k \in 1..Len(kept[n])
        PROVE  LandedAt(kept, n, k) \in DOMAIN L /\ L[LandedAt(kept, n, k)] = From(n, kept[n][k])
    <3>1. CASE n = 1
      BY <2>4, <2>5, <2>7, <3>1
    <3>2. CASE n = 2
      BY <2>4, <2>5, <2>7, <3>2
    <3> QED
      BY <2>6, <3>1, <3>2
  <2>9. ASSUME NEW p \in DOMAIN L
        PROVE  \E n \in 1..Inputs : \E k \in 1..Len(kept[n]) : p = LandedAt(kept, n, k)
    <3>1. CASE p \in 1..x
      BY <2>1, <2>7, <3>1
    <3>2. CASE \E k \in 1..y : p = x + k
      BY <2>1, <2>7, <3>2
    <3> QED
      BY <2>4, <2>5, <3>1, <3>2
  <2>10. ASSUME NEW n \in 1..Inputs, NEW z \in 1..Inputs, NEW k \in 1..Len(kept[n]), NEW l \in 1..Len(kept[z]),
                LandedAt(kept, n, k) = LandedAt(kept, z, l)
         PROVE  n = z /\ k = l
    <3>1. x \in Nat /\ y \in Nat
      BY <2>2
    <3>2. CASE n = 1 /\ z = 1
      BY <2>7, <2>10, <3>2
    <3>3. CASE n = 1 /\ z = 2
      <4>1. k \in 1..x /\ l \in 1..y /\ k = x + l
        BY <2>7, <2>10, <3>3
      <4> QED
        BY <3>1, <4>1
    <3>4. CASE n = 2 /\ z = 1
      <4>1. k \in 1..y /\ l \in 1..x /\ x + k = l
        BY <2>7, <2>10, <3>4
      <4> QED
        BY <3>1, <4>1
    <3>5. CASE n = 2 /\ z = 2
      <4>1. k \in 1..y /\ l \in 1..y /\ x + k = x + l
        BY <2>7, <2>10, <3>5
      <4> HIDE DEF x, y
      <4>2. k = l
        BY <3>1, <4>1
      <4> QED
        BY <3>5, <4>2
    <3> QED
      BY <2>6, <3>2, <3>3, <3>4, <3>5
  <2> QED
    BY <2>3, <2>8, <2>9, <2>10 DEF Lands, L
<1> QED
  BY <1>0, <1>5, <1>6

-----------------------------------------------------------------------------
(* What is recorded of a file. *)

GoodRecord(record, track, k) ==
    /\ record.index = k - 1 /\ record.kind = track.kind /\ record.coding = Coding(track)
    /\ IF Scope = "full" THEN HasFingerprint(track) /\ record.fingerprint = {TrackFingerprint(track)}
       ELSE record.fingerprint = {}
GoodRecords(list, f) ==
    IsSequence(list) /\ \A k \in DOMAIN list : k \in DOMAIN f.tracks /\ GoodRecord(list[k], f.tracks[k], k)
GoodManifest(m, f) ==
    /\ m.digest = IF Scope = "full" THEN {FileDigest(f)} ELSE {}
    /\ m.structure = StructureOf(f) /\ m.vendor = VendorBoxes(f)
    /\ GoodRecords(m.tracks, f) /\ Len(m.tracks) = Len(f.tracks) /\ f.tracksRead

LeadsBack(m, f) ==
    m.operation.kind = "export" =>
        LET sources == m.operation.sources
            taken == UNION {{<<s, k>> : k \in DOMAIN sources[s].tracks} : s \in DOMAIN sources}
            landing(t) == sources[t[1]].tracks[t[2]].outputIndex
            videos == Len(TracksOfKind(m, "video"))
        IN
        /\ Cardinality(taken) = Len(m.tracks)
        /\ \A k \in DOMAIN m.tracks :
             \E t \in taken :
               /\ \A u \in taken : landing(u) = m.tracks[k].index <=> u = t
               /\ sources[t[1]].tracks[t[2]].fingerprint = m.tracks[k].fingerprint
               /\ request.inputs[t[1]].tracks[sources[t[1]].tracks[t[2]].index + 1] = f.tracks[k]
        /\ m.operation.class = "two-track archive" <=> videos > 1

LEMMA GoodIndexed ==
    ASSUME NEW m, NEW f, GoodManifest(m, f)
    PROVE  Indexed(m)
BY DEF GoodManifest, GoodRecords, GoodRecord, Indexed

LEMMA OutputTracks ==
    ASSUME request \in Request, NEW kept
    PROVE  OutputOf(kept).tracks =
             [p \in DOMAIN Landed(kept) |->
                request.inputs[Landed(kept)[p].input].tracks[Landed(kept)[p].index + 1]]
<1>1. IsFile(request.inputs[1])
  <2>1. IsSequence(request.inputs) /\ Len(request.inputs) \in {1, 2}
    BY RequestAssumption
  <2>2. 1 \in DOMAIN request.inputs
    BY <2>1, SequencePlaces
  <2> QED
    BY <2>2, RequestAssumption
<1>2. "tracks" \in DOMAIN request.inputs[1]
  BY <1>1 DEF IsFile
<1> QED
  BY <1>2 DEF OutputOf

LEMMA SourcesFound ==
    ASSUME request \in Request, request.selection.kind # "none",
           \A s \in 1..Inputs : GoodManifest(manifests[s], request.inputs[s]),
           NEW kept, KeptWell(kept), Selectable(kept),
           NEW m, GoodManifest(m, OutputOf(kept)),
           m.operation = [kind |-> "export", class |-> ClassOf(kept), sources |-> SourceRecords(kept)]
    PROVE  LeadsBack(m, OutputOf(kept))
<1> DEFINE f == OutputOf(kept)
           L == Landed(kept)
           l == Len(L)
           sources == m.operation.sources
           source(t) == sources[t[1]].tracks[t[2]]
           taken == UNION {{<<s, k>> : k \in DOMAIN sources[s].tracks} : s \in DOMAIN sources}
           track(p) == request.inputs[L[p].input].tracks[L[p].index + 1]
           record(p) == manifests[L[p].input].tracks[L[p].index + 1]
<1>0. Inputs \in {1, 2} /\ Scope = "full"
  BY RequestAssumption DEF Inputs, Scope
<1>1. Lands(kept, L)
  BY AllLand
<1>2. l \in Nat /\ DOMAIN L = 1..l
  BY <1>1, SequencePlaces DEF Lands
<1>3. \A s \in 1..Inputs : Len(kept[s]) \in Nat /\ DOMAIN kept[s] = 1..Len(kept[s])
  BY SequencePlaces DEF KeptWell, KeepsOf
<1>4. f.tracks = [p \in 1..l |-> track(p)] /\ DOMAIN f.tracks = 1..l /\ Len(f.tracks) = l
  <2>1. f.tracks = [p \in 1..l |-> track(p)]
    BY <1>2, OutputTracks
  <2> HIDE DEF f, track, l
  <2> QED
    BY <1>2, <2>1
<1>5. /\ Len(m.tracks) = l /\ DOMAIN m.tracks = 1..l
      /\ \A p \in 1..l : GoodRecord(m.tracks[p], track(p), p)
  <2>1. IsSequence(m.tracks) /\ Len(m.tracks) = l
    BY <1>4 DEF GoodManifest, GoodRecords
  <2>2. DOMAIN m.tracks = 1..l
    BY <2>1, SequencePlaces
  <2>3. \A p \in 1..l : f.tracks[p] = track(p)
    BY <1>4
  <2> QED
    BY <2>1, <2>2, <2>3 DEF GoodManifest, GoodRecords
<1>6. ASSUME NEW s \in 1..Inputs, NEW k \in 1..Len(kept[s])
      PROVE  /\ kept[s][k] + 1 \in DOMAIN manifests[s].tracks
             /\ GoodRecord(manifests[s].tracks[kept[s][k] + 1], request.inputs[s].tracks[kept[s][k] + 1], kept[s][k] + 1)
  <2>1. IsSequence(manifests[s].tracks)
    BY DEF GoodManifest, GoodRecords
  <2>2. DOMAIN manifests[s].tracks = 1..Len(manifests[s].tracks) /\ Len(manifests[s].tracks) \in Nat
    BY <2>1, SequencePlaces
  <2>3. kept[s][k] \in Nat /\ kept[s][k] < Len(manifests[s].tracks)
    BY <1>3 DEF KeptWell, KeepsOf
  <2>4. kept[s][k] + 1 \in DOMAIN manifests[s].tracks
    BY <2>2, <2>3
  <2> QED
    BY <2>4 DEF GoodManifest, GoodRecords
<1>7. /\ DOMAIN sources = 1..Inputs
      /\ \A s \in 1..Inputs : DOMAIN sources[s].tracks = 1..Len(kept[s])
      /\ \A s \in 1..Inputs : \A k \in 1..Len(kept[s]) :
           sources[s].tracks[k] = [index |-> kept[s][k], outputIndex |-> OutputIndex(L, s, kept[s][k]),
                                   fingerprint |-> manifests[s].tracks[kept[s][k] + 1].fingerprint]
  <2>1. sources = SourceRecords(kept)
    OBVIOUS
  <2> HIDE DEF sources
  <2> QED
    BY <1>3, <2>1 DEF SourceRecords, KeptWell
<1>8. taken = UNION {{<<s, k>> : k \in 1..Len(kept[s])} : s \in 1..Inputs}
  BY <1>7
<1>9. ASSUME NEW s \in 1..Inputs, NEW k \in 1..Len(kept[s])
      PROVE  LandedAt(kept, s, k) \in 1..l /\ L[LandedAt(kept, s, k)] = From(s, kept[s][k])
  BY <1>1, <1>2 DEF Lands
<1>10. ASSUME NEW s \in 1..Inputs, NEW k \in 1..Len(kept[s])
       PROVE  OutputIndex(L, s, kept[s][k]) = LandedAt(kept, s, k) - 1
  <2> DEFINE p == LandedAt(kept, s, k)
             found == Found(L, s, kept[s][k])
  <2>1. p \in found
    <3>1. p \in DOMAIN L /\ L[p] = From(s, kept[s][k])
      BY <1>2, <1>9
    <3> HIDE DEF p, L
    <3>2. L[p].index = kept[s][k] /\ L[p].input = s
      BY <3>1 DEF From
    <3> QED
      BY <3>1, <3>2 DEF Found
  <2>2. ASSUME NEW q \in found PROVE q = p
    <3>1. q \in 1..l /\ L[q].index = kept[s][k] /\ L[q].input = s
      BY <1>2 DEF Found
    <3>2a. PICK z \in 1..Inputs : \E x \in 1..Len(kept[z]) : q = LandedAt(kept, z, x)
      BY <1>1, <1>2, <3>1 DEF Lands
    <3>2. PICK x \in 1..Len(kept[z]) : q = LandedAt(kept, z, x)
      BY <3>2a
    <3>3. L[q] = From(z, kept[z][x])
      BY <1>9, <3>2
    <3>4. z = s /\ kept[s][x] = kept[s][k]
      BY <3>1, <3>3 DEF From
    <3>5. x = k
      <4>1. IsInjective(kept[s])
        BY DEF Selectable, KeptWell
      <4> QED
        BY <1>3, <3>2, <3>4, <4>1 DEF IsInjective
    <3> QED
      BY <3>2, <3>4, <3>5
  <2> HIDE DEF found
  <2>3. found = {p}
    BY <2>1, <2>2
  <2>4. p \in Nat
    BY <1>9
  <2>5. (CHOOSE q \in found : \A y \in found : q <= y) = p
    <3> HIDE DEF p
    <3> QED
      BY <2>3, <2>4
  <2> QED
    BY <2>3, <2>5 DEF OutputIndex, found
<1>11. /\ \A t \in taken : \E s \in 1..Inputs : \E k \in 1..Len(kept[s]) : t = <<s, k>>
       /\ \A s \in 1..Inputs : \A k \in 1..Len(kept[s]) : <<s, k>> \in taken
  <2> HIDE DEF taken
  <2>1. ASSUME NEW t \in taken PROVE \E s \in 1..Inputs : \E k \in 1..Len(kept[s]) : t = <<s, k>>
    <3>1. PICK s \in 1..Inputs : t \in {<<s, k>> : k \in 1..Len(kept[s])}
      BY <1>8
    <3> QED
      BY <3>1
  <2>2. ASSUME NEW s \in 1..Inputs, NEW k \in 1..Len(kept[s]) PROVE <<s, k>> \in taken
    <3>1. <<s, k>> \in {<<s, x>> : x \in 1..Len(kept[s])}
      OBVIOUS
    <3> QED
      BY <1>8, <3>1
  <2> QED
    BY <2>1, <2>2
<1>12. ASSUME NEW s \in 1..Inputs, NEW k \in 1..Len(kept[s])
       PROVE  /\ source(<<s, k>>).index = kept[s][k] /\ source(<<s, k>>).outputIndex = LandedAt(kept, s, k) - 1
              /\ source(<<s, k>>).fingerprint = manifests[s].tracks[kept[s][k] + 1].fingerprint
  <2>1. source(<<s, k>>) = sources[s].tracks[k]
    OBVIOUS
  <2> HIDE DEF sources, source
  <2>2. source(<<s, k>>) = [index |-> kept[s][k], outputIndex |-> OutputIndex(L, s, kept[s][k]),
                            fingerprint |-> manifests[s].tracks[kept[s][k] + 1].fingerprint]
    BY <1>7, <2>1
  <2> QED
    BY <1>10, <2>2
<1> HIDE DEF taken, source, L, l, f
<1>13. Cardinality(taken) = l
  <2> DEFINE at == [t \in taken |-> LandedAt(kept, t[1], t[2])]
  <2>1. \A s \in 1..Inputs : \A k \in 1..Len(kept[s]) : at[<<s, k>>] = LandedAt(kept, s, k)
    BY <1>11
  <2>2. at \in [taken -> 1..l]
    <3>1. \A t \in taken : at[t] \in 1..l
      BY <1>9, <1>11, <2>1
    <3>2. at = [t \in taken |-> at[t]]
      OBVIOUS
    <3> QED
      BY <3>1, <3>2
  <2> HIDE DEF at
  <2>3. \A t, u \in taken : at[t] = at[u] => t = u
    <3> SUFFICES ASSUME NEW t \in taken, NEW u \in taken, at[t] = at[u] PROVE t = u
      OBVIOUS
    <3>1a. PICK s \in 1..Inputs : \E k \in 1..Len(kept[s]) : t = <<s, k>>
      BY <1>11
    <3>1. PICK k \in 1..Len(kept[s]) : t = <<s, k>>
      BY <3>1a
    <3>2a. PICK z \in 1..Inputs : \E x \in 1..Len(kept[z]) : u = <<z, x>>
      BY <1>11
    <3>2. PICK x \in 1..Len(kept[z]) : u = <<z, x>>
      BY <3>2a
    <3>3. LandedAt(kept, s, k) = LandedAt(kept, z, x)
      BY <2>1, <3>1, <3>2
    <3>4. s = z /\ k = x
      BY <1>1, <3>3 DEF Lands
    <3> QED
      BY <3>1, <3>2, <3>4
  <2>4. ASSUME NEW p \in 1..l PROVE \E t \in taken : at[t] = p
    <3>1. PICK s \in 1..Inputs : \E k \in 1..Len(kept[s]) : p = LandedAt(kept, s, k)
      BY <1>1, <1>2 DEF Lands
    <3>2. PICK k \in 1..Len(kept[s]) : p = LandedAt(kept, s, k)
      BY <3>1
    <3>3. <<s, k>> \in taken /\ at[<<s, k>>] = p
      BY <1>11, <2>1, <3>2
    <3> QED
      BY <3>3
  <2>5. IsFiniteSet(1..l) /\ Cardinality(1..l) = l
    <3>1. l \in Int /\ 1 \in Int
      BY <1>2
    <3>2. IsFiniteSet(1..l) /\ Cardinality(1..l) = IF 1 > l THEN 0 ELSE l - 1 + 1
      BY <3>1, FS_Interval
    <3> QED
      BY <1>2, <3>2
  <2>6. ExistsBijection(taken, 1..l)
    <3>1. at \in Bijection(taken, 1..l)
      BY <2>2, <2>3, <2>4, Fun_IsBij
    <3> QED
      BY <3>1 DEF ExistsBijection
  <2>7. ExistsBijection(1..l, taken)
    BY <2>6, Fun_ExistsBijSymmetric
  <2> QED
    BY <2>5, <2>7, FS_Bijection
<1>14. ASSUME NEW p \in 1..l
       PROVE  \E t \in taken :
                /\ \A u \in taken : source(u).outputIndex = m.tracks[p].index <=> u = t
                /\ source(t).fingerprint = m.tracks[p].fingerprint
                /\ request.inputs[t[1]].tracks[source(t).index + 1] = f.tracks[p]
  <2>1a. PICK s \in 1..Inputs : \E k \in 1..Len(kept[s]) : p = LandedAt(kept, s, k)
    BY <1>1, <1>2 DEF Lands
  <2>1. PICK k \in 1..Len(kept[s]) : p = LandedAt(kept, s, k)
    BY <2>1a
  <2>2. L[p] = From(s, kept[s][k]) /\ <<s, k>> \in taken
    BY <1>9, <1>11, <2>1
  <2>3. m.tracks[p].index = p - 1 /\ m.tracks[p].fingerprint = {TrackFingerprint(track(p))}
    BY <1>0, <1>5 DEF GoodRecord
  <2>4. track(p) = request.inputs[s].tracks[kept[s][k] + 1]
    BY <2>2 DEF From
  <2>5. source(<<s, k>>).fingerprint = {TrackFingerprint(track(p))}
    BY <1>0, <1>6, <1>12, <2>4 DEF GoodRecord
  <2>6. request.inputs[s].tracks[source(<<s, k>>).index + 1] = f.tracks[p]
    BY <1>4, <1>12, <2>4
  <2>7. ASSUME NEW u \in taken PROVE source(u).outputIndex = p - 1 <=> u = <<s, k>>
    <3>1a. PICK z \in 1..Inputs : \E x \in 1..Len(kept[z]) : u = <<z, x>>
      BY <1>11
    <3>1. PICK x \in 1..Len(kept[z]) : u = <<z, x>>
      BY <3>1a
    <3>2. source(u).outputIndex = LandedAt(kept, z, x) - 1 /\ LandedAt(kept, z, x) \in 1..l
      BY <1>9, <1>12, <3>1
    <3>3. source(u).outputIndex = p - 1 <=> LandedAt(kept, z, x) = p
      BY <1>2, <3>2
    <3>4. LandedAt(kept, z, x) = p <=> (z = s /\ x = k)
      BY <1>1, <2>1 DEF Lands
    <3> QED
      BY <3>1, <3>3, <3>4
  <2>8. <<s, k>>[1] = s
    OBVIOUS
  <2> QED
    BY <2>2, <2>3, <2>5, <2>6, <2>7, <2>8
<1>15. m.operation.class = "two-track archive" <=> Len(TracksOfKind(m, "video")) > 1
  <2> DEFINE V == {p \in 1..l : m.tracks[p].kind = "video"}
  <2>1. Len(TracksOfKind(m, "video")) = Cardinality(V)
    <3>1. Indexed(m)
      BY GoodIndexed
    <3> QED
      BY <1>5, <3>1, KindsListed
  <2>2. \A p \in 1..l : record(p).kind = m.tracks[p].kind
    <3> SUFFICES ASSUME NEW p \in 1..l PROVE record(p).kind = m.tracks[p].kind
      OBVIOUS
    <3>1a. PICK s \in 1..Inputs : \E k \in 1..Len(kept[s]) : p = LandedAt(kept, s, k)
      BY <1>1, <1>2 DEF Lands
    <3>1. PICK k \in 1..Len(kept[s]) : p = LandedAt(kept, s, k)
      BY <3>1a
    <3>2a. L[p] = From(s, kept[s][k])
      BY <1>9, <3>1
    <3>2. L[p].input = s /\ L[p].index = kept[s][k]
      BY <3>2a DEF From
    <3>3. record(p) = manifests[s].tracks[kept[s][k] + 1] /\ track(p) = request.inputs[s].tracks[kept[s][k] + 1]
      BY <3>2
    <3>4. record(p).kind = track(p).kind
      BY <1>6, <3>3 DEF GoodRecord
    <3>5. m.tracks[p].kind = track(p).kind
      BY <1>5 DEF GoodRecord
    <3> QED
      BY <3>4, <3>5
  <2>3. {p \in DOMAIN L : record(p).kind = "video"} = V
    BY <1>2, <2>2
  <2>4. ClassOf(kept) = IF Cardinality({p \in DOMAIN L : record(p).kind = "video"}) > 1
                        THEN "two-track archive" ELSE "extraction"
    BY DEF ClassOf, L
  <2> HIDE DEF V, record
  <2>5. m.operation.class = ClassOf(kept)
    OBVIOUS
  <2> QED
    BY <2>1, <2>3, <2>4, <2>5
<1>16. \A p \in DOMAIN m.tracks : p \in 1..l
  BY <1>5
<1> QED
  BY <1>5, <1>13, <1>14, <1>15, <1>16 DEF LeadsBack, taken, source, f

-----------------------------------------------------------------------------
(* What a comparison finds of the file itself, and what a file of which everything is found is. *)

LEMMA Answers ==
    ASSUME NEW found, \A x \in DOMAIN found : found[x].outcome \in {"identical", "not recorded"},
           NEW last \in DOMAIN found, found[last].outcome = "identical"
    PROVE  EveryComparedSubjectIsIdentical(found)
BY DEF EveryComparedSubjectIsIdentical, Compared

LEMMA AnsweredOfEach ==
    ASSUME NEW found, EveryComparedSubjectIsIdentical(found), NEW x \in DOMAIN found
    PROVE  found[x].outcome \in {"identical", "not recorded"}
BY DEF EveryComparedSubjectIsIdentical, Compared

LEMMA VendorsListed ==
    ASSUME NEW f, IsFile(f)
    PROVE  IsSequence(VendorBoxes(f))
<1>1. LooksLike(f, f)
  BY DEF LooksLike
<1> QED
  BY <1>1, VendorsAlike

LEMMA TrackStillThere ==
    ASSUME NEW f, NEW k \in DOMAIN f.tracks, f.tracksRead, IsSequence(f.tracks),
           NEW record, GoodRecord(record, f.tracks[k], k)
    PROVE  TrackOutcome(record, f) \in {"identical", "not recorded"}
<1> DEFINE now == f.tracks[k]
<1>1. CASE record.fingerprint = {}
  BY <1>1 DEF TrackOutcome
<1>2. CASE record.fingerprint # {}
  <2>1. HasFingerprint(now) /\ record.fingerprint = {TrackFingerprint(now)} /\ record.coding = Coding(now)
    BY <1>2 DEF GoodRecord
  <2>2. now.entry # {}
    BY <2>1 DEF HasFingerprint, Configuration
  <2>3. k \in 1..Len(f.tracks) /\ Len(f.tracks) \in Nat /\ record.index = k - 1
    BY SequencePlaces DEF GoodRecord
  <2>4. ~(record.index >= Len(f.tracks)) /\ record.index + 1 = k
    BY <2>3
  <2> HIDE DEF now
  <2>5. TrackOutcome(record, f) = Compare(record.fingerprint, {TrackFingerprint(now)})
    BY <1>2, <2>1, <2>2, <2>4 DEF TrackOutcome, CompareFingerprints, now
  <2> QED
    BY <2>1, <2>5 DEF Compare
<1> QED
  BY <1>1, <1>2

LEMMA BoxStillThere ==
    ASSUME NEW b, NEW p, NEW i, p[i] = b
    PROVE  BoxOutcome(b, p, {i}) \in {"identical", "not recorded"}
<1>1. (CHOOSE x \in {i} : TRUE) = i
  OBVIOUS
<1> QED
  BY <1>1 DEF BoxOutcome, Compare

(* Every box of the recording takes its own place, and none is left over. *)
InTheirPlaces(found, r, p, off) ==
    /\ \A i \in 1..Len(r) : off + i \in DOMAIN found /\ found[off + i].outcome = BoxOutcome(r[i], p, {i})
    /\ \A x \in DOMAIN found : (\E i \in 1..Len(r) : x = off + i) \/ found[x].subject[1] # "box"

LEMMA AllTaken ==
    ASSUME NEW r, NEW p, IsSequence(r), IsSequence(p), Alike(r, p), NEW found, NEW off, LaidOut(found, r, p, off)
    PROVE  InTheirPlaces(found, r, p, off)
<1> DEFINE match == Matches(r, p)
           n == Len(r)
           free == DOMAIN p \ UNION {match[i] : i \in DOMAIN r}
           u == Sorted(free)
<1>1. n \in Nat /\ DOMAIN r = 1..n /\ DOMAIN p = 1..n
  BY SequencePlaces DEF Alike
<1>2. \A i \in 1..n : match[i] = {i}
  BY <1>1, MatchesItsOwn
<1> HIDE DEF match, n
<1>3. free = {}
  <2>1. \A x \in DOMAIN p : x \in match[x] /\ x \in DOMAIN r
    BY <1>1, <1>2
  <2> QED
    BY <2>1
<1>4. Len(u) = 0
  <2>1. IsFiniteSet({}) /\ Cardinality({}) = 0
    BY FS_EmptySet
  <2>2. Len(Sorted({})) = Cardinality({})
    BY <2>1, SortedIsSequence
  <2> QED
    BY <1>3, <2>1, <2>2
<1>5. /\ \A i \in 1..n : off + i \in DOMAIN found
                         /\ found[off + i] = Finding(AboutBox(r[i]), BoxOutcome(r[i], p, match[i]))
      /\ \A x \in DOMAIN found :
           \/ \E i \in 1..n : x = off + i
           \/ \E i \in 1..Len(u) : x = off + n + i
           \/ found[x].subject[1] # "box"
  BY DEF LaidOut, match, n
<1>6. ASSUME NEW i \in 1..n PROVE found[off + i].outcome = BoxOutcome(r[i], p, {i})
  <2>1. found[off + i] = Finding(AboutBox(r[i]), BoxOutcome(r[i], p, {i}))
    BY <1>2, <1>5
  <2> QED
    BY <2>1 DEF Finding
<1> HIDE DEF u
<1>7. 1..Len(u) = {}
  BY <1>4
<1> QED
  BY <1>5, <1>6, <1>7 DEF InTheirPlaces, n

LEMMA UnchangedIsIdentical ==
    ASSUME NEW m, NEW f, IsFile(f), GoodManifest(m, f)
    PROVE  EveryComparedSubjectIsIdentical(FindingsOf(m, f))
<1> DEFINE found == FindingsOf(m, f)
           r == VendorBoxes(f)
           t == Len(m.tracks)
<1>1. IsSequence(m.tracks) /\ m.vendor = r /\ IsSequence(r) /\ IsSequence(f.tracks)
  BY VendorsListed DEF GoodManifest, GoodRecords, IsFile
<1>2. /\ LaidOut(found, r, r, 1 + t)
      /\ found[1].outcome = IF m.digest = {} THEN "not recorded" ELSE Compare(m.digest, {FileDigest(f)})
      /\ \A k \in 1..t : found[1 + k].outcome = TrackOutcome(m.tracks[k], f)
      /\ found[Len(found)].outcome = Compare(m.structure.fingerprint, StructuralFingerprint(f))
      /\ Len(found) \in DOMAIN found
      /\ \A x \in DOMAIN found :
           x = 1 \/ x = Len(found) \/ (\E k \in 1..t : x = 1 + k) \/ found[x].subject[1] = "box"
  BY <1>1, Findings
<1> HIDE DEF found, r
<1>3. found[1].outcome \in {"identical", "not recorded"}
  BY <1>2 DEF GoodManifest, Compare
<1>4. found[Len(found)].outcome = "identical"
  <2>1. m.structure.fingerprint = StructuralFingerprint(f)
    <3>1. m.structure = StructureOf(f)
      BY DEF GoodManifest
    <3>2. StructureOf(f).fingerprint = StructuralFingerprint(f)
      BY DEF StructureOf
    <3> QED
      BY <3>1, <3>2
  <2> QED
    BY <1>2, <2>1 DEF Compare
<1>5. ASSUME NEW k \in 1..t PROVE found[1 + k].outcome \in {"identical", "not recorded"}
  <2>1. k \in DOMAIN m.tracks
    BY <1>1, SequencePlaces
  <2>2. k \in DOMAIN f.tracks /\ GoodRecord(m.tracks[k], f.tracks[k], k) /\ f.tracksRead
    BY <2>1 DEF GoodManifest, GoodRecords
  <2>3. TrackOutcome(m.tracks[k], f) \in {"identical", "not recorded"}
    BY <1>1, <2>2, TrackStillThere
  <2> QED
    BY <1>2, <2>3
<1>6. Alike(r, r)
  <2>1. DOMAIN r = 1..Len(r)
    BY <1>1, SequencePlaces
  <2> QED
    BY <2>1 DEF Alike, SamePlace
<1>7. ASSUME NEW x \in DOMAIN found, found[x].subject[1] = "box"
      PROVE  found[x].outcome \in {"identical", "not recorded"}
  <2>1. InTheirPlaces(found, r, r, 1 + t)
    BY <1>1, <1>2, <1>6, AllTaken
  <2>2. PICK i \in 1..Len(r) : x = 1 + t + i
    BY <1>7, <2>1 DEF InTheirPlaces
  <2>3. found[x].outcome = BoxOutcome(r[i], r, {i})
    BY <2>1, <2>2 DEF InTheirPlaces
  <2> QED
    BY <2>3, BoxStillThere
<1> HIDE DEF t
<1>8. \A x \in DOMAIN found : found[x].outcome \in {"identical", "not recorded"}
  BY <1>2, <1>3, <1>4, <1>5, <1>7
<1>9. EveryComparedSubjectIsIdentical(found)
  BY <1>2, <1>4, <1>8, Answers
<1> QED
  BY <1>9 DEF found

LEMMA IdenticalIsUnchanged ==
    ASSUME NEW m, NEW f, NEW g, IsFile(f), IsFile(g), GoodManifest(m, f),
           EveryComparedSubjectIsIdentical(FindingsOf(m, g))
    PROVE  /\ m.digest # {} => g = f
           /\ StructuralFingerprint(g) = StructuralFingerprint(f)
           /\ Len(VendorBoxes(g)) = Len(VendorBoxes(f))
           /\ \A i \in DOMAIN VendorBoxes(g) : VendorBoxes(g)[i].digest = VendorBoxes(f)[i].digest
<1> DEFINE found == FindingsOf(m, g)
           r == VendorBoxes(f)
           p == VendorBoxes(g)
           t == Len(m.tracks)
<1>1. IsSequence(m.tracks) /\ m.vendor = r /\ IsSequence(r) /\ IsSequence(p)
  BY VendorsListed DEF GoodManifest, GoodRecords
<1>2. /\ LaidOut(found, r, p, 1 + t)
      /\ found[1].outcome = IF m.digest = {} THEN "not recorded" ELSE Compare(m.digest, {FileDigest(g)})
      /\ found[Len(found)].outcome = Compare(m.structure.fingerprint, StructuralFingerprint(g))
      /\ 1 \in DOMAIN found /\ Len(found) \in DOMAIN found
  BY <1>1, Findings
<1>3. \A x \in DOMAIN found : found[x].outcome \in {"identical", "not recorded"}
  BY AnsweredOfEach
<1> HIDE DEF found, r, p, t
<1>4. StructuralFingerprint(g) = StructuralFingerprint(f)
  <2>1. m.structure.fingerprint = StructuralFingerprint(f)
    <3>1. m.structure = StructureOf(f)
      BY DEF GoodManifest
    <3>2. StructureOf(f).fingerprint = StructuralFingerprint(f)
      BY DEF StructureOf
    <3> QED
      BY <3>1, <3>2
  <2>2. Compare(m.structure.fingerprint, StructuralFingerprint(g)) \in {"identical", "not recorded"}
    BY <1>2, <1>3
  <2> QED
    BY <2>1, <2>2 DEF Compare
<1>5. ASSUME m.digest # {} PROVE g = f
  <2>1. m.digest = {f}
    BY <1>5 DEF GoodManifest, FileDigest
  <2>2. Compare({f}, {g}) \in {"identical", "not recorded"}
    BY <1>2, <1>3, <1>5, <2>1 DEF FileDigest
  <2> QED
    BY <2>2 DEF Compare
<1>6. Len(r) = Len(p) /\ \A i \in 1..Len(r) : AsHeld(r[i], p[i])
  <2>1. LooksLike(f, g)
    BY <1>4, SameShapes
  <2> QED
    BY <2>1, VendorsAlike DEF r, p
<1>7. DOMAIN p = 1..Len(p) /\ Alike(r, p)
  BY <1>1, <1>6, SequencePlaces DEF Alike, AsHeld, SamePlace
<1>8. ASSUME NEW i \in 1..Len(r) PROVE p[i].digest = r[i].digest
  <2>0. InTheirPlaces(found, r, p, 1 + t)
    BY <1>1, <1>2, <1>7, AllTaken
  <2>1. BoxOutcome(r[i], p, {i}) \in {"identical", "not recorded"}
    <3>1. 1 + t + i \in DOMAIN found /\ found[1 + t + i].outcome = BoxOutcome(r[i], p, {i})
      BY <2>0 DEF InTheirPlaces
    <3> QED
      BY <1>3, <3>1
  <2>2. (CHOOSE x \in {i} : TRUE) = i
    OBVIOUS
  <2>3. r[i].digest = {} <=> p[i].digest = {}
    BY <1>6 DEF AsHeld
  <2>4. r[i].digest # {} => Compare(r[i].digest, p[i].digest) \in {"identical", "not recorded"}
    BY <2>1, <2>2, <2>3 DEF BoxOutcome
  <2> QED
    BY <2>3, <2>4 DEF Compare
<1> QED
  BY <1>4, <1>5, <1>6, <1>7, <1>8 DEF r, p

-----------------------------------------------------------------------------
(* The inductive invariant. *)

(* The files are the inputs, and the output made of what was chosen of them; every manifest is the one of its
   file, and leads back to its sources. *)
OutputMade ==
    /\ request.selection.kind # "none"
    /\ Inputs <= Len(manifests)
    /\ \E kept \in Chosen : Selectable(kept) /\ files[Inputs + 1] = OutputOf(kept)
Stable ==
    /\ request \in Request
    /\ IsSequence(files) /\ \A n \in DOMAIN files : IsFile(files[n])
    /\ \A n \in 1..Inputs : files[n] = request.inputs[n]
    /\ Len(files) = Inputs \/ (Len(files) = Inputs + 1 /\ OutputMade)
    /\ IsSequence(manifests) /\ Len(manifests) <= Len(files)
    /\ \A n \in DOMAIN manifests : GoodManifest(manifests[n], files[n]) /\ LeadsBack(manifests[n], files[n])

(* Where the run is, and what it has at hand there. *)
AtWork ==
    /\ pc \in {"open", "track", "stream", "measured", "changed", "done", "refused"}
    /\ pc \in {"open", "track", "stream"} => Len(manifests) < Len(files)
    /\ pc \in {"open", "measured"} => records = <<>>
    /\ pc \in {"track", "stream"} => Measuring.tracksRead /\ GoodRecords(records, Measuring)
    /\ pc = "stream" => /\ Scope = "full" /\ HasFingerprint(Track)
                        /\ Len(records) < Len(Measuring.tracks)
    /\ pc \in {"measured", "changed", "done"} => Len(manifests) = Len(files)
    /\ pc = "measured" => file = files[Len(files)]
    /\ pc \in {"changed", "done"} => IsFile(file) /\ (change = <<"none">> => file = files[Len(files)])
    /\ pc = "done" => findings = FindingsOf(manifests[Len(manifests)], file)
IInv == Stable /\ AtWork

LEMMA Longer ==
    ASSUME NEW s, IsSequence(s), NEW e
    PROVE  /\ IsSequence(Append(s, e)) /\ Len(Append(s, e)) = Len(s) + 1
           /\ DOMAIN Append(s, e) = 1..(Len(s) + 1)
           /\ \A i \in DOMAIN s : Append(s, e)[i] = s[i]
           /\ Append(s, e)[Len(s) + 1] = e
<1> DEFINE S == {s[i] : i \in DOMAIN s} \cup {e}
           t == Append(s, e)
<1>1. s \in Seq(S) /\ e \in S
  <2> DEFINE A == {s[i] : i \in DOMAIN s}
  <2>1. s \in Seq(A)
    BY DEF IsSequence
  <2>2. A \subseteq S /\ e \in S
    OBVIOUS
  <2> HIDE DEF A, S
  <2>3. Seq(A) \subseteq Seq(S)
    BY <2>2
  <2> QED
    BY <2>1, <2>2, <2>3
<1> HIDE DEF S
<1>2. /\ t \in Seq(S) /\ Len(t) = Len(s) + 1 /\ Len(s) \in Nat
      /\ \A i \in 1..Len(s) : t[i] = s[i]
      /\ t[Len(s) + 1] = e
  BY <1>1
<1> HIDE DEF t
<1>3. IsSequence(t) /\ DOMAIN t = 1..(Len(s) + 1)
  BY <1>2 DEF IsSequence
<1>4. DOMAIN s = 1..Len(s)
  BY <1>1
<1> QED
  BY <1>2, <1>3, <1>4 DEF t

LEMMA InputsGiven ==
    ASSUME request \in Request
    PROVE  /\ Inputs \in {1, 2} /\ IsSequence(request.inputs) /\ DOMAIN request.inputs = 1..Inputs
           /\ \A n \in 1..Inputs : IsFile(request.inputs[n])
           /\ Scope \in {"structure", "full"}
<1>1. IsSequence(request.inputs) /\ Inputs \in {1, 2} /\ \A n \in DOMAIN request.inputs : IsFile(request.inputs[n])
  BY RequestAssumption DEF Inputs
<1>2. DOMAIN request.inputs = 1..Inputs
  BY <1>1, SequencePlaces DEF Inputs
<1>3. Scope \in {"structure", "full"}
  BY RequestAssumption DEF Scope
<1> QED
  BY <1>1, <1>2, <1>3

LEMMA InitInv == Init => IInv
<1> SUFFICES ASSUME Init PROVE IInv
  OBVIOUS
<1>1. /\ Inputs \in {1, 2} /\ IsSequence(request.inputs) /\ DOMAIN request.inputs = 1..Inputs
      /\ \A n \in 1..Inputs : IsFile(request.inputs[n])
  BY InputsGiven DEF Init
<1>2. IsSequence(manifests) /\ Len(manifests) = 0 /\ DOMAIN manifests = {}
  BY DEF Init, IsSequence
<1>3. Len(files) = Inputs
  BY DEF Init, Inputs
<1>4. Stable
  BY <1>1, <1>2, <1>3 DEF Init, Stable
<1>5. AtWork
  BY <1>1, <1>2, <1>3 DEF Init, AtWork
<1> QED
  BY <1>4, <1>5 DEF IInv

-----------------------------------------------------------------------------
(* Steps that measure nothing whole and export nothing. *)

LEMMA SameRequest ==
    ASSUME request' = request
    PROVE  /\ Inputs' = Inputs /\ Scope' = Scope
           /\ \A m, f : GoodManifest(m, f)' <=> GoodManifest(m, f)
           /\ \A m, f : LeadsBack(m, f)' <=> LeadsBack(m, f)
           /\ \A list, f : GoodRecords(list, f)' <=> GoodRecords(list, f)
           /\ \A kept : Selectable(kept)' <=> Selectable(kept)
           /\ \A kept : OutputOf(kept)' = OutputOf(kept)
<1>1. Inputs' = Inputs /\ Scope' = Scope
  BY DEF Inputs, Scope
<1>2. \A list, f : GoodRecords(list, f)' <=> GoodRecords(list, f)
  BY <1>1 DEF GoodRecords, GoodRecord
<1>3. \A m, f : GoodManifest(m, f)' <=> GoodManifest(m, f)
  BY <1>1, <1>2 DEF GoodManifest
<1>4. \A m, f : LeadsBack(m, f)' <=> LeadsBack(m, f)
  BY DEF LeadsBack
<1>5. \A kept : Selectable(kept)' <=> Selectable(kept)
  BY DEF Selectable
<1>6. \A kept : OutputOf(kept)' = OutputOf(kept)
  BY DEF OutputOf
<1> QED
  BY <1>1, <1>2, <1>3, <1>4, <1>5, <1>6

LEMMA StableKept ==
    ASSUME Stable, UNCHANGED <<request, files, manifests>>
    PROVE  Stable'
<1>1. request' = request /\ files' = files /\ manifests' = manifests
  OBVIOUS
<1>2. Chosen' = Chosen
  BY <1>1 DEF Chosen
<1>3. OutputMade' <=> OutputMade
  BY <1>1, <1>2, SameRequest DEF OutputMade
<1>4. \A n \in DOMAIN manifests' : GoodManifest(manifests[n], files[n])' /\ LeadsBack(manifests[n], files[n])'
  BY <1>1, SameRequest DEF Stable
<1> QED
  BY <1>1, <1>3, <1>4, SameRequest DEF Stable

-----------------------------------------------------------------------------
(* What is at hand, and a record added to it. *)

LEMMA Lengths ==
    ASSUME Stable
    PROVE  /\ Len(files) \in Nat /\ DOMAIN files = 1..Len(files)
           /\ Len(manifests) \in Nat /\ DOMAIN manifests = 1..Len(manifests)
           /\ Len(manifests) < Len(files) => IsFile(Measuring)
           /\ Len(files) >= 1 /\ Inputs \in {1, 2}
<1>1. /\ Len(files) \in Nat /\ DOMAIN files = 1..Len(files)
      /\ Len(manifests) \in Nat /\ DOMAIN manifests = 1..Len(manifests)
  BY SequencePlaces DEF Stable
<1>2. Inputs \in {1, 2} /\ Len(files) >= 1
  BY InputsGiven DEF Stable
<1>3. ASSUME Len(manifests) < Len(files) PROVE IsFile(Measuring)
  <2>1. Len(manifests) + 1 \in DOMAIN files
    BY <1>1, <1>3
  <2> QED
    BY <2>1 DEF Stable, Measuring
<1> QED
  BY <1>1, <1>2, <1>3

LEMMA GoodRecordAdded ==
    ASSUME Stable, Len(manifests) < Len(files), GoodRecords(records, Measuring),
           Len(records) < Len(Measuring.tracks), Scope = "full" => HasFingerprint(Track), NEW stream
    PROVE  LET fingerprint == IF Scope = "full" THEN {TrackFingerprint(Track)} ELSE {}
           IN GoodRecords(Append(records, TrackRecord(Len(records), Track, fingerprint, stream)), Measuring)
<1> DEFINE fingerprint == IF Scope = "full" THEN {TrackFingerprint(Track)} ELSE {}
           e == TrackRecord(Len(records), Track, fingerprint, stream)
           n == Len(records)
           t == Append(records, e)
<1>1. n \in Nat /\ DOMAIN records = 1..n
  BY SequencePlaces DEF GoodRecords
<1>2. Len(Measuring.tracks) \in Nat /\ DOMAIN Measuring.tracks = 1..Len(Measuring.tracks)
  BY Lengths, SequencePlaces DEF IsFile
<1>3. n + 1 \in DOMAIN Measuring.tracks
  BY <1>1, <1>2
<1>4. GoodRecord(e, Measuring.tracks[n + 1], n + 1)
  <2>1. Track = Measuring.tracks[n + 1]
    BY DEF Track
  <2>2. e.index = n /\ e.kind = Track.kind /\ e.coding = Coding(Track) /\ e.fingerprint = fingerprint
    BY DEF TrackRecord
  <2>3. n = (n + 1) - 1
    BY <1>1
  <2> HIDE DEF e, n
  <2> QED
    BY <2>1, <2>2, <2>3 DEF GoodRecord
<1> HIDE DEF e
<1>5. /\ IsSequence(t) /\ DOMAIN t = 1..(n + 1)
      /\ \A i \in DOMAIN records : t[i] = records[i]
      /\ t[n + 1] = e
  BY Longer DEF GoodRecords
<1> HIDE DEF t, n
<1>6. ASSUME NEW k \in DOMAIN t
      PROVE  k \in DOMAIN Measuring.tracks /\ GoodRecord(t[k], Measuring.tracks[k], k)
  <2>1. k \in DOMAIN records \/ k = n + 1
    BY <1>1, <1>5
  <2>2. CASE k \in DOMAIN records
    BY <1>5, <2>2 DEF GoodRecords
  <2>3. CASE k = n + 1
    BY <1>3, <1>4, <1>5, <2>3
  <2> QED
    BY <2>1, <2>2, <2>3
<1> QED
  BY <1>5, <1>6 DEF GoodRecords, t, e, n

(* A step that refuses leaves nothing to say. *)
LEMMA Refused ==
    ASSUME pc' = "refused"
    PROVE  AtWork'
BY DEF AtWork

LEMMA SameMeasuring ==
    ASSUME UNCHANGED <<request, files, manifests>>
    PROVE  /\ Measuring' = Measuring /\ Scope' = Scope
           /\ records' = records => Track' = Track
           /\ \A list, f : GoodRecords(list, f)' <=> GoodRecords(list, f)
<1>1. request' = request /\ files' = files /\ manifests' = manifests
  OBVIOUS
<1>2. Measuring' = Measuring
  BY <1>1 DEF Measuring
<1>3. records' = records => Track' = Track
  BY <1>2 DEF Track
<1> QED
  BY <1>1, <1>2, <1>3, SameRequest

LEMMA OpenFileInv == IInv /\ OpenFile => IInv'
<1> SUFFICES ASSUME IInv, OpenFile PROVE IInv'
  OBVIOUS
<1>1. Stable /\ AtWork /\ UNCHANGED <<request, files, manifests>>
  BY DEF IInv, OpenFile, Refuse
<1>2. Stable'
  BY <1>1, StableKept
<1>3. CASE Measuring.reads /\ Measuring.tracksRead
  <2>1. /\ pc = "open" /\ pc' = "track"
        /\ UNCHANGED <<request, files, manifests, records, sample, unit, writer, change, file, findings>>
    BY <1>3 DEF OpenFile
  <2>2. Len(manifests) < Len(files) /\ records = <<>>
    BY <1>1, <2>1 DEF AtWork
  <2>3. GoodRecords(records, Measuring)
    BY <2>2 DEF GoodRecords, IsSequence
  <2>4. Measuring' = Measuring /\ GoodRecords(records, Measuring)'
    BY <1>1, <2>1, <2>3, SameMeasuring
  <2> QED
    BY <1>2, <1>3, <2>1, <2>2, <2>4 DEF IInv, AtWork
<1>4. CASE ~(Measuring.reads /\ Measuring.tracksRead)
  BY <1>2, <1>4, Refused DEF OpenFile, Refuse, IInv
<1> QED
  BY <1>3, <1>4

LEMMA RecordInv ==
    ASSUME IInv, pc \in {"track", "stream"}, Len(records) < Len(Measuring.tracks),
           Scope = "full" => HasFingerprint(Track),
           NEW stream, Record(IF Scope = "full" THEN {TrackFingerprint(Track)} ELSE {}, stream),
           pc' = "track", UNCHANGED <<request, files, manifests, change, file, findings>>
    PROVE  IInv'
<1>1. Stable /\ AtWork /\ UNCHANGED <<request, files, manifests>>
  BY DEF IInv
<1>2. Stable'
  BY <1>1, StableKept
<1>3. Len(manifests) < Len(files) /\ Measuring.tracksRead /\ GoodRecords(records, Measuring)
  BY <1>1 DEF AtWork
<1>4. GoodRecords(records', Measuring)
  <2>1. records' = Append(records, TrackRecord(Len(records), Track,
                     IF Scope = "full" THEN {TrackFingerprint(Track)} ELSE {}, stream))
    BY DEF Record
  <2> QED
    BY <1>1, <1>3, <2>1, GoodRecordAdded
<1>5. Measuring' = Measuring /\ GoodRecords(records, Measuring)'
  BY <1>1, <1>4, SameMeasuring
<1> QED
  BY <1>2, <1>3, <1>5 DEF IInv, AtWork

LEMMA MeasureTrackInv == IInv /\ MeasureTrack => IInv'
<1> SUFFICES ASSUME IInv, MeasureTrack PROVE IInv'
  OBVIOUS
<1>1. /\ Stable /\ AtWork /\ UNCHANGED <<request, files, manifests>>
      /\ pc = "track" /\ Len(records) < Len(Measuring.tracks) /\ Scope \in {"structure", "full"}
  <2>1. UNCHANGED <<request, files, manifests>>
    BY DEF MeasureTrack, Refuse, Record
  <2>2. Scope \in {"structure", "full"}
    BY InputsGiven DEF IInv, Stable
  <2> QED
    BY <2>1, <2>2 DEF IInv, MeasureTrack
<1>2. Stable'
  BY <1>1, StableKept
<1>3. CASE Scope = "structure"
  <2>1. /\ Record(IF Scope = "full" THEN {TrackFingerprint(Track)} ELSE {}, {})
        /\ pc' = "track" /\ UNCHANGED <<request, files, manifests, change, file, findings>>
    BY <1>1, <1>3 DEF MeasureTrack, Record
  <2> QED
    BY <1>1, <1>3, <2>1, RecordInv
<1>4. CASE Scope = "full" /\ ~HasFingerprint(Track)
  <2>1. pc' = "refused"
    BY <1>4 DEF MeasureTrack, Refuse
  <2> QED
    BY <1>2, <2>1, Refused DEF IInv
<1>5. CASE Scope = "full" /\ HasFingerprint(Track) /\ Avc(Track) = {}
  <2>1. /\ Record(IF Scope = "full" THEN {TrackFingerprint(Track)} ELSE {}, {})
        /\ pc' = "track" /\ UNCHANGED <<request, files, manifests, change, file, findings>>
    BY <1>1, <1>5 DEF MeasureTrack, Record
  <2> QED
    BY <1>1, <1>5, <2>1, RecordInv
<1>6. CASE Scope = "full" /\ HasFingerprint(Track) /\ Avc(Track) # {}
  <2>1. pc' = "stream" /\ UNCHANGED <<request, files, manifests, records, change, file, findings>>
    BY <1>6 DEF MeasureTrack
  <2>2. Len(manifests) < Len(files) /\ Measuring.tracksRead /\ GoodRecords(records, Measuring)
    BY <1>1 DEF AtWork
  <2>3. Measuring' = Measuring /\ Scope' = Scope /\ Track' = Track /\ GoodRecords(records, Measuring)'
    BY <1>1, <2>1, <2>2, SameMeasuring
  <2> QED
    BY <1>1, <1>2, <1>6, <2>1, <2>2, <2>3 DEF IInv, AtWork
<1> QED
  BY <1>1, <1>3, <1>4, <1>5, <1>6

(* A unit of the stream is written: the files, the manifests and the records stay. *)
LEMMA StreamInv ==
    ASSUME IInv, pc = "stream", UNCHANGED <<request, pc, files, manifests, records, change, file, findings>>
    PROVE  IInv'
<1>1. Stable /\ AtWork /\ UNCHANGED <<request, files, manifests>>
  BY DEF IInv
<1>2. Stable'
  BY <1>1, StableKept
<1>3. /\ Len(manifests) < Len(files) /\ Measuring.tracksRead /\ GoodRecords(records, Measuring)
      /\ Scope = "full" /\ HasFingerprint(Track) /\ Len(records) < Len(Measuring.tracks)
  BY <1>1 DEF AtWork
<1>4. Measuring' = Measuring /\ Scope' = Scope /\ Track' = Track /\ GoodRecords(records, Measuring)'
  BY <1>1, <1>3, SameMeasuring
<1> QED
  BY <1>2, <1>3, <1>4 DEF IInv, AtWork

LEMMA FinishStreamInv == IInv /\ FinishStream => IInv'
<1> SUFFICES ASSUME IInv, FinishStream PROVE IInv'
  OBVIOUS
<1>1. pc = "stream" /\ Scope = "full" /\ HasFingerprint(Track) /\ Len(records) < Len(Measuring.tracks)
  BY DEF IInv, AtWork, FinishStream
<1>2. \E stream : /\ Record(IF Scope = "full" THEN {TrackFingerprint(Track)} ELSE {}, stream)
                  /\ pc' = "track" /\ UNCHANGED <<request, files, manifests, change, file, findings>>
  BY <1>1 DEF FinishStream
<1> QED
  BY <1>1, <1>2, RecordInv

-----------------------------------------------------------------------------
(* The output, and the manifests. *)

LEMMA OutputIsFile ==
    ASSUME request \in Request, NEW kept, KeptWell(kept), Selectable(kept)
    PROVE  IsFile(OutputOf(kept))
<1> DEFINE primary == request.inputs[1]
           f == OutputOf(kept)
           F == FirstOf(primary, "ftyp")
           U == {i \in DOMAIN primary.top : Unknown(primary.top[i])}
           a == At(primary.top, F)
           b == <<Written("moov")>>
           c == At(primary.top, U)
           d == <<Written("mdat")>>
           Open(s) == IsSequence(s) /\ \A i \in DOMAIN s : ~s[i].clipped
<1>1. IsFile(primary)
  <2>1. 1 \in 1..Inputs
    BY InputsGiven
  <2> QED
    BY <2>1, InputsGiven
<1>2. /\ DOMAIN f = {"reads", "tracksRead", "timesRead", "brand", "top", "userData", "moov", "tracks", "other"}
      /\ f.top = ((a \o b) \o c) \o d /\ f.userData = primary.userData
  BY <1>1 DEF OutputOf, UnknownTopLevel, IsFile
<1>3. IsSequence(f.tracks)
  <2> DEFINE L == Landed(kept)
             l == Len(L)
             t == f.tracks
  <2>1. l \in Nat /\ DOMAIN L = 1..l
    BY AllLand, SequencePlaces DEF Lands
  <2>2. DOMAIN t = 1..l /\ t = [p \in 1..l |-> t[p]]
    BY <2>1, OutputTracks
  <2> HIDE DEF l, t
  <2> QED
    BY <2>1, <2>2, ListedFrom DEF t
<1>4. /\ IsFiniteSet(F) /\ (\A i \in F : i \in Nat) /\ F \subseteq DOMAIN primary.top
      /\ IsFiniteSet(U) /\ (\A i \in U : i \in Nat)
  <2>1. F \in SUBSET DOMAIN primary.top /\ U \in SUBSET DOMAIN primary.top
    BY DEF FirstOf
  <2>2. IsSequence(primary.top)
    BY <1>1 DEF IsFile
  <2> HIDE DEF F, U, primary
  <2> QED
    BY <2>1, <2>2, SequencePlaces
<1>5. (\A i \in F : ~primary.top[i].clipped) /\ (\A i \in U : ~primary.top[i].clipped)
  BY DEF Selectable, Unknown
<1> HIDE DEF F, U, f
<1>6. Open(a)
  <2>1. IsAt(a, primary.top, F)
    BY <1>4, AtPlaces
  <2> QED
    BY <1>5, <2>1 DEF IsAt
<1>7. Open(c)
  <2>1. IsAt(c, primary.top, U)
    BY <1>4, AtPlaces
  <2> QED
    BY <1>5, <2>1 DEF IsAt
<1>8. \A kind : Open(<<Written(kind)>>)
  <2> SUFFICES ASSUME NEW kind PROVE Open(<<Written(kind)>>)
    OBVIOUS
  <2> DEFINE w == Written(kind)
  <2>1. w.clipped = FALSE
    BY DEF Written
  <2> HIDE DEF w
  <2>2. IsSequence(<<w>>) /\ DOMAIN <<w>> = 1..1 /\ <<w>>[1] = w
    BY Alone
  <2>3. \A i \in 1..1 : i = 1
    OBVIOUS
  <2>4. Open(<<w>>)
    BY <2>1, <2>2, <2>3
  <2> QED
    BY <2>4 DEF w
<1>9. Open(b) /\ Open(d)
  BY <1>8
<1>10. ASSUME NEW s, NEW t, Open(s), Open(t) PROVE Open(s \o t)
  <2> DEFINE w == s \o t
  <2>1. IsSequence(w) /\ Joins(w, s, t)
    BY <1>10, Chained
  <2> HIDE DEF w
  <2>2. DOMAIN w = 1..Len(w) /\ DOMAIN s = 1..Len(s) /\ DOMAIN t = 1..Len(t)
    BY <1>10, <2>1, SequencePlaces
  <2>3. ASSUME NEW i \in 1..Len(w) PROVE ~w[i].clipped
    <3>1. CASE i \in 1..Len(s)
      BY <1>10, <2>1, <2>2, <3>1 DEF Joins
    <3>2. CASE i \notin 1..Len(s)
      <4>1. PICK k \in 1..Len(t) : i = Len(s) + k
        BY <2>1, <3>2 DEF Joins
      <4>2. w[i] = t[k]
        BY <2>1, <4>1 DEF Joins
      <4> QED
        BY <1>10, <2>2, <4>2
    <3> QED
      BY <3>1, <3>2
  <2> QED
    BY <2>1, <2>2, <2>3 DEF w
<1> HIDE DEF a, b, c, d, Open
<1>11. Open(((a \o b) \o c) \o d)
  <2>1. Open(a \o b)
    BY <1>6, <1>9, <1>10
  <2>2. Open((a \o b) \o c)
    BY <1>7, <1>10, <2>1
  <2> QED
    BY <1>9, <1>10, <2>2
<1>12. IsSequence(f.top) /\ \A i \in DOMAIN f.top : ~f.top[i].clipped
  BY <1>2, <1>11 DEF Open
<1>13. IsSequence(f.userData)
  BY <1>1, <1>2 DEF IsFile
<1> QED
  BY <1>2, <1>3, <1>12, <1>13 DEF IsFile, f

LEMMA OneChoice ==
    ASSUME Stable, request.selection.kind # "none", Inputs <= Len(manifests)
    PROVE  /\ AtMostOne(Chosen) /\ \A kept \in Chosen : KeptWell(kept)
           /\ \A s \in 1..Inputs : s \in DOMAIN manifests /\ GoodManifest(manifests[s], request.inputs[s])
<1>1. \A s \in 1..Inputs : s \in DOMAIN manifests
  BY Lengths
<1>2. \A s \in 1..Inputs : GoodManifest(manifests[s], request.inputs[s])
  BY <1>1 DEF Stable
<1>3. \A s \in 1..Inputs : Indexed(manifests[s])
  BY <1>2, GoodIndexed
<1>4. request \in Request
  BY DEF Stable
<1> QED
  BY <1>1, <1>2, <1>3, <1>4, ChosenKeeps

LEMMA ExportInv == IInv /\ Export => IInv'
<1> SUFFICES ASSUME IInv, Export PROVE IInv'
  OBVIOUS
<1>1. /\ Stable /\ AtWork /\ pc = "measured" /\ request.selection.kind # "none"
      /\ Len(files) = Inputs /\ Len(manifests) = Len(files) /\ records = <<>>
  BY DEF IInv, Export, AtWork, Inputs
<1>2. CASE ~\E kept \in Chosen : Selectable(kept)
  <2>1. pc' = "refused" /\ UNCHANGED <<request, files, manifests>>
    BY <1>2 DEF Export, Refuse
  <2> QED
    BY <1>1, <2>1, Refused, StableKept DEF IInv
<1>3. CASE \E kept \in Chosen : Selectable(kept)
  <2>1. Inputs \in {1, 2} /\ Inputs <= Len(manifests)
    BY <1>1, Lengths
  <2>2. AtMostOne(Chosen) /\ \A kept \in Chosen : KeptWell(kept)
    BY <1>1, <2>1, OneChoice
  <2>3. PICK kept \in Chosen :
          /\ files' = Append(files, OutputOf(kept)) /\ pc' = "open"
          /\ UNCHANGED <<request, manifests, records, sample, unit, writer, change, file, findings>>
    BY <1>3 DEF Export
  <2>4. Selectable(kept) /\ KeptWell(kept)
    BY <1>3, <2>2 DEF AtMostOne
  <2>5. IsFile(OutputOf(kept))
    BY <1>1, <2>4, OutputIsFile DEF Stable
  <2>6. request' = request /\ manifests' = manifests /\ records' = <<>>
    BY <1>1, <2>3
  <2> DEFINE e == OutputOf(kept)
  <2>7. /\ IsSequence(files') /\ Len(files') = Inputs + 1 /\ DOMAIN files' = 1..(Inputs + 1)
        /\ \A i \in DOMAIN files : files'[i] = files[i]
        /\ files'[Inputs + 1] = e
    <3> HIDE DEF e
    <3>1. files' = Append(files, e) /\ IsSequence(files)
      BY <1>1, <2>3 DEF Stable, e
    <3> QED
      BY <1>1, <3>1, Longer
  <2>8. DOMAIN files = 1..Inputs /\ DOMAIN manifests = 1..Inputs
    BY <1>1, Lengths
  <2>9. \A n \in 1..(Inputs + 1) : IsFile(files'[n])
    <3>1. \A n \in 1..(Inputs + 1) : n \in 1..Inputs \/ n = Inputs + 1
      BY <2>1
    <3>2. \A n \in 1..Inputs : IsFile(files'[n])
      BY <1>1, <2>7, <2>8 DEF Stable
    <3> QED
      BY <2>5, <2>7, <3>1, <3>2
  <2>10. Chosen' = Chosen
    BY <2>6 DEF Chosen
  <2>11. OutputMade'
    <3>1. Inputs' = Inputs /\ Selectable(kept)' /\ OutputOf(kept)' = OutputOf(kept)
      BY <2>4, <2>6, SameRequest
    <3>2. kept \in Chosen'
      BY <2>10
    <3> QED
      BY <1>1, <2>1, <2>6, <2>7, <3>1, <3>2 DEF OutputMade
  <2>12. \A n \in DOMAIN manifests' : GoodManifest(manifests[n], files[n])' /\ LeadsBack(manifests[n], files[n])'
    BY <1>1, <2>6, <2>7, <2>8, SameRequest DEF Stable
  <2>13. Stable'
    <3>1. Inputs' = Inputs
      BY <2>6, SameRequest
    <3>2. \A n \in 1..Inputs : files'[n] = request.inputs[n]
      BY <1>1, <2>7, <2>8 DEF Stable
    <3>3. IsSequence(manifests') /\ Len(manifests') <= Len(files')
      BY <1>1, <2>1, <2>6, <2>7 DEF Stable
    <3> QED
      BY <1>1, <2>6, <2>7, <2>9, <2>11, <2>12, <3>1, <3>2, <3>3 DEF Stable
  <2>14. Len(manifests') < Len(files')
    BY <1>1, <2>1, <2>6, <2>7
  <2>15. AtWork'
    BY <2>3, <2>6, <2>14 DEF AtWork
  <2> QED
    BY <2>13, <2>15 DEF IInv
<1> QED
  BY <1>2, <1>3

LEMMA FinishManifestInv == IInv /\ FinishManifest => IInv'
<1> SUFFICES ASSUME IInv, FinishManifest PROVE IInv'
  OBVIOUS
<1> DEFINE f == Measuring
           m == ManifestOf(Measuring, Scope, records, Operation)
           n == Len(manifests)
<1>1. /\ Stable /\ AtWork /\ pc = "track" /\ Len(records) = Len(f.tracks)
      /\ manifests' = Append(manifests, m) /\ records' = <<>> /\ file' = f
      /\ pc' = IF Len(manifests') < Len(files) THEN "open" ELSE "measured"
      /\ request' = request /\ files' = files
  BY DEF IInv, FinishManifest
<1>2. n < Len(files) /\ f.tracksRead /\ GoodRecords(records, f)
  BY <1>1 DEF AtWork
<1>3. n \in Nat /\ Len(files) \in Nat /\ DOMAIN manifests = 1..n /\ DOMAIN files = 1..Len(files) /\ Inputs \in {1, 2}
  BY <1>1, Lengths
<1>4. /\ m.digest = IF Scope = "full" THEN {FileDigest(f)} ELSE {}
      /\ m.structure = StructureOf(f) /\ m.vendor = VendorRecord(f) /\ m.tracks = records
      /\ m.operation = Operation
  BY DEF ManifestOf
<1> HIDE DEF m
<1>5. GoodManifest(m, f)
  BY <1>1, <1>2, <1>4 DEF GoodManifest, VendorRecord
<1>6. LeadsBack(m, f)
  <2>1. CASE n < Inputs
    <3>1. m.operation.kind = "inspection"
      BY <1>4, <2>1 DEF Operation, Inputs
    <3> QED
      BY <3>1 DEF LeadsBack
  <2>2. CASE ~(n < Inputs)
    <3>1. Len(files) = Inputs + 1 /\ n = Inputs /\ OutputMade
      <4>1. Len(files) = Inputs \/ (Len(files) = Inputs + 1 /\ OutputMade)
        BY <1>1 DEF Stable
      <4> DEFINE all == Len(files)
      <4>2. n < all /\ n \in Nat /\ all \in Nat /\ Inputs \in {1, 2}
        BY <1>2, <1>3
      <4> HIDE DEF n, all
      <4>3. all # Inputs
        BY <2>2, <4>2
      <4>4. all = Inputs + 1 /\ OutputMade
        BY <4>1, <4>3 DEF all
      <4>5. n = Inputs
        BY <2>2, <4>2, <4>4
      <4> QED
        BY <4>4, <4>5 DEF all
    <3>2. PICK kept \in Chosen : Selectable(kept) /\ files[Inputs + 1] = OutputOf(kept)
      BY <3>1 DEF OutputMade
    <3>3. /\ AtMostOne(Chosen) /\ KeptWell(kept) /\ request.selection.kind # "none"
          /\ \A s \in 1..Inputs : GoodManifest(manifests[s], request.inputs[s])
      BY <1>1, <3>1, <3>2, OneChoice DEF OutputMade
    <3>4. (CHOOSE other \in Chosen : TRUE) = kept
      BY <3>2, <3>3 DEF AtMostOne
    <3>5. m.operation = [kind |-> "export", class |-> ClassOf(kept), sources |-> SourceRecords(kept)]
      BY <1>4, <2>2, <3>4 DEF Operation, Inputs
    <3>6. f = OutputOf(kept)
      BY <3>1, <3>2 DEF Measuring
    <3> QED
      BY <1>1, <1>5, <3>2, <3>3, <3>5, <3>6, SourcesFound DEF Stable
  <2> QED
    BY <2>1, <2>2
<1>7. /\ IsSequence(manifests') /\ Len(manifests') = n + 1 /\ DOMAIN manifests' = 1..(n + 1)
      /\ \A i \in 1..n : manifests'[i] = manifests[i]
      /\ manifests'[n + 1] = m
  <2>1. IsSequence(manifests)
    BY <1>1 DEF Stable
  <2> QED
    BY <1>1, <1>3, <2>1, Longer
<1>8. files[n + 1] = f
  BY DEF Measuring
<1> HIDE DEF f, n
<1>9. \A i \in DOMAIN manifests' : GoodManifest(manifests[i], files[i])' /\ LeadsBack(manifests[i], files[i])'
  <2>1. ASSUME NEW i \in 1..(n + 1)
        PROVE  GoodManifest(manifests'[i], files[i]) /\ LeadsBack(manifests'[i], files[i])
    <3>1. i \in 1..n \/ i = n + 1
      BY <1>3
    <3>2. CASE i \in 1..n
      BY <1>1, <1>3, <1>7, <3>2 DEF Stable
    <3>3. CASE i = n + 1
      BY <1>5, <1>6, <1>7, <1>8, <3>3
    <3> QED
      BY <3>1, <3>2, <3>3
  <2> QED
    BY <1>1, <1>7, <2>1, SameRequest
<1>10. OutputMade => OutputMade'
  <2> SUFFICES ASSUME OutputMade PROVE OutputMade'
    OBVIOUS
  <2>1. Inputs <= n
    BY DEF OutputMade, n
  <2>2. \A s \in 1..Inputs : manifests'[s] = manifests[s]
    BY <1>3, <1>7, <2>1
  <2>3. Chosen' = Chosen
    <3>1. CASE Len(request.inputs) = 1
      <4>1. manifests'[1] = manifests[1]
        BY <2>2, <3>1 DEF Inputs
      <4> QED
        BY <1>1, <3>1, <4>1 DEF Chosen
    <3>2. CASE Len(request.inputs) = 2
      <4>1. manifests'[1] = manifests[1] /\ manifests'[2] = manifests[2]
        BY <2>2, <3>2 DEF Inputs
      <4> QED
        BY <1>1, <3>2, <4>1 DEF Chosen
    <3> QED
      BY <1>3, <3>1, <3>2 DEF Inputs
  <2>4. PICK kept \in Chosen : Selectable(kept) /\ files[Inputs + 1] = OutputOf(kept)
    BY DEF OutputMade
  <2>5. Inputs' = Inputs /\ Selectable(kept)' /\ OutputOf(kept)' = OutputOf(kept)
    BY <1>1, <2>4, SameRequest
  <2>6. Inputs <= Len(manifests')
    BY <1>3, <1>7, <2>1
  <2>7. kept \in Chosen' /\ files'[Inputs' + 1] = OutputOf(kept)'
    BY <1>1, <2>3, <2>4, <2>5
  <2> QED
    BY <1>1, <2>5, <2>6, <2>7 DEF OutputMade
<1>11. Stable'
  <2>1. Inputs' = Inputs
    BY <1>1, SameRequest
  <2>2. Len(manifests') <= Len(files')
    BY <1>1, <1>2, <1>3, <1>7 DEF n
  <2> QED
    BY <1>1, <1>7, <1>9, <1>10, <2>1, <2>2 DEF Stable
<1>12. AtWork'
  <2>1. CASE Len(manifests') < Len(files)
    BY <1>1, <2>1 DEF AtWork
  <2>2. CASE ~(Len(manifests') < Len(files))
    <3>1. Len(manifests') = Len(files) /\ n + 1 = Len(files)
      <4> DEFINE all == Len(files)
      <4>1. n < all /\ n \in Nat /\ all \in Nat /\ Len(manifests') = n + 1 /\ ~(n + 1 < all)
        BY <1>2, <1>3, <1>7, <2>2
      <4> HIDE DEF all
      <4>2. n + 1 = all
        BY <4>1
      <4> QED
        BY <4>1, <4>2 DEF all
    <3> QED
      BY <1>1, <1>8, <2>2, <3>1 DEF AtWork
  <2> QED
    BY <2>1, <2>2
<1> QED
  BY <1>11, <1>12 DEF IInv

-----------------------------------------------------------------------------
(* The last steps, and the invariant. *)

LEMMA ChangeInv == IInv /\ Change => IInv'
<1> SUFFICES ASSUME IInv, Change PROVE IInv'
  OBVIOUS
<1>1. /\ Stable /\ AtWork /\ pc = "measured" /\ pc' = "changed"
      /\ UNCHANGED <<request, files, manifests, records, findings>>
  BY DEF IInv, Change
<1>2. Stable'
  BY <1>1, StableKept
<1>3. Len(manifests) = Len(files) /\ file = files[Len(files)] /\ IsFile(files[Len(files)])
  <2>1. Len(files) \in DOMAIN files
    BY <1>1, Lengths
  <2> QED
    BY <1>1, <2>1 DEF AtWork, Stable
<1>4. IsFile(file') /\ (change' = <<"none">> => file' = files[Len(files)])
  <2>1. CASE UNCHANGED <<change, file>>
    BY <1>3, <2>1
  <2>2. CASE \E now \in Changed(file) :
               /\ IsFile(now.file) /\ now.subject # <<"none">>
               /\ change' = now.subject
               /\ file' = now.file
    BY <2>2
  <2> QED
    BY <2>1, <2>2 DEF Change
<1> QED
  BY <1>1, <1>2, <1>3, <1>4 DEF IInv, AtWork

LEMMA VerifyInv == IInv /\ Verify => IInv'
<1> SUFFICES ASSUME IInv, Verify PROVE IInv'
  OBVIOUS
<1>1. Stable /\ AtWork /\ pc = "changed" /\ UNCHANGED <<request, files, manifests>>
  BY DEF IInv, Verify, Refuse
<1>2. Stable'
  BY <1>1, StableKept
<1>3. CASE file.reads
  <2>1. /\ findings' = FindingsOf(manifests[Len(manifests)], file) /\ pc' = "done"
        /\ UNCHANGED <<request, files, manifests, records, change, file>>
    BY <1>3 DEF Verify
  <2>2. FindingsOf(manifests[Len(manifests)], file)' = FindingsOf(manifests[Len(manifests)], file)
    BY <2>1
  <2> QED
    BY <1>1, <1>2, <2>1, <2>2 DEF IInv, AtWork
<1>4. CASE ~file.reads
  BY <1>2, <1>4, Refused DEF Verify, Refuse, IInv
<1> QED
  BY <1>3, <1>4

LEMMA StutterInv == IInv /\ UNCHANGED vars => IInv'
<1> SUFFICES ASSUME IInv, UNCHANGED vars PROVE IInv'
  OBVIOUS
<1>1. /\ Stable /\ AtWork
      /\ UNCHANGED <<request, pc, files, manifests, records, change, file, findings>>
  BY DEF IInv, vars
<1>2. Stable'
  BY <1>1, StableKept
<1>3. /\ Measuring' = Measuring /\ Scope' = Scope /\ Track' = Track
      /\ GoodRecords(records, Measuring)' <=> GoodRecords(records, Measuring)
  BY <1>1, SameMeasuring
<1>4. FindingsOf(manifests[Len(manifests)], file)' = FindingsOf(manifests[Len(manifests)], file)
  BY <1>1
<1> QED
  BY <1>1, <1>2, <1>3, <1>4 DEF IInv, AtWork

LEMMA NextInv == IInv /\ [Next]_vars => IInv'
<1> SUFFICES ASSUME IInv, [Next]_vars PROVE IInv'
  OBVIOUS
<1>1. CASE OpenFile
  BY <1>1, OpenFileInv
<1>2. CASE MeasureTrack
  BY <1>2, MeasureTrackInv
<1>3. CASE FinishManifest
  BY <1>3, FinishManifestInv
<1>4. CASE WriteStreamUnit
  BY <1>4, StreamInv DEF WriteStreamUnit
<1>5. CASE NextSample
  BY <1>5, StreamInv DEF NextSample
<1>6. CASE RefuseSample \/ RefuseTimes
  <2>1. Stable /\ pc' = "refused" /\ UNCHANGED <<request, files, manifests>>
    BY <1>6 DEF RefuseSample, RefuseTimes, Refuse, IInv
  <2> QED
    BY <2>1, Refused, StableKept DEF IInv
<1>7. CASE FinishStream
  BY <1>7, FinishStreamInv
<1>8. CASE Export
  BY <1>8, ExportInv
<1>9. CASE Change
  BY <1>9, ChangeInv
<1>10. CASE Verify
  BY <1>10, VerifyInv
<1>11. CASE UNCHANGED vars
  BY <1>11, StutterInv
<1> QED
  BY <1>1, <1>2, <1>3, <1>4, <1>5, <1>6, <1>7, <1>8, <1>9, <1>10, <1>11 DEF Next

LEMMA Invariant == Spec => []IInv
<1>1. Init => IInv
  BY InitInv
<1>2. IInv /\ [Next]_vars => IInv'
  BY NextInv
<1> QED
  BY <1>1, <1>2, PTL DEF Spec

-----------------------------------------------------------------------------
(* The rule of the stream: the insertions are decided unit by unit. *)

Due(all, f, n) ==
    all[n].unit.type = "refresh" /\ NewAt(all, n, f) /\ ~EarlierInSample(all, n, {"sps", "pps"})
InsertsInTurn(f, all, m) == f = [n \in 1..m |-> Due(all, f, n)]

LEMMA DueBefore ==
    ASSUME NEW all, NEW n \in Nat, NEW f, NEW g, \A m \in 1..(n - 1) : f[m] = g[m]
    PROVE  Due(all, f, n) = Due(all, g, n)
<1>1. \A r \in 0..(n - 1) : \A m \in (r + 1)..(n - 1) : f[m] = g[m]
  OBVIOUS
<1>2. NewAt(all, n, f) <=> NewAt(all, n, g)
  BY <1>1 DEF NewAt
<1> QED
  BY <1>2 DEF Due

LEMMA InsertionExists ==
    ASSUME NEW all, NEW m \in Nat
    PROVE  \E f : InsertsInTurn(f, all, m)
<1> DEFINE T == {k \in Nat : ~\E f : InsertsInTurn(f, all, k)}
<1> SUFFICES ASSUME T # {} PROVE FALSE
  OBVIOUS
<1>1. PICK k \in T : \A y \in T : k <= y
  BY Least
<1>2. k # 0
  <2>1. InsertsInTurn([i \in 1..0 |-> FALSE], all, 0)
    BY DEF InsertsInTurn
  <2> QED
    BY <1>1, <2>1
<1>3. k \in Nat /\ k - 1 \in Nat /\ k - 1 \notin T
  BY <1>1, <1>2
<1>4. PICK f : InsertsInTurn(f, all, k - 1)
  BY <1>3
<1> DEFINE g == [i \in 1..k |-> IF i = k THEN Due(all, f, i) ELSE f[i]]
<1>5. InsertsInTurn(g, all, k)
  <2> SUFFICES ASSUME NEW i \in 1..k
               PROVE  g[i] = Due(all, g, i)
    BY DEF InsertsInTurn
  <2>1. Due(all, g, i) = Due(all, f, i)
    <3>1. \A j \in 1..(i - 1) : j \in 1..k /\ j # k
      BY <1>3
    <3>2. \A j \in 1..(i - 1) : g[j] = f[j]
      BY <3>1
    <3> HIDE DEF g
    <3> QED
      BY <3>2, DueBefore
  <2>3. CASE i = k
    BY <2>1, <2>3
  <2>4. CASE i # k
    <3>1. i \in 1..(k - 1) /\ g[i] = f[i]
      BY <1>3, <2>4
    <3> HIDE DEF g
    <3>2. f[i] = Due(all, f, i)
      BY <1>4, <3>1 DEF InsertsInTurn
    <3> QED
      BY <2>1, <3>1, <3>2
  <2> QED
    BY <2>3, <2>4
<1> QED
  BY <1>1, <1>5

LEMMA InsertionsInTurn ==
    ASSUME NEW all, Len(all) \in Nat
    PROVE  InsertsInTurn(InsertionsAt(all), all, Len(all))
<1> DEFINE Def(f) == f = [n \in 1..Len(all) |-> Due(all, f, n)]
           c == CHOOSE f : Def(f)
<1>1. \E f : Def(f)
  BY InsertionExists DEF InsertsInTurn
<1>2. Def(c)
  BY <1>1
<1>3. InsertionsAt(all) = c
  BY DEF InsertionsAt, Due
<1> QED
  BY <1>2, <1>3 DEF InsertsInTurn

(* Where the units of each sample stand among the numbered ones: after the units before it. *)
Stand(all, samples, from) ==
    /\ from[0] = 0 /\ Len(all) = from[Len(samples)]
    /\ \A s \in 1..Len(samples) : from[s] = from[s - 1] + Len(samples[s]) /\ from[s - 1] \in Nat
    /\ \A s \in 1..Len(samples) : \A i \in 1..Len(samples[s]) :
         /\ from[s - 1] + i \in 1..Len(all)
         /\ all[from[s - 1] + i] = [sample |-> s, place |-> i, unit |-> samples[s][i]]
    /\ \A n \in 1..Len(all) : \E s \in 1..Len(samples) : \E i \in 1..Len(samples[s]) : n = from[s - 1] + i

LEMMA InList ==
    ASSUME NEW S, NEW n \in Nat, NEW f, f = [i \in 1..n |-> f[i]], \A i \in 1..n : f[i] \in S
    PROVE  f \in Seq(S) /\ Len(f) = n /\ DOMAIN f = 1..n
OBVIOUS

(* As far as some samples go. *)
StandTo(all, samples, from, m) ==
    /\ \A s \in 1..m : \A i \in 1..Len(samples[s]) :
         /\ from[s - 1] + i \in 1..Len(all)
         /\ all[from[s - 1] + i] = [sample |-> s, place |-> i, unit |-> samples[s][i]]
    /\ \A n \in 1..Len(all) : \E s \in 1..m : \E i \in 1..Len(samples[s]) : n = from[s - 1] + i

LEMMA StandFurther ==
    ASSUME NEW S, NEW a \in Seq(S), NEW b \in Seq(S), NEW samples, NEW from, NEW m \in Nat \ {0},
           StandTo(a, samples, from, m - 1), from[m - 1] = Len(a),
           Len(samples[m]) = Len(b),
           \A i \in 1..Len(samples[m]) : b[i] = [sample |-> m, place |-> i, unit |-> samples[m][i]],
           \A s \in 1..m : from[s - 1] \in Nat /\ Len(samples[s]) \in Nat
    PROVE  StandTo(a \o b, samples, from, m)
<1> DEFINE c == a \o b
<1>1. Joins(c, a, b) /\ Len(a) \in Nat /\ Len(b) \in Nat
  BY Concat
<1> HIDE DEF c
<1>2. ASSUME NEW s \in 1..m, NEW i \in 1..Len(samples[s])
      PROVE  /\ from[s - 1] + i \in 1..Len(c)
             /\ c[from[s - 1] + i] = [sample |-> s, place |-> i, unit |-> samples[s][i]]
  <2>1. CASE s \in 1..(m - 1)
    <3>1. /\ from[s - 1] + i \in 1..Len(a)
          /\ a[from[s - 1] + i] = [sample |-> s, place |-> i, unit |-> samples[s][i]]
      BY <2>1 DEF StandTo
    <3>2. 1..Len(a) \subseteq 1..Len(c)
      BY <1>1 DEF Joins
    <3> QED
      BY <1>1, <3>1, <3>2 DEF Joins
  <2>2. CASE s = m
    <3>1. i \in 1..Len(b) /\ from[s - 1] + i = Len(a) + i
      BY <2>2
    <3>2. Len(a) + i \in 1..Len(c) /\ c[Len(a) + i] = b[i]
      BY <1>1, <3>1 DEF Joins
    <3>3. b[i] = [sample |-> s, place |-> i, unit |-> samples[s][i]]
      BY <2>2
    <3> QED
      BY <3>1, <3>2, <3>3
  <2> QED
    BY <2>1, <2>2
<1>3. ASSUME NEW n \in 1..Len(c)
      PROVE  \E s \in 1..m : \E i \in 1..Len(samples[s]) : n = from[s - 1] + i
  <2>1. CASE n \in 1..Len(a)
    <3>1. PICK s \in 1..(m - 1) : \E i \in 1..Len(samples[s]) : n = from[s - 1] + i
      BY <2>1 DEF StandTo
    <3>2. s \in 1..m
      OBVIOUS
    <3> QED
      BY <3>1, <3>2
  <2>2. CASE n \notin 1..Len(a)
    <3>1. PICK k \in 1..Len(b) : n = Len(a) + k
      BY <1>1, <2>2 DEF Joins
    <3>2. m \in 1..m /\ k \in 1..Len(samples[m]) /\ n = from[m - 1] + k
      BY <3>1
    <3> QED
      BY <3>2
  <2> QED
    BY <2>1, <2>2
<1> QED
  BY <1>2, <1>3 DEF StandTo, c

LEMMA NumberedStand ==
    ASSUME NEW U, NEW samples \in Seq(Seq(U))
    PROVE  \E from : Stand(Numbered(samples), samples, from) /\ IsSequence(Numbered(samples))
<1> DEFINE S == [sample : Nat, place : Nat, unit : U]
           k == Len(samples)
           parts == [s \in DOMAIN samples |->
                       [i \in DOMAIN samples[s] |-> [sample |-> s, place |-> i, unit |-> samples[s][i]]]]
<1>1. k \in Nat /\ DOMAIN samples = 1..k /\ \A s \in 1..k : samples[s] \in Seq(U)
  OBVIOUS
<1>2. \A s \in 1..k : Len(samples[s]) \in Nat /\ DOMAIN samples[s] = 1..Len(samples[s])
  BY <1>1
<1>3. ASSUME NEW s \in 1..k
      PROVE  /\ parts[s] \in Seq(S) /\ Len(parts[s]) = Len(samples[s])
             /\ \A i \in 1..Len(samples[s]) : parts[s][i] = [sample |-> s, place |-> i, unit |-> samples[s][i]]
  <2> DEFINE p == [i \in 1..Len(samples[s]) |-> [sample |-> s, place |-> i, unit |-> samples[s][i]]]
  <2>1. parts[s] = p
    BY <1>1, <1>2
  <2>2. \A i \in 1..Len(samples[s]) : samples[s][i] \in U
    BY <1>1, <1>2
  <2>3. \A i \in 1..Len(samples[s]) : p[i] \in S
    BY <1>1, <1>2, <2>2
  <2>4. p = [i \in 1..Len(samples[s]) |-> p[i]]
    OBVIOUS
  <2>5. Len(samples[s]) \in Nat
    BY <1>2
  <2>6. p \in Seq(S) /\ Len(p) = Len(samples[s])
    <3> HIDE DEF p, S
    <3> QED
      BY <2>3, <2>4, <2>5, InList
  <2> QED
    BY <2>1, <2>6
<1>4. parts \in Seq(Seq(S)) /\ Len(parts) = k
  <2>1. DOMAIN parts = 1..k /\ parts = [s \in 1..k |-> parts[s]]
    BY <1>1
  <2>2. \A s \in 1..k : parts[s] \in Seq(S)
    BY <1>3
  <2>3. DOMAIN parts = 1..k
    BY <2>1
  <2> HIDE DEF parts, k, S
  <2> DEFINE Q == Seq(S)
  <2>4. \A s \in 1..k : parts[s] \in Q
    BY <2>2
  <2> HIDE DEF Q
  <2>5. k \in Nat /\ parts = [s \in 1..k |-> parts[s]]
    BY <1>1, <2>1
  <2>6. parts \in Seq(Q) /\ Len(parts) = k
    BY <2>4, <2>5, InList
  <2> QED
    BY <2>6 DEF Q
<1>5. Numbered(samples) = FlattenSeq(parts)
  BY DEF Numbered
<1> HIDE DEF parts, S
<1>6. PICK h : Adds(h, parts, k) /\ \A i \in 0..k : h[i] \in Seq(S)
  BY <1>4, FlattenAdds
<1> HIDE DEF k
<1> DEFINE from == [s \in 0..k |-> Len(h[s])]
<1>7. \A s \in 0..k : from[s] = Len(h[s]) /\ from[s] \in Nat
  BY <1>6
<1> HIDE DEF from
<1>8. \A s \in 1..k : s - 1 \in 0..k /\ s \in 0..k
  BY <1>1
<1>9. ASSUME NEW s \in 1..k
      PROVE  from[s] = from[s - 1] + Len(samples[s]) /\ from[s - 1] \in Nat
  <2>1. h[s] = h[s - 1] \o parts[s]
    BY <1>6 DEF Adds
  <2>2. h[s - 1] \in Seq(S) /\ parts[s] \in Seq(S)
    BY <1>3, <1>6, <1>8
  <2>3. Len(h[s]) = Len(h[s - 1]) + Len(parts[s])
    BY <2>1, <2>2
  <2> QED
    BY <1>3, <1>7, <1>8, <2>3
<1> DEFINE T == {m \in 0..k : ~StandTo(h[m], samples, from, m)}
<1>10. ASSUME T # {} PROVE FALSE
  <2>1. T \subseteq Nat
    OBVIOUS
  <2>2. PICK m \in T : \A y \in T : m <= y
    BY <1>10, <2>1, Least
  <2>3. m # 0
    <3>1. h[0] = <<>>
      BY <1>6 DEF Adds
    <3>2. StandTo(<<>>, samples, from, 0)
      BY DEF StandTo
    <3> QED
      BY <2>2, <3>1, <3>2
  <2>4. m \in 1..k /\ m - 1 \in 0..k /\ ~(m <= m - 1) /\ m \in Nat \ {0}
    BY <1>1, <2>2, <2>3
  <2>5. StandTo(h[m - 1], samples, from, m - 1)
    BY <2>2, <2>4
  <2>6. h[m] = h[m - 1] \o parts[m] /\ h[m - 1] \in Seq(S) /\ parts[m] \in Seq(S)
    BY <1>3, <1>6, <1>8, <2>4 DEF Adds
  <2>7. \A s \in 1..m : from[s - 1] \in Nat /\ Len(samples[s]) \in Nat
    <3>1. \A s \in 1..m : s \in 1..k
      BY <1>1, <2>4
    <3> QED
      BY <1>2, <1>9, <3>1
  <2>8. from[m - 1] = Len(h[m - 1]) /\ Len(samples[m]) = Len(parts[m])
    BY <1>3, <1>7, <2>4
  <2>9. \A i \in 1..Len(samples[m]) : parts[m][i] = [sample |-> m, place |-> i, unit |-> samples[m][i]]
    BY <1>3, <2>4
  <2>10. StandTo(h[m - 1] \o parts[m], samples, from, m)
    BY <2>4, <2>5, <2>6, <2>7, <2>8, <2>9, StandFurther
  <2> QED
    BY <2>2, <2>6, <2>10
<1>11. StandTo(h[k], samples, from, k) /\ k \in 0..k /\ 0 \in 0..k
  <2>1. k \in 0..k /\ 0 \in 0..k
    BY <1>1
  <2> QED
    BY <1>10, <2>1
<1>12. Numbered(samples) = h[k]
  BY <1>5, <1>6 DEF Adds
<1>13. from[0] = 0 /\ Len(h[k]) = from[k]
  <2>1. h[0] = <<>> /\ Len(<<>>) = 0
    BY <1>6 DEF Adds
  <2> QED
    BY <1>7, <1>11, <2>1
<1>14. IsSequence(h[k])
  <2>1. h[k] \in Seq(S)
    BY <1>6, <1>11
  <2> QED
    BY <2>1 DEF IsSequence
<1>15. Stand(h[k], samples, from)
  BY <1>9, <1>11, <1>13 DEF Stand, StandTo, k
<1> QED
  BY <1>12, <1>14, <1>15

Bare(all, f, n) ==
    \E r \in 0..(n - 1) :
        /\ r = 0 \/ all[r].unit.type \in {"sps", "pps"}
        /\ \A m \in (r + 1)..(n - 1) : ~f[m]
(* What came before in a sample. *)
Seen(samples, s, u, types) == \E k \in 1..(u - 1) : samples[s][k].type \in types
Counts(samples) == Len(samples) \in Nat /\ \A s \in 1..Len(samples) : Len(samples[s]) \in Nat

LEMMA StandAt ==
    ASSUME NEW all, NEW samples, NEW from, Stand(all, samples, from),
           NEW s \in 1..Len(samples), NEW i \in 1..Len(samples[s])
    PROVE  LET n == from[s - 1] + i
           IN /\ from[s - 1] \in Nat /\ n \in 1..Len(all)
              /\ all[n].sample = s /\ all[n].place = i /\ all[n].unit = samples[s][i]
<1> DEFINE n == from[s - 1] + i
<1>1. from[s - 1] \in Nat /\ n \in 1..Len(all)
  BY DEF Stand
<1> DEFINE x == all[n]
<1>2. x = [sample |-> s, place |-> i, unit |-> samples[s][i]]
  BY DEF Stand
<1> HIDE DEF x
<1>3. x.sample = s /\ x.place = i /\ x.unit = samples[s][i]
  BY <1>2
<1> QED
  BY <1>1, <1>3 DEF x

LEMMA EarlierSeen ==
    ASSUME NEW all, NEW samples, NEW from, Stand(all, samples, from), Counts(samples),
           NEW s \in 1..Len(samples), NEW u \in 1..Len(samples[s]), NEW types, Len(all) \in Nat
    PROVE  EarlierInSample(all, from[s - 1] + u, types) <=> Seen(samples, s, u, types)
<1> DEFINE o == from[s - 1]
           n == o + u
<1>1. o \in Nat /\ n \in 1..Len(all) /\ all[n].sample = s /\ Len(samples[s]) \in Nat
  BY StandAt DEF Counts
<1>2. \A i \in 1..Len(samples[s]) : all[o + i].sample = s /\ all[o + i].unit = samples[s][i]
  BY StandAt
<1>3. ASSUME NEW m \in 1..(n - 1), all[m].sample = s PROVE \E k \in 1..(u - 1) : m = o + k
  <2>1. m \in 1..Len(all)
    BY <1>1
  <2>2. PICK z \in 1..Len(samples) : \E i \in 1..Len(samples[z]) : m = from[z - 1] + i
    BY <2>1 DEF Stand
  <2>3. PICK i \in 1..Len(samples[z]) : m = from[z - 1] + i
    BY <2>2
  <2>4. all[m].sample = z
    BY <2>3, StandAt
  <2>5. m = o + i /\ i \in 1..Len(samples[s])
    BY <1>3, <2>3, <2>4
  <2> HIDE DEF o
  <2>6. i \in 1..(u - 1)
    BY <1>1, <2>5
  <2> QED
    BY <2>5, <2>6
<1> HIDE DEF o
<1>4. ASSUME NEW k \in 1..(u - 1) PROVE o + k \in 1..(n - 1) /\ k \in 1..Len(samples[s])
  BY <1>1
<1> HIDE DEF n
<1>5. ASSUME EarlierInSample(all, n, types) PROVE Seen(samples, s, u, types)
  <2>1. PICK m \in 1..(n - 1) : all[m].sample = s /\ all[m].unit.type \in types
    BY <1>1, <1>5 DEF EarlierInSample
  <2>2. PICK k \in 1..(u - 1) : m = o + k
    BY <1>3, <2>1
  <2>3. all[m].unit = samples[s][k]
    BY <1>2, <1>4, <2>2
  <2> QED
    BY <2>1, <2>3 DEF Seen
<1>6. ASSUME Seen(samples, s, u, types) PROVE EarlierInSample(all, n, types)
  <2>1. PICK k \in 1..(u - 1) : samples[s][k].type \in types
    BY <1>6 DEF Seen
  <2>2. o + k \in 1..(n - 1) /\ all[o + k].sample = s /\ all[o + k].unit = samples[s][k]
    BY <1>2, <1>4
  <2> QED
    BY <1>1, <2>1, <2>2 DEF EarlierInSample
<1> QED
  BY <1>5, <1>6 DEF n, o

Decided(all, f) == \A n \in 1..Len(all) : f[n] = Due(all, f, n)

LEMMA NewIsBare ==
    ASSUME NEW all, NEW f, NEW n
    PROVE  NewAt(all, n, f) <=> all[n].unit.opens \/ Bare(all, f, n)
BY DEF NewAt, Bare

LEMMA BareAfterSets ==
    ASSUME NEW all, NEW samples, NEW from, Stand(all, samples, from), Counts(samples), Len(all) \in Nat,
           NEW s \in 1..Len(samples), NEW u \in 1..Len(samples[s]),
           NEW f, Decided(all, f), Seen(samples, s, u, {"sps", "pps"})
    PROVE  Bare(all, f, from[s - 1] + u)
<1> DEFINE o == from[s - 1]
           n == o + u
<1>1. o \in Nat /\ n \in 1..Len(all) /\ Len(samples[s]) \in Nat
  BY DEF Stand, Counts
<1>2. PICK k \in 1..(u - 1) : samples[s][k].type \in {"sps", "pps"}
  BY DEF Seen
<1>3. k \in 1..Len(samples[s]) /\ k \in Nat \ {0}
  BY <1>1
<1>4. all[o + k].unit.type \in {"sps", "pps"}
  BY <1>2, <1>3, StandAt
<1>5. ASSUME NEW m \in (o + k + 1)..(n - 1) PROVE ~f[m]
  <2> DEFINE j == m - o
  <2>1. j \in 1..Len(samples[s]) /\ m = o + j /\ k \in 1..(j - 1) /\ m \in 1..Len(all)
    <3> HIDE DEF o
    <3> QED
      BY <1>1, <1>3
  <2> HIDE DEF j
  <2>2. Seen(samples, s, j, {"sps", "pps"})
    BY <1>2, <2>1 DEF Seen
  <2>3. EarlierInSample(all, m, {"sps", "pps"})
    BY <2>1, <2>2, EarlierSeen
  <2> QED
    BY <2>1, <2>3 DEF Decided, Due
<1>6. o + k \in 0..(n - 1)
  <2> HIDE DEF o
  <2> QED
    BY <1>1, <1>3
<1> DEFINE r == o + k
<1>7. r \in 0..(n - 1) /\ all[r].unit.type \in {"sps", "pps"} /\ \A m \in (r + 1)..(n - 1) : ~f[m]
  BY <1>4, <1>5, <1>6
<1> HIDE DEF r, n
<1>8. Bare(all, f, n)
  BY <1>7 DEF Bare
<1> QED
  BY <1>8 DEF n

LEMMA BareNext ==
    ASSUME NEW all, NEW f, Decided(all, f), Len(all) \in Nat, NEW n \in 1..Len(all)
    PROVE  Bare(all, f, n + 1) <=> (all[n].unit.type \in {"sps", "pps"} \/ (Bare(all, f, n) /\ ~f[n]))
<1>1. n \in Nat \ {0} /\ (n + 1) - 1 = n
  OBVIOUS
<1>2. ASSUME Bare(all, f, n + 1), all[n].unit.type \notin {"sps", "pps"} PROVE Bare(all, f, n) /\ ~f[n]
  <2>1. PICK r \in 0..n : /\ r = 0 \/ all[r].unit.type \in {"sps", "pps"}
                          /\ \A m \in (r + 1)..n : ~f[m]
    BY <1>1, <1>2 DEF Bare
  <2>2. r # n
    BY <1>1, <1>2, <2>1
  <2>3. r \in 0..(n - 1) /\ n \in (r + 1)..n
    BY <2>2
  <2>4. \A m \in (r + 1)..(n - 1) : m \in (r + 1)..n
    BY <2>3
  <2> QED
    BY <2>1, <2>3, <2>4 DEF Bare
<1>3. ASSUME all[n].unit.type \in {"sps", "pps"} PROVE Bare(all, f, n + 1)
  <2>1. n \in 0..((n + 1) - 1) /\ \A m \in (n + 1)..((n + 1) - 1) : ~f[m]
    BY <1>1
  <2> QED
    BY <1>3, <2>1 DEF Bare
<1>4. ASSUME Bare(all, f, n), ~f[n] PROVE Bare(all, f, n + 1)
  <2>1. PICK r \in 0..(n - 1) : /\ r = 0 \/ all[r].unit.type \in {"sps", "pps"}
                                /\ \A m \in (r + 1)..(n - 1) : ~f[m]
    BY <1>4 DEF Bare
  <2>2. r \in 0..((n + 1) - 1) /\ \A m \in (r + 1)..((n + 1) - 1) : m \in (r + 1)..(n - 1) \/ m = n
    BY <1>1
  <2> QED
    BY <1>4, <2>1, <2>2 DEF Bare
<1> QED
  BY <1>2, <1>3, <1>4

(* An insertion is due, and the next unit is bare, as the writer has it. *)
LEMMA BareAfter ==
    ASSUME NEW all, NEW samples, NEW from, Stand(all, samples, from), Counts(samples), Len(all) \in Nat,
           NEW s \in 1..Len(samples), NEW u \in 1..Len(samples[s]), NEW f, Decided(all, f)
    PROVE  LET n == from[s - 1] + u
               e == samples[s][u]
               fresh == Bare(all, f, n) \/ e.type \in {"sps", "pps"} \/ (e.type = "refresh" /\ e.opens)
           IN /\ n \in 1..Len(all) /\ all[n].unit = e /\ all[n].place = u
              /\ f[n] <=> e.type = "refresh" /\ fresh /\ ~Seen(samples, s, u, {"sps", "pps"})
              /\ Bare(all, f, n + 1) <=> fresh /\ ~f[n]
<1> DEFINE n == from[s - 1] + u
           e == samples[s][u]
           fresh == Bare(all, f, n) \/ e.type \in {"sps", "pps"} \/ (e.type = "refresh" /\ e.opens)
<1>1. n \in 1..Len(all) /\ all[n].unit = e /\ all[n].place = u
  <2> HIDE DEF fresh
  <2>1. /\ from[s - 1] + u \in 1..Len(all)
        /\ all[from[s - 1] + u].place = u /\ all[from[s - 1] + u].unit = samples[s][u]
    BY StandAt
  <2> QED
    BY <2>1
<1>2. EarlierInSample(all, n, {"sps", "pps"}) <=> Seen(samples, s, u, {"sps", "pps"})
  BY EarlierSeen
<1>3. Seen(samples, s, u, {"sps", "pps"}) => Bare(all, f, n)
  BY BareAfterSets
<1> HIDE DEF n
<1>4. "refresh" \notin {"sps", "pps"}
  OBVIOUS
<1>5. f[n] <=> e.type = "refresh" /\ fresh /\ ~Seen(samples, s, u, {"sps", "pps"})
  <2>1. f[n] = (e.type = "refresh" /\ NewAt(all, n, f) /\ ~EarlierInSample(all, n, {"sps", "pps"}))
    BY <1>1 DEF Decided, Due
  <2>2. NewAt(all, n, f) <=> e.opens \/ Bare(all, f, n)
    BY <1>1, NewIsBare
  <2> QED
    BY <1>2, <1>4, <2>1, <2>2
<1>6. Bare(all, f, n + 1) <=> (e.type \in {"sps", "pps"} \/ (Bare(all, f, n) /\ ~f[n]))
  BY <1>1, BareNext
<1>7. Bare(all, f, n + 1) <=> fresh /\ ~f[n]
  BY <1>3, <1>4, <1>5, <1>6
<1> QED
  BY <1>1, <1>5, <1>7 DEF n

Fresh(all, f, n, e) ==
    Bare(all, f, n) \/ e.type \in {"sps", "pps"} \/ (e.type = "refresh" /\ e.opens)

(* Where the picture parameter sets stand alone: as the writer has it, unless the picture is of several slices. *)
LEMMA PicturesAlone ==
    ASSUME NEW all, NEW samples, NEW from, Stand(all, samples, from), Counts(samples), Len(all) \in Nat,
           NEW s \in 1..Len(samples), NEW u \in 1..Len(samples[s]), NEW f,
           DOMAIN samples = 1..Len(samples), DOMAIN samples[s] = 1..Len(samples[s])
    PROVE  LET n == from[s - 1] + u
               e == samples[s][u]
               due == /\ e.type = "refresh" /\ Fresh(all, f, n, e)
                      /\ Seen(samples, s, u, {"sps"}) /\ ~Seen(samples, s, u, {"pps"})
           IN /\ PicturesAloneAt(all, f, n) => due
              /\ due /\ ~SlicedAfterItsSequenceSet(samples) => PicturesAloneAt(all, f, n)
<1> DEFINE n == from[s - 1] + u
           e == samples[s][u]
           due == /\ e.type = "refresh" /\ Fresh(all, f, n, e)
                  /\ Seen(samples, s, u, {"sps"}) /\ ~Seen(samples, s, u, {"pps"})
           first == \A m \in 1..(n - 1) :
                      all[m].sample = all[n].sample /\ all[m].unit.type = "refresh"
                        => ~EarlierInSample(all, m, {"sps"})
<1>1. n \in 1..Len(all) /\ all[n].unit = e /\ all[n].sample = s
  <2>1. /\ from[s - 1] + u \in 1..Len(all)
        /\ all[from[s - 1] + u].sample = s /\ all[from[s - 1] + u].unit = samples[s][u]
    BY StandAt
  <2> QED
    BY <2>1
<1>2. /\ EarlierInSample(all, n, {"sps"}) <=> Seen(samples, s, u, {"sps"})
      /\ EarlierInSample(all, n, {"pps"}) <=> Seen(samples, s, u, {"pps"})
  BY EarlierSeen
<1>3. "refresh" \notin {"sps", "pps"}
  OBVIOUS
<1>4. PicturesAloneAt(all, f, n) <=> due /\ first
  <2>1. NewAt(all, n, f) <=> e.opens \/ Bare(all, f, n)
    BY <1>1, NewIsBare
  <2> DEFINE new == NewAt(all, n, f)
             sps == EarlierInSample(all, n, {"sps"})
             pps == EarlierInSample(all, n, {"pps"})
  <2>2. PicturesAloneAt(all, f, n) <=> all[n].unit.type = "refresh" /\ new /\ sps /\ ~pps /\ first
    BY DEF PicturesAloneAt
  <2> HIDE DEF n, first
  <2> QED
    BY <1>1, <1>2, <1>3, <2>1, <2>2 DEF Fresh
<1>5. ASSUME due, ~SlicedAfterItsSequenceSet(samples) PROVE first
  <2> SUFFICES ASSUME NEW m \in 1..(n - 1), all[m].sample = s, all[m].unit.type = "refresh",
                      EarlierInSample(all, m, {"sps"})
               PROVE  FALSE
    BY <1>1
  <2>1. m \in 1..Len(all)
    <3> HIDE DEF n
    <3> QED
      BY <1>1
  <2>2. PICK z \in 1..Len(samples) : \E i \in 1..Len(samples[z]) : m = from[z - 1] + i
    BY <2>1 DEF Stand
  <2>3. PICK i \in 1..Len(samples[z]) : m = from[z - 1] + i
    BY <2>2
  <2>4. all[m].sample = z /\ all[m].unit = samples[z][i]
    <3>1. /\ all[from[z - 1] + i].sample = z
          /\ all[from[z - 1] + i].unit = samples[z][i]
      BY StandAt
    <3> QED
      BY <2>3, <3>1
  <2>5. z = s /\ samples[s][i].type = "refresh" /\ i \in DOMAIN samples[s] /\ u \in DOMAIN samples[s]
    BY <2>4
  <2>6. Seen(samples, s, i, {"sps"})
    <3>1. EarlierInSample(all, from[z - 1] + i, {"sps"}) <=> Seen(samples, z, i, {"sps"})
      BY EarlierSeen
    <3> QED
      BY <2>3, <2>5, <3>1
  <2>7. i < u
    <3> DEFINE o == from[s - 1]
    <3>0. o \in Nat
      BY DEF Stand
    <3>1. m = o + i /\ m \in 1..((o + u) - 1) /\ i \in Nat /\ u \in Nat
      BY <2>3, <2>5
    <3> HIDE DEF o
    <3> QED
      BY <3>0, <3>1
  <2>8. /\ samples[s][u].type = "refresh"
        /\ \E k \in 1..(i - 1) : samples[s][k].type = "sps"
        /\ \A k \in 1..(u - 1) : samples[s][k].type # "pps"
    BY <1>5, <2>6 DEF Seen
  <2> QED
    BY <1>5, <2>5, <2>7, <2>8 DEF SlicedAfterItsSequenceSet
<1> QED
  BY <1>4, <1>5

-----------------------------------------------------------------------------
(* What the writer writes of a unit. *)

WriterFields == {"out", "insertions", "newRefresh", "spsSeen", "ppsSeen", "begun"}
WrittenSets(w, e, c) ==
    IF ~w.newRefresh \/ e.type # "refresh" \/ w.ppsSeen THEN <<>>
    ELSE IF w.spsSeen THEN c.picture ELSE c.sequence \o c.picture

LEMMA Regrouped ==
    ASSUME NEW a, NEW b, NEW d, IsSequence(a), IsSequence(b), IsSequence(d)
    PROVE  (a \o b) \o d = a \o (b \o d)
<1> DEFINE A == {a[i] : i \in DOMAIN a}
           B == {b[i] : i \in DOMAIN b}
           D == {d[i] : i \in DOMAIN d}
           S == A \cup B \cup D
<1>1. a \in Seq(A) /\ b \in Seq(B) /\ d \in Seq(D)
  BY DEF IsSequence
<1>2. A \subseteq S /\ B \subseteq S /\ D \subseteq S
  OBVIOUS
<1> HIDE DEF A, B, D, S
<1>3. Seq(A) \subseteq Seq(S) /\ Seq(B) \subseteq Seq(S) /\ Seq(D) \subseteq Seq(S)
  BY <1>2
<1>4. a \in Seq(S) /\ b \in Seq(S) /\ d \in Seq(S)
  BY <1>1, <1>3
<1> QED
  BY <1>4, ConcatAssociative

LEMMA CodedList ==
    ASSUME NEW a, IsSequence(a)
    PROVE  IsSequence(CodedSets(a)) /\ Len(CodedSets(a)) = Len(a)
<1> DEFINE n == Len(a)
           t == CodedSets(a)
<1>1. n \in Nat /\ DOMAIN a = 1..n
  BY SequencePlaces
<1>2. DOMAIN t = 1..n /\ t = [i \in 1..n |-> t[i]]
  BY <1>1 DEF CodedSets
<1> HIDE DEF n, t
<1> QED
  BY <1>1, <1>2, ListedFrom DEF n, t

LEMMA CodedBoth ==
    ASSUME NEW a, NEW b, IsSequence(a), IsSequence(b)
    PROVE  CodedSets(a) \o CodedSets(b) = CodedSets(a \o b) /\ IsSequence(a \o b)
<1> DEFINE c == a \o b
           x == CodedSets(a)
           y == CodedSets(b)
           z == CodedSets(c)
           t == x \o y
<1>1. IsSequence(c) /\ Joins(c, a, b)
  BY Chained
<1>2. /\ DOMAIN a = 1..Len(a) /\ DOMAIN b = 1..Len(b) /\ DOMAIN c = 1..Len(c)
      /\ Len(a) \in Nat /\ Len(b) \in Nat /\ Len(c) \in Nat
  BY <1>1, SequencePlaces
<1> HIDE DEF c
<1>3. /\ IsSequence(x) /\ IsSequence(y) /\ IsSequence(z)
      /\ Len(x) = Len(a) /\ Len(y) = Len(b) /\ Len(z) = Len(c)
  BY <1>1, CodedList
<1>4. IsSequence(t) /\ Joins(t, x, y)
  BY <1>3, Chained
<1>5. /\ \A i \in 1..Len(a) : x[i] = Coded(a[i], TRUE)
      /\ \A i \in 1..Len(b) : y[i] = Coded(b[i], TRUE)
      /\ \A i \in 1..Len(c) : z[i] = Coded(c[i], TRUE)
  BY <1>2 DEF CodedSets
<1> HIDE DEF x, y, z, t
<1>6. Len(t) = Len(z) /\ DOMAIN t = 1..Len(t) /\ DOMAIN z = 1..Len(z)
  BY <1>1, <1>3, <1>4, SequencePlaces DEF Joins
<1>7. ASSUME NEW i \in 1..Len(z) PROVE t[i] = z[i]
  <2>1. CASE i \in 1..Len(a)
    BY <1>1, <1>3, <1>4, <1>5, <2>1 DEF Joins
  <2>2. CASE i \notin 1..Len(a)
    <3>1. PICK k \in 1..Len(b) : i = Len(a) + k
      BY <1>1, <1>3, <2>2 DEF Joins
    <3>2. t[i] = y[k]
      BY <1>3, <1>4, <3>1 DEF Joins
    <3>3. c[i] = b[k]
      BY <1>1, <3>1 DEF Joins
    <3>4. z[i] = Coded(c[i], TRUE)
      BY <1>3, <1>5
    <3> QED
      BY <1>5, <3>1, <3>2, <3>3, <3>4
  <2> QED
    BY <2>1, <2>2
<1>8. t = z
  <2>1. t = [i \in DOMAIN t |-> t[i]] /\ z = [i \in DOMAIN z |-> z[i]]
    BY <1>3, <1>4 DEF IsSequence
  <2> QED
    BY <1>6, <1>7, <2>1
<1> QED
  BY <1>1, <1>8 DEF c, x, y, z, t

IsWriter(w) == DOMAIN w = WriterFields /\ w.begun \in BOOLEAN /\ IsSequence(w.out)

LEMMA SetsWritten ==
    ASSUME NEW w, IsWriter(w), NEW list, IsSequence(list)
    PROVE  LET v == ParameterSets(w, list)
           IN /\ IsWriter(v) /\ v.out = w.out \o CodedSets(list) /\ v.begun = (w.begun \/ list # <<>>)
              /\ v.newRefresh = w.newRefresh /\ v.spsSeen = w.spsSeen /\ v.ppsSeen = w.ppsSeen
<1> DEFINE v == ParameterSets(w, list)
<1>1. DOMAIN w = WriterFields /\ w.begun \in BOOLEAN /\ IsSequence(w.out)
  BY DEF IsWriter
<1>2. /\ DOMAIN v = WriterFields /\ v.out = w.out \o CodedSets(list) /\ v.begun = (w.begun \/ list # <<>>)
      /\ v.newRefresh = w.newRefresh /\ v.spsSeen = w.spsSeen /\ v.ppsSeen = w.ppsSeen
  BY <1>1 DEF ParameterSets, WriterFields
<1> HIDE DEF v
<1>3. IsSequence(v.out)
  <2>1. IsSequence(CodedSets(list))
    BY CodedList
  <2>2. IsSequence(w.out \o CodedSets(list))
    BY <1>1, <2>1, Chained
  <2> QED
    BY <1>2, <2>2
<1>4. v.begun \in BOOLEAN
  BY <1>2
<1> QED
  BY <1>2, <1>3, <1>4 DEF IsWriter, v

LEMMA InsertedSets ==
    ASSUME NEW w, IsWriter(w), NEW e, NEW c, IsSequence(c.sequence), IsSequence(c.picture)
    PROVE  LET v == Inserted(w, e, c)
               list == WrittenSets(w, e, c)
           IN /\ IsWriter(v) /\ IsSequence(list)
              /\ v.out = w.out \o CodedSets(list) /\ (v.begun <=> w.begun \/ list # <<>>)
              /\ v.newRefresh <=> w.newRefresh /\ ~(e.type = "refresh" /\ ~w.ppsSeen /\ ~w.spsSeen)
              /\ v.spsSeen = w.spsSeen /\ v.ppsSeen = w.ppsSeen
<1> DEFINE v == Inserted(w, e, c)
           list == WrittenSets(w, e, c)
<1>1. DOMAIN w = WriterFields /\ w.begun \in BOOLEAN /\ IsSequence(w.out)
  BY DEF IsWriter
<1>2. CASE ~w.newRefresh \/ e.type # "refresh" \/ w.ppsSeen
  <2>1. v = w /\ list = <<>>
    BY <1>2 DEF Inserted, WrittenSets
  <2>2. IsSequence(<<>>) /\ CodedSets(<<>>) = <<>>
    BY DEF IsSequence, CodedSets
  <2>3. w.out \o <<>> = w.out
    BY <1>1 DEF IsSequence
  <2> HIDE DEF v, list
  <2> QED
    BY <1>2, <2>1, <2>2, <2>3 DEF v, list
<1>3. CASE ~(~w.newRefresh \/ e.type # "refresh" \/ w.ppsSeen) /\ w.spsSeen
  <2>1. v = ParameterSets(w, list) /\ list = c.picture
    BY <1>3 DEF Inserted, WrittenSets
  <2> HIDE DEF v, list
  <2>3. IsSequence(list)
    BY <2>1
  <2> DEFINE x == ParameterSets(w, list)
  <2>4. /\ IsWriter(x) /\ x.out = w.out \o CodedSets(list) /\ x.begun = (w.begun \/ list # <<>>)
        /\ x.newRefresh = w.newRefresh /\ x.spsSeen = w.spsSeen /\ x.ppsSeen = w.ppsSeen
    BY <2>3, SetsWritten
  <2>2. /\ IsWriter(v) /\ v.out = w.out \o CodedSets(list) /\ v.begun = (w.begun \/ list # <<>>)
        /\ v.newRefresh = w.newRefresh /\ v.spsSeen = w.spsSeen /\ v.ppsSeen = w.ppsSeen
    <3> HIDE DEF x
    <3>1. v = x
      BY <2>1 DEF x
    <3> QED
      BY <2>4, <3>1
  <2> QED
    BY <1>3, <2>1, <2>2 DEF v, list
<1>4. CASE ~(~w.newRefresh \/ e.type # "refresh" \/ w.ppsSeen) /\ ~w.spsSeen
  <2> DEFINE x == ParameterSets(w, c.sequence)
             y == ParameterSets(x, c.picture)
  <2>1. v = [y EXCEPT !.insertions = @ + 1, !.newRefresh = FALSE] /\ list = c.sequence \o c.picture
    BY <1>4 DEF Inserted, WrittenSets
  <2>2. /\ IsWriter(x) /\ x.out = w.out \o CodedSets(c.sequence) /\ x.begun = (w.begun \/ c.sequence # <<>>)
        /\ x.newRefresh = w.newRefresh /\ x.spsSeen = w.spsSeen /\ x.ppsSeen = w.ppsSeen
    BY SetsWritten
  <2> HIDE DEF x
  <2>3. /\ IsWriter(y) /\ y.out = x.out \o CodedSets(c.picture) /\ y.begun = (x.begun \/ c.picture # <<>>)
        /\ y.newRefresh = x.newRefresh /\ y.spsSeen = x.spsSeen /\ y.ppsSeen = x.ppsSeen
    BY <2>2, SetsWritten
  <2> HIDE DEF y
  <2>4. DOMAIN y = WriterFields
    BY <2>3 DEF IsWriter
  <2> HIDE DEF list
  <2>5. /\ DOMAIN v = WriterFields /\ v.out = y.out /\ v.begun = y.begun /\ v.newRefresh = FALSE
        /\ v.spsSeen = y.spsSeen /\ v.ppsSeen = y.ppsSeen
    <3> HIDE DEF v
    <3> QED
      BY <2>1, <2>4 DEF WriterFields
  <2> HIDE DEF v
  <2>6. IsSequence(list) /\ CodedSets(c.sequence) \o CodedSets(c.picture) = CodedSets(list)
    BY <2>1, CodedBoth
  <2>7. v.out = w.out \o CodedSets(list)
    <3>1. IsSequence(CodedSets(c.sequence)) /\ IsSequence(CodedSets(c.picture))
      BY CodedList
    <3> DEFINE o == w.out
               p == CodedSets(c.sequence)
               q == CodedSets(c.picture)
    <3>2. IsSequence(o) /\ IsSequence(p) /\ IsSequence(q)
      BY <1>1, <3>1
    <3>3. v.out = (o \o p) \o q /\ p \o q = CodedSets(list)
      BY <2>2, <2>3, <2>5, <2>6
    <3> HIDE DEF o, p, q
    <3>4. (o \o p) \o q = o \o (p \o q)
      BY <3>2, Regrouped
    <3>5. v.out = o \o CodedSets(list)
      BY <3>3, <3>4
    <3> QED
      BY <3>5 DEF o
  <2>8. list # <<>> <=> (c.sequence # <<>> \/ c.picture # <<>>)
    <3>1. Joins(list, c.sequence, c.picture)
      BY <2>1, Chained
    <3>2. \A q : IsSequence(q) => (q # <<>> <=> Len(q) # 0) /\ Len(q) \in Nat
      BY DEF IsSequence
    <3>3. Len(list) = Len(c.sequence) + Len(c.picture) /\ Len(c.sequence) \in Nat /\ Len(c.picture) \in Nat
      BY <3>1, <3>2 DEF Joins
    <3> DEFINE l == Len(list)
               p == Len(c.sequence)
               q == Len(c.picture)
    <3>5. l = p + q /\ p \in Nat /\ q \in Nat
      BY <3>3
    <3> HIDE DEF l, p, q
    <3>6. l # 0 <=> (p # 0 \/ q # 0)
      BY <3>5
    <3>4. Len(list) # 0 <=> (Len(c.sequence) # 0 \/ Len(c.picture) # 0)
      BY <3>6 DEF l, p, q
    <3> QED
      BY <2>6, <3>2, <3>4
  <2>9. v.begun <=> w.begun \/ list # <<>>
    BY <2>2, <2>3, <2>5, <2>8
  <2>10. v.begun \in BOOLEAN /\ IsSequence(v.out)
    BY <2>3, <2>5 DEF IsWriter
  <2>11. IsWriter(v)
    BY <2>5, <2>10 DEF IsWriter
  <2>12. v.newRefresh <=> w.newRefresh /\ ~(e.type = "refresh" /\ ~w.ppsSeen /\ ~w.spsSeen)
    BY <1>4, <2>5
  <2>13. v.spsSeen = w.spsSeen /\ v.ppsSeen = w.ppsSeen
    BY <2>2, <2>3, <2>5
  <2> QED
    BY <2>6, <2>7, <2>9, <2>11, <2>12, <2>13 DEF v, list
<1> QED
  BY <1>2, <1>3, <1>4

SetsAt(all, f, c, n) ==
    IF f[n] THEN c.sequence \o c.picture ELSE IF PicturesAloneAt(all, f, n) THEN c.picture ELSE <<>>
PieceAt(all, f, c, n) ==
    CodedSets(SetsAt(all, f, c, n)) \o <<Coded(all[n].unit, all[n].place = 1 /\ SetsAt(all, f, c, n) = <<>>)>>

(* The rule, unit by unit: what it has written after each. *)
Ruled(samples, c, all, f, from, g) ==
    /\ IsSequence(samples) /\ \A s \in DOMAIN samples : IsSequence(samples[s])
    /\ IsSequence(c.sequence) /\ IsSequence(c.picture)
    /\ all = Numbered(samples) /\ f = InsertionsAt(all)
    /\ IsSequence(all) /\ Stand(all, samples, from) /\ Decided(all, f)
    /\ g[0] = <<>> /\ RuleStream(samples, c) = g[Len(all)]
    /\ \A n \in 1..Len(all) : g[n] = g[n - 1] \o PieceAt(all, f, c, n)
    /\ \A n \in 0..Len(all) : IsSequence(g[n])

LEMMA OfItsOwn ==
    ASSUME NEW S, NEW s \in Seq(S)
    PROVE  IsSequence(s)
BY DEF IsSequence

LEMMA RuledCounts ==
    ASSUME NEW samples, NEW c, NEW all, NEW f, NEW from, NEW g, Ruled(samples, c, all, f, from, g)
    PROVE  /\ Counts(samples) /\ Len(all) \in Nat /\ DOMAIN samples = 1..Len(samples)
           /\ \A s \in 1..Len(samples) : DOMAIN samples[s] = 1..Len(samples[s])
<1>1. Len(samples) \in Nat /\ DOMAIN samples = 1..Len(samples) /\ Len(all) \in Nat
  BY SequencePlaces DEF Ruled
<1>2. \A s \in 1..Len(samples) : Len(samples[s]) \in Nat /\ DOMAIN samples[s] = 1..Len(samples[s])
  BY <1>1, SequencePlaces DEF Ruled
<1> QED
  BY <1>1, <1>2 DEF Counts

LEMMA SetsListed ==
    ASSUME NEW all, NEW f, NEW c, NEW n, IsSequence(c.sequence), IsSequence(c.picture)
    PROVE  IsSequence(SetsAt(all, f, c, n)) /\ IsSequence(PieceAt(all, f, c, n))
<1> DEFINE list == SetsAt(all, f, c, n)
           e == Coded(all[n].unit, all[n].place = 1 /\ list = <<>>)
<1>1. IsSequence(c.sequence \o c.picture) /\ IsSequence(<<>>)
  <2>1. IsSequence(<<>>)
    BY DEF IsSequence
  <2> DEFINE a == c.sequence
             b == c.picture
  <2>2. IsSequence(a) /\ IsSequence(b)
    OBVIOUS
  <2> HIDE DEF a, b
  <2>3. IsSequence(a \o b)
    BY <2>2, Chained
  <2> QED
    BY <2>1, <2>3 DEF a, b
<1>2. IsSequence(list)
  BY <1>1 DEF SetsAt
<1>3. PieceAt(all, f, c, n) = CodedSets(list) \o <<e>>
  BY DEF PieceAt
<1> HIDE DEF list, e
<1>4. IsSequence(CodedSets(list)) /\ IsSequence(<<e>>)
  BY <1>2, CodedList, Alone
<1>5. IsSequence(CodedSets(list) \o <<e>>)
  BY <1>4, Chained
<1> QED
  BY <1>2, <1>3, <1>5 DEF list

LEMMA RuleGiven ==
    ASSUME NEW samples, IsSequence(samples), \A s \in DOMAIN samples : IsSequence(samples[s]),
           NEW c, IsSequence(c.sequence), IsSequence(c.picture)
    PROVE  \E from, g : Ruled(samples, c, Numbered(samples), InsertionsAt(Numbered(samples)), from, g)
<1> DEFINE U == UNION {{samples[s][i] : i \in DOMAIN samples[s]} : s \in DOMAIN samples}
           all == Numbered(samples)
           f == InsertionsAt(all)
           m == Len(all)
<1>1. samples \in Seq(Seq(U))
  <2>1. Len(samples) \in Nat /\ DOMAIN samples = 1..Len(samples) /\ samples = [s \in 1..Len(samples) |-> samples[s]]
    BY SequencePlaces DEF IsSequence
  <2>2. ASSUME NEW s \in DOMAIN samples PROVE samples[s] \in Seq(U)
    <3> DEFINE A == {samples[s][i] : i \in DOMAIN samples[s]}
    <3>1. samples[s] \in Seq(A)
      BY DEF IsSequence
    <3>2. A \subseteq U
      OBVIOUS
    <3> HIDE DEF A, U
    <3>3. Seq(A) \subseteq Seq(U)
      BY <3>2
    <3> QED
      BY <3>1, <3>3
  <2> HIDE DEF U
  <2> DEFINE Q == Seq(U)
  <2>3. \A s \in 1..Len(samples) : samples[s] \in Q
    BY <2>1, <2>2
  <2> HIDE DEF Q
  <2>4. samples \in Seq(Q)
    BY <2>1, <2>3, InList
  <2> QED
    BY <2>4 DEF Q
<1>2. PICK from : Stand(all, samples, from) /\ IsSequence(all)
  BY <1>1, NumberedStand
<1> HIDE DEF U, all
<1>3. m \in Nat /\ DOMAIN all = 1..m
  BY <1>2, SequencePlaces
<1>4. Decided(all, f)
  <2>1. InsertsInTurn(f, all, Len(all))
    BY <1>3, InsertionsInTurn
  <2> HIDE DEF f
  <2> QED
    BY <2>1 DEF InsertsInTurn, Decided
<1> HIDE DEF f
<1> DEFINE Piece(n) == PieceAt(all, f, c, n)
           pieces == [n \in 1..m |-> Piece(n)]
           S == UNION {{Piece(n)[i] : i \in DOMAIN Piece(n)} : n \in 1..m}
<1>5. ASSUME NEW n \in 1..m PROVE Piece(n) \in Seq(S)
  <2> DEFINE A == {Piece(n)[i] : i \in DOMAIN Piece(n)}
  <2>1. Piece(n) \in Seq(A)
    <3>1. IsSequence(Piece(n))
      BY SetsListed
    <3> HIDE DEF Piece
    <3> QED
      BY <3>1 DEF IsSequence
  <2>2. A \subseteq S
    OBVIOUS
  <2> HIDE DEF A, S, Piece
  <2>3. Seq(A) \subseteq Seq(S)
    BY <2>2
  <2> QED
    BY <2>1, <2>3
<1>6. RuleStream(samples, c) = FlattenSeq(pieces)
  BY <1>3 DEF RuleStream, all, f, PieceAt, SetsAt
<1> HIDE DEF S, Piece
<1>7. pieces \in Seq(Seq(S)) /\ Len(pieces) = m
  <2>1. pieces = [n \in 1..m |-> pieces[n]] /\ \A n \in 1..m : pieces[n] = Piece(n)
    OBVIOUS
  <2> DEFINE Q == Seq(S)
  <2>2. \A n \in 1..m : pieces[n] \in Q
    BY <1>5, <2>1
  <2> HIDE DEF Q, pieces, m
  <2>3. pieces \in Seq(Q) /\ Len(pieces) = m
    BY <1>3, <2>1, <2>2, InList
  <2> QED
    BY <2>3 DEF Q
<1>8. \A n \in 1..m : pieces[n] = Piece(n)
  OBVIOUS
<1> HIDE DEF pieces, m
<1>9. PICK g : Adds(g, pieces, m) /\ \A n \in 0..m : g[n] \in Seq(S)
  BY <1>7, FlattenAdds
<1>10. /\ g[0] = <<>> /\ RuleStream(samples, c) = g[m]
       /\ \A n \in 1..m : g[n] = g[n - 1] \o Piece(n)
       /\ \A n \in 0..m : IsSequence(g[n])
  <2>1. g[0] = <<>> /\ FlattenSeq(pieces) = g[m]
    BY <1>9 DEF Adds
  <2>2. \A n \in 1..m : g[n] = g[n - 1] \o Piece(n)
    BY <1>8, <1>9 DEF Adds
  <2>3. ASSUME NEW n \in 0..m PROVE IsSequence(g[n])
    <3>1. g[n] \in Seq(S)
      BY <1>9
    <3> QED
      BY <3>1, OfItsOwn
  <2> QED
    BY <1>6, <2>1, <2>2, <2>3
<1>11. Ruled(samples, c, all, f, from, g)
  BY <1>2, <1>4, <1>10 DEF Ruled, all, f, m, Piece
<1> QED
  BY <1>11 DEF all, f

(* The writer before a unit of a sample: what it has written, and what it knows. *)
WrittenTo(samples, all, f, from, g, s, u, w) ==
    LET n == from[s - 1] + (u - 1)
    IN /\ IsWriter(w)
       /\ w.newRefresh <=> Bare(all, f, n + 1)
       /\ u # 1 => /\ w.begun
                   /\ w.spsSeen <=> Seen(samples, s, u, {"sps"})
                   /\ w.ppsSeen <=> Seen(samples, s, u, {"pps"})
       /\ Len(w.out) >= Len(g[n])
       /\ ~SlicedAfterItsSequenceSet(samples) => w.out = g[n]

OpenedAt(w, u) == IF u = 1 THEN OpenAccessUnit(w) ELSE w

LEMMA Opens ==
    ASSUME NEW samples, NEW all, NEW f, NEW from, NEW g, NEW s, NEW u \in Nat \ {0}, NEW w,
           WrittenTo(samples, all, f, from, g, s, u, w)
    PROVE  LET x == OpenedAt(w, u)
           IN /\ IsWriter(x) /\ x.out = w.out /\ x.newRefresh = w.newRefresh
              /\ x.begun <=> u # 1
              /\ x.spsSeen <=> Seen(samples, s, u, {"sps"})
              /\ x.ppsSeen <=> Seen(samples, s, u, {"pps"})
<1> DEFINE x == OpenedAt(w, u)
<1>1. DOMAIN w = WriterFields /\ w.begun \in BOOLEAN /\ IsSequence(w.out)
  BY DEF WrittenTo, IsWriter
<1>2. CASE u = 1
  <2>1. /\ DOMAIN x = WriterFields /\ x.out = w.out /\ x.newRefresh = w.newRefresh
        /\ x.begun = FALSE /\ x.spsSeen = FALSE /\ x.ppsSeen = FALSE
    BY <1>1, <1>2 DEF OpenedAt, OpenAccessUnit, WriterFields
  <2> HIDE DEF x
  <2>2. \A types : ~Seen(samples, s, u, types)
    BY <1>2 DEF Seen
  <2> QED
    BY <1>1, <1>2, <2>1, <2>2 DEF IsWriter, x
<1>3. CASE u # 1
  <2>1. x = w
    BY <1>3 DEF OpenedAt
  <2> HIDE DEF x
  <2> QED
    BY <1>3, <2>1 DEF WrittenTo, x
<1> QED
  BY <1>2, <1>3

LEMMA SeenNext ==
    ASSUME NEW samples, NEW s, NEW u \in Nat \ {0}, NEW types
    PROVE  Seen(samples, s, u + 1, types) <=> (Seen(samples, s, u, types) \/ samples[s][u].type \in types)
<1>1. \A k : k \in 1..((u + 1) - 1) <=> k \in 1..(u - 1) \/ k = u
  OBVIOUS
<1> QED
  BY <1>1 DEF Seen

(* What a unit tells of itself, then what is written of it. *)
LEMMA Notes ==
    ASSUME NEW samples, NEW all, NEW f, NEW from, NEW g, NEW s, NEW u \in Nat \ {0}, NEW w,
           WrittenTo(samples, all, f, from, g, s, u, w), from[s - 1] \in Nat
    PROVE  LET e == samples[s][u]
               x == Noted(OpenedAt(w, u), e)
           IN /\ IsWriter(x) /\ x.out = w.out /\ (x.begun <=> u # 1)
              /\ x.newRefresh <=> Fresh(all, f, from[s - 1] + u, e)
              /\ x.spsSeen <=> Seen(samples, s, u + 1, {"sps"})
              /\ x.ppsSeen <=> Seen(samples, s, u + 1, {"pps"})
              /\ e.type = "refresh" => /\ x.spsSeen <=> Seen(samples, s, u, {"sps"})
                                       /\ x.ppsSeen <=> Seen(samples, s, u, {"pps"})
<1> DEFINE e == samples[s][u]
           v == OpenedAt(w, u)
           x == Noted(v, e)
           n == from[s - 1] + u
<1>1. /\ IsWriter(v) /\ v.out = w.out /\ v.newRefresh = w.newRefresh
      /\ v.begun <=> u # 1
      /\ v.spsSeen <=> Seen(samples, s, u, {"sps"})
      /\ v.ppsSeen <=> Seen(samples, s, u, {"pps"})
  BY Opens
<1>2. w.newRefresh <=> Bare(all, f, n)
  <2>1. (from[s - 1] + (u - 1)) + 1 = n
    OBVIOUS
  <2>2. w.newRefresh <=> Bare(all, f, (from[s - 1] + (u - 1)) + 1)
    BY DEF WrittenTo
  <2> HIDE DEF n
  <2> QED
    BY <2>1, <2>2
<1> HIDE DEF v, n
<1>3. DOMAIN v = WriterFields /\ v.begun \in BOOLEAN /\ IsSequence(v.out)
  BY <1>1 DEF IsWriter
<1>4. /\ DOMAIN x = WriterFields /\ x.out = v.out /\ x.begun = v.begun
      /\ x.spsSeen = (v.spsSeen \/ e.type = "sps")
      /\ x.ppsSeen = (v.ppsSeen \/ e.type = "pps")
      /\ x.newRefresh = (v.newRefresh \/ e.type \in {"sps", "pps"} \/ (e.type = "refresh" /\ e.opens))
  <2> HIDE DEF e
  <2> QED
    BY <1>3 DEF Noted, WriterFields
<1> HIDE DEF x
<1>5. /\ Seen(samples, s, u + 1, {"sps"}) <=> (Seen(samples, s, u, {"sps"}) \/ e.type \in {"sps"})
      /\ Seen(samples, s, u + 1, {"pps"}) <=> (Seen(samples, s, u, {"pps"}) \/ e.type \in {"pps"})
  BY SeenNext
<1> HIDE DEF e
<1>6. IsWriter(x)
  BY <1>3, <1>4 DEF IsWriter
<1>7. x.newRefresh <=> Fresh(all, f, n, e)
  BY <1>1, <1>2, <1>4 DEF Fresh
<1>8. "refresh" # "sps" /\ "refresh" # "pps"
  OBVIOUS
<1>9. /\ x.spsSeen <=> Seen(samples, s, u + 1, {"sps"})
      /\ x.ppsSeen <=> Seen(samples, s, u + 1, {"pps"})
      /\ e.type = "refresh" => /\ x.spsSeen <=> Seen(samples, s, u, {"sps"})
                               /\ x.ppsSeen <=> Seen(samples, s, u, {"pps"})
  BY <1>1, <1>4, <1>5, <1>8
<1> QED
  BY <1>1, <1>4, <1>6, <1>7, <1>9 DEF e, v, x, n

(* The sets the writer puts before a unit are those of the rule, or the rule has none. *)
LEMMA SameSets ==
    ASSUME NEW samples, NEW c, NEW all, NEW f, NEW from, NEW g, Ruled(samples, c, all, f, from, g),
           NEW s \in 1..Len(samples), NEW u \in 1..Len(samples[s]), NEW w,
           WrittenTo(samples, all, f, from, g, s, u, w)
    PROVE  LET e == samples[s][u]
               list == WrittenSets(Noted(OpenedAt(w, u), e), e, c)
               rule == SetsAt(all, f, c, from[s - 1] + u)
           IN /\ list = rule \/ rule = <<>>
              /\ ~SlicedAfterItsSequenceSet(samples) => list = rule
<1> DEFINE e == samples[s][u]
           x == Noted(OpenedAt(w, u), e)
           n == from[s - 1] + u
           list == WrittenSets(x, e, c)
           rule == SetsAt(all, f, c, n)
           sps == Seen(samples, s, u, {"sps"})
           pps == Seen(samples, s, u, {"pps"})
           fresh == Fresh(all, f, n, e)
           sliced == SlicedAfterItsSequenceSet(samples)
<1>1. /\ Counts(samples) /\ Len(all) \in Nat /\ DOMAIN samples = 1..Len(samples)
      /\ DOMAIN samples[s] = 1..Len(samples[s])
  BY RuledCounts
<1>2. Stand(all, samples, from) /\ Decided(all, f) /\ u \in Nat \ {0} /\ from[s - 1] \in Nat
  <2>1. Stand(all, samples, from) /\ Decided(all, f)
    BY DEF Ruled
  <2>2. u \in Nat \ {0}
    OBVIOUS
  <2>3. from[s - 1] \in Nat
    BY <2>1 DEF Stand
  <2> QED
    BY <2>1, <2>2, <2>3
<1>3. /\ x.newRefresh <=> fresh
      /\ e.type = "refresh" => (x.spsSeen <=> sps) /\ (x.ppsSeen <=> pps)
  BY <1>2, Notes
<1>4. f[n] <=> e.type = "refresh" /\ fresh /\ ~sps /\ ~pps
  <2>1. f[n] <=> e.type = "refresh" /\ fresh /\ ~Seen(samples, s, u, {"sps", "pps"})
    BY <1>1, <1>2, BareAfter DEF Fresh
  <2>2. Seen(samples, s, u, {"sps", "pps"}) <=> sps \/ pps
    BY DEF Seen
  <2> QED
    BY <2>1, <2>2
<1>5. /\ PicturesAloneAt(all, f, n) => (e.type = "refresh" /\ fresh /\ sps /\ ~pps)
      /\ (e.type = "refresh" /\ fresh /\ sps /\ ~pps) /\ ~sliced => PicturesAloneAt(all, f, n)
  BY <1>1, <1>2, PicturesAlone
<1> DEFINE alone == PicturesAloneAt(all, f, n)
<1>6. rule = IF f[n] THEN c.sequence \o c.picture ELSE IF alone THEN c.picture ELSE <<>>
  BY DEF SetsAt
<1>7. list = IF ~x.newRefresh \/ e.type # "refresh" \/ x.ppsSeen THEN <<>>
             ELSE IF x.spsSeen THEN c.picture ELSE c.sequence \o c.picture
  BY DEF WrittenSets
<1> HIDE DEF e, x, n, list, rule, sps, pps, fresh, sliced, alone
<1>8. list = rule \/ rule = <<>>
  BY <1>3, <1>4, <1>5, <1>6, <1>7 DEF alone
<1>9. ~sliced => list = rule
  BY <1>3, <1>4, <1>5, <1>6, <1>7 DEF alone
<1> QED
  BY <1>8, <1>9 DEF e, x, n, list, rule, sliced

(* Three parts written: what was, the sets, the unit. *)
LEMMA WrittenLength ==
    ASSUME NEW a, NEW list, NEW e, IsSequence(a), IsSequence(list)
    PROVE  LET t == a \o (CodedSets(list) \o <<e>>)
           IN /\ IsSequence(t) /\ Len(t) = Len(a) + Len(list) + 1
              /\ t = Append(a \o CodedSets(list), e)
              /\ Len(a) \in Nat /\ Len(list) \in Nat
<1> DEFINE b == CodedSets(list)
           d == <<e>>
           p == b \o d
           t == a \o p
           q == a \o b
<1>1. IsSequence(b) /\ Len(b) = Len(list) /\ IsSequence(d) /\ Len(d) = 1
  BY CodedList, Alone
<1> HIDE DEF b
<1>2. Len(a) \in Nat /\ Len(b) \in Nat
  BY <1>1, SequencePlaces
<1>3. Append(q, e) = q \o d
  <2>1. IsSequence(q)
    BY <1>1, Chained
  <2> DEFINE Q == {q[i] : i \in DOMAIN q} \cup {e}
  <2>2. q \in Seq(Q) /\ e \in Q
    <3> DEFINE A == {q[i] : i \in DOMAIN q}
    <3>1. q \in Seq(A) /\ A \subseteq Q /\ e \in Q
      BY <2>1 DEF IsSequence
    <3> HIDE DEF A, Q
    <3> QED
      BY <3>1
  <2> HIDE DEF q, Q
  <2> QED
    BY <2>2
<1> HIDE DEF d
<1>4. IsSequence(p) /\ Joins(p, b, d)
  BY <1>1, Chained
<1>5. q \o d = t
  BY <1>1, Regrouped
<1> HIDE DEF p, q
<1>6. IsSequence(t) /\ Joins(t, a, p)
  BY <1>4, Chained
<1> HIDE DEF t
<1>7. Len(t) = Len(a) + Len(p) /\ Len(p) = Len(b) + 1
  BY <1>1, <1>4, <1>6 DEF Joins
<1>8. Len(t) = Len(a) + Len(list) + 1
  BY <1>1, <1>2, <1>7
<1> QED
  BY <1>1, <1>2, <1>3, <1>5, <1>6, <1>8 DEF b, d, p, q, t

LEMMA UnitWritten ==
    ASSUME NEW samples, NEW c, NEW all, NEW f, NEW from, NEW g, Ruled(samples, c, all, f, from, g),
           NEW s \in 1..Len(samples), NEW u \in 1..Len(samples[s]), NEW w,
           WrittenTo(samples, all, f, from, g, s, u, w)
    PROVE  WrittenTo(samples, all, f, from, g, s, u + 1, WriteUnit(OpenedAt(w, u), samples[s][u], c))
<1> DEFINE e == samples[s][u]
           x == Noted(OpenedAt(w, u), e)
           y == Inserted(x, e, c)
           v == WriteUnit(OpenedAt(w, u), e, c)
           n == from[s - 1] + u
           list == WrittenSets(x, e, c)
           rule == SetsAt(all, f, c, n)
           sliced == SlicedAfterItsSequenceSet(samples)
<1>1. /\ Counts(samples) /\ Len(all) \in Nat /\ DOMAIN samples = 1..Len(samples)
      /\ DOMAIN samples[s] = 1..Len(samples[s])
  BY RuledCounts
<1>2. Stand(all, samples, from) /\ Decided(all, f) /\ u \in Nat \ {0} /\ from[s - 1] \in Nat
  <2>1. Stand(all, samples, from) /\ Decided(all, f)
    BY DEF Ruled
  <2>2. u \in Nat \ {0}
    OBVIOUS
  <2>3. from[s - 1] \in Nat
    BY <2>1 DEF Stand
  <2> QED
    BY <2>1, <2>2, <2>3
<1>3. /\ IsWriter(x) /\ x.out = w.out /\ (x.begun <=> u # 1)
      /\ x.newRefresh <=> Fresh(all, f, n, e)
      /\ x.spsSeen <=> Seen(samples, s, u + 1, {"sps"})
      /\ x.ppsSeen <=> Seen(samples, s, u + 1, {"pps"})
      /\ e.type = "refresh" => /\ x.spsSeen <=> Seen(samples, s, u, {"sps"})
                               /\ x.ppsSeen <=> Seen(samples, s, u, {"pps"})
  BY <1>2, Notes
<1>4. (list = rule \/ rule = <<>>) /\ (~sliced => list = rule)
  BY SameSets
<1>5. IsSequence(c.sequence) /\ IsSequence(c.picture)
  BY DEF Ruled
<1>6. /\ n \in 1..Len(all) /\ all[n].unit = e /\ all[n].place = u
      /\ f[n] <=> e.type = "refresh" /\ Fresh(all, f, n, e) /\ ~Seen(samples, s, u, {"sps", "pps"})
      /\ Bare(all, f, n + 1) <=> Fresh(all, f, n, e) /\ ~f[n]
  BY <1>1, <1>2, BareAfter DEF Fresh
<1>7. Seen(samples, s, u, {"sps", "pps"}) <=> Seen(samples, s, u, {"sps"}) \/ Seen(samples, s, u, {"pps"})
  BY DEF Seen
<1>8. v = Emit(y, e)
  BY DEF WriteUnit
<1> HIDE DEF x, v
<1>9. /\ IsWriter(y) /\ IsSequence(list)
      /\ y.out = x.out \o CodedSets(list) /\ (y.begun <=> x.begun \/ list # <<>>)
      /\ y.newRefresh <=> x.newRefresh /\ ~(e.type = "refresh" /\ ~x.ppsSeen /\ ~x.spsSeen)
      /\ y.spsSeen = x.spsSeen /\ y.ppsSeen = x.ppsSeen
  BY <1>3, <1>5, InsertedSets
<1> HIDE DEF y, list, rule, sliced
<1>10. /\ DOMAIN v = WriterFields /\ v.out = Append(y.out, Coded(e, ~y.begun)) /\ v.begun = TRUE
       /\ v.newRefresh = y.newRefresh /\ v.spsSeen = y.spsSeen /\ v.ppsSeen = y.ppsSeen
  <2>1. DOMAIN y = WriterFields
    BY <1>9 DEF IsWriter
  <2> HIDE DEF e
  <2> QED
    BY <1>8, <2>1 DEF Emit, WriterFields
<1> DEFINE o == w.out
           coded == Coded(e, ~y.begun)
           ruled == Coded(e, u = 1 /\ rule = <<>>)
           before == g[n - 1]
<1>11. /\ n - 1 = from[s - 1] + (u - 1) /\ (n - 1) + 1 = n /\ n - 1 \in 0..Len(all)
       /\ from[s - 1] + ((u + 1) - 1) = n
  <2> HIDE DEF n
  <2>1. n = from[s - 1] + u
    BY DEF n
  <2> QED
    BY <1>1, <1>2, <1>6, <2>1
<1>12. /\ IsSequence(o) /\ IsSequence(before) /\ Len(o) >= Len(before) /\ (~sliced => o = before)
  <2>1. IsSequence(o)
    BY DEF WrittenTo, IsWriter
  <2>2. IsSequence(before)
    BY <1>11 DEF Ruled
  <2>3. Len(o) >= Len(before) /\ (~sliced => o = before)
    BY <1>11 DEF WrittenTo, sliced
  <2> QED
    BY <2>1, <2>2, <2>3
<1>13. g[n] = before \o (CodedSets(rule) \o <<ruled>>)
  <2>1. g[n] = before \o PieceAt(all, f, c, n)
    BY <1>6 DEF Ruled
  <2>2. PieceAt(all, f, c, n) = CodedSets(rule) \o <<ruled>>
    BY <1>6 DEF PieceAt, rule
  <2> QED
    BY <2>1, <2>2
<1>14. IsSequence(rule)
  BY <1>5, SetsListed DEF rule
<1>15. list = rule => coded = ruled
  <2>1. list = rule => (~y.begun <=> u = 1 /\ rule = <<>>)
    BY <1>3, <1>9
  <2>2. y.begun \in BOOLEAN
    BY <1>9 DEF IsWriter
  <2>3. list = rule => (~y.begun) = (u = 1 /\ rule = <<>>)
    BY <2>1, <2>2
  <2> QED
    BY <2>3
<1>16. v.newRefresh <=> Bare(all, f, n + 1)
  BY <1>3, <1>6, <1>7, <1>9, <1>10
<1>17. v.out = Append(o \o CodedSets(list), coded)
  BY <1>3, <1>9, <1>10
<1>18. /\ v.begun /\ v.begun \in BOOLEAN
       /\ v.spsSeen <=> Seen(samples, s, u + 1, {"sps"})
       /\ v.ppsSeen <=> Seen(samples, s, u + 1, {"pps"})
  BY <1>3, <1>9, <1>10
<1> HIDE DEF o, before, coded, ruled, e, n
<1> DEFINE t == o \o (CodedSets(list) \o <<coded>>)
           r == before \o (CodedSets(rule) \o <<ruled>>)
<1>19. IsSequence(t) /\ Len(t) = Len(o) + Len(list) + 1 /\ v.out = t /\ Len(o) \in Nat /\ Len(list) \in Nat
  BY <1>9, <1>12, <1>17, WrittenLength
<1>20. Len(r) = Len(before) + Len(rule) + 1 /\ Len(before) \in Nat /\ Len(rule) \in Nat
  BY <1>12, <1>14, WrittenLength
<1>21. ~sliced => t = r
  BY <1>4, <1>12, <1>15
<1> HIDE DEF t, r
<1>22. Len(t) >= Len(r)
  <2>1. Len(rule) = Len(list) \/ Len(rule) = 0
    BY <1>4
  <2> DEFINE a == Len(o)
             b == Len(before)
             p == Len(list)
             q == Len(rule)
  <2>2. a >= b /\ a \in Nat /\ b \in Nat /\ p \in Nat /\ q \in Nat /\ (q = p \/ q = 0)
        /\ Len(t) = a + p + 1 /\ Len(r) = b + q + 1
    BY <1>12, <1>19, <1>20, <2>1
  <2> HIDE DEF a, b, p, q
  <2> QED
    BY <2>2
<1>23. g[n] = r
  BY <1>13 DEF r
<1>24. IsWriter(v)
  BY <1>10, <1>18, <1>19 DEF IsWriter
<1>25. u + 1 # 1
  BY <1>2
<1> DEFINE k == from[s - 1] + ((u + 1) - 1)
<1>26. k = n
  BY <1>11
<1>27. /\ IsWriter(v) /\ (v.newRefresh <=> Bare(all, f, k + 1))
       /\ v.begun
       /\ v.spsSeen <=> Seen(samples, s, u + 1, {"sps"})
       /\ v.ppsSeen <=> Seen(samples, s, u + 1, {"pps"})
       /\ Len(v.out) >= Len(g[k])
       /\ ~sliced => v.out = g[k]
  <2> HIDE DEF k
  <2> QED
    BY <1>16, <1>18, <1>19, <1>21, <1>22, <1>23, <1>24, <1>26
<1>28. WrittenTo(samples, all, f, from, g, s, u + 1, v)
  BY <1>27 DEF WrittenTo, sliced
<1> QED
  BY <1>28 DEF v, e

LEMMA StreamStarts ==
    ASSUME NEW samples, NEW c, NEW all, NEW f, NEW from, NEW g, Ruled(samples, c, all, f, from, g)
    PROVE  WrittenTo(samples, all, f, from, g, 1, 1, NewWriter)
<1> DEFINE w == NewWriter
           n == from[0] + 0
<1>1. /\ DOMAIN w = WriterFields /\ w.out = <<>> /\ w.begun = FALSE /\ w.newRefresh = TRUE
  BY DEF NewWriter, WriterFields
<1> HIDE DEF w
<1>2. from[0] = 0 /\ g[0] = <<>>
  BY DEF Ruled, Stand
<1>3. IsSequence(<<>>) /\ Len(<<>>) >= Len(<<>>)
  BY DEF IsSequence
<1>4. IsWriter(w)
  BY <1>1, <1>3 DEF IsWriter
<1>5. Bare(all, f, 1)
  <2>1. 0 \in 0..(1 - 1) /\ \A m \in (0 + 1)..(1 - 1) : ~f[m]
    OBVIOUS
  <2> QED
    BY <2>1 DEF Bare
<1>6. from[1 - 1] + (1 - 1) = 0
  BY <1>2
<1> QED
  BY <1>1, <1>2, <1>3, <1>4, <1>5, <1>6 DEF WrittenTo, w

LEMMA SampleWritten ==
    ASSUME NEW samples, NEW c, NEW all, NEW f, NEW from, NEW g, Ruled(samples, c, all, f, from, g),
           NEW s \in 1..Len(samples), NEW w,
           WrittenTo(samples, all, f, from, g, s, Len(samples[s]) + 1, w)
    PROVE  WrittenTo(samples, all, f, from, g, s + 1, 1, w)
<1> DEFINE l == Len(samples[s])
           n == from[s - 1] + ((l + 1) - 1)
           k == from[(s + 1) - 1] + (1 - 1)
<1>1. Counts(samples)
  BY RuledCounts
<1>2. from[s] = from[s - 1] + l /\ from[s - 1] \in Nat /\ l \in Nat /\ (s + 1) - 1 = s
  BY <1>1 DEF Ruled, Stand, Counts
<1>3. k = n
  BY <1>2
<1>4. /\ IsWriter(w) /\ (w.newRefresh <=> Bare(all, f, n + 1))
      /\ Len(w.out) >= Len(g[n]) /\ (~SlicedAfterItsSequenceSet(samples) => w.out = g[n])
  BY DEF WrittenTo
<1> HIDE DEF k, n
<1>5. /\ IsWriter(w) /\ (w.newRefresh <=> Bare(all, f, k + 1))
      /\ Len(w.out) >= Len(g[k]) /\ (~SlicedAfterItsSequenceSet(samples) => w.out = g[k])
  BY <1>3, <1>4
<1> QED
  BY <1>5 DEF WrittenTo, k

(* What is recorded of a stream. *)
Faithful(out, track) ==
    LET rule == RuleStream(track.samples, CHOOSE c \in Avc(track) : TRUE)
    IN IF SlicedAfterItsSequenceSet(track.samples) THEN Len(out) >= Len(rule) ELSE out = rule

LEMMA StreamEnds ==
    ASSUME NEW track, NEW all, NEW f, NEW from, NEW g, NEW w,
           Ruled(track.samples, CHOOSE c \in Avc(track) : TRUE, all, f, from, g),
           WrittenTo(track.samples, all, f, from, g, Len(track.samples) + 1, 1, w)
    PROVE  Faithful(w.out, track)
<1> DEFINE samples == track.samples
           c == CHOOSE x \in Avc(track) : TRUE
           n == from[(Len(samples) + 1) - 1] + (1 - 1)
<1>1. Ruled(samples, c, all, f, from, g) /\ WrittenTo(samples, all, f, from, g, Len(samples) + 1, 1, w)
  OBVIOUS
<1> HIDE DEF samples, c
<1>2. Len(samples) \in Nat /\ Len(all) \in Nat
  BY <1>1, RuledCounts DEF Counts
<1>3. Len(all) = from[Len(samples)] /\ RuleStream(samples, c) = g[Len(all)]
  BY <1>1 DEF Ruled, Stand
<1>4. n = Len(all)
  BY <1>2, <1>3
<1>5. Len(w.out) >= Len(g[n]) /\ (~SlicedAfterItsSequenceSet(samples) => w.out = g[n])
  BY <1>1 DEF WrittenTo
<1> HIDE DEF n
<1>6. IF SlicedAfterItsSequenceSet(samples) THEN Len(w.out) >= Len(RuleStream(samples, c))
      ELSE w.out = RuleStream(samples, c)
  BY <1>3, <1>4, <1>5
<1> QED
  BY <1>6 DEF Faithful, samples, c

(* A stream that is being written, and where it is. *)
Writing(track, s, u, w) ==
    LET samples == track.samples
        all == Numbered(samples)
        f == InsertionsAt(all)
    IN /\ s \in 1..(Len(samples) + 1)
       /\ s <= Len(samples) => u \in 1..(Len(samples[s]) + 1)
       /\ s = Len(samples) + 1 => u = 1
       /\ \E from, g :
            /\ Ruled(samples, CHOOSE c \in Avc(track) : TRUE, all, f, from, g)
            /\ WrittenTo(samples, all, f, from, g, s, u, w)

LEMMA WritingStarts ==
    ASSUME NEW track, IsTrack(track), Avc(track) # {}
    PROVE  Writing(track, 1, 1, NewWriter)
<1> DEFINE samples == track.samples
           c == CHOOSE x \in Avc(track) : TRUE
           all == Numbered(samples)
           f == InsertionsAt(all)
<1>1. /\ IsSequence(samples) /\ \A s \in DOMAIN samples : IsSequence(samples[s])
      /\ IsSequence(c.sequence) /\ IsSequence(c.picture)
  <2>1. c \in Avc(track)
    OBVIOUS
  <2> HIDE DEF c
  <2> QED
    BY <2>1 DEF IsTrack
<1> HIDE DEF samples, c
<1>2. PICK from, g : Ruled(samples, c, all, f, from, g)
  BY <1>1, RuleGiven
<1>3. WrittenTo(samples, all, f, from, g, 1, 1, NewWriter)
  BY <1>2, StreamStarts
<1>4. Len(samples) \in Nat /\ \A s \in 1..Len(samples) : Len(samples[s]) \in Nat
  BY <1>2, RuledCounts DEF Counts
<1> DEFINE l == Len(samples)
<1>5. 1 \in 1..(l + 1) /\ (1 <= l => 1 \in 1..(Len(samples[1]) + 1)) 
  <2>1. l \in Nat /\ (1 <= l => Len(samples[1]) \in Nat)
    BY <1>4
  <2> HIDE DEF l
  <2> QED
    BY <2>1
<1> HIDE DEF all, f
<1> QED
  BY <1>2, <1>3, <1>5 DEF Writing, samples, c, all, f

LEMMA WritingGoesOn ==
    ASSUME NEW track, NEW s, NEW u, NEW w, Writing(track, s, u, w),
           s <= Len(track.samples), u <= Len(track.samples[s])
    PROVE  Writing(track, s, u + 1, WriteUnit(OpenedAt(w, u), track.samples[s][u], CHOOSE c \in Avc(track) : TRUE))
<1> DEFINE samples == track.samples
           c == CHOOSE x \in Avc(track) : TRUE
           all == Numbered(samples)
           f == InsertionsAt(all)
           v == WriteUnit(OpenedAt(w, u), samples[s][u], c)
<1>1. PICK from, g : Ruled(samples, c, all, f, from, g) /\ WrittenTo(samples, all, f, from, g, s, u, w)
  BY DEF Writing
<1>2. /\ s \in 1..(Len(samples) + 1) /\ s <= Len(samples) /\ u <= Len(samples[s])
      /\ u \in 1..(Len(samples[s]) + 1)
  BY DEF Writing
<1> HIDE DEF samples, c
<1>3. Len(samples) \in Nat /\ \A i \in 1..Len(samples) : Len(samples[i]) \in Nat
  BY <1>1, RuledCounts DEF Counts
<1>4. s \in 1..Len(samples)
  BY <1>2, <1>3
<1>5. u \in 1..Len(samples[s]) /\ u + 1 \in 1..(Len(samples[s]) + 1)
  BY <1>2, <1>3, <1>4
<1>6. WrittenTo(samples, all, f, from, g, s, u + 1, v)
  BY <1>1, <1>4, <1>5, UnitWritten
<1>7. s # Len(samples) + 1
  BY <1>3, <1>4
<1> HIDE DEF all, f, v
<1>8. Writing(track, s, u + 1, v)
  BY <1>1, <1>2, <1>5, <1>6, <1>7 DEF Writing, samples, c, all, f
<1> QED
  BY <1>8 DEF v, samples, c

LEMMA WritingNextSample ==
    ASSUME NEW track, NEW s, NEW u, NEW w, Writing(track, s, u, w),
           s <= Len(track.samples), ~(u <= Len(track.samples[s]))
    PROVE  Writing(track, s + 1, 1, w)
<1> DEFINE samples == track.samples
           c == CHOOSE x \in Avc(track) : TRUE
           all == Numbered(samples)
           f == InsertionsAt(all)
<1>1. PICK from, g : Ruled(samples, c, all, f, from, g) /\ WrittenTo(samples, all, f, from, g, s, u, w)
  BY DEF Writing
<1>2. /\ s \in 1..(Len(samples) + 1) /\ s <= Len(samples) /\ ~(u <= Len(samples[s]))
      /\ u \in 1..(Len(samples[s]) + 1)
  BY DEF Writing
<1> HIDE DEF samples, c
<1>3. Len(samples) \in Nat /\ \A i \in 1..Len(samples) : Len(samples[i]) \in Nat
  BY <1>1, RuledCounts DEF Counts
<1>4. s \in 1..Len(samples)
  BY <1>2, <1>3
<1>5. u = Len(samples[s]) + 1
  BY <1>2, <1>3, <1>4
<1>6. WrittenTo(samples, all, f, from, g, s + 1, 1, w)
  BY <1>1, <1>4, <1>5, SampleWritten
<1>7. s + 1 \in 1..(Len(samples) + 1) /\ (s + 1 <= Len(samples) => 1 \in 1..(Len(samples[s + 1]) + 1))
  <2>1. s + 1 \in 1..(Len(samples) + 1)
    BY <1>3, <1>4
  <2>2. ASSUME s + 1 <= Len(samples) PROVE 1 \in 1..(Len(samples[s + 1]) + 1)
    <3>1. s + 1 \in 1..Len(samples)
      BY <1>3, <1>4, <2>2
    <3>2. Len(samples[s + 1]) \in Nat
      BY <1>3, <3>1
    <3> QED
      BY <3>2
  <2> QED
    BY <2>1, <2>2
<1> HIDE DEF all, f
<1> QED
  BY <1>1, <1>6, <1>7 DEF Writing, samples, c, all, f

LEMMA WritingEnds ==
    ASSUME NEW track, NEW s, NEW u, NEW w, Writing(track, s, u, w), ~(s <= Len(track.samples)),
           Len(track.samples) \in Nat
    PROVE  Faithful(w.out, track)
<1> DEFINE l == Len(track.samples)
<1>1. s = l + 1 /\ u = 1
  <2>1. s \in 1..(l + 1) /\ ~(s <= l) /\ l \in Nat /\ (s = l + 1 => u = 1)
    BY DEF Writing
  <2> HIDE DEF l
  <2> QED
    BY <2>1
<1>2. PICK from, g :
        /\ Ruled(track.samples, CHOOSE c \in Avc(track) : TRUE,
                 Numbered(track.samples), InsertionsAt(Numbered(track.samples)), from, g)
        /\ WrittenTo(track.samples, Numbered(track.samples), InsertionsAt(Numbered(track.samples)), from, g, s, u, w)
  BY DEF Writing
<1> DEFINE all == Numbered(track.samples)
           f == InsertionsAt(all)
<1>3. /\ Ruled(track.samples, CHOOSE c \in Avc(track) : TRUE, all, f, from, g)
      /\ WrittenTo(track.samples, all, f, from, g, l + 1, 1, w)
  BY <1>1, <1>2
<1> HIDE DEF all, f
<1> QED
  BY <1>3, StreamEnds

-----------------------------------------------------------------------------
(* The streams of a run: what is recorded of a track is what the rule gives of it. *)

Faithfully(list, f) ==
    \A k \in DOMAIN list : \A stream \in list[k].stream : Faithful(stream.stream, f.tracks[k])
HoldTracks(f) == \A k \in DOMAIN f.tracks : IsTrack(f.tracks[k])
Streams ==
    /\ \A n \in DOMAIN files : HoldTracks(files[n])
    /\ pc = "stream" => Writing(Track, sample, unit, writer)
    /\ pc \in {"track", "stream"} => Faithfully(records, Measuring)
    /\ \A n \in DOMAIN manifests : Faithfully(manifests[n].tracks, files[n])

LEMMA TrackAtHand ==
    ASSUME IInv, Streams, pc \in {"track", "stream"}, Len(records) < Len(Measuring.tracks)
    PROVE  IsTrack(Track) /\ Len(Track.samples) \in Nat /\ Track = Measuring.tracks[Len(records) + 1]
<1> DEFINE f == Measuring
           n == Len(records)
<1>1. Len(manifests) < Len(files) /\ Stable /\ GoodRecords(records, f)
  BY DEF IInv, AtWork
<1>2. Len(manifests) + 1 \in DOMAIN files /\ IsFile(f) /\ f = files[Len(manifests) + 1]
  BY <1>1, Lengths DEF Measuring
<1>3. HoldTracks(f)
  BY <1>2 DEF Streams
<1>4. Len(f.tracks) \in Nat /\ DOMAIN f.tracks = 1..Len(f.tracks) /\ n \in Nat
  BY <1>1, <1>2, SequencePlaces DEF IsFile, GoodRecords
<1>5. Track = f.tracks[n + 1]
  BY DEF Track
<1> HIDE DEF f, n
<1>6. n + 1 \in DOMAIN f.tracks
  <2> DEFINE l == Len(f.tracks)
  <2>1. n \in Nat /\ l \in Nat /\ n < l /\ DOMAIN f.tracks = 1..l
    BY <1>4 DEF f, n
  <2> HIDE DEF l
  <2> QED
    BY <2>1
<1>7. IsTrack(Track)
  BY <1>3, <1>5, <1>6 DEF HoldTracks
<1>8. Len(Track.samples) \in Nat
  BY <1>7, SequencePlaces DEF IsTrack
<1> QED
  BY <1>5, <1>7, <1>8 DEF f, n

LEMMA FaithfullyAdded ==
    ASSUME NEW list, IsSequence(list), NEW f, Faithfully(list, f), NEW e,
           \A stream \in e.stream : Faithful(stream.stream, f.tracks[Len(list) + 1])
    PROVE  Faithfully(Append(list, e), f)
<1> DEFINE n == Len(list)
           t == Append(list, e)
<1>1. /\ DOMAIN t = 1..(n + 1) /\ t[n + 1] = e
      /\ \A i \in DOMAIN list : t[i] = list[i]
  BY Longer
<1>2. n \in Nat /\ DOMAIN list = 1..n
  BY SequencePlaces
<1> HIDE DEF n, t
<1>3. \A k \in DOMAIN t : k \in DOMAIN list \/ k = n + 1
  BY <1>1, <1>2
<1> QED
  BY <1>1, <1>3 DEF Faithfully, t, n

LEMMA OutputHoldsTracks ==
    ASSUME request \in Request, NEW kept, KeptWell(kept), Inputs \in {1, 2},
           \A s \in 1..Inputs : GoodManifest(manifests[s], request.inputs[s]),
           \A s \in 1..Inputs : HoldTracks(request.inputs[s])
    PROVE  HoldTracks(OutputOf(kept))
<1> DEFINE L == Landed(kept)
           t == OutputOf(kept).tracks
<1>1. Lands(kept, L)
  BY AllLand
<1>2. t = [p \in DOMAIN L |-> request.inputs[L[p].input].tracks[L[p].index + 1]]
  BY OutputTracks
<1> HIDE DEF L
<1>3. ASSUME NEW p \in DOMAIN L PROVE IsTrack(t[p])
  <2>1. PICK s \in 1..Inputs : \E k \in 1..Len(kept[s]) : p = LandedAt(kept, s, k)
    BY <1>1 DEF Lands
  <2>2. PICK k \in 1..Len(kept[s]) : p = LandedAt(kept, s, k)
    BY <2>1
  <2>3. L[p] = From(s, kept[s][k])
    BY <1>1, <2>2 DEF Lands
  <2>4. L[p].input = s /\ L[p].index = kept[s][k]
    <3> DEFINE x == L[p]
    <3>1. x = [input |-> s, index |-> kept[s][k]]
      BY <2>3 DEF From
    <3> HIDE DEF x
    <3> QED
      BY <3>1 DEF x
  <2>5. DOMAIN kept[s] = 1..Len(kept[s])
    BY SequencePlaces DEF KeptWell, KeepsOf
  <2>6. kept[s][k] \in Nat /\ kept[s][k] < Len(manifests[s].tracks)
    BY <2>5 DEF KeptWell, KeepsOf
  <2>7. IsSequence(manifests[s].tracks)
    BY DEF GoodManifest, GoodRecords
  <2>8. kept[s][k] + 1 \in DOMAIN manifests[s].tracks
    BY <2>6, <2>7, SequencePlaces
  <2>9. kept[s][k] + 1 \in DOMAIN request.inputs[s].tracks
    BY <2>8 DEF GoodManifest, GoodRecords
  <2>10. IsTrack(request.inputs[s].tracks[kept[s][k] + 1])
    BY <2>9 DEF HoldTracks
  <2>11. t[p] = request.inputs[L[p].input].tracks[L[p].index + 1]
    BY <1>2
  <2> QED
    BY <2>4, <2>10, <2>11
<1> QED
  BY <1>2, <1>3 DEF HoldTracks

LEMMA InitStreams == Init => Streams
<1> SUFFICES ASSUME Init PROVE Streams
  OBVIOUS
<1>1. files = request.inputs /\ request \in Request /\ manifests = <<>> /\ pc = "open"
  BY DEF Init
<1>2. \A n \in DOMAIN files : HoldTracks(files[n])
  BY <1>1, RequestAssumption DEF HoldTracks
<1>3. DOMAIN manifests = {}
  BY <1>1
<1> QED
  BY <1>1, <1>2, <1>3 DEF Streams

(* A step that leaves the files and the manifests as they are, and neither measures nor starts to. *)
LEMMA StreamsKept ==
    ASSUME Streams, UNCHANGED <<files, manifests>>, pc' \notin {"track", "stream"}
    PROVE  Streams'
BY DEF Streams

LEMMA SameTrack ==
    ASSUME UNCHANGED <<files, manifests>>
    PROVE  /\ Measuring' = Measuring
           /\ records' = records => Track' = Track
           /\ \A s, u, w : Writing(Track, s, u, w)' <=> Writing(Track', s, u, w)
<1>1. files' = files /\ manifests' = manifests
  OBVIOUS
<1>2. Measuring' = Measuring
  BY <1>1 DEF Measuring
<1>3. records' = records => Track' = Track
  BY <1>2 DEF Track
<1> QED
  BY <1>2, <1>3

LEMMA OpenStreams == IInv /\ Streams /\ OpenFile => Streams'
<1> SUFFICES ASSUME IInv, Streams, OpenFile PROVE Streams'
  OBVIOUS
<1>1. CASE pc' = "track"
  <2>1. pc = "open" /\ UNCHANGED <<files, manifests, records>>
    BY DEF OpenFile, Refuse
  <2>2. records = <<>>
    BY <2>1 DEF IInv, AtWork
  <2>3. Faithfully(records, Measuring')
    BY <2>2 DEF Faithfully
  <2> QED
    BY <1>1, <2>1, <2>3 DEF Streams
<1>2. CASE pc' # "track"
  <2>1. pc' = "refused" /\ UNCHANGED <<files, manifests>>
    BY <1>2 DEF OpenFile, Refuse
  <2> QED
    BY <2>1, StreamsKept
<1> QED
  BY <1>1, <1>2

LEMMA RecordStreams ==
    ASSUME IInv, Streams, pc \in {"track", "stream"}, Len(records) < Len(Measuring.tracks),
           NEW fingerprint, NEW stream, Record(fingerprint, stream),
           \A x \in stream : Faithful(x.stream, Track),
           pc' = "track", UNCHANGED <<files, manifests>>
    PROVE  Streams'
<1> DEFINE e == TrackRecord(Len(records), Track, fingerprint, stream)
<1>1. e.stream = stream
  BY DEF TrackRecord
<1> HIDE DEF e
<1>2. records' = Append(records, e)
  BY DEF Record, e
<1>3. Track = Measuring.tracks[Len(records) + 1]
  BY TrackAtHand
<1>4. IsSequence(records) /\ Faithfully(records, Measuring)
  BY DEF IInv, AtWork, GoodRecords, Streams
<1> DEFINE f == Measuring
<1>5. \A x \in e.stream : Faithful(x.stream, f.tracks[Len(records) + 1])
  BY <1>1, <1>3
<1>6. IsSequence(records) /\ Faithfully(records, f)
  BY <1>4
<1> HIDE DEF f
<1>7. Faithfully(Append(records, e), f)
  BY <1>5, <1>6, FaithfullyAdded
<1>8. Measuring' = Measuring
  BY SameTrack
<1>9. Faithfully(records, Measuring)'
  BY <1>2, <1>7, <1>8 DEF f
<1> QED
  BY <1>9 DEF Streams

LEMMA MeasureStreams == IInv /\ Streams /\ MeasureTrack => Streams'
<1> SUFFICES ASSUME IInv, Streams, MeasureTrack PROVE Streams'
  OBVIOUS
<1>1. /\ pc = "track" /\ Len(records) < Len(Measuring.tracks) /\ UNCHANGED <<files, manifests>>
  BY DEF MeasureTrack, Refuse
<1>2. CASE \E fingerprint : Record(fingerprint, {}) /\ pc' = pc
  <2>1. PICK fingerprint : Record(fingerprint, {}) /\ pc' = pc
    BY <1>2
  <2>2. \A x \in {} : Faithful(x.stream, Track)
    OBVIOUS
  <2> QED
    BY <1>1, <2>1, <2>2, RecordStreams
<1>3. CASE pc' = "refused"
  BY <1>1, <1>3, StreamsKept
<1>4. CASE /\ Avc(Track) # {} /\ pc' = "stream"
           /\ sample' = 1 /\ unit' = 1 /\ writer' = NewWriter /\ records' = records
  <2>1. IsTrack(Track)
    BY <1>1, TrackAtHand
  <2> DEFINE t == Track
  <2>2. Writing(t, 1, 1, NewWriter)
    <3>1. IsTrack(t) /\ Avc(t) # {}
      BY <1>4, <2>1
    <3> HIDE DEF t
    <3> QED
      BY <3>1, WritingStarts
  <2>3. Track' = Track /\ Measuring' = Measuring
    BY <1>1, <1>4, SameTrack
  <2>4. Writing(Track, sample, unit, writer)'
    BY <1>4, <2>2, <2>3
  <2>5. Faithfully(records, Measuring)'
    BY <1>1, <1>4, <2>3 DEF Streams
  <2> QED
    BY <1>1, <2>4, <2>5 DEF Streams
<1>5. \/ \E fingerprint : Record(fingerprint, {}) /\ pc' = pc
      \/ pc' = "refused"
      \/ /\ Avc(Track) # {} /\ pc' = "stream"
         /\ sample' = 1 /\ unit' = 1 /\ writer' = NewWriter /\ records' = records
  <2>1. Scope \in {"structure", "full"}
    BY InputsGiven DEF IInv, Stable
  <2>2. CASE Scope = "structure"
    <3>1. Record({}, {}) /\ pc' = pc
      BY <2>2 DEF MeasureTrack
    <3> QED
      BY <3>1
  <2>3. CASE Scope = "full" /\ ~HasFingerprint(Track)
    BY <2>3 DEF MeasureTrack, Refuse
  <2>4. CASE Scope = "full" /\ HasFingerprint(Track) /\ Avc(Track) = {}
    <3>1. Record({TrackFingerprint(Track)}, {}) /\ pc' = pc
      BY <2>4 DEF MeasureTrack
    <3> QED
      BY <3>1
  <2>5. CASE Scope = "full" /\ HasFingerprint(Track) /\ Avc(Track) # {}
    BY <2>5 DEF MeasureTrack
  <2> QED
    BY <2>1, <2>2, <2>3, <2>4, <2>5
<1> QED
  BY <1>2, <1>3, <1>4, <1>5

LEMMA UnitStreams == IInv /\ Streams /\ (WriteStreamUnit \/ NextSample) => Streams'
<1> SUFFICES ASSUME IInv, Streams, WriteStreamUnit \/ NextSample PROVE Streams'
  OBVIOUS
<1> DEFINE t == Track
<1>1. /\ pc = "stream" /\ pc' = pc /\ UNCHANGED <<files, manifests, records>>
      /\ sample <= Len(t.samples)
  BY DEF WriteStreamUnit, NextSample, InSample
<1>2. Writing(t, sample, unit, writer)
  BY <1>1 DEF Streams
<1>3. Writing(t, sample', unit', writer')
  <2>1. CASE WriteStreamUnit
    <3>1. /\ unit <= Len(t.samples[sample]) /\ sample' = sample /\ unit' = unit + 1
          /\ writer' = WriteUnit(OpenedAt(writer, unit), t.samples[sample][unit], CHOOSE c \in Avc(t) : TRUE)
      BY <2>1 DEF WriteStreamUnit, OpenedAt
    <3> HIDE DEF t
    <3> QED
      BY <1>1, <1>2, <3>1, WritingGoesOn
  <2>2. CASE NextSample
    <3>1. ~(unit <= Len(t.samples[sample])) /\ sample' = sample + 1 /\ unit' = 1 /\ writer' = writer
      <4>1. /\ unit > Len(t.samples[sample]) /\ sample' = sample + 1 /\ unit' = 1 /\ writer' = writer
        BY <2>2 DEF NextSample
      <4>2. unit \in Nat /\ Len(t.samples[sample]) \in Nat
        <5>1. Len(t.samples) \in Nat /\ IsTrack(t)
          BY <1>1, TrackAtHand DEF IInv, AtWork
        <5>2. sample \in 1..(Len(t.samples) + 1) /\ unit \in 1..(Len(t.samples[sample]) + 1)
          BY <1>1, <1>2 DEF Writing
        <5> HIDE DEF t
        <5>3. sample \in 1..Len(t.samples)
          BY <1>1, <5>1, <5>2
        <5>4. sample \in DOMAIN t.samples
          BY <5>1, <5>3, SequencePlaces DEF IsTrack
        <5>5. IsSequence(t.samples[sample])
          BY <5>1, <5>4 DEF IsTrack
        <5> QED
          BY <5>2, <5>5, SequencePlaces
      <4> HIDE DEF t
      <4> QED
        BY <4>1, <4>2
    <3> HIDE DEF t
    <3> QED
      BY <1>1, <1>2, <3>1, WritingNextSample
  <2> QED
    BY <2>1, <2>2
<1>4. Track' = Track /\ Measuring' = Measuring
  BY <1>1, SameTrack
<1>5. Writing(Track, sample, unit, writer)'
  BY <1>3, <1>4
<1>6. Faithfully(records, Measuring)'
  BY <1>1, <1>4 DEF Streams
<1> QED
  BY <1>1, <1>5, <1>6 DEF Streams

LEMMA FinishStreams == IInv /\ Streams /\ FinishStream => Streams'
<1> SUFFICES ASSUME IInv, Streams, FinishStream PROVE Streams'
  OBVIOUS
<1> DEFINE t == Track
           x == [stream |-> writer.out, units |-> Len(t.samples), insertions |-> writer.insertions]
<1>1. /\ pc = "stream" /\ pc' = "track" /\ UNCHANGED <<files, manifests>>
      /\ ~(sample <= Len(t.samples)) /\ Record({TrackFingerprint(t)}, {x})
  BY DEF FinishStream, InSample
<1>2. Writing(t, sample, unit, writer)
  BY <1>1 DEF Streams
<1>3. Len(records) < Len(Measuring.tracks)
  BY <1>1 DEF IInv, AtWork
<1>4. Len(t.samples) \in Nat
  BY <1>1, <1>3, TrackAtHand
<1>5. x.stream = writer.out
  OBVIOUS
<1>6. Faithful(writer.out, t)
  <2> HIDE DEF t
  <2> QED
    BY <1>1, <1>2, <1>4, WritingEnds
<1> DEFINE set == {x}
<1>7. \A y \in set : Faithful(y.stream, Track)
  BY <1>5, <1>6
<1>8. Record({TrackFingerprint(t)}, set)
  BY <1>1
<1> HIDE DEF x, set
<1> QED
  BY <1>1, <1>3, <1>7, <1>8, RecordStreams

LEMMA FinishManifestStreams == IInv /\ Streams /\ FinishManifest => Streams'
<1> SUFFICES ASSUME IInv, Streams, FinishManifest PROVE Streams'
  OBVIOUS
<1> DEFINE m == ManifestOf(Measuring, Scope, records, Operation)
           n == Len(manifests)
<1>1. /\ Stable /\ pc = "track" /\ manifests' = Append(manifests, m) /\ files' = files
      /\ pc' \in {"open", "measured"}
  BY DEF IInv, FinishManifest
<1>2. m.tracks = records
  BY DEF ManifestOf
<1> HIDE DEF m
<1>3. n \in Nat /\ DOMAIN manifests = 1..n /\ IsSequence(manifests)
  BY <1>1, Lengths DEF Stable
<1>4. /\ DOMAIN manifests' = 1..(n + 1) /\ manifests'[n + 1] = m
      /\ \A i \in DOMAIN manifests : manifests'[i] = manifests[i]
  BY <1>1, <1>3, Longer
<1>5. Faithfully(records, files[n + 1])
  BY <1>1 DEF Streams, Measuring
<1> HIDE DEF n
<1>6. \A i \in 1..(n + 1) : i \in DOMAIN manifests \/ i = n + 1
  BY <1>3
<1>7. \A i \in DOMAIN manifests' : Faithfully(manifests'[i].tracks, files'[i])
  BY <1>1, <1>2, <1>4, <1>5, <1>6 DEF Streams
<1> QED
  BY <1>1, <1>7 DEF Streams

LEMMA ExportStreams == IInv /\ Streams /\ Export => Streams'
<1> SUFFICES ASSUME IInv, Streams, Export PROVE Streams'
  OBVIOUS
<1>1. /\ Stable /\ AtWork /\ pc = "measured" /\ request.selection.kind # "none"
      /\ Len(files) = Inputs /\ Len(manifests) = Len(files)
  BY DEF IInv, Export, AtWork, Inputs
<1>2. CASE ~\E kept \in Chosen : Selectable(kept)
  <2>1. pc' = "refused" /\ UNCHANGED <<files, manifests>>
    BY <1>2 DEF Export, Refuse
  <2> QED
    BY <2>1, StreamsKept
<1>3. CASE \E kept \in Chosen : Selectable(kept)
  <2>1. Inputs \in {1, 2} /\ Inputs <= Len(manifests)
    BY <1>1, Lengths
  <2>2. /\ \A kept \in Chosen : KeptWell(kept)
        /\ \A s \in 1..Inputs : GoodManifest(manifests[s], request.inputs[s])
    BY <1>1, <2>1, OneChoice
  <2>3. PICK kept \in Chosen :
          files' = Append(files, OutputOf(kept)) /\ pc' = "open" /\ UNCHANGED manifests
    BY <1>3 DEF Export
  <2>4. /\ Len(files) \in Nat /\ DOMAIN files = 1..Len(files) /\ DOMAIN manifests = 1..Len(manifests)
        /\ IsSequence(files) /\ request \in Request
    BY <1>1, Lengths DEF Stable
  <2>5. \A s \in 1..Inputs : HoldTracks(request.inputs[s])
    BY <1>1, <2>4 DEF Stable, Streams
  <2> DEFINE e == OutputOf(kept)
  <2>6. HoldTracks(e)
    <3>1. KeptWell(kept)
      BY <2>2
    <3> QED
      BY <2>1, <2>2, <2>4, <2>5, <3>1, OutputHoldsTracks
  <2> HIDE DEF e
  <2>7. /\ DOMAIN files' = 1..(Len(files) + 1) /\ files'[Len(files) + 1] = e
        /\ \A i \in DOMAIN files : files'[i] = files[i]
    <3>1. files' = Append(files, e)
      BY <2>3 DEF e
    <3> QED
      BY <2>4, <3>1, Longer
  <2>8. \A n \in DOMAIN files' : HoldTracks(files'[n])
    <3>1. \A n \in DOMAIN files' : n \in DOMAIN files \/ n = Len(files) + 1
      BY <2>4, <2>7
    <3> QED
      BY <2>6, <2>7, <3>1 DEF Streams
  <2>9. \A n \in DOMAIN manifests' : Faithfully(manifests'[n].tracks, files'[n])
    <3>1. DOMAIN manifests = DOMAIN files /\ manifests' = manifests
      BY <1>1, <2>3, <2>4
    <3> QED
      BY <2>7, <3>1 DEF Streams
  <2> QED
    BY <2>3, <2>8, <2>9 DEF Streams
<1> QED
  BY <1>2, <1>3

LEMMA NextStreams == IInv /\ Streams /\ [Next]_vars => Streams'
<1> SUFFICES ASSUME IInv, Streams, [Next]_vars PROVE Streams'
  OBVIOUS
<1>1. CASE OpenFile
  BY <1>1, OpenStreams
<1>2. CASE MeasureTrack
  BY <1>2, MeasureStreams
<1>3. CASE FinishManifest
  BY <1>3, FinishManifestStreams
<1>4. CASE WriteStreamUnit \/ NextSample
  BY <1>4, UnitStreams
<1>5. CASE RefuseSample \/ RefuseTimes
  <2>1. pc' = "refused" /\ UNCHANGED <<files, manifests>>
    BY <1>5 DEF RefuseSample, RefuseTimes, Refuse
  <2> QED
    BY <2>1, StreamsKept
<1>6. CASE FinishStream
  BY <1>6, FinishStreams
<1>7. CASE Export
  BY <1>7, ExportStreams
<1>8. CASE Change
  <2>1. pc' = "changed" /\ UNCHANGED <<files, manifests>>
    BY <1>8 DEF Change
  <2> QED
    BY <2>1, StreamsKept
<1>9. CASE Verify
  <2>1. pc' \in {"done", "refused"} /\ UNCHANGED <<files, manifests>>
    BY <1>9 DEF Verify, Refuse
  <2> QED
    BY <2>1, StreamsKept
<1>10. CASE UNCHANGED vars
  <2>1. UNCHANGED <<pc, files, manifests, records, sample, unit, writer>>
    BY <1>10 DEF vars
  <2>2. Track' = Track /\ Measuring' = Measuring
    BY <2>1, SameTrack
  <2> QED
    BY <2>1, <2>2 DEF Streams
<1> QED
  BY <1>1, <1>2, <1>3, <1>4, <1>5, <1>6, <1>7, <1>8, <1>9, <1>10 DEF Next

-----------------------------------------------------------------------------
(* The theorems. *)

(* Every box of the recording and every box of the file is in one finding (vendor_findings, verify.rs): for any
   recording, whatever the file was changed to, the boxes of a kind and place on one side and on the other are
   those its findings account for, and no kind is both missing and unexpected. *)
THEOREM BoxesAreCounted == Spec => []BoxesAccountedFor
<1>1. ASSUME IInv, pc = "done" PROVE BoxesAccountedFor
  <2> DEFINE m == manifests[Len(manifests)]
             recorded == m.vendor
             present == VendorBoxes(file)
             places == {<<box.location, box.kind>> : box \in ToSet(recorded) \cup ToSet(present)}
  <2>1. GoodManifest(m, files[Len(manifests)]) /\ IsFile(files[Len(manifests)]) /\ IsFile(file) /\ findings = FindingsOf(m, file)
    <3>1. Stable /\ AtWork /\ Len(manifests) = Len(files)
      BY <1>1 DEF IInv, AtWork
    <3>2. Len(manifests) \in DOMAIN manifests /\ Len(manifests) \in DOMAIN files
      BY <3>1, Lengths
    <3> QED
      BY <1>1, <3>1, <3>2 DEF Stable, AtWork
  <2>2. IsSequence(m.tracks) /\ IsSequence(recorded) /\ IsSequence(present)
    BY <2>1, VendorsListed DEF GoodManifest, GoodRecords
  <2>3. LaidOut(findings, recorded, present, 1 + Len(m.tracks))
    BY <2>1, <2>2, Findings
  <2> HIDE DEF m
  <2>4. ASSUME NEW place \in places PROVE Counted(findings, recorded, present, place)
    <3>1. PICK box \in ToSet(recorded) \cup ToSet(present) : place = <<box.location, box.kind>>
      OBVIOUS
    <3> DEFINE off == 1 + Len(m.tracks)
    <3> HIDE DEF recorded, present, off
    <3>2. Counted(findings, recorded, present, <<box.location, box.kind>>)
      BY <2>2, <2>3, BoxesCounted DEF off
    <3> QED
      BY <3>1, <3>2
  <2> QED
    BY <2>4 DEF BoxesAccountedFor, Counted, BoxesOf, FindingsAbout, Settled, m
<1>2. IInv => BoxesAccountedFor
  <2>1. pc # "done" => BoxesAccountedFor
    BY DEF BoxesAccountedFor
  <2> QED
    BY <1>1, <2>1
<1> QED
  BY <1>2, Invariant, PTL

(* Unchanged is confirmed and what is confirmed is unchanged (every_compared_subject_is_identical, verify.rs):
   the file a manifest was made of is always found identical, whatever tracks and boxes it has; and a file found
   identical is the same bytes where they were digested, and has the same shape and vendor boxes where not. *)
THEOREM YesMeansUnchanged == Spec => []ConfirmedMeansUnchanged
<1>1. ASSUME IInv, pc = "done" PROVE ConfirmedMeansUnchanged
  <2> DEFINE m == manifests[Len(manifests)]
             f == files[Len(files)]
  <2>1. /\ GoodManifest(m, f) /\ IsFile(f) /\ IsFile(file) /\ findings = FindingsOf(m, file)
        /\ change = <<"none">> => file = f
    <3>1. Stable /\ AtWork /\ Len(manifests) = Len(files)
      BY <1>1 DEF IInv, AtWork
    <3>2. Len(manifests) \in DOMAIN manifests /\ Len(manifests) \in DOMAIN files
      BY <3>1, Lengths
    <3> QED
      BY <1>1, <3>1, <3>2 DEF Stable, AtWork
  <2> HIDE DEF m, f
  <2>2. change = <<"none">> => EveryComparedSubjectIsIdentical(findings)
    BY <2>1, UnchangedIsIdentical
  <2>3. EveryComparedSubjectIsIdentical(findings) =>
          /\ m.digest # {} => file = f
          /\ StructuralFingerprint(file) = StructuralFingerprint(f)
          /\ Len(VendorBoxes(file)) = Len(VendorBoxes(f))
          /\ \A i \in DOMAIN VendorBoxes(file) : VendorBoxes(file)[i].digest = VendorBoxes(f)[i].digest
    BY <2>1, IdenticalIsUnchanged
  <2> QED
    BY <2>2, <2>3 DEF ConfirmedMeansUnchanged, m, f
<1>2. IInv => ConfirmedMeansUnchanged
  <2>1. pc # "done" => ConfirmedMeansUnchanged
    BY DEF ConfirmedMeansUnchanged
  <2> QED
    BY <1>1, <2>1
<1> QED
  BY <1>2, Invariant, PTL

(* The manifest of an output leads from every track it holds to the one track of one source it was copied from,
   with its fingerprint (source_records, media.rs): for any inputs and any selection, though the index alone
   does not tell the tracks of two inputs apart. *)
THEOREM SourcesAreFound == Spec => []SourcesLeadToTracks
<1>1. IInv => SourcesLeadToTracks
  BY DEF IInv, Stable, LeadsBack, SourcesLeadToTracks
<1> QED
  BY <1>1, Invariant, PTL

(* The stream recorded of a track is the one the documented rule gives (Writer, annex_b.rs): for any samples and
   any parameter sets, unit by unit as the writer goes, though it knows only what came before; and where a
   picture of several slices follows a sequence parameter set of its own, it is at least as long. *)
THEOREM StreamsAreRuled == Spec => []StreamFollowsRule
<1>1. IInv /\ Streams => StreamFollowsRule
  BY DEF Streams, Faithfully, Faithful, StreamFollowsRule
<1>2. Init => IInv /\ Streams
  BY InitInv, InitStreams
<1>3. IInv /\ Streams /\ [Next]_vars => (IInv /\ Streams)'
  BY NextInv, NextStreams
<1> QED
  BY <1>1, <1>2, <1>3, PTL DEF Spec
=============================================================================
