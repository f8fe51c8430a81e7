------------------------------ MODULE ScanProofs ------------------------------
(***************************************************************************)
(* What the cache of a scan answers, and what the scan answers, for every  *)
(* library, any number of scans, writes, failures and seconds.             *)
(*                                                                         *)
(* An entry is made in several steps: the file is found, measured, opened  *)
(* and read, and it may be written between any two of them.  Either it was *)
(* not, and the entry says what the file found holds; or it was, within    *)
(* the second it is dated by, and two files share a date; or it was later, *)
(* and then no file to come is dated like the entry, because the clock has *)
(* passed it.  An entry of the last kind is never answered again.          *)
(*                                                                         *)
(* What was probed and what was skipped are, at every step, what was       *)
(* listed so far, and what was listed is what was given, while nobody      *)
(* writes and no listing fails.  Whatever files it is given, grouping      *)
(* makes every one a member of one recording, keeps a stem together and in *)
(* the order of its cameras, and shows the signs of a file beside the      *)
(* files probed with it.                                                   *)
(***************************************************************************)
EXTENDS Scan, PlacesProofs

-----------------------------------------------------------------------------
Known(file) == file.probe.parsed # {} => Camera(file) \in {"front", "rear", "interior", "all"}
Files(list) == IsSequence(list) /\ \A i \in DOMAIN list : Known(list[i])

LEMMA FilePlaces ==
    ASSUME NEW list, Files(list)
    PROVE  /\ DOMAIN list = 1..Len(list) /\ Len(list) \in Nat
           /\ IsFiniteSet(DOMAIN list) /\ Cardinality(DOMAIN list) = Len(list)
           /\ \A i \in DOMAIN list : i \in Nat
BY SequencePlaces DEF Files

LEMMA AlonePlaces ==
    ASSUME NEW list, Files(list)
    PROVE  LET alone == InOrderGiven(list, FilesAlone(list))
               n == Cardinality(FilesAlone(list))
           IN /\ n \in Nat
              /\ DOMAIN alone = 1..n
              /\ alone \in Bijection(1..n, FilesAlone(list))
<1> DEFINE places == FilesAlone(list)
<1>1. IsFiniteSet(places) /\ \A i \in places : i \in Nat
  <2>1. places \in SUBSET DOMAIN list
    BY DEF FilesAlone
  <2> QED
    BY <2>1, SequencePlaces DEF Files
<1> HIDE DEF places
<1> QED
  BY <1>1, SortedPlaces DEF places, InOrderGiven

OrderOf(list, i) == CameraOrder[Camera(list[i])]

LEMMA StemPlaces ==
    ASSUME NEW list, Files(list), NEW stem \in Stems(list)
    PROVE  LET places == InCameraOrder(list, FilesOfStem(list, stem))
               n == Cardinality(FilesOfStem(list, stem))
           IN /\ n \in Nat \ {0}
              /\ DOMAIN places = 1..n /\ Len(places) = n
              /\ places \in Bijection(1..n, FilesOfStem(list, stem))
              /\ \A k \in 1..n : places[k] \in FilesOfStem(list, stem)
              /\ \A k, l \in 1..n : k < l => OrderOf(list, places[k]) <= OrderOf(list, places[l])
<1> DEFINE S == FilesOfStem(list, stem)
           order(i) == OrderOf(list, i)
           before == {x \in S \X S : order(x[1]) < order(x[2]) \/ (order(x[1]) = order(x[2]) /\ x[1] < x[2])}
           places == InCameraOrder(list, S)
           n == Cardinality(S)
<1>1. S \in SUBSET DOMAIN list
  BY DEF FilesOfStem
<1>2. IsFiniteSet(S) /\ \A i \in S : i \in Nat
  BY <1>1, FilePlaces, FS_Subset
<1>3. \A i \in S : order(i) \in Nat
  <2> SUFFICES ASSUME NEW i \in S PROVE order(i) \in Nat
    OBVIOUS
  <2>1. Grouped(list[i]) /\ Known(list[i])
    BY <1>1 DEF FilesOfStem, Files
  <2>2. Camera(list[i]) \in {"front", "rear", "interior"}
    BY <2>1 DEF Grouped, Known
  <2> QED
    BY <2>2 DEF OrderOf, CameraOrder
<1>4. S # {}
  <2>1. PICK i \in DOMAIN list \ FilesAlone(list) : stem = Stem(list[i])
    BY DEF Stems
  <2>2. i \in S
    BY <2>1 DEF FilesAlone, FilesOfStem
  <2> QED
    BY <2>2
<1> HIDE DEF S, order
<1>5. Total(S, before)
  <2>1. \A i, j \in S : <<i, j>> \in before <=> order(i) < order(j) \/ (order(i) = order(j) /\ i < j)
    OBVIOUS
  <2> HIDE DEF before
  <2>2. \A i \in S : <<i, i>> \notin before
    BY <1>2, <1>3, <2>1
  <2>3. ASSUME NEW i \in S, NEW j \in S, i # j
        PROVE  <<i, j>> \in before \/ <<j, i>> \in before
    <3>1. i \in Nat /\ j \in Nat /\ order(i) \in Nat /\ order(j) \in Nat
      BY <1>2, <1>3
    <3>2. \/ order(i) < order(j) \/ (order(i) = order(j) /\ i < j)
          \/ order(j) < order(i) \/ (order(j) = order(i) /\ j < i)
      BY <2>3, <3>1
    <3> QED
      BY <2>1, <3>2
  <2>4. ASSUME NEW i \in S, NEW j \in S, NEW k \in S, <<i, j>> \in before, <<j, k>> \in before
        PROVE  <<i, k>> \in before
    <3>1. i \in Nat /\ j \in Nat /\ k \in Nat /\ order(i) \in Nat /\ order(j) \in Nat /\ order(k) \in Nat
      BY <1>2, <1>3
    <3>2. /\ order(i) < order(j) \/ (order(i) = order(j) /\ i < j)
          /\ order(j) < order(k) \/ (order(j) = order(k) /\ j < k)
      BY <2>1, <2>4
    <3>3. order(i) < order(k) \/ (order(i) = order(k) /\ i < k)
      BY <3>1, <3>2
    <3> QED
      BY <2>1, <3>3
  <2> QED
    BY <2>2, <2>3, <2>4 DEF Total
<1>6. places = InOrder(S, before)
  BY DEF InCameraOrder, OrderOf, order
<1>7. n \in Nat /\ places \in Bijection(1..n, S) /\ \A k, l \in 1..n : k < l => <<places[k], places[l]>> \in before
  <2> HIDE DEF before, places, n
  <2> QED
    BY <1>2, <1>5, <1>6, Ordered DEF n
<1>8. n # 0
  BY <1>2, <1>4, FS_EmptySet
<1>9. DOMAIN places = 1..n
  BY <1>6 DEF InOrder
<1>10. Len(places) = n /\ \A k \in 1..n : places[k] \in S
  <2> HIDE DEF places, n
  <2>1. places \in [1..n -> S]
    BY <1>7, Fun_BijectionProperties
  <2> QED
    BY <1>7, <2>1
<1>11. ASSUME NEW k \in 1..n, NEW l \in 1..n, k < l
       PROVE  order(places[k]) <= order(places[l])
  <2>1. <<places[k], places[l]>> \in before
    BY <1>7, <1>11
  <2>2. order(places[k]) < order(places[l]) \/ order(places[k]) = order(places[l])
    <3> HIDE DEF places, n
    <3> QED
      BY <2>1
  <2>3. order(places[k]) \in Nat /\ order(places[l]) \in Nat
    BY <1>3, <1>10
  <2> QED
    BY <2>2, <2>3
<1> QED
  BY <1>7, <1>8, <1>9, <1>10, <1>11 DEF S, order

(* A stem's recording has the files of the stem, in the order of their cameras, and no other. *)
LEMMA StemRecording ==
    ASSUME NEW list, Files(list), NEW stem \in Stems(list), NEW siblings
    PROVE  LET places == InCameraOrder(list, FilesOfStem(list, stem))
               n == Cardinality(FilesOfStem(list, stem))
               r == OfStem(list, stem, siblings)
           IN /\ r.kind \in {"paired", "unpaired"}
              /\ r.kind = "paired" <=> Len(r.members) > 1
              /\ r.members = [k \in 1..n |-> list[places[k]]]
              /\ 1 \in DOMAIN r.members
              /\ \A k \in DOMAIN r.members : Stem(r.members[k]) = stem
              /\ DOMAIN r.origins = 1..n
              /\ \A k \in 1..n : r.origins[k] = {Assess(r.members[k].probe, siblings)}
<1> DEFINE places == InCameraOrder(list, FilesOfStem(list, stem))
           n == Cardinality(FilesOfStem(list, stem))
           members == [k \in 1..n |-> list[places[k]]]
           kind == IF n = 1 THEN "unpaired" ELSE "paired"
           r == OfStem(list, stem, siblings)
<1>1. /\ n \in Nat \ {0} /\ DOMAIN places = 1..n /\ Len(places) = n
      /\ \A k \in 1..n : places[k] \in FilesOfStem(list, stem)
  BY StemPlaces
<1>2. r = Recording(kind, members, siblings)
  BY <1>1 DEF OfStem
<1> HIDE DEF places, n, r
<1>3. /\ r.kind = kind /\ r.members = members
      /\ r.origins = [k \in DOMAIN members |-> IF kind = "unreadable" THEN {} ELSE {Assess(members[k].probe, siblings)}]
  <2> HIDE DEF kind, members
  <2> QED
    BY <1>2 DEF Recording
<1>4. kind \in {"paired", "unpaired"} /\ kind # "unreadable"
  OBVIOUS
<1>5. Len(members) = n /\ 1 \in 1..n /\ DOMAIN members = 1..n
  BY <1>1
<1>6. kind = "paired" <=> Len(members) > 1
  BY <1>1, <1>5
<1>7. \A k \in 1..n : Stem(members[k]) = stem
  BY <1>1 DEF FilesOfStem
<1>8. \A k \in 1..n : r.origins[k] = {Assess(r.members[k].probe, siblings)}
  <2> HIDE DEF kind, members
  <2> QED
    BY <1>3, <1>4, <1>5
<1>9. DOMAIN r.origins = 1..n
  <2> HIDE DEF kind, members
  <2> QED
    BY <1>3, <1>5
<1> QED
  BY <1>3, <1>4, <1>5, <1>6, <1>7, <1>8, <1>9 DEF r, n, places

(* The answer of group: the files alone, then a recording of each stem, once. *)
Recorded(list, stem) == OfStem(list, stem, Siblings(list))
Grouping(list, n, alone, m, stemAt) ==
    /\ n \in Nat /\ m \in Nat
    /\ alone \in Bijection(1..n, FilesAlone(list))
    /\ stemAt \in Bijection(1..m, Stems(list))
    /\ DOMAIN Group(list) = 1..(n + m)
    /\ \A k \in 1..n : Group(list)[k] = Alone(list[alone[k]], Siblings(list))
    /\ \A k \in 1..m : Group(list)[n + k] = Recorded(list, stemAt[k])

LEMMA GroupShape ==
    ASSUME NEW list, Files(list)
    PROVE  \E n, alone, m, stemAt : Grouping(list, n, alone, m, stemAt)
<1> DEFINE n == Cardinality(FilesAlone(list))
           alone == InOrderGiven(list, FilesAlone(list))
           first == [k \in DOMAIN alone |-> Alone(list[alone[k]], Siblings(list))]
           stems == Stems(list)
           of == [stem \in stems |-> Recorded(list, stem)]
           recordings_ == {Recorded(list, stem) : stem \in stems}
           m == Cardinality(recordings_)
           second == SetToSeq(recordings_)
           stemAt == [k \in 1..m |-> CHOOSE stem \in stems : second[k] = Recorded(list, stem)]
<1>1. n \in Nat /\ DOMAIN alone = 1..n /\ alone \in Bijection(1..n, FilesAlone(list))
  BY AlonePlaces
<1>2. IsFiniteSet(stems)
  <2> DEFINE grouped == DOMAIN list \ FilesAlone(list)
             f == [i \in grouped |-> Stem(list[i])]
  <2>1. IsFiniteSet(grouped)
    <3>1. grouped \in SUBSET DOMAIN list
      OBVIOUS
    <3> QED
      BY <3>1, FilePlaces, FS_Subset
  <2>2. f \in [grouped -> stems] /\ \A t \in stems : \E i \in grouped : f[i] = t
    BY DEF Stems
  <2> HIDE DEF f, grouped, stems
  <2>3. f \in Surjection(grouped, stems)
    BY <2>2, Fun_IsSurj
  <2> QED
    BY <2>1, <2>3, FS_Surjection
<1>3. IsFiniteSet(recordings_)
  <2>1. of \in [stems -> recordings_] /\ \A r \in recordings_ : \E stem \in stems : of[stem] = r
    OBVIOUS
  <2> HIDE DEF of, stems, recordings_
  <2>2. of \in Surjection(stems, recordings_)
    BY <2>1, Fun_IsSurj
  <2> QED
    BY <1>2, <2>2, FS_Surjection
<1>4. m \in Nat /\ second \in Bijection(1..m, recordings_)
  <2> HIDE DEF recordings_
  <2> QED
    BY <1>3, Listed
<1>5. /\ second \in [1..m -> recordings_]
      /\ \A k, l \in 1..m : second[k] = second[l] => k = l
      /\ \A r \in recordings_ : \E k \in 1..m : second[k] = r
  <2> HIDE DEF recordings_, second, m
  <2> QED
    BY <1>4, Fun_BijectionProperties
<1>6. \A s, t \in stems : Recorded(list, s) = Recorded(list, t) => s = t
  <2> SUFFICES ASSUME NEW s \in stems, NEW t \in stems, Recorded(list, s) = Recorded(list, t)
               PROVE  s = t
    OBVIOUS
  <2>1. ASSUME NEW stem \in stems
        PROVE  Stem(Recorded(list, stem).members[1]) = stem
    <3> DEFINE siblings == Siblings(list)
               r == OfStem(list, stem, siblings)
    <3> HIDE DEF siblings
    <3>1. 1 \in DOMAIN r.members /\ \A k \in DOMAIN r.members : Stem(r.members[k]) = stem
      BY StemRecording
    <3> QED
      BY <3>1 DEF Recorded, siblings
  <2> QED
    BY <2>1
<1> HIDE DEF second, m
<1>7. \A k \in 1..m : stemAt[k] \in stems /\ second[k] = Recorded(list, stemAt[k])
  <2> SUFFICES ASSUME NEW k \in 1..m
               PROVE  stemAt[k] \in stems /\ second[k] = Recorded(list, stemAt[k])
    OBVIOUS
  <2>1. \E stem \in stems : second[k] = Recorded(list, stem)
    BY <1>5
  <2>2. stemAt[k] = CHOOSE stem \in stems : second[k] = Recorded(list, stem)
    OBVIOUS
  <2> QED
    BY <2>1, <2>2
<1>8. stemAt \in Bijection(1..m, stems)
  <2>1. stemAt = [k \in 1..m |-> stemAt[k]]
    OBVIOUS
  <2> HIDE DEF stemAt
  <2>2. stemAt \in [1..m -> stems]
    BY <1>7, <2>1
  <2>3. \A k, l \in 1..m : stemAt[k] = stemAt[l] => k = l
    BY <1>5, <1>7
  <2>4. \A t \in stems : \E k \in 1..m : stemAt[k] = t
    <3> SUFFICES ASSUME NEW t \in stems PROVE \E k \in 1..m : stemAt[k] = t
      OBVIOUS
    <3>1. PICK k \in 1..m : second[k] = Recorded(list, t)
      BY <1>5
    <3> QED
      BY <1>6, <1>7, <3>1
  <2> HIDE DEF stems
  <2> QED
    BY <2>2, <2>3, <2>4, Fun_IsBij
<1> DEFINE S == {first[k] : k \in DOMAIN alone} \cup recordings_
<1>9. first \in [1..n -> S] /\ second \in [1..m -> S]
  <2>1. first \in [1..n -> S]
    BY <1>1
  <2>2. second \in [1..m -> S]
    <3> HIDE DEF first
    <3> QED
      BY <1>5
  <2> QED
    BY <2>1, <2>2
<1>10. Group(list) = first \o second
  BY DEF Group, Recorded, second
<1> HIDE DEF stemAt, S, recordings_
<1>11. /\ DOMAIN Group(list) = 1..(n + m)
       /\ \A k \in 1..n : Group(list)[k] = first[k]
       /\ \A k \in 1..m : Group(list)[n + k] = second[k]
  <2>1. n \in Nat /\ m \in Nat
    BY <1>1, <1>4
  <2> HIDE DEF first, n
  <2>2. /\ DOMAIN (first \o second) = 1..(n + m)
        /\ \A k \in 1..n : (first \o second)[k] = first[k]
        /\ \A k \in 1..m : (first \o second)[n + k] = second[k]
    BY <1>9, <2>1, BothParts
  <2> QED
    BY <1>10, <2>2
<1>12. \A k \in 1..n : first[k] = Alone(list[alone[k]], Siblings(list))
  BY <1>1
<1> HIDE DEF first, alone, n
<1>13. Grouping(list, n, alone, m, stemAt)
  BY <1>1, <1>4, <1>7, <1>8, <1>11, <1>12 DEF Grouping
<1> QED
  BY <1>13

LEMMA AloneRecording ==
    ASSUME NEW file, NEW siblings
    PROVE  LET r == Alone(file, siblings)
           IN /\ r.kind \notin {"paired", "unpaired"}
              /\ r.members = <<file>>
              /\ r.origins[1] \subseteq {Assess(file.probe, siblings)}
<1> DEFINE kind == IF file.probe.unreadable THEN "unreadable"
                   ELSE IF file.probe.parsed = {} THEN "unrecognised" ELSE "single file"
           origins == [i \in {1} |-> IF kind = "unreadable" THEN {} ELSE {Assess(file.probe, siblings)}]
<1>1. kind \in {"unreadable", "unrecognised", "single file"}
  OBVIOUS
<1> HIDE DEF kind
<1>2. Alone(file, siblings) = Recording(kind, <<file>>, siblings)
  BY DEF Alone, kind
<1>3. Recording(kind, <<file>>, siblings) = [kind |-> kind, members |-> <<file>>, origins |-> origins]
  <2>1. DOMAIN <<file>> = {1} /\ <<file>>[1] = file
    OBVIOUS
  <2> QED
    BY <2>1 DEF Recording
<1>4. origins[1] \subseteq {Assess(file.probe, siblings)}
  OBVIOUS
<1> DEFINE r == Alone(file, siblings)
<1>5. r.kind = kind /\ r.members = <<file>> /\ r.origins = origins
  <2> HIDE DEF origins
  <2> QED
    BY <1>2, <1>3
<1> HIDE DEF origins, r
<1>6. r.kind \notin {"paired", "unpaired"}
  BY <1>1, <1>5
<1> QED
  BY <1>4, <1>5, <1>6 DEF r

MembersOf(answer) == UNION {{r} \X DOMAIN answer[r].members : r \in DOMAIN answer}


(* Every file is one member of one recording, and is said to be what it is among the files given. *)
LEMMA Partition ==
    ASSUME NEW list, Files(list)
    PROVE  \E source \in Bijection(MembersOf(Group(list)), DOMAIN list) :
             \A r \in DOMAIN Group(list) : \A k \in DOMAIN Group(list)[r].members :
                /\ Group(list)[r].members[k] = list[source[<<r, k>>]]
                /\ Group(list)[r].origins[k] \subseteq {Assess(list[source[<<r, k>>]].probe, Siblings(list))}
<1> DEFINE answer == Group(list)
           places(stem) == InCameraOrder(list, FilesOfStem(list, stem))
<1>1. PICK n, alone, m, stemAt : Grouping(list, n, alone, m, stemAt)
  BY GroupShape
<1>2. /\ n \in Nat /\ m \in Nat /\ DOMAIN answer = 1..(n + m)
      /\ \A k \in 1..n : answer[k] = Alone(list[alone[k]], Siblings(list))
      /\ \A k \in 1..m : answer[n + k] = Recorded(list, stemAt[k])
  BY <1>1 DEF Grouping
<1>3. /\ \A k \in 1..n : alone[k] \in FilesAlone(list)
      /\ \A k, l \in 1..n : alone[k] = alone[l] => k = l
      /\ \A i \in FilesAlone(list) : \E k \in 1..n : alone[k] = i
  <2>1. alone \in Bijection(1..n, FilesAlone(list))
    BY <1>1 DEF Grouping
  <2> QED
    BY <2>1, OneToOne
<1>4. /\ \A k \in 1..m : stemAt[k] \in Stems(list)
      /\ \A k, l \in 1..m : stemAt[k] = stemAt[l] => k = l
      /\ \A stem \in Stems(list) : \E k \in 1..m : stemAt[k] = stem
  <2>1. stemAt \in Bijection(1..m, Stems(list))
    BY <1>1 DEF Grouping
  <2> QED
    BY <2>1, OneToOne
<1>5. ASSUME NEW stem \in Stems(list)
      PROVE  LET c == Cardinality(FilesOfStem(list, stem))
             IN /\ \A k \in 1..c : places(stem)[k] \in FilesOfStem(list, stem)
                /\ \A k, l \in 1..c : places(stem)[k] = places(stem)[l] => k = l
                /\ \A i \in FilesOfStem(list, stem) : \E k \in 1..c : places(stem)[k] = i
  <2> DEFINE c == Cardinality(FilesOfStem(list, stem))
             it == places(stem)
  <2>1. it \in Bijection(1..c, FilesOfStem(list, stem)) /\ \A k \in 1..c : it[k] \in FilesOfStem(list, stem)
    BY StemPlaces
  <2> HIDE DEF c, it
  <2>2. /\ \A k, l \in 1..c : it[k] = it[l] => k = l
        /\ \A i \in FilesOfStem(list, stem) : \E k \in 1..c : it[k] = i
    BY <2>1, OneToOne
  <2> QED
    BY <2>1, <2>2 DEF c, it
<1>6. ASSUME NEW k \in 1..n
      PROVE  /\ answer[k].members = <<list[alone[k]]>>
             /\ answer[k].origins[1] \subseteq {Assess(list[alone[k]].probe, Siblings(list))}
  BY <1>2, AloneRecording
<1>7. ASSUME NEW k \in 1..m
      PROVE  LET c == Cardinality(FilesOfStem(list, stemAt[k]))
             IN /\ answer[n + k].members = [l \in 1..c |-> list[places(stemAt[k])[l]]]
                /\ \A l \in 1..c : answer[n + k].origins[l] = {Assess(answer[n + k].members[l].probe, Siblings(list))}
  <2> DEFINE stem == stemAt[k]
             siblings == Siblings(list)
             r == OfStem(list, stem, siblings)
             c == Cardinality(FilesOfStem(list, stem))
  <2>1. stem \in Stems(list) /\ answer[n + k] = r
    BY <1>2, <1>4 DEF Recorded
  <2> HIDE DEF stem, siblings
  <2>2. /\ r.members = [l \in 1..c |-> list[places(stem)[l]]]
        /\ \A l \in 1..c : r.origins[l] = {Assess(r.members[l].probe, siblings)}
    BY <2>1, StemRecording
  <2> QED
    BY <2>1, <2>2 DEF stem, siblings
<1> HIDE DEF answer, places
<1> DEFINE from(r, k) == IF r <= n THEN alone[r] ELSE places(stemAt[r - n])[k]
           source == [x \in MembersOf(answer) |-> from(x[1], x[2])]
<1>8. \A x : x \in MembersOf(answer) <=>
               \E r \in DOMAIN answer : \E k \in DOMAIN answer[r].members : x = <<r, k>>
  BY DEF MembersOf
<1>9. ASSUME NEW r \in DOMAIN answer, NEW k \in DOMAIN answer[r].members, r \in 1..n
      PROVE  /\ k = 1 /\ from(r, k) = alone[r] /\ from(r, k) \in FilesAlone(list)
             /\ answer[r].members[k] = list[from(r, k)]
             /\ answer[r].origins[k] \subseteq {Assess(list[from(r, k)].probe, Siblings(list))}
  <2>1. DOMAIN <<list[alone[r]]>> = {1} /\ <<list[alone[r]]>>[1] = list[alone[r]]
    OBVIOUS
  <2>2. k = 1 /\ answer[r].members[k] = list[alone[r]]
    BY <1>6, <1>9, <2>1
  <2>3. r <= n
    BY <1>2, <1>9
  <2> QED
    BY <1>3, <1>6, <1>9, <2>2, <2>3
<1>10. ASSUME NEW j \in 1..m, NEW k \in DOMAIN answer[n + j].members
       PROVE  /\ from(n + j, k) = places(stemAt[j])[k]
              /\ k \in 1..Cardinality(FilesOfStem(list, stemAt[j]))
              /\ from(n + j, k) \in FilesOfStem(list, stemAt[j])
              /\ answer[n + j].members[k] = list[from(n + j, k)]
              /\ answer[n + j].origins[k] = {Assess(list[from(n + j, k)].probe, Siblings(list))}
  <2>1. ~(n + j <= n) /\ (n + j) - n = j
    BY <1>2
  <2>2. from(n + j, k) = places(stemAt[j])[k]
    BY <2>1
  <2>3. k \in 1..Cardinality(FilesOfStem(list, stemAt[j]))
    BY <1>7
  <2>4. places(stemAt[j])[k] \in FilesOfStem(list, stemAt[j])
    BY <1>4, <1>5, <2>3
  <2>5. answer[n + j].members[k] = list[places(stemAt[j])[k]]
    BY <1>7, <2>3
  <2>6. answer[n + j].origins[k] = {Assess(answer[n + j].members[k].probe, Siblings(list))}
    BY <1>7, <2>3
  <2>7. answer[n + j].members[k] = list[from(n + j, k)]
    BY <2>2, <2>5
  <2>8. from(n + j, k) \in FilesOfStem(list, stemAt[j])
    BY <2>2, <2>4
  <2> HIDE DEF from
  <2> QED
    BY <2>2, <2>3, <2>6, <2>7, <2>8
<1>11. FilesAlone(list) \subseteq DOMAIN list
  BY DEF FilesAlone
<1>12. \A stem : \A i \in FilesOfStem(list, stem) :
          i \in DOMAIN list /\ i \notin FilesAlone(list) /\ Stem(list[i]) = stem
  BY DEF FilesAlone, FilesOfStem
<1>13. ASSUME NEW r \in DOMAIN answer, NEW k \in DOMAIN answer[r].members
       PROVE  /\ from(r, k) \in DOMAIN list
              /\ answer[r].members[k] = list[from(r, k)]
              /\ answer[r].origins[k] \subseteq {Assess(list[from(r, k)].probe, Siblings(list))}
              /\ r \in 1..n => from(r, k) \in FilesAlone(list)
              /\ r \notin 1..n => /\ r - n \in 1..m /\ r = n + (r - n)
                                  /\ from(r, k) \in FilesOfStem(list, stemAt[r - n])
  <2> HIDE DEF from
  <2>1. CASE r \in 1..n
    BY <1>9, <1>11, <2>1
  <2>2. CASE r \notin 1..n
    <3>1. PICK j \in 1..m : r = n + j /\ r - n = j
      BY <1>2, <2>2, EitherSide
    <3>2. k \in DOMAIN answer[n + j].members
      BY <3>1
    <3> QED
      BY <1>10, <1>12, <2>2, <3>1, <3>2
  <2> QED
    BY <2>1, <2>2
<1>14. ASSUME NEW r \in DOMAIN answer, NEW k \in DOMAIN answer[r].members,
              NEW s \in DOMAIN answer, NEW l \in DOMAIN answer[s].members,
              from(r, k) = from(s, l)
       PROVE  r = s /\ k = l
  <2>1. CASE r \in 1..n
    <3>1. s \in 1..n
      <4> HIDE DEF from
      <4> QED
        BY <1>12, <1>13, <1>14, <2>1
    <3>2. k = 1 /\ from(r, k) = alone[r] /\ l = 1 /\ from(s, l) = alone[s]
      <4> HIDE DEF from
      <4>1. k = 1 /\ from(r, k) = alone[r]
        BY <1>9, <2>1
      <4>2. l = 1 /\ from(s, l) = alone[s]
        BY <1>9, <3>1
      <4> QED
        BY <4>1, <4>2
    <3> QED
      BY <1>3, <1>14, <2>1, <3>1, <3>2
  <2>2. CASE r \notin 1..n
    <3> HIDE DEF from
    <3>1. s \notin 1..n
      BY <1>12, <1>13, <1>14, <2>2
    <3>2. PICK i \in 1..m : r = n + i /\ r - n = i /\ from(r, k) \in FilesOfStem(list, stemAt[i])
      BY <1>13, <2>2
    <3>3. PICK j \in 1..m : s = n + j /\ s - n = j /\ from(s, l) \in FilesOfStem(list, stemAt[j])
      BY <1>13, <3>1
    <3>4. stemAt[i] = stemAt[j]
      BY <1>12, <1>14, <3>2, <3>3
    <3>5. i = j /\ r = s
      BY <1>4, <3>2, <3>3, <3>4
    <3>6. /\ k \in 1..Cardinality(FilesOfStem(list, stemAt[i])) /\ from(r, k) = places(stemAt[i])[k]
          /\ l \in 1..Cardinality(FilesOfStem(list, stemAt[i])) /\ from(s, l) = places(stemAt[i])[l]
      BY <1>10, <3>2, <3>3, <3>5
    <3> QED
      BY <1>4, <1>5, <1>14, <3>5, <3>6
  <2> QED
    BY <2>1, <2>2
<1>15. ASSUME NEW i \in DOMAIN list
       PROVE  \E r \in DOMAIN answer : \E k \in DOMAIN answer[r].members : from(r, k) = i
  <2>1. CASE i \in FilesAlone(list)
    <3>1. PICK r \in 1..n : alone[r] = i
      BY <1>3, <2>1
    <3>2. r \in DOMAIN answer /\ r <= n
      BY <1>2, <3>1
    <3>3. 1 \in DOMAIN answer[r].members
      BY <1>6
    <3>4. from(r, 1) = i
      BY <3>1, <3>2
    <3> QED
      BY <3>2, <3>3, <3>4
  <2>2. CASE i \notin FilesAlone(list)
    <3>1. Stem(list[i]) \in Stems(list) /\ i \in FilesOfStem(list, Stem(list[i]))
      BY <2>2 DEF Stems, FilesOfStem, FilesAlone
    <3>2. PICK j \in 1..m : stemAt[j] = Stem(list[i])
      BY <1>4, <3>1
    <3>3. PICK k \in 1..Cardinality(FilesOfStem(list, stemAt[j])) : places(stemAt[j])[k] = i
      BY <1>5, <3>1, <3>2
    <3>4. k \in DOMAIN answer[n + j].members /\ n + j \in DOMAIN answer
      <4>1. k \in DOMAIN answer[n + j].members
        BY <1>7
      <4>2. n + j \in 1..(n + m)
        BY <1>2
      <4> QED
        BY <1>2, <4>1, <4>2
    <3>5. from(n + j, k) = i
      <4> HIDE DEF from
      <4> QED
        BY <1>10, <3>3, <3>4
    <3> QED
      BY <3>4, <3>5
  <2> QED
    BY <2>1, <2>2
<1> HIDE DEF from
<1>16. \A r \in DOMAIN answer : \A k \in DOMAIN answer[r].members :
          <<r, k>> \in MembersOf(answer) /\ source[<<r, k>>] = from(r, k)
  BY <1>8
<1>17. source \in Bijection(MembersOf(answer), DOMAIN list)
  <2> DEFINE M == MembersOf(answer)
  <2>1. source \in [M -> DOMAIN list]
    BY <1>8, <1>13
  <2>2. \A x, y \in M : source[x] = source[y] => x = y
    BY <1>8, <1>14, <1>16
  <2>3. \A i \in DOMAIN list : \E x \in M : source[x] = i
    BY <1>15, <1>16
  <2> HIDE DEF source, M
  <2>4. source \in Bijection(M, DOMAIN list)
    BY <2>1, <2>2, <2>3, Fun_IsBij
  <2> QED
    BY <2>4 DEF M
<1> HIDE DEF source
<1> QED
  BY <1>13, <1>16, <1>17 DEF answer

(* As many members are of a path as files are, and as many members as files. *)
AnsweredFrom(s, p) == {i \in DOMAIN s : s[i].path = p}
AtPath(answer, p) == {x \in MembersOf(answer) : answer[x[1]].members[x[2]].path = p}

LEMMA Counted ==
    ASSUME NEW list, Files(list)
    PROVE  LET answer == Group(list)
           IN /\ Cardinality(MembersOf(answer)) = Len(list)
              /\ \A p : Cardinality(AtPath(answer, p)) = Cardinality(AnsweredFrom(list, p))
<1> DEFINE answer == Group(list)
           M == MembersOf(answer)
           I == DOMAIN list
<1>1. PICK source \in Bijection(M, I) :
         \A r \in DOMAIN answer : \A k \in DOMAIN answer[r].members :
            answer[r].members[k] = list[source[<<r, k>>]]
  BY Partition
<1>2. \A x \in M : answer[x[1]].members[x[2]] = list[source[x]]
  BY <1>1 DEF MembersOf
<1>3. IsFiniteSet(I) /\ Cardinality(I) = Len(list)
  BY FilePlaces
<1> HIDE DEF answer, M, I
<1>4. /\ source \in [M -> I] /\ source \in Injection(M, I)
      /\ \A x, y \in M : source[x] = source[y] => x = y
      /\ \A i \in I : \E x \in M : source[x] = i
  BY <1>1, Fun_BijectionProperties
<1>5. IsFiniteSet(M)
  BY <1>3, <1>4, FS_Injection
<1>6. Cardinality(M) = Len(list)
  <2>1. ExistsBijection(M, I)
    BY <1>1 DEF ExistsBijection
  <2> QED
    BY <1>3, <1>5, <2>1, FS_Bijection
<1>7. ASSUME NEW p
      PROVE  Cardinality(AtPath(answer, p)) = Cardinality(AnsweredFrom(list, p))
  <2> DEFINE Mp == AtPath(answer, p)
             Ip == AnsweredFrom(list, p)
             f == [x \in Mp |-> source[x]]
  <2>1. \A x \in M : x \in Mp <=> source[x] \in Ip
    BY <1>2, <1>4 DEF AtPath, AnsweredFrom, M, I
  <2>2. Mp \in SUBSET M /\ Ip \in SUBSET I
    BY DEF AtPath, AnsweredFrom, M, I
  <2> HIDE DEF Mp, Ip
  <2>3. /\ f \in [Mp -> Ip]
        /\ \A x, y \in Mp : f[x] = f[y] => x = y
        /\ \A i \in Ip : \E x \in Mp : f[x] = i
    BY <1>4, <2>1, <2>2
  <2> HIDE DEF f
  <2>4. f \in Bijection(Mp, Ip)
    BY <2>3, Fun_IsBij
  <2>5. IsFiniteSet(Mp) /\ ExistsBijection(Mp, Ip)
    BY <1>5, <2>2, <2>4, FS_Subset DEF ExistsBijection
  <2>6. Cardinality(Mp) = Cardinality(Ip)
    BY <2>5, FS_Bijection
  <2> QED
    BY <2>6 DEF Mp, Ip
<1> QED
  BY <1>6, <1>7 DEF answer, M, I

(* What a recording of a stem has, and that no other is of its stem. *)
LEMMA Whole ==
    ASSUME NEW list, Files(list),
           NEW r \in DOMAIN Group(list), Group(list)[r].kind \in {"paired", "unpaired"}
    PROVE  LET mine == Group(list)[r].members
           IN /\ Group(list)[r].kind = "paired" <=> Len(mine) > 1
              /\ \A i, j \in DOMAIN mine :
                   /\ Stem(mine[i]) = Stem(mine[j])
                   /\ i < j => CameraOrder[Camera(mine[i])] <= CameraOrder[Camera(mine[j])]
              /\ \A s \in DOMAIN Group(list) :
                   /\ Group(list)[s].kind \in {"paired", "unpaired"}
                   /\ Stem(mine[1]) = Stem(Group(list)[s].members[1])
                   => r = s
<1> DEFINE answer == Group(list)
           siblings == Siblings(list)
<1>1. PICK n, alone, m, stemAt : Grouping(list, n, alone, m, stemAt)
  BY GroupShape
<1>2. /\ n \in Nat /\ m \in Nat /\ DOMAIN answer = 1..(n + m)
      /\ \A k \in 1..n : answer[k] = Alone(list[alone[k]], siblings)
      /\ \A k \in 1..m : answer[n + k] = OfStem(list, stemAt[k], siblings)
  BY <1>1 DEF Grouping, Recorded
<1>3. /\ \A k \in 1..m : stemAt[k] \in Stems(list)
      /\ \A k, l \in 1..m : stemAt[k] = stemAt[l] => k = l
  <2>1. stemAt \in Bijection(1..m, Stems(list))
    BY <1>1 DEF Grouping
  <2> QED
    BY <2>1, OneToOne
<1> HIDE DEF answer, siblings
<1>4. ASSUME NEW s \in DOMAIN answer, answer[s].kind \in {"paired", "unpaired"}
      PROVE  \E j \in 1..m : s = n + j /\ answer[s] = OfStem(list, stemAt[j], siblings)
  <2>1. s \notin 1..n
    BY <1>2, <1>4, AloneRecording
  <2>2. s - n \in 1..m /\ s = n + (s - n)
    BY <1>2, <2>1, EitherSide
  <2> QED
    BY <1>2, <2>2
<1>5. ASSUME NEW j \in 1..m
      PROVE  LET of == OfStem(list, stemAt[j], siblings).members
             IN 1 \in DOMAIN of /\ \A k \in DOMAIN of : Stem(of[k]) = stemAt[j]
  <2> DEFINE stem == stemAt[j]
             of == OfStem(list, stem, siblings).members
  <2>1. stem \in Stems(list)
    BY <1>3
  <2> HIDE DEF stem
  <2>2. 1 \in DOMAIN of /\ \A k \in DOMAIN of : Stem(of[k]) = stem
    BY <2>1, StemRecording
  <2> QED
    BY <2>2 DEF stem
<1>6. PICK j \in 1..m : r = n + j /\ answer[r] = OfStem(list, stemAt[j], siblings)
  BY <1>4 DEF answer
<1> DEFINE mine == answer[r].members
           stem == stemAt[j]
           c == Cardinality(FilesOfStem(list, stem))
           places == InCameraOrder(list, FilesOfStem(list, stem))
<1>7. stem \in Stems(list) /\ answer[r] = OfStem(list, stem, siblings)
  BY <1>3, <1>6
<1> HIDE DEF stem
<1>8. mine = [k \in 1..c |-> list[places[k]]] /\ (answer[r].kind = "paired" <=> Len(mine) > 1)
  BY <1>7, StemRecording
<1>9. \A k, l \in 1..c : k < l => OrderOf(list, places[k]) <= OrderOf(list, places[l])
  BY <1>7, StemPlaces
<1>10. 1 \in DOMAIN mine /\ \A k \in DOMAIN mine : Stem(mine[k]) = stem
  BY <1>5, <1>6 DEF stem
<1> HIDE DEF c, places
<1>11. \A k, l \in DOMAIN mine : k < l => CameraOrder[Camera(mine[k])] <= CameraOrder[Camera(mine[l])]
  BY <1>8, <1>9 DEF OrderOf
<1>12. ASSUME NEW s \in DOMAIN answer, answer[s].kind \in {"paired", "unpaired"},
              Stem(mine[1]) = Stem(answer[s].members[1])
       PROVE  r = s
  <2>1. PICK l \in 1..m : s = n + l /\ answer[s] = OfStem(list, stemAt[l], siblings)
    BY <1>4, <1>12
  <2>2. Stem(answer[s].members[1]) = stemAt[l]
    BY <1>5, <2>1
  <2>3. stemAt[l] = stemAt[j]
    BY <1>10, <1>12, <2>2 DEF stem
  <2> QED
    BY <1>3, <1>6, <2>1, <2>3
<1> QED
  BY <1>8, <1>10, <1>11, <1>12 DEF answer

-----------------------------------------------------------------------------
(* The file of a path is another than f, which was found: it was written in the same second, or the clock
   is past it and so is the file. *)
Sharing(p, f) == \E other \in versions[p] : other # f /\ other.modified = f.modified
Passed(p, f) == clock > f.modified /\ (files[p] = Missing \/ files[p].modified > f.modified)
Changed(p, f) == Sharing(p, f) \/ Passed(p, f)

(* What is said of a file is what it holds, or what is said of a file that did not read. *)
Says(p, f, probe) ==
    \E content \in f.content : probe = ProbeSource(library.names[p], f.size, Summarise(content))
Failed(p, probe) == p \in failures /\ probe.unreadable

EntryHolds(e) ==
    /\ e.path \in Paths
    /\ \E f \in versions[e.path] :
         /\ e.size = f.size /\ e.modified = f.modified
         /\ Says(e.path, f, e.probe) \/ Failed(e.path, e.probe) \/ f = Missing \/ Changed(e.path, f)

(* Dates are seconds of the clock, which starts at one; a file is one of its versions. *)
Dated ==
    /\ library \in Library
    /\ clock \in Nat \ {0}
    /\ DOMAIN files = Paths /\ DOMAIN versions = Paths
    /\ \A p \in Paths : files[p] \in versions[p]
    /\ \A p \in Paths : \A f \in versions[p] : f.modified \in 0..clock

(* The scan follows the file it found, unless it has changed. *)
Following ==
    pc \in {"measure", "open", "probe"} =>
        /\ queue # <<>>
        /\ stat \in versions[Path]
        /\ \/ Changed(Path, stat)
           \/ /\ files[Path] \in {stat, Missing}
              /\ pc # "measure" => opened.size = stat.size
              /\ pc = "probe" => opened.content = stat.content

Answered(a) ==
    /\ a.path \in Paths
    /\ a.hit =>
         \/ Says(a.path, a.seen, a.probe)
         \/ Sharing(a.path, a.seen)
         \/ Failed(a.path, a.probe)
         \/ a.seen = Missing

OpenedIsAFile == DOMAIN opened = {"size", "modified", "content"}

Inv ==
    /\ Dated
    /\ queue \in Seq(Paths)
    /\ OpenedIsAFile
    /\ Following
    /\ \A e \in cache : EntryHolds(e)
    /\ saved.kind = "whole" => \A e \in saved.entries : EntryHolds(e)
    /\ IsSequence(probed)
    /\ \A i \in DOMAIN probed : Answered(probed[i])

-----------------------------------------------------------------------------
LEMMA Appended ==
    ASSUME NEW s, NEW x, IsSequence(s)
    PROVE  /\ IsSequence(Append(s, x))
           /\ \A i \in DOMAIN Append(s, x) : Append(s, x)[i] = x \/ (i \in DOMAIN s /\ Append(s, x)[i] = s[i])
<1> DEFINE S == {s[i] : i \in DOMAIN s}
           T == S \cup {x}
           t == Append(s, x)
<1>1. s \in Seq(T) /\ x \in T
  <2>1. s \in Seq(S)
    BY DEF IsSequence
  <2>2. s \in [1..Len(s) -> S] /\ Len(s) \in Nat
    BY <2>1
  <2>3. s \in [1..Len(s) -> T]
    BY <2>2
  <2> QED
    BY <2>2, <2>3
<1>2. /\ t \in Seq(T) /\ DOMAIN s = 1..Len(s) /\ DOMAIN t = 1..(Len(s) + 1) /\ Len(s) \in Nat
      /\ \A i \in 1..Len(s) : t[i] = s[i]
      /\ t[Len(s) + 1] = x
  <2> HIDE DEF T
  <2>1. t \in Seq(T) /\ Len(t) = Len(s) + 1 /\ \A i \in 1..Len(s) : t[i] = s[i]
    BY <1>1, AppendProperties
  <2>2. t[Len(s) + 1] = x
    BY <1>1, AppendProperties
  <2>3. Len(s) \in Nat /\ DOMAIN s = 1..Len(s) /\ DOMAIN t = 1..Len(t)
    BY <1>1, <2>1
  <2> QED
    BY <2>1, <2>2, <2>3
<1>3. t \in Seq({t[i] : i \in DOMAIN t})
  <2>1. t = [i \in 1..(Len(s) + 1) |-> t[i]]
    <3> HIDE DEF T, t
    <3>1. t \in [1..Len(t) -> T] /\ Len(t) = Len(s) + 1
      BY <1>2
    <3> QED
      BY <3>1
  <2>2. Len(s) + 1 \in Nat
    BY <1>2
  <2>3. t \in [1..(Len(s) + 1) -> {t[i] : i \in DOMAIN t}]
    <3>1. DOMAIN t = 1..(Len(s) + 1)
      BY <1>2
    <3> HIDE DEF t
    <3> QED
      BY <2>1, <3>1
  <2> DEFINE R == {t[i] : i \in DOMAIN t}
  <2> HIDE DEF t, R
  <2>4. \A n \in Nat : t \in [1..n -> R] => t \in Seq(R)
    OBVIOUS
  <2> QED
    BY <2>2, <2>3, <2>4 DEF R
<1> QED
  BY <1>2, <1>3 DEF IsSequence

LEMMA EmptyIsSequence == IsSequence(<<>>)
BY DEF IsSequence

(* The clock and the versions of a file only grow, and so do the failures; a file changes to a dated one
   or is removed.  So what has changed stays changed, and what holds of an entry or an answer stays true. *)
Later ==
    /\ library' = library
    /\ clock' >= clock
    /\ failures \subseteq failures'
    /\ \A p \in Paths : versions[p] \subseteq versions'[p]
    /\ \A p \in Paths : files'[p] = files[p] \/ files'[p] = Missing \/ files'[p].modified = clock

LEMMA ChangedStays ==
    ASSUME Dated, Dated', Later, NEW p \in Paths, NEW f \in versions[p], Changed(p, f)
    PROVE  Changed(p, f)'
<1>1. CASE Sharing(p, f)
  BY <1>1 DEF Later, Sharing, Changed
<1>2. CASE Passed(p, f)
  <2>1. clock \in Nat /\ clock' \in Nat /\ f.modified \in Nat
    BY DEF Dated
  <2> QED
    BY <1>2, <2>1 DEF Later, Passed, Changed
<1> QED
  BY <1>1, <1>2 DEF Changed

LEMMA EntryStays ==
    ASSUME Dated, Dated', Later, NEW e, EntryHolds(e)
    PROVE  EntryHolds(e)'
<1>1. PICK f \in versions[e.path] :
         /\ e.size = f.size /\ e.modified = f.modified
         /\ Says(e.path, f, e.probe) \/ Failed(e.path, e.probe) \/ f = Missing \/ Changed(e.path, f)
  BY DEF EntryHolds
<1>2. e.path \in Paths /\ e.path \in Paths' /\ f \in versions'[e.path]
  BY DEF EntryHolds, Later, Paths
<1>3. Changed(e.path, f) => Changed(e.path, f)'
  BY <1>2, ChangedStays
<1>4. Says(e.path, f, e.probe) => Says(e.path, f, e.probe)'
  BY DEF Says, Later
<1>5. Failed(e.path, e.probe) => Failed(e.path, e.probe)'
  BY DEF Failed, Later
<1> QED
  BY <1>1, <1>2, <1>3, <1>4, <1>5 DEF EntryHolds

LEMMA AnswerStays ==
    ASSUME Later, NEW a, Answered(a)
    PROVE  Answered(a)'
<1>1. a.path \in Paths /\ a.path \in Paths'
  BY DEF Answered, Later, Paths
<1>2. Says(a.path, a.seen, a.probe) => Says(a.path, a.seen, a.probe)'
  BY DEF Says, Later
<1>3. Sharing(a.path, a.seen) => Sharing(a.path, a.seen)'
  BY <1>1 DEF Sharing, Later
<1>4. Failed(a.path, a.probe) => Failed(a.path, a.probe)'
  BY DEF Failed, Later
<1> QED
  BY <1>1, <1>2, <1>3, <1>4 DEF Answered

(* A step that leaves the files alone is later, and dates as before. *)
LEMMA FilesStill ==
    ASSUME Dated, UNCHANGED <<library, files, versions, clock>>, failures \subseteq failures'
    PROVE  Dated' /\ Later
BY DEF Dated, Later, Paths

LEMMA LaterStep ==
    ASSUME Dated, [Next]_vars
    PROVE  Dated' /\ Later
<1>1. ASSUME Write
      PROVE  Dated' /\ Later
  <2>1. PICK p \in Paths : \E file : Becomes(p, file) /\ (file = Missing \/ file.modified = clock)
    <3>1. PICK p \in Paths :
            \/ \E content \in Contents :
                 Becomes(p, [size |-> content.size, modified |-> clock, content |-> {content}])
            \/ Becomes(p, Missing)
      BY <1>1 DEF Write
    <3>2. ASSUME NEW content \in Contents,
                 Becomes(p, [size |-> content.size, modified |-> clock, content |-> {content}])
          PROVE  \E file : Becomes(p, file) /\ (file = Missing \/ file.modified = clock)
      <4> DEFINE file == [size |-> content.size, modified |-> clock, content |-> {content}]
      <4>1. Becomes(p, file) /\ file.modified = clock
        BY <3>2
      <4> HIDE DEF file
      <4> QED
        BY <4>1
    <3> QED
      BY <3>1, <3>2
  <2>2. PICK file : Becomes(p, file) /\ (file = Missing \/ file.modified = clock)
    BY <2>1
  <2>3. UNCHANGED <<library, clock, failures>>
    BY <1>1 DEF Write
  <2>4. /\ DOMAIN files' = Paths /\ DOMAIN versions' = Paths
        /\ files'[p] = file /\ versions'[p] = versions[p] \cup {file}
        /\ \A q \in Paths : q # p => files'[q] = files[q] /\ versions'[q] = versions[q]
    BY <2>2 DEF Dated, Becomes
  <2>5. file.modified \in 0..clock
    BY <2>2 DEF Dated, Missing
  <2>6. Later
    <3>1. clock' >= clock
      BY <2>3 DEF Dated
    <3>2. \A q \in Paths : versions[q] \subseteq versions'[q]
      BY <2>4
    <3>3. \A q \in Paths : files'[q] = files[q] \/ files'[q] = Missing \/ files'[q].modified = clock
      BY <2>2, <2>4
    <3> QED
      BY <2>3, <3>1, <3>2, <3>3 DEF Later
  <2> QED
    BY <2>2, <2>3, <2>4, <2>5, <2>6 DEF Dated, Paths
<1>2. ASSUME Tick
      PROVE  Dated' /\ Later
  BY <1>2 DEF Tick, Dated, Later, Paths
<1>3. ASSUME Detect \/ Crash \/ UNCHANGED vars
      PROVE  UNCHANGED <<library, files, versions, clock>> /\ failures \subseteq failures'
  <2>1. CASE Load
    BY <2>1 DEF Load, Fail
  <2>2. CASE Collect \/ RefuseFile \/ Probe \/ RefuseSave
    BY <2>2 DEF Collect, RefuseFile, Probe, RefuseSave, Fail
  <2>3. CASE SkipByExtension \/ Stat \/ MeasureFile \/ OpenFile
    BY <2>3 DEF SkipByExtension, Stat, MeasureFile, OpenFile, system
  <2>4. CASE Answer \/ EmptyText \/ WriteText \/ Return \/ Crash \/ UNCHANGED vars
    BY <2>4 DEF Answer, EmptyText, WriteText, Return, Crash, system, vars
  <2> QED
    BY <1>3, <2>1, <2>2, <2>3, <2>4 DEF Detect
<1> QED
  BY <1>1, <1>2, <1>3, FilesStill DEF Next

(* What is collected is some of what was asked for, and all of it unless a listing failed. *)
LEMMA CollectLists ==
    ASSUME Collect
    PROVE  /\ \E given \in SUBSET Asked : Lists(given)
           /\ Lists(Asked) \/ Listing \in failures'
BY DEF Collect, Fail

(* What is collected are paths, and the queue only loses its head. *)
LEMMA QueueStep ==
    ASSUME Dated, queue \in Seq(Paths), Following, [Next]_vars
    PROVE  (queue \in Seq(Paths))'
<1>1. Paths' = Paths
  BY LaterStep DEF Later, Paths
<1>2. ASSUME Collect
      PROVE  queue' \in Seq(Paths)
  <2>1. IsFiniteSet(Paths) /\ IsFiniteSet(DOMAIN library.given)
    BY LibraryAssumption DEF Dated, Paths
  <2>2. IsFiniteSet(Asked)
    BY <2>1, FS_Product, FS_Subset DEF Asked
  <2>3. PICK given \in SUBSET Asked : Lists(given)
    BY <1>2, CollectLists
  <2>4. Cardinality(given) \in Nat
    BY <2>2, <2>3, FS_Subset, FS_CardinalityType
  <2>5. queue' \in [1..Cardinality(given) -> Paths]
    BY <2>3 DEF Lists
  <2> HIDE DEF Asked
  <2> QED
    BY <2>4, <2>5
<1>3. queue' = queue \/ queue' = <<>> \/ (queue # <<>> /\ queue' = Tail(queue)) \/ Collect
  <2>1. CASE SkipByExtension \/ Stat
    BY <2>1 DEF SkipByExtension, Stat, Push
  <2>2. CASE RefuseFile \/ Probe
    BY <2>2 DEF RefuseFile, Probe, Push, Following
  <2>3. CASE Load \/ MeasureFile \/ OpenFile \/ Answer \/ EmptyText \/ WriteText
    BY <2>3 DEF Load, MeasureFile, OpenFile, Answer, EmptyText, WriteText
  <2>4. CASE RefuseSave \/ Return \/ Crash
    BY <2>4 DEF RefuseSave, Return, Crash, Forget
  <2>5. CASE Write \/ Tick \/ UNCHANGED vars
    BY <2>5 DEF Write, Tick, vars
  <2> QED
    BY <2>1, <2>2, <2>3, <2>4, <2>5 DEF Next, Detect
<1>4. queue # <<>> => Tail(queue) \in Seq(Paths)
  <2> DEFINE S == Paths
  <2> HIDE DEF S
  <2>1. queue \in Seq(S) /\ queue # <<>> => Tail(queue) \in Seq(S)
    BY HeadTailProperties
  <2> QED
    BY <2>1 DEF S
<1>5. queue' \in Seq(Paths)
  <2>1. <<>> \in Seq(Paths)
    OBVIOUS
  <2> QED
    BY <1>2, <1>3, <1>4, <2>1
<1> QED
  BY <1>1, <1>5

LEMMA PathTyped == ASSUME queue \in Seq(Paths), queue # <<>> PROVE Path \in Paths
BY DEF Path

LEMMA OpenedStep ==
    ASSUME OpenedIsAFile, [Next]_vars
    PROVE  OpenedIsAFile'
<1>1. CASE MeasureFile
  BY <1>1 DEF MeasureFile, OpenedIsAFile, Missing
<1>2. CASE OpenFile
  BY <1>2 DEF OpenFile, OpenedIsAFile
<1>3. CASE RefuseSave \/ Return \/ Crash
  BY <1>3 DEF RefuseSave, Return, Crash, Forget, OpenedIsAFile, Missing
<1>4. CASE Load \/ Collect \/ SkipByExtension \/ Stat \/ RefuseFile \/ Probe
  BY <1>4 DEF Load, Collect, SkipByExtension, Stat, RefuseFile, Probe, OpenedIsAFile
<1>5. CASE Answer \/ EmptyText \/ WriteText \/ Write \/ Tick \/ UNCHANGED vars
  BY <1>5 DEF Answer, EmptyText, WriteText, Write, Tick, vars, OpenedIsAFile
<1> QED
  BY <1>1, <1>2, <1>3, <1>4, <1>5 DEF Next, Detect

(* Others may write while a file is followed: what was found and is no longer there has changed. *)
LEMMA FollowingStays ==
    ASSUME Dated, Dated', Later, queue \in Seq(Paths), Following, UNCHANGED <<pc, queue, stat, opened>>
    PROVE  Following'
<1> SUFFICES ASSUME pc \in {"measure", "open", "probe"}
             PROVE  Following'
  BY DEF Following
<1>1. PICK p, f : p \in Paths /\ p = Path /\ f = stat
  BY PathTyped DEF Following
<1>2. f \in versions[p] /\ f \in versions'[p] /\ Path' = p /\ stat' = f /\ queue' # <<>>
  BY <1>1 DEF Following, Later, Path
<1>3. CASE Changed(p, f)
  <2>1. Changed(p, f)'
    BY <1>1, <1>2, <1>3, ChangedStays
  <2> QED
    BY <1>2, <2>1 DEF Following
<1>4. CASE /\ files[p] \in {f, Missing}
           /\ pc # "measure" => opened.size = f.size
           /\ pc = "probe" => opened.content = f.content
  <2>1. CASE files'[p] \in {f, Missing}
    BY <1>2, <1>4, <2>1 DEF Following
  <2>2. CASE files'[p] \notin {f, Missing}
    <3>1. files'[p].modified = clock /\ files'[p] \in versions'[p] /\ f.modified \in 0..clock /\ clock \in Nat
      BY <1>1, <1>2, <1>4, <2>2 DEF Later, Dated, Paths
    <3>2. clock' \in Nat /\ clock' >= clock
      BY DEF Later, Dated
    <3>3. CASE f.modified = clock
      BY <1>2, <2>2, <3>1, <3>3 DEF Following, Changed, Sharing
    <3>4. CASE f.modified < clock
      <4>1. Passed(p, f)'
        BY <3>1, <3>2, <3>4 DEF Passed
      <4> QED
        BY <1>2, <4>1 DEF Following, Changed
    <3> QED
      BY <3>1, <3>3, <3>4
  <2> QED
    BY <2>1, <2>2
<1> QED
  BY <1>1, <1>3, <1>4 DEF Following

LEMMA FollowingStep ==
    ASSUME Inv, [Next]_vars
    PROVE  Following'
<1>1. Dated /\ Dated' /\ Later /\ queue \in Seq(Paths) /\ Following /\ OpenedIsAFile
  BY LaterStep DEF Inv
<1>2. CASE Write \/ Tick \/ UNCHANGED vars
  <2>1. UNCHANGED <<pc, queue, stat, opened>>
    BY <1>2 DEF Write, Tick, vars
  <2> QED
    BY <1>1, <2>1, FollowingStays
<1>3. CASE Stat
  <2>1. CASE pc' = "measure"
    <3>1. queue # <<>> /\ stat' = files[Path] /\ UNCHANGED <<queue, files, versions>>
      BY <1>3, <2>1 DEF Stat, Push, system
    <3>2. Path \in Paths /\ Path' = Path
      BY <1>1, <3>1, PathTyped DEF Path
    <3> QED
      BY <1>1, <2>1, <3>1, <3>2 DEF Following, Dated
  <2>2. CASE pc' = "next"
    BY <2>2 DEF Following
  <2> QED
    BY <1>3, <2>1, <2>2 DEF Stat, Push
<1>4. CASE MeasureFile
  <2>1. /\ pc = "measure" /\ pc' = "open" /\ files[Path] # Missing
        /\ UNCHANGED <<queue, files, versions, clock, stat>>
        /\ opened'.size = files[Path].size
    BY <1>4 DEF MeasureFile, system, Missing
  <2>2. Path' = Path /\ (Changed(Path, stat) => Changed(Path, stat)')
    BY <2>1 DEF Path, Changed, Sharing, Passed
  <2> QED
    BY <1>1, <2>1, <2>2 DEF Following
<1>5. CASE OpenFile
  <2>1. /\ pc = "open" /\ pc' = "probe" /\ files[Path] # Missing
        /\ UNCHANGED <<queue, files, versions, clock, stat>>
        /\ opened'.size = opened.size /\ opened'.content = files[Path].content
    BY <1>1, <1>5 DEF OpenFile, system, OpenedIsAFile
  <2>2. Path' = Path /\ (Changed(Path, stat) => Changed(Path, stat)')
    BY <2>1 DEF Path, Changed, Sharing, Passed
  <2> QED
    BY <1>1, <2>1, <2>2 DEF Following
<1>6. CASE pc' \notin {"measure", "open", "probe"}
  BY <1>6 DEF Following
<1>7. CASE Load \/ Collect \/ SkipByExtension \/ RefuseFile \/ Probe \/ Answer
  <2>1. pc' \notin {"measure", "open", "probe"}
    BY <1>7 DEF Load, Collect, SkipByExtension, RefuseFile, Probe, Answer, Push
  <2> QED
    BY <1>6, <2>1
<1>8. CASE EmptyText \/ WriteText \/ RefuseSave \/ Return \/ Crash
  <2>1. pc' \notin {"measure", "open", "probe"}
    BY <1>8 DEF EmptyText, WriteText, RefuseSave, Return, Crash
  <2> QED
    BY <1>6, <2>1
<1> QED
  BY <1>2, <1>3, <1>4, <1>5, <1>7, <1>8 DEF Next, Detect

(* What is kept of a reading is of the file found, or of one that has changed. *)
LEMMA EntryMade ==
    ASSUME Inv, [Next]_vars, Probe, NEW e, e \in cache', e \notin cache
    PROVE  EntryHolds(e)'
<1>1. Dated /\ Dated' /\ Later /\ queue \in Seq(Paths) /\ Following
  BY LaterStep DEF Inv
<1>2. PICK p, f : p \in Paths /\ p = Path /\ f = stat
  BY <1>1, PathTyped DEF Following, Probe
<1>3. /\ f \in versions[p] /\ f \in versions'[p] /\ p \in Paths'
      /\ UNCHANGED <<library, files, versions, clock>>
  BY <1>1, <1>2 DEF Following, Probe, Later, Paths
<1>4. PICK probe :
        /\ e = [path |-> p, size |-> f.size, modified |-> f.modified, probe |-> probe]
        /\ \/ \E content \in opened.content \cup files[p].content :
                probe = ProbeSource(library.names[p], opened.size, Summarise(content))
           \/ probe = ProbeSource(library.names[p], opened.size, {}) /\ p \in failures'
  <2>1. PICK probe :
          /\ Keep(probe)
          /\ \/ \E content \in opened.content \cup files[p].content :
                  probe = ProbeSource(library.names[p], opened.size, Summarise(content))
             \/ probe = ProbeSource(library.names[p], opened.size, {}) /\ p \in failures'
    BY <1>2 DEF Probe, Name, Fail
  <2> QED
    BY <1>2, <2>1 DEF Keep, Insert
<1>5. e.path = p /\ e.size = f.size /\ e.modified = f.modified /\ e.probe = probe
  BY <1>4
<1>6. CASE Changed(p, f)
  <2>1. Changed(p, f)'
    BY <1>1, <1>2, <1>3, <1>6, ChangedStays
  <2> QED
    BY <1>3, <1>5, <2>1 DEF EntryHolds
<1>7. CASE files[p] \in {f, Missing} /\ opened.size = f.size /\ opened.content = f.content
  <2>1. CASE probe = ProbeSource(library.names[p], opened.size, {}) /\ p \in failures'
    <3>1. probe.unreadable
      BY <2>1 DEF ProbeSource
    <3> QED
      BY <1>3, <1>5, <2>1, <3>1 DEF EntryHolds, Failed
  <2>2. CASE \E content \in opened.content \cup files[p].content :
                probe = ProbeSource(library.names[p], opened.size, Summarise(content))
    <3>1. files[p].content \subseteq f.content
      BY <1>7 DEF Missing
    <3>2. Says(p, f, probe)'
      BY <1>3, <1>7, <2>2, <3>1 DEF Says
    <3> QED
      BY <1>3, <1>5, <3>2 DEF EntryHolds
  <2> QED
    BY <1>4, <2>1, <2>2
<1> QED
  BY <1>1, <1>2, <1>6, <1>7 DEF Following, Probe

LEMMA EntriesStep ==
    ASSUME Inv, [Next]_vars
    PROVE  /\ (\A e \in cache : EntryHolds(e))'
           /\ (saved.kind = "whole" => \A e \in saved.entries : EntryHolds(e))'
<1>1. Dated /\ Dated' /\ Later
  BY LaterStep DEF Inv
<1>2. \A e : EntryHolds(e) => EntryHolds(e)'
  BY <1>1, EntryStays
<1>3. /\ \A e \in cache : EntryHolds(e)'
      /\ saved.kind = "whole" => \A e \in saved.entries : EntryHolds(e)'
  BY <1>2 DEF Inv
<1>4. \A e \in cache' : EntryHolds(e)'
  <2>1. CASE Probe
    BY <1>3, <2>1, EntryMade
  <2>2. CASE Load
    BY <1>3, <2>2 DEF Load, Loaded
  <2>3. CASE RefuseSave \/ Return \/ Crash
    BY <2>3 DEF RefuseSave, Return, Crash, Forget
  <2>4. CASE Collect \/ SkipByExtension \/ Stat \/ MeasureFile \/ OpenFile \/ RefuseFile
    BY <1>3, <2>4 DEF Collect, SkipByExtension, Stat, MeasureFile, OpenFile, RefuseFile
  <2>5. CASE Answer \/ EmptyText \/ WriteText \/ Write \/ Tick \/ UNCHANGED vars
    BY <1>3, <2>5 DEF Answer, EmptyText, WriteText, Write, Tick, vars
  <2> QED
    BY <2>1, <2>2, <2>3, <2>4, <2>5 DEF Next, Detect
<1>5. saved'.kind = "whole" => \A e \in saved'.entries : EntryHolds(e)'
  <2>1. CASE EmptyText
    BY <2>1 DEF EmptyText, Text
  <2>2. CASE WriteText
    BY <1>3, <2>2 DEF WriteText, Text
  <2>3. CASE Load \/ Collect \/ SkipByExtension \/ Stat \/ MeasureFile \/ OpenFile
    BY <1>3, <2>3 DEF Load, Collect, SkipByExtension, Stat, MeasureFile, OpenFile, system
  <2>4. CASE RefuseFile \/ Probe \/ Answer \/ RefuseSave
    BY <1>3, <2>4 DEF RefuseFile, Probe, Answer, RefuseSave, system
  <2>5. CASE Return \/ Crash \/ Write \/ Tick \/ UNCHANGED vars
    BY <1>3, <2>5 DEF Return, Crash, Write, Tick, vars, system
  <2> QED
    BY <2>1, <2>2, <2>3, <2>4, <2>5 DEF Next, Detect
<1> QED
  BY <1>4, <1>5

(* An entry answered is of the file found, of one that shares its date, or of one that failed or was not
   there: an entry the clock has passed is not dated like the file found. *)
LEMMA HitHolds ==
    ASSUME Dated, NEW e, EntryHolds(e), e.size = files[e.path].size, e.modified = files[e.path].modified,
           NEW a, a.path = e.path, a.probe = e.probe, a.seen = files[e.path]
    PROVE  Answered(a)
<1>1. PICK p, now : p = e.path /\ now = files[p]
  OBVIOUS
<1>2. p \in Paths /\ now \in versions[p] /\ now.modified \in Nat
  <2>1. p \in Paths
    BY <1>1 DEF EntryHolds
  <2>2. now \in versions[p] /\ now.modified \in 0..clock
    BY <1>1, <2>1 DEF Dated
  <2> QED
    BY <2>1, <2>2
<1>3. PICK f \in versions[p] :
         /\ e.modified = f.modified
         /\ Says(p, f, e.probe) \/ Failed(p, e.probe) \/ f = Missing \/ Changed(p, f)
  BY <1>1 DEF EntryHolds
<1>4. a.path = p /\ a.probe = e.probe /\ a.seen = now /\ now.modified = f.modified
  BY <1>1, <1>3
<1>5. CASE f # now
  <2>1. Sharing(p, now)
    BY <1>3, <1>4, <1>5 DEF Sharing
  <2> QED
    BY <1>2, <1>4, <2>1 DEF Answered
<1>6. CASE f = now
  <2>1. Passed(p, now) => now = Missing
    BY <1>1, <1>2 DEF Passed
  <2>2. Says(p, now, e.probe) \/ Failed(p, e.probe) \/ now = Missing \/ Sharing(p, now)
    BY <1>3, <1>6, <2>1 DEF Changed
  <2> QED
    BY <1>2, <1>4, <2>2 DEF Answered
<1> QED
  BY <1>5, <1>6

LEMMA AnswersStep ==
    ASSUME Inv, [Next]_vars
    PROVE  IsSequence(probed)' /\ (\A i \in DOMAIN probed : Answered(probed[i]))'
<1>1. Dated /\ Dated' /\ Later /\ queue \in Seq(Paths) /\ Following /\ IsSequence(probed)
  BY LaterStep DEF Inv
<1>2. \A a : Answered(a) => Answered(a)'
  BY <1>1, AnswerStays
<1>3. \A i \in DOMAIN probed : \A a : a = probed[i] => Answered(a)'
  BY <1>2 DEF Inv
<1>4. ASSUME NEW a, probed' = Append(probed, a), Answered(a)'
      PROVE  IsSequence(probed)' /\ (\A i \in DOMAIN probed : Answered(probed[i]))'
  BY <1>1, <1>3, <1>4, Appended
<1>5. CASE UNCHANGED probed
  BY <1>1, <1>3, <1>5 DEF IsSequence
<1>6. CASE probed' = <<>>
  BY <1>6, EmptyIsSequence
<1>7. CASE Stat
  <2>1. CASE Get(Path, files[Path].size, files[Path].modified) = {}
    BY <1>5, <1>7, <2>1 DEF Stat
  <2>2. CASE Get(Path, files[Path].size, files[Path].modified) # {}
    <3> DEFINE known == Get(Path, files[Path].size, files[Path].modified)
    <3>1. The(known) \in known
      BY <2>2 DEF The
    <3>2. PICK e \in cache : /\ e.path = Path /\ e.size = files[Path].size
                             /\ e.modified = files[Path].modified /\ e.probe = The(known)
      BY <3>1 DEF Get
    <3>3. PICK a : a = [path |-> e.path, probe |-> e.probe, hit |-> TRUE, seen |-> files[e.path]]
      OBVIOUS
    <3>4. Answered(a)
      <4>1. a.path = e.path /\ a.probe = e.probe /\ a.seen = files[e.path]
        BY <3>3
      <4>2. EntryHolds(e) /\ e.size = files[e.path].size /\ e.modified = files[e.path].modified
        BY <3>2 DEF Inv
      <4> QED
        BY <1>1, <4>1, <4>2, HitHolds
    <3>5. probed' = Append(probed, a)
      BY <1>7, <2>2, <3>2, <3>3 DEF Stat, Push
    <3> QED
      BY <1>2, <1>4, <3>4, <3>5
  <2> QED
    BY <2>1, <2>2
<1>8. CASE RefuseFile \/ Probe
  <2>1. queue # <<>> /\ Path \in Paths /\ Paths' = Paths
    BY <1>1, <1>8, PathTyped DEF RefuseFile, Probe, Following, Later, Paths
  <2>2. PICK probe : Push(probe, FALSE, stat)
    BY <1>8 DEF RefuseFile, Probe
  <2>3. PICK a : a = [path |-> Path, probe |-> probe, hit |-> FALSE, seen |-> stat]
    OBVIOUS
  <2>4. probed' = Append(probed, a) /\ a.path = Path /\ a.hit = FALSE
    BY <2>2, <2>3 DEF Push
  <2>5. Answered(a)'
    BY <2>1, <2>4 DEF Answered
  <2> QED
    BY <1>4, <2>4, <2>5
<1>9. CASE Load \/ RefuseSave \/ Crash
  BY <1>6, <1>9 DEF Load, RefuseSave, Crash
<1>10. CASE Collect \/ SkipByExtension \/ MeasureFile \/ OpenFile \/ Answer \/ EmptyText \/ WriteText
  BY <1>5, <1>10 DEF Collect, SkipByExtension, MeasureFile, OpenFile, Answer, EmptyText, WriteText
<1>11. CASE Return \/ Write \/ Tick \/ UNCHANGED vars
  BY <1>5, <1>11 DEF Return, Write, Tick, vars
<1> QED
  BY <1>7, <1>8, <1>9, <1>10, <1>11 DEF Next, Detect

LEMMA InitInv == Init => Inv
<1> SUFFICES ASSUME Init PROVE Inv
  OBVIOUS
<1>1. Dated
  <2>1. /\ library \in Library /\ files = library.files /\ clock = 1
        /\ versions = [p \in DOMAIN files |-> {files[p]}]
    BY DEF Init
  <2>2. DOMAIN files = Paths /\ \A p \in Paths : files[p].modified \in 0..1
    BY <2>1, LibraryAssumption DEF Paths
  <2>3. DOMAIN versions = Paths /\ \A p \in Paths : versions[p] = {files[p]}
    BY <2>1, <2>2
  <2> QED
    BY <2>1, <2>2, <2>3 DEF Dated
<1>2. queue \in Seq(Paths)
  <2>1. queue = <<>>
    BY DEF Init
  <2>2. <<>> \in Seq(Paths)
    OBVIOUS
  <2> QED
    BY <2>1, <2>2
<1>3. OpenedIsAFile /\ Following
  BY DEF Init, OpenedIsAFile, Following, Missing
<1>4. cache = {} /\ probed = <<>>
  BY DEF Init
<1>5. saved.kind # "whole"
  <2>1. saved = Text("absent", {}) \/ saved = Text("another format", {})
    BY DEF Init
  <2>2. Text("absent", {}).kind = "absent" /\ Text("another format", {}).kind = "another format"
    BY DEF Text
  <2> QED
    BY <2>1, <2>2
<1>6. IsSequence(probed) /\ DOMAIN probed = {}
  BY <1>4, EmptyIsSequence
<1> QED
  BY <1>1, <1>2, <1>3, <1>4, <1>5, <1>6 DEF Inv

LEMMA AlwaysInv == Spec => []Inv
<1>1. ASSUME Inv, [Next]_vars PROVE Inv'
  <2>1. Dated'
    BY <1>1, LaterStep DEF Inv
  <2>2. (queue \in Seq(Paths))' /\ OpenedIsAFile'
    BY <1>1, QueueStep, OpenedStep DEF Inv
  <2> QED
    BY <1>1, <2>1, <2>2, FollowingStep, EntriesStep, AnswersStep DEF Inv
<1> QED
  BY InitInv, <1>1, PTL DEF Spec

(* What the cache answers is what a probe of the file found would say, but for a file written twice in the
   second it is dated by, a reading that failed, and a file that was not there: however often files are
   written and scanned, whenever the process dies, and whatever of the cache was saved. *)
THEOREM CacheIsHonest == Spec => []StaleOnlyWithinASecond
<1>1. Inv => StaleOnlyWithinASecond
  BY DEF Inv, Answered, Says, Sharing, Failed, StaleOnlyWithinASecond
<1> QED
  BY <1>1, AlwaysInv, PTL
-----------------------------------------------------------------------------
(* What is said of a file has its name, what the name says or nothing, and one container or none. *)

LEMMA Cameras ==
    ASSUME NEW name, NEW parsed \in ParseName(name)
    PROVE  parsed.camera \in {"front", "rear", "interior", "all"}
<1> DEFINE stem == name.stem
           all == {"front", "rear", "interior", "all"}
<1>1. /\ \A text \in DOMAIN CameraWords : CameraWords[text] \in all
      /\ \A text \in DOMAIN CameraLetters : CameraLetters[text] \in all
  BY DEF CameraWords, CameraLetters, Spelt
<1>2. ASSUME NEW p \in TimestampEventLetter(stem) PROVE p.camera \in all
  BY DEF TimestampEventLetter, Parsed
<1>3. ASSUME NEW p \in StemCameraWord(stem) PROVE p.camera \in all
  <2>1. Ends(stem, DOMAIN CameraWords) /\ p.camera = CameraWords[Last(stem).text]
    BY DEF StemCameraWord, Parsed
  <2> QED
    BY <1>1, <2>1 DEF Ends
<1>4. ASSUME NEW p \in StemCameraLetter(stem) PROVE p.camera \in all
  <2> DEFINE named == IF Ends(stem, QualityLetters) /\ Ends(Front(stem), DOMAIN CameraLetters)
                      THEN Front(stem) ELSE stem
             rest == Front(named)
             shared == IF Ends(rest, {"_"}) THEN Front(rest) ELSE rest
             camera == CameraLetters[Last(named).text]
             fits == Ends(named, DOMAIN CameraLetters) /\ Len(shared) = 1 /\ Timestamp(shared) # 0
  <2>1. Ends(named, DOMAIN CameraLetters) /\ p.camera = camera
    <3>1. StemCameraLetter(stem) = IF fits THEN Parsed("stem_camera_letter", shared, camera, "none") ELSE {}
      BY DEF StemCameraLetter
    <3> HIDE DEF named, rest, shared, camera
    <3> QED
      BY <3>1 DEF Parsed
  <2> HIDE DEF named
  <2> QED
    BY <1>1, <2>1 DEF Ends
<1> QED
  BY <1>2, <1>3, <1>4 DEF ParseName

SaidOf(path, probe) ==
    /\ probe.name = library.names[path]
    /\ probe.parsed = {} \/ probe.parsed = ParseName(probe.name)
    /\ \A one, other \in probe.container : one = other
Named ==
    /\ \A e \in cache : SaidOf(e.path, e.probe)
    /\ saved.kind = "whole" => \A e \in saved.entries : SaidOf(e.path, e.probe)
    /\ \A i \in DOMAIN probed : SaidOf(probed[i].path, probed[i].probe)

LEMMA SaidStays ==
    ASSUME UNCHANGED library, NEW path, NEW probe, SaidOf(path, probe)
    PROVE  SaidOf(path, probe)'
BY DEF SaidOf

LEMMA SaidByProbe ==
    ASSUME Probe, NEW probe,
           \/ \E content \in opened.content \cup files[Path].content :
                probe = ProbeSource(Name, opened.size, Summarise(content))
           \/ probe = ProbeSource(Name, opened.size, {})
    PROVE  SaidOf(Path, probe)
<1>1. PICK container : /\ probe = ProbeSource(Name, opened.size, container)
                       /\ container = {} \/ \E content : container = Summarise(content)
  OBVIOUS
<1>2. /\ probe.name = Name /\ probe.parsed = ParseName(Name) /\ probe.container = container
  BY <1>1 DEF ProbeSource
<1>3. \A one, other \in container : one = other
  BY <1>1 DEF Summarise
<1> QED
  BY <1>2, <1>3 DEF SaidOf, Name

(* A reading says one thing, which is kept and answered. *)
LEMMA ProbeSays ==
    ASSUME Probe
    PROVE  \E probe : SaidOf(Path, probe) /\ Keep(probe) /\ Push(probe, FALSE, stat)
<1>1. PICK probe :
        /\ Keep(probe) /\ Push(probe, FALSE, stat)
        /\ \/ \E content \in opened.content \cup files[Path].content :
                probe = ProbeSource(Name, opened.size, Summarise(content))
           \/ probe = ProbeSource(Name, opened.size, {})
  BY DEF Probe
<1> QED
  BY <1>1, SaidByProbe

LEMMA NamedPush ==
    ASSUME Inv, Named, UNCHANGED library, NEW probe, NEW hit, NEW seen, Push(probe, hit, seen), SaidOf(Path, probe)
    PROVE  (\A i \in DOMAIN probed : SaidOf(probed[i].path, probed[i].probe))'
<1>1. PICK a : a = [path |-> Path, probe |-> probe, hit |-> hit, seen |-> seen]
  OBVIOUS
<1>2. probed' = Append(probed, a) /\ a.path = Path /\ a.probe = probe
  BY <1>1 DEF Push
<1>3. \A i \in DOMAIN probed : SaidOf(probed[i].path, probed[i].probe)
  BY DEF Named
<1>4. \A p, x : SaidOf(p, x) => SaidOf(p, x)'
  BY SaidStays
<1>5. \A i \in DOMAIN probed' : probed'[i] = a \/ (i \in DOMAIN probed /\ probed'[i] = probed[i])
  BY <1>2, Appended DEF Inv
<1>6. \A i \in DOMAIN probed' : SaidOf(probed'[i].path, probed'[i].probe)
  BY <1>2, <1>3, <1>5
<1>7. \A i \in DOMAIN probed' : \A p, x : p = probed'[i].path /\ x = probed'[i].probe => SaidOf(p, x)'
  BY <1>4, <1>6
<1> QED
  BY <1>7

LEMMA NamedStep ==
    ASSUME Inv, Named, [Next]_vars
    PROVE  Named'
<1>1. UNCHANGED library
  BY LaterStep DEF Inv, Later
<1>2. \A p, x : SaidOf(p, x) => SaidOf(p, x)'
  BY <1>1, SaidStays
<1>3. /\ \A e \in cache : SaidOf(e.path, e.probe)'
      /\ saved.kind = "whole" => \A e \in saved.entries : SaidOf(e.path, e.probe)'
  BY <1>2 DEF Named
<1>5. (\A i \in DOMAIN probed : SaidOf(probed[i].path, probed[i].probe))'
  <2>1. CASE UNCHANGED probed
    <3>1. \A i \in DOMAIN probed' : \A p, x : p = probed'[i].path /\ x = probed'[i].probe => SaidOf(p, x)'
      BY <1>2, <2>1 DEF Named
    <3> QED
      BY <3>1
  <2>2. CASE probed' = <<>>
    BY <2>2
  <2>3. CASE Stat
    <3>1. CASE Get(Path, files[Path].size, files[Path].modified) = {}
      BY <2>1, <2>3, <3>1 DEF Stat
    <3>2. CASE Get(Path, files[Path].size, files[Path].modified) # {}
      <4> DEFINE known == Get(Path, files[Path].size, files[Path].modified)
      <4>1. The(known) \in known
        BY <3>2 DEF The
      <4>2. PICK e \in cache : e.path = Path /\ e.probe = The(known)
        BY <4>1 DEF Get
      <4>3. SaidOf(Path, The(known))
        BY <4>2 DEF Named
      <4>4. Push(The(known), TRUE, files[Path])
        BY <2>3, <3>2 DEF Stat
      <4> HIDE DEF known
      <4> QED
        BY <1>1, <4>3, <4>4, NamedPush
    <3> QED
      BY <3>1, <3>2
  <2>4. CASE RefuseFile
    <3>1. Push(NotOpened(Name, stat.size), FALSE, stat)
      BY <2>4 DEF RefuseFile
    <3>2. SaidOf(Path, NotOpened(Name, stat.size))
      BY DEF SaidOf, NotOpened, Name
    <3> QED
      BY <1>1, <3>1, <3>2, NamedPush
  <2>5. CASE Probe
    BY <1>1, <2>5, ProbeSays, NamedPush
  <2>6. CASE Load \/ RefuseSave \/ Crash
    BY <2>2, <2>6 DEF Load, RefuseSave, Crash
  <2>7. CASE Collect \/ SkipByExtension \/ MeasureFile \/ OpenFile \/ Answer \/ EmptyText \/ WriteText
    BY <2>1, <2>7 DEF Collect, SkipByExtension, MeasureFile, OpenFile, Answer, EmptyText, WriteText
  <2>8. CASE Return \/ Write \/ Tick \/ UNCHANGED vars
    BY <2>1, <2>8 DEF Return, Write, Tick, vars
  <2> QED
    BY <2>3, <2>4, <2>5, <2>6, <2>7, <2>8 DEF Next, Detect
<1>6. \A e \in cache' : SaidOf(e.path, e.probe)'
  <2>1. CASE Probe
    <3>1. PICK probe : SaidOf(Path, probe) /\ Keep(probe)
      BY <2>1, ProbeSays
    <3>2. \A e \in cache' : e \in cache \/ (e.path = Path /\ e.probe = probe)
      BY <3>1 DEF Keep, Insert
    <3> QED
      BY <1>2, <1>3, <3>1, <3>2
  <2>2. CASE Load
    BY <1>3, <2>2 DEF Load, Loaded
  <2>3. CASE RefuseSave \/ Return \/ Crash
    BY <2>3 DEF RefuseSave, Return, Crash, Forget
  <2>4. CASE Collect \/ SkipByExtension \/ Stat \/ MeasureFile \/ OpenFile \/ RefuseFile
    BY <1>3, <2>4 DEF Collect, SkipByExtension, Stat, MeasureFile, OpenFile, RefuseFile
  <2>5. CASE Answer \/ EmptyText \/ WriteText \/ Write \/ Tick \/ UNCHANGED vars
    BY <1>3, <2>5 DEF Answer, EmptyText, WriteText, Write, Tick, vars
  <2> QED
    BY <2>1, <2>2, <2>3, <2>4, <2>5 DEF Next, Detect
<1>7. saved'.kind = "whole" => \A e \in saved'.entries : SaidOf(e.path, e.probe)'
  <2>1. CASE EmptyText
    BY <2>1 DEF EmptyText, Text
  <2>2. CASE WriteText
    BY <1>3, <2>2 DEF WriteText, Text
  <2>3. CASE Load \/ Collect \/ SkipByExtension \/ Stat \/ MeasureFile \/ OpenFile
    BY <1>3, <2>3 DEF Load, Collect, SkipByExtension, Stat, MeasureFile, OpenFile, system
  <2>4. CASE RefuseFile \/ Probe \/ Answer \/ RefuseSave
    BY <1>3, <2>4 DEF RefuseFile, Probe, Answer, RefuseSave, system
  <2>5. CASE Return \/ Crash \/ Write \/ Tick \/ UNCHANGED vars
    BY <1>3, <2>5 DEF Return, Crash, Write, Tick, vars, system
  <2> QED
    BY <2>1, <2>2, <2>3, <2>4, <2>5 DEF Next, Detect
<1> QED
  BY <1>5, <1>6, <1>7 DEF Named

LEMMA NamedInit == Init => Named
<1> SUFFICES ASSUME Init PROVE Named
  OBVIOUS
<1>1. cache = {} /\ probed = <<>>
  BY DEF Init
<1>2. saved.kind # "whole"
  <2>1. saved = Text("absent", {}) \/ saved = Text("another format", {})
    BY DEF Init
  <2>2. Text("absent", {}).kind = "absent" /\ Text("another format", {}).kind = "another format"
    BY DEF Text
  <2> QED
    BY <2>1, <2>2
<1> QED
  BY <1>1, <1>2 DEF Named

-----------------------------------------------------------------------------
(* Every path listed is still to be looked at, was skipped, or is in what was probed. *)

PlacesOf(s, p) == {i \in DOMAIN s : s[i] = p}
Balanced ==
    /\ \A p \in Paths :
         Cardinality(AnsweredFrom(probed, p)) =
            IF WorthOpening(library.names[p])
            THEN Cardinality(PlacesOf(listed, p)) - Cardinality(PlacesOf(queue, p)) ELSE 0
    /\ skipped \in Nat
    /\ Len(probed) + skipped + Len(queue) = Len(listed)
Tally ==
    /\ listed \in Seq(Paths)
    /\ pc \in {"idle", "collect", "next", "measure", "open", "probe", "save", "write", "answered"}
    /\ pc = "collect" => probed = <<>> /\ skipped = 0
    /\ pc \in {"next", "measure", "open", "probe", "save", "write", "answered"} => Balanced
    /\ pc \in {"measure", "open", "probe"} => WorthOpening(Name)
    /\ pc \in {"collect", "next", "measure", "open", "probe"} => recordings = <<>>
    /\ pc \in {"save", "write", "answered"} => queue = <<>> /\ recordings = Group(probed)
    /\ recordings = <<>> \/ recordings = Group(probed)

LEMMA CountAppended ==
    ASSUME NEW s, NEW x, NEW p, IsSequence(s)
    PROVE  /\ Cardinality(AnsweredFrom(s, p)) \in Nat
           /\ Cardinality(AnsweredFrom(Append(s, x), p)) =
                Cardinality(AnsweredFrom(s, p)) + (IF x.path = p THEN 1 ELSE 0)
           /\ Len(Append(s, x)) = Len(s) + 1 /\ Len(s) \in Nat
<1> DEFINE R == {s[i] : i \in DOMAIN s} \cup {x}
           n == Len(s)
           t == Append(s, x)
           before == AnsweredFrom(s, p)
           after == AnsweredFrom(t, p)
<1>1. s \in Seq(R)
  <2>1. s \in Seq({s[i] : i \in DOMAIN s})
    BY DEF IsSequence
  <2>2. s \in [1..Len(s) -> {s[i] : i \in DOMAIN s}] /\ Len(s) \in Nat
    BY <2>1
  <2>3. s \in [1..Len(s) -> R]
    BY <2>2
  <2> QED
    BY <2>2, <2>3
<1>2. x \in R
  OBVIOUS
<1> HIDE DEF R
<1>3. /\ n \in Nat /\ DOMAIN s = 1..n /\ DOMAIN t = 1..(n + 1) /\ Len(t) = n + 1
      /\ \A i \in 1..n : t[i] = s[i]
      /\ t[n + 1] = x
  BY <1>1, <1>2, AppendProperties
<1>4. IsFiniteSet(before) /\ Cardinality(before) \in Nat
  <2>1. before \in SUBSET DOMAIN s /\ IsFiniteSet(DOMAIN s)
    BY <1>1, CountedFromOne DEF AnsweredFrom
  <2> HIDE DEF before
  <2> QED
    BY <2>1, FS_Subset, FS_CardinalityType
<1> HIDE DEF n, t
<1>5. DOMAIN t = DOMAIN s \cup {n + 1} /\ n + 1 \notin DOMAIN s
  BY <1>3
<1>6. CASE x.path = p
  <2>1. after = before \cup {n + 1} /\ n + 1 \notin before
    BY <1>3, <1>5, <1>6 DEF AnsweredFrom
  <2> HIDE DEF before, after
  <2>2. Cardinality(after) = Cardinality(before) + 1
    BY <1>4, <2>1, FS_AddElement
  <2> QED
    BY <1>3, <1>4, <1>6, <2>2 DEF before, after, t, n
<1>7. CASE x.path # p
  <2>1. after = before
    BY <1>3, <1>5, <1>7 DEF AnsweredFrom
  <2> HIDE DEF before, after
  <2>2. Cardinality(after) = Cardinality(before) + (IF x.path = p THEN 1 ELSE 0)
    BY <1>4, <1>7, <2>1
  <2> QED
    BY <1>3, <1>4, <2>2 DEF before, after, t, n
<1> QED
  BY <1>6, <1>7

LEMMA CountTail ==
    ASSUME NEW S, NEW s \in Seq(S), s # <<>>, NEW p
    PROVE  /\ Cardinality(PlacesOf(s, p)) \in Nat
           /\ Cardinality(PlacesOf(Tail(s), p)) = Cardinality(PlacesOf(s, p)) - (IF Head(s) = p THEN 1 ELSE 0)
           /\ Len(Tail(s)) = Len(s) - 1 /\ Len(s) \in Nat
<1> DEFINE n == Len(s)
           t == Tail(s)
           before == PlacesOf(s, p)
           after == PlacesOf(t, p)
           f == [i \in after |-> i + 1]
<1>1. /\ n \in Nat /\ n > 0 /\ DOMAIN s = 1..n /\ DOMAIN t = 1..(n - 1) /\ Len(t) = n - 1
      /\ \A i \in 1..(n - 1) : t[i] = s[i + 1]
      /\ Head(s) = s[1]
  BY HeadTailProperties
<1>2. IsFiniteSet(before) /\ Cardinality(before) \in Nat
  <2>1. before \in SUBSET DOMAIN s /\ IsFiniteSet(DOMAIN s)
    BY CountedFromOne DEF PlacesOf
  <2> HIDE DEF before
  <2> QED
    BY <2>1, FS_Subset, FS_CardinalityType
<1> HIDE DEF n, t
<1>3. /\ \A i \in after : i \in Nat /\ i + 1 \in before \ {1}
      /\ \A i \in before \ {1} : i - 1 \in after /\ (i - 1) + 1 = i
      /\ 1 \in before <=> Head(s) = p
  BY <1>1 DEF PlacesOf
<1> HIDE DEF before, after
<1>4. f \in Bijection(after, before \ {1})
  <2>1. f \in [after -> before \ {1}]
    BY <1>3
  <2>2. \A i, j \in after : f[i] = f[j] => i = j
    BY <1>3
  <2>3. \A j \in before \ {1} : \E i \in after : f[i] = j
    BY <1>3
  <2> HIDE DEF f
  <2> QED
    BY <2>1, <2>2, <2>3, Fun_IsBij
<1>5. IsFiniteSet(after) /\ Cardinality(after) = Cardinality(before \ {1})
  <2>1. IsFiniteSet(before \ {1})
    BY <1>2, FS_RemoveElement
  <2>2. IsFiniteSet(after)
    BY <1>4, <2>1, Fun_BijectionProperties, FS_Injection
  <2>3. ExistsBijection(after, before \ {1})
    BY <1>4 DEF ExistsBijection
  <2> QED
    BY <2>2, <2>3, FS_Bijection
<1>6. Cardinality(before \ {1}) = IF 1 \in before THEN Cardinality(before) - 1 ELSE Cardinality(before)
  BY <1>2, FS_RemoveElement
<1>7. Cardinality(after) = Cardinality(before) - (IF Head(s) = p THEN 1 ELSE 0)
  BY <1>2, <1>3, <1>5, <1>6
<1> QED
  BY <1>1, <1>2, <1>7 DEF n, t, before, after

LEMMA CountIsNat ==
    ASSUME NEW S, NEW s \in Seq(S), NEW p
    PROVE  Cardinality(PlacesOf(s, p)) \in Nat
<1>1. PlacesOf(s, p) \in SUBSET DOMAIN s
  BY DEF PlacesOf
<1> QED
  BY <1>1, CountedFromOne, FS_Subset, FS_CardinalityType

(* The path looked at is answered, or skipped, once. *)
LEMMA BalancedPush ==
    ASSUME Inv, Balanced, listed \in Seq(Paths), queue # <<>>, WorthOpening(Name), UNCHANGED <<library, listed, skipped>>,
           NEW probe, NEW hit, NEW seen, Push(probe, hit, seen)
    PROVE  Balanced'
<1>1. PICK a : a = [path |-> Path, probe |-> probe, hit |-> hit, seen |-> seen]
  OBVIOUS
<1>2. probed' = Append(probed, a) /\ a.path = Path /\ queue' = Tail(queue)
  BY <1>1 DEF Push
<1>3. queue \in Seq(Paths) /\ IsSequence(probed) /\ Path \in Paths
  BY PathTyped DEF Inv
<1>4. Len(probed') + skipped' + Len(queue') = Len(listed')
  <2>1. Len(probed') = Len(probed) + 1 /\ Len(probed) \in Nat
    BY <1>2, <1>3, CountAppended
  <2>2. Len(queue') = Len(queue) - 1 /\ Len(queue) \in Nat
    BY <1>2, <1>3, CountTail
  <2> QED
    BY <2>1, <2>2 DEF Balanced
<1>5. ASSUME NEW p \in Paths
      PROVE  (Cardinality(AnsweredFrom(probed, p)) =
                IF WorthOpening(library.names[p]) THEN Cardinality(PlacesOf(listed, p)) - Cardinality(PlacesOf(queue, p)) ELSE 0)'
  <2>1. /\ Cardinality(AnsweredFrom(probed, p)) \in Nat
        /\ Cardinality(AnsweredFrom(probed', p)) = Cardinality(AnsweredFrom(probed, p)) + (IF Path = p THEN 1 ELSE 0)
    BY <1>2, <1>3, CountAppended
  <2>2. /\ Cardinality(PlacesOf(queue, p)) \in Nat
        /\ Cardinality(PlacesOf(queue', p)) = Cardinality(PlacesOf(queue, p)) - (IF Path = p THEN 1 ELSE 0)
    BY <1>2, <1>3, CountTail DEF Path
  <2>3. PlacesOf(listed', p) = PlacesOf(listed, p)
    OBVIOUS
  <2>4. Cardinality(PlacesOf(listed, p)) \in Nat
    BY CountIsNat
  <2>5. Path = p => WorthOpening(library.names[p])
    BY DEF Name
  <2>6. Cardinality(AnsweredFrom(probed, p)) = IF WorthOpening(library.names[p]) THEN Cardinality(PlacesOf(listed, p)) - Cardinality(PlacesOf(queue, p)) ELSE 0
    BY DEF Balanced
  <2>7. Cardinality(AnsweredFrom(probed', p)) =
          IF WorthOpening(library.names[p]) THEN Cardinality(PlacesOf(listed', p)) - Cardinality(PlacesOf(queue', p)) ELSE 0
    BY <2>1, <2>2, <2>3, <2>4, <2>5, <2>6
  <2> QED
    BY <2>7
<1> QED
  BY <1>4, <1>5 DEF Balanced, Paths

LEMMA BalancedSkip ==
    ASSUME Inv, Balanced, listed \in Seq(Paths), SkipByExtension
    PROVE  Balanced'
<1>1. /\ queue # <<>> /\ ~WorthOpening(Name) /\ skipped' = skipped + 1 /\ queue' = Tail(queue)
      /\ UNCHANGED <<library, probed, listed>>
  BY DEF SkipByExtension, system
<1>2. queue \in Seq(Paths) /\ IsSequence(probed)
  BY DEF Inv
<1>3. skipped' \in Nat /\ Len(probed') + skipped' + Len(queue') = Len(listed')
  <2>1. Len(queue') = Len(queue) - 1 /\ Len(queue) \in Nat
    BY <1>1, <1>2, CountTail
  <2>2. Len(probed) \in Nat
    BY <1>2, CountAppended
  <2> QED
    BY <1>1, <2>1, <2>2 DEF Balanced
<1>4. ASSUME NEW p \in Paths
      PROVE  (Cardinality(AnsweredFrom(probed, p)) =
                IF WorthOpening(library.names[p]) THEN Cardinality(PlacesOf(listed, p)) - Cardinality(PlacesOf(queue, p)) ELSE 0)'
  <2>1. AnsweredFrom(probed', p) = AnsweredFrom(probed, p) /\ PlacesOf(listed', p) = PlacesOf(listed, p)
    BY <1>1
  <2>2. /\ Cardinality(PlacesOf(queue, p)) \in Nat
        /\ Cardinality(PlacesOf(queue', p)) = Cardinality(PlacesOf(queue, p)) - (IF Path = p THEN 1 ELSE 0)
    BY <1>1, <1>2, CountTail DEF Path
  <2>3. WorthOpening(library.names[p]) => Path # p
    BY <1>1 DEF Name
  <2>4. Cardinality(AnsweredFrom(probed, p)) = IF WorthOpening(library.names[p]) THEN Cardinality(PlacesOf(listed, p)) - Cardinality(PlacesOf(queue, p)) ELSE 0
    BY DEF Balanced
  <2>5. Cardinality(AnsweredFrom(probed', p)) =
          IF WorthOpening(library.names[p]) THEN Cardinality(PlacesOf(listed', p)) - Cardinality(PlacesOf(queue', p)) ELSE 0
    BY <2>1, <2>2, <2>3, <2>4
  <2> QED
    BY <1>1, <2>5
<1> QED
  BY <1>1, <1>3, <1>4 DEF Balanced, Paths

LEMMA BalancedStart ==
    ASSUME UNCHANGED library, queue' \in Seq(Paths), listed' = queue', probed' = <<>>, skipped' = 0
    PROVE  Balanced'
<1>1. Cardinality({}) = 0
  BY FS_EmptySet
<1>2. \A p : AnsweredFrom(probed', p) = {}
  BY DEF AnsweredFrom
<1>3. \A p : /\ PlacesOf(listed', p) = PlacesOf(queue', p)
             /\ Cardinality(PlacesOf(listed', p)) - Cardinality(PlacesOf(queue', p)) = 0
  <2> TAKE p
  <2>1. PlacesOf(listed', p) = PlacesOf(queue', p)
    OBVIOUS
  <2>2. Cardinality(PlacesOf(queue', p)) \in Nat
    BY CountIsNat
  <2> QED
    BY <2>1, <2>2
<1>4. Len(queue') \in Nat /\ Len(probed') = 0
  BY CountedFromOne
<1>5. \A p \in Paths :
         Cardinality(AnsweredFrom(probed', p)) =
            IF WorthOpening(library.names[p])
            THEN Cardinality(PlacesOf(listed', p)) - Cardinality(PlacesOf(queue', p)) ELSE 0
  BY <1>1, <1>2, <1>3
<1>6. Len(probed') + skipped' + Len(queue') = Len(listed') /\ skipped' \in Nat
  BY <1>4
<1> QED
  BY <1>5, <1>6 DEF Balanced, Paths

LEMMA BalancedStays ==
    ASSUME Balanced, UNCHANGED <<library, probed, queue, listed, skipped>>
    PROVE  Balanced'
BY DEF Balanced, Paths

LEMMA TallyStep ==
    ASSUME Inv, Tally, [Next]_vars
    PROVE  Tally'
<1>1. UNCHANGED library /\ Paths' = Paths /\ queue' \in Seq(Paths)
  <2>1. UNCHANGED library /\ Paths' = Paths
    BY LaterStep DEF Inv, Later, Paths
  <2> QED
    BY <2>1, QueueStep DEF Inv
<1>2. CASE Load
  <2>1. /\ listed' = <<>> /\ probed' = <<>> /\ skipped' = 0 /\ recordings' = <<>> /\ pc' \in {"idle", "collect"}
    BY <1>2 DEF Load
  <2>2. <<>> \in Seq(Paths)
    OBVIOUS
  <2> QED
    BY <1>1, <2>1, <2>2 DEF Tally
<1>3. CASE Collect
  <2>1. /\ pc = "collect" /\ pc' = "next" /\ listed' = queue' /\ UNCHANGED <<probed, skipped, recordings>>
    BY <1>3 DEF Collect
  <2>2. Balanced'
    BY <1>1, <2>1, BalancedStart DEF Tally
  <2> QED
    BY <1>1, <2>1, <2>2 DEF Tally
<1>4. CASE SkipByExtension
  <2>1. pc = "next" /\ UNCHANGED <<pc, listed, recordings, probed>>
    BY <1>4 DEF SkipByExtension
  <2>2. Balanced'
    BY <1>4, <2>1, BalancedSkip DEF Tally
  <2> QED
    BY <1>1, <2>1, <2>2 DEF Tally
<1>5. ASSUME pc \in {"next", "measure", "open", "probe"}, queue # <<>>, WorthOpening(Name), UNCHANGED <<listed, skipped, recordings>>,
             NEW probe, NEW hit, NEW seen, Push(probe, hit, seen)
      PROVE  Tally'
  <2>1. Balanced'
    BY <1>1, <1>5, BalancedPush DEF Tally
  <2>2. pc' = "next"
    BY <1>5 DEF Push
  <2> QED
    BY <1>1, <1>5, <2>1, <2>2 DEF Tally
<1>6. ASSUME pc \in {"next", "measure", "open", "probe"}, UNCHANGED <<listed, skipped, recordings, probed, queue>>,
             pc' \in {"measure", "open", "probe"}, WorthOpening(Name)
      PROVE  Tally'
  <2>1. Balanced'
    BY <1>1, <1>6, BalancedStays DEF Tally
  <2>2. Name' = Name
    BY <1>1, <1>6 DEF Name, Path
  <2> QED
    BY <1>1, <1>6, <2>1, <2>2 DEF Tally
<1>7. CASE Stat
  <2>1. pc = "next" /\ queue # <<>> /\ WorthOpening(Name) /\ UNCHANGED <<listed, skipped, recordings>>
    BY <1>7 DEF Stat
  <2>2. \/ \E probe : Push(probe, TRUE, files[Path])
        \/ pc' = "measure" /\ UNCHANGED <<probed, queue>>
    BY <1>7 DEF Stat
  <2> QED
    BY <1>5, <1>6, <2>1, <2>2
<1>8. CASE MeasureFile \/ OpenFile
  <2>1. /\ pc \in {"measure", "open"} /\ pc' \in {"open", "probe"}
        /\ UNCHANGED <<listed, skipped, recordings, probed, queue>>
    BY <1>8 DEF MeasureFile, OpenFile
  <2>2. WorthOpening(Name)
    BY <2>1 DEF Tally
  <2> QED
    BY <1>6, <2>1, <2>2
<1>9. CASE RefuseFile \/ Probe
  <2>1. pc \in {"measure", "open", "probe"} /\ UNCHANGED <<listed, skipped, recordings>>
    BY <1>9 DEF RefuseFile, Probe
  <2>2. \E probe : Push(probe, FALSE, stat)
    BY <1>9 DEF RefuseFile, Probe
  <2>3. queue # <<>> /\ WorthOpening(Name)
    BY <2>1 DEF Tally, Inv, Following
  <2> QED
    BY <1>5, <2>1, <2>2, <2>3
<1>10. CASE Answer
  <2>1. /\ pc = "next" /\ queue = <<>> /\ recordings' = Group(probed) /\ pc' \in {"save", "answered"}
        /\ UNCHANGED <<listed, skipped, probed, queue>>
    BY <1>10 DEF Answer
  <2>2. Balanced'
    BY <1>1, <2>1, BalancedStays DEF Tally
  <2> QED
    BY <1>1, <2>1, <2>2 DEF Tally
<1>11. CASE EmptyText \/ WriteText
  <2>1. /\ pc \in {"save", "write"} /\ pc' \in {"write", "answered"}
        /\ UNCHANGED <<listed, skipped, probed, queue, recordings>>
    BY <1>11 DEF EmptyText, WriteText
  <2>2. Balanced'
    BY <1>1, <2>1, BalancedStays DEF Tally
  <2> QED
    BY <1>1, <2>1, <2>2 DEF Tally
<1>12. CASE RefuseSave \/ Crash
  <2>1. pc' = "idle" /\ recordings' = <<>> /\ listed' = <<>>
    BY <1>12 DEF RefuseSave, Crash
  <2>2. <<>> \in Seq(Paths)
    OBVIOUS
  <2> QED
    BY <1>1, <2>1, <2>2 DEF Tally
<1>13. CASE Return
  <2>1. pc' = "idle" /\ UNCHANGED <<probed, recordings, listed>>
    BY <1>13 DEF Return
  <2> QED
    BY <1>1, <2>1 DEF Tally
<1>14. CASE Write \/ Tick \/ UNCHANGED vars
  <2>1. UNCHANGED <<pc, listed, skipped, probed, queue, recordings>>
    BY <1>14 DEF Write, Tick, vars
  <2>2. Balanced => Balanced'
    BY <1>1, <2>1, BalancedStays
  <2>3. Name' = Name
    BY <1>1, <2>1 DEF Name, Path
  <2> QED
    BY <1>1, <2>1, <2>2, <2>3 DEF Tally
<1> QED
  BY <1>2, <1>3, <1>4, <1>7, <1>8, <1>9, <1>10, <1>11, <1>12, <1>13, <1>14 DEF Next, Detect

LEMMA TallyInit == Init => Tally
<1> SUFFICES ASSUME Init PROVE Tally
  OBVIOUS
<1>1. pc = "idle" /\ recordings = <<>> /\ listed = <<>>
  BY DEF Init
<1>2. <<>> \in Seq(Paths)
  OBVIOUS
<1> QED
  BY <1>1, <1>2 DEF Tally

LEMMA AlwaysNamed == Spec => [](Named /\ Tally)
<1>1. ASSUME Inv, Named, Tally, [Next]_vars PROVE Named' /\ Tally'
  BY <1>1, NamedStep, TallyStep
<1> QED
  BY AlwaysInv, NamedInit, TallyInit, <1>1, PTL DEF Spec

-----------------------------------------------------------------------------
(* What was probed is what group takes: files in a sequence, each of a known camera. *)
LEMMA ProbedFiles ==
    ASSUME Inv, Named
    PROVE  Files(probed)
<1>1. ASSUME NEW i \in DOMAIN probed PROVE Known(probed[i])
  <2> DEFINE parsed == probed[i].probe.parsed
  <2>1. parsed = {} \/ \E name : parsed = ParseName(name)
    BY DEF Named, SaidOf
  <2>2. parsed # {} => The(parsed) \in parsed
    BY DEF The
  <2>3. parsed # {} => The(parsed).camera \in {"front", "rear", "interior", "all"}
    <3> HIDE DEF parsed
    <3> QED
      BY <2>1, <2>2, Cameras
  <2> QED
    BY <2>3 DEF Known, Camera
<1> QED
  BY <1>1 DEF Files, Inv

LEMMA NoRecordings ==
    ASSUME recordings = <<>>
    PROVE  DOMAIN recordings = {}
OBVIOUS

(* While nobody writes, and until a listing fails, what is listed is what the arguments give. *)
Past == {"next", "measure", "open", "probe", "save", "write", "answered"}
AllListed == \A p \in Paths : Cardinality(PlacesListed(p)) = Cardinality({x \in Asked : x[1] = p})
Complete == ~library.others /\ Listing \notin failures /\ pc \in Past => AllListed

LEMMA CompleteStep ==
    ASSUME Dated, Complete, [Next]_vars
    PROVE  Complete'
<1>1. UNCHANGED library /\ failures \subseteq failures'
  BY LaterStep DEF Later
<1>2. CASE Write
  BY <1>1, <1>2 DEF Write, Complete
<1>3. CASE Load \/ RefuseSave \/ Return \/ Crash
  <2>1. pc' \in {"idle", "collect"}
    BY <1>3 DEF Load, RefuseSave, Return, Crash
  <2> QED
    BY <2>1 DEF Complete, Past
<1>4. CASE Collect
  <2>1. UNCHANGED <<library, files>> /\ listed' = queue'
    BY <1>4 DEF Collect
  <2>2. Lists(Asked) \/ Listing \in failures'
    BY <1>4, CollectLists
  <2>3. ASSUME Lists(Asked)
        PROVE  AllListed'
    <3>1. IsCollected(queue', Asked)
      BY <2>3 DEF Lists
    <3>2. Asked' = Asked /\ Paths' = Paths
      BY <2>1 DEF Asked, Paths, Giving, Under
    <3> QED
      BY <2>1, <3>1, <3>2 DEF IsCollected, AllListed, PlacesListed
  <2> QED
    BY <2>2, <2>3 DEF Complete
<1>5. ASSUME UNCHANGED <<library, files, listed>>, pc' \in Past => pc \in Past
      PROVE  Complete'
  <2>1. Asked' = Asked /\ Paths' = Paths
    BY <1>5 DEF Asked, Paths, Giving, Under
  <2>2. AllListed => AllListed'
    BY <1>5, <2>1 DEF AllListed, PlacesListed
  <2> QED
    BY <1>1, <1>5, <2>2 DEF Complete
<1>6. CASE SkipByExtension \/ Stat \/ MeasureFile \/ OpenFile \/ RefuseFile \/ Probe
  <2>1. UNCHANGED <<library, files, listed>>
    BY <1>6 DEF SkipByExtension, Stat, MeasureFile, OpenFile, RefuseFile, Probe, system
  <2>2. pc \in Past
    BY <1>6 DEF SkipByExtension, Stat, MeasureFile, OpenFile, RefuseFile, Probe, Past
  <2> QED
    BY <1>5, <2>1, <2>2
<1>7. CASE Answer \/ EmptyText \/ WriteText \/ Tick \/ UNCHANGED vars
  <2>1. UNCHANGED <<library, files, listed>>
    BY <1>7 DEF Answer, EmptyText, WriteText, Tick, vars, system
  <2>2. pc \in Past \/ UNCHANGED pc
    BY <1>7 DEF Answer, EmptyText, WriteText, Tick, vars, Past
  <2> QED
    BY <1>5, <2>1, <2>2
<1> QED
  BY <1>2, <1>3, <1>4, <1>6, <1>7 DEF Next, Detect

LEMMA AlwaysComplete == Spec => []Complete
<1>1. Init => Complete
  BY DEF Init, Complete, Past
<1>2. Inv /\ Complete /\ [Next]_vars => Complete'
  BY CompleteStep DEF Inv
<1> QED
  BY AlwaysInv, <1>1, <1>2, PTL DEF Spec

(* However often a path is given, whatever the files hold, and whatever fails or dies meanwhile: every path
   listed is a member of one recording as often as it was listed, or was skipped by its extension; and what
   is listed is what was given, while nobody writes and until a listing fails. *)
THEOREM NothingIsLost == Spec => []NothingDisappears
<1>1. ASSUME Inv, Named, Tally, Complete, pc \in {"save", "write", "answered"}
      PROVE  NothingDisappears
  <2>1. Balanced /\ queue = <<>> /\ recordings = Group(probed) /\ Files(probed) /\ listed \in Seq(Paths)
    BY <1>1, ProbedFiles DEF Tally
  <2>2. Members = MembersOf(recordings)
    BY DEF Members, MembersOf
  <2>3. /\ Cardinality(Members) = Len(probed)
        /\ \A p : Cardinality(MembersFrom(p)) = Cardinality(AnsweredFrom(probed, p))
    <3>1. \A p : MembersFrom(p) = AtPath(recordings, p)
      BY <2>2 DEF MembersFrom, AtPath
    <3>2. /\ Cardinality(MembersOf(recordings)) = Len(probed)
          /\ \A p : Cardinality(AtPath(recordings, p)) = Cardinality(AnsweredFrom(probed, p))
      BY <2>1, Counted
    <3> QED
      BY <2>2, <3>1, <3>2
  <2>4. \A p : /\ Cardinality(PlacesOf(queue, p)) = 0
               /\ Cardinality(PlacesOf(listed, p)) \in Nat
               /\ Cardinality(PlacesListed(p)) = Cardinality(PlacesOf(listed, p))
    <3> TAKE p
    <3>1. PlacesOf(queue, p) = {}
      BY <2>1 DEF PlacesOf
    <3>2. Cardinality({}) = 0
      BY FS_EmptySet
    <3>3. Cardinality(PlacesOf(listed, p)) \in Nat
      BY <2>1, CountIsNat
    <3> QED
      BY <3>1, <3>2, <3>3 DEF PlacesOf, PlacesListed
  <2>5. ASSUME NEW p \in Paths
        PROVE  Cardinality(MembersFrom(p)) =
                  IF WorthOpening(library.names[p]) THEN Cardinality(PlacesListed(p)) ELSE 0
    <3>1. Cardinality(AnsweredFrom(probed, p)) =
             IF WorthOpening(library.names[p])
             THEN Cardinality(PlacesOf(listed, p)) - Cardinality(PlacesOf(queue, p)) ELSE 0
      BY <2>1 DEF Balanced
    <3>2. Cardinality(PlacesOf(listed, p)) - Cardinality(PlacesOf(queue, p)) = Cardinality(PlacesOf(listed, p))
      BY <2>4
    <3> QED
      BY <2>3, <2>4, <3>1, <3>2
  <2>6. skipped + Cardinality(Members) = Len(listed)
    <3>1. Len(probed) \in Nat /\ Len(queue) = 0 /\ skipped \in Nat
      BY <1>1, <2>1, FilePlaces DEF Balanced
    <3>2. Len(probed) + skipped + Len(queue) = Len(listed)
      BY <2>1 DEF Balanced
    <3> QED
      BY <2>3, <3>1, <3>2
  <2>7. ~library.others /\ Listing \notin failures => AllListed
    BY <1>1 DEF Complete, Past
  <2> QED
    BY <2>5, <2>6, <2>7 DEF NothingDisappears, AllListed
<1>2. Inv /\ Named /\ Tally /\ Complete => NothingDisappears
  BY <1>1 DEF NothingDisappears
<1> QED
  BY <1>2, AlwaysInv, AlwaysNamed, AlwaysComplete, PTL

(* The files of a stem, whatever their grammars and however many of one camera, are in one recording, which
   no other shares, in the order of their cameras. *)
THEOREM PairsHold == Spec => []PairsAreWholeAndOrdered
<1>1. Inv /\ Named /\ Tally => PairsAreWholeAndOrdered
  <2> SUFFICES ASSUME Inv, Named, Tally, NEW r \in DOMAIN recordings, NEW s \in DOMAIN recordings,
                      recordings[r].kind \in {"paired", "unpaired"}
               PROVE  LET mine == recordings[r].members
                          theirs == recordings[s].members
                      IN /\ recordings[r].kind = "paired" <=> Len(mine) > 1
                         /\ \A i, j \in DOMAIN mine :
                              /\ Stem(mine[i]) = Stem(mine[j])
                              /\ i < j => CameraOrder[Camera(mine[i])] <= CameraOrder[Camera(mine[j])]
                         /\ recordings[s].kind \in {"paired", "unpaired"} /\ Stem(mine[1]) = Stem(theirs[1])
                              => r = s
    BY DEF PairsAreWholeAndOrdered
  <2>1. recordings = Group(probed) /\ Files(probed)
    BY NoRecordings, ProbedFiles DEF Tally
  <2> QED
    BY <2>1, Whole
<1> QED
  BY <1>1, AlwaysInv, AlwaysNamed, PTL

(* A sign that compares is shown by what was read of a file at another path. *)
LEMMA Shown ==
    ASSUME Inv, Named, NEW i \in DOMAIN probed,
           NEW other \in Comparable(probed[i].probe, Siblings(probed))
    PROVE  other \in Witnesses(probed[i])
<1> DEFINE probe == probed[i].probe
<1>1. PICK s \in Siblings(probed) : s.name # probe.name /\ AreSiblings(probe, s) /\ other \in s.container
  BY DEF Comparable
<1>2. PICK j \in DOMAIN probed : s = probed[j].probe
  BY <1>1 DEF Siblings
<1>3. probed[j].path # probed[i].path
  <2>1. probed[j].probe.name = library.names[probed[j].path] /\ probe.name = library.names[probed[i].path]
    BY DEF Named, SaidOf
  <2> QED
    BY <1>1, <1>2, <2>1
<1>4. \E mine \in probe.parsed, theirs \in probed[j].probe.parsed :
         mine.grammar = theirs.grammar \/ (mine.time = theirs.time /\ mine.time # 0)
  BY <1>1, <1>2 DEF AreSiblings
<1> QED
  BY <1>1, <1>2, <1>3, <1>4 DEF Witnesses

(* What each sign says, of the summary it is of and those it is compared with. *)
SaysSo(sign, probe, own, comparable) ==
    /\ sign[1] = "single video track where sibling has two" =>
         own.videoTracks = 1 /\ \E other \in comparable : other.videoTracks >= 2
    /\ sign[1] = "vendor boxes absent" =>
         /\ own.vendorBoxes = 0
         /\ \/ \E parsed \in probe.parsed : CarriesVendorBoxes(parsed.grammar)
            \/ \E other \in comparable : other.vendorBoxes > 0
    /\ sign[1] = "resolution below siblings" =>
         \E other \in comparable : \E a \in own.picture, b \in other.picture : a[1] < b[1] \/ a[2] < b[2]

LEMMA SignsSay ==
    ASSUME NEW probe, NEW own, NEW comparable, NEW sign \in Signals(probe, own, comparable)
    PROVE  SaysSo(sign, probe, own, comparable)
<1> USE DEF SaysSo
<1>1. CASE sign = <<"moov after mdat">>
  BY <1>1
<1>2. CASE \E tag : sign = <<"foreign muxer tag", tag>>
  <2>1. PICK tag : sign = <<"foreign muxer tag", tag>>
    BY <1>2
  <2> QED
    BY <2>1
<1>3. CASE sign = <<"single video track where sibling has two">> /\ \E o \in comparable : own.videoTracks = 1 /\ o.videoTracks >= 2
  BY <1>3
<1>4. CASE /\ sign = <<"vendor boxes absent">> /\ own.vendorBoxes = 0
           /\ \/ \E parsed \in probe.parsed : CarriesVendorBoxes(parsed.grammar)
              \/ \E other \in comparable : other.vendorBoxes > 0
  BY <1>4
<1>5. CASE \E sibling \in Largest(comparable) :
             /\ sign = <<"resolution below siblings", sibling>>
             /\ \E a \in own.picture : a[1] < sibling[1] \/ a[2] < sibling[2]
  <2>1. PICK sibling \in Largest(comparable) :
             /\ sign = <<"resolution below siblings", sibling>>
             /\ \E a \in own.picture : a[1] < sibling[1] \/ a[2] < sibling[2]
    BY <1>5
  <2>2. \E other \in comparable : sibling \in other.picture
    BY DEF Largest
  <2> QED
    BY <2>1, <2>2
<1>6. \/ sign = <<"moov after mdat">>
      \/ \E tag : sign = <<"foreign muxer tag", tag>>
      \/ sign = <<"single video track where sibling has two">> /\ \E o \in comparable : own.videoTracks = 1 /\ o.videoTracks >= 2
      \/ /\ sign = <<"vendor boxes absent">> /\ own.vendorBoxes = 0
         /\ \/ \E parsed \in probe.parsed : CarriesVendorBoxes(parsed.grammar)
            \/ \E other \in comparable : other.vendorBoxes > 0
      \/ \E sibling \in Largest(comparable) :
             /\ sign = <<"resolution below siblings", sibling>>
             /\ \E a \in own.picture : a[1] < sibling[1] \/ a[2] < sibling[2]
  BY DEF Signals
<1> QED
  BY <1>1, <1>2, <1>3, <1>4, <1>5, <1>6

(* A sign that compares a file with others is shown by another file of the same scan. *)
THEOREM SignsAreShown == Spec => []SignsHaveAWitness
<1>1. Inv /\ Named /\ Tally => SignsHaveAWitness
  <2> SUFFICES ASSUME Inv, Named, Tally, NEW r \in DOMAIN recordings, NEW k \in DOMAIN recordings[r].members,
                      NEW origin \in recordings[r].origins[k], NEW sign \in origin.signals
               PROVE  LET file == recordings[r].members[k]
                          own == The(file.probe.container)
                      IN CASE sign[1] = "single video track where sibling has two" ->
                                own.videoTracks = 1 /\ \E other \in Witnesses(file) : other.videoTracks >= 2
                           [] sign[1] = "vendor boxes absent" ->
                                /\ own.vendorBoxes = 0
                                /\ origin.layoutKnown \/ \E other \in Witnesses(file) : other.vendorBoxes > 0
                           [] sign[1] = "resolution below siblings" ->
                                \E other \in Witnesses(file) : \E a \in own.picture, b \in other.picture :
                                   a[1] < b[1] \/ a[2] < b[2]
                           [] OTHER -> TRUE
    BY DEF SignsHaveAWitness
  <2> DEFINE file == recordings[r].members[k]
             own == The(file.probe.container)
             siblings == Siblings(probed)
  <2>1. recordings = Group(probed) /\ Files(probed)
    BY NoRecordings, ProbedFiles DEF Tally
  <2>2. PICK i \in DOMAIN probed : file = probed[i] /\ origin = Assess(probed[i].probe, siblings)
    <3>1. PICK source \in Bijection(MembersOf(recordings), DOMAIN probed) :
             /\ file = probed[source[<<r, k>>]]
             /\ recordings[r].origins[k] \subseteq {Assess(probed[source[<<r, k>>]].probe, siblings)}
      BY <2>1, Partition
    <3>2. source[<<r, k>>] \in DOMAIN probed
      <4>1. <<r, k>> \in MembersOf(recordings)
        BY DEF MembersOf
      <4> QED
        BY <3>1, <4>1, Fun_BijectionProperties
    <3> QED
      BY <3>1, <3>2
  <2> DEFINE probe == probed[i].probe
             comparable == Comparable(probe, siblings)
  <2>3. PICK summary \in probe.container : sign \in Signals(probe, summary, comparable)
    BY <2>2 DEF Assess
  <2>4. own = summary
    <3>1. \A one, other \in probe.container : one = other
      BY DEF Named, SaidOf
    <3>2. The(probe.container) \in probe.container
      BY DEF The
    <3> QED
      BY <2>2, <3>1, <3>2
  <2>5. \A other \in comparable : other \in Witnesses(file)
    BY <2>2, Shown
  <2>6. origin.layoutKnown <=> \E parsed \in probe.parsed : Measured(parsed.grammar)
    BY <2>2 DEF Assess
  <2> HIDE DEF own, file, comparable, probe
  <2>7. SaysSo(sign, probe, own, comparable)
    BY <2>3, <2>4, SignsSay
  <2>8. (\E parsed \in probe.parsed : CarriesVendorBoxes(parsed.grammar)) => origin.layoutKnown
    BY <2>6 DEF CarriesVendorBoxes, Measured
  <2>9. /\ sign[1] = "single video track where sibling has two" =>
             own.videoTracks = 1 /\ \E other \in Witnesses(file) : other.videoTracks >= 2
        /\ sign[1] = "vendor boxes absent" =>
             own.vendorBoxes = 0 /\ (origin.layoutKnown \/ \E other \in Witnesses(file) : other.vendorBoxes > 0)
        /\ sign[1] = "resolution below siblings" =>
             \E other \in Witnesses(file) : \E a \in own.picture, b \in other.picture : a[1] < b[1] \/ a[2] < b[2]
    BY <2>5, <2>7, <2>8 DEF SaysSo
  <2> QED
    BY <2>9 DEF own, file
<1> QED
  BY <1>1, AlwaysInv, AlwaysNamed, PTL
=============================================================================
