---------------------------- MODULE ChildrenProofs ----------------------------
(***************************************************************************)
(* Theorems about Children, for payloads of any length and content and     *)
(* any caps.                                                               *)
(*                                                                         *)
(* The argument is in constant operators of a list of boxes: a box pushed  *)
(* where its parent was read to keeps the parent's bytes each in one       *)
(* child, and no other box notices.  The actions then only have to show    *)
(* that they push there.                                                   *)
(***************************************************************************)
EXTENDS Children, TLAPS, SequenceTheorems, FiniteSetTheorems, FunctionTheorems

(* Operators of a list of boxes. *)
Beyond(b) == b.offset + b.size
Inside(b) == b.offset + b.header + b.fields
Holds(b) == ~b.clipped /\ (b.kind \in Descended \cup {"udta", "stsd"} \/ b.fields > 0)
KidsIn(bs, i) == {j \in DOMAIN bs : bs[j].parent = i}
Covers(b, byte) == b.offset <= byte /\ byte < Beyond(b)

(* Every byte read of a box is in one child, every child in what was read. *)
OneEach(bs, i, to) ==
    \A byte \in Nat : Inside(bs[i]) <= byte /\ byte < to =>
        \E j \in KidsIn(bs, i) : /\ Covers(bs[j], byte)
                                 /\ \A k \in KidsIn(bs, i) : Covers(bs[k], byte) => k = j
Within(bs, i, to) ==
    \A j \in KidsIn(bs, i) : Inside(bs[i]) <= bs[j].offset /\ Beyond(bs[j]) <= to

(* The children follow each other in order. *)
InOrder(bs, i, to) ==
    /\ \A j \in KidsIn(bs, i) : (\A k \in KidsIn(bs, i) : j <= k) => bs[j].offset = Inside(bs[i])
    /\ \A j, k \in KidsIn(bs, i) :
         j < k /\ (\A n \in KidsIn(bs, i) : n <= j \/ k <= n) => bs[k].offset = Beyond(bs[j])
    /\ \A j \in KidsIn(bs, i) : (\A k \in KidsIn(bs, i) : k <= j) => Beyond(bs[j]) = to

TiledTo(bs, i, to) ==
    /\ Holds(bs[i]) => OneEach(bs, i, to)
    /\ ~Holds(bs[i]) => KidsIn(bs, i) = {}
    /\ Within(bs, i, to)
    /\ InOrder(bs, i, to)

ParentsFirst(bs) == \A j \in DOMAIN bs : bs[j].parent < j

(* The numbers of a box. *)
LEMMA BoxNumbers ==
    ASSUME NEW b \in Box
    PROVE  /\ b.offset \in Nat /\ b.size \in Nat /\ b.header \in Nat
           /\ b.fields \in Nat /\ b.parent \in Nat
           /\ Beyond(b) \in Nat /\ b.offset <= Beyond(b)
           /\ Inside(b) \in Nat
<1>1. /\ b.offset \in Nat /\ b.size \in Nat /\ b.header \in {0, Small, Wide}
      /\ b.fields \in Nat /\ b.parent \in Nat
    BY DEF Box
<1>2. b.header \in Nat
    BY <1>1 DEF Small, Wide
<1> QED BY <1>1, <1>2 DEF Beyond, Inside

LEMMA ListNumbers ==
    ASSUME NEW bs \in Seq(Box), ParentsFirst(bs)
    PROVE  /\ DOMAIN bs = 1..Len(bs) /\ Len(bs) \in Nat /\ Len(bs) + 1 \notin DOMAIN bs
           /\ \A j \in DOMAIN bs :
                /\ bs[j] \in Box /\ j \in Nat /\ j < Len(bs) + 1
                /\ bs[j].parent \in Nat /\ bs[j].parent < j
                /\ bs[j].offset \in Nat /\ Beyond(bs[j]) \in Nat
                /\ Inside(bs[j]) \in Nat
<1>1. DOMAIN bs = 1..Len(bs) /\ Len(bs) \in Nat /\ Len(bs) + 1 \notin DOMAIN bs
    OBVIOUS
<1>2. ASSUME NEW j \in DOMAIN bs
      PROVE  /\ bs[j] \in Box /\ j \in Nat /\ j < Len(bs) + 1
             /\ bs[j].parent \in Nat /\ bs[j].parent < j
             /\ bs[j].offset \in Nat /\ Beyond(bs[j]) \in Nat
             /\ Inside(bs[j]) \in Nat
    <2>1. bs[j] \in Box /\ j \in Nat /\ j < Len(bs) + 1
        BY <1>1
    <2>2. bs[j].parent < j
        BY DEF ParentsFirst
    <2> QED BY <2>1, <2>2, BoxNumbers
<1> QED BY <1>1, <1>2

(* What pushing a box does to the children of every box. *)
LEMMA PushedKids ==
    ASSUME NEW bs \in Seq(Box), NEW r \in Box, r.parent \in DOMAIN bs, ParentsFirst(bs)
    PROVE  /\ Append(bs, r) \in Seq(Box)
           /\ Len(Append(bs, r)) = Len(bs) + 1
           /\ DOMAIN Append(bs, r) = DOMAIN bs \cup {Len(bs) + 1}
           /\ \A i \in DOMAIN bs : Append(bs, r)[i] = bs[i]
           /\ Append(bs, r)[Len(bs) + 1] = r
           /\ KidsIn(Append(bs, r), r.parent) = KidsIn(bs, r.parent) \cup {Len(bs) + 1}
           /\ \A i \in DOMAIN bs : i # r.parent => KidsIn(Append(bs, r), i) = KidsIn(bs, i)
           /\ KidsIn(Append(bs, r), Len(bs) + 1) = {}
           /\ ParentsFirst(Append(bs, r))
<1> DEFINE as == Append(bs, r)
           n == Len(bs) + 1
<1>1. /\ as \in Seq(Box) /\ Len(as) = n /\ DOMAIN as = DOMAIN bs \cup {n}
      /\ as[n] = r
      /\ \A i \in DOMAIN bs : as[i] = bs[i]
    OBVIOUS
<1>2. /\ n \notin DOMAIN bs /\ n \in Nat
      /\ \A j \in DOMAIN bs : /\ j \in Nat /\ j < n
                              /\ bs[j].parent \in Nat /\ bs[j].parent < j
    BY ListNumbers
<1>0. r.parent \in Nat /\ r.parent < n
    BY <1>2
<1> HIDE DEF as, n
<1>3. KidsIn(as, r.parent) = KidsIn(bs, r.parent) \cup {n}
    BY <1>1 DEF KidsIn
<1>4. \A i \in DOMAIN bs : i # r.parent => KidsIn(as, i) = KidsIn(bs, i)
    BY <1>1 DEF KidsIn
<1>5. KidsIn(as, n) = {}
    <2> SUFFICES ASSUME NEW j \in DOMAIN as PROVE as[j].parent # n
        BY DEF KidsIn
    <2>1. CASE j = n
        <3>1. as[j].parent = r.parent BY <1>1, <2>1
        <3> QED BY <1>0, <1>2, <3>1
    <2>2. CASE j \in DOMAIN bs
        <3>1. as[j].parent = bs[j].parent BY <1>1, <2>2
        <3>2. bs[j].parent \in Nat /\ bs[j].parent < j /\ j < n /\ j \in Nat BY <1>2, <2>2
        <3> QED BY <1>2, <3>1, <3>2
    <2> QED BY <1>1, <2>1, <2>2
<1>6. ParentsFirst(as)
    <2> SUFFICES ASSUME NEW j \in DOMAIN as PROVE as[j].parent < j
        BY DEF ParentsFirst
    <2>1. CASE j = n BY <1>1, <1>0, <2>1
    <2>2. CASE j \in DOMAIN bs BY <1>1, <1>2, <2>2
    <2> QED BY <1>1, <2>1, <2>2
<1> QED BY <1>1, <1>3, <1>4, <1>5, <1>6 DEF as, n

(* A box pushed where its parent was read to is the parent's last child. *)
LEMMA PushedTiles ==
    ASSUME NEW bs \in Seq(Box), ParentsFirst(bs),
           NEW p \in DOMAIN bs, Holds(bs[p]),
           NEW r \in Box, r.parent = p, Inside(bs[p]) <= r.offset,
           TiledTo(bs, p, r.offset)
    PROVE  TiledTo(Append(bs, r), p, Beyond(r))
<1> DEFINE as == Append(bs, r)
           n == Len(bs) + 1
<1>1. /\ as \in Seq(Box) /\ n \in Nat /\ n \notin DOMAIN bs
      /\ \A i \in DOMAIN bs : as[i] = bs[i]
      /\ as[n] = r
      /\ KidsIn(as, p) = KidsIn(bs, p) \cup {n}
    BY PushedKids, ListNumbers
<1>2. /\ r.offset \in Nat /\ Beyond(r) \in Nat /\ r.offset <= Beyond(r)
      /\ Inside(bs[p]) \in Nat
    BY BoxNumbers, ListNumbers
<1>3. \A j \in KidsIn(bs, p) : /\ as[j] = bs[j] /\ j < n /\ j \in Nat /\ j # n
                               /\ bs[j].offset \in Nat /\ Beyond(bs[j]) \in Nat
                               /\ Inside(bs[p]) <= bs[j].offset /\ Beyond(bs[j]) <= r.offset
    <2> TAKE j \in KidsIn(bs, p)
    <2>1. j \in DOMAIN bs BY DEF KidsIn
    <2>2. /\ j < n /\ j \in Nat
          /\ bs[j].offset \in Nat /\ Beyond(bs[j]) \in Nat
        BY <2>1, ListNumbers
    <2>3. Inside(bs[p]) <= bs[j].offset /\ Beyond(bs[j]) <= r.offset
        BY DEF TiledTo, Within
    <2> QED BY <1>1, <2>1, <2>2, <2>3
<1>4. as[p] = bs[p] /\ p \in DOMAIN bs
    BY <1>1
<1> HIDE DEF as, n
<1>5. OneEach(as, p, Beyond(r))
    <2> SUFFICES ASSUME NEW byte \in Nat, Inside(bs[p]) <= byte, byte < Beyond(r)
                 PROVE  \E j \in KidsIn(as, p) : /\ Covers(as[j], byte)
                                                 /\ \A k \in KidsIn(as, p) : Covers(as[k], byte) => k = j
        BY <1>4 DEF OneEach
    <2>1. CASE byte < r.offset
        <3>1. PICK j \in KidsIn(bs, p) : /\ Covers(bs[j], byte)
                                         /\ \A k \in KidsIn(bs, p) : Covers(bs[k], byte) => k = j
            BY <2>1 DEF TiledTo, OneEach
        <3>2. ~Covers(r, byte)
            BY <1>2, <2>1 DEF Covers
        <3>3. j \in KidsIn(as, p) /\ Covers(as[j], byte)
            BY <1>1, <1>3, <3>1
        <3>4. ASSUME NEW k \in KidsIn(as, p), Covers(as[k], byte) PROVE k = j
            <4>1. CASE k = n BY <1>1, <3>2, <3>4, <4>1
            <4>2. CASE k \in KidsIn(bs, p) BY <1>3, <3>1, <3>4, <4>2
            <4> QED BY <1>1, <4>1, <4>2
        <3> QED BY <3>3, <3>4
    <2>2. CASE r.offset <= byte
        <3>1. Covers(r, byte)
            BY <2>2 DEF Covers
        <3>2. n \in KidsIn(as, p) /\ Covers(as[n], byte)
            BY <1>1, <3>1
        <3>3. ASSUME NEW k \in KidsIn(as, p), Covers(as[k], byte) PROVE k = n
            <4>1. CASE k \in KidsIn(bs, p)
                <5>1. Beyond(bs[k]) \in Nat /\ Beyond(bs[k]) <= r.offset
                    BY <1>3, <4>1
                <5>2. ~Covers(bs[k], byte)
                    BY <1>2, <2>2, <5>1 DEF Covers
                <5> QED BY <1>3, <3>3, <4>1, <5>2
            <4> QED BY <1>1, <4>1
        <3> QED BY <3>2, <3>3
    <2>3. byte < r.offset \/ r.offset <= byte
        BY <1>2
    <2> QED BY <2>1, <2>2, <2>3
<1>6. Within(as, p, Beyond(r))
    <2> SUFFICES ASSUME NEW j \in KidsIn(as, p)
                 PROVE  Inside(bs[p]) <= as[j].offset /\ Beyond(as[j]) <= Beyond(r)
        BY <1>4 DEF Within
    <2>1. CASE j = n
        <3>1. as[j] = r BY <1>1, <2>1
        <3> QED BY <1>2, <3>1
    <2>2. CASE j \in KidsIn(bs, p)
        <3>1. as[j] = bs[j] BY <1>3, <2>2
        <3>2. /\ Inside(bs[p]) <= bs[j].offset
              /\ Beyond(bs[j]) \in Nat /\ Beyond(bs[j]) <= r.offset BY <1>3, <2>2
        <3> QED BY <1>2, <3>1, <3>2
    <2> QED BY <1>1, <2>1, <2>2
<1>7. InOrder(as, p, Beyond(r))
    <2>1. ASSUME NEW j \in KidsIn(as, p), \A k \in KidsIn(as, p) : j <= k
          PROVE  as[j].offset = Inside(as[p])
        <3>1. CASE j \in KidsIn(bs, p)
            <4>1. \A k \in KidsIn(bs, p) : j <= k BY <1>1, <2>1
            <4>2. bs[j].offset = Inside(bs[p]) BY <3>1, <4>1 DEF TiledTo, InOrder
            <4>3. as[j] = bs[j] BY <1>3, <3>1
            <4> QED BY <1>4, <4>2, <4>3
        <3>2. CASE j = n
            <4>1. ASSUME NEW k \in KidsIn(bs, p) PROVE FALSE
                <5>1. k < n /\ k \in Nat BY <1>3
                <5>2. n <= k BY <1>1, <2>1, <3>2
                <5> QED BY <1>1, <5>1, <5>2
            <4>2. ~(Inside(bs[p]) < r.offset)
                BY <1>2, <4>1 DEF TiledTo, OneEach
            <4>3. r.offset = Inside(bs[p])
                BY <1>2, <4>2
            <4> QED BY <1>1, <1>4, <3>2, <4>3
        <3> QED BY <1>1, <3>1, <3>2
    <2>2. ASSUME NEW j \in KidsIn(as, p), NEW k \in KidsIn(as, p), j < k,
                 \A m \in KidsIn(as, p) : m <= j \/ k <= m
          PROVE  as[k].offset = Beyond(as[j])
        <3>1. j \in KidsIn(bs, p)
            <4>1. CASE j = n
                <5>1. k = n \/ (k \in Nat /\ k < n) BY <1>1, <1>3
                <5> QED BY <1>1, <2>2, <4>1, <5>1
            <4> QED BY <1>1, <4>1
        <3>2. CASE k \in KidsIn(bs, p)
            <4>1. \A m \in KidsIn(bs, p) : m <= j \/ k <= m BY <1>1, <2>2
            <4>2. bs[k].offset = Beyond(bs[j])
                BY <2>2, <3>1, <3>2, <4>1 DEF TiledTo, InOrder
            <4>3. as[k] = bs[k] /\ as[j] = bs[j] BY <1>3, <3>1, <3>2
            <4> QED BY <4>2, <4>3
        <3>3. CASE k = n
            <4>1. ASSUME NEW m \in KidsIn(bs, p) PROVE m <= j
                <5>1. m < n /\ m \in Nat BY <1>3
                <5>2. m <= j \/ n <= m BY <1>1, <2>2, <3>3
                <5> QED BY <1>1, <5>1, <5>2
            <4>2. Beyond(bs[j]) = r.offset BY <3>1, <4>1 DEF TiledTo, InOrder
            <4>3. as[k] = r /\ as[j] = bs[j] BY <1>1, <1>3, <3>1, <3>3
            <4> QED BY <4>2, <4>3
        <3> QED BY <1>1, <3>2, <3>3
    <2>3. ASSUME NEW j \in KidsIn(as, p), \A k \in KidsIn(as, p) : k <= j
          PROVE  Beyond(as[j]) = Beyond(r)
        <3>1. n <= j BY <1>1, <2>3
        <3>2. CASE j \in KidsIn(bs, p)
            <4>1. j < n /\ j \in Nat BY <1>3, <3>2
            <4> QED BY <1>1, <3>1, <4>1
        <3>3. CASE j = n BY <1>1, <3>3
        <3> QED BY <1>1, <3>2, <3>3
    <2> QED BY <2>1, <2>2, <2>3 DEF InOrder
<1>8. Holds(as[p])
    BY <1>4
<1> QED BY <1>5, <1>6, <1>7, <1>8 DEF TiledTo, as

(* No other box notices. *)
LEMMA PushedElsewhere ==
    ASSUME NEW bs \in Seq(Box), ParentsFirst(bs),
           NEW r \in Box, r.parent \in DOMAIN bs,
           NEW i \in DOMAIN bs, i # r.parent, NEW to, TiledTo(bs, i, to)
    PROVE  TiledTo(Append(bs, r), i, to)
<1> DEFINE as == Append(bs, r)
<1>1. as[i] = bs[i] /\ KidsIn(as, i) = KidsIn(bs, i)
    BY PushedKids
<1>2. \A j \in KidsIn(bs, i) : as[j] = bs[j]
    BY PushedKids DEF KidsIn
<1> HIDE DEF as
<1>3. Holds(bs[i]) => OneEach(as, i, to)
    BY <1>1, <1>2 DEF TiledTo, OneEach
<1>4. Within(as, i, to)
    BY <1>1, <1>2 DEF TiledTo, Within
<1>5. InOrder(as, i, to)
    BY <1>1, <1>2 DEF TiledTo, InOrder
<1> QED BY <1>1, <1>3, <1>4, <1>5 DEF TiledTo, as

(* The pushed box has no children yet: it is read to where its boxes begin, or is not read. *)
LEMMA PushedNew ==
    ASSUME NEW bs \in Seq(Box), ParentsFirst(bs),
           NEW r \in Box, r.parent \in DOMAIN bs,
           NEW to \in Nat, Holds(r) => to = Inside(r)
    PROVE  TiledTo(Append(bs, r), Len(bs) + 1, to)
<1> DEFINE as == Append(bs, r)
           n == Len(bs) + 1
<1>1. as[n] = r /\ KidsIn(as, n) = {}
    BY PushedKids
<1>2. Inside(r) \in Nat
    BY BoxNumbers
<1> HIDE DEF as, n
<1>3. Holds(as[n]) => OneEach(as, n, to)
    BY <1>1, <1>2 DEF OneEach
<1>4. Within(as, n, to) /\ InOrder(as, n, to)
    BY <1>1 DEF Within, InOrder
<1> QED BY <1>1, <1>3, <1>4 DEF TiledTo, as, n

-----------------------------------------------------------------------------
(* The inductive invariant.  A box being read is tiled up to its cursor and any other to its end.  Boxes are
   open once and hold boxes, or a push would disturb two of them. *)
ClippedLast(bs) ==
    \A j \in DOMAIN bs : bs[j].clipped =>
        /\ bs[j].parent \in DOMAIN bs
        /\ Beyond(bs[j]) = Beyond(bs[bs[j].parent])
        /\ KidsIn(bs, j) = {}
        /\ \A k \in KidsIn(bs, bs[j].parent) : k <= j
        /\ bs[bs[j].parent].kind \notin Descended

ReadWithin ==
    \A f \in DOMAIN open :
        /\ open[f].box \in DOMAIN boxes
        /\ open[f].cursor \in Inside(boxes[open[f].box])..Beyond(boxes[open[f].box])
OpenOnce == \A f, g \in DOMAIN open : open[f].box = open[g].box => f = g
OpenHold == \A f \in DOMAIN open : Holds(boxes[open[f].box])
OpenTiled == \A f \in DOMAIN open : TiledTo(boxes, open[f].box, open[f].cursor)
ClosedTiled ==
    \A i \in DOMAIN boxes :
        (\A f \in DOMAIN open : open[f].box # i) => TiledTo(boxes, i, Beyond(boxes[i]))

Inv ==
    /\ TypeOK
    /\ ParentsFirst(boxes)
    /\ ClippedLast(boxes)
    /\ OpenOnce
    /\ OpenHold
    /\ OpenTiled
    /\ ClosedTiled

LEMMA InitInv == Init => Inv
<1> SUFFICES ASSUME Init PROVE Inv
    OBVIOUS
<1>1. PICK n \in Lengths :
        boxes = <<[kind |-> "moov", offset |-> 0, size |-> Small + n, header |-> Small,
                   fields |-> 0, parent |-> 0, clipped |-> FALSE, declared |-> Small + n]>>
    BY DEF Init
<1> DEFINE m == [kind |-> "moov", offset |-> 0, size |-> Small + n, header |-> Small,
                 fields |-> 0, parent |-> 0, clipped |-> FALSE, declared |-> Small + n]
<1>2. n \in Nat /\ "moov" \in Kind /\ "moov" \in Descended
    BY SizeAssumption, KindAssumption
<1>3. m \in Box
    BY <1>2 DEF Box, Small
<1>4. /\ m.parent = 0 /\ ~m.clipped /\ Inside(m) = Small /\ Beyond(m) = Small + n
      /\ Holds(m) /\ Small \in Nat
    BY <1>2 DEF Inside, Beyond, Holds, Small
<1> HIDE DEF m
<1>5. boxes = <<m>> /\ boxes \in Seq(Box) /\ DOMAIN boxes = {1} /\ boxes[1] = m
    BY <1>1, <1>3 DEF m
<1>6. /\ open \in Seq(Frame) /\ open # <<>> /\ DOMAIN open = {1}
      /\ open[1].box = 1 /\ open[1].cursor = Small /\ answer = "reading"
    BY <1>4 DEF Init, Frame
<1>7. TypeOK
    <2>1. open[1].cursor \in ChildrenOffset(1)..End(1)
        <3>1. ChildrenOffset(1) = Inside(m) /\ End(1) = Beyond(m)
            BY <1>5 DEF ChildrenOffset, End, Inside, Beyond
        <3> QED BY <1>2, <1>4, <1>6, <3>1
    <2> QED BY <1>5, <1>6, <2>1 DEF TypeOK
<1>8. ParentsFirst(boxes) /\ ClippedLast(boxes)
    BY <1>4, <1>5 DEF ParentsFirst, ClippedLast
<1>9. KidsIn(boxes, 1) = {}
    BY <1>4, <1>5 DEF KidsIn
<1>10. TiledTo(boxes, 1, Small)
    <2>1. OneEach(boxes, 1, Small) BY <1>4, <1>5 DEF OneEach
    <2> QED BY <1>4, <1>5, <1>9, <2>1 DEF TiledTo, Within, InOrder
<1>11. OpenOnce /\ OpenHold /\ OpenTiled /\ ClosedTiled
    BY <1>4, <1>5, <1>6, <1>10 DEF OpenOnce, OpenHold, OpenTiled, ClosedTiled
<1> QED BY <1>7, <1>8, <1>11 DEF Inv

(* The box being read. *)
LEMMA TopFacts ==
    ASSUME Inv, answer = "reading"
    PROVE  /\ Len(open) \in DOMAIN open /\ open \in Seq(Frame) /\ DOMAIN open = 1..Len(open)
           /\ Len(open) \in Nat /\ Top \in Frame /\ Top.box \in DOMAIN boxes
           /\ boxes \in Seq(Box)
           /\ Holds(boxes[Top.box])
           /\ TiledTo(boxes, Top.box, Cursor)
           /\ Cursor \in Nat /\ Inside(boxes[Top.box]) \in Nat /\ Beyond(boxes[Top.box]) \in Nat
           /\ Inside(boxes[Top.box]) <= Cursor /\ Cursor <= Beyond(boxes[Top.box])
           /\ Remaining = Beyond(boxes[Top.box]) - Cursor
<1>1. /\ open \in Seq(Frame) /\ open # <<>> /\ boxes \in Seq(Box)
      /\ \A f \in DOMAIN open :
           /\ open[f].box \in DOMAIN boxes
           /\ open[f].cursor \in ChildrenOffset(open[f].box)..End(open[f].box)
    BY DEF Inv, TypeOK
<1>2. Len(open) \in DOMAIN open /\ DOMAIN open = 1..Len(open) /\ Len(open) \in Nat /\ Top \in Frame
    BY <1>1 DEF Top
<1>3. Top.box \in DOMAIN boxes /\ Cursor \in ChildrenOffset(Top.box)..End(Top.box) /\ Cursor \in Nat
    BY <1>1, <1>2 DEF Top, Cursor, Frame
<1>4. ChildrenOffset(Top.box) = Inside(boxes[Top.box]) /\ End(Top.box) = Beyond(boxes[Top.box])
    BY DEF ChildrenOffset, End, Inside, Beyond
<1>5. Inside(boxes[Top.box]) \in Nat /\ Beyond(boxes[Top.box]) \in Nat
    BY <1>1, <1>3, ListNumbers DEF Inv
<1>6. Holds(boxes[Top.box]) /\ TiledTo(boxes, Top.box, Cursor)
    BY <1>2 DEF Inv, OpenHold, OpenTiled, Top, Cursor
<1>7. Inside(boxes[Top.box]) <= Cursor /\ Cursor <= Beyond(boxes[Top.box])
    BY <1>3, <1>4, <1>5
<1> QED BY <1>1, <1>2, <1>3, <1>4, <1>5, <1>6, <1>7 DEF Remaining

(* A box pushed where the box being read was read to. *)
LEMMA Pushed ==
    ASSUME Inv, answer = "reading", Remaining > 0,
           NEW r \in Box, r.parent = Top.box, r.offset = Cursor,
           Beyond(r) <= Beyond(boxes[Top.box]),
           r.clipped => /\ Beyond(r) = Beyond(boxes[Top.box])
                        /\ Lenient(Top.box),
           boxes' = Append(boxes, r)
    PROVE  /\ boxes' \in Seq(Box) /\ ParentsFirst(boxes') /\ ClippedLast(boxes')
           /\ DOMAIN boxes' = DOMAIN boxes \cup {Len(boxes) + 1}
           /\ Len(boxes) + 1 \notin DOMAIN boxes /\ Len(boxes) + 1 \in Nat
           /\ \A i \in DOMAIN boxes : boxes'[i] = boxes[i]
           /\ boxes'[Len(boxes) + 1] = r
           /\ TiledTo(boxes', Top.box, Beyond(r))
           /\ \A i \in DOMAIN boxes : i # Top.box =>
                \A to : TiledTo(boxes, i, to) => TiledTo(boxes', i, to)
           /\ \A to \in Nat : (Holds(r) => to = Inside(r)) => TiledTo(boxes', Len(boxes) + 1, to)
<1> DEFINE n == Len(boxes) + 1
           p == Top.box
<1>1. /\ boxes \in Seq(Box) /\ ParentsFirst(boxes) /\ p \in DOMAIN boxes /\ Holds(boxes[p])
      /\ Cursor \in Nat /\ Beyond(boxes[p]) \in Nat /\ Cursor < Beyond(boxes[p])
      /\ Inside(boxes[p]) <= r.offset /\ TiledTo(boxes, p, r.offset)
    BY TopFacts DEF Inv
<1>0. n \notin DOMAIN boxes /\ n \in Nat /\ \A i \in DOMAIN boxes : i \in Nat /\ i < n
    BY <1>1, ListNumbers
<1>2. /\ boxes' \in Seq(Box) /\ ParentsFirst(boxes')
      /\ DOMAIN boxes' = DOMAIN boxes \cup {n}
      /\ \A i \in DOMAIN boxes : boxes'[i] = boxes[i]
      /\ boxes'[n] = r
      /\ KidsIn(boxes', p) = KidsIn(boxes, p) \cup {n}
      /\ \A i \in DOMAIN boxes : i # p => KidsIn(boxes', i) = KidsIn(boxes, i)
      /\ KidsIn(boxes', n) = {}
    <2>1. boxes \in Seq(Box) /\ ParentsFirst(boxes) /\ r.parent \in DOMAIN boxes
        BY <1>1
    <2> DEFINE as == Append(boxes, r)
    <2>2. /\ as \in Seq(Box) /\ ParentsFirst(as)
          /\ DOMAIN as = DOMAIN boxes \cup {n}
          /\ \A i \in DOMAIN boxes : as[i] = boxes[i]
          /\ as[n] = r
          /\ KidsIn(as, r.parent) = KidsIn(boxes, r.parent) \cup {n}
          /\ \A i \in DOMAIN boxes : i # r.parent => KidsIn(as, i) = KidsIn(boxes, i)
          /\ KidsIn(as, n) = {}
        BY <2>1, PushedKids
    <2> HIDE DEF as, n, p
    <2>3. boxes' = as /\ r.parent = p
        BY DEF as, p
    <2> QED BY <2>2, <2>3
<1>3. TiledTo(boxes', p, Beyond(r))
    BY <1>1, PushedTiles
<1>4. \A i \in DOMAIN boxes : i # p => \A to : TiledTo(boxes, i, to) => TiledTo(boxes', i, to)
    BY <1>1, PushedElsewhere
<1>5. \A to \in Nat : (Holds(r) => to = Inside(r)) => TiledTo(boxes', n, to)
    BY <1>1, PushedNew
<1>6. ClippedLast(boxes')
    <2> SUFFICES ASSUME NEW j \in DOMAIN boxes', boxes'[j].clipped
                 PROVE  /\ boxes'[j].parent \in DOMAIN boxes'
                        /\ Beyond(boxes'[j]) = Beyond(boxes'[boxes'[j].parent])
                        /\ KidsIn(boxes', j) = {}
                        /\ \A k \in KidsIn(boxes', boxes'[j].parent) : k <= j
                        /\ boxes'[boxes'[j].parent].kind \notin Descended
        BY DEF ClippedLast
    <2>1. CASE j = n
        <3>1. boxes'[j] = r /\ boxes'[p] = boxes[p]
            BY <1>1, <1>2, <2>1
        <3>2. \A k \in KidsIn(boxes', p) : k <= n
            <4>1. \A k \in KidsIn(boxes, p) : k \in Nat /\ k < n
                BY <1>0 DEF KidsIn
            <4> QED BY <1>0, <1>2, <4>1
        <3> QED BY <1>1, <1>2, <2>1, <3>1, <3>2 DEF Lenient
    <2>2. CASE j \in DOMAIN boxes
        <3>1. /\ boxes[j].clipped /\ boxes'[j] = boxes[j]
            BY <1>2, <2>2
        <3>2. /\ boxes[j].parent \in DOMAIN boxes
              /\ Beyond(boxes[j]) = Beyond(boxes[boxes[j].parent])
              /\ KidsIn(boxes, j) = {}
              /\ \A k \in KidsIn(boxes, boxes[j].parent) : k <= j
              /\ boxes[boxes[j].parent].kind \notin Descended
            BY <2>2, <3>1 DEF Inv, ClippedLast
        <3>3. j # p
            BY <1>1, <3>1 DEF Holds
        <3>4. boxes[j].parent # p
            <4> SUFFICES ASSUME boxes[j].parent = p PROVE FALSE
                OBVIOUS
            <4>1. j \in KidsIn(boxes, p)
                BY <2>2 DEF KidsIn
            <4>2. Beyond(boxes[j]) <= Cursor
                BY <1>1, <4>1 DEF TiledTo, Within
            <4>3. Beyond(boxes[j]) = Beyond(boxes[p])
                BY <3>2
            <4> QED BY <1>1, <4>2, <4>3
        <3>5. KidsIn(boxes', j) = {} /\ KidsIn(boxes', boxes[j].parent) = KidsIn(boxes, boxes[j].parent)
            BY <1>2, <2>2, <3>2, <3>3, <3>4
        <3>6. boxes'[boxes[j].parent] = boxes[boxes[j].parent]
            BY <1>2, <3>2
        <3> QED BY <1>2, <3>1, <3>2, <3>5, <3>6
    <2> QED BY <1>2, <2>1, <2>2
<1> QED BY <1>0, <1>2, <1>3, <1>4, <1>5, <1>6

(* A step that pushes a box nothing is looked for in. *)
LEMMA LeafInv ==
    ASSUME Inv, answer = "reading", Remaining > 0,
           NEW r \in Box, r.parent = Top.box, r.offset = Cursor, ~Holds(r),
           Beyond(r) <= Beyond(boxes[Top.box]),
           r.clipped => /\ Beyond(r) = Beyond(boxes[Top.box])
                        /\ Lenient(Top.box),
           boxes' = Append(boxes, r), MoveTo(Beyond(r)), answer' = answer
    PROVE  Inv'
<1> DEFINE n == Len(boxes) + 1
           d == Len(open)
<1>1. /\ open \in Seq(Frame) /\ d \in DOMAIN open /\ open[d] \in Frame /\ Top = open[d]
      /\ Cursor \in Nat /\ Inside(boxes[Top.box]) \in Nat /\ Inside(boxes[Top.box]) <= Cursor
    BY TopFacts DEF Top
<1>2. /\ boxes' \in Seq(Box) /\ ParentsFirst(boxes') /\ ClippedLast(boxes')
      /\ DOMAIN boxes' = DOMAIN boxes \cup {n} /\ n \notin DOMAIN boxes
      /\ \A i \in DOMAIN boxes : boxes'[i] = boxes[i]
      /\ boxes'[n] = r
      /\ TiledTo(boxes', Top.box, Beyond(r))
      /\ \A i \in DOMAIN boxes : i # Top.box =>
           \A to : TiledTo(boxes, i, to) => TiledTo(boxes', i, to)
      /\ \A to \in Nat : TiledTo(boxes', n, to)
    BY Pushed
<1>3. Beyond(r) \in Nat /\ Cursor <= Beyond(r)
    BY BoxNumbers
<1>4. /\ open' \in Seq(Frame) /\ DOMAIN open' = DOMAIN open
      /\ \A f \in DOMAIN open : open'[f].box = open[f].box
      /\ \A f \in DOMAIN open : f # d => open'[f] = open[f]
      /\ open'[d].cursor = Beyond(r)
    BY <1>1, <1>3 DEF MoveTo, Frame
<1>5. ReadWithin
    BY DEF Inv, TypeOK, ReadWithin, ChildrenOffset, End, Inside, Beyond
<1>6. \A f \in DOMAIN open : f # d => open[f].box # Top.box
    BY <1>1 DEF Inv, OpenOnce
<1>7. TypeOK'
    <2>1. answer' \in {"reading", "done"} \cup Refusal /\ (answer' = "done" <=> open' = <<>>)
        BY <1>1, <1>4
    <2>2. ReadWithin'
        <3> SUFFICES ASSUME NEW f \in DOMAIN open
                     PROVE  /\ open'[f].box \in DOMAIN boxes'
                            /\ open'[f].cursor \in Inside(boxes'[open'[f].box])..Beyond(boxes'[open'[f].box])
            BY <1>4 DEF ReadWithin
        <3>1. /\ open'[f].box = open[f].box /\ open[f].box \in DOMAIN boxes
              /\ boxes'[open[f].box] = boxes[open[f].box]
            BY <1>2, <1>4, <1>5 DEF ReadWithin
        <3>2. CASE f # d
            BY <1>2, <1>4, <1>5, <3>1, <3>2 DEF ReadWithin
        <3>3. CASE f = d
            <4>1. Beyond(r) \in Inside(boxes[Top.box])..Beyond(boxes[Top.box])
                BY <1>1, <1>3, TopFacts
            <4> QED BY <1>1, <1>2, <1>4, <3>1, <3>3, <4>1
        <3> QED BY <3>2, <3>3
    <2> QED BY <1>2, <1>4, <2>1, <2>2 DEF TypeOK, ReadWithin, ChildrenOffset, End, Inside, Beyond
<1>8. OpenOnce'
    BY <1>4 DEF Inv, OpenOnce
<1>9. OpenHold'
    BY <1>2, <1>4, <1>5 DEF Inv, OpenHold, ReadWithin
<1>10. OpenTiled'
    <2> SUFFICES ASSUME NEW f \in DOMAIN open PROVE TiledTo(boxes', open'[f].box, open'[f].cursor)
        BY <1>4 DEF OpenTiled
    <2>1. CASE f = d
        BY <1>1, <1>2, <1>4, <2>1
    <2>2. CASE f # d
        <3>1. TiledTo(boxes, open[f].box, open[f].cursor)
            BY DEF Inv, OpenTiled
        <3> QED BY <1>2, <1>4, <1>5, <1>6, <2>2, <3>1 DEF ReadWithin
    <2> QED BY <2>1, <2>2
<1>11. ClosedTiled'
    <2> SUFFICES ASSUME NEW i \in DOMAIN boxes', \A f \in DOMAIN open : open[f].box # i
                 PROVE  TiledTo(boxes', i, Beyond(boxes'[i]))
        BY <1>4 DEF ClosedTiled
    <2>1. CASE i = n
        BY <1>2, <1>3, <2>1
    <2>2. CASE i \in DOMAIN boxes
        <3>1. TiledTo(boxes, i, Beyond(boxes[i]))
            BY <2>2 DEF Inv, ClosedTiled
        <3>2. i # Top.box
            BY <1>1
        <3> QED BY <1>2, <2>2, <3>1, <3>2
    <2> QED BY <1>2, <2>1, <2>2
<1> QED BY <1>2, <1>7, <1>8, <1>9, <1>10, <1>11 DEF Inv

(* The stack when a box is gone into: the cursor around it is past it already. *)
Deeper(s, c, x) == Append([s EXCEPT ![Len(s)].cursor = c], x)
EntersFrom(t, s, c, x) ==
    /\ t \in Seq(Frame)
    /\ DOMAIN t = DOMAIN s \cup {Len(s) + 1}
    /\ Len(s) + 1 \notin DOMAIN s
    /\ \A f \in DOMAIN s : t[f].box = s[f].box
    /\ \A f \in DOMAIN s : f # Len(s) => t[f] = s[f]
    /\ t[Len(s)].cursor = c
    /\ t[Len(s) + 1] = x
LEMMA StackPushed ==
    ASSUME NEW s \in Seq(Frame), s # <<>>, NEW c \in Nat, NEW x \in Frame
    PROVE  EntersFrom(Deeper(s, c, x), s, c, x)
<1> DEFINE d == Len(s)
           t == Deeper(s, c, x)
           moved == [s EXCEPT ![Len(s)].cursor = c]
<1>1. d \in Nat /\ DOMAIN s = 1..d /\ d \in DOMAIN s /\ s[d] \in Frame
    OBVIOUS
<1>2. /\ moved[d] = [s[d] EXCEPT !.cursor = c]
      /\ DOMAIN moved = DOMAIN s
      /\ \A f \in DOMAIN s : f # d => moved[f] = s[f]
    BY <1>1
<1>3. moved[d] \in Frame /\ moved[d].box = s[d].box /\ moved[d].cursor = c
    BY <1>1, <1>2 DEF Frame
<1>4. moved \in Seq(Frame)
    BY <1>1, <1>2, <1>3
<1>5. Len(moved) = d
    BY <1>1, <1>2, <1>4
<1> HIDE DEF moved
<1>6. /\ Append(moved, x) \in Seq(Frame) /\ Len(Append(moved, x)) = Len(moved) + 1
      /\ \A f \in 1..Len(moved) : Append(moved, x)[f] = moved[f]
      /\ Append(moved, x)[Len(moved) + 1] = x
    BY <1>4, AppendProperties
<1>7. t = Append(moved, x)
    BY DEF moved, Deeper
<1> HIDE DEF d, t
<1>8. /\ t \in Seq(Frame) /\ Len(t) = d + 1
      /\ \A f \in DOMAIN s : t[f] = moved[f]
      /\ t[d + 1] = x
    BY ONLY <1>1, <1>5, <1>6, <1>7
<1>9. DOMAIN t = DOMAIN s \cup {d + 1} /\ d + 1 \notin DOMAIN s
    <2>1. DOMAIN t = 1..(d + 1)
        BY ONLY <1>8
    <2> QED BY ONLY <1>1, <2>1
<1>10. /\ \A f \in DOMAIN s : t[f].box = s[f].box
       /\ \A f \in DOMAIN s : f # d => t[f] = s[f]
       /\ t[d].cursor = c
    BY ONLY <1>1, <1>2, <1>3, <1>8
<1> QED BY ONLY <1>8, <1>9, <1>10 DEF d, t, EntersFrom

(* A step that pushes a box and goes into it. *)
LEMMA EnterInv ==
    ASSUME Inv, answer = "reading", Remaining > 0,
           NEW r \in Box, r.parent = Top.box, r.offset = Cursor, Holds(r),
           Inside(r) <= Beyond(r), Beyond(r) <= Beyond(boxes[Top.box]),
           boxes' = Append(boxes, r), answer' = answer,
           open' = Append([open EXCEPT ![Len(open)].cursor = Beyond(r)],
                          [box |-> Len(boxes) + 1, cursor |-> Inside(r)])
    PROVE  Inv'
<1> DEFINE n == Len(boxes) + 1
           d == Len(open)
           e == Len(open) + 1
<1>1. /\ open \in Seq(Frame) /\ d \in DOMAIN open /\ open[d] \in Frame /\ Top = open[d]
      /\ DOMAIN open = 1..d /\ d \in Nat
      /\ Cursor \in Nat /\ Inside(boxes[Top.box]) \in Nat /\ Inside(boxes[Top.box]) <= Cursor
      /\ Beyond(boxes[Top.box]) \in Nat
    BY TopFacts DEF Top
<1>0. ~r.clipped
    BY DEF Holds
<1>2. /\ boxes' \in Seq(Box) /\ ParentsFirst(boxes') /\ ClippedLast(boxes')
      /\ DOMAIN boxes' = DOMAIN boxes \cup {n} /\ n \notin DOMAIN boxes /\ n \in Nat
      /\ \A i \in DOMAIN boxes : boxes'[i] = boxes[i]
      /\ boxes'[n] = r
      /\ TiledTo(boxes', Top.box, Beyond(r))
      /\ \A i \in DOMAIN boxes : i # Top.box =>
           \A to : TiledTo(boxes, i, to) => TiledTo(boxes', i, to)
      /\ \A to \in Nat : (Holds(r) => to = Inside(r)) => TiledTo(boxes', n, to)
    BY <1>0, Pushed
<1>3. Beyond(r) \in Nat /\ Inside(r) \in Nat /\ Cursor <= Beyond(r)
    BY BoxNumbers
<1>4. [box |-> n, cursor |-> Inside(r)] \in Frame
    BY <1>2, <1>3 DEF Frame
<1>5. /\ open' \in Seq(Frame) /\ DOMAIN open' = DOMAIN open \cup {e} /\ e \notin DOMAIN open
      /\ \A f \in DOMAIN open : open'[f].box = open[f].box
      /\ \A f \in DOMAIN open : f # d => open'[f] = open[f]
      /\ open'[d].cursor = Beyond(r)
      /\ open'[e] = [box |-> n, cursor |-> Inside(r)]
    <2>1. open # <<>>
        BY <1>1
    <2> DEFINE x == [box |-> n, cursor |-> Inside(r)]
    <2>2. open' = Deeper(open, Beyond(r), x) /\ x \in Frame
        BY <1>4 DEF Deeper
    <2>3. open \in Seq(Frame) /\ Beyond(r) \in Nat
        BY <1>1, <1>3
    <2> HIDE DEF x
    <2>4. EntersFrom(open', open, Beyond(r), x)
        BY ONLY <2>1, <2>2, <2>3, StackPushed
    <2> QED BY ONLY <2>4 DEF x, EntersFrom
<1> HIDE DEF n
<1>7. /\ open' \in Seq(Frame) /\ DOMAIN open' = DOMAIN open \cup {e} /\ e \notin DOMAIN open
    BY <1>5
<1>8. /\ \A f \in DOMAIN open : open'[f].box = open[f].box
      /\ \A f \in DOMAIN open : f # d => open'[f] = open[f]
      /\ open'[d].cursor = Beyond(r)
      /\ open'[e].box = n /\ open'[e].cursor = Inside(r)
    BY <1>5
<1> HIDE DEF d, e
<1>9. ReadWithin
    BY DEF Inv, TypeOK, ReadWithin, ChildrenOffset, End, Inside, Beyond
<1>10. \A f \in DOMAIN open : f # d => open[f].box # Top.box
    BY <1>1 DEF Inv, OpenOnce
<1>11. TypeOK'
    <2>1. answer' \in {"reading", "done"} \cup Refusal /\ (answer' = "done" <=> open' = <<>>)
        BY <1>7
    <2>2. ReadWithin'
        <3> SUFFICES ASSUME NEW f \in DOMAIN open'
                     PROVE  /\ open'[f].box \in DOMAIN boxes'
                            /\ open'[f].cursor \in Inside(boxes'[open'[f].box])..Beyond(boxes'[open'[f].box])
            BY DEF ReadWithin
        <3>1. CASE f = e
            <4>1. Inside(r) \in Inside(r)..Beyond(r)
                BY <1>3
            <4> QED BY <1>2, <1>8, <3>1, <4>1
        <3>2. CASE f \in DOMAIN open
            <4>1. /\ open'[f].box = open[f].box /\ open[f].box \in DOMAIN boxes
                  /\ boxes'[open[f].box] = boxes[open[f].box]
                BY <1>2, <1>8, <1>9, <3>2 DEF ReadWithin
            <4>2. CASE f # d
                BY <1>2, <1>8, <1>9, <3>2, <4>1, <4>2 DEF ReadWithin
            <4>3. CASE f = d
                <5>1. Beyond(r) \in Inside(boxes[Top.box])..Beyond(boxes[Top.box])
                    BY <1>1, <1>3
                <5> QED BY <1>1, <1>2, <1>8, <4>1, <4>3, <5>1
            <4> QED BY <4>2, <4>3
        <3> QED BY <1>7, <3>1, <3>2
    <2> QED BY <1>2, <1>7, <2>1, <2>2 DEF TypeOK, ReadWithin, ChildrenOffset, End, Inside, Beyond
<1>12. OpenOnce'
    <2> SUFFICES ASSUME NEW f \in DOMAIN open', NEW g \in DOMAIN open', open'[f].box = open'[g].box
                 PROVE  f = g
        BY DEF OpenOnce
    <2>1. \A h \in DOMAIN open : open'[h].box # n
        BY <1>2, <1>8, <1>9 DEF ReadWithin
    <2>2. CASE f = e \/ g = e
        BY <1>7, <1>8, <2>1, <2>2
    <2>3. CASE f \in DOMAIN open /\ g \in DOMAIN open
        BY <1>8, <2>3 DEF Inv, OpenOnce
    <2> QED BY <1>7, <2>2, <2>3
<1>13. OpenHold'
    <2> SUFFICES ASSUME NEW f \in DOMAIN open' PROVE Holds(boxes'[open'[f].box])
        BY DEF OpenHold
    <2>1. CASE f = e
        BY <1>2, <1>8, <2>1
    <2>2. CASE f \in DOMAIN open
        BY <1>2, <1>8, <1>9, <2>2 DEF Inv, OpenHold, ReadWithin
    <2> QED BY <1>7, <2>1, <2>2
<1>14. OpenTiled'
    <2> SUFFICES ASSUME NEW f \in DOMAIN open' PROVE TiledTo(boxes', open'[f].box, open'[f].cursor)
        BY DEF OpenTiled
    <2>1. CASE f = e
        BY <1>2, <1>3, <1>8, <2>1
    <2>2. CASE f \in DOMAIN open
        <3>1. CASE f = d
            BY <1>1, <1>2, <1>8, <2>2, <3>1
        <3>2. CASE f # d
            <4>1. TiledTo(boxes, open[f].box, open[f].cursor)
                BY <2>2 DEF Inv, OpenTiled
            <4> QED BY <1>2, <1>8, <1>9, <1>10, <2>2, <3>2, <4>1 DEF ReadWithin
        <3> QED BY <3>1, <3>2
    <2> QED BY <1>7, <2>1, <2>2
<1>15. ClosedTiled'
    <2> SUFFICES ASSUME NEW i \in DOMAIN boxes', \A f \in DOMAIN open' : open'[f].box # i
                 PROVE  TiledTo(boxes', i, Beyond(boxes'[i]))
        BY DEF ClosedTiled
    <2>1. i # n
        BY <1>7, <1>8
    <2>2. i \in DOMAIN boxes /\ \A f \in DOMAIN open : open[f].box # i
        BY <1>2, <1>7, <1>8, <2>1
    <2>3. TiledTo(boxes, i, Beyond(boxes[i]))
        BY <2>2 DEF Inv, ClosedTiled
    <2>4. i # Top.box
        BY <1>1, <2>2
    <2> QED BY <1>2, <2>2, <2>3, <2>4
<1> QED BY <1>2, <1>11, <1>12, <1>13, <1>14, <1>15 DEF Inv

-----------------------------------------------------------------------------
(* What a header that reads says. *)
LEMMA HeaderFacts ==
    ASSUME Inv, answer = "reading", Remaining > 0, NEW b \in Bytes
    PROVE  /\ b.kind \in Kind /\ Declared(b) \in Nat /\ HeaderOf(b) \in {Small, Wide}
           /\ Remaining \in Nat
           /\ Problem(b) = "none" => HeaderOf(b) <= Declared(b)
<1>1. b.kind \in Kind /\ b.size32 \in Nat /\ b.large \in Nat
    BY SizeAssumption
<1>2. Remaining \in Nat
    BY TopFacts
<1>3. Declared(b) \in Nat /\ HeaderOf(b) \in {Small, Wide}
    BY <1>1, <1>2 DEF Declared, HeaderOf
<1>4. Problem(b) = "none" => HeaderOf(b) <= Declared(b)
    BY <1>3 DEF Problem, Small, Wide
<1> QED BY <1>1, <1>2, <1>3, <1>4

(* The fields before the boxes of a box lie inside it, and only a sample entry is known by them. *)
LEMMA FieldsFacts ==
    ASSUME NEW kind \in Kind, NEW size \in Nat, NEW header \in {Small, Wide}, header <= size,
           NEW version, HoldsBoxes(kind, size, version)
    PROVE  /\ Fields(kind, size, header, version) \in Nat
           /\ header + Fields(kind, size, header, version) <= size
           /\ \/ kind \in Descended \cup {"udta", "stsd"}
              \/ Fields(kind, size, header, version) > 0
<1>1. header \in Nat /\ header <= 16
    BY DEF Small, Wide
<1>2. CASE kind \in Descended \cup {"udta"}
    BY <1>1, <1>2 DEF Fields
<1>3. CASE kind = "stsd" /\ kind \notin Descended \cup {"udta"}
    BY <1>1, <1>3 DEF Fields, Described
<1>4. CASE kind \notin Descended \cup {"udta", "stsd"}
    <2>1. FixedFields(kind, size, version) \in 1..size
        BY <1>4 DEF HoldsBoxes, IsEntry
    <2>2. FixedFields(kind, size, version) > 16 /\ FixedFields(kind, size, version) \in Nat
        BY <2>1, SizeAssumption DEF FixedFields, VersionEnd, Wide
    <2>3. Fields(kind, size, header, version) = FixedFields(kind, size, version) - header
        BY <1>4 DEF Fields
    <2> HIDE DEF FixedFields
    <2> QED BY <1>1, <2>1, <2>2, <2>3
<1> QED BY <1>2, <1>3, <1>4

-----------------------------------------------------------------------------
(* Every step keeps the invariant. *)

(* What is pushed where the box being read was read to. *)
Child(b, size, header, fields, clipped) ==
    [kind |-> b.kind, offset |-> Cursor, size |-> size, header |-> header,
     fields |-> fields, parent |-> Top.box, clipped |-> clipped,
     declared |-> IF header = 0 THEN 0 ELSE Declared(b)]

LEMMA LeaveInv == Inv /\ Leave => Inv'
<1> SUFFICES ASSUME Inv, Leave PROVE Inv'
    OBVIOUS
<1> DEFINE d == Len(open)
<1>1. answer = "reading" /\ boxes' = boxes /\ open' = SubSeq(open, 1, Len(open) - 1)
      /\ answer' = IF Len(open) = 1 THEN "done" ELSE answer
    BY DEF Leave
<1>2. /\ open \in Seq(Frame) /\ d \in DOMAIN open /\ DOMAIN open = 1..d /\ d \in Nat
      /\ Top = open[d] /\ Top.box \in DOMAIN boxes
      /\ TiledTo(boxes, Top.box, Cursor) /\ Cursor = Beyond(boxes[Top.box])
    BY <1>1, TopFacts DEF Leave, Top
<1>3. /\ open' \in Seq(Frame) /\ Len(open') = d - 1 /\ DOMAIN open' = 1..(d - 1)
      /\ \A f \in 1..(d - 1) : open'[f] = open[f]
    BY <1>1, <1>2
<1>4. \A f \in DOMAIN open' : f \in DOMAIN open /\ f # d /\ open'[f] = open[f]
    BY <1>2, <1>3
<1>5. \A f \in DOMAIN open : f # d => f \in DOMAIN open'
    BY <1>2, <1>3
<1>6. TypeOK'
    <2>1. answer' \in {"reading", "done"} \cup Refusal /\ (answer' = "done" <=> open' = <<>>)
        <3>1. CASE d = 1
            <4>1. open' = <<>>
                BY <1>3, <3>1
            <4> QED BY <1>1, <3>1, <4>1
        <3>2. CASE d # 1
            <4>1. open' # <<>>
                BY <1>2, <1>3, <3>2
            <4> QED BY <1>1, <3>2, <4>1
        <3> QED BY <3>1, <3>2
    <2>2. ReadWithin
        BY DEF Inv, TypeOK, ReadWithin, ChildrenOffset, End, Inside, Beyond
    <2>3. ReadWithin'
        BY <1>1, <1>4, <2>2 DEF ReadWithin
    <2> QED BY <1>1, <1>3, <2>1, <2>3 DEF Inv, TypeOK, ReadWithin, ChildrenOffset, End, Inside, Beyond
<1>7. OpenOnce' /\ OpenHold' /\ OpenTiled'
    BY <1>1, <1>4 DEF Inv, OpenOnce, OpenHold, OpenTiled
<1>8. ClosedTiled'
    <2> SUFFICES ASSUME NEW i \in DOMAIN boxes, \A f \in DOMAIN open' : open'[f].box # i
                 PROVE  TiledTo(boxes, i, Beyond(boxes[i]))
        BY <1>1 DEF ClosedTiled
    <2>1. CASE i = Top.box
        BY <1>2, <2>1
    <2>2. CASE i # Top.box
        <3>1. \A f \in DOMAIN open : open[f].box # i
            BY <1>2, <1>4, <1>5, <2>2
        <3> QED BY <3>1 DEF Inv, ClosedTiled
    <2> QED BY <2>1, <2>2
<1> QED BY <1>1, <1>6, <1>7, <1>8 DEF Inv

LEMMA RefuseInv ==
    ASSUME Inv, NEW error \in Refusal, answer = "reading", Refuse(error)
    PROVE  Inv'
<1>1. open # <<>> /\ answer' = error /\ open' = open /\ boxes' = boxes
    BY TopFacts DEF Refuse
<1>2. TypeOK'
    BY <1>1 DEF Inv, TypeOK, Refusal, ChildrenOffset, End
<1> QED BY <1>1, <1>2 DEF Inv, OpenOnce, OpenHold, OpenTiled, ClosedTiled

(* A step that reads a child refuses the file, keeps a box nothing is looked for in, or goes into a box:
   there the depth allows one more, and the boxes inside begin before its end. *)
Sound(r, parent) ==
    /\ r.clipped /\ r.header # 0 => r.declared > r.size
    /\ ~r.clipped /\ r.kind \in Visual /\ VisualFixed <= r.size /\ parent = "stsd" => r.fields > 0
Keeps(r) ==
    /\ r \in Box /\ r.parent = Top.box /\ r.offset = Cursor /\ ~Holds(r)
    /\ Beyond(r) <= Beyond(boxes[Top.box])
    /\ r.clipped => Beyond(r) = Beyond(boxes[Top.box]) /\ Lenient(Top.box)
    /\ Sound(r, boxes[Top.box].kind)
    /\ boxes' = Append(boxes, r) /\ MoveTo(Beyond(r)) /\ answer' = answer
GoesInto(r) ==
    /\ r \in Box /\ r.parent = Top.box /\ r.offset = Cursor /\ Holds(r)
    /\ Inside(r) <= Beyond(r) /\ Beyond(r) <= Beyond(boxes[Top.box])
    /\ Cursor < Beyond(r) /\ Len(open) < MaxDepth
    /\ Sound(r, boxes[Top.box].kind)
    /\ boxes' = Append(boxes, r) /\ answer' = answer
    /\ open' = Append([open EXCEPT ![Len(open)].cursor = Beyond(r)],
                      [box |-> Len(boxes) + 1, cursor |-> Inside(r)])

LEMMA ReadChildShape ==
    ASSUME Inv, NEW b \in Bytes, NEW version \in Versions, ReadChild(b, version)
    PROVE  /\ answer = "reading" /\ Remaining > 0
           /\ \/ /\ \E error \in Refusal \ {"too many"} : Refuse(error)
                 /\ answer' = "too deep" => Len(open) >= MaxDepth
              \/ (HasRoom /\ \E r : Keeps(r) \/ GoesInto(r))
<1>1. answer = "reading" /\ Remaining > 0 /\ HasRoom
    BY DEF ReadChild, RefuseHeader, KeepTail, RefuseOverrun, ClipChild, PassLeaf, RefuseDeeper, Enter,
           WholeChild, MayRead
<1>2. /\ b.kind \in Kind /\ Declared(b) \in Nat /\ HeaderOf(b) \in {Small, Wide} /\ Remaining \in Nat
      /\ Problem(b) = "none" => HeaderOf(b) <= Declared(b)
    BY <1>1, HeaderFacts
<1>3. /\ Cursor \in Nat /\ Beyond(boxes[Top.box]) \in Nat /\ Top.box \in DOMAIN boxes
      /\ Remaining = Beyond(boxes[Top.box]) - Cursor
      /\ End(Top.box) = Beyond(boxes[Top.box])
      /\ Top.box \in Nat
    BY <1>1, TopFacts DEF End, Beyond
<1>4. CASE RefuseHeader(b)
    <2>1. Problem(b) \in Refusal \ {"too many"} /\ Problem(b) # "too deep"
        BY <1>4 DEF RefuseHeader, Problem, Refusal
    <2> QED BY <1>1, <1>4, <2>1 DEF RefuseHeader, Refuse
<1>5. CASE RefuseOverrun(b) \/ RefuseDeeper(b, version)
    BY <1>1, <1>5 DEF RefuseOverrun, RefuseDeeper, Refusal, Refuse
<1>6. CASE KeepTail(b)
    <2> DEFINE r == Child(b, Remaining, 0, 0, TRUE)
    <2>1. /\ r \in Box /\ r.parent = Top.box /\ r.offset = Cursor /\ r.clipped /\ r.header = 0
          /\ Beyond(r) = Beyond(boxes[Top.box])
        <3>1. r = Child(b, Remaining, 0, 0, TRUE)
            OBVIOUS
        <3> HIDE DEF r
        <3> QED BY <1>2, <1>3, <3>1 DEF Child, Box, Beyond, Inside
    <2>2. boxes' = Append(boxes, r) /\ MoveTo(Beyond(r)) /\ answer' = answer /\ Lenient(Top.box)
        BY <1>3, <1>6, <2>1 DEF KeepTail, Push, Child
    <2> HIDE DEF r
    <2>3. ~Holds(r) /\ Beyond(r) <= Beyond(boxes[Top.box])
        BY <1>3, <2>1 DEF Holds
    <2>4. Sound(r, boxes[Top.box].kind)
        BY <2>1 DEF Sound
    <2> QED BY <1>1, <2>1, <2>2, <2>3, <2>4 DEF Keeps
<1>7. CASE ClipChild(b)
    <2> DEFINE r == Child(b, Remaining, HeaderOf(b), 0, TRUE)
    <2>1. /\ r \in Box /\ r.parent = Top.box /\ r.offset = Cursor /\ r.clipped
          /\ r.size = Remaining /\ (r.header # 0 => r.declared = Declared(b))
          /\ Beyond(r) = Beyond(boxes[Top.box])
        <3>1. r = Child(b, Remaining, HeaderOf(b), 0, TRUE)
            OBVIOUS
        <3> HIDE DEF r
        <3> QED BY <1>2, <1>3, <3>1 DEF Child, Box, Beyond, Inside
    <2>2. boxes' = Append(boxes, r) /\ MoveTo(Beyond(r)) /\ answer' = answer /\ Lenient(Top.box)
        BY <1>3, <1>7, <2>1 DEF ClipChild, Push, Child
    <2> HIDE DEF r
    <2>3. ~Holds(r) /\ Beyond(r) <= Beyond(boxes[Top.box])
        BY <1>3, <2>1 DEF Holds
    <2>4. Sound(r, boxes[Top.box].kind)
        BY <1>7, <2>1 DEF Sound, ClipChild
    <2> QED BY <1>1, <2>1, <2>2, <2>3, <2>4 DEF Keeps
<1>8. CASE PassLeaf(b, version)
    <2> DEFINE r == Child(b, Declared(b), HeaderOf(b), 0, FALSE)
    <2>0. Declared(b) <= Remaining /\ b.kind \notin Descended \cup {"udta", "stsd"}
        BY <1>8 DEF PassLeaf, WholeChild, HoldsBoxes
    <2>1. /\ r \in Box /\ r.parent = Top.box /\ r.offset = Cursor /\ ~r.clipped
          /\ r.kind = b.kind /\ r.fields = 0 /\ r.size = Declared(b)
          /\ Beyond(r) = Cursor + Declared(b)
        <3>1. r = Child(b, Declared(b), HeaderOf(b), 0, FALSE)
            OBVIOUS
        <3> HIDE DEF r
        <3> QED BY <1>2, <1>3, <3>1 DEF Child, Box, Beyond, Inside
    <2>2. boxes' = Append(boxes, r) /\ MoveTo(Beyond(r)) /\ answer' = answer
        BY <1>8, <2>1 DEF PassLeaf, Push, Child
    <2> HIDE DEF r
    <2>3. ~Holds(r)
        BY <2>0, <2>1 DEF Holds
    <2>4. Beyond(r) <= Beyond(boxes[Top.box])
        BY <1>2, <1>3, <2>0, <2>1
    <2>5. ASSUME b.kind \in Visual, VisualFixed <= Declared(b), boxes[Top.box].kind = "stsd" PROVE FALSE
        <3>1. FixedFields(b.kind, Declared(b), version) = VisualFixed
            BY <2>5 DEF FixedFields
        <3>2. VisualFixed \in 1..Declared(b)
            BY <1>2, <2>5, SizeAssumption DEF Wide
        <3>3. IsEntry(b.kind, Declared(b), version)
            BY <2>5, <3>1, <3>2 DEF IsEntry
        <3> QED BY <1>8, <3>3 DEF PassLeaf, HoldsBoxes
    <2>6. Sound(r, boxes[Top.box].kind)
        BY <2>1, <2>5 DEF Sound
    <2> QED BY <1>1, <2>1, <2>2, <2>3, <2>4, <2>6 DEF Keeps
<1>9. CASE Enter(b, version)
    <2> DEFINE fields == Fields(b.kind, Declared(b), HeaderOf(b), version)
               r == Child(b, Declared(b), HeaderOf(b), fields, FALSE)
    <2>0. Declared(b) <= Remaining /\ HeaderOf(b) <= Declared(b)
        BY <1>2, <1>9 DEF Enter, WholeChild
    <2>1. /\ fields \in Nat /\ HeaderOf(b) + fields <= Declared(b)
          /\ b.kind \in Descended \cup {"udta", "stsd"} \/ fields > 0
        BY <1>2, <1>9, <2>0, FieldsFacts DEF Enter
    <2>9. /\ boxes' = Append(boxes, r) /\ answer' = answer
          /\ open' = Append([open EXCEPT ![Len(open)].cursor = Cursor + Declared(b)],
                            [box |-> Len(boxes) + 1, cursor |-> Cursor + HeaderOf(b) + fields])
        BY <1>9 DEF Enter, Push, Child
    <2> HIDE DEF fields
    <2>2. /\ r \in Box /\ r.parent = Top.box /\ r.offset = Cursor /\ ~r.clipped
          /\ r.kind = b.kind /\ r.fields = fields
          /\ Beyond(r) = Cursor + Declared(b)
          /\ Inside(r) = Cursor + HeaderOf(b) + fields
        <3>1. r = Child(b, Declared(b), HeaderOf(b), fields, FALSE)
            OBVIOUS
        <3> HIDE DEF r
        <3> QED BY <1>2, <1>3, <2>1, <3>1 DEF Child, Box, Beyond, Inside
    <2> HIDE DEF r
    <2>3. /\ boxes' = Append(boxes, r) /\ answer' = answer
          /\ open' = Append([open EXCEPT ![Len(open)].cursor = Beyond(r)],
                            [box |-> Len(boxes) + 1, cursor |-> Inside(r)])
        BY <2>2, <2>9
    <2>4. Holds(r)
        BY <2>1, <2>2 DEF Holds
    <2>5. Inside(r) <= Beyond(r) /\ Beyond(r) <= Beyond(boxes[Top.box])
        <3>1. HeaderOf(b) \in Nat
            BY <1>2 DEF Small, Wide
        <3> QED BY <1>2, <1>3, <2>0, <2>1, <2>2, <3>1
    <2>6. Cursor < Beyond(r) /\ Len(open) < MaxDepth
        <3>1. HeaderOf(b) \in Nat /\ HeaderOf(b) > 0
            BY <1>2 DEF Small, Wide
        <3> QED BY <1>2, <1>3, <1>9, <2>0, <2>2, <3>1 DEF Enter
    <2>7. Sound(r, boxes[Top.box].kind)
        BY <2>1, <2>2, KindAssumption DEF Sound
    <2> QED BY <1>1, <2>2, <2>3, <2>4, <2>5, <2>6, <2>7 DEF GoesInto
<1> QED BY <1>4, <1>5, <1>6, <1>7, <1>8, <1>9 DEF ReadChild

LEMMA ReadChildInv ==
    ASSUME Inv, NEW b \in Bytes, NEW version \in Versions, ReadChild(b, version)
    PROVE  Inv'
<1>1. answer = "reading" /\ Remaining > 0
    BY ReadChildShape
<1>2. ASSUME NEW error \in Refusal \ {"too many"}, Refuse(error) PROVE Inv'
    BY <1>1, <1>2, RefuseInv
<1>3. ASSUME NEW r, Keeps(r) PROVE Inv'
    BY <1>1, <1>3, LeafInv DEF Keeps
<1>4. ASSUME NEW r, GoesInto(r) PROVE Inv'
    BY <1>1, <1>4, EnterInv DEF GoesInto
<1> QED BY <1>2, <1>3, <1>4, ReadChildShape

LEMMA NextInv == Inv /\ [Next]_vars => Inv'
<1> SUFFICES ASSUME Inv, [Next]_vars PROVE Inv'
    OBVIOUS
<1>1. CASE Leave
    BY <1>1, LeaveInv
<1>2. CASE RefuseAnotherChild
    BY <1>2, RefuseInv DEF RefuseAnotherChild, Refusal
<1>3. ASSUME NEW b \in Bytes, NEW version \in Versions, ReadChild(b, version) PROVE Inv'
    BY <1>3, ReadChildInv
<1>4. CASE UNCHANGED vars
    BY <1>4 DEF vars, Inv, TypeOK, ChildrenOffset, End, OpenOnce, OpenHold, OpenTiled, ClosedTiled
<1> QED BY <1>1, <1>2, <1>3, <1>4 DEF Next

LEMMA AlwaysInv == Spec => []Inv
<1> QED BY InitInv, NextInv, PTL DEF Spec

-----------------------------------------------------------------------------
(* The types hold of every payload: a cursor is never before the boxes of its box nor past its end. *)
THEOREM ChildrenTyped == Spec => []TypeOK
<1>1. Inv => TypeOK
    BY DEF Inv
<1> QED BY <1>1, AlwaysInv, PTL

(* A box is tiled as far as it was read. *)
LEMMA ReadTiled == ASSUME Inv, NEW i \in DOMAIN boxes PROVE TiledTo(boxes, i, ReadTo(i))
<1>1. CASE \E f \in DOMAIN open : open[f].box = i
    <2> DEFINE g == CHOOSE f \in DOMAIN open : open[f].box = i
    <2>1. g \in DOMAIN open /\ open[g].box = i
        BY <1>1
    <2>2. ReadTo(i) = open[g].cursor
        BY <1>1 DEF ReadTo
    <2> HIDE DEF g
    <2> QED BY <2>1, <2>2 DEF Inv, OpenTiled
<1>2. CASE ~\E f \in DOMAIN open : open[f].box = i
    <2>1. ReadTo(i) = Beyond(boxes[i])
        BY <1>2 DEF ReadTo, End, Beyond
    <2> QED BY <1>2, <2>1 DEF Inv, ClosedTiled
<1> QED BY <1>1, <1>2

LEMMA Tiled == Inv => EveryByteInOneChild
<1> SUFFICES ASSUME Inv, NEW i \in DOMAIN boxes
             PROVE  /\ Entered(i) => \A byte \in ChildrenOffset(i)..(ReadTo(i) - 1) :
                         Cardinality({j \in Kids(i) : byte \in boxes[j].offset..(End(j) - 1)}) = 1
                    /\ \A j \in Kids(i) : boxes[j].offset >= ChildrenOffset(i) /\ End(j) <= ReadTo(i)
                    /\ answer = "done" => TilesPayload(i)
    BY DEF EveryByteInOneChild
<1>1. boxes \in Seq(Box) /\ ParentsFirst(boxes) /\ open \in Seq(Frame)
    BY DEF Inv, TypeOK
<1>2. Kids(i) = KidsIn(boxes, i) /\ ChildrenOffset(i) = Inside(boxes[i]) /\ End(i) = Beyond(boxes[i])
    BY DEF Kids, KidsIn, ChildrenOffset, Inside, End, Beyond
<1>3. \A j \in KidsIn(boxes, i) : /\ j \in DOMAIN boxes /\ End(j) = Beyond(boxes[j])
                                 /\ boxes[j].offset \in Nat /\ Beyond(boxes[j]) \in Nat
    <2> TAKE j \in KidsIn(boxes, i)
    <2>1. j \in DOMAIN boxes
        BY DEF KidsIn
    <2>2. boxes[j].offset \in Nat /\ Beyond(boxes[j]) \in Nat
        BY <1>1, <2>1, ListNumbers
    <2> QED BY <2>1, <2>2 DEF End, Beyond
<1>4. TiledTo(boxes, i, ReadTo(i))
    BY ReadTiled
<1>5. Inside(boxes[i]) \in Nat /\ Beyond(boxes[i]) \in Nat
    BY <1>1, ListNumbers
<1>6. ReadTo(i) \in Nat
    <2>1. CASE \E f \in DOMAIN open : open[f].box = i
        <3>1. \A f \in DOMAIN open : open[f].cursor \in Nat
            <4> TAKE f \in DOMAIN open
            <4>1. open[f] \in Frame
                BY <1>1
            <4> QED BY <4>1 DEF Frame
        <3> DEFINE g == CHOOSE f \in DOMAIN open : open[f].box = i
        <3>2. g \in DOMAIN open
            BY <2>1
        <3>3. ReadTo(i) = open[g].cursor
            BY <2>1 DEF ReadTo
        <3> HIDE DEF g
        <3> QED BY <3>1, <3>2, <3>3
    <2>2. CASE ~\E f \in DOMAIN open : open[f].box = i
        BY <1>2, <1>5, <2>2 DEF ReadTo
    <2> QED BY <2>1, <2>2
<1>7. ASSUME Entered(i), NEW byte \in ChildrenOffset(i)..(ReadTo(i) - 1)
      PROVE  Cardinality({j \in Kids(i) : byte \in boxes[j].offset..(End(j) - 1)}) = 1
    <2>1. Holds(boxes[i])
        BY <1>7 DEF Entered, Holds
    <2>2. byte \in Nat /\ Inside(boxes[i]) <= byte /\ byte < ReadTo(i)
        BY <1>2, <1>5, <1>6
    <2>3. PICK j \in KidsIn(boxes, i) : /\ Covers(boxes[j], byte)
                                        /\ \A k \in KidsIn(boxes, i) : Covers(boxes[k], byte) => k = j
        BY <1>4, <2>1, <2>2 DEF TiledTo, OneEach
    <2>4. ASSUME NEW k \in Kids(i) PROVE byte \in boxes[k].offset..(End(k) - 1) <=> Covers(boxes[k], byte)
        BY <1>2, <1>3, <2>2 DEF Covers
    <2>5. {k \in Kids(i) : byte \in boxes[k].offset..(End(k) - 1)} = {j}
        BY <1>2, <2>3, <2>4
    <2> QED BY <2>5, FS_Singleton
<1>8. \A j \in Kids(i) : boxes[j].offset >= ChildrenOffset(i) /\ End(j) <= ReadTo(i)
    <2> SUFFICES ASSUME NEW j \in KidsIn(boxes, i)
                 PROVE  boxes[j].offset >= Inside(boxes[i]) /\ End(j) <= ReadTo(i)
        BY <1>2
    <2>1. Inside(boxes[i]) <= boxes[j].offset /\ Beyond(boxes[j]) <= ReadTo(i)
        BY <1>4 DEF TiledTo, Within
    <2> QED BY <1>3, <1>5, <2>1
<1>9. ASSUME answer = "done" PROVE TilesPayload(i)
    <2>1. open = <<>>
        BY <1>9 DEF Inv, TypeOK
    <2>2. ReadTo(i) = End(i)
        BY <2>1 DEF ReadTo
    <2>3. InOrder(boxes, i, End(i))
        BY <1>4, <2>2 DEF TiledTo
    <2> QED BY <1>2, <1>3, <2>3 DEF InOrder, TilesPayload
<1> QED BY <1>7, <1>8, <1>9

(* Every byte read of a container is in exactly one of its children, and a child has no byte outside it,
   whatever the bytes are: the enumeration loses nothing of a movie box and reads nothing twice. *)
THEOREM EveryByteOnce == Spec => []EveryByteInOneChild
<1> QED BY AlwaysInv, Tiled, PTL

(* A range that is not a whole box ends its parent, has no children and lies where a vendor may write. *)
THEOREM ClippedAtTheEnd == Spec => []ClippedOnlyAtTheEnd
<1>1. Inv => ClippedOnlyAtTheEnd
    BY DEF Inv, ClippedLast, ClippedOnlyAtTheEnd, End, Beyond, Kids, KidsIn, Lenient
<1> QED BY <1>1, AlwaysInv, PTL
-----------------------------------------------------------------------------
(* The caps.  A box that was left ends before every cursor of the stack, and a box that is open before the
   cursors around it; so the boxes around a box gone into are open, and there are as many as the stack is
   deep. *)
AroundIn(bs, i) ==
    {k \in DOMAIN bs : k < i /\ bs[k].offset < bs[i].offset /\ Beyond(bs[i]) <= Beyond(bs[k])}
LeftBehind ==
    \A k \in DOMAIN boxes : (\A f \in DOMAIN open : open[f].box # k) =>
        \A f \in DOMAIN open : Beyond(boxes[k]) <= open[f].cursor
Nested ==
    \A f, g \in DOMAIN open : f < g => Beyond(boxes[open[g].box]) <= open[f].cursor
FewKids == \A i \in DOMAIN boxes : Cardinality(KidsIn(boxes, i)) <= MaxChildren
Shallow == \A i \in DOMAIN boxes : Holds(boxes[i]) => Cardinality(AroundIn(boxes, i)) < MaxDepth
Caps ==
    /\ Len(open) <= MaxDepth
    /\ LeftBehind
    /\ Nested
    /\ FewKids
    /\ Shallow

(* A list is finite, and pushing a box changes the boxes around no other. *)
LEMMA ListFinite ==
    ASSUME NEW bs \in Seq(Box), NEW i
    PROVE  /\ IsFiniteSet(KidsIn(bs, i)) /\ Cardinality(KidsIn(bs, i)) \in Nat
           /\ IsFiniteSet(AroundIn(bs, i)) /\ Cardinality(AroundIn(bs, i)) \in Nat
<1>1. IsFiniteSet(DOMAIN bs)
    <2>1. Len(bs) \in Nat /\ DOMAIN bs = 1..Len(bs)
        OBVIOUS
    <2> QED BY <2>1, FS_Interval
<1>2. KidsIn(bs, i) \in SUBSET DOMAIN bs /\ AroundIn(bs, i) \in SUBSET DOMAIN bs
    BY DEF KidsIn, AroundIn
<1>3. IsFiniteSet(KidsIn(bs, i)) /\ IsFiniteSet(AroundIn(bs, i))
    BY <1>1, <1>2, FS_Subset
<1> QED BY <1>3, FS_CardinalityType

(* Arithmetic the provers do not see among other facts. *)
LEMMA OneMore == ASSUME NEW a \in Nat, NEW b \in Nat, NEW c \in Nat, a <= b + 1, b < c PROVE a <= c
OBVIOUS
LEMMA BothWays == ASSUME NEW a \in Nat, NEW b \in Nat, a <= b, a >= b PROVE a = b
OBVIOUS
LEMMA SameInterval ==
    ASSUME NEW a \in Nat, NEW b \in Nat, 1..a = 1..b
    PROVE  a = b
<1>1. (a = 0 \/ a \in 1..a) /\ (b = 0 \/ b \in 1..b)
    OBVIOUS
<1>2. (a = 0 \/ a \in 1..b) /\ (b = 0 \/ b \in 1..a)
    BY <1>1
<1> QED BY <1>2

LEMMA CapsPushed ==
    ASSUME Inv, Caps, answer = "reading", Remaining > 0, HasRoom,
           NEW r \in Box, r.parent = Top.box, r.offset = Cursor,
           boxes' = Append(boxes, r),
           Holds(r) => Cardinality(AroundIn(boxes', Len(boxes) + 1)) < MaxDepth
    PROVE  FewKids' /\ Shallow'
<1> DEFINE n == Len(boxes) + 1
           as == Append(boxes, r)
<1>1. boxes \in Seq(Box) /\ ParentsFirst(boxes) /\ r.parent \in DOMAIN boxes
    BY TopFacts DEF Inv
<1>2. /\ as \in Seq(Box)
      /\ DOMAIN as = DOMAIN boxes \cup {n}
      /\ \A i \in DOMAIN boxes : as[i] = boxes[i]
      /\ as[n] = r
      /\ KidsIn(as, r.parent) = KidsIn(boxes, r.parent) \cup {n}
      /\ \A i \in DOMAIN boxes : i # r.parent => KidsIn(as, i) = KidsIn(boxes, i)
      /\ KidsIn(as, n) = {}
    BY <1>1, PushedKids
<1>3. n \in Nat /\ n \notin DOMAIN boxes /\ \A i \in DOMAIN boxes : i \in Nat /\ i < n
    BY <1>1, ListNumbers
<1> HIDE DEF as, n
<1>4. boxes' = as
    BY DEF as
<1>5. MaxChildren \in Nat
    BY SizeAssumption
<1>6. Cardinality(KidsIn(boxes, r.parent)) < MaxChildren
    BY DEF HasRoom, Kids, KidsIn
<1>7. ASSUME NEW i \in DOMAIN as PROVE Cardinality(KidsIn(as, i)) <= MaxChildren
    <2>1. CASE i = n
        <3>1. KidsIn(as, i) = {}
            BY <1>2, <2>1
        <3>2. Cardinality({}) = 0
            BY FS_EmptySet
        <3> QED BY <1>5, <3>1, <3>2
    <2>2. CASE i = r.parent
        <3>1. Cardinality(KidsIn(boxes, i)) \in Nat /\ IsFiniteSet(KidsIn(boxes, i))
            BY <1>1, ListFinite
        <3>2. Cardinality(KidsIn(boxes, i) \cup {n}) <= Cardinality(KidsIn(boxes, i)) + 1
            <4> DEFINE S == KidsIn(boxes, i)
            <4>1. IsFiniteSet(S) /\ Cardinality(S) \in Nat
                BY <3>1
            <4> HIDE DEF S
            <4>2. Cardinality(S \cup {n}) = IF n \in S THEN Cardinality(S) ELSE Cardinality(S) + 1
                BY <4>1, FS_AddElement
            <4>3. Cardinality(S \cup {n}) <= Cardinality(S) + 1
                BY <4>1, <4>2
            <4> QED BY <4>3 DEF S
        <3>3. Cardinality(KidsIn(as, i)) <= Cardinality(KidsIn(boxes, i)) + 1
            BY <1>2, <2>2, <3>2
        <3>4. Cardinality(KidsIn(as, i)) \in Nat
            BY <1>2, ListFinite
        <3>5. Cardinality(KidsIn(boxes, i)) < MaxChildren
            BY <1>6, <2>2
        <3> QED BY <1>5, <3>1, <3>3, <3>4, <3>5, OneMore
    <2>3. CASE i \in DOMAIN boxes /\ i # r.parent
        BY <1>2, <2>3 DEF Caps, FewKids
    <2> QED BY <1>2, <2>1, <2>2, <2>3
<1>8. ASSUME NEW i \in DOMAIN as, Holds(as[i]) PROVE Cardinality(AroundIn(as, i)) < MaxDepth
    <2>1. CASE i = n
        BY <1>2, <1>4, <1>8, <2>1 DEF n
    <2>2. CASE i \in DOMAIN boxes
        <3>1. ~(n < i)
            BY <1>3, <2>2
        <3>2. AroundIn(as, i) = AroundIn(boxes, i)
            BY <1>2, <2>2, <3>1 DEF AroundIn
        <3> QED BY <1>2, <1>8, <2>2, <3>2 DEF Caps, Shallow
    <2> QED BY <1>2, <2>1, <2>2
<1> QED BY <1>4, <1>7, <1>8 DEF FewKids, Shallow

LEMMA CapsKept ==
    ASSUME Inv, Caps, answer = "reading", Remaining > 0, HasRoom, NEW r, Keeps(r)
    PROVE  Caps'
<1> DEFINE n == Len(boxes) + 1
           d == Len(open)
<1>1. /\ open \in Seq(Frame) /\ d \in DOMAIN open /\ open[d] \in Frame /\ Top = open[d]
      /\ DOMAIN open = 1..d /\ d \in Nat
      /\ Cursor = open[d].cursor /\ Cursor \in Nat /\ boxes \in Seq(Box) /\ Top.box \in DOMAIN boxes
    BY TopFacts DEF Top, Cursor
<1>2. /\ DOMAIN boxes' = DOMAIN boxes \cup {n} /\ n \notin DOMAIN boxes
      /\ \A i \in DOMAIN boxes : boxes'[i] = boxes[i]
      /\ boxes'[n] = r
    BY Pushed DEF Keeps
<1>3. Beyond(r) \in Nat /\ Cursor <= Beyond(r) /\ Beyond(r) <= Beyond(boxes[Top.box])
    BY BoxNumbers DEF Keeps
<1>4. /\ DOMAIN open' = DOMAIN open /\ Len(open') = Len(open)
      /\ \A f \in DOMAIN open : open'[f].box = open[f].box
      /\ \A f \in DOMAIN open : f # d => open'[f] = open[f]
      /\ open'[d].cursor = Beyond(r)
    BY <1>1, <1>3 DEF Keeps, MoveTo, Frame
<1>5. FewKids' /\ Shallow'
    BY CapsPushed DEF Keeps
<1>6. \A f \in DOMAIN open : open[f].box \in DOMAIN boxes /\ open[f].cursor \in Nat
    <2> TAKE f \in DOMAIN open
    <2>1. open[f] \in Frame
        BY <1>1
    <2>2. open[f].box \in DOMAIN boxes
        BY DEF Inv, TypeOK
    <2> QED BY <2>1, <2>2 DEF Frame
<1>7. \A k \in DOMAIN boxes : Beyond(boxes[k]) \in Nat
    BY <1>1, ListNumbers DEF Inv
<1>8. \A f \in DOMAIN open : f # d => f < d /\ Beyond(r) <= open[f].cursor
    <2> TAKE f \in DOMAIN open
    <2> HAVE f # d
    <2>1. f < d
        BY <1>1
    <2>2. Beyond(boxes[Top.box]) <= open[f].cursor
        BY <1>1, <2>1 DEF Caps, Nested
    <2> QED BY <1>1, <1>3, <1>6, <1>7, <2>1, <2>2
<1>9. LeftBehind'
    <2> SUFFICES ASSUME NEW k \in DOMAIN boxes', \A f \in DOMAIN open : open[f].box # k,
                        NEW f \in DOMAIN open
                 PROVE  Beyond(boxes'[k]) <= open'[f].cursor
        BY <1>4 DEF LeftBehind
    <2>1. CASE k = n
        BY <1>2, <1>3, <1>4, <1>8, <2>1
    <2>2. CASE k \in DOMAIN boxes
        <3>1. Beyond(boxes[k]) <= open[f].cursor
            BY <2>2 DEF Caps, LeftBehind
        <3> QED BY <1>1, <1>2, <1>3, <1>4, <1>6, <1>7, <2>2, <3>1
    <2> QED BY <1>2, <2>1, <2>2
<1>10. Nested'
    <2> SUFFICES ASSUME NEW f \in DOMAIN open, NEW g \in DOMAIN open, f < g
                 PROVE  Beyond(boxes'[open'[g].box]) <= open'[f].cursor
        BY <1>4 DEF Nested
    <2>1. f # d
        BY <1>1
    <2> QED BY <1>2, <1>4, <1>6, <2>1 DEF Caps, Nested
<1> QED BY <1>4, <1>5, <1>9, <1>10 DEF Caps

LEMMA CapsEntered ==
    ASSUME Inv, Caps, answer = "reading", Remaining > 0, HasRoom, NEW r, GoesInto(r)
    PROVE  Caps'
<1> DEFINE n == Len(boxes) + 1
           d == Len(open)
           e == Len(open) + 1
<1>1. /\ open \in Seq(Frame) /\ d \in DOMAIN open /\ open[d] \in Frame /\ Top = open[d]
      /\ DOMAIN open = 1..d /\ d \in Nat
      /\ Cursor = open[d].cursor /\ Cursor \in Nat /\ boxes \in Seq(Box) /\ Top.box \in DOMAIN boxes
    BY TopFacts DEF Top, Cursor
<1>2. /\ DOMAIN boxes' = DOMAIN boxes \cup {n} /\ n \notin DOMAIN boxes /\ n \in Nat
      /\ \A i \in DOMAIN boxes : boxes'[i] = boxes[i]
      /\ boxes'[n] = r
    <2>1. ~r.clipped
        BY DEF GoesInto, Holds
    <2> QED BY <2>1, Pushed DEF GoesInto
<1>3. /\ Beyond(r) \in Nat /\ Inside(r) \in Nat /\ Cursor < Beyond(r) /\ Cursor <= Inside(r)
      /\ Beyond(r) <= Beyond(boxes[Top.box])
    <2>1. r.header \in Nat /\ r.fields \in Nat /\ Inside(r) = r.offset + r.header + r.fields
        BY BoxNumbers DEF GoesInto, Inside
    <2>2. /\ r.offset \in Nat /\ Beyond(r) \in Nat /\ r.offset = Cursor /\ Cursor < Beyond(r)
          /\ Beyond(r) <= Beyond(boxes[Top.box])
        BY BoxNumbers DEF GoesInto
    <2> QED BY <1>1, <2>1, <2>2
<1>4. /\ DOMAIN open' = DOMAIN open \cup {e} /\ Len(open') = e
      /\ \A f \in DOMAIN open : open'[f].box = open[f].box
      /\ \A f \in DOMAIN open : f # d => open'[f] = open[f]
      /\ open'[d].cursor = Beyond(r)
      /\ open'[e].box = n /\ open'[e].cursor = Inside(r)
    <2> DEFINE x == [box |-> n, cursor |-> Inside(r)]
    <2>1. x \in Frame /\ open # <<>>
        BY <1>1, <1>2, <1>3 DEF Frame
    <2>2. EntersFrom(Deeper(open, Beyond(r), x), open, Beyond(r), x)
        BY <1>1, <1>3, <2>1, StackPushed
    <2>3. open' = Deeper(open, Beyond(r), x)
        BY DEF GoesInto, Deeper
    <2> HIDE DEF x
    <2>4. EntersFrom(open', open, Beyond(r), x)
        BY <2>2, <2>3
    <2>5. x.box = n /\ x.cursor = Inside(r)
        BY DEF x
    <2>6. Len(open') = e
        <3>1. open' \in Seq(Frame) /\ DOMAIN open' = 1..d \cup {e}
            BY <1>1, <2>4 DEF EntersFrom
        <3>2. DOMAIN open' = 1..Len(open') /\ Len(open') \in Nat
            BY <3>1
        <3>3. 1..Len(open') = 1..e
            BY <1>1, <3>1, <3>2
        <3>4. e \in Nat
            BY <1>1
        <3> QED BY <3>2, <3>3, <3>4, SameInterval
    <2> QED BY <2>4, <2>5, <2>6 DEF EntersFrom
<1>5. \A f \in DOMAIN open : open[f].box \in DOMAIN boxes /\ open[f].cursor \in Nat
    <2> TAKE f \in DOMAIN open
    <2>1. open[f] \in Frame
        BY <1>1
    <2>2. open[f].box \in DOMAIN boxes
        BY DEF Inv, TypeOK
    <2> QED BY <2>1, <2>2 DEF Frame
<1>6. \A k \in DOMAIN boxes : Beyond(boxes[k]) \in Nat
    BY <1>1, ListNumbers DEF Inv
<1>7. \A f \in DOMAIN open : f # d => f < d /\ Beyond(r) <= open[f].cursor
    <2> TAKE f \in DOMAIN open
    <2> HAVE f # d
    <2>1. f < d
        BY <1>1
    <2>2. Beyond(boxes[Top.box]) <= open[f].cursor
        BY <1>1, <2>1 DEF Caps, Nested
    <2> QED BY <1>1, <1>3, <1>5, <1>6, <2>1, <2>2
<1>8. Cardinality(AroundIn(boxes', n)) < MaxDepth
    <2> DEFINE S == {open[f].box : f \in DOMAIN open}
               F == [f \in DOMAIN open |-> open[f].box]
    <2>1. AroundIn(boxes', n) \subseteq S
        <3> SUFFICES ASSUME NEW k \in AroundIn(boxes', n), \A f \in DOMAIN open : open[f].box # k
                     PROVE  FALSE
            OBVIOUS
        <3>1. k \in DOMAIN boxes /\ Beyond(r) <= Beyond(boxes[k])
            BY <1>2 DEF AroundIn
        <3>2. Beyond(boxes[k]) <= Cursor
            BY <1>1, <3>1 DEF Caps, LeftBehind
        <3> QED BY <1>1, <1>3, <1>6, <3>1, <3>2
    <2>2. F \in Surjection(DOMAIN open, S)
        BY Fun_IsSurj
    <2>3. IsFiniteSet(DOMAIN open) /\ Cardinality(DOMAIN open) = d
        BY <1>1, FS_Interval
    <2>4. IsFiniteSet(S) /\ Cardinality(S) <= d
        BY <2>2, <2>3, FS_Surjection
    <2>5. Cardinality(AroundIn(boxes', n)) <= Cardinality(S)
        BY <2>1, <2>4, FS_Subset
    <2>6. /\ Cardinality(S) \in Nat /\ Cardinality(AroundIn(boxes', n)) \in Nat /\ MaxDepth \in Nat
          /\ d < MaxDepth
        <3>1. boxes' \in Seq(Box)
            BY <1>1 DEF GoesInto
        <3> QED BY <2>4, <3>1, ListFinite, FS_CardinalityType, SizeAssumption DEF GoesInto
    <2> QED BY <1>1, <2>4, <2>5, <2>6
<1>9. FewKids' /\ Shallow'
    BY <1>8, CapsPushed DEF GoesInto
<1>10. LeftBehind'
    <2> SUFFICES ASSUME NEW k \in DOMAIN boxes', \A f \in DOMAIN open' : open'[f].box # k,
                        NEW f \in DOMAIN open'
                 PROVE  Beyond(boxes'[k]) <= open'[f].cursor
        BY DEF LeftBehind
    <2>1. k \in DOMAIN boxes /\ \A g \in DOMAIN open : open[g].box # k
        BY <1>2, <1>4
    <2>2. \A g \in DOMAIN open : Beyond(boxes[k]) <= open[g].cursor
        BY <2>1 DEF Caps, LeftBehind
    <2>3. Beyond(boxes[k]) <= Cursor /\ Beyond(boxes[k]) \in Nat
        BY <1>1, <1>6, <2>1, <2>2
    <2>4. CASE f = e
        BY <1>1, <1>2, <1>3, <1>4, <2>1, <2>3, <2>4
    <2>5. CASE f = d
        <3>1. open'[f].cursor = Beyond(r) /\ boxes'[k] = boxes[k]
            BY <1>2, <1>4, <2>1, <2>5
        <3> QED BY <1>1, <1>3, <2>3, <3>1
    <2>6. CASE f \in DOMAIN open /\ f # d
        BY <1>2, <1>4, <2>1, <2>2, <2>6
    <2> QED BY <1>4, <2>4, <2>5, <2>6
<1>11. Nested'
    <2> SUFFICES ASSUME NEW f \in DOMAIN open', NEW g \in DOMAIN open', f < g
                 PROVE  Beyond(boxes'[open'[g].box]) <= open'[f].cursor
        BY DEF Nested
    <2>1. f \in DOMAIN open
        BY <1>1, <1>4
    <2>2. CASE g = e
        <3>1. Beyond(boxes'[open'[g].box]) = Beyond(r)
            BY <1>2, <1>4, <2>2
        <3> QED BY <1>3, <1>4, <1>7, <2>1, <3>1
    <2>3. CASE g \in DOMAIN open
        <3>1. f # d
            BY <1>1, <2>1, <2>3
        <3> QED BY <1>2, <1>4, <1>5, <2>1, <2>3, <3>1 DEF Caps, Nested
    <2> QED BY <1>4, <2>2, <2>3
<1>12. Len(open') <= MaxDepth
    <2>1. Len(open) < MaxDepth
        BY DEF GoesInto
    <2> QED BY <1>1, <1>4, <2>1, SizeAssumption
<1> QED BY <1>9, <1>10, <1>11, <1>12 DEF Caps

LEMMA CapsLeft == ASSUME Inv, Caps, Leave PROVE Caps'
<1> DEFINE d == Len(open)
<1>1. answer = "reading" /\ boxes' = boxes /\ open' = SubSeq(open, 1, Len(open) - 1)
    BY DEF Leave
<1>2. /\ open \in Seq(Frame) /\ d \in DOMAIN open /\ DOMAIN open = 1..d /\ d \in Nat
      /\ Top = open[d] /\ Top.box \in DOMAIN boxes
    BY <1>1, TopFacts DEF Top
<1>3. /\ Len(open') = d - 1 /\ DOMAIN open' = 1..(d - 1)
      /\ \A f \in 1..(d - 1) : open'[f] = open[f]
    BY <1>1, <1>2
<1>4. \A f \in DOMAIN open' : f \in DOMAIN open /\ f < d /\ open'[f] = open[f]
    BY <1>2, <1>3
<1>5. \A f \in DOMAIN open : f # d => f \in DOMAIN open' /\ open'[f] = open[f]
    BY <1>2, <1>3
<1>6. LeftBehind'
    <2> SUFFICES ASSUME NEW k \in DOMAIN boxes, \A f \in DOMAIN open' : open'[f].box # k,
                        NEW f \in DOMAIN open'
                 PROVE  Beyond(boxes[k]) <= open[f].cursor
        BY <1>1, <1>4 DEF LeftBehind
    <2>1. CASE k = Top.box
        BY <1>2, <1>4, <2>1 DEF Caps, Nested
    <2>2. CASE k # Top.box
        <3>1. \A g \in DOMAIN open : open[g].box # k
            BY <1>2, <1>5, <2>2
        <3> QED BY <1>4, <3>1 DEF Caps, LeftBehind
    <2> QED BY <2>1, <2>2
<1>7. Nested'
    BY <1>1, <1>4 DEF Caps, Nested
<1>8. Len(open') <= MaxDepth
    BY <1>2, <1>3, SizeAssumption DEF Caps
<1> QED BY <1>1, <1>6, <1>7, <1>8 DEF Caps, FewKids, Shallow

LEMMA CapsStill ==
    ASSUME Caps, UNCHANGED <<boxes, open>>
    PROVE  Caps'
BY DEF Caps, LeftBehind, Nested, FewKids, Shallow

LEMMA CapsInit == Init => Caps
<1> SUFFICES ASSUME Init PROVE Caps
    OBVIOUS
<1>1. /\ boxes \in Seq(Box) /\ DOMAIN boxes = {1} /\ boxes[1].parent = 0
      /\ open \in Seq(Frame) /\ Len(open) = 1 /\ DOMAIN open = {1} /\ open[1].box = 1
    <2>1. boxes \in Seq(Box) /\ open \in Seq(Frame)
        BY InitInv DEF Inv, TypeOK
    <2>2. open = <<[box |-> 1, cursor |-> Small]>>
        BY DEF Init
    <2>3. PICK n \in Lengths :
            boxes = <<[kind |-> "moov", offset |-> 0, size |-> Small + n, header |-> Small,
                       fields |-> 0, parent |-> 0, clipped |-> FALSE, declared |-> Small + n]>>
        BY DEF Init
    <2> QED BY <2>1, <2>2, <2>3
<1>2. KidsIn(boxes, 1) = {} /\ AroundIn(boxes, 1) = {}
    BY <1>1 DEF KidsIn, AroundIn
<1>3. MaxDepth \in Nat /\ MaxDepth > 0 /\ MaxChildren \in Nat
    BY SizeAssumption
<1>4. LeftBehind /\ Nested
    BY <1>1 DEF LeftBehind, Nested
<1>5. Cardinality({}) = 0
    BY FS_EmptySet
<1>6. FewKids /\ Shallow
    <2>1. Cardinality(KidsIn(boxes, 1)) <= MaxChildren /\ Cardinality(AroundIn(boxes, 1)) < MaxDepth
        BY <1>2, <1>3, <1>5
    <2>2. \A i \in DOMAIN boxes : i = 1
        BY <1>1
    <2> QED BY <2>1, <2>2 DEF FewKids, Shallow
<1> QED BY <1>1, <1>3, <1>4, <1>6 DEF Caps

LEMMA AlwaysCaps == Spec => []Caps
<1>1. ASSUME Inv, Caps, [Next]_vars PROVE Caps'
    <2>1. CASE Leave
        BY <1>1, <2>1, CapsLeft
    <2>2. CASE RefuseAnotherChild \/ UNCHANGED vars
        BY <1>1, <2>2, CapsStill DEF RefuseAnotherChild, Refuse, vars
    <2>3. ASSUME NEW b \in Bytes, NEW version \in Versions, ReadChild(b, version) PROVE Caps'
        <3>1. answer = "reading" /\ Remaining > 0
            BY <1>1, <2>3, ReadChildShape
        <3>2. ASSUME NEW error, Refuse(error) PROVE Caps'
            BY <1>1, <3>2, CapsStill DEF Refuse
        <3>3. ASSUME HasRoom, NEW r, Keeps(r) PROVE Caps'
            BY <1>1, <3>1, <3>3, CapsKept
        <3>4. ASSUME HasRoom, NEW r, GoesInto(r) PROVE Caps'
            BY <1>1, <3>1, <3>4, CapsEntered
        <3> QED BY <1>1, <2>3, <3>2, <3>3, <3>4, ReadChildShape
    <2> QED BY <1>1, <2>1, <2>2, <2>3 DEF Next
<1> QED BY AlwaysInv, CapsInit, <1>1, PTL DEF Spec

-----------------------------------------------------------------------------
(* What the refusals and the clipped boxes say. *)
AllSound(bs) == \A i \in DOMAIN bs : bs[i].parent \in DOMAIN bs => Sound(bs[i], bs[bs[i].parent].kind)
Honest == AllSound(boxes) /\ (\A i \in DOMAIN boxes : boxes[i].clipped => boxes[i].parent \in DOMAIN boxes)

LEMMA SoundPushed ==
    ASSUME Inv, Honest, answer = "reading", NEW r \in Box, r.parent = Top.box,
           Sound(r, boxes[Top.box].kind), boxes' = Append(boxes, r)
    PROVE  Honest'
<1> DEFINE n == Len(boxes) + 1
           as == Append(boxes, r)
<1>1. boxes \in Seq(Box) /\ ParentsFirst(boxes) /\ r.parent \in DOMAIN boxes
    BY TopFacts DEF Inv
<1>2. /\ DOMAIN as = DOMAIN boxes \cup {n} /\ n \notin DOMAIN boxes /\ n \in Nat
      /\ \A i \in DOMAIN boxes : as[i] = boxes[i] /\ i \in Nat /\ i < n
                                /\ boxes[i].parent \in Nat /\ boxes[i].parent < i
      /\ as[n] = r
    BY <1>1, PushedKids, ListNumbers
<1> HIDE DEF n, as
<1>3. boxes' = as
    BY DEF as
<1>4. ASSUME NEW i \in DOMAIN as, as[i].parent \in DOMAIN as PROVE Sound(as[i], as[as[i].parent].kind)
    <2>1. CASE i = n
        BY <1>1, <1>2, <2>1
    <2>2. CASE i \in DOMAIN boxes
        <3>1. /\ as[i] = boxes[i] /\ boxes[i].parent \in DOMAIN boxes \cup {n}
              /\ i \in Nat /\ i < n /\ boxes[i].parent \in Nat /\ boxes[i].parent < i
            BY <1>2, <1>4, <2>2
        <3>2. boxes[i].parent # n
            BY <1>2, <3>1
        <3>3. boxes[i].parent \in DOMAIN boxes
            BY <3>1, <3>2
        <3> QED BY <1>2, <2>2, <3>3 DEF Honest, AllSound
    <2> QED BY <1>2, <2>1, <2>2
<1>5. ASSUME NEW i \in DOMAIN as, as[i].clipped PROVE as[i].parent \in DOMAIN as
    BY <1>1, <1>2, <1>5 DEF Honest
<1> QED BY <1>3, <1>4, <1>5 DEF Honest, AllSound

LEMMA AlwaysHonest == Spec => [](Honest /\ RefusedAtACap)
<1>1. Init => Honest /\ RefusedAtACap
    <2> SUFFICES ASSUME Init PROVE Honest /\ RefusedAtACap
        OBVIOUS
    <2>1. PICK n \in Lengths :
            boxes = <<[kind |-> "moov", offset |-> 0, size |-> Small + n, header |-> Small,
                       fields |-> 0, parent |-> 0, clipped |-> FALSE, declared |-> Small + n]>>
        BY DEF Init
    <2>2. DOMAIN boxes = {1} /\ boxes[1].parent = 0 /\ ~boxes[1].clipped
        BY <2>1
    <2>3. Honest
        BY <2>2 DEF Honest, AllSound
    <2> QED BY <2>3 DEF Init, RefusedAtACap
<1>2. ASSUME Inv, Caps, Honest, RefusedAtACap, [Next]_vars PROVE Honest' /\ RefusedAtACap'
    <2>1. CASE Leave
        <3>1. boxes' = boxes /\ answer' # "too many" /\ answer' # "too deep"
            BY <2>1 DEF Leave
        <3> QED BY <1>2, <3>1 DEF Honest, RefusedAtACap
    <2>2. CASE RefuseAnotherChild
        <3>1. answer = "reading" /\ Remaining > 0 /\ ~HasRoom /\ answer' = "too many" /\ UNCHANGED <<boxes, open>>
            BY <2>2 DEF RefuseAnotherChild, Refuse
        <3>2. Top.box \in DOMAIN boxes /\ boxes \in Seq(Box)
            BY <1>2, <3>1, TopFacts
        <3>3. Cardinality(KidsIn(boxes, Top.box)) \in Nat /\ Cardinality(KidsIn(boxes, Top.box)) <= MaxChildren
            BY <1>2, <3>2, ListFinite DEF Caps, FewKids
        <3>4. ~(Cardinality(KidsIn(boxes, Top.box)) < MaxChildren) /\ MaxChildren \in Nat
            BY <3>1, SizeAssumption DEF HasRoom, Kids, KidsIn
        <3>5. Cardinality(KidsIn(boxes, Top.box)) = MaxChildren
            BY <3>3, <3>4
        <3>6. Cardinality(Kids(Top.box)) = MaxChildren
            BY <3>5 DEF Kids, KidsIn
        <3>7. Cardinality(Kids(Top.box))' = MaxChildren /\ (Remaining > 0)'
            BY <3>1, <3>6 DEF Kids, Top, Remaining, End, Cursor
        <3> QED BY <1>2, <3>1, <3>7 DEF Honest, RefusedAtACap
    <2>3. ASSUME NEW b \in Bytes, NEW version \in Versions, ReadChild(b, version)
          PROVE  Honest' /\ RefusedAtACap'
        <3>1. answer = "reading" /\ Remaining > 0
            BY <1>2, <2>3, ReadChildShape
        <3>2. ASSUME NEW error \in Refusal \ {"too many"}, Refuse(error), answer' = "too deep" => Len(open) >= MaxDepth
              PROVE  Honest' /\ RefusedAtACap'
            <4>1. answer' = error /\ UNCHANGED <<boxes, open>>
                BY <3>2 DEF Refuse
            <4>2. Honest'
                BY <1>2, <4>1 DEF Honest
            <4>3. Len(open) <= MaxDepth /\ Len(open) \in Nat /\ MaxDepth \in Nat
                <5>1. Len(open) \in Nat
                    BY <1>2, <3>1, TopFacts
                <5>2. Len(open) <= MaxDepth
                    BY <1>2 DEF Caps
                <5> QED BY <5>1, <5>2, SizeAssumption
            <4>4. answer' = "too deep" => Len(open) = MaxDepth
                <5> SUFFICES ASSUME answer' = "too deep" PROVE Len(open) = MaxDepth
                    OBVIOUS
                <5>1. Len(open) >= MaxDepth
                    BY <3>2
                <5> QED BY <4>3, <5>1, BothWays
            <4>5. (Remaining > 0)'
                BY <3>1, <4>1 DEF Remaining, End, Cursor, Top
            <4> QED BY <4>1, <4>2, <4>4, <4>5 DEF RefusedAtACap
        <3>3. ASSUME NEW r, Keeps(r) \/ GoesInto(r) PROVE Honest' /\ RefusedAtACap'
            <4>1. /\ r \in Box /\ r.parent = Top.box /\ Sound(r, boxes[Top.box].kind)
                  /\ boxes' = Append(boxes, r) /\ answer' = answer
                BY <3>3 DEF Keeps, GoesInto
            <4>2. Honest'
                BY <1>2, <3>1, <4>1, SoundPushed
            <4> QED BY <3>1, <4>1, <4>2 DEF RefusedAtACap
        <3> QED BY <1>2, <2>3, <3>2, <3>3, ReadChildShape
    <2>4. CASE UNCHANGED vars
        BY <1>2, <2>4 DEF vars, Honest, RefusedAtACap, Kids, Top, Remaining, End, Cursor
    <2> QED BY <1>2, <2>1, <2>2, <2>3, <2>4 DEF Next
<1> QED BY AlwaysInv, AlwaysCaps, <1>1, <1>2, PTL DEF Spec

(* A box that holds boxes and was read to its end has a child that ends there: the one its last byte is in. *)
LEMMA LastChild ==
    ASSUME Inv, NEW i \in DOMAIN boxes, Holds(boxes[i]), Inside(boxes[i]) < Beyond(boxes[i]), open = <<>>
    PROVE  \E j \in Kids(i) : End(j) = End(i)
<1>1. TiledTo(boxes, i, Beyond(boxes[i]))
    BY DEF Inv, ClosedTiled
<1>2. /\ Inside(boxes[i]) \in Nat /\ Beyond(boxes[i]) \in Nat
      /\ \A j \in DOMAIN boxes : Beyond(boxes[j]) \in Nat
    BY ListNumbers DEF Inv, TypeOK
<1> DEFINE byte == Beyond(boxes[i]) - 1
<1>3. byte \in Nat /\ Inside(boxes[i]) <= byte /\ byte < Beyond(boxes[i])
    BY <1>2
<1> HIDE DEF byte
<1>4. PICK j \in KidsIn(boxes, i) : Covers(boxes[j], byte)
    BY <1>1, <1>3 DEF TiledTo, OneEach
<1>5. j \in DOMAIN boxes /\ Beyond(boxes[j]) <= Beyond(boxes[i]) /\ byte < Beyond(boxes[j])
    BY <1>1, <1>4 DEF TiledTo, Within, KidsIn, Covers
<1>6. Beyond(boxes[j]) = Beyond(boxes[i])
    BY <1>2, <1>5 DEF byte
<1>7. j \in Kids(i) /\ End(j) = Beyond(boxes[j]) /\ End(i) = Beyond(boxes[i])
    BY <1>4 DEF Kids, KidsIn, End, Beyond
<1> QED BY <1>6, <1>7

(* The caps are honest, for any caps and payload: no box has more children than allowed and none that holds
   boxes lies deeper than allowed; a refusal at a cap comes when the cap is used up and bytes are left; a file
   that was read was read to the end of every box, none of them cut short to stay within a cap. *)
THEOREM CapsBound == Spec => []CapsAreHonest
<1>1. Inv /\ Caps => WithinCaps
    <2> SUFFICES ASSUME Inv, Caps PROVE WithinCaps
        OBVIOUS
    <2>1. \A i \in DOMAIN boxes : Kids(i) = KidsIn(boxes, i) /\ Around(i) = AroundIn(boxes, i)
        BY DEF Kids, KidsIn, Around, AroundIn, End, Beyond
    <2>2. \A i \in DOMAIN boxes : Entered(i) => Holds(boxes[i])
        BY DEF Entered, Holds
    <2> QED BY <2>1, <2>2 DEF Caps, FewKids, Shallow, WithinCaps
<1>2. Inv /\ Honest => NothingCutByACap
    <2> SUFFICES ASSUME Inv, Honest PROVE NothingCutByACap
        OBVIOUS
    <2>1. \A i \in DOMAIN boxes : boxes[i].clipped /\ boxes[i].header # 0 => boxes[i].declared > boxes[i].size
        BY DEF Honest, AllSound, Sound
    <2>2. ASSUME answer = "done", NEW i \in DOMAIN boxes PROVE ReadInFull(i)
        <3>1. open = <<>>
            BY <2>2 DEF Inv, TypeOK
        <3>2. Entered(i) \/ VisualEntry(i) => Holds(boxes[i])
            BY DEF Entered, VisualEntry, Holds, Honest, AllSound, Sound
        <3>3. ChildrenOffset(i) = Inside(boxes[i]) /\ End(i) = Beyond(boxes[i])
            BY DEF ChildrenOffset, Inside, End, Beyond
        <3> QED BY <3>1, <3>2, <3>3, LastChild DEF ReadInFull
    <2> QED BY <2>1, <2>2 DEF NothingCutByACap
<1>3. Inv /\ Caps /\ Honest /\ RefusedAtACap => CapsAreHonest
    BY <1>1, <1>2 DEF CapsAreHonest
<1> QED BY <1>3, AlwaysInv, AlwaysCaps, AlwaysHonest, PTL
=============================================================================
