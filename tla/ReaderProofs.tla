--------------------------- MODULE ReaderProofs ----------------------------
(* Proofs about Reader and the drivers that run it, for files of any length, any bytes, any caps, any
   caller and a source that may fail. *)
EXTENDS ReaderDriver, TLAPS

(* What is asked for lies where the reader stands: a header before the end of the file, a body within it. *)
AskedHere ==
    outstanding.what # "nothing" =>
        /\ outstanding.offset = position
        /\ position < length
        /\ ~finished
        /\ Len(topLevel) < MaxTopLevel

BodyFits ==
    outstanding.what = "body" =>
        /\ outstanding.size >= Small
        /\ outstanding.offset + outstanding.size <= length
        /\ outstanding.kind = "moov" => ~MovieSeen

Inv ==
    /\ TypeOK
    /\ AskedHere
    /\ BodyFits
    /\ RangesTile
    /\ OnlyTheTailIsClipped
    /\ OneMovieBox
    /\ NeverStalls
    /\ TopLevelIsCapped

LEMMA InitInv == Init => Inv
<1> SUFFICES ASSUME Init PROVE Inv
  OBVIOUS
<1>1. topLevel = <<>> /\ held = <<>> /\ Len(topLevel) = 0 /\ DOMAIN topLevel = {}
  BY DEF Init
<1>2. outstanding \in Asked
  BY KindAssumption DEF Init, Nothing, Asked
<1>3. TypeOK
  <2>1. length \in Lengths /\ position \in 0..length
    BY SizeAssumption DEF Init
  <2>2. topLevel \in Seq(Range) /\ held \in Seq([offset : Nat, size : Nat])
    BY <1>1
  <2>3. finished \in BOOLEAN /\ answer \in Success
    BY DEF Init, Success
  <2>4. QED
    BY <1>2, <2>1, <2>2, <2>3 DEF TypeOK
<1>4. AskedHere /\ BodyFits /\ NeverStalls
  BY DEF Init, AskedHere, BodyFits, NeverStalls, Nothing
<1>5. RangesTile /\ OnlyTheTailIsClipped /\ OneMovieBox /\ TopLevelIsCapped
  BY <1>1, SizeAssumption DEF Init, RangesTile, OnlyTheTailIsClipped, OneMovieBox, TopLevelIsCapped
<1>6. QED
  BY <1>3, <1>4, <1>5 DEF Inv

(* A range pushed where the reader stands, which ends where the reader moves to, keeps the tiling. *)
LEMMA PushInv ==
    ASSUME Inv, NEW r \in Range,
           outstanding.what # "nothing",
           r.offset = position, r.size > 0, r.offset + r.size <= length,
           r.clipped => r.offset + r.size = length,
           ~r.clipped /\ r.kind = "moov" => ~MovieSeen,
           Push(r), MoveTo(r.offset + r.size), outstanding' = Nothing,
           UNCHANGED <<length, finished>>, held' \in Seq([offset : Nat, size : Nat])
    PROVE  Inv'
<1> USE DEF Push
<1>1. /\ topLevel \in Seq(Range) /\ position \in Nat /\ length \in Nat /\ r.size \in Nat
      /\ r.offset \in Nat /\ MaxTopLevel \in Nat
  BY SizeAssumption DEF Inv, TypeOK, Range
<1>2. /\ Len(topLevel') = Len(topLevel) + 1 /\ Len(topLevel) \in Nat
      /\ topLevel' \in Seq(Range)
      /\ DOMAIN topLevel = 1..Len(topLevel)
      /\ DOMAIN topLevel' = 1..(Len(topLevel) + 1)
      /\ \A i \in 1..Len(topLevel) : topLevel'[i] = topLevel[i]
      /\ topLevel'[Len(topLevel) + 1] = r
  BY <1>1
<1>3. position' = r.offset + r.size /\ position' > position /\ answer' = "fed"
  BY <1>1 DEF MoveTo
<1>4. \A i \in DOMAIN topLevel : ~topLevel[i].clipped
  BY <1>1, <1>2 DEF Inv, OnlyTheTailIsClipped, AskedHere, RangesTile, EndOf
<1>5. TypeOK'
  BY <1>1, <1>2, <1>3, KindAssumption DEF Inv, TypeOK, Nothing, Asked, Success
<1>6. RangesTile'
  <2>1. \A i \in DOMAIN topLevel' :
          topLevel'[i].offset = IF i = 1 THEN 0 ELSE EndOf(topLevel'[i - 1])
    <3>1. CASE Len(topLevel) = 0
      BY <1>1, <1>2, <3>1 DEF Inv, RangesTile
    <3>2. CASE Len(topLevel) > 0
      <4>1. topLevel # <<>> /\ position = EndOf(topLevel[Len(topLevel)])
        BY <1>1, <3>2 DEF Inv, RangesTile
      <4>2. ASSUME NEW i \in 1..Len(topLevel)
            PROVE  topLevel'[i].offset = IF i = 1 THEN 0 ELSE EndOf(topLevel'[i - 1])
        <5>1. topLevel[i].offset = IF i = 1 THEN 0 ELSE EndOf(topLevel[i - 1])
          BY <1>2 DEF Inv, RangesTile
        <5>2. i # 1 => i - 1 \in 1..Len(topLevel)
          BY <1>2
        <5>3. QED
          BY <1>2, <5>1, <5>2 DEF EndOf
      <4>3. QED
        BY <1>2, <3>2, <4>1, <4>2 DEF EndOf
    <3>3. QED
      BY <1>2, <3>1, <3>2
  <2>2. position' = EndOf(topLevel'[Len(topLevel')]) /\ topLevel' # <<>>
    BY <1>2, <1>3 DEF EndOf
  <2>3. ~finished'
    BY DEF Inv, AskedHere
  <2>4. QED
    BY <2>1, <2>2, <2>3 DEF RangesTile
<1>7. OnlyTheTailIsClipped'
  BY <1>2, <1>4 DEF OnlyTheTailIsClipped, EndOf
<1>8. OneMovieBox'
  BY <1>2, <1>4 DEF Inv, OneMovieBox, MovieSeen
<1>9. AskedHere' /\ BodyFits' /\ NeverStalls' /\ TopLevelIsCapped'
  BY <1>1, <1>2, <1>3 DEF Inv, AskedHere, BodyFits, NeverStalls, TopLevelIsCapped, Nothing
<1>10. QED
  BY <1>5, <1>6, <1>7, <1>8, <1>9 DEF Inv

LEMMA Numbers ==
    ASSUME Inv
    PROVE  /\ length \in Nat /\ position \in Nat /\ position <= length
           /\ held \in Seq([offset : Nat, size : Nat])
           /\ outstanding \in Asked
<1>1. length \in Nat
  BY SizeAssumption DEF Inv, TypeOK
<1>2. QED
  BY <1>1 DEF Inv, TypeOK

(* What a header that was accepted says of its box. *)
LEMMA HeaderTyped ==
    ASSUME Inv, NEW b \in Bytes, NEW n \in Nat, outstanding.what = "header"
    PROVE  /\ b.kind \in Kind
           /\ SizeOf(b, outstanding.offset) \in Nat
           /\ HeaderOf(b) \in {Small, Wide}
           /\ outstanding.offset = position
           /\ position \in Nat /\ length \in Nat /\ position < length
BY SizeAssumption DEF Inv, TypeOK, AskedHere, SizeOf, HeaderOf

LEMMA AcceptedSound ==
    ASSUME Inv, NEW b \in Bytes, NEW n \in Nat, Accepted(b, n)
    PROVE  /\ SizeOf(b, outstanding.offset) >= Small
           /\ b.kind = "moov" /\ ~Overruns(b, outstanding.offset) => ~MovieSeen
<1>1. SizeOf(b, outstanding.offset) \in Nat /\ HeaderOf(b) \in {Small, Wide}
  BY HeaderTyped DEF Accepted
<1>2. Problem(b, n, outstanding.offset) = "none"
  BY DEF Accepted, HeaderRefusal
<1>3. SizeOf(b, outstanding.offset) >= HeaderOf(b)
  BY <1>1, <1>2 DEF Problem, Small, Wide
<1>4. b.kind = "moov" /\ ~Overruns(b, outstanding.offset) => ~MovieSeen
  BY <1>2 DEF Accepted, HeaderRefusal, NamesTwice
<1>5. QED
  BY <1>1, <1>3, <1>4 DEF Small, Wide

(* Calls that change nothing but the answer and what is asked for. *)
LEMMA KeepInv ==
    ASSUME Inv, UNCHANGED <<length, position, topLevel, held, finished>>,
           outstanding' \in {outstanding, Nothing}, answer' \in (Success \cup Refusal) \ {"stalled"}
    PROVE  Inv'
<1>1. Nothing \in Asked /\ Nothing.what = "nothing"
  BY KindAssumption DEF Nothing, Asked
<1>2. TypeOK'
  BY <1>1 DEF Inv, TypeOK
<1>3. AskedHere' /\ BodyFits'
  BY <1>1 DEF Inv, AskedHere, BodyFits, MovieSeen
<1>4. QED
  BY <1>2, <1>3 DEF Inv, RangesTile, OnlyTheTailIsClipped, OneMovieBox, NeverStalls, TopLevelIsCapped

LEMMA StepInv ==
    ASSUME Inv, Step
    PROVE  Inv'
<1>1. CASE StepOutOfTurn
  BY <1>1, KeepInv DEF StepOutOfTurn, Refusal
<1>2. CASE RefuseAnotherBox
  BY <1>2, KeepInv DEF RefuseAnotherBox, Refusal
<1>3. CASE Finish
  <2>1. position = length
    <3>1. position >= length
      BY <1>3 DEF Finish
    <3>2. length \in Nat /\ position \in Nat /\ position <= length
      BY Numbers
    <3>3. QED
      BY <3>1, <3>2
  <2>2. outstanding.what = "nothing"
    BY <1>3 DEF Finish, Ready
  <2>3. QED
    BY <1>3, <2>1, <2>2
    DEF Finish, Inv, TypeOK, AskedHere, BodyFits, RangesTile, OnlyTheTailIsClipped, OneMovieBox, NeverStalls,
        TopLevelIsCapped, Success, Refusal, EndOf
<1>4. CASE AskHeader
  <2>1. outstanding' \in Asked /\ outstanding'.what = "header" /\ outstanding'.offset = position
    <3>1. position \in Nat /\ Nothing \in Asked
      BY Numbers, KindAssumption DEF Nothing, Asked
    <3>2. outstanding' = [Nothing EXCEPT !.what = "header", !.offset = position]
      BY <1>4 DEF AskHeader
    <3>3. QED
      BY <3>1, <3>2 DEF Nothing, Asked
  <2>2. TypeOK' /\ AskedHere' /\ BodyFits'
    BY <1>4, <2>1 DEF AskHeader, Inv, TypeOK, AskedHere, BodyFits, Ready, HasRoom, Success
  <2>3. QED
    BY <1>4, <2>2
    DEF AskHeader, Inv, RangesTile, OnlyTheTailIsClipped, OneMovieBox, NeverStalls, TopLevelIsCapped, EndOf
<1>5. QED
  BY <1>1, <1>2, <1>3, <1>4 DEF Step

LEMMA FeedHeaderInv ==
    ASSUME Inv, NEW b \in Bytes, NEW n \in Nat, FeedHeader(b, n)
    PROVE  Inv'
<1> DEFINE o == outstanding.offset
           size == SizeOf(b, o)
<1>1. CASE FeedTail(b, n)
  <2>1. PICK kind \in Kind :
          Push([kind |-> kind, offset |-> o, size |-> length - o, header |-> 0, clipped |-> TRUE])
    BY <1>1, KindAssumption DEF FeedTail
  <2>2. [kind |-> kind, offset |-> o, size |-> length - o, header |-> 0, clipped |-> TRUE] \in Range
    BY <1>1, HeaderTyped DEF FeedTail, Range
  <2>3. o = position /\ length - o > 0 /\ o + (length - o) = length
    BY <1>1, HeaderTyped DEF FeedTail
  <2> DEFINE r == [kind |-> kind, offset |-> o, size |-> length - o, header |-> 0, clipped |-> TRUE]
  <2>4. MoveTo(r.offset + r.size) /\ UNCHANGED <<length, held, finished>> /\ outstanding' = Nothing
    BY <1>1, <2>3 DEF FeedTail
  <2>5. QED
    BY <1>1, <2>1, <2>2, <2>3, <2>4, PushInv, Numbers DEF FeedTail
<1>2. CASE FeedRefused(b, n)
  <2>1. answer' \in Refusal \ {"stalled"}
    BY <1>2 DEF FeedRefused, HeaderRefusal, Problem, Refusal
  <2>2. QED
    BY <1>2, <2>1, KeepInv DEF FeedRefused
<1>3. CASE FeedClipped(b, n)
  <2> DEFINE r == [kind |-> b.kind, offset |-> o, size |-> length - o, header |-> HeaderOf(b),
                   clipped |-> TRUE]
  <2>1. outstanding.what = "header"
    BY <1>3 DEF FeedClipped, Accepted
  <2>2. r \in Range
    BY <2>1, HeaderTyped DEF Range
  <2>3. o = position /\ length - o > 0 /\ o + (length - o) = length
    BY <2>1, HeaderTyped
  <2>4. /\ MoveTo(r.offset + r.size) /\ Push(r)
        /\ UNCHANGED <<length, held, finished>> /\ outstanding' = Nothing
    BY <1>3, <2>3 DEF FeedClipped
  <2>5. QED
    BY <2>1, <2>2, <2>3, <2>4, PushInv, Numbers
<1>4. CASE FeedSteppedOver(b, n)
  <2> DEFINE r == [kind |-> b.kind, offset |-> o, size |-> size, header |-> HeaderOf(b),
                   clipped |-> FALSE]
  <2>1. outstanding.what = "header" /\ Accepted(b, n) /\ ~Overruns(b, o)
    BY <1>4 DEF FeedSteppedOver, Accepted
  <2>2. r \in Range
    BY <2>1, HeaderTyped DEF Range
  <2>3. o = position /\ size > 0 /\ o + size <= length /\ (b.kind = "moov" => ~MovieSeen)
    BY <2>1, HeaderTyped, AcceptedSound DEF Overruns, Small
  <2>4. QED
    BY <1>4, <2>1, <2>2, <2>3, PushInv, Numbers DEF FeedSteppedOver
<1>5. CASE AskBody(b, n)
  <2>1. outstanding.what = "header" /\ Accepted(b, n) /\ ~Overruns(b, o)
    BY <1>5 DEF AskBody, Accepted
  <2>2. /\ outstanding' \in Asked
        /\ outstanding'.what = "body" /\ outstanding'.kind = b.kind
        /\ outstanding'.offset = o /\ outstanding'.size = size
    BY <1>5, <2>1, HeaderTyped DEF AskBody, Asked
  <2>3. o = position /\ size >= Small /\ o + size <= length /\ (b.kind = "moov" => ~MovieSeen)
    BY <2>1, HeaderTyped, AcceptedSound DEF Overruns
  <2>4. TypeOK' /\ AskedHere' /\ BodyFits'
    BY <1>5, <2>1, <2>2, <2>3 DEF AskBody, Inv, TypeOK, AskedHere, BodyFits, MovieSeen, Success
  <2>5. QED
    BY <1>5, <2>4
    DEF AskBody, Inv, RangesTile, OnlyTheTailIsClipped, OneMovieBox, NeverStalls, TopLevelIsCapped, EndOf
<1>6. QED
  BY <1>1, <1>2, <1>3, <1>4, <1>5 DEF FeedHeader

LEMMA FeedWholeInv ==
    ASSUME Inv, NEW n \in Nat, NEW sound \in BOOLEAN, FeedWhole(n, sound)
    PROVE  Inv'
<1>1. CASE FeedBadBody(n, sound)
  BY <1>1, KeepInv DEF FeedBadBody, Refusal
<1>2. CASE FeedBody(n, sound)
  <2> DEFINE o == outstanding
             r == [kind |-> o.kind, offset |-> o.offset, size |-> o.size, header |-> o.header,
                   clipped |-> FALSE]
  <2>1. o \in Asked /\ o.what = "body"
    BY <1>2 DEF FeedBody, Inv, TypeOK
  <2>2. r \in Range /\ [offset |-> o.offset, size |-> o.size] \in [offset : Nat, size : Nat]
    BY <2>1 DEF Asked, Range
  <2>3. /\ o.offset = position /\ o.size > 0 /\ o.offset + o.size <= length
        /\ o.kind = "moov" => ~MovieSeen
    BY <2>1 DEF Asked, Inv, AskedHere, BodyFits, Small
  <2>4. held' \in Seq([offset : Nat, size : Nat])
    BY <1>2, <2>2 DEF FeedBody, Inv, TypeOK
  <2>5. QED
    BY <1>2, <2>1, <2>2, <2>3, <2>4, PushInv DEF FeedBody
<1>3. QED
  BY <1>1, <1>2 DEF FeedWhole

LEMMA NextInv ==
    ASSUME Inv, [Next]_vars
    PROVE  Inv'
<1>1. CASE Step
  BY <1>1, StepInv
<1>2. CASE FeedOutOfTurn
  BY <1>2, KeepInv DEF FeedOutOfTurn, Refusal
<1>3. CASE \E b \in Bytes, n \in Counts : FeedHeader(b, n)
  BY <1>3, FeedHeaderInv, SizeAssumption
<1>4. CASE \E n \in {outstanding.size, outstanding.size + 1}, sound \in BOOLEAN : FeedWhole(n, sound)
  <2>1. {outstanding.size, outstanding.size + 1} \subseteq Nat
    BY DEF Inv, TypeOK, Asked
  <2>2. QED
    BY <1>4, <2>1, FeedWholeInv
<1>5. CASE UNCHANGED vars
  <2>1. answer' \in (Success \cup Refusal) \ {"stalled"}
    BY <1>5 DEF vars, Inv, TypeOK, NeverStalls
  <2>2. QED
    BY <1>5, <2>1, KeepInv DEF vars
<1>6. QED
  BY <1>1, <1>2, <1>3, <1>4, <1>5 DEF Next

LEMMA AlwaysInv == Spec => []Inv
<1>1. Inv /\ [Next]_vars => Inv'
  BY NextInv
<1>2. QED
  BY InitInv, <1>1, PTL DEF Spec

(* The ranges tile what was read, whoever calls: the whole of guarantee G12 at the top level. *)
THEOREM Tiling == Spec => []RangesTile
<1>1. Inv => RangesTile
  BY DEF Inv
<1>2. QED
  BY <1>1, AlwaysInv, PTL

(* The refusal that stands for a defect of the reader is never given: feed always moves or asks. *)
THEOREM Progress == Spec => []NeverStalls
<1>1. Inv => NeverStalls
  BY DEF Inv
<1>2. QED
  BY <1>1, AlwaysInv, PTL

(* The types: the reader never stands past the end of the file. *)
THEOREM ReaderTyped == Spec => []TypeOK
<1>1. Inv => TypeOK
  BY DEF Inv
<1>2. QED
  BY <1>1, AlwaysInv, PTL

(* What is not a whole box is tolerated at the end of the file only, and reaches it. *)
THEOREM TailOnly == Spec => []OnlyTheTailIsClipped
<1>1. Inv => OnlyTheTailIsClipped
  BY DEF Inv
<1>2. QED
  BY <1>1, AlwaysInv, PTL

(* There is at most one whole movie box, and nothing that looks like one comes before it. *)
THEOREM OneMovie == Spec => []OneMovieBox
<1>1. Inv => OneMovieBox
  BY DEF Inv
<1>2. QED
  BY <1>1, AlwaysInv, PTL

(* The number of ranges is capped, however the calls are interleaved. *)
THEOREM TopLevelCapped == Spec => []TopLevelIsCapped
<1>1. Inv => TopLevelIsCapped
  BY DEF Inv
<1>2. QED
  BY <1>1, AlwaysInv, PTL

LEMMA ErrorKeeps ==
    ASSUME Inv, [Next]_vars, answer' \in Refusal
    PROVE  UNCHANGED <<position, topLevel, held, finished>> \/ UNCHANGED vars
<1>1. answer' # "stalled"
  BY NextInv DEF Inv, NeverStalls
<1>2. answer' \notin Success
  BY DEF Success, Refusal
<1>3. ASSUME NEW end, MoveTo(end)
      PROVE  FALSE
  BY <1>1, <1>2, <1>3 DEF MoveTo, Success
<1>4. CASE Step
  BY <1>2, <1>4 DEF Step, StepOutOfTurn, Finish, RefuseAnotherBox, AskHeader, Success
<1>5. CASE FeedOutOfTurn
  BY <1>5 DEF FeedOutOfTurn
<1>6. ASSUME NEW b \in Bytes, NEW n \in Counts, FeedHeader(b, n)
      PROVE  UNCHANGED <<position, topLevel, held, finished>>
  BY <1>3, <1>6 DEF FeedHeader, FeedTail, FeedRefused, FeedClipped, FeedSteppedOver, AskBody
<1>7. ASSUME NEW n, NEW sound \in BOOLEAN, FeedWhole(n, sound)
      PROVE  UNCHANGED <<position, topLevel, held, finished>>
  BY <1>3, <1>7 DEF FeedWhole, FeedBadBody, FeedBody
<1>8. QED
  BY <1>4, <1>5, <1>6, <1>7 DEF Next

(* An error never moves the reader, drops a range or keeps bytes, in any order of calls. *)
THEOREM ErrorsKeep == Spec => ErrorsChangeNothing
<1>1. Inv /\ [Next]_vars => Inv'
  BY NextInv
<1>2. Inv /\ [Next]_vars =>
        [answer' \in Refusal => UNCHANGED <<position, topLevel, held, finished>>]_vars
  BY ErrorKeeps
<1>3. QED
  BY InitInv, <1>1, <1>2, PTL DEF Spec, ErrorsChangeNothing

-----------------------------------------------------------------------------
(* What is held.  A feed pushes at most one range, where the reader stands, and holds it exactly when it was
   asked for as a body. *)
Pushes(r) == Push(r) /\ r.offset = position /\ r.size > 0 /\ position' = position + r.size
SameRanges == UNCHANGED <<position, topLevel, held>>

LEMMA HeaderEffect ==
    ASSUME Inv, NEW b \in Bytes, NEW n \in Nat, FeedHeader(b, n)
    PROVE  /\ outstanding.what = "header"
           /\ outstanding'.what = "body" => Whole(outstanding'.kind, outstanding'.size)
           /\ \/ SameRanges
              \/ \E r \in Range : /\ Pushes(r) /\ held' = held
                                  /\ r.clipped \/ ~Whole(r.kind, r.size)
<1> DEFINE o == outstanding.offset
<1>1. outstanding.what = "header" /\ Nothing.what = "nothing"
  BY DEF FeedHeader, FeedTail, FeedRefused, FeedClipped, FeedSteppedOver, AskBody, Accepted, Nothing
<1>2. /\ b.kind \in Kind /\ SizeOf(b, o) \in Nat /\ HeaderOf(b) \in {Small, Wide}
      /\ o = position /\ position \in Nat /\ length \in Nat /\ position < length
  BY <1>1, HeaderTyped
<1>3. CASE FeedTail(b, n)
  <2>1. PICK kind \in Kind :
          Push([kind |-> kind, offset |-> o, size |-> length - o, header |-> 0, clipped |-> TRUE])
    BY <1>3, KindAssumption DEF FeedTail
  <2> DEFINE r == [kind |-> kind, offset |-> o, size |-> length - o, header |-> 0, clipped |-> TRUE]
  <2>2. r \in Range /\ Pushes(r) /\ r.clipped
    BY <1>2, <1>3, <2>1 DEF FeedTail, Range, Pushes, MoveTo
  <2>3. held' = held /\ outstanding' = Nothing
    BY <1>3 DEF FeedTail
  <2>4. QED
    BY <1>1, <2>2, <2>3
<1>4. CASE FeedRefused(b, n)
  BY <1>1, <1>4 DEF FeedRefused, SameRanges
<1>5. CASE FeedClipped(b, n)
  <2> DEFINE r == [kind |-> b.kind, offset |-> o, size |-> length - o, header |-> HeaderOf(b),
                   clipped |-> TRUE]
  <2>1. r \in Range /\ Pushes(r) /\ r.clipped
    BY <1>2, <1>5 DEF FeedClipped, Range, Pushes, MoveTo
  <2>2. held' = held /\ outstanding' = Nothing
    BY <1>5 DEF FeedClipped
  <2>3. QED
    BY <1>1, <2>1, <2>2
<1>6. CASE FeedSteppedOver(b, n)
  <2> DEFINE r == [kind |-> b.kind, offset |-> o, size |-> SizeOf(b, o), header |-> HeaderOf(b),
                   clipped |-> FALSE]
  <2>1. SizeOf(b, o) >= Small
    BY <1>6, AcceptedSound DEF FeedSteppedOver
  <2>2. r \in Range /\ Pushes(r) /\ ~Whole(r.kind, r.size)
    BY <1>2, <1>6, <2>1 DEF FeedSteppedOver, Range, Pushes, MoveTo, Small
  <2>3. held' = held /\ outstanding' = Nothing
    BY <1>6 DEF FeedSteppedOver
  <2>4. QED
    BY <1>1, <2>2, <2>3
<1>7. CASE AskBody(b, n)
  BY <1>1, <1>7 DEF AskBody, SameRanges
<1>8. QED
  BY <1>3, <1>4, <1>5, <1>6, <1>7 DEF FeedHeader

LEMMA BodyEffect ==
    ASSUME Inv, NEW n \in Nat, NEW sound \in BOOLEAN, FeedWhole(n, sound)
    PROVE  /\ outstanding.what = "body" /\ outstanding'.what = "nothing"
           /\ \/ SameRanges /\ answer' \in Refusal
              \/ \E r \in Range : /\ Pushes(r) /\ ~r.clipped
                                  /\ r.kind = outstanding.kind /\ r.size = outstanding.size
                                  /\ held' = Append(held, [offset |-> r.offset, size |-> r.size])
<1>1. outstanding.what = "body" /\ outstanding'.what = "nothing"
  BY DEF FeedWhole, FeedBadBody, FeedBody, Nothing
<1>2. CASE FeedBadBody(n, sound)
  BY <1>1, <1>2 DEF FeedBadBody, SameRanges, Refusal
<1>3. CASE FeedBody(n, sound)
  <2> DEFINE o == outstanding
             r == [kind |-> o.kind, offset |-> o.offset, size |-> o.size, header |-> o.header,
                   clipped |-> FALSE]
  <2>1. o \in Asked /\ o.offset = position /\ o.size >= Small
    BY <1>1 DEF Inv, TypeOK, AskedHere, BodyFits
  <2>2. r \in Range /\ r.size > 0
    BY <2>1 DEF Asked, Range, Small
  <2>3. Pushes(r)
    BY <1>3, <2>1, <2>2 DEF FeedBody, Pushes, MoveTo
  <2>4. held' = Append(held, [offset |-> r.offset, size |-> r.size])
    BY <1>3 DEF FeedBody
  <2>5. QED
    BY <1>1, <2>2, <2>3, <2>4
<1>4. QED
  BY <1>2, <1>3 DEF FeedWhole

(* Ranges are never empty and lie one after the other, so that none lies in another. *)
Apart ==
    /\ \A k \in DOMAIN topLevel : topLevel[k].size > 0 /\ EndOf(topLevel[k]) <= position
    /\ \A k, m \in DOMAIN topLevel : k < m => EndOf(topLevel[k]) <= topLevel[m].offset

LEMMA PushApart ==
    ASSUME Inv, Apart, NEW r \in Range, Pushes(r)
    PROVE  /\ Apart'
           /\ DOMAIN topLevel' = DOMAIN topLevel \cup {Len(topLevel) + 1}
           /\ \A k \in DOMAIN topLevel : topLevel'[k] = topLevel[k]
           /\ topLevel'[Len(topLevel) + 1] = r
<1>1. /\ topLevel \in Seq(Range) /\ position \in Nat /\ r.size \in Nat /\ r.offset \in Nat
      /\ topLevel' = Append(topLevel, r) /\ position' = position + r.size /\ r.offset = position
      /\ EndOf(r) = position' /\ r.size > 0
  BY Numbers DEF Inv, TypeOK, Range, Pushes, Push, EndOf
<1> DEFINE n == Len(topLevel) + 1
<1>2. /\ DOMAIN topLevel = 1..Len(topLevel) /\ n \in Nat
      /\ DOMAIN topLevel' = DOMAIN topLevel \cup {n}
      /\ \A k \in DOMAIN topLevel : topLevel'[k] = topLevel[k] /\ k \in Nat /\ k < n
      /\ topLevel'[n] = r
  BY <1>1
<1>3. \A k \in DOMAIN topLevel : EndOf(topLevel[k]) \in Nat /\ EndOf(topLevel[k]) <= position
  <2> TAKE k \in DOMAIN topLevel
  <2>1. topLevel[k] \in Range
    BY <1>1
  <2>2. QED
    BY <2>1 DEF Apart, Range, EndOf
<1> HIDE DEF n
<1>4. \A k \in DOMAIN topLevel' : topLevel'[k].size > 0 /\ EndOf(topLevel'[k]) <= position'
  <2> TAKE k \in DOMAIN topLevel'
  <2>1. CASE k = n
    BY <1>1, <1>2, <2>1
  <2>2. CASE k \in DOMAIN topLevel
    <3>1. topLevel'[k] = topLevel[k] /\ topLevel[k].size > 0
      BY <1>2, <2>2 DEF Apart
    <3>2. EndOf(topLevel[k]) <= position'
      BY <1>1, <1>3, <2>2
    <3>3. QED
      BY <3>1, <3>2
  <2>3. QED
    BY <1>2, <2>1, <2>2
<1>5. ASSUME NEW k \in DOMAIN topLevel', NEW m \in DOMAIN topLevel', k < m
      PROVE  EndOf(topLevel'[k]) <= topLevel'[m].offset
  <2>1. k \in DOMAIN topLevel
    <3>1. CASE k = n
      <4>1. m \in Nat /\ m <= n
        BY <1>2
      <4>2. QED
        BY <1>2, <1>5, <3>1, <4>1
    <3>2. QED
      BY <1>2, <3>1
  <2>2. CASE m = n
    BY <1>1, <1>2, <1>3, <2>1, <2>2
  <2>3. CASE m \in DOMAIN topLevel
    BY <1>2, <1>5, <2>1, <2>3 DEF Apart
  <2>4. QED
    BY <1>2, <2>2, <2>3
<1>6. QED
  BY <1>2, <1>4, <1>5 DEF Apart, n

(* A body is asked for only of a box to be read in full; what is held is such a box, whole, and every such
   box is held. *)
AskedWhole == outstanding.what = "body" => Whole(outstanding.kind, outstanding.size)
HeldIsWhole ==
    \A i \in DOMAIN held : \E k \in DOMAIN topLevel :
        /\ ~topLevel[k].clipped /\ Whole(topLevel[k].kind, topLevel[k].size)
        /\ topLevel[k].offset = held[i].offset /\ topLevel[k].size = held[i].size
WholeIsHeld ==
    \A k \in DOMAIN topLevel : ~topLevel[k].clipped /\ Whole(topLevel[k].kind, topLevel[k].size) =>
        \E i \in DOMAIN held : topLevel[k].offset = held[i].offset /\ topLevel[k].size = held[i].size

HoldInv == Apart /\ AskedWhole /\ HeldIsWhole /\ WholeIsHeld

LEMMA HeaderHolds ==
    ASSUME Inv, HoldInv, NEW b \in Bytes, NEW n \in Nat, FeedHeader(b, n)
    PROVE  HoldInv'
<1>1. AskedWhole'
  BY HeaderEffect DEF AskedWhole, Whole
<1>2. CASE SameRanges
  BY <1>1, <1>2 DEF SameRanges, HoldInv, Apart, HeldIsWhole, WholeIsHeld
<1>3. ASSUME NEW r \in Range, Pushes(r), held' = held, r.clipped \/ ~Whole(r.kind, r.size)
      PROVE  HoldInv'
  <2>1. /\ Apart'
        /\ DOMAIN topLevel' = DOMAIN topLevel \cup {Len(topLevel) + 1}
        /\ \A k \in DOMAIN topLevel : topLevel'[k] = topLevel[k]
        /\ topLevel'[Len(topLevel) + 1] = r
    BY <1>3, PushApart DEF HoldInv
  <2>2. HeldIsWhole'
    BY <1>3, <2>1 DEF HoldInv, HeldIsWhole, Whole
  <2>3. WholeIsHeld'
    BY <1>3, <2>1 DEF HoldInv, WholeIsHeld, Whole
  <2>4. QED
    BY <1>1, <2>1, <2>2, <2>3 DEF HoldInv
<1>4. QED
  BY <1>2, <1>3, HeaderEffect

LEMMA BodyHolds ==
    ASSUME Inv, HoldInv, NEW n \in Nat, NEW sound \in BOOLEAN, FeedWhole(n, sound)
    PROVE  HoldInv'
<1>1. AskedWhole'
  BY BodyEffect DEF AskedWhole
<1>2. CASE SameRanges
  BY <1>1, <1>2 DEF SameRanges, HoldInv, Apart, HeldIsWhole, WholeIsHeld
<1>3. ASSUME NEW r \in Range, Pushes(r), ~r.clipped, r.kind = outstanding.kind,
             r.size = outstanding.size, held' = Append(held, [offset |-> r.offset, size |-> r.size])
      PROVE  HoldInv'
  <2> DEFINE h == Len(held) + 1
             k == Len(topLevel) + 1
             new == [offset |-> r.offset, size |-> r.size]
  <2>1. /\ Apart'
        /\ DOMAIN topLevel' = DOMAIN topLevel \cup {k}
        /\ \A m \in DOMAIN topLevel : topLevel'[m] = topLevel[m]
        /\ topLevel'[k] = r
    BY <1>3, PushApart DEF HoldInv
  <2>2. /\ held \in Seq([offset : Nat, size : Nat]) /\ new \in [offset : Nat, size : Nat]
    BY Numbers DEF Range
  <2>3. /\ DOMAIN held' = DOMAIN held \cup {h} /\ held'[h] = new
        /\ \A i \in DOMAIN held : held'[i] = held[i]
    BY <1>3, <2>2
  <2>4. Whole(r.kind, r.size)
    BY <1>3, BodyEffect DEF HoldInv, AskedWhole
  <2>5. new.offset = r.offset /\ new.size = r.size
    OBVIOUS
  <2> HIDE DEF h, k, new
  <2>6. HeldIsWhole'
    <3> SUFFICES ASSUME NEW i \in DOMAIN held'
                 PROVE  \E m \in DOMAIN topLevel' :
                           /\ ~topLevel'[m].clipped /\ Whole(topLevel'[m].kind, topLevel'[m].size)
                           /\ topLevel'[m].offset = held'[i].offset /\ topLevel'[m].size = held'[i].size
      BY DEF HeldIsWhole, Whole
    <3>1. CASE i = h
      BY <1>3, <2>1, <2>3, <2>4, <2>5, <3>1
    <3>2. CASE i \in DOMAIN held
      BY <2>1, <2>3, <3>2 DEF HoldInv, HeldIsWhole
    <3>3. QED
      BY <2>3, <3>1, <3>2
  <2>7. WholeIsHeld'
    <3> SUFFICES ASSUME NEW m \in DOMAIN topLevel', ~topLevel'[m].clipped,
                        Whole(topLevel'[m].kind, topLevel'[m].size)
                 PROVE  \E i \in DOMAIN held' : /\ topLevel'[m].offset = held'[i].offset
                                               /\ topLevel'[m].size = held'[i].size
      BY DEF WholeIsHeld, Whole
    <3>1. CASE m = k
      BY <2>1, <2>3, <2>5, <3>1
    <3>2. CASE m \in DOMAIN topLevel
      BY <2>1, <2>3, <3>2 DEF HoldInv, WholeIsHeld
    <3>3. QED
      BY <2>1, <3>1, <3>2
  <2>8. QED
    BY <1>1, <2>1, <2>6, <2>7 DEF HoldInv
<1>4. QED
  BY <1>2, <1>3, BodyEffect

LEMMA StepHolds == Inv /\ HoldInv /\ [Next]_vars => HoldInv'
<1> SUFFICES ASSUME Inv, HoldInv, [Next]_vars PROVE HoldInv'
  OBVIOUS
<1>1. CASE Step
  <2>1. SameRanges
    BY <1>1 DEF Step, StepOutOfTurn, Finish, RefuseAnotherBox, AskHeader, SameRanges
  <2>2. outstanding' = outstanding \/ outstanding'.what # "body"
    <3>1. CASE AskHeader
      BY <3>1 DEF AskHeader, Nothing
    <3>2. QED
      BY <1>1, <3>1 DEF Step, StepOutOfTurn, Finish, RefuseAnotherBox
  <2>3. QED
    BY <2>1, <2>2 DEF SameRanges, HoldInv, Apart, AskedWhole, HeldIsWhole, WholeIsHeld, Whole
<1>2. CASE FeedOutOfTurn \/ UNCHANGED vars
  BY <1>2 DEF FeedOutOfTurn, vars, HoldInv, Apart, AskedWhole, HeldIsWhole, WholeIsHeld, Whole
<1>3. CASE \E b \in Bytes, n \in Counts : FeedHeader(b, n)
  BY <1>3, HeaderHolds, SizeAssumption
<1>4. CASE \E n \in {outstanding.size, outstanding.size + 1}, sound \in BOOLEAN : FeedWhole(n, sound)
  <2>1. {outstanding.size, outstanding.size + 1} \subseteq Nat
    BY DEF Inv, TypeOK, Asked
  <2>2. QED
    BY <1>4, <2>1, BodyHolds
<1>5. QED
  BY <1>1, <1>2, <1>3, <1>4 DEF Next

LEMMA HeldBoxes == Inv /\ HoldInv => HoldsAreBoxes
<1> SUFFICES ASSUME Inv, HoldInv PROVE HoldsAreBoxes
  OBVIOUS
<1>1. \A i \in DOMAIN held : \E k \in DOMAIN topLevel :
         /\ ~topLevel[k].clipped
         /\ topLevel[k].offset = held[i].offset /\ topLevel[k].size = held[i].size
  BY DEF HoldInv, HeldIsWhole
<1>2. \A k \in DOMAIN topLevel : /\ topLevel[k].offset \in Nat /\ topLevel[k].size \in Nat
                                /\ topLevel[k].size > 0 /\ k \in Nat
  <2> TAKE k \in DOMAIN topLevel
  <2>1. topLevel[k] \in Range /\ k \in Nat
    BY DEF Inv, TypeOK
  <2>2. QED
    BY <2>1 DEF Range, HoldInv, Apart
<1>3. ASSUME NEW k \in DOMAIN topLevel, NEW i \in DOMAIN held, Within(topLevel[k], held[i])
      PROVE  ~topLevel[k].clipped /\ Whole(topLevel[k].kind, topLevel[k].size)
  <2>1. PICK m \in DOMAIN topLevel :
           /\ ~topLevel[m].clipped /\ Whole(topLevel[m].kind, topLevel[m].size)
           /\ topLevel[m].offset = held[i].offset /\ topLevel[m].size = held[i].size
    BY DEF HoldInv, HeldIsWhole
  <2>2. /\ topLevel[k].offset >= topLevel[m].offset
        /\ topLevel[k].offset + topLevel[k].size <= topLevel[m].offset + topLevel[m].size
    BY <1>3, <2>1 DEF Within
  <2>3. ~(k < m)
    <3> SUFFICES ASSUME k < m PROVE FALSE
      OBVIOUS
    <3>1. EndOf(topLevel[k]) <= topLevel[m].offset
      BY DEF HoldInv, Apart
    <3>2. QED
      BY <1>2, <2>2, <3>1 DEF EndOf
  <2>4. ~(m < k)
    <3> SUFFICES ASSUME m < k PROVE FALSE
      OBVIOUS
    <3>1. EndOf(topLevel[m]) <= topLevel[k].offset
      BY DEF HoldInv, Apart
    <3>2. QED
      BY <1>2, <2>2, <3>1 DEF EndOf
  <2>5. k = m
    BY <1>2, <2>3, <2>4
  <2>6. QED
    BY <2>1, <2>5
<1>4. ASSUME NEW k \in DOMAIN topLevel, ~topLevel[k].clipped, Whole(topLevel[k].kind, topLevel[k].size)
      PROVE  \E i \in DOMAIN held : Within(topLevel[k], held[i])
  <2>1. PICK i \in DOMAIN held : topLevel[k].offset = held[i].offset /\ topLevel[k].size = held[i].size
    BY <1>4 DEF HoldInv, WholeIsHeld
  <2>2. Within(topLevel[k], held[i])
    BY <1>2, <2>1 DEF Within
  <2>3. QED
    BY <2>2
<1>5. \A k \in DOMAIN topLevel :
        BytesOf(topLevel[k]) # {} <=> ~topLevel[k].clipped /\ Whole(topLevel[k].kind, topLevel[k].size)
  BY <1>3, <1>4 DEF BytesOf
<1>6. QED
  BY <1>1, <1>5 DEF HoldsAreBoxes

(* A box read in full answers with its own bytes and nothing else does: the bytes held are those of whole
   boxes, no box lies in another, and nothing of a refused body stays. *)
THEOREM HoldsExact == Spec => []HoldsAreBoxes
<1>1. Init => HoldInv
  BY DEF Init, HoldInv, Apart, AskedWhole, HeldIsWhole, WholeIsHeld, Nothing
<1>2. Inv /\ [Next]_vars => Inv'
  BY NextInv
<1>3. QED
  BY InitInv, <1>1, <1>2, StepHolds, HeldBoxes, PTL DEF Spec

-----------------------------------------------------------------------------

(* The loop follows the protocol: it steps when nothing is asked for, and reads and feeds what is. *)
Follows ==
    /\ at \in {"stepping", "reading", "feeding", "returned"}
    /\ at = "stepping" => Ready
    /\ at \in {"reading", "feeding"} =>
         /\ outstanding.what \in {"header", "body"}
         /\ request = Request(outstanding)
    /\ ProtocolKept

(* What was read began where the reader stood, and what reaches past it is a header's worth of bytes or the
   body that was asked for. *)
Read == [offset : Nat, length : Nat]
ReadsBehind ==
    /\ reads \subseteq Read
    /\ \A read \in reads : read.offset <= position
    /\ at # "returned" => \A read \in reads :
         \/ read.length <= Wide
         \/ read.offset + read.length <= position
         \/ outstanding.what = "body" /\ read = Request(outstanding)

DriverInv == Inv /\ HoldInv /\ Follows /\ ReadsBehind /\ MediaSteppedOver

(* What a driver asks for lies in the file. *)
LEMMA RequestFits ==
    ASSUME Inv, outstanding.what \in {"header", "body"}
    PROVE  /\ Request(outstanding) \in Read
           /\ Request(outstanding).offset = position
           /\ position + Request(outstanding).length <= length
           /\ outstanding.what = "header" => Request(outstanding).length <= Wide
           /\ outstanding.what = "body" => Request(outstanding).length = outstanding.size
<1>1. /\ outstanding.offset = position /\ outstanding.size \in Nat /\ position < length
      /\ position \in Nat /\ length \in Nat
  BY Numbers DEF Inv, AskedHere, Asked
<1>2. CASE outstanding.what = "header"
  <2>1. MinOf(length - position, Wide) \in Nat
    BY <1>1 DEF MinOf, Wide
  <2>2. MinOf(length - position, Wide) <= Wide /\ position + MinOf(length - position, Wide) <= length
    BY <1>1 DEF MinOf, Wide
  <2>3. Request(outstanding) = [offset |-> position, length |-> MinOf(length - position, Wide)]
    BY <1>1, <1>2 DEF Request
  <2>4. QED
    BY <1>1, <1>2, <2>1, <2>2, <2>3 DEF Read
<1>3. CASE outstanding.what = "body"
  <2>1. Request(outstanding) = [offset |-> position, length |-> outstanding.size]
    BY <1>1, <1>3 DEF Request
  <2>2. position + outstanding.size <= length
    BY <1>1, <1>3 DEF Inv, BodyFits
  <2>3. QED
    BY <1>1, <1>3, <2>1, <2>2 DEF Read
<1>4. QED
  BY <1>2, <1>3

LEMMA DriverInitInv == DriverInit => DriverInv
<1> SUFFICES ASSUME DriverInit PROVE DriverInv
  OBVIOUS
<1>1. Init /\ at = "stepping" /\ reads = {}
  BY DEF DriverInit
<1>2. Inv /\ HoldInv
  BY <1>1, InitInv DEF Init, HoldInv, Apart, AskedWhole, HeldIsWhole, WholeIsHeld, Nothing
<1>3. Follows /\ ReadsBehind /\ MediaSteppedOver
  BY <1>1 DEF Init, Follows, Ready, ProtocolKept, ReadsBehind, MediaSteppedOver, Nothing
<1>4. QED
  BY <1>2, <1>3 DEF DriverInv

(* A range pushed over what was only looked at keeps what is said of the media. *)
LEMMA PushMedia ==
    ASSUME DriverInv, at # "returned", NEW r \in Range, Pushes(r), reads' = reads,
           r.kind = "mdat" => outstanding.what = "header"
    PROVE  MediaSteppedOver'
<1>1. /\ DOMAIN topLevel' = DOMAIN topLevel \cup {Len(topLevel) + 1}
      /\ \A k \in DOMAIN topLevel : topLevel'[k] = topLevel[k]
      /\ topLevel'[Len(topLevel) + 1] = r
  BY PushApart DEF DriverInv, HoldInv
<1> SUFFICES ASSUME NEW i \in DOMAIN topLevel', topLevel'[i].kind = "mdat", NEW read \in reads
             PROVE  ~Overlaps(read, topLevel'[i].offset + Wide, EndOf(topLevel'[i]))
  BY DEF MediaSteppedOver, Media, Overlaps, EndOf
<1>2. CASE i \in DOMAIN topLevel
  <2>1. topLevel'[i] = topLevel[i] /\ i \in Media
    BY <1>1, <1>2 DEF Media
  <2>2. QED
    BY <2>1 DEF DriverInv, MediaSteppedOver
<1>3. CASE i = Len(topLevel) + 1
  <2>1. topLevel'[i] = r /\ outstanding.what = "header" /\ r.offset = position
    BY <1>1, <1>3 DEF Pushes
  <2>2. /\ read \in Read /\ read.offset <= position
        /\ read.length <= Wide \/ read.offset + read.length <= position
    BY <2>1 DEF DriverInv, ReadsBehind
  <2>3. position \in Nat
    BY Numbers DEF DriverInv
  <2>4. read.offset + read.length <= position + Wide
    BY <2>2, <2>3 DEF Read, Wide
  <2>5. QED
    BY <2>1, <2>2, <2>3, <2>4 DEF Overlaps, Read, Wide
<1>4. QED
  BY <1>1, <1>2, <1>3

LEMMA StepDriverInv == ASSUME DriverInv, DriverStep PROVE DriverInv'
<1>0. length' = length
  BY DEF DriverStep, Step, StepOutOfTurn, Finish, RefuseAnotherBox, AskHeader
<1>1. /\ at = "stepping" /\ Step /\ at' = After /\ request' = Request(outstanding)' /\ reads' = reads
      /\ Ready /\ Inv /\ HoldInv
  <2>1. Request(outstanding)' = Request(outstanding')
    BY <1>0 DEF Request, MinOf, None
  <2>2. QED
    BY <2>1 DEF DriverStep, DriverInv, Follows
<1>2. Inv' /\ HoldInv'
  BY <1>1, NextInv, StepHolds DEF Next
<1>3. /\ position' = position /\ topLevel' = topLevel /\ held' = held
      /\ Finish \/ RefuseAnotherBox \/ AskHeader
  BY <1>1 DEF Step, StepOutOfTurn, Finish, RefuseAnotherBox, AskHeader
<1>4. Follows'
  <2>1. CASE AskHeader
    <3>1. outstanding'.what = "header" /\ answer' = "read"
      BY <2>1 DEF AskHeader, Nothing
    <3>2. at' = "reading"
      BY <1>1, <3>1 DEF After, Refusal
    <3>3. QED
      BY <1>1, <3>1, <3>2 DEF Follows, ProtocolKept
  <2>2. CASE Finish \/ RefuseAnotherBox
    <3>1. answer' \in {"done", "no movie box", "too many"}
      BY <2>2 DEF Finish, RefuseAnotherBox
    <3>2. at' = "returned"
      BY <1>1, <3>1 DEF After, Refusal
    <3>3. QED
      BY <3>1, <3>2 DEF Follows, ProtocolKept
  <2>3. QED
    BY <1>3, <2>1, <2>2
<1>5. ReadsBehind'
  <2>1. \A read \in reads : read.length <= Wide \/ read.offset + read.length <= position
    BY <1>1 DEF DriverInv, ReadsBehind, Ready
  <2>2. QED
    BY <1>1, <1>3, <2>1 DEF DriverInv, ReadsBehind
<1>6. MediaSteppedOver'
  BY <1>1, <1>3 DEF DriverInv, MediaSteppedOver, Media
<1>7. QED
  BY <1>2, <1>4, <1>5, <1>6 DEF DriverInv

LEMMA SourceInv == ASSUME DriverInv, ReadSource \/ SourceFails PROVE DriverInv'
<1>1. /\ at = "reading" /\ UNCHANGED vars /\ request' = request /\ at' \in {"feeding", "returned"}
      /\ outstanding.what \in {"header", "body"} /\ request = Request(outstanding)
      /\ Inv /\ HoldInv
  BY DEF ReadSource, SourceFails, DriverInv, Follows
<1>2. Inv' /\ HoldInv'
  BY <1>1, NextInv, StepHolds
<1>3. Follows'
  BY <1>1 DEF DriverInv, Follows, vars, ProtocolKept, Ready, Request, MinOf, None
<1>4. reads' \subseteq reads \cup {request}
  BY DEF ReadSource, SourceFails
<1>5. /\ request \in Read /\ request.offset = position
      /\ request.length <= Wide \/ outstanding.what = "body"
  BY <1>1, RequestFits
<1>6. ReadsBehind'
  <2>1. reads' \subseteq Read /\ \A read \in reads' : read.offset <= position
    <3>1. position \in Nat
      BY <1>1, Numbers
    <3>2. QED
      BY <1>4, <1>5, <3>1 DEF DriverInv, ReadsBehind
  <2>2. \A read \in reads' :
          \/ read.length <= Wide
          \/ read.offset + read.length <= position
          \/ outstanding.what = "body" /\ read = Request(outstanding)
    BY <1>1, <1>4, <1>5 DEF DriverInv, ReadsBehind
  <2>3. Request(outstanding)' = Request(outstanding) /\ position' = position /\ outstanding' = outstanding
    BY <1>1 DEF vars, Request, MinOf, None
  <2>4. QED
    BY <2>1, <2>2, <2>3 DEF ReadsBehind
<1>7. MediaSteppedOver'
  <2> SUFFICES ASSUME NEW i \in Media, NEW read \in reads'
               PROVE  ~Overlaps(read, topLevel[i].offset + Wide, EndOf(topLevel[i]))
    BY <1>1 DEF MediaSteppedOver, Media, vars
  <2>1. CASE read \in reads
    BY <2>1 DEF DriverInv, MediaSteppedOver
  <2>2. CASE read = request
    <3>1. EndOf(topLevel[i]) <= position /\ topLevel[i] \in Range
      BY <1>1 DEF Media, HoldInv, Apart, Inv, TypeOK
    <3>2. QED
      BY <1>5, <2>2, <3>1, Numbers, <1>1 DEF Overlaps, Range, EndOf, Read
  <2>3. QED
    BY <1>4, <2>1, <2>2
<1>8. QED
  BY <1>2, <1>3, <1>6, <1>7 DEF DriverInv

LEMMA FeedDriverInv == ASSUME DriverInv, DriverFeed PROVE DriverInv'
<1> DEFINE n == request.length
<1>1. /\ at = "feeding" /\ at' = After /\ reads' = reads /\ Inv /\ HoldInv
      /\ outstanding.what \in {"header", "body"} /\ request = Request(outstanding)
      /\ answer # "protocol"
  BY DEF DriverFeed, DriverInv, Follows, ProtocolKept
<1>2. /\ length' = length /\ finished' = finished
      /\ \/ \E b \in Bytes : FeedHeader(b, n)
         \/ \E sound \in BOOLEAN : FeedWhole(n, sound)
  BY DEF DriverFeed, FeedHeader, FeedTail, FeedRefused, FeedClipped, FeedSteppedOver, AskBody, FeedWhole,
         FeedBadBody, FeedBody
<1>3. request' = Request(outstanding)'
  <2>1. Request(outstanding)' = Request(outstanding')
    BY <1>2 DEF Request, MinOf, None
  <2>2. QED
    BY <2>1 DEF DriverFeed
<1>4. n \in Nat /\ request.offset = position
  BY <1>1, RequestFits DEF Read
<1>5. Inv' /\ HoldInv'
  BY <1>1, <1>2, <1>4, FeedHeaderInv, FeedWholeInv, HeaderHolds, BodyHolds
<1>6. answer' # "protocol" /\ outstanding'.what \in {"nothing", "body"}
  <2>1. ASSUME NEW b \in Bytes, FeedHeader(b, n)
        PROVE  answer' # "protocol" /\ outstanding'.what \in {"nothing", "body"}
    <3>1. HeaderRefusal(b, n, outstanding.offset) # "protocol"
      BY DEF HeaderRefusal, Problem
    <3>2. QED
      BY <2>1, <3>1 DEF FeedHeader, FeedTail, FeedRefused, FeedClipped, FeedSteppedOver, AskBody, MoveTo, Nothing
  <2>2. ASSUME NEW sound \in BOOLEAN, FeedWhole(n, sound)
        PROVE  answer' # "protocol" /\ outstanding'.what \in {"nothing", "body"}
    <3>1. outstanding.what = "body" /\ outstanding'.what = "nothing"
      BY <1>1, <1>4, <2>2, BodyEffect
    <3>2. n = outstanding.size
      BY <1>1, <3>1, RequestFits
    <3>3. QED
      BY <2>2, <3>1, <3>2 DEF FeedWhole, FeedBadBody, FeedBody, MoveTo
  <2>3. QED
    BY <1>2, <2>1, <2>2
<1>7. Follows'
  <2>1. ~finished
    BY <1>1 DEF Inv, AskedHere
  <2>2. CASE answer' \in Refusal \cup {"done"}
    <3>1. at' = "returned"
      BY <1>1, <2>2 DEF After
    <3>2. QED
      BY <1>6, <3>1 DEF Follows, ProtocolKept
  <2>3. CASE answer' \notin Refusal \cup {"done"} /\ outstanding'.what = "nothing"
    <3>1. at' = "stepping"
      BY <1>1, <2>3 DEF After
    <3>2. QED
      BY <1>2, <1>6, <2>1, <2>3, <3>1 DEF Follows, ProtocolKept, Ready
  <2>4. CASE answer' \notin Refusal \cup {"done"} /\ outstanding'.what = "body"
    <3>1. at' = "reading"
      BY <1>1, <2>4 DEF After
    <3>2. QED
      BY <1>3, <1>6, <2>4, <3>1 DEF Follows, ProtocolKept
  <2>5. QED
    BY <1>6, <2>2, <2>3, <2>4
<1>8. /\ reads \subseteq Read /\ \A read \in reads : read.offset <= position
      /\ \A read \in reads : \/ read.length <= Wide
                             \/ read.offset + read.length <= position
                             \/ outstanding.what = "body" /\ read = request
  BY <1>1 DEF DriverInv, ReadsBehind
<1>9. ASSUME NEW r \in Range, Pushes(r)
      PROVE  /\ position' = position + r.size /\ position' \in Nat /\ position \in Nat /\ r.size \in Nat
             /\ position < position'
  BY <1>1, <1>9, Numbers DEF Pushes, Range
<1>10. CASE \E b \in Bytes : FeedHeader(b, n)
  <2>1. PICK b \in Bytes : FeedHeader(b, n)
    BY <1>10
  <2>2. outstanding.what = "header" /\ \A read \in reads : read.length <= Wide \/ read.offset + read.length <= position
    BY <1>1, <1>4, <1>8, <2>1, HeaderEffect
  <2>3. CASE SameRanges
    <3>1. ReadsBehind'
      BY <1>1, <1>8, <2>2, <2>3 DEF SameRanges, ReadsBehind
    <3>2. MediaSteppedOver'
      BY <1>1, <2>3 DEF SameRanges, DriverInv, MediaSteppedOver, Media
    <3>3. QED
      BY <1>5, <1>7, <3>1, <3>2 DEF DriverInv
  <2>4. ASSUME NEW r \in Range, Pushes(r) PROVE DriverInv'
    <3>1. ReadsBehind'
      <4>1. \A read \in reads : /\ read.offset <= position'
                                /\ read.length <= Wide \/ read.offset + read.length <= position'
        BY <1>8, <1>9, <2>2, <2>4 DEF Read
      <4>2. QED
        BY <1>1, <1>8, <4>1 DEF ReadsBehind
    <3>2. MediaSteppedOver'
      BY <1>1, <2>2, <2>4, PushMedia
    <3>3. QED
      BY <1>5, <1>7, <3>1, <3>2 DEF DriverInv
  <2>5. QED
    BY <1>1, <1>4, <2>1, <2>3, <2>4, HeaderEffect
<1>11. CASE \E sound \in BOOLEAN : FeedWhole(n, sound)
  <2>1. PICK sound \in BOOLEAN : FeedWhole(n, sound)
    BY <1>11
  <2>2. outstanding.what = "body" /\ n = outstanding.size
    BY <1>1, <1>4, <2>1, BodyEffect, RequestFits
  <2>3. CASE SameRanges /\ answer' \in Refusal
    <3>1. at' = "returned"
      BY <1>1, <2>3 DEF After
    <3>2. ReadsBehind' /\ MediaSteppedOver'
      BY <1>1, <1>8, <2>3, <3>1 DEF SameRanges, ReadsBehind, DriverInv, MediaSteppedOver, Media
    <3>3. QED
      BY <1>5, <1>7, <3>2 DEF DriverInv
  <2>4. ASSUME NEW r \in Range, Pushes(r), r.kind = outstanding.kind, r.size = outstanding.size
        PROVE  DriverInv'
    <3>1. ReadsBehind'
      <4>1. request.offset + request.length = position'
        BY <1>4, <1>9, <2>2, <2>4
      <4>2. \A read \in reads : /\ read.offset <= position'
                                /\ read.length <= Wide \/ read.offset + read.length <= position'
        BY <1>8, <1>9, <2>4, <4>1 DEF Read
      <4>3. QED
        BY <1>1, <1>8, <4>2 DEF ReadsBehind
    <3>2. r.kind # "mdat"
      BY <2>2, <2>4, MediaAssumption, KindAssumption DEF DriverInv, HoldInv, AskedWhole, Whole
    <3>3. MediaSteppedOver'
      BY <1>1, <2>4, <3>2, PushMedia
    <3>4. QED
      BY <1>5, <1>7, <3>1, <3>3 DEF DriverInv
  <2>5. QED
    BY <1>1, <1>4, <2>1, <2>3, <2>4, BodyEffect
<1>12. QED
  BY <1>2, <1>10, <1>11

LEMMA DriverNextInv == DriverInv /\ [DriverNext]_driverVars => DriverInv'
<1> SUFFICES ASSUME DriverInv, [DriverNext]_driverVars PROVE DriverInv'
  OBVIOUS
<1>1. CASE UNCHANGED driverVars
  <2>1. Inv' /\ HoldInv'
    BY <1>1, NextInv, StepHolds DEF DriverInv, driverVars
  <2>2. Follows' /\ ReadsBehind' /\ MediaSteppedOver'
    BY <1>1 DEF driverVars, vars, DriverInv, Follows, ReadsBehind, MediaSteppedOver, Media, ProtocolKept,
                Ready, Request, MinOf, None
  <2>3. QED
    BY <2>1, <2>2 DEF DriverInv
<1>2. QED
  BY <1>1, StepDriverInv, SourceInv, FeedDriverInv DEF DriverNext

LEMMA DriverAlways == DriverSpec => []DriverInv
BY DriverInitInv, DriverNextInv, PTL DEF DriverSpec

(* Of a media data box nothing past its first 16 bytes is read, whatever lies before it and after it: "reading
   a header never touches the media payload", as far as the code keeps it. *)
THEOREM MediaIsSteppedOver == DriverSpec => []MediaSteppedOver
<1>1. DriverInv => MediaSteppedOver
  BY DEF DriverInv
<1>2. QED
  BY <1>1, DriverAlways, PTL

(* A driver keeps the protocol of the reader: it is never told that it called out of turn, or handed over
   bytes that were not asked for. *)
THEOREM DriverKeepsProtocol == DriverSpec => []ProtocolKept
<1>1. DriverInv => ProtocolKept
  BY DEF DriverInv, Follows
<1>2. QED
  BY <1>1, DriverAlways, PTL

(* A driver never asks its source for bytes outside the file. *)
THEOREM DriverAsksInBounds == DriverSpec => []RequestsAreInBounds
<1>1. DriverInv => RequestsAreInBounds
  BY RequestFits DEF DriverInv, Follows, RequestsAreInBounds, InBounds
<1>2. QED
  BY <1>1, DriverAlways, PTL
=============================================================================
