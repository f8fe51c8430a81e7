------------------------------- MODULE Reader -------------------------------
(***************************************************************************)
(* The box reader without I/O: the type Parser of                          *)
(* core/crates/adiungere-isobmff/src/parse.rs and its public operations    *)
(* `step` and `feed`.  Anybody may call them in any order: the two drivers *)
(* of the crate follow the protocol (module ReaderDriver), "a driver       *)
(* written outside this crate" may not.                                    *)
(*                                                                         *)
(* A file is read lazily: the bytes of a header are any bytes, chosen when *)
(* they are fed, so every file of the given lengths is covered, files that *)
(* change while they are read included.  Offsets are the code's 64-bit     *)
(* integers; its one addition that could overflow is a checked one, whose  *)
(* failure is the same refusal as an end past the file.                    *)
(***************************************************************************)
EXTENDS Integers, Sequences

CONSTANTS
    Kind,         \* box types
    SteppedOver,  \* those never read: media data, padding, fragments
    Opening,      \* those a file may begin with
    Blank,        \* those that contain a zero byte
    Lengths,      \* lengths of files
    Bytes,        \* what the first 16 bytes of a header may hold
    Counts,       \* how many bytes a driver may hand over for a header
    MovieCap, FileTypeCap, HoldCap,  \* the most a box read in full may declare
    MaxTopLevel   \* the most boxes at the top level

Small == 8    \* a header with a 32-bit size
Wide == 16    \* a header with a 64-bit size

ASSUME KindAssumption ==
    /\ {"moov", "ftyp"} \subseteq Kind \ (SteppedOver \cup Blank)
    /\ SteppedOver \cup Opening \cup Blank \subseteq Kind
    /\ Blank # {}
ASSUME SizeAssumption ==
    /\ Lengths \subseteq Nat
    /\ Counts \subseteq 0..Wide
    /\ Bytes \subseteq [size32 : Nat, kind : Kind, large : Nat]
    /\ {MovieCap, FileTypeCap, HoldCap, MaxTopLevel} \subseteq Nat

VARIABLES
    length,       \* the length of the file
    position,     \* everything before it has been read or stepped over
    topLevel,     \* the ranges found; once finished, those of the container
    held,         \* where the bytes kept in memory come from
    outstanding,  \* the bytes asked for
    finished,
    answer        \* what the last call returned

vars == <<length, position, topLevel, held, outstanding, finished, answer>>

Range == [kind : Kind, offset : Nat, size : Nat, header : {0, Small, Wide}, clipped : BOOLEAN]
Asked == [what : {"nothing", "header", "body"}, kind : Kind, offset : Nat, size : Nat,
          header : {0, Small, Wide}]
Success == {"new", "read", "fed", "done"}
Refusal == {"protocol", "too many", "no movie box", "not isobmff", "truncated", "undersized", "overrun",
            "two movie boxes", "oversized", "unsound", "stalled"}

TypeOK ==
    /\ length \in Lengths
    /\ position \in 0..length
    /\ topLevel \in Seq(Range)
    /\ held \in Seq([offset : Nat, size : Nat])
    /\ outstanding \in Asked
    /\ finished \in BOOLEAN
    /\ answer \in Success \cup Refusal

Nothing == [what |-> "nothing", kind |-> "moov", offset |-> 0, size |-> 0, header |-> 0]

Init ==
    /\ length \in Lengths
    /\ position = 0
    /\ topLevel = <<>>
    /\ held = <<>>
    /\ outstanding = Nothing
    /\ finished = FALSE
    /\ answer = "new"

MovieSeen == \E i \in DOMAIN topLevel : topLevel[i].kind = "moov"

-----------------------------------------------------------------------------
(* Parser::step. *)

Ready == outstanding.what = "nothing" /\ ~finished

StepOutOfTurn ==
    /\ ~Ready
    /\ answer' = "protocol"
    /\ UNCHANGED <<length, position, topLevel, held, outstanding, finished>>

Finish ==
    /\ Ready
    /\ position >= length
    /\ IF MovieSeen
       THEN finished' = TRUE /\ answer' = "done"
       ELSE UNCHANGED finished /\ answer' = "no movie box"
    /\ UNCHANGED <<length, position, topLevel, held, outstanding>>

HasRoomLate == Len(topLevel) <= MaxTopLevel
HasRoom == Len(topLevel) < MaxTopLevel

RefuseAnotherBox ==
    /\ Ready
    /\ position < length
    /\ ~HasRoom
    /\ answer' = "too many"
    /\ UNCHANGED <<length, position, topLevel, held, outstanding, finished>>

AskHeader ==
    /\ Ready
    /\ position < length
    /\ HasRoom
    /\ outstanding' = [Nothing EXCEPT !.what = "header", !.offset = position]
    /\ answer' = "read"
    /\ UNCHANGED <<length, position, topLevel, held, finished>>

Step == StepOutOfTurn \/ Finish \/ RefuseAnotherBox \/ AskHeader

-----------------------------------------------------------------------------
(* The bytes of a header. *)

HeaderOf(b) == IF b.size32 = 1 THEN Wide ELSE Small
SizeOf(b, offset) ==
    IF b.size32 = 0 THEN length - offset ELSE IF b.size32 = 1 THEN b.large ELSE b.size32

ProblemButNotSize(b, n, offset) == IF b.size32 = 1 /\ n < Wide THEN "truncated" ELSE "none"

(* read_header: the error it returns, if any. *)
Problem(b, n, offset) ==
    IF b.size32 = 1 /\ n < Wide THEN "truncated"
    ELSE IF SizeOf(b, offset) < HeaderOf(b) THEN "undersized" ELSE "none"

LooksLikeABoxStart(b) == b.kind \in Opening /\ (b.size32 \in {0, 1} \/ b.size32 >= Small)

OverrunsAlone(b, offset) == SizeOf(b, offset) > length
Overruns(b, offset) == offset + SizeOf(b, offset) > length

WholeBySize(kind, size) == kind \in {"moov", "ftyp"} \/ size <= HoldCap

(* Which boxes are read in full, and the most they may declare. *)
Whole(kind, size) == kind \in {"moov", "ftyp"} \/ (kind \notin SteppedOver /\ size <= HoldCap)
Cap(kind) == IF kind = "moov" THEN MovieCap ELSE IF kind = "ftyp" THEN FileTypeCap ELSE HoldCap

(* After the movie box, what does not read as a box is the unused end of the file. *)
IsTail(b, n, offset) ==
    n < Small \/ (MovieSeen /\ (Problem(b, n, offset) # "none" \/ b.kind \in Blank))

NeverTwice(b) == FALSE
NamesTwice(b) == b.kind = "moov" /\ MovieSeen

(* on_header: the refusal of the header, if any, in the order of the code. *)
HeaderRefusal(b, n, offset) ==
    LET size == SizeOf(b, offset) IN
    IF offset = 0 /\ ~LooksLikeABoxStart(b) THEN "not isobmff"
    ELSE IF Problem(b, n, offset) # "none" THEN Problem(b, n, offset)
    ELSE IF Overruns(b, offset) THEN (IF MovieSeen THEN "none" ELSE "overrun")
    ELSE IF NamesTwice(b) THEN "two movie boxes"
    ELSE IF Whole(b.kind, size) /\ size > Cap(b.kind) THEN "oversized"
    ELSE "none"

-----------------------------------------------------------------------------
(* Parser::feed. *)

FeedOutOfTurn ==
    /\ outstanding.what = "nothing"
    /\ answer' = "protocol"
    /\ UNCHANGED <<length, position, topLevel, held, outstanding, finished>>

Push(range) == topLevel' = Append(topLevel, range)

(* A fed range moves the reader forward, or the reader would ask for it for ever. *)
MoveTo(end) ==
    /\ position' = end
    /\ answer' = IF end <= position THEN "stalled" ELSE "fed"

SkipTail(b, n) ==
    LET o == outstanding.offset IN
    /\ outstanding.what = "header"
    /\ IsTail(b, n, o)
    /\ \E kind \in IF n < 4 THEN Blank ELSE Kind :
         Push([kind |-> kind, offset |-> o, size |-> n, header |-> 0, clipped |-> TRUE])
    /\ MoveTo(o + n)
    /\ outstanding' = Nothing
    /\ UNCHANGED <<length, held, finished>>

(* push_tail: the first four bytes, padded with zeros, stand for its type. *)
FeedTail(b, n) ==
    LET o == outstanding.offset IN
    /\ outstanding.what = "header"
    /\ IsTail(b, n, o)
    /\ \E kind \in IF n < 4 THEN Blank ELSE Kind :
         Push([kind |-> kind, offset |-> o, size |-> length - o, header |-> 0, clipped |-> TRUE])
    /\ MoveTo(length)
    /\ outstanding' = Nothing
    /\ UNCHANGED <<length, held, finished>>

RefuseAndSkip(b, n) ==
    LET refusal == HeaderRefusal(b, n, outstanding.offset) IN
    /\ outstanding.what = "header"
    /\ ~IsTail(b, n, outstanding.offset)
    /\ refusal # "none"
    /\ answer' = refusal
    /\ position' = position + Small
    /\ outstanding' = Nothing
    /\ UNCHANGED <<length, topLevel, held, finished>>

FeedRefused(b, n) ==
    LET refusal == HeaderRefusal(b, n, outstanding.offset) IN
    /\ outstanding.what = "header"
    /\ ~IsTail(b, n, outstanding.offset)
    /\ refusal # "none"
    /\ answer' = refusal
    /\ outstanding' = Nothing
    /\ UNCHANGED <<length, position, topLevel, held, finished>>

Accepted(b, n) ==
    /\ outstanding.what = "header"
    /\ ~IsTail(b, n, outstanding.offset)
    /\ HeaderRefusal(b, n, outstanding.offset) = "none"

KeepDeclared(b, n) ==
    LET o == outstanding.offset IN
    /\ Accepted(b, n)
    /\ Overruns(b, o)
    /\ Push([kind |-> b.kind, offset |-> o, size |-> SizeOf(b, o), header |-> HeaderOf(b),
             clipped |-> TRUE])
    /\ MoveTo(length)
    /\ outstanding' = Nothing
    /\ UNCHANGED <<length, held, finished>>

(* A box that declares more than the file holds, after the movie box. *)
FeedClipped(b, n) ==
    LET o == outstanding.offset IN
    /\ Accepted(b, n)
    /\ Overruns(b, o)
    /\ Push([kind |-> b.kind, offset |-> o, size |-> length - o, header |-> HeaderOf(b),
             clipped |-> TRUE])
    /\ MoveTo(length)
    /\ outstanding' = Nothing
    /\ UNCHANGED <<length, held, finished>>

FeedSteppedOver(b, n) ==
    LET o == outstanding.offset
        size == SizeOf(b, o)
    IN
    /\ Accepted(b, n)
    /\ ~Overruns(b, o)
    /\ ~Whole(b.kind, size)
    /\ Push([kind |-> b.kind, offset |-> o, size |-> size, header |-> HeaderOf(b), clipped |-> FALSE])
    /\ MoveTo(o + size)
    /\ outstanding' = Nothing
    /\ UNCHANGED <<length, held, finished>>

(* The header of a box to be read in full: body_request gives its range. *)
AskBody(b, n) ==
    LET o == outstanding.offset
        size == SizeOf(b, o)
    IN
    /\ Accepted(b, n)
    /\ ~Overruns(b, o)
    /\ Whole(b.kind, size)
    /\ outstanding' = [what |-> "body", kind |-> b.kind, offset |-> o, size |-> size,
                       header |-> HeaderOf(b)]
    /\ answer' = "fed"
    /\ UNCHANGED <<length, position, topLevel, held, finished>>

HoldBadBody(n, sound) ==
    LET o == outstanding IN
    /\ o.what = "body"
    /\ \/ n # o.size /\ answer' = "protocol" /\ UNCHANGED held
       \/ /\ n = o.size /\ o.kind = "moov" /\ ~sound /\ answer' = "unsound"
          /\ held' = Append(held, [offset |-> o.offset, size |-> n])
    /\ outstanding' = Nothing
    /\ UNCHANGED <<length, position, topLevel, finished>>

(* on_body, with a body of another size or a movie box whose children do not read. *)
FeedBadBody(n, sound) ==
    /\ outstanding.what = "body"
    /\ \/ n # outstanding.size /\ answer' = "protocol"
       \/ n = outstanding.size /\ outstanding.kind = "moov" /\ ~sound /\ answer' = "unsound"
    /\ outstanding' = Nothing
    /\ UNCHANGED <<length, position, topLevel, held, finished>>

FeedBody(n, sound) ==
    LET o == outstanding IN
    /\ o.what = "body"
    /\ n = o.size
    /\ o.kind = "moov" => sound
    /\ held' = Append(held, [offset |-> o.offset, size |-> o.size])
    /\ Push([kind |-> o.kind, offset |-> o.offset, size |-> o.size, header |-> o.header,
             clipped |-> FALSE])
    /\ MoveTo(o.offset + o.size)
    /\ outstanding' = Nothing
    /\ UNCHANGED <<length, finished>>

FeedHeader(b, n) ==
    FeedTail(b, n) \/ FeedRefused(b, n) \/ FeedClipped(b, n) \/ FeedSteppedOver(b, n) \/ AskBody(b, n)
FeedWhole(n, sound) == FeedBadBody(n, sound) \/ FeedBody(n, sound)

(* Any caller: a header is answered with as many bytes as the caller likes, a body too. *)
Next ==
    \/ Step
    \/ FeedOutOfTurn
    \/ \E b \in Bytes, n \in Counts : FeedHeader(b, n)
    \/ \E n \in {outstanding.size, outstanding.size + 1}, sound \in BOOLEAN : FeedWhole(n, sound)

Spec == Init /\ [][Next]_vars

-----------------------------------------------------------------------------
(* Container::bytes_of: the first hold the range lies in. *)
Within(range, h) == range.offset >= h.offset /\ range.offset + range.size <= h.offset + h.size
BytesOf(range) == {i \in DOMAIN held : Within(range, held[i])}

(* The ranges found so far tile the part of the file that was read, in order, with no gap and no overlap;
   a finished reader's tile the file (guarantee G12, Container::ranges_tile_the_file). *)
EndOf(range) == range.offset + range.size
RangesTile ==
    /\ \A i \in DOMAIN topLevel :
         topLevel[i].offset = IF i = 1 THEN 0 ELSE EndOf(topLevel[i - 1])
    /\ position = IF topLevel = <<>> THEN 0 ELSE EndOf(topLevel[Len(topLevel)])
    /\ finished => position = length

(* What is not a whole box is tolerated at the end of the file only, and it reaches it. *)
OnlyTheTailIsClipped ==
    \A i \in DOMAIN topLevel : topLevel[i].clipped =>
        i = Len(topLevel) /\ EndOf(topLevel[i]) = length

(* There is at most one whole movie box ("The parser guarantees exactly one movie box"), and it comes
   before anything that only looks like one. *)
OneMovieBox ==
    \A i, k \in DOMAIN topLevel :
        topLevel[i].kind = "moov" /\ topLevel[k].kind = "moov" /\ ~topLevel[k].clipped => k <= i

(* A box read in full answers bytes_of with its own bytes, and nothing else does: no hold reaches into a
   box that was stepped over, and nothing was held of a body that was refused. *)
HoldsAreBoxes ==
    /\ \A i \in DOMAIN held : \E k \in DOMAIN topLevel :
         /\ ~topLevel[k].clipped
         /\ topLevel[k].offset = held[i].offset /\ topLevel[k].size = held[i].size
    /\ \A k \in DOMAIN topLevel :
         LET range == topLevel[k] IN
         BytesOf(range) # {} <=> ~range.clipped /\ Whole(range.kind, range.size)

(* "No input reaches this state, because read_header refuses every size smaller than the header it found":
   the reader never refuses because it stands still. *)
NeverStalls == answer # "stalled"

(* The number of ranges is capped, however the calls are interleaved. *)
TopLevelIsCapped == Len(topLevel) <= MaxTopLevel

(* A reader that finished has read a movie box: "The parser refuses to finish without one, so this cannot
   fail" (Container::moov). *)
FinishedWithAMovie ==
    finished => \E i \in DOMAIN topLevel : topLevel[i].kind = "moov" /\ ~topLevel[i].clipped

(* A call that returns an error leaves the reader where it stood: it may be asked and fed again. *)
ErrorsChangeNothing ==
    [][answer' \in Refusal => UNCHANGED <<position, topLevel, held, finished>>]_vars
=============================================================================
