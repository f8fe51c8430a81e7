------------------------------ MODULE MCRemux ------------------------------
(***************************************************************************)
(* Recordings to remux, a few tracks of at most four samples.  Sizes are   *)
(* such that the movie box of a join ends some way before the scaled       *)
(* 32-bit limit, and the file type boxes bring the media to it and past it.*)
(***************************************************************************)
EXTENDS Fixture

Table(entries) == [count |-> Len(entries), entries |-> entries]
Cut(entries) == [count |-> Len(entries) + 1, entries |-> entries]
SizeEach(entries) == [size |-> 0, count |-> Len(entries), entries |-> entries]
SizeAll(size, n) == [size |-> size, count |-> n, entries |-> <<>>]

Headers(version, id, timescale) ==
    [kind \in {"tkhd", "mdhd", "hdlr", "stsd"} |->
        CASE kind = "tkhd" -> HeaderWords(Tkhd(version), version, "track" :> id)
          [] kind = "mdhd" -> HeaderWords(Mdhd(version), version, "timescale" :> timescale)
          [] kind = "hdlr" -> HeaderWords(Hdlr(0), 0, "handler" :> 1)
          [] kind = "stsd" -> HeaderWords(Stsd(0), 0, "entry count" :> 1)]

Trak(version, id, timescale, tref, stbl) ==
    [kind |-> "trak", tkhdHeader |-> 8, headers |-> Headers(version, id, timescale), tref |-> tref,
     stbl |-> stbl, other |-> 40]
MovieHeader(version) ==
    [kind |-> "mvhd", header |-> 8, words |-> HeaderWords(Mvhd(version), version, "next track" :> 4)]
UserData == [kind |-> "udta", boxes |-> <<[kind |-> "vend", size |-> 12], [kind |-> "name", size |-> 9]>>]
Other == [kind |-> "iods", size |-> 24]
Unknown(size) == [kind |-> "uuid", size |-> size, toTheEnd |-> FALSE]

Plainly(stts, stsc, stsz, stco) ==
    [kind \in {"stts", "stsc", "stsz", "stco"} |->
        CASE kind = "stts" -> stts [] kind = "stsc" -> stsc [] kind = "stsz" -> stsz [] kind = "stco" -> stco]
With(stbl, kind, table) == [k \in DOMAIN stbl \cup {kind} |-> IF k = kind THEN table ELSE stbl[k]]
Without(stbl, kind) == [k \in DOMAIN stbl \ {kind} |-> stbl[k]]

-----------------------------------------------------------------------------
(* One track, tables that agree and tables that do not. *)

Stts == {Table(<<>>), Table(<<<<2, 10>>>>), Table(<<<<1, 10>>, <<2, 20>>>>), Table(<<<<3, 5>>>>), Cut(<<<<3, 5>>>>)}
Stsc ==
    {Table(<<>>), Table(<<<<1, 1, 1>>>>), Table(<<<<1, 2, 1>>>>), Table(<<<<1, 3, 1>>>>),
     Table(<<<<1, 2, 1>>, <<2, 1, 1>>>>), Table(<<<<2, 1, 1>>>>), Table(<<<<1, 1, 1>>, <<1, 1, 1>>>>),
     Table(<<<<1, 0, 1>>, <<2, 3, 1>>>>), Table(<<<<1, 1, 1>>, <<3, 1, 1>>>>), Cut(<<<<1, 1, 1>>>>)}
Stsz == {SizeAll(4, 3), SizeAll(4, 2), SizeEach(<<5, 0, 7>>), SizeEach(<<>>), [size |-> 0, count |-> 3, entries |-> <<5>>]}
Stco == {Table(<<>>), Table(<<100>>), Table(<<100, 50>>), Table(<<300, 100, 200>>), Table(<<100, 4998>>), Cut(<<100>>)}

Agreed == Plainly(Table(<<<<1, 10>>, <<2, 20>>>>), Table(<<<<1, 2, 1>>, <<2, 1, 1>>>>), SizeEach(<<5, 0, 7>>),
                  Table(<<100, 50>>))
Ctts(version, entries) == [version |-> version, count |-> Len(entries), entries |-> entries]
SomeTables ==
    {Plainly(a, b, c, d) : a \in Stts, b \in Stsc, c \in Stsz, d \in Stco}
    \cup {With(Agreed, "stss", Table(n)) : n \in {<<>>, <<1, 3>>, <<3, 1>>, <<1, 4>>, <<2, 2>>}}
    \cup {With(Agreed, "ctts", Ctts(v, e)) : v \in {0, 1, 2}, e \in {<<<<3, 2>>>>, <<<<1, 0>>, <<1, 5>>>>}}
    \cup {With(Agreed, "co64", Table(<<200, 150>>)), With(Without(Agreed, "stco"), "co64", Table(<<200, 150>>))}
    \cup {With(Without(Agreed, "stsz"), "stz2", [field |-> f, count |-> 3, entries |-> <<5, 0, 7>>]) : f \in {5, 8}}
    \cup {Without(Agreed, kind) : kind \in DOMAIN Agreed}

Single(stbl) ==
    [inputs |-> <<[ftyp |-> 24, moov |-> <<MovieHeader(0), Trak(0, 3, 10, <<>>, stbl)>>, unknown |-> <<>>,
                   tracks |-> <<1>>]>>,
     keepUdta |-> TRUE, keepUnknown |-> TRUE]

-----------------------------------------------------------------------------
(* Recordings of two tracks, kept in part, in another order, or joined. *)

(* The text track describes the picture track, and a track that is not there. *)
Text(id, picture) == <<[kind |-> "cdsc", targets |-> <<picture, 9>>], [kind |-> "hint", targets |-> <<id>>]>>
Picture(size, n) ==
    Plainly(Table(<<<<n, 10>>>>), Table(<<<<1, 1, 1>>>>), SizeAll(size, n), Table([i \in 1..n |-> 100 + 100 * i]))

FrontRecording(size, version, ftyp) ==
    [ftyp |-> ftyp,
     moov |-> <<MovieHeader(version), Trak(version, 2, 30, <<>>, Picture(size, 3)), UserData,
                Trak(0, 3, 10, Text(3, 2), Agreed), Other>>,
     unknown |-> <<Unknown(16), Unknown(30)>>]
RearRecording(timescale) ==
    [ftyp |-> 0,
     moov |-> <<MovieHeader(0), Trak(1, 3, timescale, <<>>, Picture(20, 2)),
                Trak(0, 2, 10, Text(2, 3), Agreed)>>,
     unknown |-> <<>>]
Asked(recording, tracks) ==
    [ftyp |-> recording.ftyp, moov |-> recording.moov, unknown |-> recording.unknown, tracks |-> tracks]

Alone ==
    {[inputs |-> <<Asked(FrontRecording(20, v, 24), tracks)>>, keepUdta |-> u, keepUnknown |-> n] :
       v \in {0, 1}, u \in BOOLEAN, n \in BOOLEAN,
       tracks \in {<<>>, <<1>>, <<2>>, <<1, 2>>, <<2, 1>>, <<1, 1>>, <<3>>}}
Joins ==
    {[inputs |-> <<Asked(FrontRecording(size, v, ftyp), a), Asked(RearRecording(t), b)>>, keepUdta |-> TRUE, keepUnknown |-> TRUE] :
       size \in {20, 40}, v \in {0, 1}, ftyp \in {0} \cup {2001 + 12 * k : k \in 10..18}, t \in {0, 15},
       a \in {<<1>>, <<2, 1>>}, b \in {<<>>, <<1>>, <<1, 2>>, <<2, 1>>}}
WideHeader ==
    LET wide == [FrontRecording(20, 0, 24) EXCEPT !.moov[2].tkhdHeader = 16] IN
    {[inputs |-> <<Asked(wide, <<1>>), Asked(RearRecording(15), <<1>>)>>, keepUdta |-> TRUE, keepUnknown |-> TRUE]}

(* The file type box brings the end of an output with narrow offsets one byte before the limit, to it and
   past it; and media that just fits a 32-bit size, and that does not. *)
Filled(size, ftyp) ==
    [inputs |-> <<Asked(FrontRecording(size, 0, ftyp), <<1, 2>>)>>, keepUdta |-> TRUE, keepUnknown |-> TRUE]
EndOf(r) == LayOut(r, Select(r), Interleaved(Select(r))).total
AtTheLimit ==
    {Filled(20, NarrowLimit - EndOf(Filled(20, 0)) + k) : k \in {-1, 0, 1}}
    \cup {Filled(size, 24) : size \in {960, 961, 962}}

-----------------------------------------------------------------------------
(* The corpus of the tests, whole, in part and joined. *)

Frames ==
    [front |-> [units |-> <<<<9, 20>>, <<7>>, <<11>>>>, sync |-> {1}, sps |-> <<4>>, pps |-> <<3>>],
     rear |-> [units |-> <<<<12>>, <<5, 6>>, <<8>>>>, sync |-> {1, 3}, sps |-> <<4>>, pps |-> <<3, 3>>],
     audio |-> [frames |-> <<6, 0, 7, 5>>, rate |-> 48000]]

(* The streams fit the prefixes of the corpus; a prefix of three bytes is refused. *)
ASSUME CorpusBuilds ==
    /\ \A spec \in Corpus : ~CannotBuild(spec)
    /\ CannotBuild([ReferenceLike EXCEPT !.lengthSize = 3])

(* What the builder expects is in the file: the tables lead to the samples planned, in the media segment
   and nowhere else. *)
ASSUME CorpusIsExact ==
    \A spec \in Corpus :
        LET fixture == Build(spec)
            traks == Traks(fixture.recording.moov)
            media == CHOOSE k \in DOMAIN fixture.segments : fixture.segments[k].offset = fixture.mdatOffset
        IN
        /\ Len(traks) = Len(fixture.expected)
        /\ \A n \in DOMAIN traks :
             LET samples == Samples(Decoded(traks[n].stbl))
                 expected == fixture.expected[n]
             IN
             /\ TrackError(traks[n]) = "none"
             /\ [i \in DOMAIN samples |-> samples[i].size] = expected.samples
             /\ {i \in DOMAIN samples : samples[i].sync} = expected.sync
             /\ \A i \in DOMAIN samples :
                  LET offset == samples[i].offset IN
                  /\ InLength(fixture, offset, samples[i].size)
                  /\ samples[i].size > 0 =>
                       CopiesOf(fixture, offset, samples[i].size)
                         = {[segment |-> media, from |-> offset, to |-> offset + samples[i].size]}

AskedOf(spec, tracks) == Asked(Build(spec).recording, tracks)
OfTheCorpus ==
    {[inputs |-> <<AskedOf(spec, tracks)>>, keepUdta |-> keep, keepUnknown |-> keep] :
       spec \in Corpus, tracks \in {<<1>>, <<2>>, <<1, 2>>, <<2, 3>>, <<1, 2, 3>>}, keep \in BOOLEAN}
    \cup {[inputs |-> <<AskedOf(a, <<1>>), AskedOf(b, <<2, 1>>)>>, keepUdta |-> TRUE, keepUnknown |-> TRUE] :
            a \in Corpus, b \in Corpus}

Requests ==
    {Single(stbl) : stbl \in SomeTables} \cup Alone \cup Joins \cup WideHeader \cup AtTheLimit \cup OfTheCorpus

(* An unknown last box whose size field is zero. *)
ToTheEnd ==
    {[inputs |-> <<[Asked(FrontRecording(20, 0, 24), <<1, 2>>) EXCEPT
                      !.unknown = <<[Unknown(16) EXCEPT !.toTheEnd = TRUE]>>]>>,
      keepUdta |-> TRUE, keepUnknown |-> keep] : keep \in BOOLEAN}
=============================================================================
