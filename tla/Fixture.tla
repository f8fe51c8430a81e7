------------------------------ MODULE Fixture ------------------------------
(***************************************************************************)
(* The synthetic recordings the tests run on: build of                     *)
(* core/crates/adiungere-fixtures/src/lib.rs.  A recording is laid out     *)
(* from a few committed streams: the samples of the tracks are stored      *)
(* round robin, chunk by chunk, the movie box is built once to learn its   *)
(* size and again with the offsets it must store, and stands before or     *)
(* after the media.  The result is an input of module Remux, and what a    *)
(* reader should find in it.                                               *)
(***************************************************************************)
EXTENDS Remux

CONSTANTS
    Streams,          \* the committed frames, by role
    SparseGap,        \* the hole before the media of a sparse recording
    VendorBoxSize     \* the vendor box under the user data

ASSUME FixtureAssumption == SparseGap \in Nat /\ VendorBoxSize \in Nat

MovieTimescale == 60000
VideoTimescale == 30000
VideoSampleDuration == 1000
AudioSampleDuration == 1024

(* Spec::reference_like, and the corpus: each recording changes one thing. *)
ReferenceLike ==
    [movieFirst |-> TRUE, wideOffsets |-> FALSE, sparse |-> FALSE,
     lengthSize |-> 4, rear |-> TRUE, audio |-> TRUE,
     vendor |-> TRUE, topLevel |-> TRUE, encoderTag |-> FALSE,
     editList |-> FALSE, entryChild |-> FALSE, references |-> FALSE,
     video |-> 2, frames |-> 3]
Rewritten ==
    [ReferenceLike EXCEPT !.movieFirst = FALSE, !.rear = FALSE, !.vendor = FALSE, !.topLevel = FALSE,
                          !.encoderTag = TRUE]
Corpus ==
    {ReferenceLike, Rewritten,
     [ReferenceLike EXCEPT !.movieFirst = FALSE],
     [ReferenceLike EXCEPT !.lengthSize = 1],
     [ReferenceLike EXCEPT !.lengthSize = 2],
     [ReferenceLike EXCEPT !.editList = TRUE],
     [ReferenceLike EXCEPT !.entryChild = TRUE],
     [ReferenceLike EXCEPT !.wideOffsets = TRUE],
     [ReferenceLike EXCEPT !.sparse = TRUE],
     [ReferenceLike EXCEPT !.video = 1, !.frames = 1],
     [ReferenceLike EXCEPT !.references = TRUE]}

WideOffsets(spec) == spec.wideOffsets \/ spec.sparse

-----------------------------------------------------------------------------
(* plans_for: the tracks to be written.  A video sample is its units, each behind a prefix that must hold
   its length; an audio frame is stored as it is. *)

PrefixLimit(width) == IF width = 4 THEN OffsetLimit ELSE 256 ^ width - 1
Prefixed(units, width) == SumOf([k \in DOMAIN units |-> units[k] + width])

SetsSize(sets) == SumOf([k \in DOMAIN sets |-> 2 + sets[k]])
AvcConfiguration(stream) == 7 + SetsSize(stream.sps) + SetsSize(stream.pps)

AtLeastOne(n) == IF n = 0 THEN 1 ELSE n
Boxed(size) == 8 + size
FullBox(size) == Boxed(4 + size)

VideoPlan(spec, role, id) ==
    LET units == Streams[role].units IN
    [role |-> role, track |-> id, timescale |-> VideoTimescale, duration |-> VideoSampleDuration,
     samples |-> [i \in DOMAIN units |-> Prefixed(units[i], spec.lengthSize)],
     sync |-> {SetToSortSeq({i \in DOMAIN units : i \in Streams[role].sync}, <)},
     perChunk |-> AtLeastOne(spec.video),
     entry |-> Boxed(78 + Boxed(AvcConfiguration(Streams[role]))
                     + IF spec.entryChild /\ role = "front" THEN Boxed(18) ELSE 0)]
AudioPlan(spec, id) ==
    [role |-> "audio", track |-> id, timescale |-> Streams["audio"].rate, duration |-> AudioSampleDuration,
     samples |-> Streams["audio"].frames,
     sync |-> {},
     perChunk |-> AtLeastOne(spec.frames),
     entry |-> Boxed(28 + FullBox(27))]

PlansFor(spec) ==
    <<VideoPlan(spec, "front", 1)>>
    \o (IF spec.rear THEN <<VideoPlan(spec, "rear", 2)>> ELSE <<>>)
    \o (IF spec.audio THEN <<AudioPlan(spec, IF spec.rear THEN 3 ELSE 2)>> ELSE <<>>)

(* BadLengthSize, UnitTooLong. *)
CannotBuild(spec) ==
    \/ spec.lengthSize \notin {1, 2, 4}
    \/ \E role \in {"front"} \cup (IF spec.rear THEN {"rear"} ELSE {}) :
         \E units \in ToSet(Streams[role].units) : \E unit \in ToSet(units) : unit > PrefixLimit(spec.lengthSize)

-----------------------------------------------------------------------------
(* interleave: in every round, the next chunk of every track that has one. *)

ChunkTotal(plan) == (Len(plan.samples) + plan.perChunk - 1) \div plan.perChunk
InChunk(plan, k) ==
    {i \in DOMAIN plan.samples : (k - 1) * plan.perChunk < i /\ i <= k * plan.perChunk}
Rounds(plans) ==
    LET longest == CHOOSE most \in {ChunkTotal(plans[n]) : n \in DOMAIN plans} :
                     \A n \in DOMAIN plans : ChunkTotal(plans[n]) <= most
        round(k) == SelectSeq([n \in DOMAIN plans |-> [track |-> n, chunk |-> k]],
                              LAMBDA c : c.chunk <= ChunkTotal(plans[c.track]))
    IN FlattenSeq([k \in 1..longest |-> round(k)])

StoredBytes(plans, c) == SumOf([i \in InChunk(plans[c.track], c.chunk) |-> plans[c.track].samples[i]])
StoredAt(plans, rounds, n, k) ==
    LET place == CHOOSE j \in DOMAIN rounds : rounds[j] = [track |-> n, chunk |-> k] IN
    SumOf([j \in 1..(place - 1) |-> StoredBytes(plans, rounds[j])])
OffsetsInPayload(plans) ==
    LET rounds == Rounds(plans) IN
    [n \in DOMAIN plans |-> [k \in 1..ChunkTotal(plans[n]) |-> StoredAt(plans, rounds, n, k)]]
PayloadSize(plans) == SumOf([n \in DOMAIN plans |-> SumOf(plans[n].samples)])

-----------------------------------------------------------------------------
(* build_moov. *)

(* A header of zeros but for its version and the fields given, each in the last word of its width. *)
HeaderWords(fields, version, values) ==
    LET wordOf(name) ==
          (Before(fields, name) + fields[CHOOSE i \in DOMAIN fields : fields[i].name = name].width) \div Word
    IN [i \in 1..((Bytes(fields) + 3) \div Word) |->
          IF i = 1 THEN version
          ELSE IF \E name \in DOMAIN values : wordOf(name) = i
               THEN values[CHOOSE name \in DOMAIN values : wordOf(name) = i] ELSE 0]

Scaled(ticks, from, to) == (ticks * to) \div from
MediaDuration(plan) == plan.duration * Len(plan.samples)
TrackDuration(plan) == Scaled(MediaDuration(plan), plan.timescale, MovieTimescale)

TrackHeaders(spec, plan) ==
    [kind \in {"tkhd", "mdhd", "hdlr", "stsd"} \cup (IF spec.editList THEN {"elst"} ELSE {}) |->
        CASE kind = "tkhd" -> HeaderWords(Tkhd(1), 1, [track |-> plan.track, duration |-> TrackDuration(plan)])
          [] kind = "mdhd" -> HeaderWords(Mdhd(1), 1, [timescale |-> plan.timescale, duration |-> MediaDuration(plan)])
          [] kind = "hdlr" -> HeaderWords(Hdlr(0), 0, [handler |-> 1])
          [] kind = "stsd" -> HeaderWords(Stsd(0), 0, "entry count" :> 1)
          [] kind = "elst" -> <<1, 1, 0, TrackDuration(plan), 0, plan.duration, 65536>>]

(* One run covers every chunk when the chunks are all full; a shorter last chunk needs its own. *)
ChunkRuns(plan) ==
    LET full == Len(plan.samples) \div plan.perChunk
        rest == Len(plan.samples) % plan.perChunk
    IN (IF full > 0 THEN <<<<1, plan.perChunk, 1>>>> ELSE <<>>)
       \o (IF rest > 0 THEN <<<<full + 1, rest, 1>>>> ELSE <<>>)

BuiltTable(entries) == [count |-> Len(entries), entries |-> entries]
SampleTables(spec, plan, offsets, base) ==
    LET table == IF WideOffsets(spec) THEN "co64" ELSE "stco" IN
    [kind \in {"stts", "stsc", "stsz", table} \cup (IF plan.sync = {} THEN {} ELSE {"stss"}) |->
        CASE kind = "stts" -> BuiltTable(<<<<Len(plan.samples), plan.duration>>>>)
          [] kind = "stss" -> BuiltTable(CHOOSE numbers \in plan.sync : TRUE)
          [] kind = "stsc" -> BuiltTable(ChunkRuns(plan))
          [] kind = "stsz" -> [size |-> 0, count |-> Len(plan.samples), entries |-> plan.samples]
          [] kind = table ->
               BuiltTable([k \in DOMAIN offsets |-> Narrowed(base + offsets[k], WideOffsets(spec))])]

(* What a track holds beside its header, its references and its chunk offsets: the edit list, the media
   header, the handler, the media information with every table but one, and the boxes around them. *)
MediaInformation(plan) ==
    Boxed((IF plan.role = "audio" THEN FullBox(4) ELSE FullBox(8))
          + Boxed(FullBox(4 + FullBox(0)))
          + Boxed(FullBox(4 + plan.entry) + FullBox(12)
                  + SumOf([numbers \in plan.sync |-> FullBox(4 + 4 * Len(numbers))])
                  + FullBox(4 + 12 * Len(ChunkRuns(plan))) + FullBox(8 + 4 * Len(plan.samples))))
MediaBox(plan) == Boxed(FullBox(32) + FullBox(33) + MediaInformation(plan))
EditBox(spec) == IF spec.editList THEN Boxed(FullBox(24)) ELSE 0

TrackReferences(spec, plan) ==
    IF ~spec.references \/ plan.role # "rear" THEN <<>>
    ELSE <<[kind |-> "vdep", targets |-> <<1>>],
           [kind |-> "cdsc", targets |-> <<IF spec.audio THEN 3 ELSE 1>>]>>

BuildTrak(spec, plan, offsets, base) ==
    [kind |-> "trak", tkhdHeader |-> 8, headers |-> TrackHeaders(spec, plan),
     tref |-> TrackReferences(spec, plan), stbl |-> SampleTables(spec, plan, offsets, base),
     other |-> EditBox(spec) + MediaBox(plan)]

UserDataBoxes(spec) ==
    (IF spec.vendor THEN <<[kind |-> "zvnd", size |-> VendorBoxSize]>> ELSE <<>>)
    \o (IF spec.encoderTag THEN <<[kind |-> "meta", size |-> FullBox(FullBox(21) + Boxed(Boxed(FullBox(16))))]>> ELSE <<>>)

BuildMoov(spec, plans, offsets, base) ==
    LET durations == {TrackDuration(plans[n]) : n \in DOMAIN plans}
        longest == CHOOSE d \in durations : \A e \in durations : e <= d
    IN <<[kind |-> "mvhd", header |-> 8,
          words |-> HeaderWords(Mvhd(1), 1, "next track" :> Len(plans) + 1 @@ "duration" :> longest
                                            @@ "timescale" :> MovieTimescale)]>>
       \o [n \in DOMAIN plans |-> BuildTrak(spec, plans[n], offsets[n], base)]
       \o (IF UserDataBoxes(spec) = <<>> THEN <<>> ELSE <<[kind |-> "udta", boxes |-> UserDataBoxes(spec)]>>)

-----------------------------------------------------------------------------
(* build.  A segment is where a part of the file is written; what no segment covers is a hole. *)

Segment(offset, size) == [offset |-> offset, size |-> size]
Gap(spec) == IF spec.sparse THEN SparseGap ELSE 0
HoleHeader(spec, offset) == IF spec.sparse THEN <<Segment(offset, 16)>> ELSE <<>>

PlaceMoovFirst(spec, ftyp, moov, top, mdat) ==
    LET hole == ftyp + moov + top
        media == hole + Gap(spec)
    IN [segments |-> <<Segment(0, hole)>> \o HoleHeader(spec, hole) \o <<Segment(media, mdat)>>,
        length |-> media + mdat, mdatOffset |-> media, moovOffset |-> ftyp]
PlaceMoovLast(spec, ftyp, moov, top, mdat) ==
    LET media == ftyp + Gap(spec) IN
    [segments |-> <<Segment(0, ftyp)>> \o HoleHeader(spec, ftyp)
                  \o <<Segment(media, mdat), Segment(media + mdat, moov + top)>>,
     length |-> media + mdat + moov + top, mdatOffset |-> media, moovOffset |-> media + mdat]

ExpectedTrack(plan) ==
    [role |-> plan.role, track |-> plan.track, samples |-> plan.samples,
     sync |-> IF plan.sync = {} THEN DOMAIN plan.samples ELSE UNION {ToSet(numbers) : numbers \in plan.sync}]

Build(spec) ==
    LET plans == PlansFor(spec)
        offsets == OffsetsInPayload(plans)
        placeholders == [n \in DOMAIN offsets |-> [k \in DOMAIN offsets[n] |-> 0]]
        ftyp == Boxed(16)
        moovSize == MovieSize(BuildMoov(spec, plans, placeholders, 0))
        top == IF spec.topLevel THEN Boxed(4) ELSE 0
        mdat == Boxed(PayloadSize(plans))
        placed == IF spec.movieFirst THEN PlaceMoovFirst(spec, ftyp, moovSize, top, mdat)
                  ELSE PlaceMoovLast(spec, ftyp, moovSize, top, mdat)
    IN [recording |-> [ftyp |-> ftyp, moov |-> BuildMoov(spec, plans, offsets, placed.mdatOffset + 8),
                       unknown |-> IF spec.topLevel
                                   THEN <<[kind |-> "zzzz", size |-> top, toTheEnd |-> FALSE]>> ELSE <<>>],
        segments |-> placed.segments, length |-> placed.length, mdatOffset |-> placed.mdatOffset,
        expected |-> [n \in DOMAIN plans |-> ExpectedTrack(plans[n])]]

(* read_range_into: what is copied of which segment; the rest of the range reads as zeros. *)
InLength(fixture, offset, size) == offset + size <= fixture.length
CopiesOf(fixture, offset, size) ==
    {c \in {[segment |-> k,
             from |-> Max({offset, fixture.segments[k].offset}),
             to |-> Min({offset + size, fixture.segments[k].offset + fixture.segments[k].size})] :
              k \in DOMAIN fixture.segments} : c.from < c.to}
=============================================================================
