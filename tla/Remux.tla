------------------------------- MODULE Remux -------------------------------
(***************************************************************************)
(* Rewriting a container around samples that do not change: remux of       *)
(* core/crates/adiungere-isobmff/src/remux.rs.                             *)
(*                                                                         *)
(* A recording is what the reader found in it: the size of its file type   *)
(* box, the children of its movie box, its unknown top-level boxes, and    *)
(* the tracks asked for.  A track has the words of its header boxes        *)
(* (module Views), its references, its sample tables (module SampleTable), *)
(* and a number of bytes for everything else, which is copied.  Media is   *)
(* not stored: a piece of the output names the input and the range it was  *)
(* read from.                                                              *)
(*                                                                         *)
(* The layout is one step, as in the code; each chunk is copied by a step  *)
(* of its own, after which the progress callback may stop the remux.       *)
(***************************************************************************)
EXTENDS SampleTable, Views, Places

CONSTANTS
    Request,      \* what may be asked: recordings and what to keep
    NarrowLimit,  \* the largest 32-bit size or offset
    CopyBuffer    \* the most read at once

ASSUME LimitAssumption == NarrowLimit \in Nat /\ NarrowLimit <= OffsetLimit /\ CopyBuffer \in Nat

(* What the reader hands over: boxes with the sizes and fields it found. *)
Sized(boxes) == IsSequence(boxes) /\ \A k \in DOMAIN boxes : boxes[k].size \in Nat
IsTrak(trak) ==
    /\ DOMAIN trak = {"kind", "tkhdHeader", "headers", "tref", "stbl", "other"}
    /\ trak.tkhdHeader \in {8, 16} /\ trak.other \in Nat
    /\ \A kind \in DOMAIN trak.headers : trak.headers[kind] \in Seq(Nat)
    /\ IsSequence(trak.tref) /\ \A k \in DOMAIN trak.tref :
         DOMAIN trak.tref[k] = {"kind", "targets"} /\ trak.tref[k].targets \in Seq(Nat)
    /\ IsStbl(trak.stbl)
IsBox(child) ==
    CASE child.kind = "trak" -> IsTrak(child)
      [] child.kind = "mvhd" ->
           /\ DOMAIN child = {"kind", "header", "words"}
           /\ child.header \in {8, 16} /\ child.words \in Seq(Nat)
      [] child.kind = "udta" -> Sized(child.boxes)
      [] OTHER -> child.size \in Nat
IsInput(input) ==
    /\ input.ftyp \in Nat /\ Sized(input.unknown) /\ input.tracks \in Seq(Nat)
    /\ IsSequence(input.moov) /\ \A k \in DOMAIN input.moov : IsBox(input.moov[k])
IsRequest(r) ==
    IsSequence(r.inputs) /\ r.inputs # <<>> /\ \A n \in DOMAIN r.inputs : IsInput(r.inputs[n])

ASSUME RequestAssumption == \A r \in Request : IsRequest(r)

VARIABLES
    request,
    pc,        \* "select", "head", "copy", "done", "refused", "cancelled", "failed"
    error,     \* why it was refused
    slots,     \* the tracks kept, in output order
    chunks,    \* their chunks, in output order
    layout,    \* the boxes of the output
    copied,    \* how many chunks were
    pieces,    \* the media copied
    written,   \* the bytes written
    report

vars == <<request, pc, error, slots, chunks, layout, copied, pieces, written, report>>

None == [none |-> TRUE]
Init ==
    /\ request \in Request
    /\ pc = "select"
    /\ error = "none"
    /\ slots = <<>> /\ chunks = <<>> /\ pieces = <<>>
    /\ layout = None /\ report = None
    /\ copied = 0 /\ written = 0

-----------------------------------------------------------------------------
(* select, renumber: the tracks kept. *)

Primary == request.inputs[1]
Joined(r) == Len(r.inputs) > 1
Traks(moov) == At(moov, {i \in DOMAIN moov : moov[i].kind = "trak"})

TrackError(trak) == IF HeadersRead(trak.headers) THEN TableError(trak.stbl) ELSE "truncated"

(* Every track of an input must read, the ones not asked for too.  Of several errors one is reported. *)
Errors(r) ==
    LET of(n) ==
          LET input == r.inputs[n]
              traks == Traks(input.moov)
              read == {k \in DOMAIN traks : TrackError(traks[k]) # "none"}
          IN IF read # {} THEN {TrackError(traks[k]) : k \in read}
             ELSE {"no such track" : k \in {k \in DOMAIN input.tracks :
                     \/ input.tracks[k] \notin DOMAIN traks
                     \/ \E j \in 1..(k - 1) : input.tracks[j] = input.tracks[k]}}
                  \cup {"overflow" : k \in {k \in DOMAIN input.tracks :
                     /\ input.tracks[k] \in DOMAIN traks
                     /\ SamplesRefused(Decoded(traks[input.tracks[k]].stbl))}}
        all == UNION {of(n) : n \in DOMAIN r.inputs}
    IN IF all # {} THEN all
       ELSE IF \A n \in DOMAIN r.inputs : r.inputs[n].tracks = <<>> THEN {"nothing selected"} ELSE {}

Select(r) ==
    LET slot(n, index) ==
          LET trak == Traks(r.inputs[n].moov)[index] IN
          [input |-> n, index |-> index, trak |-> trak,
           source |-> TrackOf(trak.headers["tkhd"]),
           timescale |-> TimescaleOf(trak.headers["mdhd"]),
           samples |-> Samples(Decoded(trak.stbl))]
    IN FlattenSeq([n \in DOMAIN r.inputs |->
         [k \in DOMAIN r.inputs[n].tracks |-> slot(n, r.inputs[n].tracks[k])]])

(* A single input keeps its identifiers; joined inputs are numbered from one in output order. *)
IdOf(r, kept, n) == IF Joined(r) THEN n ELSE kept[n].source

(* identifiers: the output's identifier of a source's, where the last track that had it wins. *)
SameInput(kept, input, id) == {n \in DOMAIN kept : kept[n].input = input /\ kept[n].source = id}
AnyInput(kept, input, id) == {n \in DOMAIN kept : kept[n].source = id}
Identified(kept, input, id) == SameInput(kept, input, id)

-----------------------------------------------------------------------------
(* interleave: the chunks in the order the output stores them. *)

SumOf(sequence) == SumFunction(sequence)

ChunksOf(kept, n) ==
    LET s == kept[n].samples IN
    {[slot |-> n, first |-> i, count |-> Cardinality({k \in DOMAIN s : s[k].chunk = s[i].chunk}),
      bytes |-> SumOf([k \in {k \in DOMAIN s : s[k].chunk = s[i].chunk} |-> s[k].size]),
      time |-> s[i].time,
      timescale |-> IF kept[n].timescale = 0 THEN 1 ELSE kept[n].timescale] :
        i \in {i \in DOMAIN s : i = 1 \/ s[i - 1].chunk # s[i].chunk}}

(* Times are compared as fractions; ties keep track order, then chunk order. *)
Earlier(a, b) ==
    LET left == a.time * b.timescale
        right == b.time * a.timescale
    IN \/ left < right
       \/ left = right /\ (a.slot < b.slot \/ (a.slot = b.slot /\ a.first < b.first))

Interleaved(kept) ==
    LET all == UNION {ChunksOf(kept, n) : n \in DOMAIN kept} IN
    [i \in 1..Cardinality(all) |->
        CHOOSE c \in all : Cardinality({d \in all : Earlier(d, c)}) = i - 1]

MediaBefore(order, i) == SumOf([k \in 1..(i - 1) |-> order[k].bytes])
Media(order) == MediaBefore(order, Len(order) + 1)

-----------------------------------------------------------------------------
(* Sizes. *)

NeedsLargeHeader(payload) == payload + 8 > NarrowLimit
BoxSize(payload) == payload + IF NeedsLargeHeader(payload) THEN 16 ELSE 8
FitsAlways(end) == TRUE
FitsNarrowOffsets(end) == end <= NarrowLimit

Narrowed(offset, wide) == IF wide \/ offset <= NarrowLimit THEN offset ELSE NarrowLimit
OffsetTableSize(n, wide) == BoxSize(8 + n * IF wide THEN 8 ELSE 4)
ReferencesSize(tref) ==
    IF tref = <<>> THEN 0 ELSE BoxSize(SumOf([k \in DOMAIN tref |-> BoxSize(4 * Len(tref[k].targets))]))
HeaderBoxSize(header, words) == header + Word * Len(words)

SizeOf(child) ==
    IF child.kind = "trak"
    THEN BoxSize(HeaderBoxSize(child.tkhdHeader, child.headers["tkhd"]) + ReferencesSize(child.tref)
                 + child.other
                 + OffsetTableSize(Len(Entries(child.stbl[OffsetBox(child.stbl)])),
                                   OffsetBox(child.stbl) = "co64"))
    ELSE IF child.kind = "mvhd" THEN HeaderBoxSize(child.header, child.words)
    ELSE IF child.kind = "udta" THEN BoxSize(SumOf([k \in DOMAIN child.boxes |-> child.boxes[k].size]))
    ELSE child.size
MovieSize(moov) == BoxSize(SumOf([k \in DOMAIN moov |-> SizeOf(moov[k])]))

-----------------------------------------------------------------------------
(* What is rewritten. *)

(* A header box as words, its box header first; byte 8 is taken for the version. *)
BoxWords(header, words) == (IF header = 8 THEN <<header, 0>> ELSE <<1, 0, 0, header>>) \o words
Patched(header, words, narrowAt, wideAt, value) ==
    LET box == BoxWords(header, words)
        at == (IF OrZero(box, 3) = 1 THEN wideAt ELSE narrowAt) \div Word + 1
        patched == IF at \in DOMAIN box THEN [box EXCEPT ![at] = value] ELSE box
    IN SubSeq(patched, header \div Word + 1, Len(patched))
PatchTrack(header, words, id) == Patched(header, words, 20, 28, id)
PatchNextTrackNarrow(header, words, id) == Patched(header, words, 104, 104, id)
PatchNextTrack(header, words, id) == Patched(header, words, 104, 116, id)

(* references_box: a reference to a track that is not kept is dropped, and so is a type left empty. *)
KeptReferences(r, kept, slot) ==
    LET known(targets) == At(targets, {k \in DOMAIN targets : Identified(kept, slot.input, targets[k]) # {}})
        last(id) == CHOOSE n \in Identified(kept, slot.input, id) :
                      \A m \in Identified(kept, slot.input, id) : m <= n
        renamed(targets) == [k \in DOMAIN known(targets) |-> IdOf(r, kept, last(known(targets)[k]))]
        every == [k \in DOMAIN slot.trak.tref |->
                    [slot.trak.tref[k] EXCEPT !.targets = renamed(@)]]
    IN At(every, {k \in DOMAIN every : every[k].targets # <<>>})

TargetsIn(tref) == SumOf([k \in DOMAIN tref |-> Len(tref[k].targets)])
ReferencesDropped(r, kept) ==
    SumOf([n \in DOMAIN kept |->
             TargetsIn(kept[n].trak.tref) - TargetsIn(KeptReferences(r, kept, kept[n]))])

(* chunk_offsets: where the chunks of one track begin, in the track's own order. *)
OffsetsInFileOrder(order, n, start) ==
    [k \in 1..Cardinality({i \in DOMAIN order : order[i].slot = n}) |-> start + MediaBefore(order, k)]
ChunkOffsets(order, n, start) ==
    LET mine == {i \in DOMAIN order : order[i].slot = n}
        nth(k) == CHOOSE i \in mine :
                    Cardinality({j \in mine : order[j].first < order[i].first}) = k - 1
    IN [k \in 1..Cardinality(mine) |-> start + MediaBefore(order, nth(k))]

(* sample_table_box: each chunk offset table there is, written afresh in the width of the output. *)
NewTables(stbl, offsets, wide) ==
    LET table == IF wide THEN "co64" ELSE "stco" IN
    [kind \in (DOMAIN stbl \ {"stco", "co64"}) \cup {table} |->
        IF kind # table THEN stbl[kind]
        ELSE [count |-> Len(offsets),
              entries |-> [k \in DOMAIN offsets |-> Narrowed(offsets[k], wide)]]]

TrackBox(r, kept, n, offsets, wide) ==
    LET trak == kept[n].trak
        twice == {"stco", "co64"} \subseteq DOMAIN trak.stbl
    IN [trak EXCEPT
         !.headers["tkhd"] =
            IF Joined(r) THEN PatchTrack(trak.tkhdHeader, @, IdOf(r, kept, n)) ELSE @,
         !.tref = KeptReferences(r, kept, kept[n]),
         !.stbl = NewTables(@, offsets, wide),
         !.other = IF twice THEN @ + OffsetTableSize(Len(offsets), wide) ELSE @]

(* movie_box: the primary's children, the kept tracks where its first track stood. *)
MovieBox(r, kept, order, wide, start) ==
    LET moov == r.inputs[1].moov
        next == 1 + IF kept = <<>> THEN 0
                    ELSE CHOOSE id \in {IdOf(r, kept, n) : n \in DOMAIN kept} :
                           \A n \in DOMAIN kept : IdOf(r, kept, n) <= id
        rewritten(i) ==
          LET child == moov[i] IN
          CASE child.kind = "mvhd" ->
                 <<IF Joined(r)
                   THEN [child EXCEPT !.words = PatchNextTrack(child.header, @, next)] ELSE child>>
            [] child.kind = "trak" ->
                 IF \E j \in 1..(i - 1) : moov[j].kind = "trak" THEN <<>>
                 ELSE [n \in DOMAIN kept |->
                         TrackBox(r, kept, n, ChunkOffsets(order, n, start), wide)]
            [] child.kind = "udta" -> IF r.keepUdta THEN <<child>> ELSE <<>>
            [] OTHER -> <<child>>
    IN FlattenSeq([i \in DOMAIN moov |-> rewritten(i)])

(* Where the media begins, after a movie box with offsets of the given width. *)
KeptUnknown(r) == IF r.keepUnknown THEN r.inputs[1].unknown ELSE <<>>
MediaHeader(order) == IF NeedsLargeHeader(Media(order)) THEN 16 ELSE 8
MediaStartNarrow(r, kept, order, wide) ==
    r.inputs[1].ftyp + MovieSize(MovieBox(r, kept, order, FALSE, 0))
    + SumOf([k \in DOMAIN KeptUnknown(r) |-> KeptUnknown(r)[k].size]) + MediaHeader(order)
MediaStart(r, kept, order, wide) ==
    r.inputs[1].ftyp + MovieSize(MovieBox(r, kept, order, wide, 0))
    + SumOf([k \in DOMAIN KeptUnknown(r) |-> KeptUnknown(r)[k].size]) + MediaHeader(order)

(* The movie box is laid out to learn its size with narrow offsets, and again with wide ones if the media
   would end past what narrow offsets can address. *)
LayOut(r, kept, order) ==
    LET wide == ~FitsNarrowOffsets(MediaStart(r, kept, order, FALSE) + Media(order))
        base == MediaStart(r, kept, order, wide)
    IN [ftyp |-> r.inputs[1].ftyp, moov |-> MovieBox(r, kept, order, wide, base),
        unknown |-> KeptUnknown(r), large |-> NeedsLargeHeader(Media(order)), wide |-> wide,
        base |-> base, total |-> base + Media(order)]

-----------------------------------------------------------------------------
(* The remux. *)

(* preserved_boxes looks at the first user-data box. *)
FirstUserData(moov) ==
    LET all == SelectSeq(moov, LAMBDA child : child.kind = "udta") IN
    IF all = <<>> THEN <<>> ELSE all[1].boxes

Refuse ==
    /\ pc = "select"
    /\ \E e \in Errors(request) : error' = e
    /\ pc' = "refused"
    /\ UNCHANGED <<request, slots, chunks, layout, copied, pieces, written, report>>

SelectTracks ==
    /\ pc = "select"
    /\ Errors(request) = {}
    /\ slots' = Select(request)
    /\ chunks' = Interleaved(slots')
    /\ layout' = LayOut(request, slots', chunks')
    /\ pc' = "head"
    /\ UNCHANGED <<request, error, copied, pieces, written, report>>

(* Everything before the media: file type, movie, unknown boxes, the header of the media data box. *)
WriteHead ==
    /\ pc = "head"
    /\ written' = layout.ftyp + MovieSize(layout.moov)
                  + SumOf([k \in DOMAIN layout.unknown |-> layout.unknown[k].size])
                  + IF layout.large THEN 16 ELSE 8
    /\ pc' = "copy"
    /\ UNCHANGED <<request, error, slots, chunks, layout, copied, pieces, report>>

(* copy_chunk: samples stored back to back are read as one range, anything else sample by sample. *)
Contiguous(run) == \A i \in 2..Len(run) : run[i - 1].offset + run[i - 1].size = run[i].offset
PiecesOf(chunk) ==
    LET slot == slots[chunk.slot]
        run == SubSeq(slot.samples, chunk.first, chunk.first + chunk.count - 1)
    IN IF Contiguous(run) /\ chunk.bytes <= CopyBuffer
       THEN <<[input |-> slot.input, offset |-> run[1].offset, size |-> chunk.bytes]>>
       ELSE [i \in DOMAIN run |-> [input |-> slot.input, offset |-> run[i].offset, size |-> run[i].size]]

CopyChunk ==
    /\ pc = "copy"
    /\ copied < Len(chunks)
    /\ pieces' = pieces \o PiecesOf(chunks[copied + 1])
    /\ copied' = copied + 1
    /\ written' = written + chunks[copied + 1].bytes
    /\ pc' \in {"copy", "cancelled"}
    /\ UNCHANGED <<request, error, slots, chunks, layout, report>>

Finish ==
    /\ pc = "copy"
    /\ copied = Len(chunks)
    /\ report' =
         [bytes |-> written,
          tracks |-> [n \in DOMAIN slots |->
             [input |-> slots[n].input, index |-> slots[n].index, id |-> IdOf(request, slots, n),
              source |-> slots[n].source, samples |-> Len(slots[n].samples),
              bytes |-> SumOf([i \in DOMAIN slots[n].samples |-> slots[n].samples[i].size])]],
          preserved |-> (IF request.keepUdta THEN FirstUserData(Primary.moov) ELSE <<>>)
                        \o [k \in DOMAIN layout.unknown |->
                              [kind |-> layout.unknown[k].kind, size |-> layout.unknown[k].size]],
          chunks |-> Len(chunks), wide |-> layout.wide,
          dropped |-> ReferencesDropped(request, slots)]
    /\ pc' = "done"
    /\ UNCHANGED <<request, error, slots, chunks, layout, copied, pieces, written>>

(* A source that cannot be read or an output that cannot be written. *)
Fail ==
    /\ pc \in {"head", "copy"}
    /\ pc' = "failed"
    /\ UNCHANGED <<request, error, slots, chunks, layout, copied, pieces, written, report>>

Next == Refuse \/ SelectTracks \/ WriteHead \/ CopyChunk \/ Finish \/ Fail

Spec == Init /\ [][Next]_vars

-----------------------------------------------------------------------------
(* The output, read back. *)

(* Where the bytes of a range of the output's media came from. *)
SourceOf(offset, size) ==
    LET start(k) == layout.base + SumOf([j \in 1..(k - 1) |-> pieces[j].size]) IN
    {<<pieces[k].input, pieces[k].offset + (offset - start(k))>> :
       k \in {k \in DOMAIN pieces : start(k) <= offset /\ offset + size <= start(k) + pieces[k].size}}

SameSample(a, b) ==
    \A field \in {"size", "time", "duration", "composition", "sync", "chunk"} : a[field] = b[field]

(* The kept tracks stand where the first track of the first input stood: a first input without tracks leaves
   them nowhere to stand, and the output is not read back for one. *)
FirstHasTracks(r) == Traks(r.inputs[1].moov) # <<>>

(* "Neither touches a coded sample": a track of the output reads, its tables locate the samples of the
   source's track in the same order and with the same times, and the bytes they lead to are the bytes the
   source's tables led to, whatever the widths of offsets and headers and the order of the chunks. *)
SamplesSurvive ==
    pc = "done" /\ FirstHasTracks(request) =>
        LET traks == Traks(layout.moov) IN
        /\ Len(traks) = Len(slots)
        /\ \A n \in DOMAIN slots :
             LET samples == Samples(Decoded(traks[n].stbl)) IN
             /\ TrackError(traks[n]) = "none"
             /\ Len(samples) = Len(slots[n].samples)
             /\ \A i \in DOMAIN samples :
                  /\ SameSample(samples[i], slots[n].samples[i])
                  /\ samples[i].size > 0 =>
                       SourceOf(samples[i].offset, samples[i].size)
                         = {<<slots[n].input, slots[n].samples[i].offset>>}

(* Every accepted table locates its samples as the tables say, each once. *)
AcceptedTablesAgree ==
    pc = "head" => \A n \in DOMAIN slots : LocatesEverySample(Decoded(slots[n].trak.stbl))

(* Identifiers an input gives twice, or a header box with a 64-bit size, are outside what remux handles. *)
Plain(r) ==
    \A n \in DOMAIN r.inputs :
        LET traks == Traks(r.inputs[n].moov) IN
        /\ \A k \in DOMAIN traks :
             traks[k].tkhdHeader = 8 /\ \A j \in 1..(k - 1) :
                TrackOf(traks[j].headers["tkhd"]) # TrackOf(traks[k].headers["tkhd"])
        /\ \A k \in DOMAIN r.inputs[n].moov :
             r.inputs[n].moov[k].kind = "mvhd" => r.inputs[n].moov[k].header = 8

(* "Nothing in the output refers to a track that is not there": identifiers are distinct and below the next
   one; the references of a track are those of its source to tracks that were kept, and lead to the same
   tracks; every other one was counted as dropped. *)
ReferencesResolve ==
    pc = "done" /\ Plain(request) /\ FirstHasTracks(request) =>
        LET traks == Traks(layout.moov)
            id(n) == TrackOf(traks[n].headers["tkhd"])
            kept(n, source) == \E m \in DOMAIN slots :
                                 slots[m].input = slots[n].input /\ slots[m].source = source
        IN
        /\ \A n, m \in DOMAIN slots : n # m => id(n) # id(m)
        /\ Joined(request) => \A k \in DOMAIN layout.moov :
             layout.moov[k].kind = "mvhd" /\ Reads(layout.moov[k].words, Mvhd) =>
               \A n \in DOMAIN slots : id(n) < NextTrackOf(layout.moov[k].words)
        /\ \A n \in DOMAIN slots :
             LET source == slots[n].trak.tref
                 filtered == [k \in DOMAIN source |->
                                At(source[k].targets,
                                   {j \in DOMAIN source[k].targets : kept(n, source[k].targets[j])})]
                 flat == FlattenSeq(filtered)
                 now == FlattenSeq([k \in DOMAIN traks[n].tref |-> traks[n].tref[k].targets])
             IN
             /\ Len(now) = Len(flat)
             /\ \A k \in DOMAIN now : \E m \in DOMAIN slots :
                  id(m) = now[k] /\ slots[m].input = slots[n].input /\ slots[m].source = flat[k]
        /\ report.dropped = SumOf([n \in DOMAIN slots |->
             TargetsIn(slots[n].trak.tref) - TargetsIn(traks[n].tref)])

(* The report and the progress tell the truth: the total announced before the first chunk is what is
   written after the last, it is the bytes laid out and the media copied, and each is counted to a track. *)
ReportMatchesOutput ==
    LET media == SumOf([k \in DOMAIN pieces |-> pieces[k].size]) IN
    /\ pc \in {"copy", "cancelled"} => written = layout.base + media /\ written <= layout.total
    /\ pc = "done" =>
         /\ report.bytes = layout.total
         /\ report.bytes = layout.base + media
         /\ SumOf([n \in DOMAIN slots |-> report.tracks[n].bytes]) = media

(* An extraction of an extraction: keeping every track of an output gives the output again, box for box and
   byte for byte, because the layout depends on nothing but what is laid out. *)
Again == [inputs |-> <<[ftyp |-> layout.ftyp, moov |-> layout.moov, unknown |-> layout.unknown,
                        tracks |-> [n \in DOMAIN slots |-> n]]>>,
          keepUdta |-> request.keepUdta, keepUnknown |-> request.keepUnknown]
RemuxIsIdempotent ==
    pc = "done" =>
        LET slots2 == Select(Again)
            chunks2 == Interleaved(slots2)
        IN
        /\ Errors(Again) = {}
        /\ LayOut(Again, slots2, chunks2) = layout
        /\ \A i \in DOMAIN chunks2 :
             slots2[chunks2[i].slot].samples[chunks2[i].first].offset = layout.base + MediaBefore(chunks2, i)

(* The top-level boxes of the output, and what a reader finds of them: a box whose size field says "to the
   end of the file" takes everything after it. *)
OutputBoxes ==
    <<[kind |-> "moov", size |-> MovieSize(layout.moov), toTheEnd |-> FALSE]>> \o layout.unknown
    \o <<[kind |-> "mdat", size |-> Media(chunks) + (IF layout.large THEN 16 ELSE 8), toTheEnd |-> FALSE]>>
FoundAgain ==
    LET start(k) == layout.ftyp + SumOf([j \in 1..(k - 1) |-> OutputBoxes[j].size]) IN
    [k \in {k \in DOMAIN OutputBoxes : \A j \in 1..(k - 1) : ~OutputBoxes[j].toTheEnd} |->
        IF OutputBoxes[k].toTheEnd THEN layout.total - start(k) ELSE OutputBoxes[k].size]

(* "Every other box is copied as the bytes it was read as, which is how the recorder's own boxes, the
   user-data children and the unknown top-level boxes survive": whoever reads the output finds each of
   them, with the size it had. *)
UnknownBoxesSurvive ==
    pc = "done" => \A k \in DOMAIN OutputBoxes :
        k \in DOMAIN FoundAgain /\ FoundAgain[k] = OutputBoxes[k].size
=============================================================================
