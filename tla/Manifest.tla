------------------------------ MODULE Manifest ------------------------------
(***************************************************************************)
(* What a manifest records of a recording and what a comparison finds:     *)
(* build.rs and verify.rs of core/crates/adiungere-manifest, with the      *)
(* fingerprints of core/crates/adiungere-fingerprint and the choice of     *)
(* tracks of core/crates/adiungere-cli/src/media.rs.                       *)
(*                                                                         *)
(* A file is what a reader finds in it: its brand, its top-level boxes in  *)
(* order, the kinds of the movie box's children, the boxes of the user     *)
(* data, its tracks, and whatever else its bytes hold.  A sample is a      *)
(* sequence of units.  A digest is the value digested: equal digests mean  *)
(* equal bytes.                                                            *)
(*                                                                         *)
(* One or two recordings are measured, unit by unit; tracks are chosen and *)
(* an output is made of them, which is measured too; the file of the last  *)
(* manifest changes, or not; and the manifest is compared with it.         *)
(***************************************************************************)
EXTENDS AnnexB, Places

CONSTANTS
    Request,      \* [inputs, scope, selection], of the kind "none" when nothing is exported
    HoldCap,      \* UNKNOWN_BOX_HOLD_CAP: the longest unknown box that is held
    Changed(_)    \* what a file may be changed to, as [subject, file]

(* What a reader finds in a file: only a tail is clipped. *)
IsFile(f) ==
    /\ DOMAIN f = {"reads", "tracksRead", "timesRead", "brand", "top", "userData", "moov", "tracks", "other"}
    /\ IsSequence(f.top) /\ IsSequence(f.userData) /\ IsSequence(f.tracks)
    /\ \A i \in DOMAIN f.top : f.top[i].clipped => i = Len(f.top)

(* The decoder configuration of a track, and whether it reads as one of advanced video. *)
Configuration(track) == UNION {entry.configuration : entry \in track.entry}
Avc(track) == {c \in Configuration(track) : c.kind = "avcC" /\ c.version = 1}

(* A sample is a sequence of units, and a configuration of advanced video holds sequences of them. *)
IsTrack(track) ==
    /\ IsSequence(track.samples) /\ \A s \in DOMAIN track.samples : IsSequence(track.samples[s])
    /\ \A c \in Avc(track) : IsSequence(c.sequence) /\ IsSequence(c.picture)

ASSUME RequestAssumption ==
    \A r \in Request :
        /\ IsSequence(r.inputs) /\ Len(r.inputs) \in {1, 2}
        /\ \A n \in DOMAIN r.inputs :
             /\ IsFile(r.inputs[n])
             /\ \A k \in DOMAIN r.inputs[n].tracks : IsTrack(r.inputs[n].tracks[k])
        /\ r.scope \in {"structure", "full"}
        /\ r.selection.kind \in {"none", "front", "rear", "both", "tracks"}
        /\ r.selection.tracks \in Seq(Nat)

VARIABLES
    request,
    pc,        \* "open", "track", "stream", "measured", "changed", "done", "refused"
    files,     \* the files measured: the inputs, and the output
    manifests, \* the manifest of each
    records,   \* the track records of the file being measured
    sample, unit, writer,  \* the place in the stream, and its writer
    change,    \* what was changed of the last file
    file,      \* the last file, as it is now
    findings

vars == <<request, pc, files, manifests, records, sample, unit, writer, change, file, findings>>

Init ==
    /\ request \in Request
    /\ pc = "open"
    /\ files = request.inputs
    /\ manifests = <<>> /\ records = <<>> /\ findings = <<>>
    /\ sample = 1 /\ unit = 1 /\ writer = NewWriter
    /\ change = <<"none">> /\ file = <<>>

-----------------------------------------------------------------------------
(* Queries over a container. *)

Known == {"ftyp", "moov", "mdat", "free", "skip", "wide", "moof", "mfra", "sidx"}
Unknown(box) == box.kind \notin Known /\ ~box.clipped
UnknownTopLevel(f) == At(f.top, {i \in DOMAIN f.top : Unknown(f.top[i])})
FirstOf(f, kind) == {i \in DOMAIN f.top : f.top[i].kind = kind /\ \A j \in 1..(i - 1) : f.top[j].kind # kind}
ClippedTail(f) == IF f.top # <<>> /\ Last(f.top).clipped THEN <<Last(f.top)>> ELSE <<>>
Kinds(boxes) == [i \in DOMAIN boxes |-> boxes[i].kind]
Sizes(boxes) == [i \in DOMAIN boxes |-> <<boxes[i].kind, boxes[i].size>>]
MoovBeforeMdat(f) ==
    {moov < mdat : moov \in FirstOf(f, "moov"), mdat \in FirstOf(f, "mdat")}

Coding(track) == IF track.entry = {} THEN "none" ELSE (CHOOSE e \in track.entry : TRUE).kind

(* structural_fingerprint: brand, order and sizes of boxes, and the shape of every track, if they read.  The
   brand stands for the compatible ones too, the movie header for its time scale, and the compressor for the
   other values observed of a track: its handler's name, its flags, and the boxes in it and in its tables. *)
TrackShape(track) ==
    [kind |-> track.kind, coding |-> Coding(track),
     children |-> {c.kind : c \in Configuration(track)},
     compressor |-> {e.compressor : e \in track.entry}, timescale |-> track.timescale]
StructuralFingerprint(f) ==
    [brand |-> f.brand, topLevel |-> Kinds(f.top),
     unknown |-> Sizes(UnknownTopLevel(f)), clipped |-> Sizes(ClippedTail(f)),
     movieHeader |-> f.timesRead, moov |-> f.moov, userData |-> Sizes(f.userData),
     tracks |-> IF f.tracksRead THEN [k \in DOMAIN f.tracks |-> TrackShape(f.tracks[k])] ELSE <<>>]

(* vendor_record, present_vendor_boxes: the user data and the unknown top-level boxes, in file order; a box
   the reader does not hold has no digest.  The movie box is held whole. *)
Held(box, location) == location = "user data" \/ box.size <= HoldCap
Vendor(box, location) ==
    [location |-> location, kind |-> box.kind, digest |-> IF Held(box, location) THEN {box} ELSE {}]
VendorsAt(f, i) ==
    IF i \in FirstOf(f, "moov") THEN [k \in DOMAIN f.userData |-> Vendor(f.userData[k], "user data")]
    ELSE IF Unknown(f.top[i]) THEN <<Vendor(f.top[i], "top level")>> ELSE <<>>
VendorBoxes(f) == FlattenSeq([i \in DOMAIN f.top |-> VendorsAt(f, i)])

-----------------------------------------------------------------------------
(* The fingerprints. *)

(* track_fingerprint: the stored bytes of every sample with nothing between them, and the configuration.  It
   takes a configuration, and samples that lie in the file. *)
HasFingerprint(track) == Configuration(track) # {} /\ track.samplesRead
TrackFingerprint(track) ==
    [payload |-> FlattenSeq(track.samples),
     configuration |-> (CHOOSE c \in Configuration(track) : TRUE).bytes]

TrackRecord(index, track, fingerprint, stream) ==
    [index |-> index, kind |-> track.kind, coding |-> Coding(track),
     fingerprint |-> fingerprint, stream |-> stream]

VendorRecord(f) == VendorBoxes(f)
StructureOf(f) ==
    [fingerprint |-> StructuralFingerprint(f), moovFirst |-> MoovBeforeMdat(f),
     encoderTags |-> UNION {{e.compressor : e \in f.tracks[k].entry} : k \in DOMAIN f.tracks} \ {""}]
FileDigest(f) == f

ManifestOf(f, scope, tracks, operation) ==
    [operation |-> operation,
     digest |-> IF scope = "full" THEN {FileDigest(f)} ELSE {},
     structure |-> StructureOf(f), tracks |-> tracks, vendor |-> VendorRecord(f)]

-----------------------------------------------------------------------------
(* assemble: one track after the other, its stream unit by unit. *)

Measuring == files[Len(manifests) + 1]
Measured(n) == n <= Len(manifests)
(* An export measures everything, whatever the scope. *)
Scope == IF request.selection.kind = "none" THEN request.scope ELSE "full"
Track == Measuring.tracks[Len(records) + 1]

Refuse(reason) ==
    /\ pc' = "refused"
    /\ change' = <<reason>>
    /\ UNCHANGED <<request, files, manifests, records, sample, unit, writer, file, findings>>

OpenFile ==
    /\ pc = "open"
    /\ IF Measuring.reads /\ Measuring.tracksRead
       THEN /\ pc' = "track"
            /\ UNCHANGED <<request, files, manifests, records, sample, unit, writer, change, file, findings>>
       ELSE Refuse("unreadable")

Record(fingerprint, stream) ==
    records' = Append(records, TrackRecord(Len(records), Track, fingerprint, stream))

(* track_record: nothing is computed of the samples, or both digests are, the stream's for advanced video. *)
MeasureTrack ==
    /\ pc = "track"
    /\ Len(records) < Len(Measuring.tracks)
    /\ CASE Scope = "structure" ->
              /\ Record({}, {})
              /\ UNCHANGED <<request, pc, files, manifests, sample, unit, writer, change, file, findings>>
         [] Scope = "full" /\ ~HasFingerprint(Track) -> Refuse("no fingerprint")
         [] Scope = "full" /\ HasFingerprint(Track) /\ Avc(Track) = {} ->
              /\ Record({TrackFingerprint(Track)}, {})
              /\ UNCHANGED <<request, pc, files, manifests, sample, unit, writer, change, file, findings>>
         [] OTHER ->
              /\ pc' = "stream"
              /\ sample' = 1 /\ unit' = 1 /\ writer' = NewWriter
              /\ UNCHANGED <<request, files, manifests, records, change, file, findings>>

(* annex_b_digest: a sample that splits is written unit by unit. *)
InSample == sample <= Len(Track.samples)
WriteStreamUnit ==
    /\ pc = "stream" /\ InSample
    /\ Splits(Track.samples[sample]) /\ unit <= Len(Track.samples[sample])
    /\ writer' = WriteUnit(IF unit = 1 THEN OpenAccessUnit(writer) ELSE writer,
                           Track.samples[sample][unit], CHOOSE c \in Avc(Track) : TRUE)
    /\ unit' = unit + 1
    /\ UNCHANGED <<request, pc, files, manifests, records, sample, change, file, findings>>

NextSample ==
    /\ pc = "stream" /\ InSample
    /\ Splits(Track.samples[sample]) /\ unit > Len(Track.samples[sample])
    /\ sample' = sample + 1 /\ unit' = 1
    /\ UNCHANGED <<request, pc, files, manifests, records, writer, change, file, findings>>

RefuseSample == pc = "stream" /\ InSample /\ ~Splits(Track.samples[sample]) /\ Refuse("malformed sample")

FinishStream ==
    /\ pc = "stream" /\ ~InSample
    /\ Record({TrackFingerprint(Track)},
              {[stream |-> writer.out, units |-> Len(Track.samples), insertions |-> writer.insertions]})
    /\ pc' = "track"
    /\ UNCHANGED <<request, files, manifests, sample, unit, writer, change, file, findings>>

-----------------------------------------------------------------------------
(* export: what is kept of the inputs, and what the output's manifest says of it. *)

TracksOfKind(manifest, kind) ==
    LET all == At(manifest.tracks, {k \in DOMAIN manifest.tracks : manifest.tracks[k].kind = kind}) IN
    [k \in DOMAIN all |-> all[k].index]

(* choose, second_video_track: the tracks of each input, or nothing.  Indices count from zero. *)
Camera(manifest, n) ==
    LET videos == TracksOfKind(manifest, "video") IN
    IF n > Len(videos) THEN {}
    ELSE {Sorted({videos[n]} \cup ToSet(TracksOfKind(manifest, "audio")))}
Choice(manifest, selection) ==
    CASE selection.kind = "front" -> Camera(manifest, 1)
      [] selection.kind = "rear" -> Camera(manifest, 2)
      [] selection.kind = "both" -> {[k \in DOMAIN manifest.tracks |-> manifest.tracks[k].index]}
      [] selection.kind = "tracks" ->
           {tracks \in {selection.tracks} :
              tracks # <<>> /\ \A k \in DOMAIN tracks : tracks[k] < Len(manifest.tracks)}
Rear(manifest) ==
    LET videos == TracksOfKind(manifest, "video") IN IF videos = <<>> THEN {} ELSE {<<videos[1]>>}

(* open_sources: the tracks each source contributes; none at all when one is refused. *)
Chosen ==
    IF Len(request.inputs) = 1
    THEN {<<kept>> : kept \in Choice(manifests[1], request.selection)}
    ELSE IF request.selection.kind # "both" THEN {}
    ELSE {<<front, rear>> : front \in Camera(manifests[1], 1), rear \in Rear(manifests[2])}

(* remuxed_tracks: where each track landed, in output order. *)
Landed(kept) ==
    FlattenSeq([n \in DOMAIN kept |-> [k \in DOMAIN kept[n] |-> [input |-> n, index |-> kept[n][k]]]])

(* source_records: the first track of the report that came from there. *)
FoundByIndex(landed, input, index) == {p \in DOMAIN landed : landed[p].index = index}
Found(landed, input, index) == {p \in DOMAIN landed : landed[p].index = index /\ landed[p].input = input}
OutputIndex(landed, input, index) ==
    LET found == Found(landed, input, index) IN
    IF found = {} THEN 0 ELSE (CHOOSE p \in found : \A q \in found : p <= q) - 1
SourceRecords(kept) ==
    [n \in DOMAIN kept |->
        [digest |-> manifests[n].digest,
         tracks |-> [k \in DOMAIN kept[n] |->
            [index |-> kept[n][k], outputIndex |-> OutputIndex(Landed(kept), n, kept[n][k]),
             fingerprint |-> manifests[n].tracks[kept[n][k] + 1].fingerprint]]]]

(* class_of *)
ClassOf(kept) ==
    LET videos == {p \in DOMAIN Landed(kept) : LET from == Landed(kept)[p] IN
                     manifests[from.input].tracks[from.index + 1].kind = "video"}
    IN IF Cardinality(videos) > 1 THEN "two-track archive" ELSE "extraction"

(* remux, seen from its output: the first input around the tracks kept, the movie box before the media. *)
Written(kind) == [kind |-> kind, size |-> 8, bytes |-> 0, clipped |-> FALSE]
OutputOf(kept) ==
    LET primary == request.inputs[1]
        landed == Landed(kept)
        trak(kinds) == FlattenSeq([i \in DOMAIN kinds |->
            IF kinds[i] # "trak" THEN <<kinds[i]>>
            ELSE IF \E j \in 1..(i - 1) : kinds[j] = "trak" THEN <<>> ELSE [p \in DOMAIN landed |-> "trak"]])
    IN [primary EXCEPT
         !.top = At(@, FirstOf(primary, "ftyp")) \o <<Written("moov")>> \o UnknownTopLevel(primary) \o <<Written("mdat")>>,
         !.moov = trak(@),
         !.tracks = [p \in DOMAIN landed |-> request.inputs[landed[p].input].tracks[landed[p].index + 1]]]

(* select of remux.rs refuses a track that is asked for twice, and an output of no track; a clipped tail in
   the place of the file type box is not held. *)
Selectable(kept) ==
    /\ Landed(kept) # <<>>
    /\ \A i \in FirstOf(request.inputs[1], "ftyp") : ~request.inputs[1].top[i].clipped
    /\ \A n \in DOMAIN kept : IsInjective(kept[n])

Export ==
    /\ pc = "measured" /\ request.selection.kind # "none" /\ Len(files) = Len(request.inputs)
    /\ IF \E kept \in Chosen : Selectable(kept)
       THEN \E kept \in Chosen :
              /\ files' = Append(files, OutputOf(kept))
              /\ pc' = "open"
              /\ UNCHANGED <<request, manifests, records, sample, unit, writer, change, file, findings>>
       ELSE Refuse("selection")

Operation ==
    IF Len(manifests) < Len(request.inputs) THEN [kind |-> "inspection", class |-> "none", sources |-> <<>>]
    ELSE LET kept == CHOOSE kept \in Chosen : TRUE IN
         [kind |-> "export", class |-> ClassOf(kept), sources |-> SourceRecords(kept)]

(* times_of, after every track was read: the movie header is only needed for the time it states. *)
RefuseTimes == pc = "track" /\ Len(records) = Len(Measuring.tracks) /\ ~Measuring.timesRead /\ Refuse("no times")

FinishManifest ==
    /\ pc = "track"
    /\ Len(records) = Len(Measuring.tracks)
    /\ Measuring.timesRead
    /\ manifests' = Append(manifests, ManifestOf(Measuring, Scope, records, Operation))
    /\ records' = <<>>
    /\ pc' = IF Len(manifests') < Len(files) THEN "open" ELSE "measured"
    /\ file' = Measuring
    /\ UNCHANGED <<request, files, sample, unit, writer, change, findings>>

-----------------------------------------------------------------------------
(* verify. *)

Compare(recorded, observed) == IF recorded = observed THEN "identical" ELSE "differs"

(* The digests of a track: the configuration's first, then the samples'. *)
ComparePayloads(recorded, observed) ==
    Compare({r.payload : r \in recorded}, {observed.payload})
CompareFingerprints(recorded, observed) == Compare(recorded, {observed})

TrackOutcome(record, f) ==
    IF record.fingerprint = {} THEN "not recorded"
    ELSE IF ~f.tracksRead THEN "not checkable"
    ELSE IF record.index >= Len(f.tracks) THEN "missing"
    ELSE LET now == f.tracks[record.index + 1] IN
         IF now.entry = {} \/ Coding(now) # record.coding \/ ~HasFingerprint(now) THEN "not checkable"
         ELSE CompareFingerprints(record.fingerprint, TrackFingerprint(now))

(* vendor_findings: each recorded box takes the first box of its kind and place that is not taken yet. *)
FreeAgain(present, recorded, taken) ==
    {p \in DOMAIN present : present[p].location = recorded.location /\ present[p].kind = recorded.kind}
Free(present, recorded, taken) ==
    {p \in DOMAIN present :
       p \notin taken /\ present[p].location = recorded.location /\ present[p].kind = recorded.kind}
Matches(recorded, present) ==
    LET match[i \in 1..Len(recorded)] ==
          LET free == Free(present, recorded[i], UNION {match[j] : j \in 1..(i - 1)})
          IN {p \in free : \A q \in free : p <= q}
    IN match

BoxOutcome(recorded, present, match) ==
    IF match = {} THEN "missing"
    ELSE LET now == present[CHOOSE p \in match : TRUE] IN
         IF recorded.digest = {} THEN "not recorded"
         ELSE IF now.digest = {} THEN "not checkable"
         ELSE Compare(recorded.digest, now.digest)

Finding(subject, outcome) == [subject |-> subject, outcome |-> outcome]
VendorFindings(recorded, present) ==
    LET match == Matches(recorded, present)
        taken == UNION {match[i] : i \in DOMAIN recorded}
        unexpected == Sorted(DOMAIN present \ taken)
    IN [i \in DOMAIN recorded |->
          Finding(<<"box", recorded[i].location, recorded[i].kind>>,
                  BoxOutcome(recorded[i], present, match[i]))]
       \o [i \in DOMAIN unexpected |->
             Finding(<<"box", present[unexpected[i]].location, present[unexpected[i]].kind>>, "unexpected")]

FindingsOf(m, f) ==
    <<Finding(<<"file">>, IF m.digest = {} THEN "not recorded" ELSE Compare(m.digest, {FileDigest(f)}))>>
    \o [k \in DOMAIN m.tracks |-> Finding(<<"track", m.tracks[k].index>>, TrackOutcome(m.tracks[k], f))]
    \o VendorFindings(m.vendor, VendorBoxes(f))
    \o <<Finding(<<"structure">>, Compare(m.structure.fingerprint, StructuralFingerprint(f)))>>

(* every_compared_subject_is_identical *)
ComparedAll(outcomes) == outcomes
Compared(outcomes) == outcomes \ {"not recorded"}
EveryComparedSubjectIsIdentical(found) ==
    Compared({found[i].outcome : i \in DOMAIN found}) = {"identical"}

(* The file is changed by others, or left alone. *)
Change ==
    /\ pc = "measured" /\ (request.selection.kind = "none" \/ Len(files) > Len(request.inputs))
    /\ \/ UNCHANGED <<change, file>>
       \/ \E now \in Changed(file) :
            /\ IsFile(now.file) /\ now.subject # <<"none">>
            /\ change' = now.subject
            /\ file' = now.file
    /\ pc' = "changed"
    /\ UNCHANGED <<request, files, manifests, records, sample, unit, writer, findings>>

Verify ==
    /\ pc = "changed"
    /\ IF file.reads
       THEN /\ findings' = FindingsOf(manifests[Len(manifests)], file)
            /\ pc' = "done"
            /\ UNCHANGED <<request, files, manifests, records, sample, unit, writer, change, file>>
       ELSE Refuse("unreadable")

Next ==
    \/ OpenFile \/ MeasureTrack \/ RefuseTimes \/ FinishManifest
    \/ WriteStreamUnit \/ NextSample \/ RefuseSample \/ FinishStream
    \/ Export \/ Change \/ Verify

Spec == Init /\ [][Next]_vars

-----------------------------------------------------------------------------
(* The stream recorded is the one the rule describes, over every order of parameter sets and slices, except
   where a sample has several refresh slices after a sequence parameter set and no picture parameter set:
   there the picture parameter sets are written before every slice, and the stream is at least as long. *)
StreamFollowsRule ==
    \A n \in DOMAIN manifests : \A k \in DOMAIN manifests[n].tracks :
        \A stream \in manifests[n].tracks[k].stream :
            LET track == files[n].tracks[k]
                rule == RuleStream(track.samples, CHOOSE c \in Avc(track) : TRUE)
            IN IF SlicedAfterItsSequenceSet(track.samples)
               THEN Len(stream.stream) >= Len(rule)
               ELSE stream.stream = rule

(* Unchanged is confirmed, and what is confirmed is unchanged: the answer is yes for the file the manifest
   was made of, whatever it holds; and a yes means the same bytes where the whole file was digested, and
   the same shape and vendor boxes where it was not. *)
ConfirmedMeansUnchanged ==
    pc = "done" =>
        LET m == manifests[Len(manifests)]
            yes == EveryComparedSubjectIsIdentical(findings)
            original == files[Len(files)]
        IN
        /\ change = <<"none">> => yes
        /\ yes /\ m.digest # {} => file = original
        /\ yes => /\ StructuralFingerprint(file) = StructuralFingerprint(original)
                  /\ Len(VendorBoxes(file)) = Len(VendorBoxes(original))
                  /\ \A i \in DOMAIN VendorBoxes(file) : VendorBoxes(file)[i].digest = VendorBoxes(original)[i].digest

(* "The outcome is stated for that subject alone": one change is found where it was made, and nowhere else.
   - Every other track and box is identical; the whole file and the structure may show the change too.
   - The track that was changed is not identical, when it was fingerprinted; tracks that no longer read are
     not checkable.
   - The boxes of one kind and place are compared in their order: two that differ are never identical, two
     that are equal never differ, what has no counterpart is missing or unexpected.  So of several alike it
     is the last that is missing when any was removed.
   - A changed shape of no track or box is a structure that differs. *)
BoxesAt(f, subject) ==
    IF subject[2] = "user data" THEN SelectSeq(f.userData, LAMBDA box : box.kind = subject[3])
    ELSE SelectSeq(f.top, LAMBDA box : Unknown(box) /\ box.kind = subject[3])
OwnFinding(subject, outcomes) ==
    LET was == BoxesAt(files[Len(files)], subject)
        now == BoxesAt(file, subject)
    IN \A i \in DOMAIN outcomes :
         CASE i > Len(now) -> outcomes[i] = "missing"
           [] i > Len(was) -> outcomes[i] = "unexpected"
           [] OTHER ->
                IF was[i] = now[i] THEN outcomes[i] \in {"identical", "not recorded"}
                ELSE outcomes[i] = IF ~Held(was[i], subject[2]) THEN "not recorded"
                                   ELSE IF ~Held(now[i], subject[2]) THEN "not checkable" ELSE "differs"
OneChangeOneFinding ==
    pc = "done" /\ change # <<"none">> =>
        LET about(i) == findings[i].subject[1]
            others == {i \in DOMAIN findings :
                         /\ findings[i].subject # change
                         /\ about(i) \notin {"file", "structure"}
                         /\ change = <<"tracks">> => about(i) # "track"}
            own == At(findings, {i \in DOMAIN findings : findings[i].subject = change})
            outcomes == [i \in DOMAIN own |-> own[i].outcome]
            boxes(f) == Len(BoxesAt(f, change))
        IN
        /\ \A i \in others : findings[i].outcome \in {"identical", "not recorded"}
        /\ change[1] = "track" =>
             outcomes \in {<<outcome>> : outcome \in IF Scope = "full" THEN {"differs", "missing", "not checkable"}
                                                    ELSE {"not recorded"}}
        /\ change = <<"tracks">> => \A i \in DOMAIN findings : about(i) = "track" =>
             findings[i].outcome = IF Scope = "full" THEN "not checkable" ELSE "not recorded"
        /\ change[1] = "box" =>
             /\ Len(outcomes) = Max({boxes(files[Len(files)]), boxes(file)})
             /\ OwnFinding(change, outcomes)
        /\ change = <<"structure">> => outcomes = <<"differs">>

(* Every box of the recording and every box of the file is in one finding: kind by kind and place by place
   the recorded ones are those missing and those matched, the present ones those matched and unexpected,
   and no kind is both missing and unexpected. *)
BoxesAccountedFor ==
    pc = "done" =>
        LET recorded == manifests[Len(manifests)].vendor
            present == VendorBoxes(file)
            places == {<<box.location, box.kind>> : box \in ToSet(recorded) \cup ToSet(present)}
            boxes(all, place) == Cardinality({i \in DOMAIN all : <<all[i].location, all[i].kind>> = place})
            found(place, outcomes) ==
              Cardinality({i \in DOMAIN findings : findings[i].subject = <<"box">> \o place
                                                   /\ findings[i].outcome \in outcomes})
            matched == {"identical", "differs", "not recorded", "not checkable"}
        IN \A place \in places :
             /\ boxes(recorded, place) = found(place, matched) + found(place, {"missing"})
             /\ boxes(present, place) = found(place, matched) + found(place, {"unexpected"})
             /\ found(place, {"missing"}) = 0 \/ found(place, {"unexpected"}) = 0

(* The manifest of an output leads from every track it holds to one track of one source, the one it was
   copied from: every track has one source, with the fingerprint the output has, and the label says archive
   when there is more than one picture. *)
SourcesLeadToTracks ==
    \A n \in DOMAIN manifests : manifests[n].operation.kind = "export" =>
        LET m == manifests[n]
            sources == m.operation.sources
            taken == UNION {{<<s, k>> : k \in DOMAIN sources[s].tracks} : s \in DOMAIN sources}
            landing(t) == sources[t[1]].tracks[t[2]].outputIndex
            videos == Len(TracksOfKind(m, "video"))
        IN
        /\ Cardinality(taken) = Len(m.tracks)
        /\ \A k \in DOMAIN m.tracks :
             \E t \in taken :
               /\ \A u \in taken : landing(u) = m.tracks[k].index <=> u = t
               /\ sources[t[1]].tracks[t[2]].fingerprint = m.tracks[k].fingerprint
               /\ request.inputs[t[1]].tracks[sources[t[1]].tracks[t[2]].index + 1] = files[n].tracks[k]
        /\ m.operation.class = "two-track archive" <=> videos > 1
=============================================================================
