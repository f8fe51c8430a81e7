----------------------------- MODULE Recordings -----------------------------
(***************************************************************************)
(* What a probe says of a file, the signs of a rewrite, and the grouping   *)
(* of files into recordings: probe.rs, derivative.rs and recording.rs of   *)
(* core/crates/adiungere-scan/src.                                         *)
(*                                                                         *)
(* What a file holds is its size and, when it reads as a container, its    *)
(* tracks, the boxes of its user data, how many top-level boxes are        *)
(* unknown, and the order of its movie and media boxes.  The tags,         *)
(* durations and clocks a summary also lists are left out: nothing here is *)
(* decided by them.                                                        *)
(***************************************************************************)
EXTENDS Names, Places

-----------------------------------------------------------------------------
(* summarise, count_vendor_boxes. *)

Count(tracks, Wanted(_)) == Len(SelectSeq(tracks, Wanted))
CountVendorBoxes(content) == Count(content.userData, LAMBDA box : ~box.standard) + content.unknown
IsVideo(track) == track.kind = "video"
Picture(tracks) ==
    LET videos == SelectSeq(tracks, IsVideo)
    IN IF videos = <<>> \/ ~Head(videos).visual THEN {} ELSE {<<Head(videos).width, Head(videos).height>>}

Summarise(content) ==
    IF ~content.reads THEN {}
    ELSE {[videoTracks |-> Count(content.tracks, IsVideo),
           moovFirst |-> content.moovFirst,
           vendorBoxes |-> CountVendorBoxes(content),
           picture |-> Picture(content.tracks),
           foreignTags |-> UNION {content.userData[i].tags : i \in DOMAIN content.userData}]}

(* probe_source; a container that does not read is a finding about the file. *)
ProbeSource(name, size, container) ==
    [name |-> name, size |-> size, parsed |-> ParseName(name), container |-> container,
     unreadable |-> container = {}]
(* scan: what is said of a file that cannot be opened. *)
NotOpened(name, size) ==
    [name |-> name, size |-> size, parsed |-> {}, container |-> {}, unreadable |-> TRUE]

-----------------------------------------------------------------------------
(* assess. *)

The(option) == CHOOSE x \in option : TRUE

Everyone(probe, sibling) == TRUE
AreSiblings(probe, sibling) ==
    \E mine \in probe.parsed, theirs \in sibling.parsed :
        mine.grammar = theirs.grammar \/ (mine.time # 0 /\ mine.time = theirs.time)

(* The other files of the population that read; a file is not its own sibling. *)
Comparable(probe, siblings) ==
    UNION {s.container : s \in {s \in siblings : s.name # probe.name /\ AreSiblings(probe, s)}}

(* The picture of the widest, and of these the highest. *)
Largest(comparable) ==
    LET pictures == UNION {other.picture : other \in comparable}
    IN {p \in pictures : \A q \in pictures : q[1] < p[1] \/ (q[1] = p[1] /\ q[2] <= p[2])}

Signals(probe, summary, comparable) ==
    {<<"moov after mdat">> : x \in {x \in summary.moovFirst : ~x}}
    \cup {<<"foreign muxer tag", tag>> : tag \in summary.foreignTags}
    \cup {<<"single video track where sibling has two">> :
            x \in {o \in comparable : summary.videoTracks = 1 /\ o.videoTracks >= 2}}
    \cup (IF /\ summary.vendorBoxes = 0
             /\ \/ \E parsed \in probe.parsed : CarriesVendorBoxes(parsed.grammar)
                \/ \E other \in comparable : other.vendorBoxes > 0
          THEN {<<"vendor boxes absent">>} ELSE {})
    \cup {<<"resolution below siblings", sibling>> :
            sibling \in {s \in Largest(comparable) :
                           \E own \in summary.picture : own[1] < s[1] \/ own[2] < s[2]}}

Assess(probe, siblings) ==
    [layoutKnown |-> \E parsed \in probe.parsed : Measured(parsed.grammar),
     signals |-> UNION {Signals(probe, summary, Comparable(probe, siblings)) : summary \in probe.container}]

-----------------------------------------------------------------------------
(* group: files that stand alone in the order they come, then the stems. *)

Stem(file) == The(file.probe.parsed).stem
Camera(file) == The(file.probe.parsed).camera
Grouped(file) == ~file.probe.unreadable /\ file.probe.parsed # {} /\ Camera(file) # "all"
CameraOrder == [front |-> 0, rear |-> 1, interior |-> 2]

(* sort_by_key is stable: files of one camera stay in the order they came. *)
InOrderGiven(files, places) == Sorted(places)
InCameraOrder(files, places) ==
    LET order(i) == CameraOrder[Camera(files[i])]
    IN InOrder(places, {x \in places \X places :
                          order(x[1]) < order(x[2]) \/ (order(x[1]) = order(x[2]) /\ x[1] < x[2])})

Recording(kind, members, siblings) ==
    [kind |-> kind, members |-> members,
     origins |-> [i \in DOMAIN members |->
                    IF kind = "unreadable" THEN {} ELSE {Assess(members[i].probe, siblings)}]]
Alone(file, siblings) ==
    Recording(IF file.probe.unreadable THEN "unreadable"
              ELSE IF file.probe.parsed = {} THEN "unrecognised" ELSE "single file", <<file>>, siblings)

FilesAlone(files) == {i \in DOMAIN files : ~Grouped(files[i])}
LastFileOfStem(files, stem) ==
    LET all == {i \in DOMAIN files : Grouped(files[i]) /\ Stem(files[i]) = stem}
    IN {i \in all : \A j \in all : j <= i}
FilesOfStem(files, stem) == {i \in DOMAIN files : Grouped(files[i]) /\ Stem(files[i]) = stem}

OfStem(files, stem, siblings) ==
    LET places == InCameraOrder(files, FilesOfStem(files, stem))
    IN Recording(IF Len(places) = 1 THEN "unpaired" ELSE "paired",
                 [k \in DOMAIN places |-> files[places[k]]], siblings)

Siblings(files) == {files[i].probe : i \in DOMAIN files}
Stems(files) == {Stem(files[i]) : i \in DOMAIN files \ FilesAlone(files)}

Group(files) ==
    LET alone == InOrderGiven(files, FilesAlone(files))
    IN [k \in DOMAIN alone |-> Alone(files[alone[k]], Siblings(files))]
       \o SetToSeq({OfStem(files, stem, Siblings(files)) : stem \in Stems(files)})
=============================================================================
