----------------------------- MODULE MCManifest -----------------------------
(***************************************************************************)
(* Streams: every order of parameter sets, refresh slices and other units  *)
(* in two samples.  Recordings: a front and a rear camera with vendor      *)
(* boxes of the same kind in two places, measured, exported and compared   *)
(* after one change.                                                       *)
(***************************************************************************)
EXTENDS Manifest

U(type, opens, n) == [type |-> type, opens |-> opens, bytes |-> n]
Units == {U("sps", FALSE, 1), U("pps", FALSE, 1), U("refresh", TRUE, 1), U("refresh", FALSE, 1), U("other", TRUE, 1)}
UpTo(n) == UNION {[1..k -> Units] : k \in 0..n}

AvcC(pictures, bytes) ==
    [kind |-> "avcC", version |-> 1, bytes |-> bytes, sequence |-> <<U("sps", TRUE, 2)>>,
     picture |-> [i \in 1..pictures |-> U("pps", TRUE, 2 + i)]]
Esds == [kind |-> "esds", version |-> 0, bytes |-> 1]
Entry(kind, configuration) == {[kind |-> kind, configuration |-> configuration, compressor |-> ""]}
Video(samples, pictures) ==
    [kind |-> "video", timescale |-> 30, entry |-> Entry("avc1", {AvcC(pictures, 1)}), samplesRead |-> TRUE,
     samples |-> samples]
Audio(n) ==
    [kind |-> "audio", timescale |-> 48, entry |-> Entry("mp4a", {Esds}), samplesRead |-> TRUE,
     samples |-> <<<<U("other", FALSE, n)>>>>]
Text == [kind |-> "text", timescale |-> 1, entry |-> Entry("mett", {}), samplesRead |-> TRUE, samples |-> <<>>]
Bare == [kind |-> "video", timescale |-> 1, entry |-> {}, samplesRead |-> TRUE, samples |-> <<>>]
Old(track) == [track EXCEPT !.entry = Entry("avc1", {[AvcC(1, 1) EXCEPT !.version = 0]})]

Box(kind, bytes) == [kind |-> kind, size |-> 8 + bytes, bytes |-> bytes, clipped |-> FALSE]
Unheld(kind) == Box(kind, HoldCap)
Clipped(kind) == [Box(kind, 5) EXCEPT !.clipped = TRUE]

File(tracks, top, userData) ==
    [reads |-> TRUE, tracksRead |-> TRUE, timesRead |-> TRUE, brand |-> "isom", top |-> top, userData |-> userData,
     moov |-> <<"mvhd">> \o [k \in DOMAIN tracks |-> "trak"] \o <<"udta">>, tracks |-> tracks, other |-> 1]

Plain == <<Box("ftyp", 1), Box("moov", 2), Box("mdat", 3)>>
None == [kind |-> "none", tracks |-> <<>>]
Named(tracks) == [kind |-> "tracks", tracks |-> tracks]

Streams ==
    {[inputs |-> <<File(<<Video(<<a, b>>, n)>>, Plain, <<>>)>>, scope |-> "full", selection |-> None] :
       a \in UpTo(3), b \in UpTo(2), n \in {2}}
    \cup {[inputs |-> <<File(<<Video(<<a, b>>, n)>>, Plain, <<>>)>>, scope |-> "full", selection |-> None] :
       a \in UpTo(1), b \in UpTo(1), n \in {0, 1}}

-----------------------------------------------------------------------------
(* Recordings and their vendor boxes. *)

Front1 == Video(<<<<U("refresh", TRUE, 1)>>, <<U("other", FALSE, 2)>>>>, 1)
Rear1 == Video(<<<<U("sps", FALSE, 1), U("refresh", TRUE, 3)>>>>, 1)

TopLevels ==
    {<<Box("ftyp", 1), Box("mdat", 3), Box("moov", 2)>> \o rest :
       rest \in {<<>>, <<Box("vend", 1), Box("vend", 2)>>, <<Unheld("vend"), Box("vend", 1)>>,
                 <<Box("free", 1), Box("gps ", 1)>>, <<Box("vend", 1), Clipped("gps ")>>}}
    \cup {<<Box("gps ", 1)>> \o Plain, <<Box("ftyp", 1), Box("moov", 2)>>}
UserDatas == {<<>>, <<Box("vend", 1)>>, <<Box("vend", 1), Box("vend", 2), Box("vend", 1)>>, <<Box("gps ", 2), Box("vend", 1)>>}

Recordings == {File(<<Front1, Audio(1)>>, top, userData) : top \in TopLevels, userData \in UserDatas}
Compared1 ==
    {[inputs |-> <<f>>, scope |-> scope, selection |-> None] : f \in Recordings, scope \in {"structure", "full"}}

TwoCameras == File(<<Front1, Rear1, Audio(1)>>, <<Unheld("gps ")>> \o Plain, <<Box("vend", 1)>>)
OneCamera == File(<<Audio(1), Front1>>, Plain, <<Box("vend", 2)>>)
RearCamera == File(<<Audio(2), Rear1, Audio(3)>>, Plain, <<>>)
Odd ==
    {File(<<Front1, Text>>, Plain, <<>>), File(<<Bare>>, Plain, <<>>), File(<<Old(Front1)>>, Plain, <<>>),
     File(<<>>, Plain, <<>>), File(<<Audio(1)>>, Plain, <<>>),
     File(<<Video(<<<<U("other", FALSE, 1), U("torn", FALSE, 1)>>>>, 1)>>, Plain, <<>>),
     File(<<[Front1 EXCEPT !.samplesRead = FALSE]>>, Plain, <<>>),
     [TwoCameras EXCEPT !.tracksRead = FALSE], [TwoCameras EXCEPT !.timesRead = FALSE], [TwoCameras EXCEPT !.reads = FALSE]}
Selections ==
    {[kind |-> kind, tracks |-> <<>>] : kind \in {"none", "front", "rear", "both"}}
    \cup {Named(tracks) : tracks \in {<<>>, <<0>>, <<2, 0>>, <<1, 1>>, <<0, 5>>}}
Exported ==
    {[inputs |-> <<f>>, scope |-> scope, selection |-> selection] :
       f \in {TwoCameras} \cup Odd, scope \in {"structure", "full"}, selection \in Selections}
    \cup {[inputs |-> <<OneCamera, f>>, scope |-> "full", selection |-> selection] :
       f \in {OneCamera, RearCamera} \cup Odd, selection \in Selections \ {None}}

Requests == Streams \cup Compared1 \cup Exported

-----------------------------------------------------------------------------
(* What one hand changes. *)

Altered(box) == [box EXCEPT !.bytes = @ + 100]
(* What of a top-level box is a subject of its own. *)
TopSubject(box) ==
    IF ~Unknown(box) THEN <<"file">> ELSE <<"box", "top level", box.kind>>

EveryChange(f) ==
    LET to(subject, now) == [subject |-> subject, file |-> now]
        track(k) == <<"track", k - 1>>
        user(i) == <<"box", "user data", f.userData[i].kind>>
    IN
    {to(<<"file">>, [f EXCEPT !.other = 2]), to(<<"file">>, [f EXCEPT !.reads = FALSE]),
     to(<<"tracks">>, [f EXCEPT !.tracksRead = FALSE]), to(<<"structure">>, [f EXCEPT !.brand = "mp42"]),
     to(<<"structure">>, [f EXCEPT !.timesRead = FALSE])}
    \cup UNION {
      {to(track(k), [f EXCEPT !.tracks[k].entry = Entry("hvc1", {Esds})]),
       to(track(k), [f EXCEPT !.tracks[k].entry = {}]),
       to(track(k), [f EXCEPT !.tracks[k].samplesRead = FALSE]),
       to(track(k), [f EXCEPT !.tracks[k].entry = {[e EXCEPT !.configuration = {[c EXCEPT !.bytes = 7] : c \in @}] : e \in @}]),
       to(track(k), [f EXCEPT !.tracks[k].samples = Append(@, <<U("other", TRUE, 9)>>)]),
       to(<<"file">>, [f EXCEPT !.tracks[k].samples = <<FlattenSeq(@)>>])} : k \in DOMAIN f.tracks}
    \cup {to(track(k), [f EXCEPT !.tracks[k].samples[1][1].bytes = 7]) :
            k \in {k \in DOMAIN f.tracks : f.tracks[k].samples # <<>> /\ f.tracks[k].samples[1] # <<>>}}
    \cup {to(track(k), [f EXCEPT !.tracks = Front(@)]) : k \in {k \in DOMAIN f.tracks : k = Len(f.tracks)}}
    \cup UNION {
      {to(user(i), [f EXCEPT !.userData[i] = Altered(@)]),
       to(user(i), [f EXCEPT !.userData = RemoveAt(@, i)]),
       to(user(i), [f EXCEPT !.userData = @ \o <<f.userData[i]>>])} : i \in DOMAIN f.userData}
    \cup UNION {
      {to(TopSubject(f.top[i]), [f EXCEPT !.top[i] = Altered(@)]),
       to(TopSubject(f.top[i]), [f EXCEPT !.top[i].size = IF @ <= HoldCap THEN HoldCap + 1 ELSE HoldCap]),
       to(TopSubject(f.top[i]), [f EXCEPT !.top = <<f.top[i]>> \o RemoveAt(@, i)])} :
         i \in {i \in DOMAIN f.top : f.top[i].kind # "moov"}}
ChangesOf(f) == IF Len(f.tracks) < 2 THEN {} ELSE {now \in EveryChange(f) : now.file # f}
=============================================================================
