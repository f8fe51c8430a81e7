------------------------------ MODULE MCExport ------------------------------
(* Instances of Export: the directories and the requests of the runs. *)
EXTENDS Export

CONSTANTS i1, i2, i3, i4, i5, i6, e1, e2, f1

Clip == <<"clip", "mp4">>
Rear == <<"rear", "mp4">>
Joined == <<"joined", "mp4">>
JoinedPart == <<"joined", "part">>
ClipPart == <<"clip", "part">>
ClipManifest == <<"clip", "mp4", "manifest", "json">>
JoinedManifest == <<"joined", "mp4", "manifest", "json">>

Export1(sources, out, manifest) == [files |-> sources, out |-> out, manifest |-> manifest]
Fingerprint1(file, manifest) == [files |-> <<file>>, out |-> <<>>, manifest |-> manifest]

Nowhere == <<"nowhere">>
ClipMov == <<"clip", "mov">>
ClipMovManifest == <<"clip", "mov", "manifest", "json">>
RearManifest == <<"rear", "json">>

(* One export: two recordings joined over an older output, its manifest and an older partial file, a recording
   alone, to there and to a name whose partial file may not be removable, and the names a user could get
   wrong: a source as the output, as the manifest, as the partial file of the output, a source that is a
   manifest, and one that is not there.  Beside it a fingerprint of a recording, asked for a manifest or not,
   or of a name that leads nowhere. *)
SideNames ==
    {Clip, Rear, Joined, JoinedPart, JoinedManifest, ClipManifest, ClipPart, ClipMov, ClipMovManifest,
     RearManifest, Nowhere}
SideEntry == [n \in SideNames |-> CASE n = Clip -> i1 [] n = Rear -> i2 [] n = Joined -> i3
                                    [] n = JoinedPart -> i4 [] n = JoinedManifest -> i6 [] OTHER -> NoFile]
SideOlder == {JoinedManifest}
SideStuck == {ClipPart}
Alone == Export1(<<Rear>>, Joined, <<>>)
Missed == Fingerprint1(Nowhere, <<>>)
SideRequests == [j \in {e1, f1} |->
    IF j = e1
    THEN {Alone, Export1(<<Clip, Rear>>, Joined, <<>>), Export1(<<Rear>>, ClipMov, <<>>),
          Export1(<<Clip>>, Joined, ClipPart), Export1(<<Clip>>, Clip, <<>>), Export1(<<Clip>>, Joined, Clip),
          Export1(<<JoinedPart>>, Joined, <<>>), Export1(<<ClipPart>>, Joined, <<>>),
          Export1(<<JoinedManifest>>, Joined, ClipPart)}
    ELSE {Fingerprint1(Rear, RearManifest), Fingerprint1(Rear, <<>>), Missed}]

(* The fingerprint reads what the export reads when the export has one source; beside the other requests it
   finds nothing. *)
SideInit == Init /\ (request[e1] = Alone <=> request[f1] # Missed)
SideSpec == SideInit /\ [][Next]_vars /\ Fairness

(* A fingerprint whose manifest is written over the recording it describes. *)
OverNames == {Clip}
OverEntry == [n \in OverNames |-> i1]
OverRequests == [j \in {f1} |-> {Fingerprint1(Clip, Clip)}]

(* Two exports of one recording whose outputs differ in the extension only: both write joined.part. *)
JoinedMov == <<"joined", "mov">>
MovManifest == <<"joined", "mov", "manifest", "json">>
SharedNames == {Clip, Joined, JoinedPart, JoinedManifest, JoinedMov, MovManifest}
SharedEntry == [n \in SharedNames |-> IF n = Clip THEN i1 ELSE NoFile]
SharedRequests == [j \in {e1, e2} |-> {Export1(<<Clip>>, IF j = e1 THEN Joined ELSE JoinedMov, <<>>)}]
=============================================================================
