-------------------------------- MODULE Names --------------------------------
(***************************************************************************)
(* The grammars of file names: core/crates/adiungere-scan/src/grammar.rs.  *)
(*                                                                         *)
(* A name is a stem and an extension; a stem is a sequence of tokens, each *)
(* a piece of text with the time it writes out, or zero when it is not a   *)
(* timestamp.  Two texts may write one time out, one with dashes and one   *)
(* without.  Words for a camera and extensions are compared without regard *)
(* to case and have one spelling here; letters have two where the code     *)
(* tells them apart.                                                       *)
(***************************************************************************)
EXTENDS Integers, Sequences, SequencesExt, TLC

(* split_extension, and the wider list of extensions a scan opens. *)
Extensions == {"mp4", "mov"}
RecordingExtensions == Extensions \cup {"m4v", "3gp", "3g2"}

Events == [E |-> "event", M |-> "manual", N |-> "normal"]
Spelt(front, rear, interior) ==
    [text \in front \cup rear \cup interior |->
        IF text \in front THEN "front" ELSE IF text \in rear THEN "rear" ELSE "interior"]
CameraWords ==
    Spelt({"-front", "_front"}, {"-back", "_back", "-rear", "_rear"}, {"-interior", "_interior"})
CameraLetters == Spelt({"F", "f"}, {"R", "r"}, {"I", "i"})
QualityLetters == {"H", "h", "L", "l"}

(* timestamp: the time a stem begins with, zero when it begins with none. *)
Timestamp(stem) == IF stem = <<>> THEN 0 ELSE Head(stem).time
Ends(stem, texts) == stem # <<>> /\ Last(stem).text \in texts

Parsed(grammar, stem, camera, event) ==
    {[grammar |-> grammar, stem |-> stem, camera |-> camera, event |-> event, time |-> Timestamp(stem)]}

TimestampEventLetter(stem) ==
    IF Len(stem) = 2 /\ Timestamp(stem) # 0 /\ Ends(stem, DOMAIN Events)
    THEN Parsed("timestamp_event_letter", Front(stem), "all", Events[Last(stem).text])
    ELSE {}

StemCameraWord(stem) ==
    IF Len(stem) > 1 /\ Ends(stem, DOMAIN CameraWords)
    THEN Parsed("stem_camera_word", Front(stem), CameraWords[Last(stem).text], "none")
    ELSE {}

(* The letter of the camera, a letter of quality after it or not, and the timestamp before it, with an
   underscore between them or not, and nothing else. *)
StemCameraLetter(stem) ==
    LET named == IF Ends(stem, QualityLetters) /\ Ends(Front(stem), DOMAIN CameraLetters)
                 THEN Front(stem) ELSE stem
        rest == Front(named)
        shared == IF Ends(rest, {"_"}) THEN Front(rest) ELSE rest
    IN IF Ends(named, DOMAIN CameraLetters) /\ Len(shared) = 1 /\ Timestamp(shared) # 0
       THEN Parsed("stem_camera_letter", shared, CameraLetters[Last(named).text], "none")
       ELSE {}

(* parse_name: the first grammar that fits. *)
ParseName(name) ==
    LET orElse(some, other) == IF some # {} THEN some ELSE other
    IN IF name.extension \notin Extensions THEN {}
       ELSE orElse(TimestampEventLetter(name.stem),
                   orElse(StemCameraWord(name.stem), StemCameraLetter(name.stem)))

(* Grammar::measured: its files are known from a recorder, and grammar_carries_vendor_boxes. *)
Measured(grammar) == grammar = "timestamp_event_letter"
CarriesVendorBoxes(grammar) == grammar = "timestamp_event_letter"

WorthOpening(name) == name.extension \in RecordingExtensions \/ ParseName(name) # {}
=============================================================================
