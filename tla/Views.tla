------------------------------- MODULE Views -------------------------------
(***************************************************************************)
(* The typed views of core/crates/adiungere-isobmff/src/views.rs: which    *)
(* bytes of a box hold which field.  A payload is a sequence of four-byte  *)
(* words; a layout lists the fields of a box in order, with their widths   *)
(* in bytes, and a view reads when the payload holds all of them and the   *)
(* version is one the code knows.                                          *)
(***************************************************************************)
EXTENDS Integers, Sequences, FiniteSets, SequencesExt

Word == 4
Field(name, width) == [name |-> name, width |-> width]

(* Fields::versioned: 32 bits in version 0, 64 in version 1. *)
Versioned(version) == IF version = 0 THEN 4 ELSE 8

Times(version) ==
    <<Field("version and flags", 4),
      Field("creation time", Versioned(version)),
      Field("modification time", Versioned(version))>>

Mvhd(version) ==
    Times(version) \o
    <<Field("timescale", 4),
      Field("duration", Versioned(version)),
      Field("rate to predefined", 4 + 2 + 10 + 36 + 24),
      Field("next track", 4)>>

Tkhd(version) ==
    Times(version) \o
    <<Field("track", 4),
      Field("reserved", 4),
      Field("duration", Versioned(version)),
      Field("reserved", 8),
      Field("layer", 2),
      Field("alternate group", 2),
      Field("volume", 2),
      Field("reserved and matrix", 2 + 36),
      Field("width", 4),
      Field("height", 4)>>

Mdhd(version) ==
    Times(version) \o
    <<Field("timescale", 4),
      Field("duration", Versioned(version)),
      Field("language", 2)>>

Hdlr(version) ==
    <<Field("version and flags", 4),
      Field("predefined", 4),
      Field("handler", 4),
      Field("reserved", 12)>>

Stsd(version) == <<Field("version and flags", 4), Field("entry count", 4)>>

(* Elst::read: as many entries as the third word says. *)
Elst(version) == <<Field("version and flags", 4), Field("entry count", 4)>>
ElstEntry(version) == 2 * Versioned(version) + 4

Bytes(fields) == SumFunction([i \in DOMAIN fields |-> fields[i].width])

(* Fields::take: the byte a field begins at, and the word that holds it. *)
Before(fields, name) ==
    Bytes(SubSeq(fields, 1, (CHOOSE i \in DOMAIN fields : fields[i].name = name) - 1))
Get(payload, fields, name) == payload[Before(fields, name) \div Word + 1]

VersionOf(payload) == payload[1]

(* A view reads, or the track does not. *)
Holds(payload, fields) == Bytes(fields) <= Word * Len(payload)
Reads(payload, layout(_)) ==
    /\ payload # <<>>
    /\ VersionOf(payload) \in {0, 1}
    /\ Holds(payload, layout(VersionOf(payload)))
ReadsAnyVersion(payload, layout(_)) == payload # <<>> /\ Holds(payload, layout(VersionOf(payload)))
ReadsElst(payload) ==
    /\ Reads(payload, Elst)
    /\ Bytes(Elst(0)) + payload[2] * ElstEntry(VersionOf(payload)) <= Word * Len(payload)

TrackOf(tkhd) == Get(tkhd, Tkhd(VersionOf(tkhd)), "track")
NextTrackOf(mvhd) == Get(mvhd, Mvhd(VersionOf(mvhd)), "next track")
TimescaleOf(mdhd) == Get(mdhd, Mdhd(VersionOf(mdhd)), "timescale")

(* Track::read: a track needs these boxes, an edit list it may have. *)
HeadersRead(headers) ==
    /\ {"tkhd", "mdhd", "hdlr", "stsd"} \subseteq DOMAIN headers
    /\ Reads(headers["tkhd"], Tkhd)
    /\ Reads(headers["mdhd"], Mdhd)
    /\ ReadsAnyVersion(headers["hdlr"], Hdlr)
    /\ ReadsAnyVersion(headers["stsd"], Stsd)
    /\ "elst" \in DOMAIN headers => ReadsElst(headers["elst"])
=============================================================================
