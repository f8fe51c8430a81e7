---------------------------- MODULE SampleTable ----------------------------
(***************************************************************************)
(* The tables that say where the samples of a track are stored:            *)
(* SampleTable of core/crates/adiungere-isobmff/src/samples.rs, with the   *)
(* two tables it takes from views.rs.                                      *)
(*                                                                         *)
(* A sample table box is a function from the types of its children to      *)
(* their payloads.  A payload is the count it declares and the entries its *)
(* bytes hold, which may be fewer: the code reads entries until the count  *)
(* is met or the bytes end.                                                *)
(***************************************************************************)
EXTENDS Integers, Sequences, FiniteSets, SequencesExt

CONSTANT OffsetLimit   \* the largest 64-bit offset, and decode time

ASSUME OffsetAssumption == OffsetLimit \in Nat

-----------------------------------------------------------------------------
(* The payloads. *)

IsPayload(p, entry) == p.count \in Nat /\ p.entries \in Seq(entry)
IsStbl(stbl) ==
    /\ "stts" \in DOMAIN stbl => IsPayload(stbl["stts"], Nat \X Nat)
    /\ "ctts" \in DOMAIN stbl => IsPayload(stbl["ctts"], Nat \X Int)
    /\ "stsc" \in DOMAIN stbl => IsPayload(stbl["stsc"], Nat \X Nat \X Nat)
    /\ \A kind \in {"stsz", "stz2", "stco", "co64", "stss"} \cap DOMAIN stbl : IsPayload(stbl[kind], Nat)
    /\ "stsz" \in DOMAIN stbl => stbl["stsz"].size \in Nat

(* Where a table may be stored in two forms, the first is taken when both are there. *)
SizeBox(stbl) == IF "stsz" \in DOMAIN stbl THEN "stsz" ELSE "stz2"
OffsetBox(stbl) == IF "co64" \in DOMAIN stbl THEN "co64" ELSE "stco"

(* Entries the bytes hold in full, as many as the count says: read_pairs, read_triples, read_offsets. *)
Short(p) == p.count > Len(p.entries)
Entries(p) == SubSeq(p.entries, 1, p.count)

(* read_sizes, read_compact_sizes: a size for all samples, or one each; a compact entry has 4, 8 or 16
   bits, which is only looked at when there is an entry to read. *)
SizesRefused(stbl) ==
    LET p == stbl[SizeBox(stbl)] IN
    IF SizeBox(stbl) = "stsz" THEN p.size = 0 /\ Short(p)
    ELSE p.count > 0 /\ (Short(p) \/ p.field \notin {4, 8, 16})
SizesOf(stbl) ==
    LET p == stbl[SizeBox(stbl)] IN
    IF SizeBox(stbl) = "stsz" /\ p.size # 0 THEN [i \in 1..p.count |-> p.size] ELSE Entries(p)

(* Stss::read and Ctts::read of views.rs: tables a track may do without. *)
Optional(stbl, kind) == kind \in DOMAIN stbl
CttsUnknown(stbl) == Optional(stbl, "ctts") /\ stbl["ctts"].version \notin {0, 1}

Missing(stbl) ==
    \/ "stts" \notin DOMAIN stbl
    \/ "stsc" \notin DOMAIN stbl
    \/ SizeBox(stbl) \notin DOMAIN stbl
    \/ OffsetBox(stbl) \notin DOMAIN stbl

Truncated(stbl) ==
    \/ \E kind \in {"stts", "stsc", OffsetBox(stbl)} : Short(stbl[kind])
    \/ SizesRefused(stbl)
    \/ \E kind \in {"stss", "ctts"} : Optional(stbl, kind) /\ Short(stbl[kind])

(* SampleTable::read, before its checks. *)
Decoded(stbl) ==
    [timeToSample |-> Entries(stbl["stts"]),
     sampleToChunk |-> Entries(stbl["stsc"]),
     sizes |-> SizesOf(stbl),
     chunkOffsets |-> Entries(stbl[OffsetBox(stbl)]),
     sync |-> IF Optional(stbl, "stss") THEN {Entries(stbl["stss"])} ELSE {},
     composition |-> IF Optional(stbl, "ctts") THEN {Entries(stbl["ctts"])} ELSE {}]

-----------------------------------------------------------------------------
(* SampleTable::check.  A run is a tuple whose first component, or for a chunk run whose second, is a
   number of samples. *)

SampleCount(t) == Len(t.sizes)
ChunkCount(t) == Len(t.chunkOffsets)
Covered(runs) == SumFunction([i \in DOMAIN runs |-> runs[i][1]])

TimesCoverAll(t) == Covered(t.timeToSample) = SampleCount(t)

(* The chunk after the last one of a run. *)
NextFirst(t, i) ==
    IF i < Len(t.sampleToChunk) THEN t.sampleToChunk[i + 1][1] ELSE ChunkCount(t) + 1

ChunkRunsAscend(t) ==
    LET runs == t.sampleToChunk IN
    /\ \A i \in DOMAIN runs :
         /\ runs[i][1] > IF i = 1 THEN 0 ELSE runs[i - 1][1]
         /\ runs[i][1] <= ChunkCount(t)
         /\ runs[i][2] > 0
    /\ runs # <<>> => runs[1][1] = 1

ChunksExist(t) == SampleCount(t) > 0 => t.sampleToChunk # <<>> /\ t.chunkOffsets # <<>>

SamplesInChunks(t) ==
    SumFunction([i \in DOMAIN t.sampleToChunk |->
        (NextFirst(t, i) - t.sampleToChunk[i][1]) * t.sampleToChunk[i][2]])

AnyPlacement(t) == SamplesInChunks(t) <= SampleCount(t)
ChunksPlaceAll(t) == SamplesInChunks(t) = SampleCount(t)

SyncAscends(t) ==
    \A numbers \in t.sync : \A i \in DOMAIN numbers :
        numbers[i] \in (IF i = 1 THEN 1 ELSE numbers[i - 1] + 1)..SampleCount(t)

CompositionCoversAll(t) == \A runs \in t.composition : Covered(runs) = SampleCount(t)

Consistent(t) ==
    /\ TimesCoverAll(t)
    /\ ChunkRunsAscend(t)
    /\ ChunksExist(t)
    /\ ChunksPlaceAll(t)
    /\ SyncAscends(t)
    /\ CompositionCoversAll(t)

(* SampleTable::read: what stops it, or "none". *)
TableError(stbl) ==
    IF Missing(stbl) \/ Truncated(stbl) THEN "truncated"
    ELSE IF CttsUnknown(stbl) THEN "unknown version"
    ELSE IF ~Consistent(Decoded(stbl)) THEN "inconsistent" ELSE "none"

-----------------------------------------------------------------------------
(* SampleTable::samples: every sample in decode order, located. *)

Repeated(n, x) == [k \in 1..n |-> x]
Expanded(runs) == FlattenSeq([i \in DOMAIN runs |-> Repeated(runs[i][1], runs[i][2])])

(* The chunk of every sample, in order: the chunks of each run, as often as the run says. *)
ChunkOfEach(t) ==
    FlattenSeq([i \in DOMAIN t.sampleToChunk |->
        LET run == t.sampleToChunk[i] IN
        FlattenSeq([k \in 1..(NextFirst(t, i) - run[1]) |-> Repeated(run[2], run[1] + k - 1)])])

(* Offsets and times are carried from one sample to the next; the offset starts anew with every chunk, and
   a table that ends early stands for zeros. *)
OrZero(seq, i) == IF i \in DOMAIN seq THEN seq[i] ELSE 0
Samples(t) ==
    LET chunks == ChunkOfEach(t)
        durations == Expanded(t.timeToSample)
        offset[i \in 1..Len(chunks)] ==
            IF i > 1 /\ chunks[i] = chunks[i - 1]
            THEN offset[i - 1] + OrZero(t.sizes, i - 1) ELSE t.chunkOffsets[chunks[i]]
        time[i \in 1..Len(chunks)] == IF i = 1 THEN 0 ELSE time[i - 1] + OrZero(durations, i - 1)
    IN [i \in 1..Len(chunks) |->
        [offset |-> offset[i], size |-> OrZero(t.sizes, i), time |-> time[i], duration |-> OrZero(durations, i),
         composition |-> IF t.composition = {} THEN 0
                         ELSE OrZero(Expanded(CHOOSE runs \in t.composition : TRUE), i),
         sync |-> \A numbers \in t.sync : i \in ToSet(numbers),
         chunk |-> chunks[i]]]

(* "More samples are placed than sized", "a sample offset overflows", "a decode time overflows": the
   additions are checked after every sample, the last one included. *)
SamplesRefused(t) ==
    \/ Len(ChunkOfEach(t)) > SampleCount(t)
    \/ \E i \in DOMAIN Samples(t) :
         LET s == Samples(t)[i] IN
         s.offset + s.size > OffsetLimit \/ s.time + s.duration > OffsetLimit

-----------------------------------------------------------------------------
(* What a table that was accepted promises of its samples: there are as many as are sized, each chunk holds
   its samples back to back from its offset and no chunk is empty, the samples of a chunk are consecutive
   and the chunks in order, and each sample decodes when the one before it ends, the last one at the sum of
   all durations. *)
LocatesEverySample(t) ==
    LET s == Samples(t)
        total == SumFunction([i \in DOMAIN t.timeToSample |-> t.timeToSample[i][1] * t.timeToSample[i][2]])
    IN
    /\ Len(s) = SampleCount(t)
    /\ \A c \in 1..ChunkCount(t) : s # <<>> => \E i \in DOMAIN s : s[i].chunk = c
    /\ \A i \in DOMAIN s :
         IF i > 1 /\ s[i - 1].chunk = s[i].chunk
         THEN s[i].offset = s[i - 1].offset + s[i - 1].size
         ELSE /\ s[i].chunk = IF i = 1 THEN 1 ELSE s[i - 1].chunk + 1
              /\ s[i].offset = t.chunkOffsets[s[i].chunk]
    /\ \A i \in 2..Len(s) : s[i].time = s[i - 1].time + s[i - 1].duration
    /\ s # <<>> => s[Len(s)].time + s[Len(s)].duration = total
    /\ \A numbers \in t.sync : Cardinality({i \in DOMAIN s : s[i].sync}) = Len(numbers)
=============================================================================
