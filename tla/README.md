# Adiungere, modelled

Adiungere reads recordings of dashboard cameras (ISO base media files), describes them, fingerprints them,
and joins a front and a rear recording into one file without re-encoding. This directory holds TLA+ modules
of its core (`core/crates`), the TLC instances that check them, and TLAPS proofs about them.

## The system

| Component | Code | State | Operations | What is hard |
|---|---|---|---|---|
| export and fingerprint commands | `adiungere-cli/src/media.rs`, `main.rs` | files: sources, partial file, output, manifest; an interrupt flag | refuse, open, build manifests, copy, flush, read back, compare, rename, write the manifest, remove | sources that change while they are read, failures and crashes between any two steps, interruption at any moment, names that coincide |
| box reader | `adiungere-isobmff/src/parse.rs`, `tree.rs`, `source.rs` | position, ranges found, bytes held, the request outstanding; below the movie box, a recursion | `step`, `feed`, `body_request`, `enumerate`, the drivers `parse` and `parse_async` | calls in any order, headers at the end of a file, sizes of zero, truncated and pre-allocated files, vendor boxes that overrun, caps |
| box views | `adiungere-isobmff/src/views.rs` | none (pure) | fields of header boxes by version | widths that move every later field |
| sample tables | `adiungere-isobmff/src/samples.rs` | none (pure) | `read`, `check`, `samples`, `read_sample` | five tables that count the same samples in different ways |
| remux | `adiungere-isobmff/src/remux.rs` | a layout being written | selection, renumbering, interleaving, offsets, copy | offsets fixed before the bytes are copied, 32 against 64 bits, references between renumbered tracks |
| track fingerprint and Annex B stream | `adiungere-fingerprint/src` | the writer's parameter-set state | digests of samples, of the elementary stream, of the structure | a state kept across units |
| manifest builder and verification | `adiungere-manifest/src` | the records made, the findings collected | `build`, `build_for_export`, `verify` | several passes over a file that may change; greedy matching of vendor boxes |
| scan and its cache | `adiungere-scan/src/lib.rs`, `cache.rs`, `probe.rs` | the cache file: path, size, time, result | `scan`, `load`, `save`, `get`, `insert` | files that change between a probe and the next scan, within the resolution of their time |
| grouping, grammar, origin | `adiungere-scan/src/recording.rs`, `grammar.rs`, `derivative.rs` | none (pure) | names parsed, files grouped into recordings, derivatives assessed | which two files are a pair; witnesses that could not be read |
| fixtures | `adiungere-fixtures/src` | none (pure) | the recordings the tests run on | a movie box that holds offsets that depend on its own size |
| evidence tools, guarantee tests, apps | the rest | none of the product | | not modelled |

How they interact: `export` opens each source (`open_source`), which *parses* it for the manifest (`build`),
*digests* it, and *parses* it a second time for the copy; `remux` then writes a movie box laid out from that
second parse and copies the media chunk by chunk, calling back after each one (`write_output`'s progress
closure, which reads the interrupt flag); the partial file is then parsed and digested again (`read_back`)
and compared with the manifests. `verify` runs `build` and compares records. `detect` scans through the
cache, probes files by parsing them and groups the results. There are no threads: concurrency comes from
other processes (a recorder that is still writing, another command, the user's interrupt) and from the file
system.

What makes each component correct:

- **commands**: an output under its final name is whole and is what the sources were; nothing that is read
  is written; a manifest describes an output that is there; every command ends; an interruption is honoured;
- **reader**: the ranges tile the file and every container in it; the media is not read; the reader always
  progresses and ends, and a refusal leaves it where it was; a cap refuses and never misreads;
- **sample tables, remux**: an accepted table places each sample once; every sample of an output leads to
  the bytes it led to before; references survive; the report is true;
- **fingerprint, manifest**: the stream is the one its rule describes; one difference, one finding; an
  output's manifest leads back to its sources;
- **scan**: a cached answer is the answer a fresh probe would give; nothing given is lost; a stem is one recording.

## Modules

| Module | Models |
|---|---|
| `Export` | `export` and `fingerprint`, one process per job over one file system |
| `AtomicExport` | what an export promises: the output appears whole, in one step, and is a snapshot |
| `MCExport`, `MCExportApart` | the directories and requests of the runs; `MCExportApart` has the hypotheses of the theorems checked of them |
| `ExportProofs`, `ExportSnapshotProofs` | theorems about `Export`, the second on top of the first |
| `Reader` | `Parser`: `step` and `feed` under any caller |
| `ReaderDriver` | `parse` / `parse_async` over a source that may fail |
| `MCReader`, `MCReaderDriver` | the bytes and caps of their runs |
| `ReaderProofs` | theorems about both |
| `Children`, `MCChildren`, `ChildrenProofs` | the boxes inside a movie box; its instance; theorems |
| `SampleTable`, `Views` | pure: reading, checking and expanding sample tables; the fields of header boxes |
| `Remux` | `remux`, over `SampleTable` and `Views` |
| `Fixture` | pure: the builder of the synthetic recordings, as inputs of `Remux` |
| `RemuxProofs` | theorems about `Remux`, with the lemmas on sums and tables they rest on |
| `MCRemux` | tables, recordings, joins and the corpus of the runs of `Remux` |
| `AnnexB` | the writer of the elementary stream, and its rule over whole samples |
| `Manifest`, `MCManifest`, `ManifestProofs` | measuring, choosing tracks, making an output, comparing; its instance; theorems |
| `Places`, `PlacesProofs` | some elements of a sequence, in an order; what is true of listing, sorting, counting and induction |
| `Names`, `Recordings` | pure: the grammars of file names; probes, signs of a rewrite, grouping |
| `Scan`, `MCScan`, `ScanProofs` | `detect`: scans through a cache while files are written; its instance; theorems |

### Export

A job is a process with a program counter (`pc`); its steps are the system calls and the reads that others can
interleave with. `request` is the command line: the sources, the output, the manifest path. `entry` is the
directory (name to inode), `content` what each inode holds. A recording holds one *version* per unit (the
decoder configuration in the movie box, the samples of a track): an edit of a source gives a unit a version it
never had, and a digest is the version digested. So a file that returns to earlier bytes is not distinguished
from one that never does: the snapshot property says what the comparison of digests can say at best.

`CheckNames` is the refusal (`same_file` on each source and each name written); `OpenSource`, `BuildUnit`
and `ParseSource` are `open_source`, the reads of `build` one unit at a time; `CreatePartial`, `WriteHead`,
`CopyPiece`, `Flush`, `RemuxFails` are `write_output` around `remux`; `ReadBack` re-reads the partial file by
name and compares; `Rename`, `CreateManifest`, `FillManifest` (the two halves of `fs::write`) and
`RemovePartial` follow. `Interrupt` sets the flag of the handler, which `main.rs` installs for exports only.
`Crash` stops a process at any step; `Edit` changes a source between any two steps; `Faults` names the
operations that may fail. A write through a handle whose file another job took over garbles it
(`WriteThrough`). Names of the model are resolved already, as `canonicalize` leaves them: two names may still
lead to one inode, which is a hard link. `Older` names the manifests of earlier exports that stand at the start;
every other file is a recording until a job writes it. `Stuck` names the files whose removal may fail, which the code
does not look at (`let _ = fs::remove_file`).

### Reader and children

The state of `Reader` is `Parser`'s, field for field, plus `answer`, what the last call returned. A header is
any element of `Bytes`, chosen when it is fed: nothing is read twice as a header, so every file is covered,
those that change under the reader too. Header lengths (8, 16) are the code's; the caps are small in the runs
and arbitrary in the proofs. Whether a movie box's children read is one choice of `FeedBody`/`FeedBadBody`.
Offsets are not wrapped: the only addition that could overflow is `checked_add`, and its failure takes the
branch of an end past the file. `ReaderDriver` adds the loop of the drivers and the ranges they read.

`Children` is what that one choice stands for: `enumerate` and `Child::enumerate`, their recursion as a stack
(`open`), one child header a step. `boxes` is the tree found so far, each box with its parent. A container of
the movie is read strictly; user data, sample descriptions and sample entries leniently (`Lenient`): bytes
that do not read as a box become one clipped range to the end of the parent, a child that overruns is clipped
to it.

### Sample tables and remux

`SampleTable` reads the five tables (`TableError` in the order of the code's checks), expands them
(`Samples`), and says independently what expanding must give (`LocatesEverySample`). `Views` lists the fields
of the header boxes with their widths, from which identifiers are read and patched. `Remux` selects, renumbers,
interleaves by time, lays the movie box out with narrow offsets and again with wide ones when the media ends
past the limit, and copies one chunk a step, where it may fail or be cancelled. Media is not stored: a piece of
the output is the input and the range it was read from, so that "the same bytes" is "the same place".
`Fixture` builds the tests' own recordings, and `MCRemux` has TLC evaluate that what the builder says of them
is in them (`CorpusIsExact`), before they are remuxed.

### Manifest

One behaviour: the inputs are measured, unit by unit through the `AnnexB` writer; tracks are chosen and an
output is made, which is measured too (`Export`, `FinishManifest`); one hand changes the file of the last
manifest (`Change`) or leaves it; `Verify` collects the findings. A recording may be refused at each step of
`assemble`: it does not read, its tracks or samples do not, or its movie header does not (`RefuseTimes`). A digest
is the value digested. The output is
`remux` seen from outside; the bytes it copies are `Remux`'s business, and the order in which files are read
and written `Export`'s.

### Scan

`Names` parses a name as the three grammars do, `Recordings` holds `summarise`, the signs of a derivative and
`group`. `Scan` runs `detect` over a cache file: the cache is loaded (what does not parse is no cache), paths
are collected and sorted (`IsCollected` says which lists those are), each is looked up under its size and time
(`Stat`), measured, opened and read (`MeasureFile`, `OpenFile`, `Probe`), grouped (`Answer`), and the cache written
over the old one in two halves (`EmptyText`, `WriteText`). Others write and remove files between any two of these;
the clock moves; system calls fail, a listing among them, which leaves out an entry or everything under a directory
(`LeftOut`); the process dies. A listing and a reading are one step each.

## What the runs check

| Run | Instance | Shows |
|---|---|---|
| `export_side` | an export and a fingerprint side by side. Nine requests of the export: a single source and a join over an older output, its manifest and an older partial file; a name whose partial file may not be removable; a manifest of its own name; the output, the manifest or the partial file named like a source; a source that is a manifest; a missing source. Every fault; interrupts; crashes; one edit per unit | types, `OutputIsFinished`, `OutputIsASnapshot`, `SourcesSurvive`, `ManifestDescribesOutput`, `NoPartialLeftBehind`, `PublishedOnce`, refinement of `AtomicExport`, and the liveness properties `EveryJobEnds`, `InterruptionIsHonoured` |
| `fingerprint_over` | `fingerprint clip.mp4 --manifest clip.mp4` | a violation of `SourcesSurvive` |
| `export_shared` | two exports, to `joined.mp4` and `joined.mov` | a violation of `OutputIsFinished` |
| `reader_calls` | `step` and `feed` in any order; files of 2, 6, 24, 30 bytes; sizes 0, 7, 8, 12, 20, 22 and wide ones of 0, 15, 16, 20, 1000; caps of 12, 16 and 20 bytes and three boxes | tiling, the clipped tail, one movie box, what is held, progress, the cap, errors that change nothing |
| `reader_loop` | the drivers on the same files | they return, keep the protocol, ask within the file, and read nothing of the media past 16 bytes |
| `reader_movie` | files of 6 and 14 bytes | a violation of `FinishedWithAMovie` |
| `children` | payloads of 5 and 44 bytes, any content, three levels, two children a box | `EveryByteInOneChild`, `ClippedOnlyAtTheEnd`, and `CapsAreHonest`: the caps bound the tree, what is past one refuses the file, and a file read in full left nothing out |
| `remux` | every combination of small tables; one recording kept in part; joins; the corpus, alone and in pairs | `SamplesSurvive`, `AcceptedTablesAgree`, `ReferencesResolve`, `ReportMatchesOutput`, `RemuxIsIdempotent` |
| `remux_unknown` | an unknown last box that says it goes to the end of the file | a violation of `UnknownBoxesSurvive` |
| `manifest` | every order of parameter sets, slices and other units in two samples; vendor boxes of one kind in several places; samples, tracks and movie headers that do not read; every choice of tracks; every single change | `StreamFollowsRule`, `ConfirmedMeansUnchanged`, `OneChangeOneFinding`, `BoxesAccountedFor`, `SourcesLeadToTracks` |
| `scan` | three files of fourteen names and three contents, grouped; one file scanned three times while it is written; directories at three depths, of which one may fail to be listed | `StaleOnlyWithinASecond`, `NothingDisappears`, `PairsAreWholeAndOrdered`, `SignsHaveAWitness` |
| `scan_pairs` | three files of one stem: two of one camera in two directories, one of another grammar | a violation of `PairsAreAsSaid` |

### The bounds, and why they are enough

- `Export`: two units are enough for a copy to mix two states, one edit of each to make it happen between any
  two reads, two sources for the loop of `open_sources`; one export and one other command for the shared file
  system. The fingerprint reads the source of the export of one recording and finds nothing beside the other
  requests (`SideSpec`); all faults, crashes, edits and interrupts may fall on either. An older manifest stands at
  the manifest's name. 177 602 states.
- `Reader`: files of 30 bytes hold three boxes and a tail, the cap of three is reached, sizes stand on both
  sides of every comparison (8, 16, the caps, the end of the file, a tail of fewer than four and of fewer
  than eight bytes).
- `Children`: a payload of 44 bytes holds a box, a box inside it and a tail; both caps are met and exceeded, a
  child overruns its parent, and every kind of sample entry is met uncut and cut. The fixed fields of sample
  entries are scaled (22, 20 and 24 bytes) and keep their order. 61 625 states.
- `Remux`: tables of at most three chunks and three samples, with counts one too high, runs that start late, chunks
  of no samples, samples of no bytes, and offsets that overflow `OffsetLimit`. The 32-bit limit is scaled to
  2903 (`NarrowLimit`): file type boxes bring the end of the media to one byte before it, to it and past
  it, and media of 960 to 962 bytes a sample do the same to the size of the media box. The sparse recording's hole
  (3000) is past the limit. 25 225 states.
- `Manifest`: samples of up to three and two units, one and two picture parameter sets, up to three vendor
  boxes of one kind. 74 045 states.
- `Scan`: `MaxRuns` 3 (a scan that caches, one that answers, one after the cache was cut), `MaxWrites` 2,
  `MaxClock` 2 (two writes in one second and in two), `MaxFailures` 1, groups of three files,
  listings of three directories. 908 618 states.

`CHECK_DEADLOCK FALSE` is said of all runs: commands end, and so do readers and remuxes.

**Fairness.** `Export` assumes weak fairness of each job's own work: the operating system schedules a process
that can run, and no step of a job waits for another. Nothing is assumed of edits, interrupts and crashes.
`ReaderDriver` assumes the loop goes on. The other modules state no liveness: each is a loop over a finite
list, and what could go wrong is what it has done when it ends.

**Assumed of the surroundings.** In `Scan` a file's time comes from the clock, which never goes back: a file
restored with an older time and its old size is answered from the cache as the one before. In `Fixture` the
recordings of the corpus that differ from another in the compressor's name or in the declared picture size only
(`capped`) are one: they differ in nothing a remux reads.

## What the violations say

1. `fingerprint --manifest` makes no check that the manifest is not the recording (`media.rs:207`), though
   `docs/integrity.md` says an original is never rewritten.
2. The partial file is the output's name with another extension (`media.rs:378`), so two exports to names that
   differ only there share it; one truncates it after the other has read it back and before the rename, and what
   is moved into place is not what was read back.
3. The reader may finish without a movie box (`parse.rs:187`, `push_tail`), though `Container::moov` relies on
   there being one.
4. An unknown last box of a size of zero is copied in front of the media, which it then swallows
   (`remux.rs:228`), though the module says unknown top-level boxes survive.
5. A pair is every file of a stem (`recording.rs:129`): two files of one camera are one, though line 49 says one per
   camera, and so are files of two grammars, though line 86 says that files are grouped by grammar and stem.

Three more requests break a property and are excluded by the hypotheses `NamesApart` and `OneNameEach`, not run: an output
named `x.part` is its own partial file; a `--manifest` that names the output replaces it; a `--manifest` that is a hard
link of a source truncates it, since `same_file` compares resolved paths (`media.rs:562`). ADR-0004 says that
reading a header never touches the media payload; the reader always asks for 16 bytes, so of a media box with a
short header eight bytes are read with it. `MediaSteppedOver` says what holds.

Exceptions the properties name, each a behaviour of the code:

- `StreamFollowsRule`: a refresh picture of several slices, after a sequence parameter set of its own and no
  picture parameter set, has the picture parameter sets written before every slice.
- `StaleOnlyWithinASecond`: a file written twice in a second; a reading that failed, which is kept like an
  answer; a file that was not there.
- `ReferencesResolve` is asked of `Plain` inputs: identifiers are patched at offsets that assume headers of eight
  bytes (`remux.rs:737`), and identifiers an input gives twice are not told apart. The next identifier of the movie
  header is asked for where a reader finds that header.
- `ManifestDescribesOutput`: when an older output is exported over, its manifest stands beside the new output from
  the rename until the new manifest is written (`media.rs:403-411`), and for good when the job fails or dies in
  between. What holds is that a manifest the job wrote describes the output that stands, that an older one is left
  beside another output only in that window or after such an end, and that a job that says it is done left its own.
- `NoPartialLeftBehind`: a crash, a failure after the copy (the second flush of `write_output`, the read-back, the
  rename), or a removal that fails leaves the partial file.
- `NothingDisappears` goes from the arguments to the answer only while nobody writes and no listing fails: a directory
  that cannot be listed, or an entry of a listing that fails, is passed over (`lib.rs:119` of the scan), and the files
  it leads to are neither answered nor counted, though the comment on `group` (`recording.rs:89`) has nothing given to
  the scan disappear. From what is listed the property always holds.
- `PairsAreWholeAndOrdered` says what the code keeps of pairs: the files of a stem, in camera order, whatever their
  grammars and however many of one camera (violation 5).

## What is proved

The proofs rest on the `ASSUME`s of the modules, which TLC evaluates for the instances of the runs.

**Export**, for any jobs, requests, directories, faults and bounds.

- `ExportProofs`, first `TypeCorrect`. The types alone are not inductive: the version copied through a handle
  is a version only if the handle is open, and the partial file has a name only if the job is an export. The
  inductive invariant is `Typed` (the types and `HandlesOpen`) with `OnlyExports`.
- `ExportProofs`, under two hypotheses on the requests and the directory, `NamesApart` and `OneNameEach`
  (no job writes what another reads or writes, the three names of an export differ, a fingerprint's manifest is
  not its recording, no hard links; the violations above are what happens without them): `SourcesAreSafe` and
  `OutputsAreFinished`. The refusal runs once, long before the writes, so the invariant `Safe` carries its
  outcome (`PassedTheCheck`) and that names stay the only way to a file (`OneNameNow`): a creation opens a file
  no other name leads to, a handle written through is the file under a name of the job. The partial file stays
  the job's own until it is moved (`OwnPartial`), and what is about to be moved is what was read back
  (`ReadBackSame`). `Frame` is the argument for concurrency: a step changes the files of the names it touches
  and no other, so what is true of one job is kept by every step of another.
- `ExportSnapshotProofs`, under the same hypotheses: `OutputsAreSnapshots`, `ManifestsDescribe`,
  `OutputsArePublishedOnce`, and `NothingIsLeftBehind`, which excepts the names that may be stuck. The
  argument for the snapshot: every unit of the manifest was read before every unit of the copy. So between the two
  passes lies a moment, and the state of the source at that moment is no older than what was recorded and no newer
  than what was copied (`Bracketed`); versions only grow, and the comparison found the two equal, so that state is
  the output. `Kept` is the inductive invariant; it remembers that the history holds every state (`PastHolds`).
  `ManifestsDescribe` covers a re-export over an older output and its manifest: until the move the final name leads
  where it led at first (`Unmoved`); after it, an older manifest waits to be replaced or was left by a failure or a
  death (`Outlived`).
- `ExportSnapshotProofs`, last `ExportsAreAtomic`: that `Export` implements `AtomicExport`. The rename is the one
  step that publishes, and it publishes a snapshot by the lemma `WrittenIsASnapshot`; an answer is given once; every
  other step is an edit of a recording or changes nothing the promise can see.

**Reader**, for files of any length and content, any caps, any sequence of calls: `ReaderTyped`, `Tiling`,
`TailOnly`, `OneMovie`, `HoldsExact`, `TopLevelCapped`, `Progress` and `ErrorsKeep`. Tiling is not
inductive alone: a range is pushed where a *request* said, so the request must lie where the reader stands
(`AskedHere`); a body must fit the file, be no smaller than a header and not be a second movie box
(`BodyFits`), which its header was checked for when the request was made. `PushInv` is the one lemma about
sequences: a range pushed at the position keeps every part; the actions differ only in how they meet its
hypotheses (`AcceptedSound`). The last part of `ReaderProofs` composes the reader with its loop: `MediaIsSteppedOver`,
`DriverKeepsProtocol` and `DriverAsksInBounds`, because what was read reaches at most sixteen bytes past the
reader's position or is the body it asked for, and no body of a media box is asked for.

**Children**, for any payload, layout and caps: `ChildrenTyped`, `EveryByteOnce`, `ClippedAtTheEnd`, `CapsBound`. A
box that is open tiles its payload up to its cursor, a box that was left tiles all of it (`OpenTiled`,
`ClosedTiled`); a box is entered once, and while it is open its parent's cursor is past it, so that boxes pushed
meanwhile are not its parent's (`PushedTiles`). `CapsBound` needs that the stack *is* the boxes around the one
open on top (`Nested`): the code compares the length of the stack with the depth cap, and the property speaks of
the boxes that contain a box (`AroundIn`); a refusal for too many children leaves the cap used up and bytes unread,
which is where the tiling invariant is used again. That nothing is left out at a cap is in it too: a file read to
its end has every box that holds boxes read up to its end, and a box is cut short only when it declared more than
the box around it holds, never because it lies too deep.

**Scan**, for any library whose files are not dated ahead of the clock, and any number of scans, writes, failures
and seconds.

- `CacheIsHonest`. An entry is made in several steps, and the file may be written between any two of
  them; that an entry is right when it is made is therefore false. What holds (`Following`, `EntryHolds`) is that
  the file was not written, or another version has the entry's date (`Sharing`, the exception the property names),
  or the clock has passed that date and the file with it (`Passed`). The last kind is wrong and harmless: no file
  to come is dated like it, so it is never answered. The invariant says so of the text on disk too, which outlives
  the process, and rests on dates being no later than the clock (`Dated`).
- `NothingIsLost`, for libraries of any size: each path listed is in exactly one recording, or skipped, and what is
  listed is what was given while nobody writes and no listing fails (`Complete`). The
  invariant `Tally` counts (`Balanced`: of each name, as many places probed, queued and skipped as listed), and the
  lemmas about `Group` show that its recordings are a partition of the places probed (`GroupShape`, `Partition`):
  a file has no stem and is alone, or belongs to the recording of its stem, whose members are the places of that
  stem sorted by camera (`StemPlaces`), each once.
- `PairsHold` and `SignsAreShown` follow from the same shape and from the invariant `Named`: what is grouped was
  read from the name it stands for, so that a camera is one of the four and a sign has its witness.

**Manifest**, for any inputs, selection, track and box lists, fingerprint function and change. The inductive invariant
is `IInv`, of two parts. `Stable` says of every manifest made that it records the file it was made of
(`GoodManifest`) and leads back to its inputs (`LeadsBack`); `AtWork` says how far the current pass has come.

- `BoxesAreCounted`: of every kind and place, findings account for every box recorded and every box present.
  Matching is greedy and written as a recursive function over the records; `MatchesInTurn` and `IsMatching` state
  what it is: an injection into the boxes present of the same place, and maximal, so that one box is not both
  missing and unexpected. The findings are laid out in four runs (`LaidOut`), and counting them moves along
  bijections (`OneForOne`, `Moved`, `Parted`, `Chained`).
- `YesMeansUnchanged`, both ways: a file compared with its own records is matched box for box (`MatchesItsOwn`,
  an induction), hence identical; a file found identical has the shape (`SameShapes`) and the vendor boxes
  (`VendorsAlike`) of the one recorded, which the digest of the whole file does not say where it was not computed.
- `SourcesAreFound`: tracks kept of one or two inputs land in the output at places that are a bijection (`Lands`,
  `AllLand`), so that each output track names one track of one source, and its fingerprint is that track's.
- `StreamsAreRuled` (`StreamFollowsRule`), of streams made of sequences of samples of units (`IsTrack`): what is
  written of a track is what the documented rule gives. The writer decides with three flags; the rule looks back
  over the whole stream. Both are first brought to one form, a list of what is put before each unit
  (`InsertionsInTurn`), and the units of a stream are numbered after those before them (`NumberedStand`). The key is
  `BareAfter`: the writer's `newRefresh` says that nothing was inserted since the last parameter set of the stream,
  or since its start (`Bare`). A refresh that opens a picture sets the flag too: if nothing is inserted there, a
  parameter set came earlier in the sample and nothing was inserted after it, so the flag says the same. The
  invariant `Streams`, conjoined with `IInv`, says of the pass in work that what is written is the rule's answer for
  the samples passed (`WrittenTo`).

**Remux**, for any recordings and requests the reader hands over (`RequestAssumption`: box sizes, table entries and
bytes are numbers, and a box has the fields of its kind).

- `AlwaysSettled` is what a run has decided when it starts to write: the inputs, the kept tracks, the tables and
  the report follow from the request alone, by the operators of the module.
- `AcceptedTablesLocate` (`AcceptedTablesAgree`): a table without a `TableError` has runs that start at chunk one and
  climb, so each chunk has one run and its samples are those between two sums; expanded, the times, the sizes and the
  chunks give each sample once, in the order of the table, inside the chunk that holds it.
- `AlwaysCounted`, then `ReportsAreTrue` (`ReportMatchesOutput`): the chunks of all tracks, in the order of the fractions
  of time at which they start, are each written once (the order is a permutation, by induction on the tracks merged);
  what was copied at any moment is what the chunks passed held (`Counted`); the movie box is laid out twice, first with
  offsets not yet known, and its size does not depend on them (`MovieSizeFixed`), so that the offsets of the second
  layout are those of the file that is written.
- `AlwaysStanding`, then `SamplesAreKept` (`SamplesSurvive`), in four steps. The kept tracks stand together where the
  first track of the first input stood (`TracksLaidOut`; this is where `FirstHasTracks` is needed). A rewritten track
  keeps every table but its chunk offsets, so it is accepted and has the samples it had (`TrackStillReads`), with
  offsets that fit their width (`EntriesLead`). The n-th offset written is where the n-th chunk of the track is
  (`ChunkPlaced`: in the order of the output and in that of the track the chunks are the same, numbered by their
  first samples), and a sample is as far into its chunk as it was (`SampleRehoused`). The pieces copied for a chunk
  stand where the layout has the chunk (`ChunksStand`, the strengthening, kept by every later copy), whether it was
  read as one range or sample by sample (`SampleFound`); no other piece holds those bytes (`PieceApart`).
- `ReferencesAreKept` (`ReferencesResolve`): the identifiers written are those read back from the output. The kept
  tracks of two inputs stand apart when they are put in one sequence (`FlattenAdds`), so under `Plain` the track an
  identifier stands for is one track, new identifiers are distinct, and the next one is above them all. A
  reference leads where it led when its target is kept and is dropped when it is not; a reference box left
  empty goes with it, and the count reported (`Reported`, the invariant) is the number of targets that went.

**Induction.** The induction theorems of the library take an operator as a parameter and cannot be used. What is
proved about recursive functions and sequences of any length is proved by a least counterexample
(`Least` of `PlacesProofs`, from `NatLessThanWellFounded` and `WFMin`): of the numbers at which a claim fails, the
least one has a predecessor at which it holds. A recursive function is defined by `CHOOSE`; that there is one is
shown the same way (`MatchExists`).

**Model-checked only.** Liveness (`EveryJobEnds`, `InterruptionIsHonoured`, `DriverReturns`) is out of the prover's
reach. `OneChangeOneFinding` compares with what the instance says it changed, and is about that instance: the changed
subject has the finding its change calls for (a track one that differs, is missing or is not checkable; boxes one
each, in order, missing or unexpected where there are more on one side; the structure one that differs), and no other
subject but the file and its structure has any.
`RemuxIsIdempotent` of `Remux` compares two runs, the second over what the first wrote: it would take every lemma of
the first run again for the second, and hypotheses the property does not state. In general it could only be claimed
where the first input has tracks (`FirstHasTracks`: otherwise the output has none to keep) and the output ends within
`OffsetLimit` (a second run refuses a sample that ends above it); every output of the instance is of this kind. Of a
join that is not `Plain` the instance has examples, where the property holds, and nothing general is claimed.

## Not modelled, and why

- Hashing, JSON, times, wording, the command line's parsing, what `inspect` and `report` print: pure functions
  whose formats are their content.
- Power failures that undo what was not synced: the order of data and metadata on disk is the file system's.
- The two passes of a manifest over a file that changes between them (`build.rs:97`): the digest of the whole file
  is recorded for a source and compared by no step of an export, so there is no promise to check.
- `read_sample`, a bounds check and a read. A primary recording without any track joined with one that has some
  (`remux.rs:579-627`): the tracks find no place in the output. `Remux` writes what the code writes, and no instance
  asks it, since `export` refuses a recording without the tracks asked for.
- Between samples the track fingerprint puts nothing (`track.rs:68`), so a boundary moved between two samples is
  seen only by the digest of the whole file; `Manifest` models it so, and `MCManifest` makes that change.
- The evidence register's tools, the guarantee tests, the site and the placeholders of the applications.

## Plan

1. `Export`, `AtomicExport`: done, with every safety property and the refinement proved.
2. `Reader`, `ReaderDriver`, `Children`: done and proved; next, `Children` as the refinement of the choice
   `Reader` makes.
3. `SampleTable`, `Remux`: done, with every safety property proved but `RemuxIsIdempotent`.
4. `Manifest`, `Scan`: done, with every safety property proved but `OneChangeOneFinding`.
