------------------------------- MODULE Export -------------------------------
(***************************************************************************)
(* The commands that write files: `adiungere export` and `adiungere        *)
(* fingerprint --manifest` (core/crates/adiungere-cli/src/media.rs), one   *)
(* process per job, over a shared file system.                             *)
(*                                                                         *)
(* An export reads every source twice: once in full for the fingerprints   *)
(* of its manifest, and again, piece by piece, for the copy.  It writes    *)
(* under a temporary name, reads the result back, keeps it only when every *)
(* track carries the fingerprint its source had, renames it into place and *)
(* writes the manifest.  Between any two steps the sources may change (a   *)
(* recorder may still be writing them), the user may interrupt, an         *)
(* operation may fail and the process may die.                             *)
(*                                                                         *)
(* Bytes are abstracted to versions: a unit of a recording (the decoder    *)
(* configuration the movie box carries, or the samples of a track) has the *)
(* version of the last write to it, and a digest is the version digested.  *)
(***************************************************************************)
EXTENDS Integers, Sequences, FiniteSets

CONSTANTS
    Jobs,        \* the commands being run
    Exporters,   \* those that are exports; the others are fingerprints
    Names,       \* file names, fully resolved: sequences of dot-separated parts
    Inodes,      \* files, whatever name leads to them
    Unit,        \* what a fingerprint reads of a recording
    Config,      \* the unit held in the movie box, read when the box is parsed
    MaxVersion,  \* bound on the edits of one unit
    InitEntry,   \* the directory at the start
    Older,       \* the names at which the manifest of an earlier export stands
    Requests,    \* what each job may have been asked: files to read, names to write
    Faults,      \* which operations may fail: see Fault below
    Stuck,       \* the names whose removal may fail
    NoFile,      \* the directory entry of a name that leads nowhere
    NotRead,     \* a unit not read yet
    Nobody       \* the author of a file no job created

Fault == {"read", "write", "create", "rename", "crash"}

ASSUME UnitAssumption == Config \in Unit
ASSUME NamesAssumption ==
    NoFile \notin Inodes /\ NotRead \notin Int /\ Nobody \notin Jobs /\ <<>> \notin Names
ASSUME EntryAssumption == InitEntry \in [Names -> Inodes \cup {NoFile}] /\ Older \subseteq Names
ASSUME FaultsAssumption == Faults \subseteq Fault
ASSUME BoundAssumption == MaxVersion \in Nat

(* Path::with_extension: the last part is replaced; a bare name gains one. *)
WithExtension(name, extension) ==
    IF Len(name) = 1 THEN Append(name, extension)
                     ELSE [name EXCEPT ![Len(name)] = extension]

(* manifest_beside: the suffix is appended to the whole file name. *)
ManifestBeside(out) == out \o <<"manifest", "json">>

(* The names a request reads, and those a job writes for it. *)
SourcesOf(r) == {r.files[s] : s \in DOMAIN r.files}
PartialOf(r) == WithExtension(r.out, "part")
ManifestOf(j, r) ==
    IF j \in Exporters /\ r.manifest = <<>> THEN ManifestBeside(r.out) ELSE r.manifest
WrittenFor(j, r) ==
    IF j \in Exporters THEN {r.out, PartialOf(r), ManifestOf(j, r)} ELSE {r.manifest} \ {<<>>}

ASSUME RequestsAssumption ==
    /\ Exporters \subseteq Jobs
    /\ \A j \in Jobs : \A r \in Requests[j] :
         /\ r.files \in Seq(Names)
         /\ Len(r.files) \in {1, 2}
         /\ SourcesOf(r) \cup WrittenFor(j, r) \subseteq Names

(* No job writes a name another job reads or writes; the three names of an export differ; a fingerprint's
   manifest is not its recording (the code does not check the first and the last: see the runs export_shared and
   fingerprint_over). *)
NamesApart ==
    /\ \A j, k \in Jobs : j # k =>
         \A r \in Requests[j], q \in Requests[k] :
           WrittenFor(j, r) \cap (WrittenFor(k, q) \cup SourcesOf(q)) = {}
    /\ \A j \in Exporters : \A r \in Requests[j] :
         r.out # PartialOf(r) /\ r.out # ManifestOf(j, r) /\ PartialOf(r) # ManifestOf(j, r)
    /\ \A j \in Jobs \ Exporters : \A r \in Requests[j] : r.manifest \notin SourcesOf(r)

(* No hard links: a file has one name. *)
OneNameEach ==
    \A m, n \in Names : InitEntry[m] = InitEntry[n] /\ InitEntry[m] # NoFile => m = n

(* A piece is one unit of one source; an output is made of pieces. *)
Position == {1, 2}
Piece == Position \X Unit
Nothing == [p \in Piece |-> NotRead]

VARIABLES
    request,   \* what each job was asked
    entry,     \* the directory: the inode each name leads to
    content,   \* what each inode holds
    past,      \* history: every state each inode's recording has been in
    pc,        \* the step each job is at
    verdict,   \* how a job ended
    current,   \* the position of the source being opened
    handle,    \* the inode of every source opened, kept for the copy
    recorded,  \* what the sources' manifests recorded
    copied,    \* what the copy read
    writer,    \* the inode the partial file was opened on
    back,      \* what was read back, the content of the manifest to write
    stop       \* the interrupt flag

files == <<entry, content, past>>
progress == <<current, handle, recorded, copied, writer, back>>
vars == <<request, files, progress, pc, verdict, stop>>

Exports(j) == j \in Exporters
Files(j) == request[j].files
Out(j) == request[j].out
PartialIsOutput(j) == Out(j)
Partial(j) == PartialOf(request[j])
ManifestPath(j) == ManifestOf(j, request[j])
SourceNames(j) == SourcesOf(request[j])
Written(j) == WrittenFor(j, request[j])
PiecesOf(j) == (DOMAIN Files(j)) \X Unit

Verdict == {"none", "refused", "failed", "stopped", "mismatch", "done", "crashed"}
Step == {"checking", "opening", "building", "parsing", "creating", "heading", "copying",
         "flushing", "reading back", "moving", "describing", "filling", "removing", "ended"}
Version == 0..MaxVersion

(* What stands for a unit not read is not an output either. *)
ASSUME NotReadAssumption == \A D \in SUBSET Position : NotRead \notin [D -> [Unit -> Version]]

Content ==
    [kind : {"unused"}, by : {Nobody}]
    \cup [kind : {"recording"}, by : {Nobody}, units : [Unit -> Version]]
    \cup [kind : {"output"}, by : Jobs, pieces : [Piece -> Version \cup {NotRead}]]
    \cup [kind : {"manifest"}, by : Jobs \cup {Nobody}, describes : [Piece -> Version \cup {NotRead}]]
    \cup [kind : {"empty", "garbled"}, by : Jobs]

TypeOK ==
    /\ request \in [Jobs -> UNION {Requests[j] : j \in Jobs}]
    /\ \A j \in Jobs : request[j] \in Requests[j]
    /\ entry \in [Names -> Inodes \cup {NoFile}]
    /\ content \in [Inodes -> Content]
    /\ past \in [Inodes -> SUBSET [Unit -> Version]]
    /\ pc \in [Jobs -> Step]
    /\ verdict \in [Jobs -> Verdict]
    /\ current \in [Jobs -> Position]
    /\ handle \in [Jobs -> [Position -> Inodes \cup {NoFile}]]
    /\ recorded \in [Jobs -> [Piece -> Version \cup {NotRead}]]
    /\ copied \in [Jobs -> [Piece -> Version \cup {NotRead}]]
    /\ writer \in [Jobs -> Inodes \cup {NoFile}]
    /\ back \in [Jobs -> [Piece -> Version \cup {NotRead}]]
    /\ stop \in [Jobs -> BOOLEAN]

(* What stands in the directory before the commands run: recordings, and the manifests of earlier exports,
   whose outputs are recordings to the commands modelled here. *)
FirstContent(i) ==
    IF \E n \in Older : InitEntry[n] = i
    THEN [kind |-> "manifest", by |-> Nobody, describes |-> Nothing]
    ELSE IF \E n \in Names : InitEntry[n] = i
    THEN [kind |-> "recording", by |-> Nobody, units |-> [u \in Unit |-> 0]]
    ELSE [kind |-> "unused", by |-> Nobody]

Init ==
    /\ request \in {r \in [Jobs -> UNION {Requests[j] : j \in Jobs}] :
                        \A j \in Jobs : r[j] \in Requests[j]}
    /\ entry = InitEntry
    /\ content = [i \in Inodes |-> FirstContent(i)]
    /\ past = [i \in Inodes |-> {[u \in Unit |-> 0]}]
    /\ pc = [j \in Jobs |-> IF Exports(j) THEN "checking" ELSE "opening"]
    /\ verdict = [j \in Jobs |-> "none"]
    /\ current = [j \in Jobs |-> 1]
    /\ handle = [j \in Jobs |-> [s \in Position |-> NoFile]]
    /\ recorded = [j \in Jobs |-> Nothing]
    /\ copied = [j \in Jobs |-> Nothing]
    /\ writer = [j \in Jobs |-> NoFile]
    /\ back = [j \in Jobs |-> Nothing]
    /\ stop = [j \in Jobs |-> FALSE]

-----------------------------------------------------------------------------
(* The file system calls. *)

Fresh == {i \in Inodes : content[i].kind = "unused"}

(* The inode File::create opens: the one the name leads to, or a new one. *)
CreatedAt(name) == IF entry[name] # NoFile THEN entry[name] ELSE CHOOSE i \in Fresh : TRUE

(* File::create truncates what the name leads to, or makes a new file. *)
CreateFile(name, new) ==
    /\ entry[name] # NoFile \/ Fresh # {}
    /\ entry' = [entry EXCEPT ![name] = CreatedAt(name)]
    /\ content' = [content EXCEPT ![CreatedAt(name)] = new]
    /\ UNCHANGED past

(* fs::rename replaces the entry of the new name, whatever it led to. *)
MoveFile(old, new) ==
    /\ entry' = [n \in Names |-> IF n = new THEN entry[old]
                                 ELSE IF n = old THEN NoFile ELSE entry[n]]
    /\ UNCHANGED <<content, past>>

(* same_file: an existing file, resolved, against a name about to be written. *)
SameFile(existing, written) == entry[existing] # NoFile /\ existing = written

-----------------------------------------------------------------------------
(* The steps of a command. *)

Goto(j, step) == pc' = [pc EXCEPT ![j] = step]
EndWith(j, outcome) ==
    /\ Goto(j, "ended")
    /\ verdict' = [verdict EXCEPT ![j] = outcome]

CheckOutputOnly(j) ==
    /\ pc[j] = "checking"
    /\ IF \E s \in SourceNames(j) : SameFile(s, Out(j))
       THEN EndWith(j, "refused")
       ELSE Goto(j, "opening") /\ UNCHANGED verdict
    /\ UNCHANGED <<files, progress, stop>>

(* The refusal runs before a byte is written, and asks about the sources of this job only. *)
CheckNames(j) ==
    /\ pc[j] = "checking"
    /\ IF \E w \in Written(j), s \in SourceNames(j) : SameFile(s, w)
       THEN EndWith(j, "refused")
       ELSE Goto(j, "opening") /\ UNCHANGED verdict
    /\ UNCHANGED <<files, progress, stop>>

(* FileSource::open: the handle keeps the inode, whatever becomes of the name. *)
OpenSource(j) ==
    LET name == Files(j)[current[j]] IN
    /\ pc[j] = "opening"
    /\ entry[name] # NoFile
    /\ Goto(j, "building")
    /\ handle' = [handle EXCEPT ![j][current[j]] = entry[name]]
    /\ UNCHANGED <<files, current, recorded, copied, writer, back, verdict, stop>>

SourceIsRecording(j, s) == content[handle[j][s]].kind = "recording"

Unread(j) == {u \in Unit : recorded[j][<<current[j], u>>] = NotRead}

(* adiungere_manifest::build, one unit read at a time; every unit read, the manifest is whole. *)
BuildUnit(j) ==
    LET s == current[j] IN
    /\ pc[j] = "building"
    /\ SourceIsRecording(j, s)
    /\ \E u \in Unread(j) :
         /\ recorded' = [recorded EXCEPT ![j][<<s, u>>] = content[handle[j][s]].units[u]]
         /\ Goto(j, IF Unread(j) # {u} THEN "building"
                    ELSE IF Exports(j) THEN "parsing" ELSE "describing")
         /\ back' = [back EXCEPT ![j] = IF Exports(j) THEN @ ELSE recorded'[j]]
    /\ UNCHANGED <<files, current, handle, copied, writer, verdict, stop>>

(* The second parse of open_source: the tables and configuration the copy will use. *)
ParseSource(j) ==
    LET s == current[j] IN
    /\ pc[j] = "parsing"
    /\ SourceIsRecording(j, s)
    /\ copied' = [copied EXCEPT ![j][<<s, Config>>] = content[handle[j][s]].units[Config]]
    /\ IF s = Len(Files(j))
       THEN Goto(j, "creating") /\ UNCHANGED current
       ELSE Goto(j, "opening") /\ current' = [current EXCEPT ![j] = s + 1]
    /\ UNCHANGED <<files, handle, recorded, writer, back, verdict, stop>>

(* A source that is missing, unreadable, not a recording, or without the tracks asked for. *)
OpeningFails(j) ==
    /\ pc[j] \in {"opening", "building", "parsing"}
    /\ \/ "read" \in Faults
       \/ pc[j] = "opening" /\ entry[Files(j)[current[j]]] = NoFile
       \/ pc[j] # "opening" /\ ~SourceIsRecording(j, current[j])
    /\ EndWith(j, "failed")
    /\ UNCHANGED <<files, progress, stop>>

(* write_output: File::create on the partial name. *)
CreatePartial(j) ==
    /\ pc[j] = "creating"
    /\ \/ /\ CreateFile(Partial(j), [kind |-> "output", by |-> j, pieces |-> Nothing])
          /\ writer' = [writer EXCEPT ![j] = CreatedAt(Partial(j))]
          /\ Goto(j, "heading")
          /\ UNCHANGED verdict
       \/ /\ "create" \in Faults
          /\ EndWith(j, "failed")
          /\ UNCHANGED <<files, writer>>
    /\ UNCHANGED <<current, handle, recorded, copied, back, stop>>

WriteOverAll(j, pieces) ==
    content' = [content EXCEPT ![writer[j]] =
                  [kind |-> "output", by |-> j, pieces |-> [p \in pieces |-> copied'[j][p]]]]

(* A write through the handle: into this job's output, or across another job's. *)
WriteThrough(j, pieces) ==
    LET i == writer[j]
        held == content[i]
        whole == held.kind = "output" /\ held.by = j
    IN content' = [content EXCEPT ![i] =
            IF whole
            THEN [held EXCEPT !.pieces =
                    [p \in Piece |-> IF p \in pieces THEN copied'[j][p] ELSE @[p]]]
            ELSE [kind |-> "garbled", by |-> j]]

(* remux: the movie box, laid out from the parsed source, is written ahead of the media. *)
WriteHead(j) ==
    /\ pc[j] = "heading"
    /\ UNCHANGED copied
    /\ WriteThrough(j, (DOMAIN Files(j)) \X {Config})
    /\ Goto(j, "copying")
    /\ UNCHANGED <<entry, past, current, handle, recorded, writer, back, verdict, stop>>

(* The progress callback of write_output. *)
InterruptedAtFlush(j) == stop[j] /\ pc[j] = "flushing"
Interrupted(j) == stop[j]

Uncopied(j) == {p \in PiecesOf(j) : copied[j][p] = NotRead}

(* One chunk of remux, then the progress callback, which sees the interrupt flag. *)
CopyPiece(j) ==
    /\ pc[j] = "copying"
    /\ \E p \in Uncopied(j) :
         /\ SourceIsRecording(j, p[1])
         /\ copied' = [copied EXCEPT ![j][p] = content[handle[j][p[1]]].units[p[2]]]
         /\ WriteThrough(j, {p})
         /\ IF Interrupted(j)
            THEN /\ Goto(j, "removing")
                 /\ verdict' = [verdict EXCEPT ![j] = "stopped"]
            ELSE /\ Goto(j, IF Uncopied(j) = {p} THEN "flushing" ELSE "copying")
                 /\ UNCHANGED verdict
    /\ UNCHANGED <<entry, past, current, handle, recorded, writer, back, stop>>

FlushAndMove(j) ==
    /\ pc[j] = "flushing"
    /\ Goto(j, "moving")
    /\ back' = [back EXCEPT ![j] = copied[j]]
    /\ UNCHANGED <<files, current, handle, recorded, copied, writer, verdict, stop>>
(* The writer is flushed once by remux, whose failure is RemuxFails, and again by write_output, whose
   failure ends the export with the partial file in place. *)
Flush(j) ==
    /\ pc[j] = "flushing"
    /\ \/ Goto(j, "reading back") /\ UNCHANGED verdict
       \/ "write" \in Faults /\ EndWith(j, "failed")
    /\ UNCHANGED <<files, progress, stop>>

(* remux returns an error: a read or a write failed, or a source is no longer a recording. *)
RemuxFails(j) ==
    /\ pc[j] \in {"heading", "copying", "flushing"}
    /\ \/ Faults \cap {"read", "write"} # {}
       \/ \E p \in Uncopied(j) : ~SourceIsRecording(j, p[1])
    /\ Goto(j, "removing")
    /\ verdict' = [verdict EXCEPT ![j] = "failed"]
    /\ UNCHANGED <<files, progress, stop>>

(* What the partial name leads to, as the copy's own pieces; Nothing when it is not that. *)
PiecesRead(j) ==
    IF entry[Partial(j)] # NoFile /\ content[entry[Partial(j)]].kind = "output"
    THEN content[entry[Partial(j)]].pieces
    ELSE Nothing

Readable(j) == \A p \in PiecesOf(j) : PiecesRead(j)[p] # NotRead

CarriesConfiguration(j) ==
    \A s \in DOMAIN Files(j) : PiecesRead(j)[<<s, Config>>] = recorded[j][<<s, Config>>]

(* track_not_carrying_its_source: the fingerprints read back are the ones recorded. *)
CarriesItsSources(j) == \A p \in PiecesOf(j) : PiecesRead(j)[p] = recorded[j][p]

(* read_back, by name, and the comparison.  A failure to read leaves the partial file behind. *)
ReadBack(j) ==
    /\ pc[j] = "reading back"
    /\ \/ /\ Readable(j)
          /\ back' = [back EXCEPT ![j] = PiecesRead(j)]
          /\ IF CarriesItsSources(j)
             THEN Goto(j, "moving") /\ UNCHANGED verdict
             ELSE /\ Goto(j, "removing")
                  /\ verdict' = [verdict EXCEPT ![j] = "mismatch"]
       \/ /\ "read" \in Faults \/ ~Readable(j)
          /\ EndWith(j, "failed")
          /\ UNCHANGED back
    /\ UNCHANGED <<files, current, handle, recorded, copied, writer, stop>>

RenameUnchecked(j) ==
    /\ pc[j] = "moving"
    /\ \/ MoveFile(Partial(j), Out(j))
       \/ "rename" \in Faults /\ UNCHANGED files
    /\ Goto(j, "describing")
    /\ UNCHANGED <<progress, verdict, stop>>

(* fs::rename into place; a failure leaves the partial file behind. *)
Rename(j) ==
    /\ pc[j] = "moving"
    /\ \/ /\ entry[Partial(j)] # NoFile
          /\ MoveFile(Partial(j), Out(j))
          /\ Goto(j, "describing")
          /\ UNCHANGED verdict
       \/ /\ "rename" \in Faults \/ entry[Partial(j)] = NoFile
          /\ EndWith(j, "failed")
          /\ UNCHANGED files
    /\ UNCHANGED <<progress, stop>>

(* fs::write, first half: the manifest's name is opened and truncated. *)
CreateManifest(j) ==
    /\ pc[j] = "describing"
    /\ IF ManifestPath(j) = <<>>
       THEN EndWith(j, "done") /\ UNCHANGED <<files, writer>>
       ELSE \/ /\ CreateFile(ManifestPath(j), [kind |-> "empty", by |-> j])
               /\ writer' = [writer EXCEPT ![j] = CreatedAt(ManifestPath(j))]
               /\ Goto(j, "filling")
               /\ UNCHANGED verdict
            \/ /\ "create" \in Faults
               /\ EndWith(j, "failed")
               /\ UNCHANGED <<files, writer>>
    /\ UNCHANGED <<current, handle, recorded, copied, back, stop>>

FillAgain(j) ==
    /\ pc[j] = "filling"
    /\ content' = [content EXCEPT ![writer[j]] =
                     [kind |-> "manifest", by |-> j, describes |-> back[j]]]
    /\ Goto(j, "describing")
    /\ UNCHANGED <<entry, past, progress, verdict, stop>>

(* fs::write, second half: the canonical text; the command then answers. *)
FillManifest(j) ==
    /\ pc[j] = "filling"
    /\ \/ /\ content' = [content EXCEPT ![writer[j]] =
                           [kind |-> "manifest", by |-> j, describes |-> back[j]]]
          /\ EndWith(j, "done")
       \/ /\ "write" \in Faults
          /\ EndWith(j, "failed")
          /\ UNCHANGED content
    /\ UNCHANGED <<entry, past, progress, stop>>

RemoveOutput(j) ==
    /\ pc[j] = "removing"
    /\ Goto(j, "ended")
    /\ entry' = [entry EXCEPT ![Out(j)] = NoFile]
    /\ UNCHANGED <<content, past, progress, verdict, stop>>

KeepPartial(j) ==
    /\ pc[j] = "removing"
    /\ Goto(j, "ended")
    /\ UNCHANGED <<files, progress, verdict, stop>>

(* The partial file of a refused or stopped output is removed; an error of that is ignored. *)
RemovePartial(j) ==
    /\ pc[j] = "removing"
    /\ Goto(j, "ended")
    /\ \/ entry' = [entry EXCEPT ![Partial(j)] = NoFile]
       \/ Partial(j) \in Stuck /\ UNCHANGED entry
    /\ UNCHANGED <<content, past, progress, verdict, stop>>

-----------------------------------------------------------------------------
(* The surroundings. *)

(* The interrupt handler of main.rs, installed for an export, sets the flag at any moment. *)
Interrupt(j) ==
    /\ Exports(j)
    /\ ~stop[j]
    /\ pc[j] # "ended"
    /\ stop' = [stop EXCEPT ![j] = TRUE]
    /\ UNCHANGED <<request, files, progress, pc, verdict>>

(* The process dies: files stay as they are. *)
Crash(j) ==
    /\ "crash" \in Faults
    /\ pc[j] # "ended"
    /\ EndWith(j, "crashed")
    /\ UNCHANGED <<request, files, progress, stop>>

(* Something else writes to a recording some job reads: a unit gets a version it never had. *)
Edit(i, u) ==
    /\ \E j \in Jobs : \E n \in SourceNames(j) : InitEntry[n] = i
    /\ content[i].kind = "recording"
    /\ content[i].units[u] < MaxVersion
    /\ content' = [content EXCEPT ![i].units[u] = @ + 1]
    /\ past' = [past EXCEPT ![i] = @ \cup {content'[i].units}]
    /\ UNCHANGED <<request, entry, progress, pc, verdict, stop>>

Work(j) ==
    /\ \/ CheckNames(j)
       \/ OpenSource(j)
       \/ BuildUnit(j)
       \/ ParseSource(j)
       \/ OpeningFails(j)
       \/ CreatePartial(j)
       \/ WriteHead(j)
       \/ CopyPiece(j)
       \/ Flush(j)
       \/ RemuxFails(j)
       \/ ReadBack(j)
       \/ Rename(j)
       \/ CreateManifest(j)
       \/ FillManifest(j)
       \/ RemovePartial(j)
    /\ UNCHANGED request

Next ==
    \/ \E j \in Jobs : Work(j)
    \/ \E j \in Jobs : Interrupt(j)
    \/ \E j \in Jobs : Crash(j)
    \/ \E i \in Inodes, u \in Unit : Edit(i, u)

(* The operating system keeps running a process that has work to do; nothing is assumed of
   the user, of the recorder, or of when a process dies. *)
Fairness == \A j \in Jobs : WF_vars(Work(j))

Spec == Init /\ [][Next]_vars /\ Fairness

-----------------------------------------------------------------------------
(* Properties. *)

(* What stands under the final name of an export, once it is the job's own work, is complete and
   carries, piece by piece, what the sources' manifests recorded: "a stopped or failed export never
   leaves a file that looks finished" (the comment at the top of `export`). *)
Standing(j) == entry[Out(j)] # NoFile /\ content[entry[Out(j)]].by # Nobody
Finished(j) ==
    /\ content[entry[Out(j)]].kind = "output"
    /\ \A p \in PiecesOf(j) : /\ recorded[j][p] # NotRead
                              /\ content[entry[Out(j)]].pieces[p] = recorded[j][p]
OutputIsFinished == \A j \in Jobs : Exports(j) /\ Standing(j) => Finished(j)

(* An output in place is a state each source really was in, at one moment, although the export
   read the source in many steps while others wrote to it: the read before the copy and the
   comparison after it make the copy a snapshot. *)
OutputIsASnapshot ==
    \A j \in Jobs : Exports(j) /\ entry[Out(j)] # NoFile /\ content[entry[Out(j)]].kind = "output" =>
        \A s \in DOMAIN Files(j) :
            [u \in Unit |-> content[entry[Out(j)]].pieces[<<s, u>>]] \in past[handle[j][s]]

(* A file that existed before the commands ran and is read by one of them stays what it was under its
   name: no command truncates, replaces or unlinks what it reads ("Nothing this command writes may be a
   recording it reads"; docs/integrity.md: "An original is never rewritten by this product"). *)
SourcesSurvive ==
    \A j \in Jobs : \A n \in SourceNames(j) : InitEntry[n] # NoFile =>
        /\ entry[n] = InitEntry[n]
        /\ content[entry[n]].kind = FirstContent(InitEntry[n]).kind
        /\ content[entry[n]].by = Nobody

(* A manifest and an output that stand under the names of one export belong together, but for one window.
   A manifest the export wrote in full describes the output under the final name.  A manifest that is not
   the export's own (that of an earlier export to the same name) stands beside the earlier output, which
   nothing has touched; beside the new output it stands only between the rename and the write of the new
   manifest, and for good when the export failed or died there: the code does not remove it first, and
   nothing in the repository says it would.  An export that answers that it is done has written its own. *)
ManifestStands(j) ==
    entry[ManifestPath(j)] # NoFile /\ content[entry[ManifestPath(j)]].kind = "manifest"
ManifestIsOwn(j) == ManifestStands(j) /\ content[entry[ManifestPath(j)]].by = j
OwnManifestDescribes(j) ==
    ManifestIsOwn(j) =>
        /\ entry[Out(j)] # NoFile
        /\ content[entry[Out(j)]].kind = "output"
        /\ content[entry[Out(j)]].pieces = content[entry[ManifestPath(j)]].describes
OlderManifestStands(j) ==
    ManifestStands(j) /\ ~ManifestIsOwn(j) =>
        \/ entry[Out(j)] = InitEntry[Out(j)] /\ ~Standing(j)
        \/ pc[j] = "describing"
        \/ pc[j] = "ended" /\ verdict[j] \in {"failed", "crashed"}
ManifestDescribesOutput ==
    \A j \in Jobs : Exports(j) =>
        /\ OwnManifestDescribes(j)
        /\ OlderManifestStands(j)
        /\ verdict[j] = "done" => ManifestIsOwn(j)

(* A partial file of the job's own is left behind only by a crash, by a failure after the copy (of the second
   flush, of the read-back, of the rename), or when it could not be removed: a refusal, an interruption, a
   mismatch or a success leaves none. *)
NoPartialLeftBehind ==
    \A j \in Jobs :
        (Exports(j) /\ pc[j] = "ended" /\ verdict[j] \in {"refused", "stopped", "mismatch", "done"}
         /\ Partial(j) \notin Stuck /\ entry[Partial(j)] # NoFile)
        => content[entry[Partial(j)]].by # j

(* Every command ends, whatever fails, whatever is edited and whenever it is interrupted. *)
EveryJobEnds == \A j \in Jobs : <>(pc[j] = "ended")

(* The last moment an interruption is honoured: until the last piece is copied.  An export interrupted
   before that never answers that it is done. *)
BeforeLastPiece(j) ==
    Exports(j) /\ pc[j] \in {"checking", "opening", "building", "parsing", "creating", "heading", "copying"}
InterruptionIsHonoured ==
    \A j \in Jobs : stop[j] /\ BeforeLastPiece(j) ~> pc[j] = "ended" /\ verdict[j] # "done"

(* The final name changes hands once: what stands there is replaced by a rename of a file read back, and
   by nothing else, and never after the job has ended. *)
PublishedOnce ==
    [][\A j \in Jobs : Exports(j) /\ entry'[Out(j)] # entry[Out(j)] =>
           /\ pc[j] = "moving"
           /\ entry'[Out(j)] = entry[Partial(j)]
           /\ back[j] = content[entry[Partial(j)]].pieces]_vars

-----------------------------------------------------------------------------
(* The refinement: Export, through this mapping, implements AtomicExport. *)

Published(j) ==
    LET i == entry[Out(j)] IN
    IF i # NoFile /\ content[i].by = j
    THEN [s \in DOMAIN Files(j) |-> [u \in Unit |-> content[i].pieces[<<s, u>>]]]
    ELSE NotRead

Promise == INSTANCE AtomicExport WITH
    Exporting <- Exporters,
    Recordings <- {n \in Names : InitEntry[n] # NoFile},
    State <- [Unit -> Version],
    NotPublished <- NotRead,
    reads <- [j \in Exporters |-> Files(j)],
    past <- [n \in {m \in Names : InitEntry[m] # NoFile} |-> past[InitEntry[n]]],
    published <- [j \in Exporters |-> Published(j)],
    answer <- [j \in Exporters |-> IF pc[j] = "removing" THEN "none" ELSE verdict[j]]

(* Every behaviour of an export, faults, edits and interruptions included, is one of AtomicExport: the
   output appears whole and in one step, and the answer agrees with what was published. *)
ExportIsAtomic == Promise!Spec
=============================================================================
