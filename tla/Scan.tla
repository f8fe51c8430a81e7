-------------------------------- MODULE Scan --------------------------------
(***************************************************************************)
(* adiungere detect: files are listed, probed through a cache and grouped, *)
(* while others write them.  lib.rs and cache.rs of                        *)
(* core/crates/adiungere-scan/src, and detect of                           *)
(* core/crates/adiungere-cli/src/media.rs.                                 *)
(*                                                                         *)
(* Paths are numbered in their sorted order; each has a directory and a    *)
(* name.  A file is its size, the second it was last written in, and what  *)
(* it holds.  Between the calls that ask for a file's size, open it and    *)
(* read it, files may be written or removed, the clock may move, and the   *)
(* process may die; a listing and a reading are one step each, and either  *)
(* may fail.                                                               *)
(***************************************************************************)
EXTENDS Recordings

CONSTANTS
    Library,       \* [files, directories, names, given, cached, others, fails]: the files by path, what was
                   \* asked for, whether a cache is kept, whether others write and the process may die, and
                   \* whether the system fails
    Contents,      \* what a file may hold
    MaxWrites, MaxFailures, MaxClock, MaxRuns

(* A library has a file, or what stands for none, for every path, and no file is dated ahead of the clock. *)
ASSUME LibraryAssumption ==
    \A l \in Library :
        /\ IsFiniteSet(DOMAIN l.names) /\ IsFiniteSet(DOMAIN l.given)
        /\ DOMAIN l.files = DOMAIN l.names
        /\ \A p \in DOMAIN l.files : l.files[p].modified \in 0..1

Missing == [size |-> 0, modified |-> 0, content |-> {}]

VARIABLES
    library,
    files,     \* path -> file
    clock,     \* seconds
    writes, failures, runs,   \* counters, for the bounds
    saved,     \* the text of the cache on disk: of a kind, with entries
    pc, cache, \* the entries in memory
    queue,     \* the paths still to look at
    stat,      \* the file's size and time as the scan found them, and, for the properties, the file
    opened,    \* the file about to be probed: its size, then what was opened
    probed,    \* [path, probe, hit, seen]
    skipped, recordings,
    listed,    \* what was collected, for the properties
    versions   \* path -> every state its file was in, for the properties

system == <<library, files, clock, writes, failures, saved, versions>>
vars == <<library, files, clock, writes, failures, runs, saved, pc, cache, queue, stat, opened, probed,
          skipped, recordings, listed, versions>>

Text(kind, entries) == [kind |-> kind, entries |-> entries]

Init ==
    /\ library \in Library
    /\ files = library.files
    /\ clock = 1 /\ writes = 0 /\ failures = {} /\ runs = 0
    /\ saved \in {Text("absent", {}), Text("another format", {})}
    /\ pc = "idle" /\ cache = {} /\ queue = <<>> /\ stat = Missing /\ opened = Missing
    /\ probed = <<>> /\ skipped = 0 /\ recordings = <<>> /\ listed = <<>>
    /\ versions = [p \in DOMAIN files |-> {files[p]}]

Paths == DOMAIN library.names
Saved == 0     \* the places where the system fails, besides a file: the cache
Listing == -1  \* and the directories
Fail(place) ==
    /\ library.fails /\ Cardinality(failures) < MaxFailures
    /\ failures' = failures \cup {place}
Forget == cache' = {} /\ queue' = <<>> /\ stat' = Missing /\ opened' = Missing /\ skipped' = 0

-----------------------------------------------------------------------------
(* The cache: entries by path, each with the size and time it is for. *)

Get(path, size, modified) ==
    {entry.probe : entry \in {e \in cache : e.path = path /\ e.size = size /\ e.modified = modified}}
InsertAsProbed(path, size, modified, probe) ==
    {e \in cache : e.path # path}
    \cup {[path |-> path, size |-> files[path].size, modified |-> files[path].modified, probe |-> probe]}
Insert(path, size, modified, probe) ==
    {e \in cache : e.path # path}
    \cup {[path |-> path, size |-> size, modified |-> modified, probe |-> probe]}

(* ScanCache::load: what does not parse, or is of another format, is as good as none. *)
Loaded(text) == IF text.kind = "whole" THEN text.entries ELSE {}

Load ==
    /\ pc = "idle" /\ runs < MaxRuns
    /\ runs' = runs + 1
    /\ probed' = <<>> /\ skipped' = 0 /\ recordings' = <<>> /\ listed' = <<>>
    /\ \/ /\ pc' = "collect"
          /\ cache' = IF library.cached THEN Loaded(saved) ELSE {}
          /\ UNCHANGED failures
       \/ /\ library.cached /\ saved.kind # "absent" /\ Fail(Saved)
          /\ UNCHANGED <<pc, cache>>
    /\ UNCHANGED <<library, files, clock, writes, saved, versions, queue, stat, opened>>

(* collect: the arguments that give a path, which is one of them or lies under one. *)
Under(directory) ==
    {p \in Paths : files[p] # Missing /\ IsPrefix(directory, library.directories[p])}
Giving(p) ==
    {g \in DOMAIN library.given :
        \/ library.given[g].path = p
        \/ library.given[g].path = 0 /\ p \in Under(library.given[g].directory)}

Asked == {x \in Paths \X DOMAIN library.given : x[2] \in Giving(x[1])}

(* What one call that fails leaves out, without a word: an entry of a listing, or everything under a
   directory, the argument itself or one that leads to the path. *)
LeftOut(path, argument) ==
    {{<<path, argument>>}}
    \cup {{x \in Asked : x[2] = argument /\ x[1] \in Under(SubSeq(library.directories[path], 1, n))} :
              n \in Len(library.given[argument].directory)..Len(library.directories[path])}

(* The paths in their order, each as often as it was given. *)
IsCollected(paths, given) ==
    /\ \A i, j \in DOMAIN paths : i < j => paths[i] <= paths[j]
    /\ \A p \in Paths : Cardinality({i \in DOMAIN paths : paths[i] = p}) = Cardinality({x \in given : x[1] = p})
Lists(given) == \E paths \in [1..Cardinality(given) -> Paths] : IsCollected(paths, given) /\ queue' = paths

Collect ==
    /\ pc = "collect"
    /\ \/ Lists(Asked) /\ UNCHANGED failures
       \/ /\ \E x \in Asked :
               /\ library.given[x[2]].path = 0
               /\ \E leftOut \in LeftOut(x[1], x[2]) : Lists(Asked \ leftOut)
          /\ Fail(Listing)
    /\ listed' = queue'
    /\ pc' = "next"
    /\ UNCHANGED <<library, files, clock, writes, saved, versions, runs, cache, stat, opened, probed, skipped,
                   recordings>>

Path == Head(queue)
Name == library.names[Path]

SkipByExtension ==
    /\ pc = "next" /\ queue # <<>> /\ ~WorthOpening(Name)
    /\ skipped' = skipped + 1
    /\ queue' = Tail(queue)
    /\ UNCHANGED <<system, runs, pc, cache, stat, opened, probed, recordings, listed>>

Push(probe, hit, seen) ==
    /\ probed' = Append(probed, [path |-> Path, probe |-> probe, hit |-> hit, seen |-> seen])
    /\ queue' = Tail(queue)
    /\ pc' = "next"

(* The size and time of the file, zero when the system does not say, and the answer of the cache. *)
Stat ==
    /\ pc = "next" /\ queue # <<>> /\ WorthOpening(Name)
    /\ LET now == files[Path]
           known == Get(Path, now.size, now.modified)
       IN /\ stat' = now
          /\ IF known # {} THEN Push(The(known), TRUE, now)
             ELSE pc' = "measure" /\ UNCHANGED <<probed, queue>>
    /\ UNCHANGED <<system, runs, cache, opened, skipped, recordings, listed>>

(* probe_file: the size once more, and the file is opened. *)
MeasureFile ==
    /\ pc = "measure" /\ files[Path] # Missing
    /\ opened' = [Missing EXCEPT !.size = files[Path].size]
    /\ pc' = "open"
    /\ UNCHANGED <<system, runs, cache, queue, stat, probed, skipped, recordings, listed>>

OpenFile ==
    /\ pc = "open" /\ files[Path] # Missing
    /\ opened' = [opened EXCEPT !.content = files[Path].content]
    /\ pc' = "probe"
    /\ UNCHANGED <<system, runs, cache, queue, stat, probed, skipped, recordings, listed>>

(* What cannot be opened is reported, and not kept. *)
RefuseFile ==
    /\ pc \in {"measure", "open"}
    /\ (files[Path] = Missing /\ UNCHANGED failures) \/ Fail(Path)
    /\ Push(NotOpened(Name, stat.size), FALSE, stat)
    /\ UNCHANGED <<library, files, clock, writes, saved, versions, runs, cache, stat, opened, skipped,
                   recordings, listed>>

Keep(probe) == cache' = IF library.cached THEN Insert(Path, stat.size, stat.modified, probe) ELSE cache

(* What was opened is read, as it was or, written in place, as it is; a reading that fails gives a probe
   like any other, which is kept. *)
Probe ==
    /\ pc = "probe"
    /\ \/ /\ \E content \in opened.content \cup files[Path].content :
               LET probe == ProbeSource(Name, opened.size, Summarise(content))
               IN Keep(probe) /\ Push(probe, FALSE, stat)
          /\ UNCHANGED failures
       \/ LET probe == ProbeSource(Name, opened.size, {})
          IN Keep(probe) /\ Push(probe, FALSE, stat) /\ Fail(Path)
    /\ UNCHANGED <<library, files, clock, writes, saved, versions, runs, stat, opened, skipped, recordings, listed>>

(* The answer, and the cache written over the old one: first emptied, then filled. *)
Answer ==
    /\ pc = "next" /\ queue = <<>>
    /\ recordings' = Group(probed)
    /\ pc' = IF library.cached THEN "save" ELSE "answered"
    /\ UNCHANGED <<system, runs, cache, queue, stat, opened, probed, skipped, listed>>

EmptyText ==
    /\ pc = "save"
    /\ saved' = Text("cut short", {})
    /\ pc' = "write"
    /\ UNCHANGED <<library, files, clock, writes, failures, versions, runs, cache, queue, stat, opened,
                   probed, skipped, recordings, listed>>

WriteText ==
    /\ pc = "write"
    /\ saved' = Text("whole", cache)
    /\ pc' = "answered"
    /\ UNCHANGED <<library, files, clock, writes, failures, versions, runs, cache, queue, stat, opened,
                   probed, skipped, recordings, listed>>

RefuseSave ==
    /\ pc \in {"save", "write"} /\ Fail(Saved)
    /\ pc' = "idle" /\ Forget /\ recordings' = <<>> /\ probed' = <<>> /\ listed' = <<>>
    /\ UNCHANGED <<library, files, clock, writes, saved, versions, runs>>

Return ==
    /\ pc = "answered"
    /\ pc' = "idle" /\ Forget
    /\ UNCHANGED <<system, runs, probed, recordings, listed>>

Crash ==
    /\ library.others /\ pc # "idle" /\ runs < MaxRuns
    /\ pc' = "idle" /\ Forget /\ recordings' = <<>> /\ probed' = <<>> /\ listed' = <<>>
    /\ UNCHANGED <<system, runs>>

-----------------------------------------------------------------------------
(* The others: a file written is dated by the clock. *)

Becomes(path, file) ==
    /\ files' = [files EXCEPT ![path] = file]
    /\ versions' = [versions EXCEPT ![path] = @ \cup {file}]

Write ==
    /\ library.others /\ writes < MaxWrites
    /\ writes' = writes + 1
    /\ \E path \in Paths :
         \/ \E content \in Contents :
              Becomes(path, [size |-> content.size, modified |-> clock, content |-> {content}])
         \/ Becomes(path, Missing)
    /\ UNCHANGED <<library, clock, failures, runs, saved, pc, cache, queue, stat, opened, probed, skipped,
                   recordings, listed>>

Tick ==
    /\ library.others /\ clock < MaxClock
    /\ clock' = clock + 1
    /\ UNCHANGED <<library, files, writes, failures, runs, saved, pc, cache, queue, stat, opened, probed,
                   skipped, recordings, listed, versions>>

Detect ==
    \/ Load \/ Collect \/ SkipByExtension \/ Stat \/ MeasureFile \/ OpenFile \/ RefuseFile \/ Probe
    \/ Answer \/ EmptyText \/ WriteText \/ RefuseSave \/ Return
Next == Detect \/ Crash \/ Write \/ Tick

Spec == Init /\ [][Next]_vars

-----------------------------------------------------------------------------
(* "A file that has the same size and modification time as last time is the same file for the purpose of a
   probe."  What the cache answers is what a probe of the file, as it was found, would have said, but in
   three cases: the file was written more than once within one second; a reading of it failed once; or it
   was not there to be found.  A file that is written between the steps of a scan, however often, is
   none of them. *)
StaleOnlyWithinASecond ==
    \A i \in DOMAIN probed : probed[i].hit =>
        LET path == probed[i].path
            found == probed[i].seen
        IN \/ \E content \in found.content :
                 probed[i].probe = ProbeSource(library.names[path], found.size, Summarise(content))
           \/ \E other \in versions[path] :
                 other # found /\ other.modified = found.modified
           \/ path \in failures /\ probed[i].probe.unreadable
           \/ found = Missing

(* Every path that was listed, as often as it was listed, is a member of one recording of the answer or was
   skipped by its extension; and what is listed is what was given, directories with all they hold, when
   nobody writes meanwhile and no listing fails.  A listing that fails takes what it leads to out of the
   answer without a word. *)
Members == UNION {{r} \X DOMAIN recordings[r].members : r \in DOMAIN recordings}
MembersFrom(p) == {x \in Members : recordings[x[1]].members[x[2]].path = p}
PlacesListed(p) == {i \in DOMAIN listed : listed[i] = p}
NothingDisappears ==
    pc \in {"save", "write", "answered"} =>
        /\ \A p \in Paths :
             Cardinality(MembersFrom(p)) =
                IF WorthOpening(library.names[p]) THEN Cardinality(PlacesListed(p)) ELSE 0
        /\ skipped + Cardinality(Members) = Len(listed)
        /\ ~library.others /\ Listing \notin failures =>
             \A p \in Paths : Cardinality(PlacesListed(p)) = Cardinality({x \in Asked : x[1] = p})

(* A stem is one recording: the files of a pair share a stem no other recording has, "front first, then
   rear, then any other camera", and a file is alone only when no other that reads has its stem.  Nothing
   here says that they are of one grammar, or that each camera has one file: the code looks at the stem
   alone, and the next property says what its comments do. *)
PairsAreWholeAndOrdered ==
    \A r, s \in DOMAIN recordings :
        LET mine == recordings[r].members
            theirs == recordings[s].members
        IN recordings[r].kind \in {"paired", "unpaired"} =>
             /\ recordings[r].kind = "paired" <=> Len(mine) > 1
             /\ \A i, j \in DOMAIN mine :
                  /\ Stem(mine[i]) = Stem(mine[j])
                  /\ i < j => CameraOrder[Camera(mine[i])] <= CameraOrder[Camera(mine[j])]
             /\ recordings[s].kind \in {"paired", "unpaired"} /\ Stem(mine[1]) = Stem(theirs[1]) => r = s

(* group and Recording::Paired: files "are grouped by grammar and stem", "one per camera", so that neither
   the file of another grammar nor a second file of one camera, in another directory or given twice, is a
   counterpart. *)
PairsAreAsSaid ==
    \A r \in DOMAIN recordings :
        LET members == recordings[r].members
        IN recordings[r].kind = "paired" =>
             \A i, j \in DOMAIN members :
               /\ The(members[i].probe.parsed).grammar = The(members[j].probe.parsed).grammar
               /\ Camera(members[i]) = Camera(members[j]) => i = j

(* A sign that compares a file with others is shown by another file of the same scan: one of the same
   grammar or the same time that has two cameras, a vendor box, or a picture that is wider or higher.  The
   recorder's own grammar is the one that needs no witness for its vendor boxes. *)
Witnesses(file) ==
    UNION {other.probe.container : other \in
        {probed[i] : i \in {i \in DOMAIN probed :
            /\ probed[i].path # file.path
            /\ \E mine \in file.probe.parsed, theirs \in probed[i].probe.parsed :
                 mine.grammar = theirs.grammar \/ (mine.time = theirs.time /\ mine.time # 0)}}}
SignsHaveAWitness ==
    \A r \in DOMAIN recordings : \A k \in DOMAIN recordings[r].members :
        \A origin \in recordings[r].origins[k] :
            LET file == recordings[r].members[k]
                own == The(file.probe.container)
            IN \A sign \in origin.signals :
                 CASE sign[1] = "single video track where sibling has two" ->
                        own.videoTracks = 1 /\ \E other \in Witnesses(file) : other.videoTracks >= 2
                   [] sign[1] = "vendor boxes absent" ->
                        /\ own.vendorBoxes = 0
                        /\ origin.layoutKnown \/ \E other \in Witnesses(file) : other.vendorBoxes > 0
                   [] sign[1] = "resolution below siblings" ->
                        \E other \in Witnesses(file) : \E a \in own.picture, b \in other.picture :
                           a[1] < b[1] \/ a[2] < b[2]
                   [] OTHER -> TRUE
=============================================================================
