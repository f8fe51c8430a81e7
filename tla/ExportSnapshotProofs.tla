----------------------- MODULE ExportSnapshotProofs ------------------------
(* That an output in place is a state every source was in, that a manifest describes the output that is
   there, that the final name changes hands once, that what was not kept is not left behind, and, from
   these, that Export implements AtomicExport (every step of a command, of the user and of the recorder
   is a change of a recording, a publication, an answer, or nothing): for every set of jobs, names,
   files, faults and requests in which the names are apart. *)
EXTENDS ExportProofs

(* What a recording is has been noted. *)
PastHolds(i) == content[i].kind = "recording" => content[i].units \in past[i]

(* What a job has not come to yet has not been read. *)
Untouched(j) ==
    pc[j] \in {"checking", "opening", "building", "parsing"} =>
        \A s \in Position, u \in Unit :
            /\ s >= current[j] => copied[j][<<s, u>>] = NotRead
            /\ s > current[j] => recorded[j][<<s, u>>] = NotRead
            /\ s = current[j] /\ pc[j] \in {"checking", "opening"} => recorded[j][<<s, u>>] = NotRead

(* A state a source was in lies between what its manifest recorded and what was copied of it, and what the
   source holds now. *)
Between(j, s, w) ==
    LET i == handle[j][s] IN
    \A u \in Unit :
        /\ recorded[j][<<s, u>>] # NotRead => recorded[j][<<s, u>>] =< w[u]
        /\ copied[j][<<s, u>>] # NotRead => w[u] =< copied[j][<<s, u>>]
        /\ content[i].kind = "recording" => w[u] =< content[i].units[u]
WasRead(j, s) == \E u \in Unit : recorded[j][<<s, u>>] # NotRead \/ copied[j][<<s, u>>] # NotRead
Bracketed(j, s) ==
    WasRead(j, s) => handle[j][s] \in Inodes /\ \E w \in past[handle[j][s]] : Between(j, s, w)

(* An output holds what its job copied, and nothing else. *)
WrittenIsCopied(i) ==
    content[i].kind = "output" =>
        \A p \in Piece : content[i].pieces[p] # NotRead => content[i].pieces[p] = copied[content[i].by][p]

(* What is moved, and what stands under the final name, is what was read back. *)
ReadBackKept(j) == pc[j] = "moving" => back[j] = content[writer[j]].pieces
OwnOutput(j) ==
    Exports(j) /\ Standing(j) =>
        content[entry[Out(j)]].by = j /\ content[entry[Out(j)]].pieces = back[j]
OutputStands(j) == Exports(j) /\ pc[j] \in {"describing", "filling"} => Standing(j)
Described(j) ==
    Exports(j) /\ ManifestIsOwn(j) => Standing(j) /\ content[entry[ManifestPath(j)]].describes = back[j]

(* Until the move the final name leads where it led at first; after it, a manifest that is not the job's
   own waits to be replaced, or was left by a failure or a death; a job that is done has replaced it. *)
Unmoved(j) == Exports(j) /\ ~Standing(j) => entry[Out(j)] = InitEntry[Out(j)]
Replacing(j) == pc[j] = "describing" \/ (pc[j] = "ended" /\ verdict[j] \in {"failed", "crashed"})
Outlived(j) == Exports(j) /\ Standing(j) /\ ManifestStands(j) /\ ~ManifestIsOwn(j) => Replacing(j)
DoneIsDescribed(j) == Exports(j) /\ verdict[j] = "done" => pc[j] = "ended" /\ ManifestIsOwn(j)

(* A partial file of its own, if removing it does not fail, belongs to a job that is at work on it, that
   failed or that died. *)
PartialKept(j) ==
    Exports(j) /\ Partial(j) \notin Stuck /\ entry[Partial(j)] # NoFile /\ content[entry[Partial(j)]].by = j =>
        \/ pc[j] \in {"heading", "copying", "flushing", "reading back", "moving", "removing"}
        \/ pc[j] = "ended" /\ verdict[j] \in {"failed", "crashed"}

JobKept(j) ==
    /\ Untouched(j)
    /\ \A s \in Position : Bracketed(j, s)
    /\ ReadBackKept(j)
    /\ OwnOutput(j)
    /\ OutputStands(j)
    /\ Described(j)
    /\ Unmoved(j)
    /\ Outlived(j)
    /\ DoneIsDescribed(j)
Kept ==
    /\ Safe
    /\ \A i \in Inodes : PastHolds(i) /\ WrittenIsCopied(i)
    /\ \A j \in Jobs : JobKept(j)

-----------------------------------------------------------------------------
(* A step of a command makes no recording and changes none. *)
LEMMA WorkContent ==
    ASSUME Safe, NEW j \in Jobs, Work(j)
    PROVE  /\ past' = past
           /\ \A i \in Inodes : content'[i] = content[i] \/ content'[i].kind # "recording"
<1> USE DEF Safe, Typed, TypeOK, files
<1>1. CASE CheckNames(j) \/ OpenSource(j) \/ BuildUnit(j) \/ ParseSource(j) \/ OpeningFails(j)
  BY <1>1 DEF CheckNames, OpenSource, BuildUnit, ParseSource, OpeningFails
<1>2. CASE Flush(j) \/ RemuxFails(j) \/ ReadBack(j) \/ RemovePartial(j)
  BY <1>2 DEF Flush, RemuxFails, ReadBack, RemovePartial
<1>3. CASE Rename(j)
  BY <1>3 DEF Rename, MoveFile
<1>4. CASE CreatePartial(j)
  BY <1>4 DEF CreatePartial, CreateFile
<1>5. CASE WriteHead(j) \/ CopyPiece(j)
  <2>1. PICK f : content' = [content EXCEPT ![writer[j]] = [kind |-> "output", by |-> j, pieces |-> f]]
    BY <1>5, WritesOutput DEF WriteHead, CopyPiece
  <2>2. QED
    BY <1>5, <2>1 DEF WriteHead, CopyPiece
<1>6. CASE CreateManifest(j)
  BY <1>6 DEF CreateManifest, CreateFile
<1>7. CASE FillManifest(j)
  BY <1>7 DEF FillManifest
<1>8. QED
  BY <1>1, <1>2, <1>3, <1>4, <1>5, <1>6, <1>7 DEF Work

(* What is a recording after a step was one before it, no older, and what it was is remembered. *)
LEMMA OnlyNewer ==
    ASSUME Safe, Typed', [Next]_vars, NEW i \in Inodes
    PROVE  /\ past[i] \subseteq past'[i]
           /\ PastHolds(i) => PastHolds(i)'
           /\ content'[i].kind = "recording" =>
                /\ content[i].kind = "recording"
                /\ \A u \in Unit : content[i].units[u] =< content'[i].units[u]
<1> USE DEF Safe
<1>1. content[i].kind = "recording" => content[i].units \in [Unit -> Version] /\ Version \subseteq Int
  BY RecordingTyped, BoundAssumption DEF Typed, Version
<1>2. CASE past'[i] = past[i] /\ (content'[i] = content[i] \/ content'[i].kind # "recording")
  BY <1>1, <1>2 DEF PastHolds
<1>3. ASSUME NEW j \in Jobs, Work(j)
      PROVE  past'[i] = past[i] /\ (content'[i] = content[i] \/ content'[i].kind # "recording")
  BY <1>3, WorkContent
<1>4. ASSUME NEW j \in Jobs, Interrupt(j) \/ Crash(j)
      PROVE  past'[i] = past[i] /\ content'[i] = content[i]
  BY <1>4 DEF Interrupt, Crash, files
<1>5. ASSUME NEW k \in Inodes, NEW u \in Unit, Edit(k, u)
      PROVE  /\ past[i] \subseteq past'[i]
             /\ PastHolds(i) => PastHolds(i)'
             /\ content'[i].kind = "recording" =>
                  /\ content[i].kind = "recording"
                  /\ \A v \in Unit : content[i].units[v] =< content'[i].units[v]
  <2>1. CASE i # k
    <3>1. past'[i] = past[i] /\ content'[i] = content[i]
      BY <1>5, <2>1 DEF Edit, Typed, TypeOK
    <3>2. QED
      BY <1>2, <1>1, <3>1 DEF PastHolds
  <2>2. CASE i = k
    <3>1. content[i] \in [kind : {"recording"}, by : {Nobody}, units : [Unit -> Version]]
      BY <1>5, <2>2 DEF Edit, Typed, TypeOK, Content
    <3>2. content' = [content EXCEPT ![i] =
                        [content[i] EXCEPT !.units = [content[i].units EXCEPT ![u] = @ + 1]]]
      BY <1>5, <2>2 DEF Edit
    <3>3. content'[i].units = [content[i].units EXCEPT ![u] = @ + 1]
      BY <3>1, <3>2 DEF Typed, TypeOK
    <3>4. past'[i] = past[i] \cup {content'[i].units}
      BY <1>5, <2>2 DEF Edit, Typed, TypeOK
    <3>5. \A v \in Unit : content[i].units[v] =< content'[i].units[v]
      BY <1>1, <3>1, <3>3
    <3>6. QED
      BY <3>1, <3>4, <3>5 DEF PastHolds
  <2>3. QED
    BY <2>1, <2>2
<1>6. CASE UNCHANGED vars
  BY <1>2, <1>6 DEF vars, files
<1>7. QED
  BY <1>2, <1>3, <1>4, <1>5, <1>6 DEF Next

(* Nothing of a job is changed by the steps of another. *)
LEMMA OthersStill ==
    ASSUME Typed, NEW j \in Jobs, Work(j), NEW k \in Jobs, k # j
    PROVE  /\ pc'[k] = pc[k] /\ verdict'[k] = verdict[k] /\ current'[k] = current[k]
           /\ handle'[k] = handle[k] /\ recorded'[k] = recorded[k] /\ copied'[k] = copied[k]
           /\ writer'[k] = writer[k] /\ back'[k] = back[k]
<1> USE DEF Typed, TypeOK, Goto, EndWith, progress
<1>1. CASE CheckNames(j) \/ OpenSource(j) \/ BuildUnit(j) \/ ParseSource(j) \/ OpeningFails(j)
  BY <1>1 DEF CheckNames, OpenSource, BuildUnit, ParseSource, OpeningFails
<1>2. CASE CreatePartial(j) \/ WriteHead(j) \/ CopyPiece(j) \/ Flush(j) \/ RemuxFails(j)
  BY <1>2 DEF CreatePartial, WriteHead, CopyPiece, Flush, RemuxFails
<1>3. CASE ReadBack(j) \/ Rename(j) \/ CreateManifest(j) \/ FillManifest(j) \/ RemovePartial(j)
  BY <1>3 DEF ReadBack, Rename, CreateManifest, FillManifest, RemovePartial
<1>4. QED
  BY <1>1, <1>2, <1>3 DEF Work

-----------------------------------------------------------------------------
(* The bracket around what a source was. *)

LEMMA PieceTyped ==
    ASSUME Typed, NEW j \in Jobs, NEW s \in Position, NEW u \in Unit
    PROVE  /\ recorded[j][<<s, u>>] \in Version \cup {NotRead}
           /\ copied[j][<<s, u>>] \in Version \cup {NotRead}
           /\ Version \subseteq Int
BY BoundAssumption DEF Typed, TypeOK, Piece, Version

(* Versions are numbers, and can be compared. *)
LEMMA VersionsAreNumbers ==
    ASSUME Typed, NEW i \in Inodes
    PROVE  /\ content[i].kind = "recording" => \A u \in Unit : content[i].units[u] \in Int
           /\ \A w \in past[i], u \in Unit : w[u] \in Int
<1>1. \A x \in Version : x \in Int
  BY BoundAssumption DEF Version
<1>2. content[i].kind = "recording" => \A u \in Unit : content[i].units[u] \in Version
  BY RecordingTyped DEF Typed
<1>3. \A w \in past[i] : w \in [Unit -> Version]
  BY DEF Typed, TypeOK
<1>4. \A w \in past[i], u \in Unit : w[u] \in Version
  BY <1>3
<1>5. QED
  BY <1>1, <1>2, <1>4

(* Whatever is written to the source, what lay between what was recorded and what was copied does still. *)
LEMMA BracketStays ==
    ASSUME Safe, Typed', [Next]_vars, NEW k \in Jobs, NEW s \in Position, Bracketed(k, s),
           handle'[k][s] = handle[k][s],
           \A u \in Unit : /\ recorded'[k][<<s, u>>] = recorded[k][<<s, u>>]
                           /\ copied'[k][<<s, u>>] = copied[k][<<s, u>>]
    PROVE  Bracketed(k, s)'
<1> DEFINE i == handle[k][s]
<1>1. SUFFICES ASSUME WasRead(k, s)'
      PROVE  i \in Inodes /\ \E w \in past'[i] : Between(k, s, w)'
  BY DEF Bracketed
<1>2. WasRead(k, s)
  BY <1>1 DEF WasRead
<1>3. i \in Inodes
  BY <1>2 DEF Bracketed
<1>4. PICK w \in past[i] : Between(k, s, w)
  BY <1>2 DEF Bracketed
<1>5. \A u \in Unit : w[u] \in Int
  BY <1>3, VersionsAreNumbers DEF Safe
<1>6. w \in past'[i]
  BY <1>3, OnlyNewer
<1>7. ASSUME NEW u \in Unit
      PROVE  content'[i].kind = "recording" => w[u] =< content'[i].units[u]
  <2>1. SUFFICES ASSUME content'[i].kind = "recording"
        PROVE  w[u] =< content'[i].units[u]
    OBVIOUS
  <2>2. content[i].kind = "recording" /\ content[i].units[u] =< content'[i].units[u]
    BY <1>3, <2>1, OnlyNewer
  <2>3. content[i].units[u] \in Int
    BY <1>3, <2>2, VersionsAreNumbers DEF Safe
  <2>4. content'[i].units[u] \in Int
    <3>1. content'[i].units[u] \in Version
      BY <1>3, <2>1 DEF Typed, TypeOK, Content
    <3>2. QED
      BY <3>1, BoundAssumption DEF Version
  <2>5. w[u] =< content[i].units[u]
    BY <1>4, <2>2 DEF Between
  <2>6. QED
    BY <1>5, <2>2, <2>3, <2>4, <2>5
<1>8. Between(k, s, w)'
  BY <1>4, <1>7 DEF Between
<1>9. QED
  BY <1>3, <1>6, <1>8

(* A unit recorded of a source of which nothing was copied yet: the source as it is now is the state. *)
LEMMA BracketRecord ==
    ASSUME Kept, NEW j \in Jobs, BuildUnit(j), Typed'
    PROVE  Bracketed(j, current[j])'
<1> DEFINE s == current[j]
           i == handle[j][s]
           w == content[i].units
<1> USE DEF Kept
<1>1. i \in Inodes /\ s \in Position /\ content[i].kind = "recording"
  BY DEF Safe, Typed, TypeOK, HandlesOpen, BuildUnit, SourceIsRecording
<1>2. w \in past[i] /\ \A v \in Unit : w[v] \in Int
  BY <1>1, VersionsAreNumbers DEF Safe, PastHolds
<1>3. PICK u \in Unit : recorded' = [recorded EXCEPT ![j][<<s, u>>] = w[u]]
  BY DEF BuildUnit, Unread
<1>4. UNCHANGED <<content, past, handle, copied, current>>
  BY DEF BuildUnit, files
<1>5. \A v \in Unit : recorded'[j][<<s, v>>] = IF v = u THEN w[u] ELSE recorded[j][<<s, v>>]
  <2>1. \A v \in Unit : <<s, v>> \in Piece /\ (<<s, v>> = <<s, u>> <=> v = u)
    BY <1>1 DEF Piece
  <2>2. recorded \in [Jobs -> [Piece -> Version \cup {NotRead}]]
    BY DEF Safe, Typed, TypeOK
  <2> HIDE DEF w
  <2>3. QED
    BY <1>3, <2>1, <2>2
<1>6. \A v \in Unit : copied[j][<<s, v>>] = NotRead
  <2>1. s >= current[j]
    BY <1>1 DEF Position
  <2>2. QED
    BY <1>1, <2>1 DEF JobKept, Untouched, BuildUnit
<1>7. \A v \in Unit : recorded[j][<<s, v>>] # NotRead => recorded[j][<<s, v>>] =< w[v]
  <2>1. ASSUME NEW v \in Unit, recorded[j][<<s, v>>] # NotRead
        PROVE  recorded[j][<<s, v>>] =< w[v]
    <3>1. WasRead(j, s) /\ Bracketed(j, s)
      BY <1>1, <2>1 DEF WasRead, JobKept
    <3>2. PICK x \in past[i] : Between(j, s, x)
      BY <3>1 DEF Bracketed
    <3>3. x[v] \in Int
      BY <1>1, VersionsAreNumbers DEF Safe
    <3>4. recorded[j][<<s, v>>] =< x[v] /\ x[v] =< w[v]
      BY <1>1, <2>1, <3>2 DEF Between
    <3>5. recorded[j][<<s, v>>] \in Int
      BY <1>1, <2>1, PieceTyped DEF Safe
    <3>6. QED
      BY <1>2, <3>3, <3>4, <3>5
  <2>2. QED
    BY <2>1
<1>8. \A v \in Unit : w[v] =< w[v]
  BY <1>2
<1>9. Between(j, s, w)'
  BY <1>4, <1>5, <1>6, <1>7, <1>8 DEF Between
<1>10. QED
  BY <1>1, <1>2, <1>4, <1>9 DEF Bracketed

(* A unit copied is no older than what the bracket holds. *)
LEMMA BracketCopy ==
    ASSUME Kept, Typed', NEW j \in Jobs, NEW s \in Position, NEW u \in Unit,
           handle[j][s] \in Inodes, content[handle[j][s]].kind = "recording",
           copied' = [copied EXCEPT ![j][<<s, u>>] = content[handle[j][s]].units[u]],
           UNCHANGED <<handle, recorded, past>>,
           content'[handle[j][s]] = content[handle[j][s]] \/ content'[handle[j][s]].kind # "recording"
    PROVE  Bracketed(j, s)'
<1> DEFINE i == handle[j][s]
           now == content[i].units
<1> USE DEF Kept
<1>1. now \in past[i] /\ \A v \in Unit : now[v] \in Int
  BY VersionsAreNumbers DEF Safe, PastHolds
<1>2. \A v \in Unit : copied'[j][<<s, v>>] = IF v = u THEN now[u] ELSE copied[j][<<s, v>>]
  <2>1. \A v \in Unit : <<s, v>> \in Piece /\ (<<s, v>> = <<s, u>> <=> v = u)
    BY DEF Piece
  <2>2. copied \in [Jobs -> [Piece -> Version \cup {NotRead}]]
    BY DEF Safe, Typed, TypeOK
  <2>3. copied' = [copied EXCEPT ![j][<<s, u>>] = now[u]]
    OBVIOUS
  <2> HIDE DEF now
  <2>4. QED
    BY <2>1, <2>2, <2>3
<1>3. CASE WasRead(j, s)
  <2>1. PICK w \in past[i] : Between(j, s, w)
    BY <1>3 DEF JobKept, Bracketed
  <2>2. w[u] =< now[u]
    BY <2>1 DEF Between
  <2>3. Between(j, s, w)'
    BY <1>2, <2>1, <2>2 DEF Between
  <2>4. QED
    BY <2>1, <2>3 DEF Bracketed
<1>4. CASE ~WasRead(j, s)
  <2>1. \A v \in Unit : recorded[j][<<s, v>>] = NotRead /\ copied[j][<<s, v>>] = NotRead
    BY <1>4 DEF WasRead
  <2>2. PICK w \in past[i] : w = now
    BY <1>1
  <2>3. \A v \in Unit : w[v] =< w[v]
    BY <1>1, <2>2
  <2>4. Between(j, s, w)'
    BY <1>2, <2>1, <2>2, <2>3 DEF Between
  <2>5. QED
    BY <2>4 DEF Bracketed
<1>5. QED
  BY <1>3, <1>4

(* A step of a job's own: it reads on from where it was. *)
LEMMA ReadStep ==
    ASSUME Kept, Typed', NEW j \in Jobs, Work(j)
    PROVE  Untouched(j)' /\ \A s \in Position : Bracketed(j, s)'
<1> USE DEF Kept
<1>1. /\ pc \in [Jobs -> Step] /\ current[j] \in Position /\ current \in [Jobs -> Position]
      /\ handle \in [Jobs -> [Position -> Inodes \cup {NoFile}]]
      /\ recorded \in [Jobs -> [Piece -> Version \cup {NotRead}]]
      /\ copied \in [Jobs -> [Piece -> Version \cup {NotRead}]]
  BY DEF Safe, Typed, TypeOK
<1>2. /\ Untouched(j) /\ \A s \in Position : Bracketed(j, s)
      /\ [Next]_vars /\ Safe /\ Typed
  BY DEF JobKept, Next, Safe
<1>3. ASSUME NEW s \in Position, handle'[j][s] = handle[j][s],
             \A u \in Unit : /\ recorded'[j][<<s, u>>] = recorded[j][<<s, u>>]
                             /\ copied'[j][<<s, u>>] = copied[j][<<s, u>>]
      PROVE  Bracketed(j, s)'
  BY <1>2, <1>3, BracketStays
<1>4. CASE UNCHANGED <<handle, recorded, copied>> /\
           \/ pc'[j] \notin {"checking", "opening", "building", "parsing"}
           \/ pc[j] = "checking" /\ pc'[j] = "opening" /\ UNCHANGED current
  BY <1>2, <1>3, <1>4 DEF Untouched
<1>5. CASE CheckNames(j) \/ OpeningFails(j) \/ CreatePartial(j) \/ WriteHead(j)
  BY <1>1, <1>4, <1>5 DEF CheckNames, OpeningFails, CreatePartial, WriteHead, Goto, EndWith, progress
<1>6. CASE Flush(j) \/ RemuxFails(j) \/ ReadBack(j) \/ Rename(j) \/ RemovePartial(j)
  BY <1>1, <1>4, <1>6 DEF Flush, RemuxFails, ReadBack, Rename, RemovePartial, Goto, EndWith, progress
<1>7. CASE CreateManifest(j) \/ FillManifest(j)
  BY <1>1, <1>4, <1>7 DEF CreateManifest, FillManifest, Goto, EndWith, progress
<1>8. CASE OpenSource(j)
  <2>1. /\ pc[j] = "opening" /\ pc'[j] = "building" /\ UNCHANGED <<recorded, copied, current>>
        /\ \A s \in Position : s # current[j] => handle'[j][s] = handle[j][s]
    BY <1>1, <1>8 DEF OpenSource, Goto
  <2>2. ~WasRead(j, current[j])'
    <3>1. current[j] >= current[j]
      BY <1>1 DEF Position
    <3>2. \A u \in Unit : /\ copied[j][<<current[j], u>>] = NotRead
                         /\ recorded[j][<<current[j], u>>] = NotRead
      BY <1>1, <1>2, <2>1, <3>1 DEF Untouched
    <3>3. QED
      BY <2>1, <3>2 DEF WasRead
  <2>3. Bracketed(j, current[j])'
    BY <2>1, <2>2 DEF Bracketed
  <2>4. \A s \in Position : Bracketed(j, s)'
    BY <1>3, <2>1, <2>3
  <2>5. Untouched(j)'
    BY <1>2, <2>1 DEF Untouched
  <2>6. QED
    BY <2>4, <2>5
<1>9. CASE BuildUnit(j)
  <2>1. /\ pc[j] = "building" /\ pc'[j] \in {"building", "parsing", "describing"}
        /\ UNCHANGED <<handle, copied, current>>
    BY <1>1, <1>9 DEF BuildUnit, Goto
  <2>2. PICK v \in Unit :
          recorded' = [recorded EXCEPT ![j][<<current[j], v>>] =
                         content[handle[j][current[j]]].units[v]]
    BY <1>9 DEF BuildUnit, Unread
  <2>3. \A s \in Position, u \in Unit :
          s # current[j] => recorded'[j][<<s, u>>] = recorded[j][<<s, u>>]
    <3>1. \A s \in Position, u \in Unit :
            s # current[j] => <<s, u>> \in Piece /\ <<s, u>> # <<current[j], v>>
      BY DEF Piece
    <3>2. QED
      BY <1>1, <2>2, <3>1
  <2>4. \A s \in Position : Bracketed(j, s)'
    BY <1>3, <1>9, <2>1, <2>3, BracketRecord
  <2>5. Untouched(j)'
    BY <1>1, <1>2, <2>1, <2>3 DEF Untouched, Position
  <2>6. QED
    BY <2>4, <2>5
<1>10. CASE ParseSource(j)
  <2>0. PICK t \in Position : t = current[j]
    BY <1>1
  <2>1. /\ pc[j] = "parsing" /\ UNCHANGED <<handle, recorded, past, content>>
        /\ copied' = [copied EXCEPT ![j][<<t, Config>>] = content[handle[j][t]].units[Config]]
        /\ content[handle[j][t]].kind = "recording"
        /\ pc'[j] \in {"opening", "creating"}
        /\ pc'[j] = "opening" => t # Len(Files(j)) /\ current'[j] = t + 1
    BY <1>1, <1>10, <2>0 DEF ParseSource, Goto, SourceIsRecording, files
  <2>2. handle[j][t] \in Inodes /\ t \in DOMAIN Files(j)
    BY <1>2, <2>0, <2>1 DEF Typed, HandlesOpen
  <2>3. Bracketed(j, t)'
    BY <1>1, <2>1, <2>2, UnitAssumption, BracketCopy
  <2>4. \A s \in Position, u \in Unit : s # t => copied'[j][<<s, u>>] = copied[j][<<s, u>>]
    <3>1. \A s \in Position, u \in Unit :
            s # t => <<s, u>> \in Piece /\ <<s, u>> # <<t, Config>>
      BY DEF Piece
    <3>2. QED
      BY <1>1, <2>1, <3>1
  <2>5. \A s \in Position : Bracketed(j, s)'
    BY <1>3, <2>1, <2>3, <2>4
  <2>6. Untouched(j)'
    <3>1. ASSUME pc'[j] = "opening", NEW s \in Position, NEW u \in Unit, s >= current'[j]
          PROVE  copied'[j][<<s, u>>] = NotRead /\ recorded'[j][<<s, u>>] = NotRead
      <4>1. s > t
        BY <2>1, <3>1 DEF Position
      <4>2. s >= t /\ s # t
        BY <4>1 DEF Position
      <4>3. QED
        BY <1>2, <2>0, <2>1, <2>4, <4>1, <4>2 DEF Untouched
    <3>2. \A s \in Position : s > current'[j] \/ s = current'[j] => s >= current'[j]
      BY DEF Typed, TypeOK, Position
    <3>3. QED
      BY <2>1, <3>1, <3>2 DEF Untouched
  <2>7. QED
    BY <2>5, <2>6
<1>11. CASE CopyPiece(j)
  <2>1. PICK p \in Uncopied(j) :
          /\ SourceIsRecording(j, p[1])
          /\ copied' = [copied EXCEPT ![j][p] = content[handle[j][p[1]]].units[p[2]]]
    BY <1>11 DEF CopyPiece
  <2>2. p \in Piece /\ p[1] \in DOMAIN Files(j) /\ p[1] \in Position /\ p[2] \in Unit /\ p = <<p[1], p[2]>>
    BY <1>2, RequestTyped DEF Safe, Typed, Uncopied, PiecesOf
  <2>3. /\ pc[j] = "copying" /\ pc'[j] \in {"removing", "flushing", "copying"}
        /\ UNCHANGED <<handle, recorded, past>>
    BY <1>1, <1>11 DEF CopyPiece, Goto
  <2>4. handle[j][p[1]] \in Inodes
    BY <1>2, <2>2, <2>3 DEF Typed, HandlesOpen
  <2>5. content'[handle[j][p[1]]] = content[handle[j][p[1]]]
        \/ content'[handle[j][p[1]]].kind # "recording"
    BY <1>2, <2>4, WorkContent
  <2>6. Bracketed(j, p[1])'
    <3>1. copied' = [copied EXCEPT ![j][<<p[1], p[2]>>] = content[handle[j][p[1]]].units[p[2]]]
      BY <2>1, <2>2
    <3>2. QED
      BY <2>1, <2>2, <2>3, <2>4, <2>5, <3>1, BracketCopy DEF SourceIsRecording
  <2>7. \A s \in Position, u \in Unit : s # p[1] => copied'[j][<<s, u>>] = copied[j][<<s, u>>]
    <3>1. \A s \in Position, u \in Unit : s # p[1] => <<s, u>> \in Piece /\ <<s, u>> # p
      BY DEF Piece
    <3>2. QED
      BY <1>1, <2>1, <3>1
  <2>8. QED
    BY <1>3, <2>3, <2>6, <2>7 DEF Untouched
<1>12. QED
  BY <1>5, <1>6, <1>7, <1>8, <1>9, <1>10, <1>11 DEF Work

-----------------------------------------------------------------------------
(* What is written is what was copied. *)

(* What was copied is not copied again. *)
LEMMA CopiedOnce ==
    ASSUME Kept, NEW j \in Jobs, Work(j), NEW k \in Jobs, NEW p \in Piece, copied[k][p] # NotRead
    PROVE  copied'[k][p] = copied[k][p]
<1> USE DEF Kept
<1>1. copied \in [Jobs -> [Piece -> Version \cup {NotRead}]] /\ current[j] \in Position
  BY DEF Safe, Typed, TypeOK
<1>2. CASE k # j
  BY <1>2, OthersStill DEF Safe
<1>3. CASE copied' = copied
  BY <1>3
<1>4. ASSUME NEW q, NEW v, copied[j][q] = NotRead, copied' = [copied EXCEPT ![j][q] = v]
      PROVE  copied'[k][p] = copied[k][p]
  BY <1>1, <1>2, <1>4
<1>5. CASE CheckNames(j) \/ OpenSource(j) \/ BuildUnit(j) \/ OpeningFails(j) \/ CreatePartial(j) \/ WriteHead(j)
  BY <1>3, <1>5 DEF CheckNames, OpenSource, BuildUnit, OpeningFails, CreatePartial, WriteHead, progress
<1>6. CASE Flush(j) \/ RemuxFails(j) \/ ReadBack(j) \/ Rename(j) \/ CreateManifest(j) \/ FillManifest(j)
           \/ RemovePartial(j)
  BY <1>3, <1>6
  DEF Flush, RemuxFails, ReadBack, Rename, CreateManifest, FillManifest, RemovePartial, progress
<1>7. CASE ParseSource(j)
  <2>1. current[j] >= current[j]
    BY <1>1 DEF Position
  <2>2. copied[j][<<current[j], Config>>] = NotRead
    BY <1>1, <1>7, <2>1, UnitAssumption DEF ParseSource, JobKept, Untouched
  <2>3. QED
    BY <1>4, <1>7, <2>2 DEF ParseSource
<1>8. CASE CopyPiece(j)
  BY <1>4, <1>8 DEF CopyPiece, Uncopied
<1>9. QED
  BY <1>5, <1>6, <1>7, <1>8 DEF Work

LEMMA CopiedStep ==
    ASSUME Kept, Typed', NEW j \in Jobs, Work(j), NEW i \in Inodes
    PROVE  WrittenIsCopied(i)'
<1> USE DEF Kept
<1>1. /\ content \in [Inodes -> Content] /\ copied \in [Jobs -> [Piece -> Version \cup {NotRead}]]
      /\ Safe /\ Typed /\ WrittenIsCopied(i)
  BY DEF Safe, Typed, TypeOK
<1>2. CASE content'[i] = content[i]
  <2>1. content[i].kind = "output" => content[i].by \in Jobs
    BY <1>1, OutputTyped DEF Typed
  <2>2. QED
    BY <1>1, <1>2, <2>1, CopiedOnce DEF WrittenIsCopied
<1>3. CASE content'[i].kind # "output"
  BY <1>3 DEF WrittenIsCopied
<1>4. CASE CheckNames(j) \/ OpenSource(j) \/ BuildUnit(j) \/ ParseSource(j) \/ OpeningFails(j)
  BY <1>2, <1>4 DEF CheckNames, OpenSource, BuildUnit, ParseSource, OpeningFails, files
<1>5. CASE Flush(j) \/ RemuxFails(j) \/ ReadBack(j) \/ Rename(j) \/ RemovePartial(j)
  BY <1>2, <1>5 DEF Flush, RemuxFails, ReadBack, Rename, MoveFile, RemovePartial, files
<1>6. CASE CreateManifest(j)
  BY <1>1, <1>2, <1>3, <1>6 DEF CreateManifest, CreateFile, files
<1>7. CASE FillManifest(j)
  BY <1>1, <1>2, <1>3, <1>7 DEF FillManifest
<1>8. CASE CreatePartial(j)
  <2>1. CASE UNCHANGED files
    BY <1>2, <2>1 DEF files
  <2>2. CASE content' = [content EXCEPT ![CreatedAt(Partial(j))] =
                           [kind |-> "output", by |-> j, pieces |-> Nothing]]
    <3>1. CASE i = CreatedAt(Partial(j))
      <4>1. content'[i] = [kind |-> "output", by |-> j, pieces |-> Nothing]
        BY <1>1, <2>2, <3>1
      <4>2. QED
        BY <4>1 DEF WrittenIsCopied, Nothing
    <3>2. QED
      BY <1>1, <1>2, <2>2, <3>1
  <2>3. QED
    BY <1>8, <2>1, <2>2 DEF CreatePartial, CreateFile
<1>9. ASSUME NEW P, pc[j] \in {"heading", "copying"}, WriteThrough(j, P),
             \A p \in P : p \in Piece
      PROVE  WrittenIsCopied(i)'
  <2> DEFINE held == content[writer[j]]
             new == [p \in Piece |-> IF p \in P THEN copied'[j][p] ELSE held.pieces[p]]
  <2>1. writer[j] \in Inodes /\ held.kind = "output" /\ held.by = j
    BY <1>9 DEF Safe, JobSafe, OwnPartial
  <2>2. content' = [content EXCEPT ![writer[j]] = [held EXCEPT !.pieces = new]]
    BY <1>9, <2>1 DEF WriteThrough
  <2>3. CASE i # writer[j]
    BY <1>1, <1>2, <2>2, <2>3
  <2>4. CASE i = writer[j]
    <3>1. held \in [kind : {"output"}, by : Jobs, pieces : [Piece -> Version \cup {NotRead}]]
      BY <1>1, <2>1 DEF Content
    <3>2. content'[i].by = j /\ content'[i].pieces = new
      BY <1>1, <2>1, <2>2, <2>4, <3>1
    <3>3. ASSUME NEW p \in Piece, new[p] # NotRead
          PROVE  new[p] = copied'[j][p]
      <4>1. CASE p \in P
        BY <4>1
      <4>2. CASE p \notin P
        <5>1. new[p] = held.pieces[p]
          BY <4>2
        <5>2. held.pieces[p] = copied[j][p]
          BY <1>1, <2>1, <2>4, <3>3, <5>1 DEF WrittenIsCopied
        <5>3. copied'[j][p] = copied[j][p]
          BY <3>3, <5>1, <5>2, CopiedOnce
        <5>4. QED
          BY <5>1, <5>2, <5>3
      <4>3. QED
        BY <4>1, <4>2
    <3> HIDE DEF new
    <3>4. QED
      BY <3>2, <3>3 DEF WrittenIsCopied
  <2>5. QED
    BY <2>3, <2>4
<1>10. CASE WriteHead(j)
  <2>1. \A p \in (DOMAIN Files(j)) \X {Config} : p \in Piece
    BY <1>1, RequestTyped, UnitAssumption DEF Typed, Piece
  <2>2. QED
    BY <1>9, <1>10, <2>1 DEF WriteHead
<1>11. CASE CopyPiece(j)
  <2>1. PICK p \in Uncopied(j) : WriteThrough(j, {p})
    BY <1>11 DEF CopyPiece
  <2>2. p \in Piece
    BY <1>1, RequestTyped DEF Typed, Uncopied
  <2>3. QED
    BY <1>9, <1>11, <2>1, <2>2 DEF CopyPiece
<1>12. QED
  BY <1>4, <1>5, <1>6, <1>7, <1>8, <1>10, <1>11 DEF Work

-----------------------------------------------------------------------------
(* What stands under the final name is what was read back, and what the manifest describes. *)

(* Nothing but the move changes what stands under a final name. *)
LEMMA OutputFrame ==
    ASSUME Safe, NamesApart, NEW j \in Jobs, Work(j), Exports(j), pc[j] # "moving"
    PROVE  /\ Out(j) \in Names /\ Out(j)' = Out(j)
           /\ entry'[Out(j)] = entry[Out(j)]
           /\ entry[Out(j)] # NoFile => content'[entry[Out(j)]] = content[entry[Out(j)]]
<1>1. Out(j) \in Names /\ Out(j) # Partial(j) /\ Out(j) # ManifestPath(j)
  BY Named, OwnNamesApart DEF Safe
<1>2. Out(j) \notin Touched(j)
  BY <1>1 DEF Touched
<1>3. Out(j)' = Out(j)
  BY SameNames DEF Work
<1>4. QED
  BY <1>1, <1>2, <1>3, Frame

(* The steps after the move. *)
LEMMA AfterTheMove ==
    ASSUME Typed, NEW j \in Jobs, Work(j), pc[j] \in {"describing", "filling", "ended"}
    PROVE  /\ CreateManifest(j) \/ FillManifest(j)
           /\ UNCHANGED <<back, recorded>> /\ pc'[j] \in {"filling", "ended"}
           /\ pc'[j] = "filling" => pc[j] = "describing"
<1>1. CreateManifest(j) \/ FillManifest(j)
  BY DEF Work, CheckNames, OpenSource, BuildUnit, ParseSource, OpeningFails, CreatePartial,
         WriteHead, CopyPiece, Flush, RemuxFails, ReadBack, Rename, RemovePartial
<1>2. QED
  BY <1>1 DEF Typed, TypeOK, CreateManifest, FillManifest, Goto, EndWith, progress

LEMMA MoveStep ==
    ASSUME Kept, NEW j \in Jobs, Rename(j), UNCHANGED request
    PROVE  /\ Exports(j) /\ UNCHANGED <<back, content>> /\ pc'[j] \in {"describing", "ended"}
           /\ ~Standing(j)
           /\ \/ UNCHANGED entry /\ pc'[j] = "ended"
              \/ /\ pc'[j] = "describing"
                 /\ entry'[Out(j)] = entry[Partial(j)] /\ entry[Partial(j)] = writer[j]
                 /\ content[writer[j]].by = j /\ content[writer[j]].pieces = back[j]
                 /\ writer[j] \in Inodes
<1> USE DEF Kept
<1>1. pc[j] = "moving" /\ Exports(j)
  BY DEF Rename, Safe, OnlyExports
<1>2. ~Standing(j)
  BY <1>1 DEF Safe, JobSafe, StandingIsFinished
<1>3. /\ entry[Partial(j)] = writer[j] /\ content[writer[j]].by = j /\ writer[j] \in Inodes
      /\ content[writer[j]].pieces = back[j]
  BY <1>1 DEF Safe, JobSafe, OwnPartial, JobKept, ReadBackKept
<1>4. Out(j) \in Names
  BY <1>1, Named DEF Safe
<1>5. pc \in [Jobs -> Step]
  BY DEF Safe, Typed, TypeOK
<1>6. QED
  BY <1>1, <1>2, <1>3, <1>4, <1>5 DEF Rename, MoveFile, Goto, EndWith, files, progress

LEMMA OutputStep ==
    ASSUME Kept, NamesApart, NEW j \in Jobs, Work(j)
    PROVE  ReadBackKept(j)' /\ OwnOutput(j)' /\ OutputStands(j)'
<1> USE DEF Kept
<1>1. /\ Safe /\ Typed /\ ReadBackKept(j) /\ OwnOutput(j) /\ OutputStands(j)
      /\ UNCHANGED request /\ (Exports(j)' <=> Exports(j)) /\ Out(j)' = Out(j) /\ Partial(j)' = Partial(j)
      /\ pc \in [Jobs -> Step] /\ back \in [Jobs -> [Piece -> Version \cup {NotRead}]]
  BY SameNames DEF Safe, JobKept, Work, Exports, Typed, TypeOK
<1>2. ReadBackKept(j)'
  <2>1. CASE pc'[j] # "moving"
    BY <2>1 DEF ReadBackKept
  <2>2. CASE pc'[j] = "moving"
    <3>1. ReadBack(j)
      BY <1>1, <2>2 DEF Work, CheckNames, OpenSource, BuildUnit, ParseSource, OpeningFails, CreatePartial,
         WriteHead, CopyPiece, Flush, RemuxFails, Rename, CreateManifest, FillManifest, RemovePartial,
         Goto, EndWith
    <3>2. pc[j] = "reading back" /\ back'[j] = PiecesRead(j) /\ UNCHANGED <<content, writer>>
      BY <1>1, <2>2, <3>1 DEF ReadBack, EndWith, Goto, files
    <3>3. entry[Partial(j)] = writer[j] /\ writer[j] \in Inodes /\ content[writer[j]].kind = "output"
      BY <1>1, <3>2 DEF Safe, JobSafe, OwnPartial
    <3>4. PiecesRead(j) = content[writer[j]].pieces
      BY <3>3, NamesAssumption DEF PiecesRead
    <3>5. QED
      BY <3>2, <3>4 DEF ReadBackKept
  <2>3. QED
    BY <2>1, <2>2
<1>3. CASE ~Exports(j)
  BY <1>1, <1>2, <1>3 DEF OwnOutput, OutputStands
<1>4. CASE Exports(j) /\ pc[j] = "moving"
  <2>1. Rename(j)
    BY <1>4 DEF Work, CheckNames, OpenSource, BuildUnit, ParseSource, OpeningFails, CreatePartial,
           WriteHead, CopyPiece, Flush, RemuxFails, ReadBack, CreateManifest, FillManifest, RemovePartial
  <2>2. /\ UNCHANGED <<back, content>> /\ ~Standing(j)
        /\ \/ UNCHANGED entry /\ pc'[j] = "ended"
           \/ /\ pc'[j] = "describing" /\ entry'[Out(j)] = writer[j]
              /\ content[writer[j]].by = j /\ content[writer[j]].pieces = back[j]
              /\ writer[j] \in Inodes
    BY <1>1, <2>1, MoveStep
  <2>3. QED
    BY <1>1, <1>2, <2>2, NamesAssumption DEF OwnOutput, OutputStands, Standing
<1>5. CASE Exports(j) /\ pc[j] # "moving"
  <2>1. Standing(j)' <=> Standing(j)
    BY <1>1, <1>5, OutputFrame DEF Standing
  <2>2. OwnOutput(j)'
    <3>1. CASE Standing(j)
      <4>1. pc[j] \in {"describing", "filling", "ended"}
        BY <1>5, <3>1 DEF Safe, JobSafe, StandingIsFinished
      <4>2. UNCHANGED back
        BY <1>1, <4>1, AfterTheMove
      <4>3. QED
        BY <1>1, <1>5, <3>1, <4>2, OutputFrame DEF OwnOutput, Standing
    <3>2. QED
      BY <2>1, <3>1 DEF OwnOutput
  <2>3. OutputStands(j)'
    <3>1. CASE pc[j] \in {"describing", "filling"}
      BY <1>1, <1>5, <2>1, <3>1 DEF OutputStands
    <3>2. CASE pc[j] \notin {"describing", "filling"}
      <4>1. pc'[j] \notin {"describing", "filling"}
        BY <1>1, <1>5, <3>2 DEF Work, CheckNames, OpenSource, BuildUnit, ParseSource, OpeningFails,
           CreatePartial, WriteHead, CopyPiece, Flush, RemuxFails, ReadBack, Rename, CreateManifest,
           FillManifest, RemovePartial, Goto, EndWith
      <4>2. QED
        BY <4>1 DEF OutputStands
    <3>3. QED
      BY <3>1, <3>2
  <2>4. QED
    BY <1>2, <2>2, <2>3
<1>6. QED
  BY <1>3, <1>4, <1>5

LEMMA DescribedStep ==
    ASSUME Kept, NamesApart, NEW j \in Jobs, Work(j)
    PROVE  Described(j)'
<1> USE DEF Kept
<1> DEFINE m == ManifestPath(j)
<1>1. /\ Safe /\ Typed /\ Described(j) /\ OutputStands(j)
      /\ UNCHANGED request /\ (Exports(j)' <=> Exports(j)) /\ Out(j)' = Out(j) /\ m' = m
      /\ entry \in [Names -> Inodes \cup {NoFile}] /\ content \in [Inodes -> Content]
  BY SameNames DEF Safe, JobKept, Work, Exports, Typed, TypeOK
<1>2. SUFFICES ASSUME Exports(j), ManifestIsOwn(j)'
      PROVE  Standing(j)' /\ content'[entry'[m]].describes = back'[j]
  BY <1>1 DEF Described
<1>3. m \in Names /\ m # Partial(j) /\ m # Out(j) /\ m # <<>>
  BY <1>1, <1>2, Named, OwnNamesApart, NamesAssumption DEF Safe
<1>4. pc[j] # "moving" => (Standing(j)' <=> Standing(j))
  BY <1>1, <1>2, OutputFrame DEF Standing
<1>5. ASSUME entry'[m] = entry[m], content'[entry[m]] = content[entry[m]]
      PROVE  Standing(j)' /\ content'[entry'[m]].describes = back'[j]
  <2>1. Standing(j) /\ content[entry[m]].describes = back[j]
    BY <1>1, <1>2, <1>5 DEF Described, ManifestIsOwn, ManifestStands
  <2>2. pc[j] \in {"describing", "filling", "ended"}
    BY <1>1, <1>2, <2>1 DEF Safe, JobSafe, StandingIsFinished
  <2>3. UNCHANGED back
    BY <1>1, <2>2, AfterTheMove
  <2>4. QED
    BY <1>4, <1>5, <2>1, <2>2, <2>3
<1>6. CASE pc[j] \notin {"describing", "filling"}
  <2>1. m \notin Touched(j)
    BY <1>3, <1>6 DEF Touched
  <2>2. QED
    BY <1>1, <1>2, <1>3, <1>5, <2>1, Frame DEF ManifestIsOwn, ManifestStands
<1>7. CASE pc[j] = "describing"
  <2>1. CreateManifest(j)
    BY <1>7 DEF Work, CheckNames, OpenSource, BuildUnit, ParseSource, OpeningFails, CreatePartial,
         WriteHead, CopyPiece, Flush, RemuxFails, ReadBack, Rename, FillManifest, RemovePartial
  <2>2. CASE CreateFile(m, [kind |-> "empty", by |-> j])
    <3>1. /\ entry' = [entry EXCEPT ![m] = CreatedAt(m)] /\ CreatedAt(m) \in Inodes
          /\ content' = [content EXCEPT ![CreatedAt(m)] = [kind |-> "empty", by |-> j]]
      BY <1>1, <1>3, <2>2, CreateApart
    <3>2. content'[entry'[m]].kind = "empty"
      BY <1>1, <1>3, <3>1
    <3>3. QED
      BY <1>1, <1>2, <3>2 DEF ManifestIsOwn, ManifestStands
  <2>3. CASE UNCHANGED files
    BY <1>5, <2>3 DEF files
  <2>4. QED
    BY <1>3, <2>1, <2>2, <2>3 DEF CreateManifest
<1>8. CASE pc[j] = "filling"
  <2>1. FillManifest(j)
    BY <1>8 DEF Work, CheckNames, OpenSource, BuildUnit, ParseSource, OpeningFails, CreatePartial,
         WriteHead, CopyPiece, Flush, RemuxFails, ReadBack, Rename, CreateManifest, RemovePartial
  <2>2. entry[m] = writer[j] /\ writer[j] \in Inodes
    BY <1>1, <1>8 DEF Safe, JobSafe, OwnManifest
  <2>3. UNCHANGED <<entry, back>>
    BY <2>1 DEF FillManifest, progress
  <2>4. CASE content' = [content EXCEPT ![writer[j]] =
                           [kind |-> "manifest", by |-> j, describes |-> back[j]]]
    <3>1. content'[entry'[m]].describes = back'[j]
      BY <1>1, <2>2, <2>3, <2>4
    <3>2. Standing(j)
      BY <1>1, <1>2, <1>8 DEF OutputStands
    <3>3. QED
      BY <1>4, <1>8, <3>1, <3>2
  <2>5. CASE UNCHANGED content
    BY <1>5, <2>3, <2>5
  <2>6. QED
    BY <2>1, <2>4, <2>5 DEF FillManifest
<1>9. QED
  BY <1>6, <1>7, <1>8

(* The final name before and after the move. *)
LEMMA UnmovedStep ==
    ASSUME Kept, NamesApart, NEW j \in Jobs, Work(j)
    PROVE  Unmoved(j)'
<1> USE DEF Kept
<1>1. /\ Safe /\ Typed /\ Unmoved(j) /\ UNCHANGED request
      /\ (Exports(j)' <=> Exports(j)) /\ Out(j)' = Out(j)
  BY SameNames DEF Safe, JobKept, Work, Exports
<1>2. CASE ~Exports(j)
  BY <1>1, <1>2 DEF Unmoved
<1>3. CASE Exports(j) /\ pc[j] # "moving"
  <2>1. entry'[Out(j)] = entry[Out(j)] /\ (Standing(j)' <=> Standing(j))
    BY <1>1, <1>3, OutputFrame DEF Standing
  <2>2. QED
    BY <1>1, <2>1 DEF Unmoved
<1>4. CASE Exports(j) /\ pc[j] = "moving"
  <2>1. Rename(j)
    BY <1>4 DEF Work, CheckNames, OpenSource, BuildUnit, ParseSource, OpeningFails, CreatePartial,
           WriteHead, CopyPiece, Flush, RemuxFails, ReadBack, CreateManifest, FillManifest, RemovePartial
  <2>2. /\ UNCHANGED content /\ ~Standing(j)
        /\ \/ UNCHANGED entry
           \/ entry'[Out(j)] = writer[j] /\ content[writer[j]].by = j /\ writer[j] \in Inodes
    BY <1>1, <2>1, MoveStep
  <2>3. QED
    BY <1>1, <2>2, NamesAssumption DEF Unmoved, Standing
<1>5. QED
  BY <1>2, <1>3, <1>4

(* The steps that follow the move: the manifest of the job is written, or the job has failed. *)
LEMMA DescribingStep ==
    ASSUME Kept, NEW j \in Jobs, Exports(j), UNCHANGED request, CreateManifest(j) \/ FillManifest(j)
    PROVE  \/ ~ManifestStands(j)' /\ pc'[j] = "filling" /\ verdict'[j] = verdict[j]
           \/ ManifestIsOwn(j)' /\ pc'[j] = "ended"
           \/ pc'[j] = "ended" /\ verdict'[j] = "failed"
<1> USE DEF Kept
<1> DEFINE m == ManifestPath(j)
<1>1. /\ Safe /\ Typed /\ m' = m
      /\ entry \in [Names -> Inodes \cup {NoFile}] /\ content \in [Inodes -> Content]
      /\ pc \in [Jobs -> Step] /\ verdict \in [Jobs -> Verdict]
  BY SameNames DEF Safe, Typed, TypeOK
<1>2. m \in Names /\ m # <<>>
  BY <1>1, Named, NamesAssumption DEF Safe
<1>3. ASSUME EndWith(j, "failed")
      PROVE  pc'[j] = "ended" /\ verdict'[j] = "failed"
  BY <1>1, <1>3 DEF EndWith, Goto
<1>4. CASE CreateManifest(j)
  <2>1. CASE CreateFile(m, [kind |-> "empty", by |-> j]) /\ Goto(j, "filling") /\ UNCHANGED verdict
    <3>1. /\ entry' = [entry EXCEPT ![m] = CreatedAt(m)] /\ CreatedAt(m) \in Inodes
          /\ content' = [content EXCEPT ![CreatedAt(m)] = [kind |-> "empty", by |-> j]]
      BY <1>1, <1>2, <2>1, CreateApart
    <3>2. content'[entry'[m]].kind = "empty"
      BY <1>1, <1>2, <3>1
    <3>3. QED
      BY <1>1, <2>1, <3>2 DEF ManifestStands, Goto
  <2>2. QED
    BY <1>2, <1>3, <1>4, <2>1 DEF CreateManifest
<1>5. CASE FillManifest(j)
  <2>1. entry[m] = writer[j] /\ writer[j] \in Inodes /\ UNCHANGED entry
    BY <1>1, <1>5 DEF Safe, JobSafe, OwnManifest, FillManifest
  <2>2. CASE /\ EndWith(j, "done")
             /\ content' = [content EXCEPT ![writer[j]] =
                              [kind |-> "manifest", by |-> j, describes |-> back[j]]]
    BY <1>1, <2>1, <2>2, NamesAssumption DEF ManifestIsOwn, ManifestStands, EndWith, Goto
  <2>3. QED
    BY <1>3, <1>5, <2>2 DEF FillManifest
<1>6. QED
  BY <1>4, <1>5

LEMMA OutlivedStep ==
    ASSUME Kept, NamesApart, NEW j \in Jobs, Work(j)
    PROVE  Outlived(j)' /\ DoneIsDescribed(j)'
<1> USE DEF Kept
<1>1. /\ Safe /\ Typed /\ Outlived(j) /\ DoneIsDescribed(j) /\ UNCHANGED request
      /\ (Exports(j)' <=> Exports(j)) /\ Out(j)' = Out(j)
      /\ pc \in [Jobs -> Step] /\ verdict \in [Jobs -> Verdict]
  BY SameNames DEF Safe, JobKept, Work, Exports, Typed, TypeOK
<1>2. SUFFICES ASSUME Exports(j)
               PROVE  Outlived(j)' /\ DoneIsDescribed(j)'
  BY <1>1 DEF Outlived, DoneIsDescribed
<1>3. pc[j] # "ended"
  BY DEF Work, CheckNames, OpenSource, BuildUnit, ParseSource, OpeningFails, CreatePartial,
         WriteHead, CopyPiece, Flush, RemuxFails, ReadBack, Rename, CreateManifest, FillManifest, RemovePartial
<1>4. verdict[j] # "done"
  BY <1>1, <1>2, <1>3 DEF DoneIsDescribed
<1>5. CASE pc[j] \in {"describing", "filling"}
  <2>1. CreateManifest(j) \/ FillManifest(j)
    BY <1>1, <1>5, AfterTheMove
  <2>2. QED
    BY <1>1, <1>2, <1>4, <2>1, DescribingStep DEF Outlived, DoneIsDescribed, Replacing, ManifestIsOwn
<1>6. CASE pc[j] = "moving"
  <2>1. Rename(j)
    BY <1>6 DEF Work, CheckNames, OpenSource, BuildUnit, ParseSource, OpeningFails, CreatePartial,
           WriteHead, CopyPiece, Flush, RemuxFails, ReadBack, CreateManifest, FillManifest, RemovePartial
  <2>2. /\ pc'[j] \in {"describing", "ended"}
        /\ pc'[j] = "ended" => verdict'[j] = "failed"
    BY <1>1, <2>1 DEF Rename, Goto, EndWith
  <2>3. verdict'[j] # "done"
    BY <1>1, <1>4, <2>1 DEF Rename, EndWith, Goto
  <2>4. QED
    BY <2>2, <2>3 DEF Outlived, Replacing, DoneIsDescribed
<1>7. CASE pc[j] \notin {"describing", "filling", "moving"}
  <2>1. Standing(j)' <=> Standing(j)
    BY <1>1, <1>2, <1>7, OutputFrame DEF Standing
  <2>2. ~Standing(j)
    BY <1>2, <1>3, <1>7 DEF Safe, JobSafe, StandingIsFinished
  <2>3. verdict'[j] # "done"
    BY <1>1, <1>4, <1>7 DEF Work, CheckNames, OpenSource, BuildUnit, ParseSource, OpeningFails,
       CreatePartial, WriteHead, CopyPiece, Flush, RemuxFails, ReadBack, Rename, CreateManifest,
       FillManifest, RemovePartial, EndWith
  <2>4. QED
    BY <2>1, <2>2, <2>3 DEF Outlived, DoneIsDescribed
<1>8. QED
  BY <1>5, <1>6, <1>7

-----------------------------------------------------------------------------
(* What the others do. *)

LEMMA OthersKept ==
    ASSUME Kept, NamesApart, Typed', NEW j \in Jobs, Work(j), NEW k \in Jobs, k # j
    PROVE  JobKept(k)'
<1> USE DEF Kept
<1>1. /\ pc'[k] = pc[k] /\ current'[k] = current[k] /\ handle'[k] = handle[k]
      /\ recorded'[k] = recorded[k] /\ copied'[k] = copied[k]
      /\ writer'[k] = writer[k] /\ back'[k] = back[k]
  BY OthersStill DEF Safe
<1>2. /\ UNCHANGED request /\ Safe /\ Typed /\ JobKept(k) /\ [Next]_vars
      /\ (Exports(k)' <=> Exports(k))
  BY DEF Work, Safe, Next, Exports
<1>3. /\ Written(k)' = Written(k) /\ Out(k)' = Out(k) /\ Partial(k)' = Partial(k)
      /\ ManifestPath(k)' = ManifestPath(k)
  BY <1>2, SameNames
<1>4. ASSUME NEW x \in Written(k)
      PROVE  entry'[x] = entry[x] /\ (entry[x] # NoFile => content'[entry[x]] = content[entry[x]])
  <2>1. x \in Names /\ x \notin Written(j)
    BY <1>2, OthersNamesApart, Named
  <2>2. QED
    BY <1>2, <2>1, TouchedWritten, Frame
<1>5. Exports(k) => {Out(k), Partial(k), ManifestPath(k)} \subseteq Written(k)
  BY <1>2, Named
<1>6. Untouched(k)'
  BY <1>1, <1>2 DEF JobKept, Untouched
<1>7. \A s \in Position : Bracketed(k, s)'
  BY <1>1, <1>2, BracketStays DEF JobKept
<1>8. ReadBackKept(k)'
  <2>1. CASE pc[k] = "moving"
    <3>1. Exports(k) /\ entry[Partial(k)] = writer[k] /\ writer[k] \in Inodes
      BY <1>2, <2>1 DEF Safe, OnlyExports, JobSafe, OwnPartial
    <3>2. content'[writer[k]] = content[writer[k]]
      BY <1>4, <1>5, <3>1, NamesAssumption
    <3>3. QED
      BY <1>1, <1>2, <3>2 DEF JobKept, ReadBackKept
  <2>2. QED
    BY <1>1, <2>1 DEF ReadBackKept
<1>9. Exports(k) => (Standing(k)' <=> Standing(k))
  BY <1>3, <1>4, <1>5 DEF Standing
<1>10. OwnOutput(k)'
  BY <1>1, <1>2, <1>3, <1>4, <1>5, <1>9 DEF JobKept, OwnOutput, Standing
<1>11. OutputStands(k)'
  BY <1>1, <1>2, <1>9 DEF JobKept, OutputStands
<1>12. Exports(k) => /\ ManifestStands(k)' <=> ManifestStands(k)
                     /\ ManifestIsOwn(k)' <=> ManifestIsOwn(k)
  BY <1>3, <1>4, <1>5 DEF ManifestStands, ManifestIsOwn
<1>13. Described(k)'
  BY <1>1, <1>2, <1>3, <1>4, <1>5, <1>9, <1>12 DEF JobKept, Described, ManifestIsOwn, ManifestStands
<1>14. verdict'[k] = verdict[k]
  BY <1>2, OthersStill DEF Safe
<1>15. Unmoved(k)' /\ Outlived(k)' /\ DoneIsDescribed(k)'
  BY <1>1, <1>2, <1>3, <1>4, <1>5, <1>9, <1>12, <1>14
  DEF JobKept, Unmoved, Outlived, Replacing, DoneIsDescribed
<1>16. QED
  BY <1>6, <1>7, <1>8, <1>10, <1>11, <1>13, <1>15 DEF JobKept

(* Interruptions, deaths, edits and stuttering: a job only ends, and only recordings change. *)
LEMMA KeptQuiet ==
    ASSUME Kept, Safe', [Next]_vars,
           UNCHANGED <<request, entry, current, handle, recorded, copied, writer, back>>,
           \A j \in Jobs : \/ pc'[j] = pc[j] /\ verdict'[j] = verdict[j]
                           \/ pc[j] # "ended" /\ pc'[j] = "ended" /\ verdict'[j] = "crashed",
           \A i \in Inodes : \/ content'[i] = content[i]
                             \/ content[i].kind = "recording" /\ content'[i].kind = "recording"
    PROVE  Kept'
<1> USE DEF Kept
<1>1. /\ Safe /\ Typed /\ Typed' /\ entry \in [Names -> Inodes \cup {NoFile}]
  BY DEF Safe, Typed, TypeOK
<1>2. \A i \in Inodes :
        \/ content'[i] = content[i]
        \/ /\ content[i].kind = "recording" /\ content'[i].kind = "recording"
           /\ content[i].by = Nobody /\ content'[i].by = Nobody
  BY <1>1, RecordingTyped DEF Typed, TypeOK, Content
<1>3. \A i \in Inodes : PastHolds(i)' /\ WrittenIsCopied(i)'
  <2>1. ASSUME NEW i \in Inodes
        PROVE  PastHolds(i)' /\ WrittenIsCopied(i)'
    <3>1. PastHolds(i)'
      BY <1>1, OnlyNewer
    <3>2. WrittenIsCopied(i)'
      BY <1>2 DEF WrittenIsCopied
    <3>3. QED
      BY <3>1, <3>2
  <2>2. QED
    BY <2>1
<1>4. ASSUME NEW j \in Jobs
      PROVE  JobKept(j)'
  <2>1. /\ Out(j)' = Out(j) /\ Partial(j)' = Partial(j) /\ ManifestPath(j)' = ManifestPath(j)
        /\ (Exports(j)' <=> Exports(j)) /\ JobKept(j)
    BY SameNames DEF Exports
  <2>2. Untouched(j)'
    BY <2>1 DEF JobKept, Untouched
  <2>3. \A s \in Position : Bracketed(j, s)'
    BY <1>1, <2>1, BracketStays DEF JobKept
  <2>4. ReadBackKept(j)'
    <3>1. pc[j] = "moving" => writer[j] \in Inodes /\ content[writer[j]].kind = "output"
      BY <1>1 DEF Safe, JobSafe, OwnPartial
    <3>2. pc[j] = "moving" => content'[writer[j]] = content[writer[j]]
      BY <1>2, <3>1
    <3>3. QED
      BY <2>1, <3>2 DEF JobKept, ReadBackKept
  <2>5. Exports(j) => Out(j) \in Names /\ ManifestPath(j) \in Names
    BY <1>1, Named
  <2>6. Exports(j) => (Standing(j)' <=> Standing(j))
    BY <1>1, <1>2, <2>1, <2>5 DEF Standing
  <2>7. Exports(j) /\ Standing(j) => content'[entry[Out(j)]] = content[entry[Out(j)]]
    BY <1>1, <1>2, <2>5 DEF Standing
  <2>8. OwnOutput(j)' /\ OutputStands(j)'
    BY <2>1, <2>6, <2>7 DEF JobKept, OwnOutput, OutputStands
  <2>9. Exports(j) => /\ ManifestStands(j)' <=> ManifestStands(j)
                      /\ ManifestIsOwn(j)' <=> ManifestIsOwn(j)
                      /\ ManifestStands(j) =>
                           content'[entry[ManifestPath(j)]] = content[entry[ManifestPath(j)]]
    BY <1>1, <1>2, <2>1, <2>5 DEF ManifestStands, ManifestIsOwn
  <2>10. Described(j)'
    BY <2>1, <2>6, <2>9 DEF JobKept, Described, ManifestIsOwn
  <2>11. Unmoved(j)' /\ Outlived(j)' /\ DoneIsDescribed(j)'
    BY <2>1, <2>6, <2>9 DEF JobKept, Unmoved, Outlived, Replacing, DoneIsDescribed
  <2>12. QED
    BY <2>2, <2>3, <2>4, <2>8, <2>10, <2>11 DEF JobKept
<1>5. QED
  BY <1>3, <1>4

LEMMA KeptInit ==
    ASSUME NamesApart, OneNameEach, Init
    PROVE  Kept
<1>1. Safe /\ Typed
  BY SafeInit DEF Safe
<1>2. \A i \in Inodes : content[i].kind = "recording" => content[i].units \in past[i]
  BY DEF Init, FirstContent
<1>3. \A i \in Inodes : content[i].kind # "output" /\ content[i].by = Nobody
  BY DEF Init, FirstContent
<1>4. \A j \in Jobs, s \in Position, u \in Unit :
        recorded[j][<<s, u>>] = NotRead /\ copied[j][<<s, u>>] = NotRead
  BY DEF Init, Nothing, Piece
<1>5. ASSUME NEW j \in Jobs
      PROVE  JobKept(j)
  <2>1. Untouched(j) /\ \A s \in Position : Bracketed(j, s)
    BY <1>4 DEF Untouched, Bracketed, WasRead
  <2>2. pc[j] \in {"checking", "opening"}
    BY DEF Init
  <2>3. Exports(j) => Out(j) \in Names /\ ManifestPath(j) \in Names
    BY <1>1, Named
  <2>4. entry \in [Names -> Inodes \cup {NoFile}]
    BY <1>1 DEF Typed, TypeOK
  <2>5. entry = InitEntry /\ verdict[j] = "none"
    BY DEF Init
  <2>6. Exports(j) => ~ManifestIsOwn(j) /\ ~Standing(j)
    BY <1>3, <2>3, <2>4, NamesAssumption DEF ManifestIsOwn, ManifestStands, Standing
  <2>7. QED
    BY <2>1, <2>2, <2>5, <2>6
    DEF JobKept, ReadBackKept, OwnOutput, OutputStands, Described, Unmoved, Outlived, DoneIsDescribed
<1>6. QED
  BY <1>1, <1>2, <1>3, <1>5 DEF Kept, PastHolds, WrittenIsCopied

LEMMA KeptStep ==
    ASSUME NamesApart, Kept, [Next]_vars
    PROVE  Kept'
<1>1. Safe' /\ Typed' /\ Safe /\ Typed
  BY SafeStep DEF Kept, Safe
<1>2. ASSUME NEW j \in Jobs, Work(j)
      PROVE  Kept'
  <2>1. \A i \in Inodes : PastHolds(i)' /\ WrittenIsCopied(i)'
    BY <1>1, <1>2, OnlyNewer, CopiedStep DEF Kept
  <2>2. ASSUME NEW k \in Jobs
        PROVE  JobKept(k)'
    <3>1. CASE k = j
      BY <1>1, <1>2, <3>1, ReadStep, OutputStep, DescribedStep, UnmovedStep, OutlivedStep DEF JobKept
    <3>2. CASE k # j
      BY <1>1, <1>2, <3>2, OthersKept
    <3>3. QED
      BY <3>1, <3>2
  <2>3. QED
    BY <1>1, <2>1, <2>2 DEF Kept
<1>3. ASSUME NEW j \in Jobs, Interrupt(j) \/ Crash(j)
      PROVE  Kept'
  <2>1. UNCHANGED <<request, entry, content, current, handle, recorded, copied, writer, back>>
    BY <1>3 DEF Interrupt, Crash, files, progress
  <2>2. \A k \in Jobs : \/ pc'[k] = pc[k] /\ verdict'[k] = verdict[k]
                        \/ pc[k] # "ended" /\ pc'[k] = "ended" /\ verdict'[k] = "crashed"
    <3>1. pc \in [Jobs -> Step] /\ verdict \in [Jobs -> Verdict]
      BY <1>1 DEF Typed, TypeOK
    <3>2. CASE Interrupt(j)
      BY <3>2 DEF Interrupt
    <3>3. CASE Crash(j)
      BY <3>1, <3>3 DEF Crash, EndWith, Goto
    <3>4. QED
      BY <1>3, <3>2, <3>3
  <2>3. QED
    BY <1>1, <2>1, <2>2, KeptQuiet
<1>4. ASSUME NEW i \in Inodes, NEW u \in Unit, Edit(i, u)
      PROVE  Kept'
  <2>1. UNCHANGED <<request, entry, pc, verdict, current, handle, recorded, copied, writer, back>>
    BY <1>4 DEF Edit, progress
  <2>2. content[i].kind = "recording" /\ \A k \in Inodes : k # i => content'[k] = content[k]
    BY <1>1, <1>4 DEF Edit, Typed, TypeOK
  <2>3. content'[i].kind = "recording"
    <3>1. content[i] \in [kind : {"recording"}, by : {Nobody}, units : [Unit -> Version]]
      BY <1>1, <2>2 DEF Typed, TypeOK, Content
    <3>2. content' = [content EXCEPT ![i] =
                        [content[i] EXCEPT !.units = [content[i].units EXCEPT ![u] = @ + 1]]]
      BY <1>4 DEF Edit
    <3>3. QED
      BY <1>1, <3>1, <3>2 DEF Typed, TypeOK
  <2>4. QED
    BY <1>1, <2>1, <2>2, <2>3, KeptQuiet
<1>5. CASE UNCHANGED vars
  BY <1>1, <1>5, KeptQuiet DEF vars, files, progress
<1>6. QED
  BY <1>2, <1>3, <1>4, <1>5 DEF Next

LEMMA AlwaysKept ==
    ASSUME NamesApart, OneNameEach
    PROVE  Spec => []Kept
<1>1. Init => Kept
  BY KeptInit
<1>2. Kept /\ [Next]_vars => Kept'
  BY KeptStep
<1>3. QED
  BY <1>1, <1>2, PTL DEF Spec

-----------------------------------------------------------------------------
(* Of an output that carries what was recorded, each source was in the state it carries: what was recorded
   before a moment and copied after it, and is the same, is what the source was then. *)
LEMMA WrittenIsASnapshot ==
    ASSUME Kept, NEW j \in Jobs, NEW i \in Inodes, content[i].kind = "output", content[i].by = j,
           \A p \in PiecesOf(j) : recorded[j][p] # NotRead /\ content[i].pieces[p] = recorded[j][p],
           NEW s \in DOMAIN Files(j)
    PROVE  /\ handle[j][s] \in Inodes
           /\ [u \in Unit |-> content[i].pieces[<<s, u>>]] \in past[handle[j][s]]
           /\ [u \in Unit |-> content[i].pieces[<<s, u>>]] \in [Unit -> Version]
<1> DEFINE pieces == content[i].pieces
           h == handle[j][s]
<1>1. Safe /\ Typed /\ JobKept(j)
  BY DEF Kept, Safe
<1>2. s \in Position /\ \A u \in Unit : <<s, u>> \in PiecesOf(j) /\ <<s, u>> \in Piece
  BY <1>1, RequestTyped DEF Typed, PiecesOf, Piece
<1>3. \A u \in Unit : recorded[j][<<s, u>>] # NotRead /\ pieces[<<s, u>>] = recorded[j][<<s, u>>]
  BY <1>2
<1>4. \A u \in Unit : copied[j][<<s, u>>] = recorded[j][<<s, u>>]
  BY <1>2, <1>3 DEF Kept, WrittenIsCopied
<1>5. WasRead(j, s)
  BY <1>3, UnitAssumption DEF WasRead
<1>6. h \in Inodes /\ \E w \in past[h] : Between(j, s, w)
  BY <1>1, <1>2, <1>5 DEF JobKept, Bracketed
<1>7. PICK w \in past[h] : Between(j, s, w)
  BY <1>6
<1>8. w \in [Unit -> Version] /\ \A u \in Unit : w[u] \in Int
  BY <1>1, <1>6, VersionsAreNumbers DEF Typed, TypeOK
<1>9. ASSUME NEW u \in Unit
      PROVE  w[u] = pieces[<<s, u>>]
  <2>1. recorded[j][<<s, u>>] =< w[u] /\ w[u] =< copied[j][<<s, u>>]
    BY <1>3, <1>4, <1>7 DEF Between
  <2>2. recorded[j][<<s, u>>] \in Int
    BY <1>1, <1>2, <1>3, PieceTyped
  <2>3. QED
    BY <1>3, <1>4, <1>8, <2>1, <2>2
<1>10. w = [u \in Unit |-> pieces[<<s, u>>]]
  BY <1>8, <1>9
<1>11. QED
  BY <1>6, <1>8, <1>10

(* An output in place is a state each source was in, at one moment, however many steps the reads took and
   whoever wrote to the source between them. *)
THEOREM OutputsAreSnapshots ==
    ASSUME NamesApart, OneNameEach
    PROVE  Spec => []OutputIsASnapshot
<1>1. Kept => OutputIsASnapshot
  <2>1. SUFFICES ASSUME Kept, NEW j \in Jobs, Exports(j), entry[Out(j)] # NoFile,
                        content[entry[Out(j)]].kind = "output", NEW s \in DOMAIN Files(j)
                 PROVE  [u \in Unit |-> content[entry[Out(j)]].pieces[<<s, u>>]] \in past[handle[j][s]]
    BY DEF OutputIsASnapshot
  <2> DEFINE i == entry[Out(j)]
  <2>2. Safe /\ Typed /\ JobKept(j)
    BY <2>1 DEF Kept, Safe
  <2>3. i \in Inodes
    BY <2>1, <2>2, Named DEF Typed, TypeOK
  <2>4. Standing(j) /\ content[i].by = j
    <3>1. content[i].by \in Jobs
      BY <2>1, <2>2, <2>3, OutputTyped DEF Typed
    <3>2. Standing(j)
      BY <2>1, <3>1, NamesAssumption DEF Standing
    <3>3. QED
      BY <2>1, <2>2, <3>2 DEF JobKept, OwnOutput
  <2>5. \A p \in PiecesOf(j) : recorded[j][p] # NotRead /\ content[i].pieces[p] = recorded[j][p]
    BY <2>1, <2>2, <2>4 DEF Safe, JobSafe, StandingIsFinished, Finished
  <2>6. QED
    BY <2>1, <2>3, <2>4, <2>5, WrittenIsASnapshot
<1>2. QED
  BY <1>1, AlwaysKept, PTL

(* A manifest the export wrote describes the output under the final name; one it found there stands beside
   the earlier output, or, from the rename to the write of the new one, beside the new output, where only a
   failure or a death leaves it; an export that is done has written its own. *)
THEOREM ManifestsDescribe ==
    ASSUME NamesApart, OneNameEach
    PROVE  Spec => []ManifestDescribesOutput
<1>1. Kept => ManifestDescribesOutput
  <2>1. SUFFICES ASSUME Kept, NEW j \in Jobs, Exports(j)
                 PROVE  /\ OwnManifestDescribes(j) /\ OlderManifestStands(j)
                        /\ verdict[j] = "done" => ManifestIsOwn(j)
    BY DEF ManifestDescribesOutput
  <2>2. OwnManifestDescribes(j)
    <3>1. SUFFICES ASSUME ManifestIsOwn(j)
                   PROVE  /\ entry[Out(j)] # NoFile
                          /\ content[entry[Out(j)]].kind = "output"
                          /\ content[entry[Out(j)]].pieces = content[entry[ManifestPath(j)]].describes
      BY DEF OwnManifestDescribes
    <3>2. Standing(j) /\ content[entry[ManifestPath(j)]].describes = back[j]
      BY <2>1, <3>1 DEF Kept, JobKept, Described
    <3>3. content[entry[Out(j)]].pieces = back[j]
      BY <2>1, <3>2 DEF Kept, JobKept, OwnOutput
    <3>4. Finished(j)
      BY <2>1, <3>2 DEF Kept, Safe, JobSafe, StandingIsFinished
    <3>5. QED
      BY <3>2, <3>3, <3>4 DEF Standing, Finished
  <2>3. OlderManifestStands(j)
    BY <2>1 DEF Kept, JobKept, Unmoved, Outlived, Replacing, OlderManifestStands
  <2>4. QED
    BY <2>1, <2>2, <2>3 DEF Kept, JobKept, DoneIsDescribed
<1>2. QED
  BY <1>1, AlwaysKept, PTL

(* The final name changes hands once, by the move of what was read back. *)
THEOREM OutputsArePublishedOnce ==
    ASSUME NamesApart, OneNameEach
    PROVE  Spec => PublishedOnce
<1>1. ASSUME Kept, [Next]_vars, NEW j \in Jobs, Exports(j), entry'[Out(j)] # entry[Out(j)]
      PROVE  /\ pc[j] = "moving"
             /\ entry'[Out(j)] = entry[Partial(j)]
             /\ back[j] = content[entry[Partial(j)]].pieces
  <2>1. Safe /\ Typed
    BY <1>1 DEF Kept, Safe
  <2>2. PICK k \in Jobs : Work(k)
    BY <1>1 DEF Next, Interrupt, Crash, Edit, vars, files
  <2>3. k = j
    <3>1. ASSUME k # j
          PROVE  FALSE
      <4>1. Out(j) \in Written(j) /\ Out(j) \in Names
        BY <1>1, <2>1, Named
      <4>2. Out(j) \notin Written(k)
        BY <1>1, <2>1, <3>1, <4>1, OthersNamesApart
      <4>3. QED
        BY <1>1, <2>1, <2>2, <4>1, <4>2, TouchedWritten, Frame
    <3>2. QED
      BY <3>1
  <2>4. pc[j] = "moving"
    BY <1>1, <2>1, <2>2, <2>3, OutputFrame
  <2>5. Rename(j) /\ UNCHANGED request
    BY <2>2, <2>3, <2>4 DEF Work, CheckNames, OpenSource, BuildUnit, ParseSource, OpeningFails,
       CreatePartial, WriteHead, CopyPiece, Flush, RemuxFails, ReadBack, CreateManifest, FillManifest,
       RemovePartial
  <2>6. QED
    BY <1>1, <2>4, <2>5, MoveStep
<1>2. Kept /\ [Next]_vars =>
        [\A j \in Jobs : Exports(j) /\ entry'[Out(j)] # entry[Out(j)] =>
           /\ pc[j] = "moving"
           /\ entry'[Out(j)] = entry[Partial(j)]
           /\ back[j] = content[entry[Partial(j)]].pieces]_vars
  BY <1>1
<1>3. QED
  BY <1>2, AlwaysKept, PTL DEF Spec, PublishedOnce

-----------------------------------------------------------------------------
(* What was not kept. *)

LEMMA PartialOwnStep ==
    ASSUME Kept, NamesApart, NEW j \in Jobs, Work(j), PartialKept(j)
    PROVE  PartialKept(j)'
<1> DEFINE w == Partial(j)
<1>1. /\ Safe /\ Typed /\ UNCHANGED request /\ (Exports(j)' <=> Exports(j)) /\ w' = w
      /\ pc \in [Jobs -> Step] /\ verdict \in [Jobs -> Verdict]
      /\ entry \in [Names -> Inodes \cup {NoFile}]
  BY SameNames DEF Kept, Safe, Work, Exports, Typed, TypeOK
<1>2. SUFFICES ASSUME Exports(j), w \notin Stuck, entry'[w] # NoFile, content'[entry'[w]].by = j
      PROVE  \/ pc'[j] \in {"heading", "copying", "flushing", "reading back", "moving", "removing"}
             \/ pc'[j] = "ended" /\ verdict'[j] \in {"failed", "crashed"}
  BY <1>1 DEF PartialKept
<1>3. w \in Names /\ w # Out(j) /\ w # ManifestPath(j)
  BY <1>1, <1>2, Named, OwnNamesApart
<1>4. CASE pc[j] \in {"checking", "opening", "building", "parsing", "describing", "filling", "ended"}
  <2>1. w \notin Touched(j)
    BY <1>3, <1>4 DEF Touched
  <2>2. entry[w] # NoFile /\ content[entry[w]].by = j
    BY <1>1, <1>2, <1>3, <2>1, Frame
  <2>3. pc[j] = "ended"
    BY <1>2, <1>4, <2>2 DEF PartialKept
  <2>4. QED
    BY <1>1, <2>3, AfterTheMove DEF CreateManifest, FillManifest
<1>5. CASE CreatePartial(j)
  BY <1>1, <1>5 DEF CreatePartial, Goto, EndWith
<1>6. CASE WriteHead(j) \/ CopyPiece(j) \/ Flush(j) \/ RemuxFails(j)
  BY <1>1, <1>6 DEF WriteHead, CopyPiece, Flush, RemuxFails, Goto, EndWith
<1>7. CASE ReadBack(j)
  BY <1>1, <1>7 DEF ReadBack, Goto, EndWith
<1>8. CASE Rename(j)
  <2>1. CASE MoveFile(w, Out(j))
    BY <1>1, <1>2, <1>3, <2>1 DEF MoveFile
  <2>2. QED
    BY <1>1, <1>8, <2>1 DEF Rename, EndWith, Goto
<1>9. CASE RemovePartial(j)
  BY <1>1, <1>2, <1>3, <1>9 DEF RemovePartial
<1>10. QED
  BY <1>1, <1>4, <1>5, <1>6, <1>7, <1>8, <1>9
  DEF Work, CheckNames, OpenSource, BuildUnit, ParseSource, OpeningFails, CreateManifest, FillManifest

LEMMA PartialInit ==
    ASSUME Init, Typed, NEW j \in Jobs
    PROVE  PartialKept(j)
<1>1. Exports(j) => Partial(j) \in Names
  BY Named
<1>2. \A i \in Inodes : content[i].by = Nobody
  BY DEF Init, FirstContent
<1>3. QED
  BY <1>1, <1>2, NamesAssumption DEF PartialKept, Typed, TypeOK

LEMMA PartialStep ==
    ASSUME Kept, NamesApart, [Next]_vars, NEW k \in Jobs, PartialKept(k)
    PROVE  PartialKept(k)'
<1>1. /\ Safe /\ Typed /\ entry \in [Names -> Inodes \cup {NoFile}] /\ pc \in [Jobs -> Step]
      /\ verdict \in [Jobs -> Verdict] /\ content \in [Inodes -> Content]
  BY DEF Kept, Safe, Typed, TypeOK
<1>2. Exports(k) => Partial(k) \in Written(k) /\ Partial(k) \in Names
  BY <1>1, Named
<1>3. UNCHANGED request => Partial(k)' = Partial(k) /\ (Exports(k)' <=> Exports(k))
  BY SameNames DEF Exports
<1>4. ASSUME NEW j \in Jobs, Work(j)
      PROVE  PartialKept(k)'
  <2>1. CASE k = j
    BY <1>4, <2>1, PartialOwnStep
  <2>2. CASE k # j
    <3>1. pc'[k] = pc[k] /\ verdict'[k] = verdict[k] /\ UNCHANGED request
      BY <1>1, <1>4, <2>2, OthersStill DEF Work
    <3>2. Exports(k) => Partial(k) \notin Written(j)
      BY <1>1, <1>2, <2>2, OthersNamesApart
    <3>3. Exports(k) => Partial(k) \notin Touched(j)
      BY <1>1, <1>2, <3>2, TouchedWritten
    <3>4. Exports(k) => /\ entry'[Partial(k)] = entry[Partial(k)]
                        /\ entry[Partial(k)] # NoFile =>
                             content'[entry[Partial(k)]] = content[entry[Partial(k)]]
      BY <1>1, <1>2, <1>4, <3>3, Frame
    <3>5. QED
      BY <1>3, <3>1, <3>4 DEF PartialKept
  <2>3. QED
    BY <2>1, <2>2
<1>5. ASSUME NEW j \in Jobs, Interrupt(j) \/ Crash(j)
      PROVE  PartialKept(k)'
  <2>1. UNCHANGED <<request, entry, content>>
    BY <1>5 DEF Interrupt, Crash, files
  <2>2. \/ pc'[k] = pc[k] /\ verdict'[k] = verdict[k]
        \/ pc'[k] = "ended" /\ verdict'[k] = "crashed"
    BY <1>1, <1>5 DEF Interrupt, Crash, EndWith, Goto
  <2>3. QED
    BY <1>3, <2>1, <2>2 DEF PartialKept
<1>6. ASSUME NEW i \in Inodes, NEW u \in Unit, Edit(i, u)
      PROVE  PartialKept(k)'
  <2>1. UNCHANGED <<request, entry, pc, verdict>>
    BY <1>6 DEF Edit
  <2>2. \A x \in Inodes : x # i => content'[x] = content[x]
    BY <1>1, <1>6 DEF Edit
  <2>3. content'[i].by = content[i].by
    <3>1. content[i] \in [kind : {"recording"}, by : {Nobody}, units : [Unit -> Version]]
      BY <1>1, <1>6 DEF Edit, Content
    <3>2. content' = [content EXCEPT ![i] =
                        [content[i] EXCEPT !.units = [content[i].units EXCEPT ![u] = @ + 1]]]
      BY <1>6 DEF Edit
    <3>3. QED
      BY <1>1, <3>1, <3>2
  <2>4. QED
    BY <1>1, <1>2, <1>3, <2>1, <2>2, <2>3 DEF PartialKept
<1>7. CASE UNCHANGED vars
  BY <1>3, <1>7 DEF vars, files, PartialKept
<1>8. QED
  BY <1>4, <1>5, <1>6, <1>7 DEF Next

(* What a refused, stopped, mismatched or finished export wrote is under no partial name, where removals
   succeed. *)
THEOREM NothingIsLeftBehind ==
    ASSUME NamesApart, OneNameEach
    PROVE  Spec => []NoPartialLeftBehind
<1> DEFINE AllKept == \A j \in Jobs : PartialKept(j)
<1>1. Init => AllKept
  BY PartialInit, KeptInit DEF Kept, Safe
<1>2. Kept /\ AllKept /\ [Next]_vars => AllKept'
  BY PartialStep
<1>3. AllKept => NoPartialLeftBehind
  BY DEF PartialKept, NoPartialLeftBehind
<1>4. QED
  <2> HIDE DEF AllKept
  <2>1. QED
    BY <1>1, <1>2, <1>3, AlwaysKept, PTL DEF Spec

-----------------------------------------------------------------------------

(* Until it writes, a job finds under the names it reads what was there at the start, and its handles are
   the files of those names. *)
NotYetWritten(j) ==
    pc[j] \in {"checking", "opening", "building", "parsing"} =>
        \A n \in SourceNames(j) : entry[n] = InitEntry[n]
HandlesAreSources(j) ==
    \A s \in DOMAIN Files(j) : handle[j][s] # NoFile => handle[j][s] = InitEntry[Files(j)[s]]

(* A job has given its answer when it ends, and not before: it is known early that nothing will be kept. *)
AnswerIsLast(j) ==
    /\ pc[j] \notin {"removing", "ended"} => verdict[j] = "none"
    /\ pc[j] = "removing" => verdict[j] \in {"failed", "stopped", "mismatch"}
    /\ pc[j] = "ended" => verdict[j] # "none"

Mapped ==
    /\ Kept
    /\ \A j \in Jobs : NotYetWritten(j) /\ HandlesAreSources(j) /\ AnswerIsLast(j)

-----------------------------------------------------------------------------
LEMMA SourceNamed ==
    ASSUME Typed, NEW j \in Jobs, NEW s \in DOMAIN Files(j)
    PROVE  Files(j)[s] \in SourceNames(j) /\ Files(j)[s] \in Names /\ s \in Position
<1>1. Files(j)[s] \in SourceNames(j)
  BY DEF SourceNames, SourcesOf, Files
<1>2. QED
  BY <1>1, RequestTyped DEF Typed

(* Before its first write a job changes no name, and no other job writes a name it reads. *)
LEMMA NotYetStep ==
    ASSUME Mapped, NamesApart, NEW j \in Jobs, Work(j), NEW k \in Jobs
    PROVE  NotYetWritten(k)'
<1>1. Safe /\ Typed /\ UNCHANGED request /\ NotYetWritten(k)
  BY DEF Mapped, Kept, Safe, Work
<1>2. SUFFICES ASSUME pc'[k] \in {"checking", "opening", "building", "parsing"}, NEW n \in SourceNames(k)
      PROVE  entry'[n] = InitEntry[n]
  BY <1>1, SameNames DEF NotYetWritten
<1>3. n \in Names
  BY <1>1, RequestTyped DEF Typed
<1>4. CASE k # j
  <2>1. pc'[k] = pc[k]
    BY <1>1, <1>4, OthersStill
  <2>2. n \notin Written(j)
    BY <1>1, <1>4, OthersNamesApart
  <2>3. n \notin Touched(j)
    BY <1>1, <1>3, <2>2, TouchedWritten
  <2>4. entry'[n] = entry[n]
    BY <1>1, <1>3, <2>3, Frame
  <2>5. QED
    BY <1>1, <1>2, <2>1, <2>4 DEF NotYetWritten
<1>5. CASE k = j
  <2>1. pc[j] \in {"checking", "opening", "building", "parsing"} /\ UNCHANGED entry
    BY <1>1, <1>2, <1>5
    DEF Work, CheckNames, OpenSource, BuildUnit, ParseSource, OpeningFails, CreatePartial, WriteHead,
        CopyPiece, Flush, RemuxFails, ReadBack, Rename, CreateManifest, FillManifest, RemovePartial,
        Goto, EndWith, files, Typed, TypeOK
  <2>2. QED
    BY <1>1, <1>5, <2>1 DEF NotYetWritten
<1>6. QED
  BY <1>4, <1>5

LEMMA HandlesStep ==
    ASSUME Mapped, NEW j \in Jobs, Work(j), NEW k \in Jobs
    PROVE  HandlesAreSources(k)'
<1>1. /\ Safe /\ Typed /\ UNCHANGED request /\ Files(k)' = Files(k) /\ HandlesAreSources(k)
      /\ handle \in [Jobs -> [Position -> Inodes \cup {NoFile}]] /\ current[j] \in Position
  BY DEF Mapped, Kept, Safe, Typed, TypeOK, Work, Files
<1>2. CASE handle'[k] = handle[k]
  BY <1>1, <1>2 DEF HandlesAreSources
<1>3. CASE k = j /\ OpenSource(j)
  <2> DEFINE s == current[j]
  <2>1. s \in DOMAIN Files(j) /\ pc[j] = "opening"
    BY <1>1, <1>3 DEF OpenSource, Typed, HandlesOpen
  <2>2. handle' = [handle EXCEPT ![j][s] = entry[Files(j)[s]]]
    BY <1>3 DEF OpenSource
  <2>3. entry[Files(j)[s]] = InitEntry[Files(j)[s]]
    BY <1>1, <2>1, SourceNamed DEF Mapped, NotYetWritten
  <2>4. \A t \in DOMAIN Files(j) : t \in Position
    BY <1>1, SourceNamed
  <2>5. QED
    BY <1>1, <1>3, <2>1, <2>2, <2>3, <2>4 DEF HandlesAreSources
<1>4. CASE k = j /\ (CheckNames(j) \/ BuildUnit(j) \/ ParseSource(j) \/ OpeningFails(j) \/ CreatePartial(j)
                     \/ WriteHead(j) \/ CopyPiece(j) \/ Flush(j))
  BY <1>2, <1>4
  DEF CheckNames, BuildUnit, ParseSource, OpeningFails, CreatePartial, WriteHead, CopyPiece, Flush, progress
<1>5. CASE k = j /\ (RemuxFails(j) \/ ReadBack(j) \/ Rename(j) \/ CreateManifest(j) \/ FillManifest(j)
                     \/ RemovePartial(j))
  BY <1>2, <1>5 DEF RemuxFails, ReadBack, Rename, CreateManifest, FillManifest, RemovePartial, progress
<1>6. CASE k # j
  BY <1>1, <1>2, <1>6, OthersStill
<1>7. QED
  BY <1>3, <1>4, <1>5, <1>6 DEF Work

LEMMA AnswerStep ==
    ASSUME Mapped, NEW j \in Jobs, Work(j), NEW k \in Jobs
    PROVE  AnswerIsLast(k)'
<1>1. Typed /\ AnswerIsLast(k) /\ pc \in [Jobs -> Step] /\ verdict \in [Jobs -> Verdict]
  BY DEF Mapped, Kept, Safe, Typed, TypeOK
<1>2. CASE k # j
  BY <1>1, <1>2, OthersStill DEF AnswerIsLast
<1>3. CASE k = j /\ (CheckNames(j) \/ OpenSource(j) \/ BuildUnit(j) \/ ParseSource(j) \/ OpeningFails(j))
  BY <1>1, <1>3
  DEF AnswerIsLast, CheckNames, OpenSource, BuildUnit, ParseSource, OpeningFails, Goto, EndWith
<1>4. CASE k = j /\ (CreatePartial(j) \/ WriteHead(j) \/ CopyPiece(j) \/ Flush(j) \/ RemuxFails(j))
  BY <1>1, <1>4 DEF AnswerIsLast, CreatePartial, WriteHead, CopyPiece, Flush, RemuxFails, Goto, EndWith
<1>5. CASE k = j /\ (ReadBack(j) \/ Rename(j) \/ CreateManifest(j) \/ FillManifest(j) \/ RemovePartial(j))
  BY <1>1, <1>5 DEF AnswerIsLast, ReadBack, Rename, CreateManifest, FillManifest, RemovePartial, Goto, EndWith
<1>6. QED
  BY <1>2, <1>3, <1>4, <1>5 DEF Work

LEMMA MappedInit ==
    ASSUME NamesApart, OneNameEach, Init
    PROVE  Mapped
<1>1. Kept
  BY KeptInit
<1>2. \A j \in Jobs : pc[j] \in {"checking", "opening"} /\ verdict[j] = "none"
  BY DEF Init
<1>3. ASSUME NEW j \in Jobs, NEW s \in DOMAIN Files(j)
      PROVE  handle[j][s] = NoFile
  <2>1. s \in Position
    BY <1>1, SourceNamed DEF Kept, Safe
  <2>2. QED
    BY <2>1 DEF Init
<1>4. QED
  BY <1>1, <1>2, <1>3 DEF Mapped, NotYetWritten, HandlesAreSources, AnswerIsLast, Init

LEMMA MappedStep ==
    ASSUME NamesApart, Mapped, [Next]_vars
    PROVE  Mapped'
<1>1. Kept' /\ Typed
  BY KeptStep DEF Mapped, Kept, Safe
<1>2. ASSUME NEW k \in Jobs
      PROVE  NotYetWritten(k)' /\ HandlesAreSources(k)' /\ AnswerIsLast(k)'
  <2>1. NotYetWritten(k) /\ HandlesAreSources(k) /\ AnswerIsLast(k)
    BY DEF Mapped
  <2>2. ASSUME NEW j \in Jobs, Work(j)
        PROVE  NotYetWritten(k)' /\ HandlesAreSources(k)' /\ AnswerIsLast(k)'
    BY <2>2, NotYetStep, HandlesStep, AnswerStep
  <2>3. ASSUME UNCHANGED <<request, entry, handle>>,
               \/ pc'[k] = pc[k] /\ verdict'[k] = verdict[k]
               \/ pc'[k] = "ended" /\ verdict'[k] # "none"
        PROVE  NotYetWritten(k)' /\ HandlesAreSources(k)' /\ AnswerIsLast(k)'
    BY <2>1, <2>3 DEF NotYetWritten, HandlesAreSources, AnswerIsLast, SourceNames, Files
  <2>4. ASSUME NEW j \in Jobs, Interrupt(j) \/ Crash(j)
        PROVE  NotYetWritten(k)' /\ HandlesAreSources(k)' /\ AnswerIsLast(k)'
    <3>1. UNCHANGED <<request, entry, handle>>
      BY <2>4 DEF Interrupt, Crash, files, progress
    <3>2. \/ pc'[k] = pc[k] /\ verdict'[k] = verdict[k]
          \/ pc'[k] = "ended" /\ verdict'[k] # "none"
      BY <1>1, <2>4 DEF Interrupt, Crash, EndWith, Goto, Typed, TypeOK
    <3>3. QED
      BY <2>3, <3>1, <3>2
  <2>5. ASSUME NEW i \in Inodes, NEW u \in Unit, Edit(i, u)
        PROVE  NotYetWritten(k)' /\ HandlesAreSources(k)' /\ AnswerIsLast(k)'
    BY <2>3, <2>5 DEF Edit, progress
  <2>6. CASE UNCHANGED vars
    BY <2>3, <2>6 DEF vars, files, progress
  <2>7. QED
    BY <2>2, <2>4, <2>5, <2>6 DEF Next
<1>3. QED
  BY <1>1, <1>2 DEF Mapped

-----------------------------------------------------------------------------
(* The mapping of a step. *)

(* What a job has published is the pieces of an output of its own. *)
LEMMA PublishedValue ==
    ASSUME Kept, NEW j \in Jobs, Exports(j)
    PROVE  /\ Standing(j) => Published(j) =
                [s \in DOMAIN Files(j) |-> [u \in Unit |-> content[entry[Out(j)]].pieces[<<s, u>>]]]
           /\ ~Standing(j) => Published(j) = NotRead
           /\ Standing(j) => Published(j) \in [DOMAIN Files(j) -> [Unit -> Version]] /\ Published(j) # NotRead
<1>1. Safe /\ Typed /\ OwnOutput(j) /\ StandingIsFinished(j)
  BY DEF Kept, JobKept, Safe, JobSafe
<1>2. Standing(j) => Published(j) =
        [s \in DOMAIN Files(j) |-> [u \in Unit |-> content[entry[Out(j)]].pieces[<<s, u>>]]]
  BY <1>1 DEF Published, OwnOutput, Standing
<1>3. ~Standing(j) => Published(j) = NotRead
  BY NamesAssumption DEF Published, Standing
<1>4. ASSUME Standing(j)
      PROVE  Published(j) \in [DOMAIN Files(j) -> [Unit -> Version]] /\ Published(j) # NotRead
  <2> DEFINE i == entry[Out(j)]
  <2>1. i \in Inodes /\ content[i].kind = "output"
    BY <1>1, <1>4, Named DEF Typed, TypeOK, Standing, StandingIsFinished, Finished
  <2>2. \A p \in Piece : content[i].pieces[p] \in Version \cup {NotRead}
    BY <1>1, <2>1, OutputTyped DEF Typed
  <2>3. \A p \in PiecesOf(j) : content[i].pieces[p] # NotRead
    BY <1>1, <1>4 DEF StandingIsFinished, Finished
  <2>4. \A s \in DOMAIN Files(j), u \in Unit : <<s, u>> \in PiecesOf(j) /\ <<s, u>> \in Piece
    BY <1>1, RequestTyped DEF Typed, PiecesOf
  <2>5. \A s \in DOMAIN Files(j), u \in Unit : content[i].pieces[<<s, u>>] \in Version
    BY <2>2, <2>3, <2>4
  <2>6. Published(j) \in [DOMAIN Files(j) -> [Unit -> Version]]
    <3>1. \A s \in DOMAIN Files(j) : [u \in Unit |-> content[i].pieces[<<s, u>>]] \in [Unit -> Version]
      BY <2>5
    <3>2. QED
      BY <1>2, <1>4, <3>1
  <2>7. DOMAIN Files(j) \in SUBSET Position
    BY <1>1, RequestTyped DEF Typed
  <2>8. QED
    BY <2>6, <2>7, NotReadAssumption
<1>5. QED
  BY <1>2, <1>3, <1>4

(* Where nothing under the final name changes, nothing is published. *)
LEMMA PublishedStays ==
    ASSUME NEW j \in Jobs, UNCHANGED request, entry'[Out(j)] = entry[Out(j)],
           \/ entry[Out(j)] = NoFile
           \/ content'[entry[Out(j)]] = content[entry[Out(j)]]
           \/ content[entry[Out(j)]].by # j /\ content'[entry[Out(j)]].by # j
    PROVE  Published(j)' = Published(j)
<1>1. Out(j)' = Out(j) /\ Files(j)' = Files(j)
  BY SameNames DEF Files
<1>2. QED
  BY <1>1 DEF Published

(* A step of another command. *)
LEMMA OthersPublish ==
    ASSUME Kept, NamesApart, NEW k \in Jobs, Work(k), NEW j \in Jobs, j # k, Exports(j)
    PROVE  Published(j)' = Published(j) /\ pc'[j] = pc[j] /\ verdict'[j] = verdict[j]
<1>1. Safe /\ Typed /\ UNCHANGED request
  BY DEF Kept, Safe, Work
<1>2. Out(j) \in Written(j) /\ Out(j) \in Names
  BY <1>1, Named
<1>3. Out(j) \notin Touched(k)
  BY <1>1, <1>2, OthersNamesApart, TouchedWritten
<1>4. /\ entry'[Out(j)] = entry[Out(j)]
      /\ entry[Out(j)] # NoFile => content'[entry[Out(j)]] = content[entry[Out(j)]]
  BY <1>1, <1>2, <1>3, Frame
<1>5. Published(j)' = Published(j)
  BY <1>1, <1>4, PublishedStays
<1>6. QED
  BY <1>1, <1>5, OthersStill

Answered(j) == IF pc[j] = "removing" THEN "none" ELSE verdict[j]

(* A step of an export is a publication, an answer, or neither. *)
LEMMA OwnPublish ==
    ASSUME Mapped, NamesApart, NEW j \in Jobs, Work(j), Exports(j)
    PROVE  \/ Published(j)' = Published(j) /\ Answered(j)' = Answered(j)
           \/ /\ Answered(j) = "none" /\ Answered(j)' = "none"
              /\ Published(j) = NotRead
              /\ Published(j)' \in [DOMAIN Files(j) -> [Unit -> Version]]
              /\ \A s \in DOMAIN Files(j) :
                   InitEntry[Files(j)[s]] \in Inodes /\ Published(j)'[s] \in past[InitEntry[Files(j)[s]]]
           \/ /\ Answered(j) = "none" /\ Published(j)' = Published(j)
              /\ Answered(j)' \in {"refused", "failed", "stopped", "mismatch", "done", "crashed"}
              /\ Answered(j)' = "done" => Published(j) # NotRead
              /\ Answered(j)' \in {"refused", "stopped", "mismatch"} => Published(j) = NotRead
<1> DEFINE src(s) == InitEntry[Files(j)[s]]
<1>1. /\ Kept /\ Safe /\ Typed /\ UNCHANGED request /\ AnswerIsLast(j)
      /\ pc \in [Jobs -> Step] /\ verdict \in [Jobs -> Verdict]
      /\ Out(j)' = Out(j) /\ Files(j)' = Files(j)
  BY SameNames DEF Mapped, Kept, Safe, Typed, TypeOK, Work, Files
<1>2. pc[j] # "moving" => Published(j)' = Published(j)
  BY <1>1, OutputFrame, PublishedStays
<1>3. pc[j] \notin {"describing", "filling", "ended"} => ~Standing(j)
  BY <1>1 DEF Safe, JobSafe, StandingIsFinished
<1>4. /\ pc[j] \in {"describing", "filling"} => Published(j) # NotRead
      /\ pc[j] \notin {"describing", "filling", "ended"} => Published(j) = NotRead
  BY <1>1, <1>3, PublishedValue DEF Kept, JobKept, OutputStands
<1>5. Answered(j) = "none"
  <2>1. pc[j] # "ended"
    BY <1>1, AfterTheMove DEF CreateManifest, FillManifest
  <2>2. QED
    BY <1>1, <2>1 DEF AnswerIsLast, Answered
<1>6. CASE CheckNames(j) \/ OpenSource(j) \/ BuildUnit(j) \/ ParseSource(j) \/ OpeningFails(j)
  <2>1. /\ pc[j] \in {"checking", "opening", "building", "parsing"} /\ verdict[j] = "none"
        /\ Answered(j)' \in {"none", "refused", "failed"}
    BY <1>1, <1>6 DEF AnswerIsLast, Answered, CheckNames, OpenSource, BuildUnit, ParseSource, OpeningFails,
       Goto, EndWith
  <2>2. QED
    BY <1>2, <1>4, <1>5, <2>1
<1>7. CASE CreatePartial(j) \/ WriteHead(j) \/ CopyPiece(j) \/ Flush(j) \/ RemuxFails(j)
  <2>1. /\ pc[j] \in {"creating", "heading", "copying", "flushing"} /\ verdict[j] = "none"
        /\ Answered(j)' \in {"none", "failed"}
    BY <1>1, <1>7 DEF AnswerIsLast, Answered, CreatePartial, WriteHead, CopyPiece, Flush, RemuxFails,
       Goto, EndWith
  <2>2. QED
    BY <1>2, <1>4, <1>5, <2>1
<1>8. CASE ReadBack(j)
  <2>1. /\ pc[j] = "reading back" /\ verdict[j] = "none" /\ Answered(j)' \in {"none", "failed"}
    BY <1>1, <1>8 DEF AnswerIsLast, Answered, ReadBack, Goto, EndWith
  <2>2. QED
    BY <1>2, <1>4, <1>5, <2>1
<1>9. CASE RemovePartial(j)
  <2>1. /\ pc[j] = "removing" /\ Answered(j)' \in {"failed", "stopped", "mismatch"}
    BY <1>1, <1>9 DEF AnswerIsLast, Answered, RemovePartial, Goto
  <2>2. QED
    BY <1>2, <1>4, <1>5, <2>1
<1>10. CASE CreateManifest(j) \/ FillManifest(j)
  <2>1. /\ pc[j] \in {"describing", "filling"} /\ verdict[j] = "none"
        /\ Answered(j)' \in {"none", "failed", "done"}
    BY <1>1, <1>10 DEF AnswerIsLast, Answered, CreateManifest, FillManifest, Goto, EndWith
  <2>2. QED
    BY <1>2, <1>4, <1>5, <2>1
<1>11. CASE Rename(j)
  <2>1. /\ pc[j] = "moving" /\ verdict[j] = "none" /\ Answered(j)' \in {"none", "failed"}
        /\ pc'[j] = "describing" => Answered(j)' = "none"
        /\ pc'[j] = "ended" => Answered(j)' = "failed"
    BY <1>1, <1>11 DEF AnswerIsLast, Answered, Rename, Goto, EndWith
  <2>2. CASE UNCHANGED entry /\ pc'[j] = "ended"
    <3>1. Published(j)' = Published(j)
      BY <1>1, <1>11, <2>2, MoveStep, PublishedStays
    <3>2. QED
      BY <1>4, <1>5, <2>1, <2>2, <3>1
  <2>3. CASE pc'[j] = "describing"
    <3> DEFINE i == writer[j]
               output == [s \in DOMAIN Files(j) |-> [u \in Unit |-> content[i].pieces[<<s, u>>]]]
    <3>1. /\ entry'[Out(j)] = i /\ i \in Inodes /\ UNCHANGED content
          /\ content[i].kind = "output" /\ content[i].by = j
      BY <1>1, <1>11, <2>1, <2>3, MoveStep DEF Safe, JobSafe, OwnPartial
    <3>2. Published(j)' = output
      BY <1>1, <3>1, NamesAssumption DEF Published
    <3>3. \A p \in PiecesOf(j) : recorded[j][p] # NotRead /\ content[i].pieces[p] = recorded[j][p]
      BY <1>1, <2>1 DEF Safe, JobSafe, ReadBackSame
    <3>4. ASSUME NEW s \in DOMAIN Files(j)
          PROVE  /\ output[s] \in [Unit -> Version]
                 /\ src(s) \in Inodes /\ output[s] \in past[src(s)]
      <4>1. handle[j][s] \in Inodes /\ output[s] \in past[handle[j][s]] /\ output[s] \in [Unit -> Version]
        BY <1>1, <3>1, <3>3, WrittenIsASnapshot
      <4>2. handle[j][s] = src(s)
        BY <4>1, NamesAssumption DEF Mapped, HandlesAreSources
      <4>3. QED
        BY <4>1, <4>2
    <3>5. output \in [DOMAIN Files(j) -> [Unit -> Version]]
      BY <3>4
    <3> HIDE DEF output, i
    <3>6. QED
      BY <1>4, <1>5, <2>1, <2>3, <3>2, <3>4, <3>5
  <2>4. QED
    BY <1>1, <1>11, <2>2, <2>3, MoveStep
<1>12. QED
  BY <1>6, <1>7, <1>8, <1>9, <1>10, <1>11 DEF Work

-----------------------------------------------------------------------------
(* The state of AtomicExport, and its steps. *)

Known == {n \in Names : InitEntry[n] # NoFile}
Reads == [j \in Exporters |-> Files(j)]
PastOf == [n \in Known |-> past[InitEntry[n]]]
AllPublished == [j \in Exporters |-> Published(j)]
Answers == [j \in Exporters |-> Answered(j)]

LEMMA MappedState ==
    Promise!vars = <<Reads, PastOf, AllPublished, Answers>>
BY DEF Promise!vars, Reads, PastOf, AllPublished, Answers, Answered, Known

LEMMA NothingHappens ==
    ASSUME UNCHANGED <<Reads, PastOf, AllPublished, Answers>>
    PROVE  [Promise!Next]_(Promise!vars)
BY DEF Promise!vars, Reads, PastOf, AllPublished, Answers, Answered, Known

LEMMA AChange ==
    ASSUME NEW n \in Known, NEW state \in [Unit -> Version],
           PastOf' = [PastOf EXCEPT ![n] = @ \cup {state}],
           UNCHANGED <<Reads, AllPublished, Answers>>
    PROVE  Promise!Next
BY DEF Promise!Next, Promise!Change, Reads, PastOf, AllPublished, Answers, Answered, Known

LEMMA APublication ==
    ASSUME NEW j \in Exporters, NEW output \in [DOMAIN Files(j) -> [Unit -> Version]],
           Answered(j) = "none", Published(j) = NotRead,
           \A s \in DOMAIN Files(j) : Files(j)[s] \in Known /\ output[s] \in past[InitEntry[Files(j)[s]]],
           AllPublished' = [AllPublished EXCEPT ![j] = output],
           UNCHANGED <<Reads, PastOf, Answers>>
    PROVE  Promise!Next
BY DEF Promise!Next, Promise!Publish, Reads, PastOf, AllPublished, Answers, Answered, Known

LEMMA AnAnswer ==
    ASSUME NEW j \in Exporters, NEW given \in {"refused", "failed", "stopped", "mismatch", "done", "crashed"},
           Answered(j) = "none",
           given = "done" => Published(j) # NotRead,
           given \in {"refused", "stopped", "mismatch"} => Published(j) = NotRead,
           Answers' = [Answers EXCEPT ![j] = given],
           UNCHANGED <<Reads, PastOf, AllPublished>>
    PROVE  Promise!Next
BY DEF Promise!Next, Promise!Answer, Reads, PastOf, AllPublished, Answers, Answered, Known

LEMMA PromiseInit ==
    ASSUME Mapped, Init
    PROVE  Promise!Init
<1> DEFINE first == [u \in Unit |-> 0]
<1>1. Kept /\ Typed
  BY DEF Mapped, Kept, Safe
<1>2. first \in [Unit -> Version]
  BY BoundAssumption DEF Version
<1>3. \A n \in Known : past[InitEntry[n]] = {first}
  BY EntryAssumption DEF Init, Known
<1>4. ASSUME NEW j \in Exporters
      PROVE  Published(j) = NotRead /\ Answered(j) = "none"
  <2>1. j \in Jobs /\ Exports(j)
    BY RequestsAssumption DEF Exports
  <2>2. pc[j] = "checking" /\ verdict[j] = "none"
    BY <2>1 DEF Init
  <2>3. ~Standing(j)
    BY <1>1, <2>1, <2>2 DEF Kept, Safe, JobSafe, StandingIsFinished
  <2>4. QED
    BY <1>1, <2>1, <2>2, <2>3, PublishedValue DEF Mapped, Answered
<1>5. DOMAIN Reads = Exporters
  BY DEF Reads
<1>6. PastOf = [n \in Known |-> {first}]
  BY <1>3 DEF PastOf
<1>7. AllPublished = [j \in Exporters |-> NotRead] /\ Answers = [j \in Exporters |-> "none"]
  BY <1>4 DEF AllPublished, Answers
<1> HIDE DEF first
<1>8. QED
  BY <1>2, <1>5, <1>6, <1>7 DEF Promise!Init, Reads, PastOf, AllPublished, Answers, Answered, Known

(* A step of a command. *)
LEMMA PromiseWork ==
    ASSUME Mapped, NamesApart, NEW k \in Jobs, Work(k)
    PROVE  [Promise!Next]_(Promise!vars)
<1>1. Kept /\ Safe /\ Typed /\ UNCHANGED request
  BY DEF Mapped, Kept, Safe, Work
<1>2. UNCHANGED <<Reads, PastOf>>
  BY <1>1, WorkContent DEF Reads, PastOf, Files
<1>3. ASSUME NEW j \in Exporters, j # k
      PROVE  Published(j)' = Published(j) /\ Answered(j)' = Answered(j)
  BY <1>1, <1>3, OthersPublish, RequestsAssumption DEF Exports, Answered
<1>4. CASE k \notin Exporters
  <2>1. UNCHANGED <<AllPublished, Answers>>
    BY <1>3, <1>4 DEF AllPublished, Answers
  <2>2. QED
    BY <1>2, <2>1, NothingHappens
<1>5. CASE k \in Exporters
  <2>1. CASE Published(k)' = Published(k) /\ Answered(k)' = Answered(k)
    <3>1. UNCHANGED <<AllPublished, Answers>>
      BY <1>3, <2>1 DEF AllPublished, Answers
    <3>2. QED
      BY <1>2, <3>1, NothingHappens
  <2>2. CASE /\ Answered(k) = "none" /\ Answered(k)' = "none"
             /\ Published(k) = NotRead
             /\ Published(k)' \in [DOMAIN Files(k) -> [Unit -> Version]]
             /\ \A s \in DOMAIN Files(k) :
                  InitEntry[Files(k)[s]] \in Inodes /\ Published(k)'[s] \in past[InitEntry[Files(k)[s]]]
    <3>1. PICK output \in [DOMAIN Files(k) -> [Unit -> Version]] : output = Published(k)'
      BY <2>2
    <3>2. AllPublished' = [AllPublished EXCEPT ![k] = output] /\ UNCHANGED Answers
      BY <1>3, <1>5, <2>2, <3>1 DEF AllPublished, Answers
    <3>3. \A s \in DOMAIN Files(k) : Files(k)[s] \in Known /\ output[s] \in past[InitEntry[Files(k)[s]]]
      BY <1>1, <2>2, <3>1, SourceNamed, NamesAssumption DEF Known
    <3>4. QED
      BY <1>2, <1>5, <2>2, <3>2, <3>3, APublication
  <2>3. CASE /\ Answered(k) = "none" /\ Published(k)' = Published(k)
             /\ Answered(k)' \in {"refused", "failed", "stopped", "mismatch", "done", "crashed"}
             /\ Answered(k)' = "done" => Published(k) # NotRead
             /\ Answered(k)' \in {"refused", "stopped", "mismatch"} => Published(k) = NotRead
    <3>1. PICK given \in {"refused", "failed", "stopped", "mismatch", "done", "crashed"} :
            given = Answered(k)'
      BY <2>3
    <3>2. Answers' = [Answers EXCEPT ![k] = given] /\ UNCHANGED AllPublished
      BY <1>3, <1>5, <2>3, <3>1 DEF AllPublished, Answers
    <3>3. QED
      BY <1>2, <1>5, <2>3, <3>1, <3>2, AnAnswer
  <2>4. QED
    BY <1>5, <2>1, <2>2, <2>3, OwnPublish DEF Exports
<1>6. QED
  BY <1>4, <1>5

LEMMA PromiseStep ==
    ASSUME Mapped, NamesApart, OneNameEach, [Next]_vars
    PROVE  [Promise!Next]_(Promise!vars)
<1>1. Kept /\ Safe /\ Typed
  BY DEF Mapped, Kept, Safe
<1>2. ASSUME UNCHANGED <<request, files, pc, verdict>>
      PROVE  [Promise!Next]_(Promise!vars)
  <2>1. UNCHANGED <<Reads, PastOf, AllPublished, Answers>>
    BY <1>2 DEF files, Reads, PastOf, AllPublished, Answers, Published, Answered, Out, Files
  <2>2. QED
    BY <2>1, NothingHappens
<1>3. ASSUME NEW k \in Jobs, Crash(k)
      PROVE  [Promise!Next]_(Promise!vars)
  <2>1. UNCHANGED <<request, files>>
    BY <1>3 DEF Crash
  <2>2. UNCHANGED <<Reads, PastOf, AllPublished>>
    BY <2>1 DEF files, Reads, PastOf, AllPublished, Published, Out, Files
  <2>3. /\ Answered(k)' = "crashed" /\ Answered(k) = "none"
        /\ \A j \in Jobs : j # k => Answered(j)' = Answered(j)
    BY <1>1, <1>3 DEF Crash, EndWith, Goto, Answered, Mapped, AnswerIsLast, Typed, TypeOK
  <2>4. CASE k \in Exporters
    <3>1. Answers' = [Answers EXCEPT ![k] = "crashed"]
      BY <2>3, <2>4, RequestsAssumption DEF Answers
    <3>2. QED
      BY <2>2, <2>3, <2>4, <3>1, AnAnswer
  <2>5. CASE k \notin Exporters
    <3>1. UNCHANGED Answers
      BY <2>3, <2>5, RequestsAssumption DEF Answers
    <3>2. QED
      BY <2>2, <3>1, NothingHappens
  <2>6. QED
    BY <2>4, <2>5
<1>4. ASSUME NEW i \in Inodes, NEW u \in Unit, Edit(i, u)
      PROVE  [Promise!Next]_(Promise!vars)
  <2>1. UNCHANGED <<request, entry, pc, verdict>> /\ content[i].kind = "recording"
    BY <1>4 DEF Edit
  <2>2. PICK n \in Known : InitEntry[n] = i
    <3>1. PICK j \in Jobs : \E n \in SourceNames(j) : InitEntry[n] = i
      BY <1>4 DEF Edit
    <3>2. PICK n \in SourceNames(j) : InitEntry[n] = i
      BY <3>1
    <3>3. n \in Names
      BY <1>1, RequestTyped DEF Typed
    <3>4. QED
      BY <3>2, <3>3, NamesAssumption DEF Known
  <2>3. \A m \in Known : m # n => InitEntry[m] # i
    BY <2>2 DEF OneNameEach, Known
  <2>4. PICK state \in [Unit -> Version] : state = content'[i].units
    <3>1. content'[i].kind = "recording" /\ content'[i].units \in [Unit -> Version]
      <4>1. content[i] \in [kind : {"recording"}, by : {Nobody}, units : [Unit -> Version]]
        BY <1>1, <2>1 DEF Typed, TypeOK, Content
      <4>2. content' = [content EXCEPT ![i] =
                          [content[i] EXCEPT !.units = [content[i].units EXCEPT ![u] = @ + 1]]]
        BY <1>4 DEF Edit
      <4>3. content'[i].kind = "recording"
        BY <1>1, <4>1, <4>2 DEF Typed, TypeOK
      <4>4. Typed'
        BY <1>1, <1>4, TypedEdit
      <4>5. QED
        BY <4>3, <4>4 DEF Typed, TypeOK, Content
    <3>2. QED
      BY <3>1
  <2>5. past' = [past EXCEPT ![i] = @ \cup {state}]
    BY <1>4, <2>4 DEF Edit
  <2>6. PastOf' = [PastOf EXCEPT ![n] = @ \cup {state}]
    <3>1. past \in [Inodes -> SUBSET [Unit -> Version]]
      BY <1>1 DEF Typed, TypeOK
    <3>2. \A m \in Known : InitEntry[m] \in Inodes
      BY EntryAssumption DEF Known
    <3>3. QED
      BY <2>2, <2>3, <2>5, <3>1, <3>2 DEF PastOf
  <2>7. UNCHANGED <<Reads, Answers>>
    BY <2>1 DEF Reads, Answers, Answered, Files
  <2>8. UNCHANGED AllPublished
    <3>1. ASSUME NEW j \in Exporters
          PROVE  Published(j)' = Published(j)
      <4>1. j \in Jobs /\ Exports(j)
        BY RequestsAssumption DEF Exports
      <4>2. content[i].by = Nobody /\ content'[i].by = Nobody
        <5>1. content[i] \in [kind : {"recording"}, by : {Nobody}, units : [Unit -> Version]]
          BY <1>1, <2>1 DEF Typed, TypeOK, Content
        <5>2. content' = [content EXCEPT ![i] =
                            [content[i] EXCEPT !.units = [content[i].units EXCEPT ![u] = @ + 1]]]
          BY <1>4 DEF Edit
        <5>3. QED
          BY <1>1, <5>1, <5>2 DEF Typed, TypeOK
      <4>3. \A x \in Inodes : x # i => content'[x] = content[x]
        BY <1>1, <1>4 DEF Edit, Typed, TypeOK
      <4>4. entry[Out(j)] \in Inodes \cup {NoFile}
        BY <1>1, <4>1, Named DEF Typed, TypeOK
      <4>5. \/ entry[Out(j)] = NoFile
            \/ content'[entry[Out(j)]] = content[entry[Out(j)]]
            \/ content[entry[Out(j)]].by # j /\ content'[entry[Out(j)]].by # j
        BY <4>1, <4>2, <4>3, <4>4, NamesAssumption
      <4>6. entry'[Out(j)] = entry[Out(j)] /\ UNCHANGED request
        BY <2>1
      <4>7. QED
        BY <4>1, <4>5, <4>6, PublishedStays
    <3>2. QED
      BY <3>1 DEF AllPublished
  <2>9. QED
    BY <2>6, <2>7, <2>8, AChange
<1>5. ASSUME NEW j \in Jobs, Interrupt(j)
      PROVE  [Promise!Next]_(Promise!vars)
  BY <1>2, <1>5 DEF Interrupt
<1>6. CASE UNCHANGED vars
  BY <1>2, <1>6 DEF vars
<1>7. QED
  BY <1>3, <1>4, <1>5, <1>6, PromiseWork DEF Next

(* Every behaviour of the commands is one of AtomicExport: a final name goes from what it was to a whole
   output that is a state of each source, in one step, and an answer agrees with what is there. *)
THEOREM ExportsAreAtomic ==
    ASSUME NamesApart, OneNameEach
    PROVE  Spec => ExportIsAtomic
<1>1. Init => Mapped /\ Promise!Init
  BY MappedInit, PromiseInit
<1>2. Mapped /\ [Next]_vars => Mapped' /\ [Promise!Next]_(Promise!vars)
  BY MappedStep, PromiseStep
<1>3. QED
  BY <1>1, <1>2, PTL DEF Spec, ExportIsAtomic, Promise!Spec
=============================================================================
