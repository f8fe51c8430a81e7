--------------------------- MODULE ExportProofs ----------------------------
(* Proofs about Export, for every set of jobs, names, files, faults and requests. First what the state
   is, and that a pair cut short is never a success; then, where the names are apart, that no command
   harms what it reads and that an output in place is finished. *)
EXTENDS Export, TLAPS

(* A source that has been opened has a file behind its handle. *)
HandlesOpen ==
    \A j \in Jobs :
        /\ pc[j] \in {"building", "parsing"} => handle[j][current[j]] \in Inodes
        /\ pc[j] \in {"checking", "opening", "building", "parsing"} =>
             \A s \in DOMAIN Files(j) : s < current[j] => handle[j][s] \in Inodes
        /\ pc[j] \in {"checking", "opening", "building", "parsing"} => current[j] \in DOMAIN Files(j)
        /\ pc[j] \in {"creating", "heading", "copying"} =>
             \A s \in DOMAIN Files(j) : handle[j][s] \in Inodes

Typed == TypeOK /\ HandlesOpen

(* A fingerprint never reaches the steps that make an output. *)
OnlyExports ==
    \A j \in Jobs :
        pc[j] \notin {"opening", "building", "describing", "filling", "ended"} => Exports(j)

LEMMA RequestTyped ==
    ASSUME NEW j \in Jobs, TypeOK
    PROVE  /\ Len(Files(j)) \in {1, 2}
           /\ DOMAIN Files(j) = 1..Len(Files(j))
           /\ DOMAIN Files(j) \subseteq Position
           /\ PiecesOf(j) \subseteq Piece
           /\ SourceNames(j) \subseteq Names
           /\ Written(j) \subseteq Names
BY RequestsAssumption DEF TypeOK, Files, SourceNames, Written, PiecesOf, Position, Piece

LEMMA NamesTyped ==
    ASSUME NEW j \in Jobs, TypeOK, Exports(j)
    PROVE  Out(j) \in Names /\ Partial(j) \in Names /\ ManifestPath(j) \in Names
BY RequestTyped DEF Exports, Out, Partial, ManifestPath, Written, WrittenFor

LEMMA CreatedTyped ==
    ASSUME NEW n \in Names, TypeOK, entry[n] # NoFile \/ Fresh # {}
    PROVE  CreatedAt(n) \in Inodes
BY DEF TypeOK, CreatedAt, Fresh

LEMMA CreateFileTyped ==
    ASSUME NEW n \in Names, NEW c \in Content, TypeOK, CreateFile(n, c)
    PROVE  /\ entry' \in [Names -> Inodes \cup {NoFile}]
           /\ content' \in [Inodes -> Content]
           /\ past' \in [Inodes -> SUBSET [Unit -> Version]]
           /\ CreatedAt(n) \in Inodes
<1>1. CreatedAt(n) \in Inodes
  BY CreatedTyped DEF CreateFile
<1>2. QED
  BY <1>1 DEF TypeOK, CreateFile

LEMMA RecordingTyped ==
    ASSUME NEW i \in Inodes, TypeOK, content[i].kind = "recording"
    PROVE  content[i].units \in [Unit -> Version] /\ content[i].by = Nobody
BY DEF TypeOK, Content

LEMMA OutputTyped ==
    ASSUME NEW i \in Inodes, TypeOK, content[i].kind = "output"
    PROVE  content[i].pieces \in [Piece -> Version \cup {NotRead}] /\ content[i].by \in Jobs
BY DEF TypeOK, Content

LEMMA WriteTyped ==
    ASSUME NEW j \in Jobs, NEW P \in SUBSET Piece, TypeOK,
           copied' \in [Jobs -> [Piece -> Version \cup {NotRead}]], WriteThrough(j, P)
    PROVE  content' \in [Inodes -> Content]
<1>1. CASE writer[j] \notin Inodes
  BY <1>1 DEF WriteThrough, TypeOK
<1>2. CASE writer[j] \in Inodes
  <2>1. CASE ~(content[writer[j]].kind = "output" /\ content[writer[j]].by = j)
    <3>1. [kind |-> "garbled", by |-> j] \in Content
      BY DEF Content
    <3>2. QED
      BY <1>2, <2>1, <3>1 DEF WriteThrough, TypeOK
  <2>2. CASE content[writer[j]].kind = "output" /\ content[writer[j]].by = j
    <3> DEFINE held == content[writer[j]]
               new == [held EXCEPT !.pieces =
                         [p \in Piece |-> IF p \in P THEN copied'[j][p] ELSE @[p]]]
    <3>1. held \in [kind : {"output"}, by : Jobs, pieces : [Piece -> Version \cup {NotRead}]]
      BY <1>2, <2>2 DEF TypeOK, Content
    <3>2. new \in [kind : {"output"}, by : Jobs, pieces : [Piece -> Version \cup {NotRead}]]
      BY <3>1
    <3>3. new \in Content
      BY <3>2 DEF Content
    <3>4. content' = [content EXCEPT ![writer[j]] = new]
      BY <2>2 DEF WriteThrough
    <3>5. QED
      BY <1>2, <3>3, <3>4 DEF TypeOK
  <2>3. QED
    BY <2>1, <2>2
<1>3. QED
  BY <1>1, <1>2

(* Init and every step keep the types; the actions that move no typed value but the step, the verdict
   or the flag are together. *)
LEMMA TypedInit == Init => Typed
<1> SUFFICES ASSUME Init PROVE Typed
  OBVIOUS
<1> DEFINE first == [u \in Unit |-> 0]
<1>1. first \in [Unit -> Version] /\ Nothing \in [Piece -> Version \cup {NotRead}]
  BY BoundAssumption DEF Version, Nothing
<1>2. content \in [Inodes -> Content]
  <2>1. ASSUME NEW i \in Inodes
        PROVE  FirstContent(i) \in Content
    BY <1>1 DEF FirstContent, Content
  <2>2. QED
    BY <2>1 DEF Init
<1>3. past \in [Inodes -> SUBSET [Unit -> Version]]
  BY <1>1 DEF Init
<1>4. \A j \in Jobs : request[j] \in Requests[j]
  BY DEF Init
<1>5. TypeOK
  BY <1>1, <1>2, <1>3, <1>4, EntryAssumption DEF Init, TypeOK, Step, Verdict, Position
<1>6. HandlesOpen
  <2>1. \A j \in Jobs : 1 \in DOMAIN Files(j) /\ DOMAIN Files(j) \subseteq Position
    BY <1>5, RequestTyped
  <2>2. QED
    BY <2>1 DEF Init, HandlesOpen, Position
<1>7. QED
  BY <1>5, <1>6 DEF Typed

LEMMA TypedControl ==
    ASSUME Typed, NEW j \in Jobs, UNCHANGED request,
           \/ CheckNames(j) \/ OpeningFails(j) \/ Flush(j) \/ RemuxFails(j)
           \/ Interrupt(j) \/ Crash(j)
    PROVE  Typed'
<1>1. TypeOK'
  BY DEF Typed, TypeOK, CheckNames, OpeningFails, Flush, RemuxFails, Interrupt, Crash,
         Goto, EndWith, files, progress, Step, Verdict
<1>2. \A k \in Jobs :
        \/ pc'[k] = pc[k]
        \/ pc[k] = "checking" /\ pc'[k] = "opening"
        \/ pc'[k] \in {"ended", "reading back", "removing"}
  <2>1. CASE CheckNames(j)
    BY <2>1 DEF Typed, TypeOK, CheckNames, Goto, EndWith
  <2>2. CASE OpeningFails(j)
    BY <2>2 DEF Typed, TypeOK, OpeningFails, Goto, EndWith
  <2>3. CASE Flush(j)
    BY <2>3 DEF Typed, TypeOK, Flush, Goto, EndWith
  <2>4. CASE RemuxFails(j)
    BY <2>4 DEF Typed, TypeOK, RemuxFails, Goto
  <2>5. CASE Interrupt(j)
    BY <2>5 DEF Interrupt
  <2>6. CASE Crash(j)
    BY <2>6 DEF Typed, TypeOK, Crash, Goto, EndWith
  <2>7. QED
    BY <2>1, <2>2, <2>3, <2>4, <2>5, <2>6
<1>3. UNCHANGED <<request, handle, current>>
  BY DEF CheckNames, OpeningFails, Flush, RemuxFails, Interrupt, Crash, progress
<1>4. HandlesOpen'
  BY <1>2, <1>3 DEF Typed, HandlesOpen, Files
<1>5. QED
  BY <1>1, <1>4 DEF Typed

LEMMA TypedOpenSource ==
    ASSUME Typed, NEW j \in Jobs, UNCHANGED request, OpenSource(j)
    PROVE  Typed'
<1> DEFINE i == entry[Files(j)[current[j]]]
<1>1. current[j] \in DOMAIN Files(j) /\ current[j] \in Position /\ Files(j)[current[j]] \in Names
  BY RequestTyped DEF Typed, HandlesOpen, OpenSource, SourceNames, SourcesOf, Files
<1>2. i \in Inodes
  BY <1>1 DEF Typed, TypeOK, OpenSource
<1>3. handle' = [handle EXCEPT ![j][current[j]] = i] /\ pc' = [pc EXCEPT ![j] = "building"]
  BY DEF OpenSource, Goto
<1>4. TypeOK'
  <2>1. handle' \in [Jobs -> [Position -> Inodes \cup {NoFile}]]
    BY <1>1, <1>2, <1>3 DEF Typed, TypeOK
  <2>2. pc' \in [Jobs -> Step]
    BY <1>3 DEF Typed, TypeOK, Step
  <2>3. QED
    BY <2>1, <2>2 DEF Typed, TypeOK, OpenSource, files
<1>5. HandlesOpen'
  BY <1>1, <1>2, <1>3 DEF Typed, TypeOK, HandlesOpen, OpenSource, Files
<1>6. QED
  BY <1>4, <1>5 DEF Typed

LEMMA TypedBuildUnit ==
    ASSUME Typed, NEW j \in Jobs, UNCHANGED request, BuildUnit(j)
    PROVE  Typed'
<1> DEFINE s == current[j]
<1>1. handle[j][s] \in Inodes /\ s \in Position
  BY DEF Typed, TypeOK, HandlesOpen, BuildUnit
<1>2. content[handle[j][s]].units \in [Unit -> Version]
  BY <1>1, RecordingTyped DEF Typed, BuildUnit, SourceIsRecording
<1>3. recorded' \in [Jobs -> [Piece -> Version \cup {NotRead}]]
  <2>1. PICK u \in Unit :
          recorded' = [recorded EXCEPT ![j][<<s, u>>] = content[handle[j][s]].units[u]]
    BY DEF BuildUnit, Unread
  <2>2. <<s, u>> \in Piece /\ content[handle[j][s]].units[u] \in Version
    BY <1>1, <1>2 DEF Piece
  <2>3. QED
    BY <2>1, <2>2 DEF Typed, TypeOK
<1>4. back' \in [Jobs -> [Piece -> Version \cup {NotRead}]]
  BY <1>3 DEF Typed, TypeOK, BuildUnit
<1>5. \A k \in Jobs : pc'[k] = pc[k] \/ (k = j /\ pc[j] = "building" /\ pc'[k] \in {"parsing", "describing"})
  BY DEF Typed, TypeOK, BuildUnit, Goto
<1>6. pc' \in [Jobs -> Step]
  BY DEF Typed, TypeOK, BuildUnit, Goto, Step
<1>7. TypeOK'
  BY <1>3, <1>4, <1>6 DEF Typed, TypeOK, BuildUnit, files
<1>8. HandlesOpen'
  BY <1>5 DEF Typed, HandlesOpen, BuildUnit, Files
<1>9. QED
  BY <1>7, <1>8 DEF Typed

LEMMA TypedParseSource ==
    ASSUME Typed, NEW j \in Jobs, UNCHANGED request, ParseSource(j)
    PROVE  Typed'
<1> DEFINE s == current[j]
<1>1. handle[j][s] \in Inodes /\ s \in Position /\ s \in DOMAIN Files(j)
  BY DEF Typed, TypeOK, HandlesOpen, ParseSource
<1>2. content[handle[j][s]].units[Config] \in Version
  BY <1>1, RecordingTyped, UnitAssumption DEF Typed, ParseSource, SourceIsRecording
<1>3. copied' \in [Jobs -> [Piece -> Version \cup {NotRead}]]
  BY <1>1, <1>2, UnitAssumption DEF Typed, TypeOK, ParseSource, Piece
<1>4. /\ DOMAIN Files(j) = 1..Len(Files(j))
      /\ s # Len(Files(j)) => s = 1 /\ Len(Files(j)) = 2
  <2>1. Len(Files(j)) \in {1, 2} /\ DOMAIN Files(j) = 1..Len(Files(j))
    BY RequestTyped DEF Typed
  <2>2. s \in 1..Len(Files(j))
    BY <1>1, <2>1
  <2>3. CASE Len(Files(j)) = 1
    BY <2>1, <2>2, <2>3
  <2>4. CASE Len(Files(j)) = 2
    BY <2>1, <2>2, <2>4
  <2>5. QED
    BY <2>1, <2>3, <2>4
<1>5. current' \in [Jobs -> Position] /\ pc' \in [Jobs -> Step]
  <2>1. CASE s = Len(Files(j))
    BY <2>1 DEF Typed, TypeOK, ParseSource, Goto, Step
  <2>2. CASE s # Len(Files(j))
    <3>1. current' = [current EXCEPT ![j] = 2] /\ pc' = [pc EXCEPT ![j] = "opening"]
      BY <1>4, <2>2 DEF ParseSource, Goto
    <3>2. QED
      BY <3>1 DEF Typed, TypeOK, Step, Position
  <2>3. QED
    BY <2>1, <2>2
<1>6. TypeOK'
  BY <1>3, <1>5 DEF Typed, TypeOK, ParseSource, files
<1>7. HandlesOpen'
  <2>1. UNCHANGED <<request, handle>>
    BY DEF ParseSource
  <2>2. ASSUME NEW k \in Jobs, k # j
        PROVE  pc'[k] = pc[k] /\ current'[k] = current[k]
    BY <2>2 DEF Typed, TypeOK, ParseSource, Goto
  <2>3. CASE s = Len(Files(j))
    <3>1. pc'[j] = "creating" /\ current' = current
      BY <2>3 DEF Typed, TypeOK, ParseSource, Goto
    <3>2. \A t \in DOMAIN Files(j) : handle[j][t] \in Inodes
      BY <1>1, <1>4, <2>3 DEF Typed, HandlesOpen, ParseSource
    <3>3. QED
      BY <2>1, <2>2, <3>1, <3>2 DEF Typed, HandlesOpen, Files
  <2>4. CASE s # Len(Files(j))
    <3>1. pc'[j] = "opening" /\ current'[j] = 2 /\ s = 1
      BY <1>4, <2>4 DEF Typed, TypeOK, ParseSource, Goto
    <3>2. 2 \in DOMAIN Files(j) /\ \A t \in DOMAIN Files(j) : t < 2 => handle[j][t] \in Inodes
      BY <1>1, <1>4, <2>4
    <3>3. QED
      BY <2>1, <2>2, <3>1, <3>2 DEF Typed, HandlesOpen, Files
  <2>5. QED
    BY <2>3, <2>4
<1>8. QED
  BY <1>6, <1>7 DEF Typed

(* Past the opening of its sources a job keeps its handles. *)
LEMMA HandlesKept ==
    ASSUME Typed, NEW j \in Jobs, UNCHANGED <<request, handle, current>>,
           \A k \in Jobs :
               \/ pc'[k] = pc[k]
               \/ pc[k] \in {"creating", "heading", "copying"} /\ pc'[k] \in {"heading", "copying"}
               \/ pc'[k] \in {"flushing", "reading back", "moving", "describing", "filling",
                              "removing", "ended"}
    PROVE  HandlesOpen'
BY DEF Typed, HandlesOpen, Files

LEMMA TypedCreatePartial ==
    ASSUME Typed, OnlyExports, NEW j \in Jobs, UNCHANGED request, CreatePartial(j)
    PROVE  Typed'
<1> DEFINE new == [kind |-> "output", by |-> j, pieces |-> Nothing]
<1>1. new \in Content
  BY DEF Content, Nothing
<1>2. Partial(j) \in Names
  BY NamesTyped DEF Typed, OnlyExports, CreatePartial
<1>3. /\ entry' \in [Names -> Inodes \cup {NoFile}]
      /\ content' \in [Inodes -> Content]
      /\ past' \in [Inodes -> SUBSET [Unit -> Version]]
      /\ writer' \in [Jobs -> Inodes \cup {NoFile}]
  <2>1. CASE CreateFile(Partial(j), new) /\ writer' = [writer EXCEPT ![j] = CreatedAt(Partial(j))]
    BY <1>1, <1>2, <2>1, CreateFileTyped DEF Typed, TypeOK
  <2>2. CASE UNCHANGED <<files, writer>>
    BY <2>2 DEF Typed, TypeOK, files
  <2>3. QED
    BY <2>1, <2>2 DEF CreatePartial
<1>4. pc' \in [Jobs -> Step] /\ verdict' \in [Jobs -> Verdict]
  BY DEF Typed, TypeOK, CreatePartial, Goto, EndWith, Step, Verdict
<1>5. TypeOK'
  BY <1>3, <1>4 DEF Typed, TypeOK, CreatePartial
<1>6. HandlesOpen'
  BY HandlesKept DEF Typed, TypeOK, CreatePartial, Goto, EndWith
<1>7. QED
  BY <1>5, <1>6 DEF Typed

LEMMA TypedWriteHead ==
    ASSUME Typed, NEW j \in Jobs, UNCHANGED request, WriteHead(j)
    PROVE  Typed'
<1>1. (DOMAIN Files(j)) \X {Config} \subseteq Piece
  BY RequestTyped, UnitAssumption DEF Typed, Piece
<1>2. content' \in [Inodes -> Content]
  BY <1>1, WriteTyped DEF Typed, TypeOK, WriteHead
<1>3. pc' = [pc EXCEPT ![j] = "copying"] /\ pc[j] = "heading"
  BY DEF WriteHead, Goto
<1>4. TypeOK'
  BY <1>2, <1>3 DEF Typed, TypeOK, WriteHead, Step
<1>5. HandlesOpen'
  BY <1>3, HandlesKept DEF Typed, TypeOK, WriteHead
<1>6. QED
  BY <1>4, <1>5 DEF Typed

LEMMA TypedCopyPiece ==
    ASSUME Typed, NEW j \in Jobs, UNCHANGED request, CopyPiece(j)
    PROVE  Typed'
<1>1. PICK p \in Uncopied(j) :
        /\ SourceIsRecording(j, p[1])
        /\ copied' = [copied EXCEPT ![j][p] = content[handle[j][p[1]]].units[p[2]]]
        /\ WriteThrough(j, {p})
  BY DEF CopyPiece
<1>2. p \in Piece /\ p[1] \in DOMAIN Files(j) /\ p[2] \in Unit
  BY RequestTyped DEF Typed, Uncopied, PiecesOf
<1>3. handle[j][p[1]] \in Inodes
  BY <1>2 DEF Typed, HandlesOpen, CopyPiece
<1>4. content[handle[j][p[1]]].units[p[2]] \in Version
  BY <1>1, <1>2, <1>3, RecordingTyped DEF Typed, SourceIsRecording
<1>5. copied' \in [Jobs -> [Piece -> Version \cup {NotRead}]]
  BY <1>1, <1>2, <1>4 DEF Typed, TypeOK
<1>6. content' \in [Inodes -> Content]
  BY <1>1, <1>2, <1>5, WriteTyped DEF Typed
<1>7. pc' \in [Jobs -> Step] /\ verdict' \in [Jobs -> Verdict]
  BY DEF Typed, TypeOK, CopyPiece, Goto, Step, Verdict
<1>8. TypeOK'
  BY <1>5, <1>6, <1>7 DEF Typed, TypeOK, CopyPiece
<1>9. HandlesOpen'
  <2>1. \A k \in Jobs : pc'[k] = pc[k] \/ (pc[k] = "copying" /\ pc'[k] = "copying")
                                     \/ pc'[k] \in {"flushing", "removing"}
    BY DEF Typed, TypeOK, CopyPiece, Goto
  <2>2. QED
    BY <2>1, HandlesKept DEF Typed, CopyPiece
<1>10. QED
  BY <1>8, <1>9 DEF Typed

LEMMA TypedReadBack ==
    ASSUME Typed, OnlyExports, NEW j \in Jobs, UNCHANGED request, ReadBack(j)
    PROVE  Typed'
<1>1. PiecesRead(j) \in [Piece -> Version \cup {NotRead}]
  <2>1. Partial(j) \in Names
    BY NamesTyped DEF Typed, OnlyExports, ReadBack
  <2>2. Nothing \in [Piece -> Version \cup {NotRead}]
    BY DEF Nothing
  <2>3. QED
    BY <2>1, <2>2, OutputTyped DEF Typed, TypeOK, PiecesRead
<1>2. back' \in [Jobs -> [Piece -> Version \cup {NotRead}]]
  BY <1>1 DEF Typed, TypeOK, ReadBack
<1>3. pc' \in [Jobs -> Step] /\ verdict' \in [Jobs -> Verdict]
  BY DEF Typed, TypeOK, ReadBack, Goto, EndWith, Step, Verdict
<1>4. TypeOK'
  BY <1>2, <1>3 DEF Typed, TypeOK, ReadBack, files
<1>5. HandlesOpen'
  BY HandlesKept DEF Typed, TypeOK, ReadBack, Goto, EndWith
<1>6. QED
  BY <1>4, <1>5 DEF Typed

LEMMA TypedRename ==
    ASSUME Typed, OnlyExports, NEW j \in Jobs, UNCHANGED request, Rename(j)
    PROVE  Typed'
<1>1. entry' \in [Names -> Inodes \cup {NoFile}] /\ UNCHANGED <<content, past>>
  BY NamesTyped DEF Typed, TypeOK, OnlyExports, Rename, MoveFile, files
<1>2. pc' \in [Jobs -> Step] /\ verdict' \in [Jobs -> Verdict]
  BY DEF Typed, TypeOK, Rename, Goto, EndWith, Step, Verdict
<1>3. TypeOK'
  BY <1>1, <1>2 DEF Typed, TypeOK, Rename, progress
<1>4. HandlesOpen'
  BY HandlesKept DEF Typed, TypeOK, Rename, Goto, EndWith, progress
<1>5. QED
  BY <1>3, <1>4 DEF Typed

LEMMA TypedCreateManifest ==
    ASSUME Typed, NEW j \in Jobs, UNCHANGED request, CreateManifest(j)
    PROVE  Typed'
<1> DEFINE new == [kind |-> "empty", by |-> j]
<1>1. new \in Content
  BY DEF Content
<1>2. ManifestPath(j) # <<>> => ManifestPath(j) \in Names
  BY RequestTyped DEF Typed, ManifestPath, ManifestOf, Written, WrittenFor
<1>3. /\ entry' \in [Names -> Inodes \cup {NoFile}]
      /\ content' \in [Inodes -> Content]
      /\ past' \in [Inodes -> SUBSET [Unit -> Version]]
      /\ writer' \in [Jobs -> Inodes \cup {NoFile}]
  <2>1. CASE /\ ManifestPath(j) # <<>>
             /\ CreateFile(ManifestPath(j), new)
             /\ writer' = [writer EXCEPT ![j] = CreatedAt(ManifestPath(j))]
    BY <1>1, <1>2, <2>1, CreateFileTyped DEF Typed, TypeOK
  <2>2. CASE UNCHANGED <<files, writer>>
    BY <2>2 DEF Typed, TypeOK, files
  <2>3. QED
    BY <2>1, <2>2 DEF CreateManifest
<1>4. pc' \in [Jobs -> Step] /\ verdict' \in [Jobs -> Verdict]
  BY DEF Typed, TypeOK, CreateManifest, Goto, EndWith, Step, Verdict
<1>5. TypeOK'
  BY <1>3, <1>4 DEF Typed, TypeOK, CreateManifest
<1>6. HandlesOpen'
  BY HandlesKept DEF Typed, TypeOK, CreateManifest, Goto, EndWith
<1>7. QED
  BY <1>5, <1>6 DEF Typed

LEMMA TypedFillManifest ==
    ASSUME Typed, NEW j \in Jobs, UNCHANGED request, FillManifest(j)
    PROVE  Typed'
<1>1. [kind |-> "manifest", by |-> j, describes |-> back[j]] \in Content
  BY DEF Typed, TypeOK, Content
<1>2. content' \in [Inodes -> Content]
  BY <1>1 DEF Typed, TypeOK, FillManifest
<1>3. pc' \in [Jobs -> Step] /\ verdict' \in [Jobs -> Verdict]
  BY DEF Typed, TypeOK, FillManifest, Goto, EndWith, Step, Verdict
<1>4. TypeOK'
  BY <1>2, <1>3 DEF Typed, TypeOK, FillManifest, progress
<1>5. HandlesOpen'
  BY HandlesKept DEF Typed, TypeOK, FillManifest, Goto, EndWith, progress
<1>6. QED
  BY <1>4, <1>5 DEF Typed

LEMMA TypedRemovePartial ==
    ASSUME Typed, OnlyExports, NEW j \in Jobs, UNCHANGED request, RemovePartial(j)
    PROVE  Typed'
<1>1. entry' \in [Names -> Inodes \cup {NoFile}]
  BY DEF Typed, TypeOK, RemovePartial
<1>2. pc' \in [Jobs -> Step]
  BY DEF Typed, TypeOK, RemovePartial, Goto, Step
<1>3. TypeOK'
  BY <1>1, <1>2 DEF Typed, TypeOK, RemovePartial, progress
<1>4. HandlesOpen'
  BY HandlesKept DEF Typed, TypeOK, RemovePartial, Goto, progress
<1>5. QED
  BY <1>3, <1>4 DEF Typed

LEMMA TypedEdit ==
    ASSUME Typed, NEW i \in Inodes, NEW u \in Unit, Edit(i, u)
    PROVE  Typed'
<1> DEFINE new == [content[i].units EXCEPT ![u] = @ + 1]
<1>1. content[i] \in [kind : {"recording"}, by : {Nobody}, units : [Unit -> Version]]
  BY DEF Typed, TypeOK, Content, Edit
<1>2. content[i].units[u] + 1 \in Version
  BY <1>1, BoundAssumption DEF Edit, Version
<1>3. new \in [Unit -> Version]
  BY <1>1, <1>2
<1>4. [content[i] EXCEPT !.units = new] \in Content
  BY <1>1, <1>3 DEF Content
<1>5. content' = [content EXCEPT ![i] = [content[i] EXCEPT !.units = new]]
  BY DEF Edit
<1>6. content' \in [Inodes -> Content] /\ content'[i].units = new
  BY <1>1, <1>4, <1>5 DEF Typed, TypeOK
<1>7. past' \in [Inodes -> SUBSET [Unit -> Version]]
  <2>1. past' = [past EXCEPT ![i] = @ \cup {content'[i].units}]
    BY DEF Edit
  <2>2. past \in [Inodes -> SUBSET [Unit -> Version]]
    BY DEF Typed, TypeOK
  <2>3. QED
    BY <1>3, <1>6, <2>1, <2>2
<1>8. TypeOK'
  BY <1>6, <1>7 DEF Typed, TypeOK, Edit, progress
<1>9. HandlesOpen'
  BY HandlesKept DEF Typed, Edit, progress
<1>10. QED
  BY <1>8, <1>9 DEF Typed

LEMMA OnlyExportsInit == Init => OnlyExports
BY DEF Init, OnlyExports

LEMMA OnlyExportsStep ==
    ASSUME Typed, OnlyExports, [Next]_vars
    PROVE  OnlyExports'
<1>1. \A k \in Jobs :
        pc'[k] \in {"opening", "building", "describing", "filling", "ended"} \/ Exports(k)
  <2>1. ASSUME NEW j \in Jobs, Work(j)
        PROVE  /\ \A k \in Jobs : k # j => pc'[k] = pc[k]
               /\ pc'[j] \in {"opening", "building", "describing", "filling", "ended"} \/ Exports(j)
    <3>1. CASE CheckNames(j) \/ OpenSource(j) \/ BuildUnit(j) \/ OpeningFails(j)
      BY <3>1 DEF Typed, TypeOK, CheckNames, OpenSource, BuildUnit, OpeningFails, Goto, EndWith
    <3>2. CASE ParseSource(j) \/ CreatePartial(j) \/ WriteHead(j) \/ Flush(j)
      BY <3>2 DEF Typed, TypeOK, OnlyExports, ParseSource, CreatePartial, WriteHead, Flush, Goto, EndWith
    <3>3. CASE CopyPiece(j) \/ RemuxFails(j) \/ ReadBack(j)
      BY <3>3 DEF Typed, TypeOK, OnlyExports, CopyPiece, RemuxFails, ReadBack, Goto, EndWith
    <3>4. CASE Rename(j) \/ CreateManifest(j) \/ FillManifest(j) \/ RemovePartial(j)
      BY <3>4 DEF Typed, TypeOK, Rename, CreateManifest, FillManifest, RemovePartial, Goto, EndWith
    <3>5. QED
      BY <2>1, <3>1, <3>2, <3>3, <3>4 DEF Work
  <2>2. ASSUME NEW j \in Jobs, Crash(j)
        PROVE  \A k \in Jobs : pc'[k] = pc[k] \/ pc'[k] = "ended"
    BY <2>2 DEF Typed, TypeOK, Crash, EndWith, Goto
  <2>3. CASE UNCHANGED pc
    BY <2>3 DEF OnlyExports
  <2>4. QED
    BY <2>1, <2>2, <2>3 DEF OnlyExports, Next, Interrupt, Edit, vars
<1>2. QED
  BY <1>1 DEF OnlyExports, Exports

LEMMA TypedStep ==
    ASSUME Typed, OnlyExports, [Next]_vars
    PROVE  Typed'
<1>1. ASSUME NEW j \in Jobs, Work(j)
      PROVE  Typed'
  <2>1. UNCHANGED request
    BY <1>1 DEF Work
  <2>2. CASE CheckNames(j) \/ OpeningFails(j) \/ Flush(j) \/ RemuxFails(j)
    BY <2>1, <2>2, TypedControl
  <2>3. CASE OpenSource(j)
    BY <2>1, <2>3, TypedOpenSource
  <2>4. CASE BuildUnit(j)
    BY <2>1, <2>4, TypedBuildUnit
  <2>5. CASE ParseSource(j)
    BY <2>1, <2>5, TypedParseSource
  <2>6. CASE CreatePartial(j)
    BY <2>1, <2>6, TypedCreatePartial
  <2>7. CASE WriteHead(j)
    BY <2>1, <2>7, TypedWriteHead
  <2>8. CASE CopyPiece(j)
    BY <2>1, <2>8, TypedCopyPiece
  <2>9. CASE ReadBack(j)
    BY <2>1, <2>9, TypedReadBack
  <2>10. CASE Rename(j)
    BY <2>1, <2>10, TypedRename
  <2>11. CASE CreateManifest(j)
    BY <2>1, <2>11, TypedCreateManifest
  <2>12. CASE FillManifest(j)
    BY <2>1, <2>12, TypedFillManifest
  <2>13. CASE RemovePartial(j)
    BY <2>1, <2>13, TypedRemovePartial
  <2>14. QED
    BY <1>1, <2>2, <2>3, <2>4, <2>5, <2>6, <2>7, <2>8, <2>9, <2>10, <2>11, <2>12, <2>13 DEF Work
<1>2. ASSUME NEW j \in Jobs, Interrupt(j) \/ Crash(j)
      PROVE  Typed'
  BY <1>2, TypedControl DEF Interrupt, Crash
<1>3. ASSUME NEW i \in Inodes, NEW u \in Unit, Edit(i, u)
      PROVE  Typed'
  BY <1>3, TypedEdit
<1>4. CASE UNCHANGED vars
  BY <1>4 DEF vars, files, progress, Typed, TypeOK, HandlesOpen, Files
<1>5. QED
  BY <1>1, <1>2, <1>3, <1>4 DEF Next

(* Every state of every run is well typed, whatever the jobs, their requests, the files and the faults. *)
THEOREM TypeCorrect == Spec => []TypeOK
<1>1. Init => Typed /\ OnlyExports
  BY TypedInit, OnlyExportsInit
<1>2. Typed /\ OnlyExports /\ [Next]_vars => (Typed /\ OnlyExports)'
  BY TypedStep, OnlyExportsStep
<1>3. Typed => TypeOK
  BY DEF Typed
<1>4. QED
  BY <1>1, <1>2, <1>3, PTL DEF Spec

-----------------------------------------------------------------------------

Precious(n) == n \in Names /\ InitEntry[n] # NoFile /\ \E j \in Jobs : n \in SourceNames(j)

OneNameNow ==
    \A m, n \in Names : entry[m] = entry[n] /\ entry[m] # NoFile => m = n
NamesAreUsed ==
    \A n \in Names : entry[n] # NoFile => content[entry[n]].kind # "unused"
PassedTheCheck ==
    \A j \in Jobs : pc[j] \notin {"checking", "ended"} => \A n \in Written(j) : ~Precious(n)
OwnPartial(j) ==
    pc[j] \in {"heading", "copying", "flushing", "reading back", "moving"} =>
        /\ writer[j] \in Inodes
        /\ entry[Partial(j)] = writer[j]
        /\ content[writer[j]].kind = "output"
        /\ content[writer[j]].by = j
OwnManifest(j) ==
    pc[j] = "filling" =>
        /\ ManifestPath(j) \in Written(j)
        /\ writer[j] \in Inodes
        /\ entry[ManifestPath(j)] = writer[j]
ReadBackSame(j) ==
    pc[j] = "moving" =>
        \A p \in PiecesOf(j) : /\ recorded[j][p] # NotRead
                               /\ content[writer[j]].pieces[p] = recorded[j][p]
StandingIsFinished(j) ==
    Exports(j) /\ Standing(j) => pc[j] \in {"describing", "filling", "ended"} /\ Finished(j)
JobSafe(j) == OwnPartial(j) /\ OwnManifest(j) /\ ReadBackSame(j) /\ StandingIsFinished(j)

Safe ==
    /\ Typed
    /\ OnlyExports
    /\ OneNameNow
    /\ NamesAreUsed
    /\ PassedTheCheck
    /\ SourcesSurvive
    /\ \A j \in Jobs : JobSafe(j)

(* What the names of a job are. *)
LEMMA Named ==
    ASSUME Typed, NEW j \in Jobs
    PROVE  /\ Written(j) \subseteq Names
           /\ Exports(j) => {Out(j), Partial(j), ManifestPath(j)} \subseteq Written(j)
           /\ ~Exports(j) /\ ManifestPath(j) # <<>> => ManifestPath(j) \in Written(j)
BY RequestTyped
DEF Typed, Exports, Out, Partial, ManifestPath, Written, WrittenFor, ManifestOf

LEMMA OwnNamesApart ==
    ASSUME Typed, NamesApart, NEW j \in Jobs, Exports(j)
    PROVE  Out(j) # Partial(j) /\ Out(j) # ManifestPath(j) /\ Partial(j) # ManifestPath(j)
BY DEF Typed, TypeOK, NamesApart, Exports, Out, Partial, ManifestPath

LEMMA OthersNamesApart ==
    ASSUME Typed, NamesApart, NEW j \in Jobs, NEW k \in Jobs, j # k
    PROVE  Written(j) \cap (Written(k) \cup SourceNames(k)) = {}
BY DEF Typed, TypeOK, NamesApart, Written, SourceNames

LEMMA SameNames ==
    ASSUME UNCHANGED request, NEW j \in Jobs
    PROVE  /\ Written(j)' = Written(j) /\ SourceNames(j)' = SourceNames(j)
           /\ Out(j)' = Out(j) /\ Partial(j)' = Partial(j) /\ ManifestPath(j)' = ManifestPath(j)
           /\ PiecesOf(j)' = PiecesOf(j)
BY DEF Written, SourceNames, Out, Partial, ManifestPath, PiecesOf, Files

(* The inode a creation opens is one no other name leads to, and no file of another. *)
LEMMA CreatedApart ==
    ASSUME Safe, NEW w \in Names, entry[w] # NoFile \/ Fresh # {},
           NEW x \in Names, x # w
    PROVE  CreatedAt(w) \in Inodes /\ CreatedAt(w) # entry[x]
<1>1. CreatedAt(w) \in Inodes
  BY CreatedTyped DEF Safe, Typed
<1>2. CASE entry[w] # NoFile
  <2>1. CreatedAt(w) = entry[w]
    BY <1>2 DEF CreatedAt
  <2>2. entry[w] # entry[x]
    BY <1>2 DEF Safe, OneNameNow
  <2>3. QED
    BY <1>1, <2>1, <2>2
<1>3. CASE entry[w] = NoFile
  <2>1. CreatedAt(w) \in Fresh
    BY <1>3 DEF CreatedAt
  <2>2. entry[x] # NoFile => content[entry[x]].kind # "unused"
    BY DEF Safe, NamesAreUsed
  <2>3. entry[x] = NoFile => entry[x] \notin Inodes
    BY NamesAssumption
  <2>4. QED
    BY <1>1, <2>1, <2>2, <2>3 DEF Fresh
<1>4. QED
  BY <1>1, <1>2, <1>3

LEMMA CreateApart ==
    ASSUME Safe, NEW w \in Names, NEW c, CreateFile(w, c)
    PROVE  /\ entry' = [entry EXCEPT ![w] = CreatedAt(w)]
           /\ content' = [content EXCEPT ![CreatedAt(w)] = c]
           /\ CreatedAt(w) \in Inodes
           /\ \A x \in Names : x # w => CreatedAt(w) # entry[x]
BY CreatedApart, CreatedTyped DEF CreateFile, Safe, Typed

(* The names a job's next step may change, or change the file of. *)
Touched(j) ==
    IF pc[j] \in {"creating", "heading", "copying", "removing"} THEN {Partial(j)}
    ELSE IF pc[j] = "moving" THEN {Out(j), Partial(j)}
    ELSE IF pc[j] \in {"describing", "filling"} THEN {ManifestPath(j)}
    ELSE {}

LEMMA TouchedWritten ==
    ASSUME Safe, NEW j \in Jobs, NEW x \in Touched(j), x \in Names
    PROVE  x \in Written(j) /\ pc[j] \notin {"checking", "ended"}
<1>1. pc[j] \notin {"describing", "filling"} => Exports(j)
  BY DEF Safe, OnlyExports, Touched
<1>2. x \in Written(j)
  BY <1>1, Named, NamesAssumption DEF Safe, Touched
<1>3. QED
  BY <1>2 DEF Touched

(* A step of a job leaves every other name as it was, and the file it leads to. *)
LEMMA Frame ==
    ASSUME Safe, NEW j \in Jobs, Work(j), NEW x \in Names, x \notin Touched(j)
    PROVE  entry'[x] = entry[x] /\ (entry[x] # NoFile => content'[entry[x]] = content[entry[x]])
<1> USE DEF Safe
<1>1. entry \in [Names -> Inodes \cup {NoFile}] /\ content \in [Inodes -> Content]
  BY DEF Typed, TypeOK
<1>2. CASE UNCHANGED files
  BY <1>2 DEF files
<1>3. ASSUME NEW w \in Names, w # x, NEW c, CreateFile(w, c)
      PROVE  entry'[x] = entry[x] /\ (entry[x] # NoFile => content'[entry[x]] = content[entry[x]])
  BY <1>1, <1>3, CreateApart
<1>4. ASSUME NEW w \in Names, w # x, NEW c, entry[w] = writer[j], writer[j] # NoFile,
             content' = [content EXCEPT ![writer[j]] = c], UNCHANGED entry
      PROVE  entry'[x] = entry[x] /\ (entry[x] # NoFile => content'[entry[x]] = content[entry[x]])
  <2>1. entry[x] # writer[j]
    BY <1>4 DEF OneNameNow
  <2>2. QED
    BY <1>1, <1>4, <2>1
<1>5. CASE CheckNames(j) \/ OpenSource(j) \/ BuildUnit(j) \/ ParseSource(j) \/ OpeningFails(j)
           \/ Flush(j) \/ RemuxFails(j) \/ ReadBack(j)
  BY <1>2, <1>5
  DEF CheckNames, OpenSource, BuildUnit, ParseSource, OpeningFails, Flush, RemuxFails, ReadBack
<1>6. CASE CreatePartial(j)
  <2>1. Partial(j) \in Names /\ Partial(j) # x
    BY <1>6, Named DEF OnlyExports, CreatePartial, Touched
  <2>2. QED
    BY <1>2, <1>3, <1>6, <2>1 DEF CreatePartial
<1>7. CASE WriteHead(j) \/ CopyPiece(j)
  <2>1. /\ Partial(j) \in Names /\ Partial(j) # x
        /\ entry[Partial(j)] = writer[j] /\ writer[j] # NoFile
    BY <1>7, Named, NamesAssumption DEF OnlyExports, WriteHead, CopyPiece, JobSafe, OwnPartial, Touched
  <2>2. \E c : content' = [content EXCEPT ![writer[j]] = c]
    BY <1>7 DEF WriteHead, CopyPiece, WriteThrough
  <2>3. QED
    BY <1>4, <1>7, <2>1, <2>2 DEF WriteHead, CopyPiece
<1>8. CASE Rename(j)
  <2>1. x # Partial(j) /\ x # Out(j)
    BY <1>8 DEF Rename, Touched
  <2>2. QED
    BY <1>2, <1>8, <2>1 DEF Rename, MoveFile
<1>9. CASE CreateManifest(j)
  <2>1. ManifestPath(j) # <<>> => ManifestPath(j) \in Names /\ ManifestPath(j) # x
    BY <1>9, Named DEF CreateManifest, Touched
  <2>2. QED
    BY <1>2, <1>3, <1>9, <2>1 DEF CreateManifest
<1>10. CASE FillManifest(j)
  <2>1. /\ ManifestPath(j) \in Names /\ ManifestPath(j) # x
        /\ entry[ManifestPath(j)] = writer[j] /\ writer[j] # NoFile
    BY <1>10, Named, NamesAssumption DEF FillManifest, JobSafe, OwnManifest, Touched
  <2>2. QED
    BY <1>2, <1>4, <1>10, <2>1 DEF FillManifest, files
<1>11. CASE RemovePartial(j)
  <2>1. x # Partial(j)
    BY <1>11 DEF RemovePartial, Touched
  <2>2. QED
    BY <1>1, <1>11, <2>1 DEF RemovePartial
<1>12. QED
  BY <1>5, <1>6, <1>7, <1>8, <1>9, <1>10, <1>11 DEF Work

(* The other variables of the other jobs. *)
LEMMA OthersWait ==
    ASSUME Typed, NEW j \in Jobs, Work(j), NEW k \in Jobs, k # j
    PROVE  pc'[k] = pc[k] /\ writer'[k] = writer[k] /\ recorded'[k] = recorded[k]
<1> USE DEF Typed, TypeOK, Goto, EndWith, progress
<1>1. CASE CheckNames(j) \/ OpenSource(j) \/ BuildUnit(j) \/ ParseSource(j) \/ OpeningFails(j)
  BY <1>1 DEF CheckNames, OpenSource, BuildUnit, ParseSource, OpeningFails
<1>2. CASE CreatePartial(j) \/ WriteHead(j) \/ CopyPiece(j) \/ Flush(j) \/ RemuxFails(j)
  BY <1>2 DEF CreatePartial, WriteHead, CopyPiece, Flush, RemuxFails
<1>3. CASE ReadBack(j) \/ Rename(j) \/ CreateManifest(j) \/ FillManifest(j) \/ RemovePartial(j)
  BY <1>3 DEF ReadBack, Rename, CreateManifest, FillManifest, RemovePartial
<1>4. QED
  BY <1>1, <1>2, <1>3 DEF Work

(* What a step of one job keeps of another. *)
LEMMA OthersSafe ==
    ASSUME Safe, NamesApart, NEW j \in Jobs, Work(j), NEW k \in Jobs, k # j
    PROVE  JobSafe(k)'
<1>1. pc'[k] = pc[k] /\ writer'[k] = writer[k] /\ recorded'[k] = recorded[k]
  BY OthersWait DEF Safe
<1>2. UNCHANGED request
  BY DEF Work
<1>3. /\ Written(k)' = Written(k) /\ Out(k)' = Out(k) /\ Partial(k)' = Partial(k)
      /\ ManifestPath(k)' = ManifestPath(k) /\ PiecesOf(k)' = PiecesOf(k)
  BY <1>2, SameNames
<1>4. ASSUME NEW x \in Written(k)
      PROVE  entry'[x] = entry[x] /\ (entry[x] # NoFile => content'[entry[x]] = content[entry[x]])
  <2>1. x \in Names /\ x \notin Written(j)
    BY OthersNamesApart, Named DEF Safe
  <2>2. x \notin Touched(j)
    BY <2>1, TouchedWritten
  <2>3. QED
    BY <2>1, <2>2, Frame
<1>5. JobSafe(k)
  BY DEF Safe
<1>6. Exports(k) => {Out(k), Partial(k), ManifestPath(k)} \subseteq Written(k)
  BY Named DEF Safe
<1>7. pc[k] \notin {"opening", "building", "describing", "filling", "ended"} => Exports(k)
  BY DEF Safe, OnlyExports
<1>8. OwnPartial(k)'
  BY <1>1, <1>3, <1>4, <1>5, <1>6, <1>7, NamesAssumption DEF JobSafe, OwnPartial
<1>9. OwnManifest(k)'
  BY <1>1, <1>3, <1>4, <1>5 DEF JobSafe, OwnManifest
<1>10. ReadBackSame(k)'
  <2>1. CASE pc[k] = "moving"
    <3>1. content'[writer[k]] = content[writer[k]]
      BY <1>4, <1>5, <1>6, <1>7, <2>1, NamesAssumption DEF JobSafe, OwnPartial
    <3>2. QED
      BY <1>1, <1>3, <1>5, <2>1, <3>1 DEF JobSafe, ReadBackSame
  <2>2. QED
    BY <1>1, <2>1 DEF ReadBackSame
<1>11. StandingIsFinished(k)'
  BY <1>1, <1>3, <1>4, <1>5, <1>6 DEF JobSafe, StandingIsFinished, Standing, Finished, Exports
<1>12. QED
  BY <1>8, <1>9, <1>10, <1>11 DEF JobSafe

(* A job whose partial file is its own writes its own output. *)
LEMMA WritesOutput ==
    ASSUME Safe, NEW j \in Jobs, pc[j] \in {"heading", "copying"}, NEW P, WriteThrough(j, P)
    PROVE  \E f : content' = [content EXCEPT ![writer[j]] = [kind |-> "output", by |-> j, pieces |-> f]]
<1> DEFINE held == content[writer[j]]
           f == [p \in Piece |-> IF p \in P THEN copied'[j][p] ELSE held.pieces[p]]
<1>1. held.kind = "output" /\ held.by = j /\ writer[j] \in Inodes
  BY DEF Safe, JobSafe, OwnPartial
<1>2. held = [kind |-> "output", by |-> j, pieces |-> held.pieces]
  BY <1>1 DEF Safe, Typed, TypeOK, Content
<1>3. content' = [content EXCEPT ![writer[j]] = [held EXCEPT !.pieces = f]]
  BY <1>1 DEF WriteThrough
<1>4. [held EXCEPT !.pieces = f] = [kind |-> "output", by |-> j, pieces |-> f]
  BY <1>2
<1>5. QED
  BY <1>3, <1>4

(* What leads nowhere, and who made what a name leads to: creations and moves keep names apart. *)
LEMMA NamesStep ==
    ASSUME Safe, NEW j \in Jobs, Work(j)
    PROVE  OneNameNow' /\ NamesAreUsed'
<1> USE DEF Safe
<1>1. entry \in [Names -> Inodes \cup {NoFile}] /\ content \in [Inodes -> Content]
  BY DEF Typed, TypeOK
<1>2. CASE UNCHANGED files
  BY <1>2 DEF files, OneNameNow, NamesAreUsed
<1>3. ASSUME NEW w \in Names, NEW c, c.kind # "unused", CreateFile(w, c)
      PROVE  OneNameNow' /\ NamesAreUsed'
  BY <1>1, <1>3, CreateApart DEF OneNameNow, NamesAreUsed
<1>4. ASSUME NEW c, c.kind # "unused", content' = [content EXCEPT ![writer[j]] = c], UNCHANGED entry
      PROVE  OneNameNow' /\ NamesAreUsed'
  BY <1>1, <1>4 DEF OneNameNow, NamesAreUsed
<1>5. CASE CheckNames(j) \/ OpenSource(j) \/ BuildUnit(j) \/ ParseSource(j) \/ OpeningFails(j)
           \/ Flush(j) \/ RemuxFails(j) \/ ReadBack(j)
  BY <1>2, <1>5
  DEF CheckNames, OpenSource, BuildUnit, ParseSource, OpeningFails, Flush, RemuxFails, ReadBack
<1>6. CASE CreatePartial(j)
  <2>1. Partial(j) \in Names
    BY <1>6, Named DEF OnlyExports, CreatePartial
  <2>2. QED
    BY <1>2, <1>3, <1>6, <2>1 DEF CreatePartial
<1>7. CASE WriteHead(j) \/ CopyPiece(j)
  <2>1. PICK f : content' = [content EXCEPT ![writer[j]] = [kind |-> "output", by |-> j, pieces |-> f]]
    BY <1>7, WritesOutput DEF WriteHead, CopyPiece
  <2> DEFINE c == [kind |-> "output", by |-> j, pieces |-> f]
  <2>2. c.kind # "unused" /\ content' = [content EXCEPT ![writer[j]] = c] /\ UNCHANGED entry
    BY <1>7, <2>1 DEF WriteHead, CopyPiece
  <2> HIDE DEF c
  <2>3. QED
    BY <1>4, <2>2
<1>8. CASE Rename(j)
  <2>1. CASE MoveFile(Partial(j), Out(j))
    <3>1. Partial(j) \in Names /\ Out(j) \in Names
      BY <1>8, Named DEF OnlyExports, Rename
    <3>2. \A x \in Names : entry'[x] = IF x = Out(j) THEN entry[Partial(j)]
                                      ELSE IF x = Partial(j) THEN NoFile ELSE entry[x]
      BY <2>1 DEF MoveFile
    <3>3. OneNameNow'
      BY <1>1, <3>1, <3>2 DEF OneNameNow
    <3>4. NamesAreUsed'
      BY <1>1, <2>1, <3>1, <3>2 DEF NamesAreUsed, MoveFile
    <3>5. QED
      BY <3>3, <3>4
  <2>2. QED
    BY <1>2, <1>8, <2>1 DEF Rename
<1>9. CASE CreateManifest(j)
  <2>1. ManifestPath(j) # <<>> => ManifestPath(j) \in Names
    BY Named
  <2>2. QED
    BY <1>2, <1>3, <1>9, <2>1 DEF CreateManifest
<1>10. CASE FillManifest(j)
  BY <1>2, <1>4, <1>10 DEF FillManifest, files
<1>11. CASE RemovePartial(j)
  BY <1>1, <1>11 DEF RemovePartial, OneNameNow, NamesAreUsed
<1>12. QED
  BY <1>5, <1>6, <1>7, <1>8, <1>9, <1>10, <1>11 DEF Work

LEMMA PassedStep ==
    ASSUME Safe, NamesApart, NEW j \in Jobs, Work(j)
    PROVE  PassedTheCheck'
<1>1. UNCHANGED request
  BY DEF Work
<1>2. \A n : Precious(n)' <=> Precious(n)
  BY <1>1, SameNames DEF Precious
<1>3. ASSUME NEW k \in Jobs, k # j, pc'[k] \notin {"checking", "ended"}
      PROVE  \A n \in Written(k)' : ~Precious(n)
  BY <1>1, <1>3, OthersWait, SameNames DEF Safe, PassedTheCheck
<1>4. ASSUME pc'[j] \notin {"checking", "ended"}
      PROVE  \A n \in Written(j) : ~Precious(n)
  <2>1. CASE pc[j] \notin {"checking", "ended"}
    BY <2>1 DEF Safe, PassedTheCheck
  <2>2. CASE pc[j] \in {"checking", "ended"}
    <3>1. CheckNames(j)
      BY <2>2 DEF Work, CheckNames, OpenSource, BuildUnit, ParseSource, OpeningFails, CreatePartial,
             WriteHead, CopyPiece, Flush, RemuxFails, ReadBack, Rename, CreateManifest, FillManifest,
             RemovePartial
    <3>2. \A w \in Written(j), s \in SourceNames(j) : ~SameFile(s, w)
      BY <1>4, <3>1 DEF Safe, Typed, TypeOK, CheckNames, EndWith, Goto
    <3>3. ASSUME NEW n \in Written(j), Precious(n)
          PROVE  FALSE
      <4>1. PICK k \in Jobs : n \in SourceNames(k)
        BY <3>3 DEF Precious
      <4>2. k = j
        BY <4>1, OthersNamesApart DEF Safe
      <4>3. entry[n] # NoFile
        BY <3>3, <4>1 DEF Safe, SourcesSurvive, Precious
      <4>4. QED
        BY <3>2, <4>1, <4>2, <4>3 DEF SameFile
    <3>4. QED
      BY <3>3
  <2>3. QED
    BY <2>1, <2>2
<1>5. Written(j)' = Written(j)
  BY <1>1, SameNames
<1>6. QED
  BY <1>2, <1>3, <1>4, <1>5 DEF PassedTheCheck

(* What is read is left alone by the steps of every job. *)
LEMMA SurviveStep ==
    ASSUME Safe, NamesApart, NEW j \in Jobs, Work(j)
    PROVE  SourcesSurvive'
<1>1. UNCHANGED request
  BY DEF Work
<1>2. ASSUME NEW k \in Jobs, NEW n \in SourceNames(k), InitEntry[n] # NoFile
      PROVE  /\ entry'[n] = InitEntry[n]
             /\ content'[entry'[n]].kind = FirstContent(InitEntry[n]).kind
             /\ content'[entry'[n]].by = Nobody
  <2>1. n \in Names /\ Precious(n)
    BY <1>2, RequestTyped DEF Safe, Typed, Precious
  <2>2. /\ entry[n] = InitEntry[n] /\ content[entry[n]].kind = FirstContent(InitEntry[n]).kind
        /\ content[entry[n]].by = Nobody
    BY <1>2 DEF Safe, SourcesSurvive
  <2>3. n \notin Touched(j)
    BY <2>1, TouchedWritten DEF Safe, PassedTheCheck
  <2>4. QED
    BY <1>2, <2>1, <2>2, <2>3, Frame
<1>3. QED
  BY <1>1, <1>2, SameNames DEF SourcesSurvive

(* What a step of a job keeps of its own partial file and manifest. *)
LEMMA OwnFiles ==
    ASSUME Safe, NEW j \in Jobs, Work(j)
    PROVE  OwnPartial(j)' /\ OwnManifest(j)' /\ ReadBackSame(j)'
<1> USE DEF Safe
<1>1. /\ UNCHANGED request
      /\ Written(j)' = Written(j) /\ Partial(j)' = Partial(j) /\ ManifestPath(j)' = ManifestPath(j)
      /\ PiecesOf(j)' = PiecesOf(j)
  BY SameNames DEF Work
<1>2. /\ pc \in [Jobs -> Step] /\ writer \in [Jobs -> Inodes \cup {NoFile}]
      /\ entry \in [Names -> Inodes \cup {NoFile}] /\ content \in [Inodes -> Content]
  BY DEF Typed, TypeOK
<1>3. ASSUME pc'[j] \in {"opening", "building", "parsing", "creating", "describing", "removing", "ended"}
      PROVE  OwnPartial(j)' /\ OwnManifest(j)' /\ ReadBackSame(j)'
  BY <1>3 DEF OwnPartial, OwnManifest, ReadBackSame
<1>4. CASE CheckNames(j) \/ OpenSource(j) \/ BuildUnit(j) \/ ParseSource(j) \/ OpeningFails(j)
  BY <1>2, <1>3, <1>4
  DEF CheckNames, OpenSource, BuildUnit, ParseSource, OpeningFails, Goto, EndWith
<1>5. CASE RemuxFails(j) \/ Rename(j) \/ FillManifest(j) \/ RemovePartial(j)
  BY <1>2, <1>3, <1>5 DEF RemuxFails, Rename, FillManifest, RemovePartial, Goto, EndWith
<1>6. CASE CreatePartial(j)
  <2> DEFINE new == [kind |-> "output", by |-> j, pieces |-> Nothing]
             w == Partial(j)
  <2>1. CASE pc'[j] = "ended"
    BY <1>3, <2>1
  <2>2. CASE CreateFile(w, new) /\ writer' = [writer EXCEPT ![j] = CreatedAt(w)] /\ Goto(j, "heading")
    <3>1. w \in Names
      BY <1>6, Named DEF OnlyExports, CreatePartial
    <3>2. /\ entry' = [entry EXCEPT ![w] = CreatedAt(w)] /\ CreatedAt(w) \in Inodes
          /\ content' = [content EXCEPT ![CreatedAt(w)] = new]
      BY <2>2, <3>1, CreateApart
    <3>3. /\ writer'[j] = CreatedAt(w) /\ entry'[w] = writer'[j] /\ content'[writer'[j]] = new
          /\ pc'[j] = "heading"
      BY <1>2, <2>2, <3>1, <3>2 DEF Goto
    <3>4. QED
      BY <1>1, <3>2, <3>3 DEF OwnPartial, OwnManifest, ReadBackSame
  <2>3. QED
    BY <1>2, <1>6, <2>1, <2>2 DEF CreatePartial, EndWith, Goto
<1>7. CASE WriteHead(j) \/ CopyPiece(j)
  <2>1. PICK f : content' = [content EXCEPT ![writer[j]] = [kind |-> "output", by |-> j, pieces |-> f]]
    BY <1>7, WritesOutput DEF WriteHead, CopyPiece
  <2>2. writer[j] \in Inodes /\ entry[Partial(j)] = writer[j]
    BY <1>7 DEF WriteHead, CopyPiece, JobSafe, OwnPartial
  <2>3. UNCHANGED <<entry, writer>> /\ pc'[j] \in {"copying", "flushing", "removing"}
    BY <1>2, <1>7 DEF WriteHead, CopyPiece, Goto
  <2>4. QED
    BY <1>1, <1>2, <2>1, <2>2, <2>3 DEF OwnPartial, OwnManifest, ReadBackSame
<1>8. CASE Flush(j)
  <2>1. CASE pc'[j] = "ended"
    BY <1>3, <2>1
  <2>2. CASE pc'[j] = "reading back" /\ pc[j] = "flushing" /\ UNCHANGED <<entry, content, writer>>
    BY <1>1, <2>2 DEF JobSafe, OwnPartial, OwnManifest, ReadBackSame
  <2>3. QED
    BY <1>2, <1>8, <2>1, <2>2 DEF Flush, Goto, EndWith, files, progress
<1>9. CASE ReadBack(j)
  <2>1. CASE pc'[j] \in {"removing", "ended"}
    BY <1>3, <2>1
  <2>2. CASE pc'[j] = "moving" /\ Readable(j) /\ CarriesItsSources(j)
    <3>1. /\ writer[j] \in Inodes /\ entry[Partial(j)] = writer[j]
          /\ content[writer[j]].kind = "output" /\ content[writer[j]].by = j
      BY <1>9 DEF ReadBack, JobSafe, OwnPartial
    <3>2. PiecesRead(j) = content[writer[j]].pieces
      BY <3>1, NamesAssumption DEF PiecesRead
    <3>3. UNCHANGED <<entry, content, writer, recorded>>
      BY <1>9 DEF ReadBack, files
    <3>4. QED
      BY <1>1, <2>2, <3>1, <3>2, <3>3
      DEF OwnPartial, OwnManifest, ReadBackSame, Readable, CarriesItsSources
  <2>3. QED
    BY <1>2, <1>9, <2>1, <2>2 DEF ReadBack, Goto, EndWith
<1>10. CASE CreateManifest(j)
  <2> DEFINE new == [kind |-> "empty", by |-> j]
             w == ManifestPath(j)
  <2>1. CASE pc'[j] = "ended"
    BY <1>3, <2>1
  <2>2. CASE /\ w # <<>> /\ CreateFile(w, new) /\ Goto(j, "filling")
             /\ writer' = [writer EXCEPT ![j] = CreatedAt(w)]
    <3>1. w \in Names /\ w \in Written(j)
      BY <2>2, Named
    <3>2. entry' = [entry EXCEPT ![w] = CreatedAt(w)] /\ CreatedAt(w) \in Inodes
      BY <2>2, <3>1, CreateApart
    <3>3. writer'[j] = CreatedAt(w) /\ entry'[w] = writer'[j] /\ pc'[j] = "filling"
      BY <1>2, <2>2, <3>1, <3>2 DEF Goto
    <3>4. QED
      BY <1>1, <3>1, <3>2, <3>3 DEF OwnPartial, OwnManifest, ReadBackSame
  <2>3. QED
    BY <1>2, <1>10, <2>1, <2>2 DEF CreateManifest, EndWith, Goto
<1>11. QED
  BY <1>4, <1>5, <1>6, <1>7, <1>8, <1>9, <1>10 DEF Work

(* What stands under the final name came there whole, by the rename, and stays. *)
LEMMA StandingStep ==
    ASSUME Safe, NamesApart, NEW j \in Jobs, Work(j)
    PROVE  StandingIsFinished(j)'
<1> USE DEF Safe
<1> SUFFICES ASSUME Exports(j), Standing(j)'
             PROVE  pc'[j] \in {"describing", "filling", "ended"} /\ Finished(j)'
  BY DEF StandingIsFinished, Exports
<1>1. UNCHANGED request /\ Out(j)' = Out(j) /\ PiecesOf(j)' = PiecesOf(j)
  BY SameNames DEF Work
<1>2. pc \in [Jobs -> Step] /\ Out(j) \in Names /\ Partial(j) \in Names
  BY Named DEF Typed, TypeOK
<1>3. CASE pc[j] # "moving"
  <2>1. Out(j) \notin Touched(j)
    BY <1>3, OwnNamesApart DEF Touched
  <2>2. /\ Standing(j)
        /\ entry'[Out(j)] = entry[Out(j)] /\ content'[entry[Out(j)]] = content[entry[Out(j)]]
    BY <1>1, <1>2, <2>1, Frame DEF Standing
  <2>3. pc[j] \in {"describing", "filling", "ended"} /\ Finished(j)
    BY <2>2 DEF JobSafe, StandingIsFinished
  <2>4. CreateManifest(j) \/ FillManifest(j)
    BY <2>3 DEF Work, CheckNames, OpenSource, BuildUnit, ParseSource, OpeningFails, CreatePartial,
           WriteHead, CopyPiece, Flush, RemuxFails, ReadBack, Rename, RemovePartial
  <2>5. recorded' = recorded /\ pc'[j] \in {"filling", "ended"}
    BY <1>2, <2>4 DEF CreateManifest, FillManifest, Goto, EndWith, progress
  <2>6. QED
    BY <1>1, <2>2, <2>3, <2>5 DEF Finished
<1>4. CASE pc[j] = "moving"
  <2>1. Rename(j)
    BY <1>4 DEF Work, CheckNames, OpenSource, BuildUnit, ParseSource, OpeningFails, CreatePartial,
           WriteHead, CopyPiece, Flush, RemuxFails, ReadBack, CreateManifest, FillManifest, RemovePartial
  <2>2. ~Standing(j)
    BY <1>4 DEF JobSafe, StandingIsFinished
  <2>3. MoveFile(Partial(j), Out(j)) /\ pc'[j] = "describing" /\ recorded' = recorded
    BY <1>1, <1>2, <2>1, <2>2 DEF Rename, Goto, Standing, files, progress
  <2>4. entry'[Out(j)] = entry[Partial(j)] /\ content' = content
    BY <1>2, <2>3 DEF MoveFile
  <2>5. entry[Partial(j)] = writer[j] /\ content[writer[j]].kind = "output"
    BY <1>4 DEF JobSafe, OwnPartial
  <2>6. QED
    BY <1>1, <1>4, <2>3, <2>4, <2>5 DEF JobSafe, ReadBackSame, Finished
<1>5. QED
  BY <1>3, <1>4

LEMMA SafeInit ==
    ASSUME NamesApart, OneNameEach, Init
    PROVE  Safe
<1>1. Typed /\ OnlyExports
  BY TypedInit, OnlyExportsInit
<1>2. entry = InitEntry /\ \A n \in Names : entry[n] # NoFile => entry[n] \in Inodes
  BY EntryAssumption DEF Init
<1>3. \A n \in Names : entry[n] # NoFile =>
        /\ content[entry[n]] = FirstContent(InitEntry[n])
        /\ content[entry[n]].kind # "unused" /\ content[entry[n]].by = Nobody
  BY <1>2 DEF Init, FirstContent
<1>4. OneNameNow /\ NamesAreUsed
  BY <1>2, <1>3 DEF OneNameEach, OneNameNow, NamesAreUsed
<1>5. SourcesSurvive
  <2>1. \A j \in Jobs : SourceNames(j) \subseteq Names
    BY <1>1, RequestTyped DEF Typed
  <2>2. QED
    BY <1>2, <1>3, <2>1 DEF SourcesSurvive
<1>6. PassedTheCheck
  <2>1. ASSUME NEW j \in Jobs, ~Exports(j), NEW n \in Written(j), NEW k \in Jobs, n \in SourceNames(k)
        PROVE  FALSE
    <3>1. k = j
      BY <1>1, <2>1, OthersNamesApart
    <3>2. request[j] \in Requests[j]
      BY DEF Init
    <3>3. QED
      BY <2>1, <3>1, <3>2 DEF NamesApart, Exports, Written, WrittenFor, SourceNames
  <2>2. QED
    BY <2>1 DEF Init, PassedTheCheck, Precious
<1>7. \A j \in Jobs : JobSafe(j)
  <2>1. ASSUME NEW j \in Jobs
        PROVE  JobSafe(j)
    <3>1. pc[j] \in {"checking", "opening"}
      BY DEF Init
    <3>2. Exports(j) => Out(j) \in Names
      BY <1>1, Named
    <3>3. QED
      BY <1>3, <3>1, <3>2
      DEF JobSafe, OwnPartial, OwnManifest, ReadBackSame, StandingIsFinished, Standing
  <2>2. QED
    BY <2>1
<1>8. QED
  BY <1>1, <1>4, <1>5, <1>6, <1>7 DEF Safe

(* Interruptions, deaths and stuttering: no file changes, and a job only ends. *)
LEMMA SafeQuiet ==
    ASSUME Safe, Typed', OnlyExports', UNCHANGED <<request, files, writer, recorded>>,
           \A j \in Jobs : pc'[j] = pc[j] \/ pc'[j] = "ended"
    PROVE  Safe'
<1>1. OneNameNow' /\ NamesAreUsed' /\ SourcesSurvive' /\ PassedTheCheck'
  BY DEF Safe, OneNameNow, NamesAreUsed, SourcesSurvive, PassedTheCheck, Precious, SourceNames, Written, files
<1>2. ASSUME NEW j \in Jobs
      PROVE  JobSafe(j)'
  <2>1. /\ Written(j)' = Written(j) /\ Out(j)' = Out(j) /\ Partial(j)' = Partial(j)
        /\ ManifestPath(j)' = ManifestPath(j) /\ PiecesOf(j)' = PiecesOf(j)
    BY SameNames
  <2>2. JobSafe(j)
    BY DEF Safe
  <2>3. QED
    BY <2>1, <2>2
    DEF JobSafe, OwnPartial, OwnManifest, ReadBackSame, StandingIsFinished, Standing, Finished, Exports, files
<1>3. QED
  BY <1>1, <1>2 DEF Safe

(* An edit finds a recording and leaves one. *)
LEMMA SafeEdit ==
    ASSUME Safe, Typed', OnlyExports', NEW i \in Inodes, NEW u \in Unit, Edit(i, u)
    PROVE  Safe'
<1>1. /\ UNCHANGED <<request, entry, pc, writer, recorded>>
      /\ \A k \in Inodes : k # i => content'[k] = content[k]
      /\ content[i].kind = "recording"
  BY DEF Edit, progress, Safe, Typed, TypeOK
<1>2. content'[i].kind = "recording" /\ content'[i].by = Nobody /\ content[i].by = Nobody
  <2>1. content[i] \in [kind : {"recording"}, by : {Nobody}, units : [Unit -> Version]]
    BY <1>1 DEF Safe, Typed, TypeOK, Content
  <2>2. content' = [content EXCEPT ![i] =
                      [content[i] EXCEPT !.units = [content[i].units EXCEPT ![u] = @ + 1]]]
    BY DEF Edit
  <2>3. QED
    BY <2>1, <2>2 DEF Safe, Typed, TypeOK
<1>3. entry \in [Names -> Inodes \cup {NoFile}]
  BY DEF Safe, Typed, TypeOK
<1>4. OneNameNow' /\ NamesAreUsed'
  BY <1>1, <1>2, <1>3 DEF Safe, OneNameNow, NamesAreUsed
<1>5. PassedTheCheck'
  BY <1>1 DEF Safe, PassedTheCheck, Precious, SourceNames, Written
<1>6. SourcesSurvive'
  <2>1. \A j \in Jobs : SourceNames(j) \subseteq Names
    BY RequestTyped DEF Safe, Typed
  <2>2. QED
    BY <1>1, <1>2, <1>3, <2>1 DEF Safe, SourcesSurvive, SourceNames
<1>7. ASSUME NEW j \in Jobs
      PROVE  JobSafe(j)'
  <2>1. /\ Written(j)' = Written(j) /\ Out(j)' = Out(j) /\ Partial(j)' = Partial(j)
        /\ ManifestPath(j)' = ManifestPath(j) /\ PiecesOf(j)' = PiecesOf(j)
    BY <1>1, SameNames
  <2>2. OwnPartial(j) /\ OwnManifest(j) /\ ReadBackSame(j) /\ StandingIsFinished(j)
    BY DEF Safe, JobSafe
  <2>3. OwnPartial(j)' /\ OwnManifest(j)'
    BY <1>1, <2>1, <2>2 DEF OwnPartial, OwnManifest
  <2>4. ReadBackSame(j)'
    BY <1>1, <2>1, <2>2 DEF OwnPartial, ReadBackSame
  <2>5. StandingIsFinished(j)'
    <3>1. Exports(j) => Out(j) \in Names
      BY Named DEF Safe
    <3>2. QED
      BY <1>1, <1>2, <1>3, <2>1, <2>2, <3>1 DEF StandingIsFinished, Standing, Finished, Exports
  <2>6. QED
    BY <2>3, <2>4, <2>5 DEF JobSafe
<1>8. QED
  BY <1>4, <1>5, <1>6, <1>7 DEF Safe

LEMMA SafeStep ==
    ASSUME NamesApart, Safe, [Next]_vars
    PROVE  Safe'
<1>1. Typed' /\ OnlyExports'
  BY TypedStep, OnlyExportsStep DEF Safe
<1>2. ASSUME NEW j \in Jobs, Work(j)
      PROVE  Safe'
  <2>1. ASSUME NEW k \in Jobs
        PROVE  JobSafe(k)'
    BY <1>2, OthersSafe, OwnFiles, StandingStep DEF JobSafe
  <2>2. QED
    BY <1>1, <1>2, <2>1, NamesStep, PassedStep, SurviveStep DEF Safe
<1>3. ASSUME NEW j \in Jobs, Interrupt(j) \/ Crash(j)
      PROVE  Safe'
  <2>1. UNCHANGED <<request, files, writer, recorded>>
    BY <1>3 DEF Interrupt, Crash, progress
  <2>2. \A k \in Jobs : pc'[k] = pc[k] \/ pc'[k] = "ended"
    BY <1>3 DEF Interrupt, Crash, EndWith, Goto, Safe, Typed, TypeOK
  <2>3. QED
    BY <1>1, <2>1, <2>2, SafeQuiet
<1>4. ASSUME NEW i \in Inodes, NEW u \in Unit, Edit(i, u)
      PROVE  Safe'
  BY <1>1, <1>4, SafeEdit
<1>5. CASE UNCHANGED vars
  BY <1>1, <1>5, SafeQuiet DEF vars, progress
<1>6. QED
  BY <1>2, <1>3, <1>4, <1>5 DEF Next

(* No command truncates, replaces or unlinks what it or another one reads, whatever fails and whenever it
   dies, while others write to the sources. *)
THEOREM SourcesAreSafe ==
    ASSUME NamesApart, OneNameEach
    PROVE  Spec => []SourcesSurvive
<1>1. Init => Safe
  BY SafeInit
<1>2. Safe /\ [Next]_vars => Safe'
  BY SafeStep
<1>3. Safe => SourcesSurvive
  BY DEF Safe
<1>4. QED
  BY <1>1, <1>2, <1>3, PTL DEF Spec

(* What stands under the final name of an export is whole and carries what its sources' manifests
   recorded, in every state: during the export, after a failure, an interruption or a crash. *)
THEOREM OutputsAreFinished ==
    ASSUME NamesApart, OneNameEach
    PROVE  Spec => []OutputIsFinished
<1>1. Init => Safe
  BY SafeInit
<1>2. Safe /\ [Next]_vars => Safe'
  BY SafeStep
<1>3. Safe => OutputIsFinished
  BY DEF Safe, JobSafe, StandingIsFinished, OutputIsFinished
<1>4. QED
  BY <1>1, <1>2, <1>3, PTL DEF Spec
=============================================================================
