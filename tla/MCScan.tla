------------------------------- MODULE MCScan -------------------------------
(***************************************************************************)
(* Groups: every three files of fourteen names, each holding one of three  *)
(* contents, nobody else writing.  Caches: one file, there or not, scanned *)
(* three times while it is written, removed and read in vain.  Listings:   *)
(* three files at three depths, given by directories of which one may fail *)
(* to be listed.  OneStem: three files of one stem, two of them of one     *)
(* camera in two directories, the third of another grammar.                *)
(***************************************************************************)
EXTENDS Scan

T(text) == [text |-> text, time |-> 0]
Stamp(text, time) == [text |-> text, time |-> time]
First == Stamp("20260101_101010", 1)
FirstDashed == Stamp("2026-01-01_10-10-10", 1)
Second == Stamp("20260101_101110", 2)
Named(stem, extension) == [stem |-> stem, extension |-> extension]

Names ==
    <<Named(<<First, T("E")>>, "mp4"), Named(<<First, T("F")>>, "mp4"), Named(<<First, T("_"), T("R"), T("H")>>, "mov"),
      Named(<<First, T("-rear")>>, "mp4"), Named(<<FirstDashed, T("f")>>, "mp4"), Named(<<First, T("_"), T("I")>>, "mp4"),
      Named(<<First, T("F")>>, "3gp"), Named(<<T("clip"), T("_front")>>, "mp4"), Named(<<T("clip"), T("F")>>, "mp4"),
      Named(<<T("clip")>>, "jpg"), Named(<<First, T("_"), T("H")>>, "mp4"), Named(<<Second, T("r"), T("l")>>, "mp4"),
      Named(<<Second, T("N")>>, "mp4"), Named(<<First>>, "jpg")>>

Video(width, height) == [kind |-> "video", visual |-> TRUE, width |-> width, height |-> height]
Bare == [kind |-> "video", visual |-> FALSE, width |-> 0, height |-> 0]
Sound == [kind |-> "audio", visual |-> FALSE, width |-> 0, height |-> 0]
UserBox(standard, tags) == [standard |-> standard, tags |-> tags]

TwoCameras ==
    [size |-> 10, reads |-> TRUE, tracks |-> <<Video(4, 3), Video(2, 1), Sound>>, unknown |-> 1,
     userData |-> <<UserBox(FALSE, {})>>, moovFirst |-> {TRUE}]
Rewritten ==
    [size |-> 10, reads |-> TRUE, tracks |-> <<Sound, Video(2, 4)>>, unknown |-> 0,
     userData |-> <<UserBox(TRUE, {"Lavf"})>>, moovFirst |-> {FALSE}]
NoPicture == [size |-> 20, reads |-> TRUE, tracks |-> <<Bare>>, unknown |-> 0, userData |-> <<>>, moovFirst |-> {}]
Garbage == [size |-> 20, reads |-> FALSE, tracks |-> <<>>, unknown |-> 0, userData |-> <<>>, moovFirst |-> {}]
Holding(content) == [size |-> content.size, modified |-> 1, content |-> {content}]

Everything == [path |-> 0, directory |-> <<>>]
Card == [path |-> 0, directory |-> <<"card">>]
One(path) == [path |-> path, directory |-> <<>>]

Groups ==
    {[files |-> [i \in 1..3 |-> Holding(held[i])], directories |-> <<<<"card", "new">>, <<"card">>, <<>>>>,
      names |-> [i \in 1..3 |-> Names[named[i]]], given |-> given, cached |-> FALSE, others |-> FALSE, fails |-> FALSE] :
       named \in {n \in [1..3 -> 1..14] : n[1] <= n[2] /\ n[2] <= n[3]},
       held \in {<<a, b, c>> : a \in {TwoCameras, Rewritten}, b \in {TwoCameras, Rewritten, Garbage}, c \in {TwoCameras, Rewritten}},
       given \in {<<Everything>>}}
    \cup {[files |-> <<Holding(TwoCameras), Holding(held), Missing>>, directories |-> <<<<"card", "new">>, <<>>, <<"card">>>>,
           names |-> <<Names[a], Names[b], Names[3]>>, given |-> given, cached |-> FALSE, others |-> FALSE, fails |-> FALSE] :
       a \in 1..14, b \in 1..14, held \in {NoPicture, Rewritten},
       given \in {<<Card, One(1)>>, <<One(2), One(3), Everything>>, <<Card>>}}

Caches ==
    {[files |-> <<file>>, directories |-> <<<<>>>>, names |-> <<Names[2]>>,
      given |-> <<One(1)>>, cached |-> cached, others |-> TRUE, fails |-> TRUE] :
       file \in {Holding(TwoCameras), Missing}, cached \in BOOLEAN}

Listings ==
    {[files |-> <<Holding(TwoCameras), Holding(Rewritten), Holding(TwoCameras)>>,
      directories |-> <<<<"card", "new">>, <<"card">>, <<>>>>, names |-> <<Names[2], Names[b], Names[c]>>,
      given |-> given, cached |-> cached, others |-> FALSE, fails |-> TRUE] :
       b \in {4, 14}, c \in {1, 11}, cached \in BOOLEAN,
       given \in {<<Everything>>, <<Card, One(1)>>, <<Card, Everything>>}}

OneStem ==
    {[files |-> [i \in 1..3 |-> Holding(TwoCameras)], directories |-> <<<<"card", "new">>, <<"card">>, <<"card">>>>,
      names |-> <<Names[2], Names[2], Names[4]>>, given |-> <<Card>>, cached |-> FALSE, others |-> FALSE, fails |-> FALSE]}

Libraries == Groups \cup Caches \cup Listings
Written == {TwoCameras, Rewritten, NoPicture}
=============================================================================
