------------------------------ MODULE Children ------------------------------
(***************************************************************************)
(* The boxes inside a movie box: enumerate and Child::enumerate of         *)
(* core/crates/adiungere-isobmff/src/parse.rs, which module Reader takes   *)
(* as one choice, read or refused.  The recursion of the code is a stack   *)
(* of the boxes being enumerated; one step reads one child header, enters  *)
(* the child when it holds boxes, or leaves a box that was read to its end.*)
(*                                                                         *)
(* The bytes of a header are any bytes, chosen when they are read, so      *)
(* every payload of the given lengths is covered.  The code appends a box  *)
(* to its parent's list after the boxes inside it; here it is numbered     *)
(* before them, which nothing can tell: an error discards the whole list.  *)
(***************************************************************************)
EXTENDS Integers, Sequences, FiniteSets

CONSTANTS
    Kind,           \* box types
    Descended,      \* containers that hold nothing but boxes
    Visual, Audio,  \* sample entries whose layout is known
    Lengths,        \* lengths of the movie box's payload
    Bytes,          \* what the bytes of a header may hold
    Versions,       \* what the version field of an audio entry may hold
    VisualFixed,    \* the header and the fixed fields of a visual entry
    AudioFixed,     \* those of an audio entry, by version
    MaxDepth,       \* how deeply boxes may nest
    MaxChildren     \* how many children one box may hold

Small == 8       \* a header with a 32-bit size
Wide == 16       \* a header with a 64-bit size
Described == 8   \* version, flags and entry count of a sample description
VersionEnd == 18 \* the end of an audio entry's version field

ASSUME KindAssumption ==
    /\ "moov" \in Descended
    /\ Descended \cup Visual \cup Audio \cup {"udta", "stsd"} \subseteq Kind
    /\ Descended \cap {"udta", "stsd"} = {}
    /\ (Visual \cup Audio) \cap (Descended \cup {"udta", "stsd"}) = {}
    /\ Visual \cap Audio = {}
ASSUME SizeAssumption ==
    /\ Lengths \subseteq Nat
    /\ Bytes \subseteq [size32 : Nat, kind : Kind, large : Nat]
    /\ VisualFixed \in Nat /\ VisualFixed > Wide
    /\ DOMAIN AudioFixed \subseteq Versions
    /\ \A v \in DOMAIN AudioFixed : AudioFixed[v] \in Nat /\ AudioFixed[v] >= VersionEnd
    /\ MaxDepth \in Nat \ {0}
    /\ MaxChildren \in Nat

VARIABLES
    boxes,   \* every range found, the movie box first, parents before children
    open,    \* the boxes being enumerated, outermost first
    answer   \* "reading", "done", or the error returned

vars == <<boxes, open, answer>>

Refusal == {"too deep", "too many", "truncated", "undersized", "overrun"}

Init ==
    /\ \E n \in Lengths :
         boxes = <<[kind |-> "moov", offset |-> 0, size |-> Small + n, header |-> Small,
                    fields |-> 0, parent |-> 0, clipped |-> FALSE, declared |-> Small + n]>>
    /\ open = <<[box |-> 1, cursor |-> Small]>>
    /\ answer = "reading"

-----------------------------------------------------------------------------
(* Ranges, and the box being enumerated. *)

End(i) == boxes[i].offset + boxes[i].size
ChildrenOffset(i) == boxes[i].offset + boxes[i].header + boxes[i].fields
Kids(i) == {j \in DOMAIN boxes : boxes[j].parent = i}

(* Boxes are read strictly in the containers of a movie, leniently wherever a vendor writes. *)
Lenient(i) == boxes[i].kind \notin Descended

Top == open[Len(open)]
Cursor == Top.cursor
Remaining == End(Top.box) - Cursor
HasRoom == Cardinality(Kids(Top.box)) < MaxChildren

(* read_header. *)
HeaderOf(b) == IF b.size32 = 1 THEN Wide ELSE Small
Declared(b) ==
    IF b.size32 = 0 THEN Remaining ELSE IF b.size32 = 1 THEN b.large ELSE b.size32
ProblemButNotSize(b) == IF b.size32 = 1 /\ Remaining < Wide THEN "truncated" ELSE "none"
Problem(b) ==
    IF Remaining < Small \/ (b.size32 = 1 /\ Remaining < Wide) THEN "truncated"
    ELSE IF Declared(b) < HeaderOf(b) THEN "undersized" ELSE "none"

(* fixed_fields_length: the bytes of a sample entry before its boxes, 0 when its layout is not known. *)
FixedFields(kind, size, version) ==
    IF kind \in Visual THEN VisualFixed
    ELSE IF kind \in Audio /\ size >= VersionEnd /\ version \in DOMAIN AudioFixed
         THEN AudioFixed[version] ELSE 0

IsEntry(kind, size, version) ==
    /\ boxes[Top.box].kind = "stsd"
    /\ FixedFields(kind, size, version) \in 1..size

(* Child::enumerate: whether a box holds boxes, and how many bytes of its own precede them. *)
HoldsBoxes(kind, size, version) ==
    kind \in Descended \cup {"udta", "stsd"} \/ IsEntry(kind, size, version)
FieldsUncut(kind, size, header, version) ==
    IF kind \in Descended \cup {"udta"} THEN 0
    ELSE IF kind = "stsd" THEN Described
    ELSE FixedFields(kind, size, version) - header
Fields(kind, size, header, version) ==
    IF kind \in Descended \cup {"udta"} THEN 0
    ELSE IF kind = "stsd" THEN IF size - header < Described THEN size - header ELSE Described
    ELSE FixedFields(kind, size, version) - header

-----------------------------------------------------------------------------
(* One step of enumerate. *)

Refuse(error) ==
    /\ answer' = error
    /\ UNCHANGED <<boxes, open>>

MoveTo(cursor) == open' = [open EXCEPT ![Len(open)].cursor = cursor]

(* The code forgets what a clipped box declared; it is kept here for CapsAreHonest.  What does not read as a
   box, and has no header, declares nothing. *)
Push(b, size, header, fields, clipped) ==
    boxes' = Append(boxes, [kind |-> b.kind, offset |-> Cursor, size |-> size, header |-> header,
                            fields |-> fields, parent |-> Top.box, clipped |-> clipped,
                            declared |-> IF header = 0 THEN 0 ELSE Declared(b)])

(* A box read to its end: back to the box around it, or the movie box is read. *)
Leave ==
    /\ answer = "reading"
    /\ Remaining <= 0
    /\ open' = SubSeq(open, 1, Len(open) - 1)
    /\ answer' = IF Len(open) = 1 THEN "done" ELSE answer
    /\ UNCHANGED boxes

StopAtCap ==
    /\ answer = "reading"
    /\ Remaining > 0
    /\ ~HasRoom
    /\ MoveTo(End(Top.box))
    /\ UNCHANGED <<boxes, answer>>

RefuseAnotherChild ==
    /\ answer = "reading"
    /\ Remaining > 0
    /\ ~HasRoom
    /\ Refuse("too many")

MayRead ==
    /\ answer = "reading"
    /\ Remaining > 0
    /\ HasRoom

(* Bytes that do not read as a box: an error, or what is left of the box as one clipped range. *)
RefuseHeader(b) ==
    /\ MayRead
    /\ Problem(b) # "none"
    /\ ~Lenient(Top.box)
    /\ Refuse(Problem(b))

KeepHeaderAsTail(b) ==
    /\ MayRead
    /\ Problem(b) # "none"
    /\ Lenient(Top.box)
    /\ Push(b, IF Remaining < Small THEN Remaining ELSE Small, 0, 0, TRUE)
    /\ MoveTo(End(Top.box))
    /\ UNCHANGED answer

KeepTail(b) ==
    /\ MayRead
    /\ Problem(b) # "none"
    /\ Lenient(Top.box)
    /\ Push(b, Remaining, 0, 0, TRUE)
    /\ MoveTo(End(Top.box))
    /\ UNCHANGED answer

(* A child that declares more than its parent holds: an error, or a range clipped to the parent and not
   looked into. *)
RefuseOverrun(b) ==
    /\ MayRead
    /\ Problem(b) = "none"
    /\ Declared(b) > Remaining
    /\ ~Lenient(Top.box)
    /\ Refuse("overrun")

ClipChild(b) ==
    /\ MayRead
    /\ Problem(b) = "none"
    /\ Declared(b) > Remaining
    /\ Lenient(Top.box)
    /\ Push(b, Remaining, HeaderOf(b), 0, TRUE)
    /\ MoveTo(End(Top.box))
    /\ UNCHANGED answer

WholeChild(b) ==
    /\ MayRead
    /\ Problem(b) = "none"
    /\ Declared(b) <= Remaining

PassLeaf(b, version) ==
    /\ WholeChild(b)
    /\ ~HoldsBoxes(b.kind, Declared(b), version)
    /\ Push(b, Declared(b), HeaderOf(b), 0, FALSE)
    /\ MoveTo(Cursor + Declared(b))
    /\ UNCHANGED answer

ClipDeeper(b, version) ==
    /\ WholeChild(b)
    /\ HoldsBoxes(b.kind, Declared(b), version)
    /\ Len(open) >= MaxDepth
    /\ Push(b, Declared(b), HeaderOf(b), 0, TRUE)
    /\ MoveTo(Cursor + Declared(b))
    /\ UNCHANGED answer

RefuseDeeper(b, version) ==
    /\ WholeChild(b)
    /\ HoldsBoxes(b.kind, Declared(b), version)
    /\ Len(open) >= MaxDepth
    /\ Refuse("too deep")

(* The cursor of the parent is already past the child when the boxes of the child are read. *)
Enter(b, version) ==
    LET fields == Fields(b.kind, Declared(b), HeaderOf(b), version) IN
    /\ WholeChild(b)
    /\ HoldsBoxes(b.kind, Declared(b), version)
    /\ Len(open) < MaxDepth
    /\ Push(b, Declared(b), HeaderOf(b), fields, FALSE)
    /\ open' = Append([open EXCEPT ![Len(open)].cursor = Cursor + Declared(b)],
                      [box |-> Len(boxes) + 1, cursor |-> Cursor + HeaderOf(b) + fields])
    /\ UNCHANGED answer

ReadChild(b, version) ==
    \/ RefuseHeader(b)
    \/ KeepTail(b)
    \/ RefuseOverrun(b)
    \/ ClipChild(b)
    \/ PassLeaf(b, version)
    \/ RefuseDeeper(b, version)
    \/ Enter(b, version)

Next ==
    \/ Leave
    \/ RefuseAnotherChild
    \/ \E b \in Bytes, version \in Versions : ReadChild(b, version)

Spec == Init /\ [][Next]_vars

-----------------------------------------------------------------------------
(* BoxRange::children_tile_payload, for one box: "no gap, no overlap, in order", and nothing to say of a
   box without children. *)
TilesPayload(i) ==
    LET first(j) == \A k \in Kids(i) : j <= k
        after(j, k) == j < k /\ \A n \in Kids(i) : n <= j \/ k <= n
    IN
    \/ Kids(i) = {}
    \/ /\ \A j \in Kids(i) : first(j) => boxes[j].offset = ChildrenOffset(i)
       /\ \A j, k \in Kids(i) : after(j, k) => boxes[k].offset = End(j)
       /\ \A j \in Kids(i) : (\A k \in Kids(i) : k <= j) => End(j) = End(i)

Box == [kind : Kind, offset : Nat, size : Nat, header : {0, Small, Wide},
        fields : Nat, parent : Nat, clipped : BOOLEAN, declared : Nat]
Frame == [box : Nat, cursor : Nat]
TypeOK ==
    /\ boxes \in Seq(Box)
    /\ open \in Seq(Frame)
    /\ answer \in {"reading", "done"} \cup Refusal
    /\ answer = "done" <=> open = <<>>
    /\ \A f \in DOMAIN open :
         /\ open[f].box \in DOMAIN boxes
         /\ open[f].cursor \in ChildrenOffset(open[f].box)..End(open[f].box)

(* The boxes whose own boxes are enumerated, as far as they have been. *)
Entered(i) ==
    /\ ~boxes[i].clipped
    /\ \/ boxes[i].kind \in Descended \cup {"udta", "stsd"}
       \/ boxes[i].fields > 0
ReadTo(i) ==
    IF \E f \in DOMAIN open : open[f].box = i
    THEN open[CHOOSE f \in DOMAIN open : open[f].box = i].cursor ELSE End(i)

(* "The ranges still have to tile the parent": every byte read of a container is in exactly one of its
   children, whatever a vendor wrote there, and a child has no byte outside.  It is more than
   children_tile_payload, which holds of any container that yielded no children. *)
EveryByteInOneChild ==
    \A i \in DOMAIN boxes :
        /\ Entered(i) => \A byte \in ChildrenOffset(i)..(ReadTo(i) - 1) :
             Cardinality({j \in Kids(i) : byte \in boxes[j].offset..(End(j) - 1)}) = 1
        /\ \A j \in Kids(i) : boxes[j].offset >= ChildrenOffset(i) /\ End(j) <= ReadTo(i)
        /\ answer = "done" => TilesPayload(i)

(* A range that is not a whole box ends its parent, nothing was looked for inside it, and it lies in a box
   a vendor may write: under user data, in a sample description or in a sample entry. *)
ClippedOnlyAtTheEnd ==
    \A j \in DOMAIN boxes : boxes[j].clipped =>
        /\ End(j) = End(boxes[j].parent)
        /\ Kids(j) = {}
        /\ \A k \in Kids(boxes[j].parent) : k <= j
        /\ Lenient(boxes[j].parent)

(* The caps bound the tree and the recursion, and what is past a cap refuses the file.  A refusal for the
   width comes with the cap used up and bytes left, one for the depth with the deepest level open and bytes
   left.  A file that was read in full left nothing out at a cap: every box that holds boxes, a visual entry
   among them, was read up to a child that ends where it ends, and a box cut short declared more than the box
   around it holds, so none was cut to stay within the depth. *)
Around(i) == {k \in DOMAIN boxes : k < i /\ boxes[k].offset < boxes[i].offset /\ End(i) <= End(k)}
VisualEntry(i) ==
    /\ ~boxes[i].clipped
    /\ boxes[i].kind \in Visual /\ VisualFixed <= boxes[i].size
    /\ boxes[i].parent \in DOMAIN boxes /\ boxes[boxes[i].parent].kind = "stsd"
ReadInFull(i) ==
    (Entered(i) \/ VisualEntry(i)) /\ ChildrenOffset(i) < End(i) => \E j \in Kids(i) : End(j) = End(i)
WithinCaps ==
    /\ Len(open) <= MaxDepth
    /\ \A i \in DOMAIN boxes :
         /\ Cardinality(Kids(i)) <= MaxChildren
         /\ Entered(i) => Cardinality(Around(i)) < MaxDepth
RefusedAtACap ==
    /\ answer = "too many" => Cardinality(Kids(Top.box)) = MaxChildren /\ Remaining > 0
    /\ answer = "too deep" => Len(open) = MaxDepth /\ Remaining > 0
NothingCutByACap ==
    /\ answer = "done" => \A i \in DOMAIN boxes : ReadInFull(i)
    /\ \A i \in DOMAIN boxes : boxes[i].clipped /\ boxes[i].header # 0 => boxes[i].declared > boxes[i].size
CapsAreHonest == WithinCaps /\ RefusedAtACap /\ NothingCutByACap
=============================================================================
