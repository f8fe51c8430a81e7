---------------------------- MODULE ReaderDriver ----------------------------
(***************************************************************************)
(* The drivers of the box reader: `parse` and `parse_async`                *)
(* (core/crates/adiungere-isobmff/src/parse.rs), which make the same calls *)
(* in the same order, over a source that hands out the bytes asked for or  *)
(* fails (core/crates/adiungere-isobmff/src/source.rs).                    *)
(***************************************************************************)
EXTENDS Reader

(* Media data is among the boxes stepped over (STEPPED_OVER of parse.rs). *)
ASSUME MediaAssumption == "mdat" \in SteppedOver

VARIABLES
    at,       \* where the loop stands
    request,  \* the range to read
    reads     \* history: every range read, as CountingSource records them

driverVars == <<vars, at, request, reads>>

None == [offset |-> 0, length |-> 0]

DriverInit ==
    /\ Init
    /\ at = "stepping"
    /\ request = None
    /\ reads = {}

MinOf(m, n) == IF m < n THEN m ELSE n

(* The range a caller is told to read: by step, for a header; by body_request, for a body. *)
Request(asked) ==
    CASE asked.what = "header" ->
           [offset |-> asked.offset, length |-> MinOf(length - asked.offset, Wide)]
      [] asked.what = "body" -> [offset |-> asked.offset, length |-> asked.size]
      [] OTHER -> None

RetryForEver == IF answer' = "done" THEN "returned"
                ELSE IF outstanding'.what = "nothing" THEN "stepping" ELSE "reading"
StepAgain == IF answer' \in Refusal \cup {"done"} THEN "returned"
             ELSE IF at = "feeding" THEN "stepping" ELSE "reading"

(* The next call follows from the last answer. *)
After == IF answer' \in Refusal \cup {"done"} THEN "returned"
         ELSE IF outstanding'.what = "nothing" THEN "stepping" ELSE "reading"

DriverStep ==
    /\ at = "stepping"
    /\ Step
    /\ at' = After
    /\ request' = Request(outstanding')
    /\ UNCHANGED reads

(* Source::read_range: the bounds are checked before a byte is read. *)
InBounds == request.offset + request.length <= length

ReadSource ==
    /\ at = "reading"
    /\ InBounds
    /\ reads' = reads \cup {request}
    /\ at' = "feeding"
    /\ UNCHANGED <<vars, request>>

(* The bytes are out of bounds, or the read fails. *)
SourceFails ==
    /\ at = "reading"
    /\ at' = "returned"
    /\ UNCHANGED <<vars, request, reads>>

DriverFeed ==
    /\ at = "feeding"
    /\ \/ \E b \in Bytes : FeedHeader(b, request.length)
       \/ \E sound \in BOOLEAN : FeedWhole(request.length, sound)
    /\ at' = After
    /\ request' = Request(outstanding')
    /\ UNCHANGED reads

DriverNext == DriverStep \/ ReadSource \/ SourceFails \/ DriverFeed

(* The loop runs until it returns: nothing else does anything. *)
DriverSpec == DriverInit /\ [][DriverNext]_driverVars /\ WF_driverVars(DriverNext)

-----------------------------------------------------------------------------
(* Properties. *)

(* Every loop ends, whatever the bytes are. *)
DriverReturns == <>(at = "returned")

(* A driver that follows the protocol is never told that it does not. *)
ProtocolKept == answer # "protocol"

Overlaps(read, from, to) == read.offset < to /\ from < read.offset + read.length
Media == {i \in DOMAIN topLevel : topLevel[i].kind = "mdat"}

(* "Reading a header never touches the media payload" (docs/adr/0004), as far as the code keeps it: of a
   media data box, whole or clipped, nothing past its first 16 bytes is read, neither for its own header
   (16 bytes are asked for where 8 are the header) nor for a box that lies before it. *)
MediaSteppedOver ==
    \A i \in Media : \A read \in reads :
        ~Overlaps(read, topLevel[i].offset + Wide, EndOf(topLevel[i]))

(* A body is asked for within the file: the source never has to refuse a range out of bounds. *)
RequestsAreInBounds == at = "reading" => InBounds
=============================================================================
