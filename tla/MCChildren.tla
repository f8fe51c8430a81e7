----------------------------- MODULE MCChildren -----------------------------
(* Instances of Children: payloads of a few dozen bytes, two or three boxes to a level. *)
EXTENDS Children, TLC

Kinds == {"moov", "trak", "udta", "stsd", "avc1", "mp4a", "leaf"}

(* Sizes: 0 extends to the end, 1 has its size in 64 bits, 7 is smaller than a header,
   12 leaves fewer bytes than a header needs, 40 holds boxes and may overrun; a wide size
   may be smaller than its header. *)
Header(s, k, l) == [size32 |-> s, kind |-> k, large |-> l]
SomeBytes ==
    {Header(s, k, 0) : s \in {0, 7, 12, 40}, k \in Kinds \ {"moov"}}
    \cup {Header(1, k, l) : l \in {15, 16}, k \in Kinds \ {"moov"}}

(* Fixed fields are shorter than the standard's, and keep their order. *)
AudioLayouts == 0 :> 18 @@ 1 :> 19
=============================================================================
