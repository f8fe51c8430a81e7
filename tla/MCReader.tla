------------------------------ MODULE MCReader ------------------------------
(* Instances of Reader: small files, boxes of a few bytes, small caps. *)
EXTENDS Reader

Kinds == {"moov", "ftyp", "mdat", "junk", "nul"}

(* Sizes: 0 extends to the end, 1 has its size in 64 bits, 7 is smaller than a header, 8 is a header alone,
   12 and 20 hold something, 20 and 22 are over a cap; a wide size may be smaller than its header, or larger than
   any file. *)
Header(s, k, l) == [size32 |-> s, kind |-> k, large |-> l]
SomeBytes ==
    {Header(s, k, 0) : s \in {0, 7, 8, 12, 20, 22}, k \in Kinds}
    \cup {Header(1, k, l) : l \in {0, 15, 16, 20, 1000}, k \in Kinds}
SomeCounts == {3, 7, 8, 16}
=============================================================================
