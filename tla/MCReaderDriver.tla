--------------------------- MODULE MCReaderDriver ---------------------------
(* Instances of ReaderDriver, over the bytes of MCReader. *)
EXTENDS ReaderDriver, MCReader
=============================================================================
