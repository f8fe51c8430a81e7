--------------------------- MODULE MCExportApart ---------------------------
(* The instances whose names are apart: the theorems about names that are apart apply to them. *)
EXTENDS MCExport

ASSUME ApartAssumption == NamesApart /\ OneNameEach
=============================================================================
