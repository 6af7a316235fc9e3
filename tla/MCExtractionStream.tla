------------------------- MODULE MCExtractionStream -------------------------
(* Two files that may be copies of one another and a third of another name. *)
EXTENDS ExtractionStream

MCFiles == 1..3
MCStem == <<"mod", "mod", "lib">>
=============================================================================
