--------------------------- MODULE MCFlattenObjects ---------------------------
(* Three slots inside a four-bit bitmap, so the bitmap has a free bit    *)
(* past CAP; ids 0..3 include one out of range; two objects, so a full   *)
(* table holds one of them twice.                                          *)
EXTENDS FlattenObjects

CONSTANTS v1, v2
MCValues == {v1, v2}
=============================================================================
