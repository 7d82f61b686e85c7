------------------------- MODULE MCIndexPublication -------------------------
(* IndexPublication on small bounds; the configurations give them. *)
EXTENDS IndexPublication
=============================================================================
