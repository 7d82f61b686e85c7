--------------------------- MODULE MCInstanceStart ---------------------------
(* InstanceStart for TLC. *)
EXTENDS InstanceStart
=============================================================================
