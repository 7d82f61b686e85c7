--------------------------- MODULE MCChangeReports ---------------------------
(* ChangeReports for TLC. *)
EXTENDS ChangeReports
=============================================================================
