---------------------------- MODULE MCNoteWrites ----------------------------
(* NoteWrites for TLC. *)
EXTENDS NoteWrites
=============================================================================
