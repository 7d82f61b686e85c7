---------------------------- MODULE MCGitSchedule ----------------------------
(* GitSchedule for TLC; it needs no model values. *)
EXTENDS GitSchedule
=============================================================================
