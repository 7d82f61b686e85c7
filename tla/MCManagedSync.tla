---------------------------- MODULE MCManagedSync ----------------------------
(* ManagedSync for TLC. *)
EXTENDS ManagedSync
=============================================================================
