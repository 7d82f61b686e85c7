----------------------------- MODULE MCVaultWork -----------------------------
(* VaultWork for TLC.  Its run checks liveness, so no Vaults are taken for  *)
(* one another: symmetry would not be sound.                                *)
EXTENDS VaultWork, TLC
=============================================================================
