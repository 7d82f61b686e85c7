----------------------------- MODULE MCRegistry -----------------------------
(* Registry for TLC: interchangeable clients, and Vaults.                   *)
EXTENDS Registry, TLC

Symmetry == Permutations(Client) \cup Permutations(Vault)
=============================================================================
