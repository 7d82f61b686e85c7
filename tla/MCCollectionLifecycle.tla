------------------------ MODULE MCCollectionLifecycle ------------------------
(* Instances of CollectionLifecycle for TLC.                               *)
EXTENDS CollectionLifecycle, TLC

CONSTANTS v1, v2, w1

VaultSymmetry == Permutations(Vault)
=============================================================================
