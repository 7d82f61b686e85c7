---------------------------- MODULE MCSnapshotBuild ----------------------------
(* SnapshotBuild for TLC: one Vault starts with two notes, the other with one. *)
EXTENDS SnapshotBuild

CONSTANTS v1, v2, n1, n2
AtFirst == [v \in Vault |-> [n \in Note |-> IF v = v2 /\ n = n2 THEN 0 ELSE 1]]
=============================================================================
