-------------------------- MODULE MCEdgeCloudPush --------------------------
(* Small instances of EdgeCloudPush for TLC. *)
EXTENDS EdgeCloudPush, TLC

CONSTANTS r1, r2

TwoRequests == {r1, r2}
RequestSymmetry == Permutations(TwoRequests)
=============================================================================
