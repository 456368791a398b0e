--------------------------- MODULE MCMerkleProofs ---------------------------
(* Constants of MerkleProofs for TLC. *)
EXTENDS MerkleProofs

OneSession == {"cli"}
TwoAccounts == {"alice", "bob"}

\* The second operator has no rewards in the second cycle.
MostShares == {<<"alice", 1>>, <<"alice", 2>>, <<"bob", 1>>}
=============================================================================
