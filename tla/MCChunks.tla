------------------------------ MODULE MCChunks ------------------------------
(* SnapshotChunks for few threads and the snapshots they may have at once.   *)
(* Neither the threads nor the contents of records are told apart.           *)
EXTENDS SnapshotChunks, TLC

Alike == Permutations(Threads) \cup Permutations(Values)
=============================================================================
