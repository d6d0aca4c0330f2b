---------------------------- MODULE MCColdStart ----------------------------
(* A data directory with two threads that write checkpoints. *)
EXTENDS ColdStart, TLC

Symmetry == Permutations(Txs) \cup Permutations(Checkpointers)
=============================================================================
