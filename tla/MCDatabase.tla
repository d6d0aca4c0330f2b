----------------------------- MODULE MCDatabase -----------------------------
(* The commit path on small sets of writers and transactions. *)
EXTENDS Database, TLC

Symmetry == Permutations(Txs) \cup Permutations(Writers)
=============================================================================
