--------------------------- MODULE MCHybridClock ---------------------------
(* Replicas, clocks and frontiers on small sets of nodes and times. *)
EXTENDS HybridClock, FiniteSetsExt

CONSTANT MaxCommits   \* bound on the transactions of all replicas

Few == MapThenSumSet(LAMBDA n : Len(log[n]), Nodes) <= MaxCommits
=============================================================================
