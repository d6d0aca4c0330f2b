-------------------------- MODULE MCChunkTransfer --------------------------
(* Two snapshots that share a subtree, copied by concurrent callers. *)
EXTENDS ChunkTransfer

\* Manifest 1 of the trees 2 and 3, which share the inner chunk 4; leaf 5.
MCChunks == 1..5
MCChildren == << <<2, 3>>, <<4, 5>>, <<4>>, <<5>>, << >> >>
=============================================================================
