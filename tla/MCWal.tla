------------------------------- MODULE MCWal -------------------------------
(* The log on its own, driven by a client that appends any epoch at any time. *)
EXTENDS Wal, FiniteSets, TLC

CONSTANTS MaxFrames   \* bound on the length of the file

Short == Len(wal) <= MaxFrames

TxSymmetry == Permutations(Txs)
=============================================================================
