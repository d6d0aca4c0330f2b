---------------------------- MODULE MCObservers ----------------------------
(* Commit notification on small sets of threads and observers. *)
EXTENDS Observers
=============================================================================
